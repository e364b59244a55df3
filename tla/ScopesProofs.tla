---------------------------- MODULE ScopesProofs ----------------------------
(***************************************************************************)
(* What holds of every function that Scopes compiles and runs, whatever    *)
(* its size, its kinds of statement and the capacities.                    *)
(*                                                                         *)
(* Each action of the parser keeps Compiling: it leaves a tower for the    *)
(* statements that are then open.  At the closing brace the tower is that  *)
(* of the function alone, so that nothing is left over, and every label    *)
(* that was still to be put has been.  What the engine then runs is        *)
(* Finished, and each of its steps leads to a place in the code.           *)
(*                                                                         *)
(* Each action keeps Leading, too: there are purposes P of the labels, and *)
(* places E of what has ended, with which the jumps are Homing and the     *)
(* labels AtHome.  At the closing brace no label has a purpose any more,   *)
(* so that every break and continue has its target, and it is the right    *)
(* one.                                                                    *)
(***************************************************************************)
EXTENDS ScopesLemmas
-----------------------------------------------------------------------------
(* The end of the function                                                 *)
JumpsSet(c) ==
  \A i \in 1 .. Len(c.code) : c.code[i].op \in JumpOps \union {"JSWITCH"} => c.code[i].arg # 0
Emptied(c) ==
  /\ Len(c.label_stack) = 0 /\ Len(c.break_stack) = 0 /\ Len(c.continue_stack) = 0
  /\ Len(c.switch_stack) = 0 /\ Len(c.mTryStack) = 0 /\ Len(c.block_stack) = 0
  /\ c.label_stack = <<>> /\ c.break_stack = <<>> /\ c.continue_stack = <<>>
  /\ c.switch_stack = <<>> /\ c.mTryStack = <<>> /\ c.block_stack = <<>>
  /\ c.in_loop = FALSE /\ c.in_switch = FALSE
\* No jump, switch or handler leads further than m.
InCode(c, m) ==
  /\ \A i \in 1 .. Len(c.code) :
       /\ c.code[i].op \in JumpOps \union {"JSWITCH"} => c.code[i].arg <= m
       /\ c.code[i].table \subseteq 1 .. m
  /\ \A s \in 1 .. MaxObjects : c.catch[s] \subseteq 1 .. m
RetRefs(c) ==
  \A i \in c.label[RetLabel].refs :
    i \in 1 .. Len(c.code) /\ c.code[i].op \in JumpOps \union {"HALT"}
\* Only the function's own context is left.
EndShape(c) ==
  /\ CodeShape(c) /\ c.catch \in [1 .. MaxObjects -> SUBSET Nat]
  /\ JumpsSet(c) /\ RetRefs(c) /\ Emptied(c)
  /\ c.context_stack \in Seq(0 .. c.size) /\ Len(c.context_stack) = 1
  /\ "trailing" \notin Forms => InCode(c, Len(c.code) + 1)
EndPost(c, d) ==
  EndShape(d) /\ Len(d.code) = Len(c.code)

\* All but the code and its labels is as it was.
EndFrame(c, d) ==
  /\ DOMAIN d = Fields
  /\ d.label_stack = c.label_stack /\ d.break_stack = c.break_stack
  /\ d.continue_stack = c.continue_stack /\ d.switch_stack = c.switch_stack
  /\ d.mTryStack = c.mTryStack /\ d.block_stack = c.block_stack
  /\ d.in_loop = c.in_loop /\ d.in_switch = c.in_switch
  /\ d.size = c.size /\ d.catch = c.catch

\* Stacks that do not change stay empty.
LEMMA EmptiedKept ==
  ASSUME NEW c, Emptied(c), NEW d, EndFrame(c, d)
  PROVE  Emptied(d)
BY DEF Emptied, EndFrame

\* The label of the function's returns is put here, or before the last
\* instruction.
LEMMA EndHereOK ==
  ASSUME NEW c, EndShape(c), NEW off \in {0, -1}, Len(c.code) + off >= 0,
         NEW d, d = Here(c, RetLabel, off)
  PROVE  EndPost(c, d)
<1>1. /\ CodeShape(c) /\ c.catch \in [1 .. MaxObjects -> SUBSET Nat]
      /\ JumpsSet(c) /\ RetRefs(c) /\ Emptied(c)
      /\ c.context_stack \in Seq(0 .. c.size) /\ Len(c.context_stack) = 1
      /\ ("trailing" \notin Forms => InCode(c, Len(c.code) + 1))
      /\ DOMAIN c = Fields /\ IsSeq(c.code) /\ c.label \in Seq(LabelType)
  BY DEF EndShape, CodeShape
<1>2. /\ Len(c.code) \in Nat /\ Len(c.label) \in Nat \ {0}
  BY <1>1, ShapeFacts
<1>3. PICK l : l = RetLabel
  OBVIOUS
<1>4. l \in 1 .. Len(c.label)
  BY <1>2, <1>3 DEF RetLabel
<1>5. PICK to \in Nat : to = Len(c.code) + 1 + off
  BY <1>2
<1>6. to # 0 /\ to <= Len(c.code) + 1
  BY <1>2, <1>5
<1> DEFINE Code == [i \in DOMAIN c.code |->
                      IF i \in c.label[l].refs THEN [c.code[i] EXCEPT !.arg = to]
                      ELSE c.code[i]]
           x == [c.label[l] EXCEPT !.to = to]
<1>7. d = [c EXCEPT !.label[l].to = to, !.code = Code]
  <2>1. IpOffset(c) + off = to
    BY <1>2, <1>5 DEF IpOffset
  <2>2. QED
    BY <1>3, <2>1 DEF Here
<1> HIDE DEF Code
<1>8. PICK a : a = [c EXCEPT !.label[l].to = to]
  OBVIOUS
<1>9. "label" \in Fields /\ "code" \in Fields
  BY DEF Fields
<1>10. a.label = [c.label EXCEPT ![l] = x] /\ DOMAIN a = Fields
       /\ \A f \in Fields \ {"label"} : a[f] = c[f]
  BY <1>1, <1>8, <1>9
<1>11. d = [a EXCEPT !.code = Code]
  BY <1>7, <1>8
<1>12. d.label = [c.label EXCEPT ![l] = x] /\ d.code = Code /\ DOMAIN d = Fields
       /\ \A f \in Fields \ {"code"} : d[f] = a[f]
  BY <1>9, <1>10, <1>11
<1>13. \A f \in Fields \ {"code", "label"} : d[f] = c[f]
  BY <1>10, <1>12
<1>14. EndFrame(c, d) /\ d.context_stack = c.context_stack
  BY <1>12, <1>13 DEF Fields, EndFrame
<1>15. c.label[l] \in LabelType
  BY <1>1, <1>4, ElementOfSeq
<1>16. x \in LabelType /\ x.refs = c.label[l].refs
  BY <1>15 DEF LabelType
<1> HIDE DEF x
<1>17. /\ d.label \in Seq(LabelType) /\ Len(d.label) = Len(c.label)
       /\ \A k \in 1 .. Len(c.label) : d.label[k] = IF k = l THEN x ELSE c.label[k]
  <2>1. c.label \in Seq(LabelType) /\ x \in LabelType /\ d.label = [c.label EXCEPT ![l] = x]
    BY <1>1, <1>12, <1>16
  <2>2. QED
    BY <1>4, <2>1, ExceptSeq
<1>18. DOMAIN c.code = 1 .. Len(c.code)
  BY <1>1, SeqShape
<1>19. IsSeq(d.code) /\ Len(d.code) = Len(c.code)
  <2>1. d.code = [i \in 1 .. Len(c.code) |-> d.code[i]]
    BY <1>12, <1>18 DEF Code
  <2>2. QED
    BY <1>2, <2>1, FunctionShape
<1>20. ASSUME NEW i \in 1 .. Len(c.code)
       PROVE  /\ d.code[i].op = c.code[i].op /\ d.code[i].table = c.code[i].table
              /\ d.code[i].arg = IF i \in c.label[l].refs THEN to ELSE c.code[i].arg
              /\ DOMAIN d.code[i] = DOMAIN c.code[i]
  <2>1. d.code[i] = IF i \in c.label[l].refs THEN [c.code[i] EXCEPT !.arg = to] ELSE c.code[i]
    BY <1>12, <1>18 DEF Code
  <2>2. DOMAIN c.code[i] = {"op", "arg", "table", "at"}
    BY <1>1 DEF CodeShape, InstrOK
  <2>3. QED
    BY <2>1, <2>2
<1>21. CodeShape(d)
  <2>1. d.label # <<>>
    BY <1>2, <1>17, EmptySeq
  <2>2. ASSUME NEW i \in 1 .. Len(c.code) PROVE InstrOK(d.code[i], d.size)
    <3>1. InstrOK(c.code[i], c.size) /\ d.size = c.size
      BY <1>1, <1>14 DEF CodeShape, EndFrame
    <3>2. i \in c.label[l].refs => c.code[i].op \notin {"TOSD", "MARK", "UNWIND"}
      BY <1>1, <1>3 DEF RetRefs, JumpOps
    <3>3. QED
      BY <1>20, <3>1, <3>2 DEF InstrOK
  <2>3. d.size \in 0 .. MaxObjects
    BY <1>1, <1>14 DEF CodeShape, EndFrame
  <2>4. QED
    BY <1>12, <1>17, <1>19, <2>1, <2>2, <2>3 DEF CodeShape
<1>22. JumpsSet(d)
  <2>1. SUFFICES ASSUME NEW i \in 1 .. Len(c.code), d.code[i].op \in JumpOps \union {"JSWITCH"}
                 PROVE  d.code[i].arg # 0
    BY <1>19 DEF JumpsSet
  <2>2. c.code[i].arg # 0
    BY <1>1, <1>20, <2>1 DEF JumpsSet
  <2>3. QED
    BY <1>6, <1>20, <2>2
<1>23. RetRefs(d)
  <2>1. d.label[l].refs = c.label[l].refs
    BY <1>4, <1>16, <1>17
  <2>2. QED
    BY <1>1, <1>3, <1>19, <1>20, <2>1 DEF RetRefs
<1>24. ASSUME InCode(c, Len(c.code) + 1) PROVE InCode(d, Len(d.code) + 1)
  <2>1. d.catch = c.catch
    BY <1>14 DEF EndFrame
  <2>2. ASSUME NEW i \in 1 .. Len(c.code)
        PROVE  /\ d.code[i].op \in JumpOps \union {"JSWITCH"} => d.code[i].arg <= Len(c.code) + 1
               /\ d.code[i].table \subseteq 1 .. Len(c.code) + 1
    <3>1. /\ c.code[i].op \in JumpOps \union {"JSWITCH"} => c.code[i].arg <= Len(c.code) + 1
          /\ c.code[i].table \subseteq 1 .. Len(c.code) + 1
      BY <1>24 DEF InCode
    <3>2. QED
      BY <1>6, <1>20, <3>1
  <2>3. QED
    BY <1>19, <1>24, <2>1, <2>2 DEF InCode
<1>25. Emptied(d)
  BY <1>1, <1>14, EmptiedKept
<1>26. /\ d.context_stack \in Seq(0 .. d.size) /\ Len(d.context_stack) = 1
       /\ d.catch \in [1 .. MaxObjects -> SUBSET Nat]
  BY <1>1, <1>14 DEF EndFrame
<1>27. QED
  BY <1>1, <1>19, <1>21, <1>22, <1>23, <1>24, <1>25, <1>26 DEF EndShape, EndPost

\* An instruction at the end of the function.
EndEmitPost(c, d, op) ==
  /\ EndShape(d) /\ Len(d.code) = Len(c.code) + 1
  /\ d.code[Len(d.code)].op = op /\ d.context_stack = c.context_stack
  /\ "trailing" \notin Forms => InCode(d, Len(d.code))

\* An instruction at the end keeps the shape of the end.
LEMMA EndEmitOK ==
  ASSUME NEW c, EndShape(c), NEW op \in {"UNWIND", "RET"}, NEW arg \in Nat,
         op = "UNWIND" => arg \in 1 .. c.size, NEW d, d = Emit(c, op, arg)
  PROVE  EndEmitPost(c, d, op)
<1>1. /\ CodeShape(c) /\ c.catch \in [1 .. MaxObjects -> SUBSET Nat]
      /\ JumpsSet(c) /\ RetRefs(c) /\ Emptied(c)
      /\ c.context_stack \in Seq(0 .. c.size) /\ Len(c.context_stack) = 1
      /\ ("trailing" \notin Forms => InCode(c, Len(c.code) + 1))
  BY DEF EndShape
<1>2. EmitPost(c, d, op, arg)
  <2>1. op \in Ops /\ (op \in {"TOSD", "MARK", "UNWIND"} => arg \in 1 .. c.size)
    BY DEF Ops
  <2>2. QED
    BY <1>1, <2>1, EmitFacts
<1>3. /\ Frame(c, d) /\ CodeShape(d) /\ d.label = c.label /\ d.context_stack = c.context_stack
      /\ Len(d.code) = Len(c.code) + 1
      /\ \A i \in 1 .. Len(c.code) : d.code[i] = c.code[i]
  BY <1>2 DEF EmitPost
<1>4. d.code[Len(c.code) + 1].op = op /\ d.code[Len(c.code) + 1].table = {}
  <2>1. d.code[Len(c.code) + 1] = [op |-> op, arg |-> arg, table |-> {}, at |-> c.here]
    BY <1>2 DEF EmitPost
  <2>2. QED
    BY <2>1
<1>5. PICK w \in Nat : w = Len(c.code)
  BY <1>1, ShapeFacts
<1>6. Len(d.code) = w + 1 /\ (\A i \in 1 .. w + 1 : i \in 1 .. w \/ i = w + 1)
      /\ \A i \in 1 .. w : i \in 1 .. w + 1
  BY <1>3, <1>5
<1>7. d.code[w + 1].op = op /\ d.code[w + 1].table = {} /\ \A i \in 1 .. w : d.code[i] = c.code[i]
  BY <1>3, <1>4, <1>5
<1>8. op \notin JumpOps \union {"JSWITCH"}
  BY DEF JumpOps
<1>9. EndFrame(c, d)
  <2>1. DOMAIN d = Fields
    BY <1>3 DEF CodeShape
  <2>2. QED
    BY <1>3, <2>1 DEF EndFrame, Frame
<1>10. Emptied(d)
  BY <1>1, <1>9, EmptiedKept
<1>11. JumpsSet(d)
  <2>1. SUFFICES ASSUME NEW i \in 1 .. w + 1, d.code[i].op \in JumpOps \union {"JSWITCH"}
                 PROVE  d.code[i].arg # 0
    BY <1>6 DEF JumpsSet
  <2>2. i \in 1 .. w
    BY <1>6, <1>7, <1>8, <2>1
  <2>3. QED
    BY <1>1, <1>5, <1>7, <2>1, <2>2 DEF JumpsSet
<1>12. RetRefs(d)
  <2>1. SUFFICES ASSUME NEW i \in c.label[RetLabel].refs
                 PROVE  i \in 1 .. w + 1 /\ d.code[i].op \in JumpOps \union {"HALT"}
    BY <1>3, <1>6 DEF RetRefs
  <2>2. i \in 1 .. w /\ c.code[i].op \in JumpOps \union {"HALT"}
    BY <1>1, <1>5 DEF RetRefs
  <2>3. QED
    BY <1>6, <1>7, <2>2
<1>13. d.size = c.size /\ d.catch = c.catch
  BY <1>9 DEF EndFrame
<1>14. ASSUME InCode(c, w + 1) PROVE InCode(d, w + 1) /\ InCode(d, w + 2)
  <2>1. ASSUME NEW i \in 1 .. w + 1
        PROVE  /\ d.code[i].op \in JumpOps \union {"JSWITCH"} => d.code[i].arg <= w + 1
               /\ d.code[i].table \subseteq 1 .. w + 1
    <3>1. CASE i = w + 1
      BY <1>7, <1>8, <3>1
    <3>2. CASE i \in 1 .. w
      <4>1. /\ c.code[i].op \in JumpOps \union {"JSWITCH"} => c.code[i].arg <= w + 1
            /\ c.code[i].table \subseteq 1 .. w + 1
        BY <1>5, <1>14, <3>2 DEF InCode
      <4>2. QED
        BY <1>7, <3>2, <4>1
    <3>3. QED
      BY <1>6, <3>1, <3>2
  <2>2. InCode(d, w + 1)
    BY <1>6, <1>13, <1>14, <2>1 DEF InCode
  <2>3. (\A j \in Nat : j <= w + 1 => j <= w + 2) /\ 1 .. w + 1 \subseteq 1 .. w + 2
    OBVIOUS
  <2>4. \A i \in 1 .. Len(d.code) : d.code[i].arg \in Nat
    BY <1>3, ShapeFacts
  <2>5. InCode(d, w + 2)
    BY <2>2, <2>3, <2>4 DEF InCode
  <2>6. QED
    BY <2>2, <2>5
<1>15. "trailing" \notin Forms => InCode(d, Len(d.code)) /\ InCode(d, Len(d.code) + 1)
  <2>1. w + 1 + 1 = w + 2
    OBVIOUS
  <2>2. QED
    BY <1>1, <1>5, <1>6, <1>14, <2>1
<1>16. EndShape(d)
  BY <1>1, <1>3, <1>10, <1>11, <1>12, <1>13, <1>15 DEF EndShape
<1>17. QED
  BY <1>3, <1>6, <1>7, <1>15, <1>16 DEF EndEmitPost

\* Only the context and the history change.
LEMMA EndAsideOK ==
  ASSUME NEW c, EndShape(c), NEW d, EndFrame(c, d), d.code = c.code, d.label = c.label,
         d.context_stack \in Seq(0 .. c.size), Len(d.context_stack) = 1
  PROVE  EndShape(d)
<1>1. /\ CodeShape(c) /\ c.catch \in [1 .. MaxObjects -> SUBSET Nat]
      /\ JumpsSet(c) /\ RetRefs(c) /\ Emptied(c)
      /\ ("trailing" \notin Forms => InCode(c, Len(c.code) + 1))
  BY DEF EndShape
<1>2. Emptied(d)
  BY <1>1, EmptiedKept
<1>3. d.size = c.size /\ d.catch = c.catch /\ DOMAIN d = Fields
  BY DEF EndFrame
<1>4. CodeShape(d)
  BY <1>1, <1>3 DEF CodeShape
<1>5. JumpsSet(d) /\ RetRefs(d)
  BY <1>1 DEF JumpsSet, RetRefs
<1>6. "trailing" \notin Forms => InCode(d, Len(d.code) + 1)
  BY <1>1, <1>3 DEF InCode
<1>7. QED
  BY <1>1, <1>2, <1>3, <1>4, <1>5, <1>6 DEF EndShape

\* A number is below the next one.
LEMMA NextUp ==
  ASSUME NEW w \in Nat, NEW v, v = w + 1
  PROVE  w <= v
OBVIOUS

\* One less than one is nothing.
LEMMA OneUp ==
  ASSUME NEW k, k = 1
  PROVE  k >= 1 /\ k - 1 = 0
OBVIOUS

\* The objects of the function are destroyed.
LEMMA EndUnwindOK ==
  ASSUME NEW c, EndShape(c), NEW d, d = CheckObjects(c, 1, TRUE)
  PROVE  EndShape(d) /\ Len(c.code) <= Len(d.code)
<1>1. CodeShape(c) /\ c.context_stack \in Seq(0 .. c.size) /\ Len(c.context_stack) = 1
      /\ c.size \in Nat /\ Len(c.code) \in Nat
  BY ShapeFacts DEF EndShape, CodeShape
<1>2. CASE c.context_stack[1] = 0
  BY <1>1, <1>2 DEF CheckObjects
<1>3. CASE c.context_stack[1] # 0
  <2>1. PICK arg : arg = c.context_stack[1]
    OBVIOUS
  <2>2. arg \in 0 .. c.size /\ arg # 0
    BY <1>1, <1>3, <2>1, ElementOfSeq
  <2>3. PICK op \in {"UNWIND", "RET"} : op = "UNWIND"
    OBVIOUS
  <2>4. PICK e : e = Emit(c, op, arg)
    OBVIOUS
  <2>5. EndEmitPost(c, e, op)
    <3>1. arg \in Nat /\ (op = "UNWIND" => arg \in 1 .. c.size)
      BY <1>1, <2>2
    <3>2. QED
      BY <2>4, <3>1, EndEmitOK
  <2>6. EndShape(e) /\ Len(e.code) = Len(c.code) + 1 /\ e.context_stack = c.context_stack
    BY <2>5 DEF EndEmitPost
  <2>7. d = [e EXCEPT !.context_stack = [@ EXCEPT ![1] = 0]]
    BY <1>3, <2>1, <2>3, <2>4 DEF CheckObjects
  <2>8. DOMAIN e = Fields /\ e.context_stack \in Seq(0 .. e.size) /\ Len(e.context_stack) = 1
        /\ e.size \in Nat
    BY <2>6 DEF EndShape, CodeShape
  <2>9. PICK t : t = [e.context_stack EXCEPT ![1] = 0]
    OBVIOUS
  <2>10. DOMAIN d = Fields /\ d.context_stack = t
         /\ \A f \in Fields \ {"context_stack"} : d[f] = e[f]
    BY <2>7, <2>8, <2>9 DEF Fields
  <2>11. EndFrame(e, d) /\ d.code = e.code /\ d.label = e.label
    BY <2>10 DEF EndFrame, Fields
  <2>12. t \in Seq(0 .. e.size) /\ Len(t) = 1
    <3>1. PICK zero \in 0 .. e.size : zero = 0
      BY <2>8
    <3>2. PICK one \in 1 .. Len(e.context_stack) : one = 1
      BY <2>8
    <3>3. t = [e.context_stack EXCEPT ![one] = zero]
      BY <2>9, <3>1, <3>2
    <3>4. QED
      BY <2>8, <3>3, ExceptSeq
  <2>13. EndShape(d)
    BY <2>6, <2>10, <2>11, <2>12, EndAsideOK
  <2>14. Len(c.code) <= Len(d.code)
    <3>1. Len(d.code) = Len(c.code) + 1
      BY <2>6, <2>11
    <3>2. Len(c.code) \in Nat
      BY <1>1
    <3>3. QED
      BY <3>1, <3>2, NextUp
  <2>15. QED
    BY <2>13, <2>14
<1>4. QED
  BY <1>2, <1>3

\* A jump at the very end is taken out.
LEMMA EndBackOK ==
  ASSUME NEW c, EndShape(c), NEW m, m = Len(c.code), m >= 1, "trailing" \in Forms,
         NEW b, b = [c EXCEPT !.label[RetLabel].refs = @ \ {m}],
         NEW d, d = Backspace(b)
  PROVE  EndShape(d) /\ Len(d.code) = m - 1
<1>1. /\ CodeShape(c) /\ c.catch \in [1 .. MaxObjects -> SUBSET Nat]
      /\ JumpsSet(c) /\ RetRefs(c) /\ Emptied(c)
      /\ c.context_stack \in Seq(0 .. c.size) /\ Len(c.context_stack) = 1
      /\ DOMAIN c = Fields /\ IsSeq(c.code) /\ c.label \in Seq(LabelType)
  BY DEF EndShape, CodeShape
<1>2. m \in Nat /\ Len(c.label) \in Nat \ {0}
  BY <1>1, ShapeFacts
<1>3. PICK l : l = RetLabel
  OBVIOUS
<1>4. l \in 1 .. Len(c.label)
  BY <1>2, <1>3 DEF RetLabel
<1> DEFINE x == [c.label[l] EXCEPT !.refs = @ \ {m}]
<1>5. "label" \in Fields /\ "code" \in Fields
  BY DEF Fields
<1>6. b.label = [c.label EXCEPT ![l] = x] /\ DOMAIN b = Fields
      /\ \A f \in Fields \ {"label"} : b[f] = c[f]
  BY <1>1, <1>3, <1>5
<1>7. d = [b EXCEPT !.code = Front(c.code)]
  BY <1>5, <1>6 DEF Backspace, Pop
<1>8. d.code = Front(c.code) /\ DOMAIN d = Fields /\ \A f \in Fields \ {"code"} : d[f] = b[f]
  BY <1>5, <1>6, <1>7
<1>9. d.label = [c.label EXCEPT ![l] = x] /\ \A f \in Fields \ {"code", "label"} : d[f] = c[f]
  BY <1>5, <1>6, <1>8
<1>10. EndFrame(c, d) /\ d.context_stack = c.context_stack
  BY <1>8, <1>9 DEF Fields, EndFrame
<1>11. c.label[l] \in LabelType
  BY <1>1, <1>4, ElementOfSeq
<1>12. x \in LabelType /\ x.refs = c.label[l].refs \ {m}
  BY <1>11 DEF LabelType
<1> HIDE DEF x
<1>13. /\ d.label \in Seq(LabelType) /\ Len(d.label) = Len(c.label)
       /\ \A k \in 1 .. Len(c.label) : d.label[k] = IF k = l THEN x ELSE c.label[k]
  <2>1. PICK s \in Seq(LabelType) : s = c.label
    BY <1>1
  <2>2. PICK y \in LabelType : y = x
    BY <1>12
  <2>3. PICK i \in 1 .. Len(s) : i = l
    BY <1>4, <2>1
  <2>4. PICK t : t = [s EXCEPT ![i] = y]
    OBVIOUS
  <2>5. /\ t \in Seq(LabelType) /\ Len(t) = Len(s)
        /\ \A k \in 1 .. Len(s) : t[k] = IF k = i THEN y ELSE s[k]
    BY <2>4, ExceptSeq
  <2>6. d.label = t
    BY <1>9, <2>1, <2>2, <2>3, <2>4
  <2>7. QED
    BY <2>1, <2>2, <2>3, <2>5, <2>6
<1>14. /\ IsSeq(d.code) /\ Len(d.code) = m - 1
       /\ \A i \in 1 .. m - 1 : d.code[i] = c.code[i]
  <2>1. IsSeq(c.code) /\ Len(c.code) # 0
    BY <1>1, <1>2
  <2>2. d.code = Front(c.code)
    BY <1>8
  <2>3. PICK s : s = c.code
    OBVIOUS
  <2>4. IsSeq(s) /\ Len(s) # 0
    BY <2>1, <2>3
  <2>5. /\ IsSeq(Front(s)) /\ Len(Front(s)) = Len(s) - 1
        /\ \A i \in 1 .. Len(s) - 1 : Front(s)[i] = s[i]
    BY <2>4, FrontShape
  <2>6. QED
    BY <2>2, <2>3, <2>5
<1>15. (\A i \in 1 .. m - 1 : i \in 1 .. m) /\ \A i \in 1 .. m : i # m => i \in 1 .. m - 1
  BY <1>2
<1>16. d.size = c.size /\ d.catch = c.catch
  BY <1>10, SMTT(40) DEF EndFrame
<1>17. CodeShape(d)
  <2>1. d.label # <<>>
    BY <1>2, <1>13, EmptySeq
  <2>2. \A i \in 1 .. Len(d.code) : InstrOK(d.code[i], d.size)
    BY <1>1, <1>14, <1>15, <1>16 DEF CodeShape
  <2>3. d.size \in 0 .. MaxObjects
    BY <1>1, <1>16 DEF CodeShape
  <2>4. QED
    BY <1>8, <1>13, <1>14, <2>1, <2>2, <2>3 DEF CodeShape
<1>18. JumpsSet(d)
  BY <1>1, <1>14, <1>15 DEF JumpsSet
<1>19. RetRefs(d)
  <2>1. d.label[l].refs = c.label[l].refs \ {m}
    BY <1>4, <1>12, <1>13
  <2>2. SUFFICES ASSUME NEW i \in c.label[l].refs, i # m
                 PROVE  i \in 1 .. m - 1 /\ d.code[i].op \in JumpOps \union {"HALT"}
    BY <1>3, <1>14, <2>1 DEF RetRefs
  <2>3. i \in 1 .. m /\ c.code[i].op \in JumpOps \union {"HALT"}
    BY <1>1, <1>3 DEF RetRefs
  <2>4. QED
    BY <1>14, <1>15, <2>2, <2>3
<1>20. Emptied(d)
  BY <1>1, <1>10, EmptiedKept
<1>21. QED
  BY <1>1, <1>10, <1>14, <1>16, <1>17, <1>18, <1>19, <1>20 DEF EndShape

\* The function is complete.
Finished(c) ==
  /\ CodeShape(c) /\ c.catch \in [1 .. MaxObjects -> SUBSET Nat]
  /\ JumpsSet(c) /\ Emptied(c) /\ c.context_stack = <<>>
  /\ "trailing" \notin Forms =>
       /\ Len(c.code) >= 1 /\ c.code[Len(c.code)].op = "RET"
       /\ InCode(c, Len(c.code))

\* Nothing is left behind the return instruction, which ends it.
LEMMA EndReturnOK ==
  ASSUME NEW c, EndShape(c), NEW d, d = Pop(Emit(Begin(c, <<>>, ""), "RET", 0), "context_stack")
  PROVE  Finished(d)
<1>1. CodeShape(c) /\ c.context_stack \in Seq(0 .. c.size) /\ Len(c.context_stack) = 1
      /\ DOMAIN c = Fields
  BY DEF EndShape, CodeShape
<1>2. PICK b : b = Begin(c, <<>>, "")
  OBVIOUS
<1>3. DOMAIN b = Fields /\ \A f \in Fields \ {"here"} : b[f] = c[f]
  BY <1>1, <1>2 DEF Begin, Fields
<1>4. EndFrame(c, b) /\ b.code = c.code /\ b.label = c.label /\ b.context_stack = c.context_stack
  BY <1>3 DEF EndFrame, Fields
<1>5. EndShape(b)
  BY <1>1, <1>4, EndAsideOK
<1>6. PICK op \in {"UNWIND", "RET"} : op = "RET"
  OBVIOUS
<1>7. PICK arg \in Nat : arg = 0
  OBVIOUS
<1>8. PICK e : e = Emit(b, op, arg)
  OBVIOUS
<1>9. EndEmitPost(b, e, op)
  <2>1. op = "UNWIND" => arg \in 1 .. b.size
    BY <1>6
  <2>2. QED
    BY <1>5, <1>8, <2>1, EndEmitOK
<1>10. /\ EndShape(e) /\ e.code[Len(e.code)].op = "RET"
       /\ Len(e.code) = Len(b.code) + 1
       /\ ("trailing" \notin Forms => InCode(e, Len(e.code)))
  BY <1>6, <1>9 DEF EndEmitPost
<1>11. /\ CodeShape(e) /\ e.catch \in [1 .. MaxObjects -> SUBSET Nat]
       /\ JumpsSet(e) /\ Emptied(e) /\ DOMAIN e = Fields
       /\ e.context_stack \in Seq(0 .. e.size) /\ Len(e.context_stack) = 1
  BY <1>10 DEF EndShape, CodeShape
<1>12. d = Pop(e, "context_stack")
  BY <1>2, <1>6, <1>7, <1>8
<1>13. DOMAIN d = Fields /\ d.context_stack = Front(e.context_stack)
       /\ \A f \in Fields \ {"context_stack"} : d[f] = e[f]
  BY <1>11, <1>12 DEF Pop, Fields
<1>14. EndFrame(e, d) /\ d.code = e.code /\ d.label = e.label /\ d.size = e.size
       /\ d.catch = e.catch
  BY <1>13 DEF EndFrame, Fields
<1>15. CodeShape(d)
  BY <1>11, <1>13, <1>14 DEF CodeShape
<1>16. Emptied(d)
  BY <1>11, <1>14, EmptiedKept
<1>17. JumpsSet(d)
  BY <1>11, <1>14 DEF JumpsSet
<1>18. d.context_stack = <<>>
  <2>1. PICK s \in Seq(0 .. e.size) : s = e.context_stack
    BY <1>11
  <2>2. Len(s) = 1
    BY <1>11, <2>1
  <2>3. Len(s) >= 1 /\ Len(s) - 1 = 0
    BY <2>2, OneUp
  <2>4. Shrinks(s, Front(s)) /\ Front(s) \in Seq(0 .. e.size)
    BY <2>3, FrontShrinks
  <2>5. Len(Front(s)) = 0
    BY <2>3, <2>4 DEF Shrinks
  <2>6. QED
    BY <1>13, <2>1, <2>4, <2>5, EmptySeq
<1>19. Len(e.code) >= 1
  <2>1. Len(b.code) \in Nat
    BY <1>5, ShapeFacts DEF EndShape
  <2>2. QED
    BY <1>10, <2>1, OneMore
<1>20. "trailing" \notin Forms => InCode(d, Len(d.code))
  BY <1>10, <1>14 DEF InCode
<1>21. QED
  BY <1>10, <1>11, <1>14, <1>15, <1>16, <1>17, <1>18, <1>19, <1>20 DEF Finished

\* The end of a function, from its closing brace on.
LEMMA FinalizeFunctionOK ==
  ASSUME NEW c, EndShape(c), Len(c.code) >= 1, "trailing" \notin Forms => ~EndsInJump(c),
         NEW e, e = FinalizeFunction(c)
  PROVE  Finished(e)
<1>1. PICK m \in Nat : m = Len(c.code)
  BY ShapeFacts DEF EndShape
<1>2. PICK zero \in {0, -1} : zero = 0
  OBVIOUS
<1>3. PICK back \in {0, -1} : back = -1
  OBVIOUS
<1>4. PICK op : op = Last(c.code).op
  OBVIOUS
<1>5. PICK d : d = IF EndsInJump(c)
                   THEN Here(Backspace([c EXCEPT !.label[RetLabel].refs = @ \ {Len(c.code)}]),
                             RetLabel, 0)
                   ELSE IF op = "UNWIND" THEN Here(c, RetLabel, -1) ELSE c
  OBVIOUS
<1>6. EndShape(d)
  <2>1. CASE EndsInJump(c)
    <3>1. PICK a : a = [c EXCEPT !.label[RetLabel].refs = @ \ {Len(c.code)}]
      OBVIOUS
    <3>2. PICK b : b = Backspace(a)
      OBVIOUS
    <3>3. EndShape(b) /\ Len(b.code) = m - 1
      <4>1. a = [c EXCEPT !.label[RetLabel].refs = @ \ {m}] /\ m >= 1 /\ "trailing" \in Forms
        BY <1>1, <2>1, <3>1
      <4>2. QED
        BY <1>1, <3>2, <4>1, EndBackOK, SMTT(40)
    <3>4. d = Here(b, RetLabel, zero)
      BY <1>2, <1>5, <2>1, <3>1, <3>2
    <3>5. Len(b.code) + zero >= 0
      BY <1>1, <1>2, <3>3
    <3>6. EndPost(b, d)
      BY <3>3, <3>4, <3>5, EndHereOK
    <3>7. QED
      BY <3>6 DEF EndPost
  <2>2. CASE ~EndsInJump(c) /\ op = "UNWIND"
    <3>1. d = Here(c, RetLabel, back)
      BY <1>3, <1>5, <2>2
    <3>2. Len(c.code) + back >= 0
      BY <1>1, <1>3
    <3>3. EndPost(c, d)
      BY <3>1, <3>2, EndHereOK
    <3>4. QED
      BY <3>3 DEF EndPost
  <2>3. CASE ~EndsInJump(c) /\ op # "UNWIND"
    BY <1>5, <2>3
  <2>4. QED
    BY <2>1, <2>2, <2>3
<1>7. PICK u : u = CheckObjects(d, 1, TRUE)
  OBVIOUS
<1>8. EndShape(u)
  BY <1>6, <1>7, EndUnwindOK
<1>9. PICK r : r = IF u.code # <<>> /\ Last(u.code).op = "UNWIND" THEN Here(u, RetLabel, -1) ELSE u
  OBVIOUS
<1>10. EndShape(r)
  <2>1. CASE u.code # <<>> /\ Last(u.code).op = "UNWIND"
    <3>1. r = Here(u, RetLabel, back)
      BY <1>3, <1>9, <2>1
    <3>2. Len(u.code) \in Nat /\ IsSeq(u.code)
      BY <1>8, ShapeFacts DEF EndShape, CodeShape
    <3>3. Len(u.code) # 0
      BY <2>1, <3>2, SeqShape
    <3>4. Len(u.code) + back >= 0
      BY <1>3, <3>2, <3>3
    <3>5. EndPost(u, r)
      BY <1>8, <3>1, <3>4, EndHereOK
    <3>6. QED
      BY <3>5 DEF EndPost
  <2>2. CASE ~(u.code # <<>> /\ Last(u.code).op = "UNWIND")
    BY <1>8, <1>9, <2>2
  <2>3. QED
    BY <2>1, <2>2
<1>11. e = Pop(Emit(Begin(r, <<>>, ""), "RET", 0), "context_stack")
  BY <1>4, <1>5, <1>7, <1>9 DEF FinalizeFunction
<1>12. QED
  BY <1>10, <1>11, EndReturnOK

\* At the closing brace of the function only its own block is left.
FunctionOnly(c) ==
  /\ Closable(c, FunFlags) /\ Len(c.block_stack) = 1 /\ Len(c.context_stack) = 1
  /\ Len(c.label_stack) = 0 /\ Len(c.break_stack) = 0 /\ Len(c.continue_stack) = 0
  /\ Len(c.switch_stack) = 0 /\ Len(c.mTryStack) = 0
  /\ c.in_loop = FALSE /\ c.in_switch = FALSE

\* The tower of the function alone: nothing else is on the stacks.
LEMMA OnlyFunction ==
  ASSUME NEW c, NEW o, Compiling(c, o), o[Len(o)].k = "function"
  PROVE  FunctionOnly(c)
<1>1. /\ CodeOK(c, {}) /\ CodeShape(c) /\ StackShape(c) /\ OpenOK(o) /\ Standing(c, o)
      /\ c.in_switch = FALSE /\ (c.in_loop => SomeLoop(o)) /\ c.in_loop \in BOOLEAN
  BY DEF Compiling, CodeOK, StackShape
<1>2. PICK x : TopPost(c, o, x)
  BY <1>1, TopFacts
<1>3. PICK k : k = "function"
  OBVIOUS
<1>4. /\ x = Zero /\ Tops(c) = After(x, k, FlagsAt(c, x)) /\ ItemOK(c, x, k)
  BY <1>2, <1>3 DEF TopPost
<1>5. FlagsAt(c, x) = FunFlags /\ Owns(k) /\ LabelsOf(k) = 0 /\ k \notin {"try", "handlers"}
  BY <1>3, <1>4 DEF ItemOK, Owns, Blocks, LabelsOf, Loops
<1>6. PICK F : F = FunFlags
  OBVIOUS
<1>7. "CONTEXT_PUSHED" \in F /\ "BREAKABLE" \notin F /\ "CONTINUEABLE" \notin F /\ "IN_SWITCH" \notin F
  BY <1>6 DEF FunFlags
<1>8. /\ Bit(Owns(k) /\ "BREAKABLE" \in F) = 0 /\ Bit(Owns(k) /\ "CONTINUEABLE" \in F) = 0
      /\ Bit(Owns(k) /\ "IN_SWITCH" \in F) = 0 /\ Bit(Owns(k) /\ "CONTEXT_PUSHED" \in F) = 1
      /\ Bit(Owns(k)) = 1 /\ Bit(k \in {"try", "handlers"}) = 0
  BY <1>5, <1>7 DEF Bit
<1>9. /\ Len(c.label_stack) = x.label + 0 /\ Len(c.break_stack) = x.brk + 0
      /\ Len(c.continue_stack) = x.cont + 0 /\ Len(c.switch_stack) = x.sw + 0
      /\ Len(c.context_stack) = x.ctx + 1 /\ Len(c.block_stack) = x.blk + 1
      /\ Len(c.mTryStack) = x.try + 0
  <2>1. Tops(c) = After(x, k, F)
    BY <1>4, <1>5, <1>6
  <2>2. QED
    BY <1>5, <1>8, <2>1 DEF Tops, After
<1>10. /\ x.label = 0 /\ x.brk = 0 /\ x.cont = 0 /\ x.sw = 0 /\ x.ctx = 0 /\ x.blk = 0
       /\ x.try = 0
  BY <1>4 DEF Zero
<1>11. /\ Len(c.label_stack) = 0 /\ Len(c.break_stack) = 0
       /\ Len(c.continue_stack) = 0 /\ Len(c.switch_stack) = 0
       /\ Len(c.context_stack) = 1 /\ Len(c.block_stack) = 1 /\ Len(c.mTryStack) = 0
  BY <1>9, <1>10
<1>12. Closable(c, F)
  <2>1. c.block_stack[Len(c.block_stack)] = F
    <3>1. c.block_stack[x.blk + 1] = F
      BY <1>5, <1>6 DEF FlagsAt
    <3>2. x.blk + 1 = Len(c.block_stack)
      BY <1>9
    <3>3. QED
      BY <3>1, <3>2
  <2>2. Len(c.block_stack) >= 1
    BY <1>11, OneUp
  <2>3. QED
    BY <1>7, <2>1, <2>2 DEF Closable
<1>13. c.in_loop = FALSE
  <2>1. SUFFICES ASSUME c.in_loop PROVE FALSE
    BY <1>1
  <2>2. Len(c.label_stack) >= 2
    BY <1>1, <1>2, <2>1 DEF TopPost, SomeLoop
  <2>3. QED
    BY <1>11, <2>2
<1>14. QED
  BY <1>1, <1>6, <1>11, <1>12, <1>13 DEF FunctionOnly

\* No label waits any more for its place.
LEMMA EverySet ==
  ASSUME NEW c, CodeOK(c, {}), Len(c.label_stack) = 0, Len(c.break_stack) = 0,
         Len(c.continue_stack) = 0, Len(c.switch_stack) = 0, Len(c.mTryStack) = 0,
         c.label[RetLabel].to # 0,
         c.goto.label # 0 => c.label[c.goto.label].to # 0
  PROVE  JumpsSet(c)
<1>1. Linked(c) /\ Held(c, {})
  BY DEF CodeOK
<1>2. ASSUME NEW l \in 1 .. Len(c.label), c.label[l].to = 0 PROVE FALSE
  <2>1. l \in Owned(c)
    BY <1>1, <1>2 DEF Held, Holders
  <2>2. \/ l = RetLabel \/ l = c.goto.label \/ In(c.label_stack, l)
        \/ In(c.break_stack, l) \/ In(c.continue_stack, l) \/ InTries(c, l)
    BY <2>1, OwnedIn
  <2>3. l = RetLabel \/ l = c.goto.label
    BY <2>2 DEF In, InTries
  <2>4. l # 0
    OBVIOUS
  <2>5. QED
    BY <1>2, <2>3, <2>4
<1>3. SUFFICES ASSUME NEW i \in 1 .. Len(c.code), c.code[i].op \in JumpOps \union {"JSWITCH"},
                      c.code[i].arg = 0
               PROVE  FALSE
  BY DEF JumpsSet
<1>4. CASE c.code[i].op \in JumpOps
  BY <1>1, <1>2, <1>3, <1>4 DEF Linked
<1>5. CASE c.code[i].op = "JSWITCH"
  <2>1. \E s \in 1 .. Len(c.switch_stack) : c.switch_stack[s].start = i
    BY <1>1, <1>3, <1>5 DEF Linked
  <2>2. QED
    BY <2>1
<1>6. QED
  BY <1>3, <1>4, <1>5

\* At the closing brace, before the function's objects are destroyed.
LEMMA ReturnHere ==
  ASSUME NEW c, NEW o, Compiling(c, o), o[Len(o)].k = "function",
         c.goto.from # {} => c.goto.to # {}, c.code # <<>>,
         NEW b, b = Between(c, o), NEW f, f = FinishBlock(b), NEW d, d = Here(f, RetLabel, 0)
  PROVE  EndShape(d) /\ Len(d.code) >= 1
<1>1. FunctionOnly(c)
  BY OnlyFunction
<1>2. CodeOK(c, {}) /\ GotoOK(c)
  BY DEF Compiling
<1>3. CodeOK(b, {}) /\ Aside(c, b) /\ Later(c, b)
  BY <1>2, HistoryOK
<1>4. /\ Frame(c, b) /\ b.code = c.code /\ b.label = c.label
      /\ b.context_stack = c.context_stack
  BY <1>3 DEF Aside
<1>5. FunctionOnly(b)
  BY <1>1, <1>4 DEF FunctionOnly, Closable, Frame, In
<1>6. PICK F : F = FunFlags
  OBVIOUS
<1>7. FinishPost(b, {}, f, F)
  <2>1. Closable(b, F)
    BY <1>5, <1>6 DEF FunctionOnly
  <2>2. QED
    BY <1>3, <2>1, FinishBlockOK
<1>8. "BREAKABLE" \notin F /\ "CONTINUEABLE" \notin F /\ "IN_SWITCH" \notin F
  BY <1>6 DEF FunFlags
<1>9. /\ CodeOK(f, {}) /\ Later(b, f) /\ Len(f.label) = Len(b.label)
      /\ Len(f.code) = Len(b.code)
      /\ f.label_stack = b.label_stack /\ f.mTryStack = b.mTryStack
      /\ f.context_stack = b.context_stack /\ f.in_loop = b.in_loop
      /\ f.in_switch = b.in_switch /\ f.goto = b.goto
      /\ f.break_stack = b.break_stack /\ f.continue_stack = b.continue_stack
      /\ f.switch_stack = b.switch_stack /\ Shrinks(b.block_stack, f.block_stack)
  BY <1>7, <1>8 DEF FinishPost, Drops
<1>10. Len(f.block_stack) = 0
  BY <1>5, <1>9, OneUp DEF Shrinks, FunctionOnly
<1>11. /\ Len(f.label_stack) = 0 /\ Len(f.break_stack) = 0 /\ Len(f.continue_stack) = 0
       /\ Len(f.switch_stack) = 0 /\ Len(f.mTryStack) = 0 /\ Len(f.context_stack) = 1
       /\ f.in_loop = FALSE /\ f.in_switch = FALSE
  BY <1>5, <1>9 DEF FunctionOnly
<1>12. CodeShape(f) /\ CodeShape(c) /\ Len(f.code) \in Nat /\ Len(f.label) \in Nat \ {0}
  BY <1>2, <1>9, ShapeFacts DEF CodeOK
<1>13. Len(c.code) >= 1 /\ Len(f.code) >= 1
  <2>1. Len(c.code) \in Nat /\ Len(c.code) # 0
    BY <1>12, SeqShape DEF CodeShape
  <2>2. QED
    BY <1>4, <1>9, <2>1
<1>14. PICK l : l = RetLabel
  OBVIOUS
<1>15. l \in 1 .. Len(f.label) /\ l \in Holders(f, {})
  BY <1>12, <1>14, OwnedIn DEF RetLabel, Holders
<1>16. PICK off \in {0, -1} : off = 0
  OBVIOUS
<1>17. HerePost(f, {}, d, l, off)
  <2>1. Len(f.code) + off >= 0 /\ d = Here(f, l, off)
    BY <1>12, <1>14, <1>16
  <2>2. QED
    BY <1>9, <1>15, <2>1, HereOK
<1>18. /\ CodeOK(d, {}) /\ Frame(f, d) /\ Later(f, d) /\ d.context_stack = f.context_stack
       /\ Len(d.label) = Len(f.label) /\ Len(d.code) = Len(f.code) /\ d.label[l].to # 0
  BY <1>17 DEF HerePost
<1>19. CodeShape(d) /\ StackShape(d) /\ RefsClean(d, {}) /\ Within(d, Len(d.code) + 1)
  BY <1>18 DEF CodeOK
<1>20. /\ d.label_stack = f.label_stack /\ d.break_stack = f.break_stack
       /\ d.continue_stack = f.continue_stack /\ d.switch_stack = f.switch_stack
       /\ d.mTryStack = f.mTryStack /\ d.block_stack = f.block_stack
       /\ d.in_loop = f.in_loop /\ d.in_switch = f.in_switch /\ d.goto = f.goto
  BY <1>18 DEF Frame
<1>21. /\ Len(d.label_stack) = 0 /\ Len(d.break_stack) = 0 /\ Len(d.continue_stack) = 0
       /\ Len(d.switch_stack) = 0 /\ Len(d.mTryStack) = 0 /\ Len(d.block_stack) = 0
       /\ d.in_loop = FALSE /\ d.in_switch = FALSE /\ Len(d.context_stack) = 1
  BY <1>10, <1>11, <1>18, <1>20
<1>22. Emptied(d)
  <2>1. /\ d.label_stack \in Seq(1 .. Len(d.label)) /\ d.break_stack \in Seq(1 .. Len(d.label))
        /\ d.continue_stack \in Seq(1 .. Len(d.label)) /\ d.switch_stack \in Seq(SwitchType)
        /\ d.mTryStack \in Seq(Tries(Len(d.label))) /\ IsSeq(d.block_stack)
    BY <1>19 DEF StackShape
  <2>2. d.label_stack = <<>> /\ d.break_stack = <<>> /\ d.continue_stack = <<>>
    BY <1>21, <2>1, EmptySeq
  <2>3. d.switch_stack = <<>> /\ d.mTryStack = <<>>
    BY <1>21, <2>1, EmptySeq
  <2>4. d.block_stack = <<>>
    BY <1>21, <2>1, SeqShape
  <2>5. QED
    BY <1>21, <2>2, <2>3, <2>4 DEF Emptied
<1>23. ASSUME c.goto.label # 0
       PROVE  c.goto.label \in 1 .. Len(c.label) /\ c.label[c.goto.label].to # 0
  BY <1>2, <1>23 DEF GotoOK, CodeOK, StackShape
<1>24. d.goto.label # 0 => d.label[d.goto.label].to # 0
  <2>1. d.goto = c.goto
    BY <1>4, <1>9, <1>20 DEF Frame
  <2>2. ASSUME NEW k \in 1 .. Len(c.label), c.label[k].to # 0 PROVE d.label[k].to # 0
    <3>1. b.label[k].to # 0 /\ k \in 1 .. Len(b.label)
      BY <1>4, <2>2
    <3>2. f.label[k].to # 0 /\ k \in 1 .. Len(f.label)
      BY <1>9, <3>1 DEF Later
    <3>3. QED
      BY <1>18, <3>2 DEF Later
  <2>3. QED
    BY <1>23, <2>1, <2>2
<1>25. JumpsSet(d)
  BY <1>14, <1>18, <1>21, <1>24, EverySet
<1>26. RetRefs(d)
  <2>1. l \in 1 .. Len(d.label) /\ l \in Holders(d, {})
    BY <1>14, <1>15, <1>18, OwnedIn DEF Holders
  <2>2. QED
    BY <1>14, <1>19, <2>1 DEF RefsClean, RetRefs
<1>27. InCode(d, Len(d.code) + 1)
  BY <1>19 DEF Within, InCode
<1>28. d.context_stack \in Seq(0 .. d.size) /\ d.catch \in [1 .. MaxObjects -> SUBSET Nat]
  BY <1>19 DEF StackShape
<1>29. QED
  BY <1>13, <1>18, <1>19, <1>21, <1>22, <1>25, <1>26, <1>27, <1>28 DEF EndShape

\* The closing brace of the function.
LEMMA EndFunctionFinishes ==
  ASSUME Compiling(cg, open), EndFunction
  PROVE  Finished(cg')
<1>1. PICK b : b = Between(cg, open)
  OBVIOUS
<1>2. PICK f : f = FinishBlock(b)
  OBVIOUS
<1>3. PICK d : d = Here(f, RetLabel, 0)
  OBVIOUS
<1>4. /\ cg' = FinalizeFunction(d) /\ ("trailing" \notin Forms => ~EndsInJump(d))
      /\ (cg.goto.from # {} => cg.goto.to # {}) /\ cg.code # <<>>
  BY <1>1, <1>2, <1>3 DEF EndFunction
<1>5. open[Len(open)].k = "function"
  BY TopIs DEF EndFunction, Ending, Compiling
<1>6. EndShape(d) /\ Len(d.code) >= 1
  BY <1>1, <1>2, <1>3, <1>4, <1>5, ReturnHere
<1>7. QED
  BY <1>4, <1>6, FinalizeFunctionOK

-----------------------------------------------------------------------------
(* The inductive invariant                                                 *)
CompileInv ==
  /\ status \in {"compiling", "rejected"}
  /\ CodeOK(cg, {}) /\ ip = 1 /\ ods = <<>>
  /\ status = "compiling" => Compiling(cg, open)
\* p is a place in the complete function.
Leads(p) == p \in Nat /\ ("trailing" \notin Forms => p \in 1 .. Len(cg.code))
RunInv ==
  /\ status \in {"running", "returned", "thrown"}
  /\ Finished(cg) /\ Leads(ip) /\ ods \in Seq(1 .. cg.size) /\ Len(ods) <= MaxOds
Inv == n \in 0 .. MaxStatements /\ (CompileInv \/ RunInv)

\* The bounds are numbers.
LEMMA Bounds ==
  /\ MaxStatements \in Nat /\ MaxObjects \in Nat /\ MaxOds \in Nat
BY BoundAssumption

\* What every action of the parser but the last leaves alone.
Parses ==
  /\ status = "compiling" /\ status' = "compiling"
  /\ ip' = ip /\ ods' = ods /\ n' \in 0 .. MaxStatements

\* A statement that counts leaves the engine alone.
LEMMA CountParses ==
  ASSUME n \in 0 .. MaxStatements, n < MaxStatements, status = "compiling", NEW c, NEW o,
         Compile(c, o)
  PROVE  Parses
BY Bounds DEF Compile, Parses

\* So does the end of one.
LEMMA ReduceParses ==
  ASSUME n \in 0 .. MaxStatements, status = "compiling", NEW c, NEW o, Reduce(c, o)
  PROVE  Parses
BY DEF Reduce, Parses

\* The statements that open, and those that neither open nor close.
Opening ==
  \/ Expression \/ Declare \/ OpenBlock \/ If \/ While \/ Do \/ For \/ Switch \/ Case
  \/ Try \/ Return \/ Goto \/ Label

\* The statements that open leave the engine alone.
LEMMA OpeningParses ==
  ASSUME n \in 0 .. MaxStatements, Opening
  PROVE  Parses
<1>1. CASE Expression
  BY <1>1, CountParses DEF Expression, CanStart
<1>2. CASE Declare
  BY <1>2, CountParses DEF Declare, CanStart
<1>3. CASE OpenBlock
  BY <1>3, CountParses DEF OpenBlock, CanOpen, CanStart
<1>4. CASE If
  BY <1>4, CountParses DEF If, CanOpen, CanStart
<1>5. CASE While
  BY <1>5, CountParses DEF While, CanOpen, CanStart
<1>6. CASE Do
  BY <1>6, CountParses DEF Do, CanOpen, CanStart
<1>7. CASE For
  BY <1>7, CountParses DEF For, CanOpen, CanStart
<1>8. CASE Switch
  BY <1>8, CountParses DEF Switch, CanOpen, CanStart
<1>9. CASE Case
  BY <1>9, CountParses DEF Case, CanStart
<1>10. CASE Try
  BY <1>10, CountParses DEF Try, CanOpen, CanStart
<1>11. CASE Return
  BY <1>11, CountParses DEF Return, CanStart
<1>12. CASE Goto
  BY <1>12, CountParses DEF Goto, CanStart
<1>13. CASE Label
  BY <1>13, CountParses DEF Label, CanStart
<1>14. QED
  BY <1>1, <1>2, <1>3, <1>4, <1>5, <1>6, <1>7, <1>8, <1>9, <1>10, <1>11, <1>12, <1>13
     DEF Opening

\* They keep what holds between two of the parser's actions.
LEMMA OpeningKeeps ==
  ASSUME Compiling(cg, open), Opening
  PROVE  Compiling(cg', open')
BY ExpressionKeeps, DeclareKeeps, OpenBlockKeeps, IfKeeps, WhileKeeps, DoKeeps, ForKeeps,
   SwitchKeeps, CaseKeeps, TryKeeps, ReturnKeeps, GotoKeeps, LabelKeeps DEF Opening

\* The statements that close, or go on with another part.
Closing ==
  \/ CloseBlock \/ Else \/ EndIf \/ EndWhile \/ EndDo \/ EndFor
  \/ EndTryBlock \/ Catch \/ EndCatch \/ EndTry

\* The ends of statements leave the engine alone.
LEMMA ClosingParses ==
  ASSUME n \in 0 .. MaxStatements, Closing
  PROVE  Parses
<1>1. CASE CloseBlock
  BY <1>1, ReduceParses DEF CloseBlock, Ending
<1>2. CASE Else
  BY <1>2, CountParses DEF Else, Ending
<1>3. CASE EndIf
  BY <1>3, ReduceParses DEF EndIf, Ending
<1>4. CASE EndWhile
  BY <1>4, ReduceParses DEF EndWhile, Ending
<1>5. CASE EndDo
  BY <1>5, ReduceParses DEF EndDo, Ending
<1>6. CASE EndFor
  BY <1>6, ReduceParses DEF EndFor, Ending
<1>7. CASE EndTryBlock
  BY <1>7, ReduceParses DEF EndTryBlock, Ending
<1>8. CASE Catch
  BY <1>8, CountParses DEF Catch, Ending
<1>9. CASE EndCatch
  BY <1>9, ReduceParses DEF EndCatch, Ending
<1>10. CASE EndTry
  BY <1>10, ReduceParses DEF EndTry, Ending
<1>11. QED
  BY <1>1, <1>2, <1>3, <1>4, <1>5, <1>6, <1>7, <1>8, <1>9, <1>10 DEF Closing

\* They keep what holds between two of the parser's actions.
LEMMA ClosingKeeps ==
  ASSUME Compiling(cg, open), Closing
  PROVE  Compiling(cg', open')
BY CloseBlockKeeps, ElseKeeps, EndIfKeeps, EndWhileKeeps, EndDoKeeps, EndForKeeps,
   EndTryBlockKeeps, CatchKeeps, EndCatchKeeps, EndTryKeeps DEF Closing

\* A break or a continue outside of every block it could leave is an error.
Rejects ==
  /\ status = "compiling" /\ status' = "rejected"
  /\ cg' = cg /\ ip' = ip /\ ods' = ods /\ n' \in 0 .. MaxStatements

\* A break or continue leaves the engine alone, and the compiler if it is
\* rejected.
LEMMA JumpingParses ==
  ASSUME n \in 0 .. MaxStatements, Break \/ Continue
  PROVE  Parses \/ Rejects
<1>1. ASSUME Reject, CanStart("break") \/ CanStart("continue")
      PROVE  Rejects
  BY <1>1, Bounds DEF Reject, Rejects, CanStart
<1>2. CASE Break
  <2>1. CASE Reject
    BY <1>1, <1>2, <2>1 DEF Break
  <2>2. CASE ~Reject
    BY <1>2, <2>2, CountParses DEF Break, CanStart
  <2>3. QED
    BY <2>1, <2>2
<1>3. CASE Continue
  <2>1. CASE Reject
    BY <1>1, <1>3, <2>1 DEF Continue
  <2>2. CASE ~Reject
    BY <1>3, <2>2, CountParses DEF Continue, CanStart
  <2>3. QED
    BY <2>1, <2>2
<1>4. QED
  BY <1>2, <1>3

\* They keep what holds between two of the parser's actions.
LEMMA JumpingKeeps ==
  ASSUME Compiling(cg, open), Break \/ Continue, status' = "compiling"
  PROVE  Compiling(cg', open')
BY BreakKeeps, ContinueKeeps

\* What the parser's last action leaves for the engine.
LEMMA EndFunctionRuns ==
  ASSUME Compiling(cg, open), EndFunction, ip = 1, ods = <<>>
  PROVE  RunInv' /\ n' = n
<1>1. Finished(cg')
  BY EndFunctionFinishes
<1>2. status' = "running" /\ n' = n /\ ip' = 1 /\ ods' = <<>>
  BY DEF EndFunction
<1>3. CodeShape(cg')
  BY <1>1 DEF Finished
<1>4. Len(cg'.code) \in Nat
  BY <1>3, ShapeFacts
<1>5. ASSUME "trailing" \notin Forms
      PROVE  1 \in 1 .. Len(cg'.code)
  <2>1. Len(cg'.code) >= 1
    BY <1>1, <1>5 DEF Finished
  <2>2. QED
    BY <1>4, <2>1
<1>6. Leads(ip)'
  BY <1>2, <1>5 DEF Leads
<1>7. ods' \in Seq(1 .. cg'.size) /\ Len(ods') <= MaxOds
  BY <1>2, Bounds
<1>8. QED
  BY <1>1, <1>2, <1>6, <1>7 DEF RunInv

-----------------------------------------------------------------------------
(* The engine                                                              *)
\* The next instruction is in the function: its last one returns.
LEMMA NextLeads ==
  ASSUME Finished(cg), ip \in DOMAIN cg.code, cg.code[ip].op # "RET"
  PROVE  Leads(ip + 1)
<1>1. CodeShape(cg)
  BY DEF Finished
<1>2. PICK m \in Nat : m = Len(cg.code)
  BY <1>1, ShapeFacts
<1>3. ip \in 1 .. m
  BY <1>1, <1>2, SeqShape DEF CodeShape
<1>4. ASSUME "trailing" \notin Forms
      PROVE  ip + 1 \in 1 .. m
  <2>1. cg.code[m].op = "RET"
    BY <1>2, <1>4 DEF Finished
  <2>2. ip # m
    BY <2>1
  <2>3. QED
    BY <1>2, <1>3, <2>2
<1>5. ip + 1 \in Nat
  BY <1>3
<1>6. QED
  BY <1>2, <1>4, <1>5 DEF Leads

\* A jump, a switch and a handler lead to a place in the function.
LEMMA JumpLeads ==
  ASSUME Finished(cg), ip \in DOMAIN cg.code,
         cg.code[ip].op \in JumpOps \union {"JSWITCH"},
         NEW p \in cg.code[ip].table \union {cg.code[ip].arg}
  PROVE  Leads(p)
<1>1. CodeShape(cg)
  BY DEF Finished
<1>2. PICK m \in Nat : m = Len(cg.code)
  BY <1>1, ShapeFacts
<1>3. ip \in 1 .. m
  BY <1>1, <1>2, SeqShape DEF CodeShape
<1>4. PICK x : x = cg.code[ip]
  OBVIOUS
<1>5. InstrOK(x, cg.size)
  BY <1>1, <1>2, <1>3, <1>4 DEF CodeShape
<1>6. x.arg \in Nat /\ x.table \subseteq Nat
  BY <1>5 DEF InstrOK
<1>7. p \in Nat
  BY <1>4, <1>6
<1>8. ASSUME "trailing" \notin Forms
      PROVE  p \in 1 .. m
  <2>1. InCode(cg, m)
    BY <1>2, <1>8 DEF Finished
  <2>2. x.arg <= m /\ x.table \subseteq 1 .. m
    BY <1>2, <1>3, <1>4, <2>1 DEF InCode
  <2>3. x.arg # 0
    BY <1>2, <1>3, <1>4 DEF Finished, JumpsSet
  <2>4. QED
    BY <1>4, <1>6, <2>2, <2>3
<1>9. QED
  BY <1>2, <1>7, <1>8 DEF Leads

\* The handlers of a marker are places in the function.
LEMMA HandlerLeads ==
  ASSUME Finished(cg), NEW s \in 1 .. cg.size, NEW p \in cg.catch[s]
  PROVE  Leads(p)
<1>1. CodeShape(cg) /\ cg.catch \in [1 .. MaxObjects -> SUBSET Nat]
  BY DEF Finished
<1>2. cg.size \in 0 .. MaxObjects
  BY <1>1 DEF CodeShape
<1>3. s \in 1 .. MaxObjects
  BY <1>2, Bounds
<1>4. p \in Nat
  BY <1>1, <1>3
<1>5. ASSUME "trailing" \notin Forms
      PROVE  p \in 1 .. Len(cg.code)
  BY <1>3, <1>5 DEF Finished, InCode
<1>6. QED
  BY <1>4, <1>5 DEF Leads

\* What is unwound to one of its places is an ODS again.
LEMMA UnwoundOds ==
  ASSUME NEW S, NEW s \in Seq(S), Len(s) <= MaxOds, NEW i \in 1 .. Len(s),
         NEW t, t = SubSeq(s, 1, i - 1)
  PROVE  t \in Seq(S) /\ Len(t) <= MaxOds
<1>1. PICK m \in Nat : m = i - 1
  BY LenProperties
<1>2. Len(s) \in Nat /\ m <= Len(s) /\ \A j \in 1 .. m : j \in 1 .. Len(s)
  BY <1>1, LenProperties
<1>3. \A j \in 1 .. m : s[j] \in S
  BY <1>2, ElementOfSeq
<1>4. /\ SubSeq(s, 1, m) \in Seq(S)
      /\ Len(SubSeq(s, 1, m)) = IF 1 <= m THEN m - 1 + 1 ELSE 0
  BY <1>3, SubSeqProperties
<1>5. Len(SubSeq(s, 1, m)) = m
  BY <1>4
<1>6. QED
  BY <1>1, <1>2, <1>4, <1>5, Bounds

\* The instruction that is run has an operand that fits it.
LEMMA InstrFits ==
  ASSUME Finished(cg), ip \in DOMAIN cg.code
  PROVE  InstrOK(cg.code[ip], cg.size)
BY SeqShape DEF Finished, CodeShape

\* What every step of the engine leaves alone.
Runs == cg' = cg /\ n' = n /\ RunInv'

\* Going to a place in the function keeps the invariant of the engine.
LEMMA GoToRuns ==
  ASSUME RunInv, status = "running", NEW p, GoTo(p), Leads(p)
  PROVE  Runs
BY DEF Runs, RunInv, GoTo, Leads

\* The steps that only lead on.
LEMMA LeadingRuns ==
  ASSUME RunInv, RunCall \/ RunNOP \/ RunJump \/ RunNoJump \/ RunSwitch
  PROVE  Runs
<1>1. Finished(cg) /\ status = "running" /\ ip \in DOMAIN cg.code
  BY DEF RunInv, RunCall, RunNOP, RunJump, RunNoJump, RunSwitch, At
<1>2. CASE RunCall \/ RunNOP \/ RunNoJump
  <2>1. cg.code[ip].op # "RET" /\ GoTo(ip + 1)
    BY <1>2 DEF RunCall, RunNOP, RunNoJump, At, Instr
  <2>2. QED
    BY <1>1, <2>1, NextLeads, GoToRuns
<1>3. CASE RunJump
  <2>1. cg.code[ip].op \in JumpOps /\ GoTo(cg.code[ip].arg)
    BY <1>3 DEF RunJump, At, Instr, JumpOps
  <2>2. QED
    BY <1>1, <2>1, JumpLeads, GoToRuns
<1>4. CASE RunSwitch
  <2>1. /\ cg.code[ip].op = "JSWITCH"
        /\ \E p \in cg.code[ip].table \union {cg.code[ip].arg} : GoTo(p)
    BY <1>4 DEF RunSwitch, At, Instr
  <2>2. QED
    BY <1>1, <2>1, JumpLeads, GoToRuns
<1>5. QED
  BY <1>2, <1>3, <1>4

\* The steps that construct and destroy objects.
LEMMA ConstructRuns ==
  ASSUME RunInv, RunConstruct
  PROVE  Runs
<1>1. Finished(cg) /\ status = "running" /\ ip \in DOMAIN cg.code
  BY DEF RunInv, RunConstruct, At
<1>2. PICK x : x = cg.code[ip]
  OBVIOUS
<1>3. x.op \in {"TOSD", "MARK"} /\ ods' = Append(ods, x.arg) /\ ip' = ip + 1
  BY <1>2 DEF RunConstruct, At, Instr
<1>4. x.arg \in 1 .. cg.size
  BY <1>1, <1>2, <1>3, InstrFits DEF InstrOK
<1>5. PICK S : S = 1 .. cg.size
  OBVIOUS
<1>6. ods \in Seq(S) /\ x.arg \in S /\ Len(ods) < MaxOds
  BY <1>4, <1>5 DEF RunInv, RunConstruct
<1>7. ods' \in Seq(S) /\ Len(ods') = Len(ods) + 1 /\ Len(ods) \in Nat
  BY <1>3, <1>6, AppendProperties, LenProperties
<1>8. Len(ods') <= MaxOds
  BY <1>6, <1>7, Bounds
<1>9. Leads(ip + 1)
  BY <1>1, <1>2, <1>3, NextLeads
<1>10. cg' = cg /\ n' = n /\ status' = status
  BY DEF RunConstruct
<1>11. QED
  BY <1>1, <1>3, <1>5, <1>7, <1>8, <1>9, <1>10 DEF Runs, RunInv, Leads

\* UNWIND destroys the objects from one place of the ODS on, or none.
LEMMA UnwindRuns ==
  ASSUME RunInv, RunUnwind
  PROVE  Runs
<1>1. Finished(cg) /\ status = "running" /\ ip \in DOMAIN cg.code
  BY DEF RunInv, RunUnwind, At
<1>2. PICK x : x = cg.code[ip]
  OBVIOUS
<1>3. x.op = "UNWIND" /\ ip' = ip + 1
  BY <1>2 DEF RunUnwind, At, Instr
<1>4. PICK S : S = 1 .. cg.size
  OBVIOUS
<1>5. ods \in Seq(S) /\ Len(ods) <= MaxOds /\ Len(ods) \in Nat
  BY <1>4, LenProperties DEF RunInv
<1>6. PICK on : on = {i \in DOMAIN ods : ods[i] = x.arg}
  OBVIOUS
<1>7. PICK top : top = CHOOSE i \in on : \A j \in on : j <= i
  OBVIOUS
<1>8. ods' = IF on = {} THEN ods ELSE SubSeq(ods, 1, top - 1)
  BY <1>2, <1>6, <1>7 DEF RunUnwind, Instr
<1>9. on \subseteq 1 .. Len(ods)
  BY <1>5, <1>6, LenProperties
<1>10. ASSUME on # {}
       PROVE  top \in 1 .. Len(ods)
  <2>1. PICK S0 : S0 = {Len(ods) - i : i \in on}
    OBVIOUS
  <2>2. S0 \in SUBSET Nat /\ S0 # {}
    <3>1. PICK w \in Nat : w = Len(ods)
      BY <1>5
    <3>2. \A i \in 1 .. w : w - i \in Nat
      OBVIOUS
    <3>3. \A i \in on : w - i \in Nat
      BY <1>9, <3>1, <3>2
    <3>4. QED
      BY <1>10, <2>1, <3>1, <3>3
  <2>3. PICK y \in S0 : \A z \in S0 : y <= z
    BY <2>2, LeastExists
  <2>4. PICK i \in on : y = Len(ods) - i
    BY <2>1, <2>3
  <2>5. \A j \in on : j <= i
    <3>1. SUFFICES ASSUME NEW j \in on PROVE j <= i
      OBVIOUS
    <3>2. y <= Len(ods) - j
      BY <2>1, <2>3, <3>1
    <3>3. i \in Nat /\ j \in Nat
      BY <1>9
    <3>4. QED
      BY <1>5, <2>4, <3>2, <3>3
  <2>6. top \in on
    BY <1>7, <2>5
  <2>7. QED
    BY <1>9, <2>6
<1>11. ods' \in Seq(S) /\ Len(ods') <= MaxOds
  <2>1. CASE on = {}
    BY <1>5, <1>8, <2>1
  <2>2. CASE on # {}
    BY <1>5, <1>8, <1>10, <2>2, UnwoundOds
  <2>3. QED
    BY <2>1, <2>2
<1>12. Leads(ip + 1)
  BY <1>1, <1>2, <1>3, NextLeads
<1>13. cg' = cg /\ n' = n /\ status' = status
  BY DEF RunUnwind
<1>14. QED
  BY <1>1, <1>3, <1>4, <1>11, <1>12, <1>13 DEF Runs, RunInv, Leads

\* The step that returns, and the one that throws: to a handler, or out of the
\* function.
LEMMA ReturnRuns ==
  ASSUME RunInv, RunReturn
  PROVE  Runs
BY DEF RunInv, RunReturn, Runs, Leads

\* An exception leads to a handler, and unwinds to its marker, or out of the
\* function.
LEMMA RaiseRuns ==
  ASSUME RunInv, Raise
  PROVE  Runs
<1>1. PICK S : S = 1 .. cg.size
  OBVIOUS
<1>2. /\ Finished(cg) /\ status = "running" /\ ods \in Seq(S) /\ Len(ods) <= MaxOds
      /\ Len(ods) \in Nat /\ DOMAIN ods = 1 .. Len(ods)
  BY <1>1, LenProperties DEF RunInv, Raise, At
<1>3. ASSUME NEW i \in DOMAIN ods, Handled(i)
      PROVE  Runs
  <2>1. PICK p \in cg.catch[ods[i]] :
          /\ ods' = SubSeq(ods, 1, i - 1) /\ ip' = p
          /\ cg' = cg /\ n' = n /\ status' = status
    BY <1>3 DEF Handled
  <2>2. i \in 1 .. Len(ods)
    BY <1>2
  <2>3. ods[i] \in S
    BY <1>2, <2>2, ElementOfSeq
  <2>4. Leads(p)
    BY <1>1, <1>2, <2>3, HandlerLeads
  <2>5. ods' \in Seq(S) /\ Len(ods') <= MaxOds
    BY <1>2, <2>1, <2>2, UnwoundOds
  <2>6. QED
    BY <1>1, <1>2, <2>1, <2>4, <2>5 DEF Runs, RunInv, Leads
<1>4. ASSUME status' = "thrown", ods' = <<>>, UNCHANGED <<cg, open, n, ip>>
      PROVE  Runs
  <2>1. ods' \in Seq(1 .. cg.size) /\ Len(ods') <= MaxOds
    BY <1>4, Bounds
  <2>2. QED
    BY <1>4, <2>1 DEF Runs, RunInv, Leads
<1>5. QED
  BY <1>3, <1>4 DEF Raise

\* Every step of the engine keeps its invariant.
LEMMA RunStepRuns ==
  ASSUME RunInv, RunStep
  PROVE  Runs
BY LeadingRuns, ConstructRuns, UnwindRuns, ReturnRuns, RaiseRuns DEF RunStep

-----------------------------------------------------------------------------
(* The invariant                                                           *)
\* No instruction of the engine runs before the function is complete, and the
\* parser does nothing after that.
LEMMA RunStepOnly ==
  ASSUME RunStep
  PROVE  status = "running"
BY DEF RunStep, RunCall, RunNOP, RunConstruct, RunUnwind, RunJump, RunNoJump, RunSwitch,
       RunReturn, Raise, At

\* Every step of the parser is of one of these groups.
LEMMA CompileStepOnly ==
  ASSUME CompileStep
  PROVE  Opening \/ Closing \/ Break \/ Continue \/ EndFunction
BY DEF CompileStep, Opening, Closing

\* Every step of the parser keeps the invariant.
LEMMA CompileStepKeeps ==
  ASSUME n \in 0 .. MaxStatements, CompileInv, CompileStep
  PROVE  Inv'
<1>1. ASSUME status = "compiling"
      PROVE  Compiling(cg, open) /\ ip = 1 /\ ods = <<>>
  BY <1>1 DEF CompileInv
<1>2. ASSUME Parses, Compiling(cg', open'), ip = 1, ods = <<>>
      PROVE  Inv'
  BY <1>2 DEF Parses, Inv, CompileInv, Compiling
<1>3. ASSUME Rejects, CompileInv
      PROVE  Inv'
  BY <1>3 DEF Rejects, Inv, CompileInv
<1>4. CASE Opening
  <2>1. Parses
    BY <1>4, OpeningParses
  <2>2. status = "compiling"
    BY <2>1 DEF Parses
  <2>3. Compiling(cg', open')
    BY <1>1, <1>4, <2>2, OpeningKeeps
  <2>4. QED
    BY <1>1, <1>2, <2>1, <2>2, <2>3
<1>5. CASE Closing
  <2>1. Parses
    BY <1>5, ClosingParses
  <2>2. status = "compiling"
    BY <2>1 DEF Parses
  <2>3. Compiling(cg', open')
    BY <1>1, <1>5, <2>2, ClosingKeeps
  <2>4. QED
    BY <1>1, <1>2, <2>1, <2>2, <2>3
<1>6. CASE Break \/ Continue
  <2>1. Parses \/ Rejects
    BY <1>6, JumpingParses
  <2>2. CASE Parses
    <3>1. status = "compiling" /\ status' = "compiling"
      BY <2>2 DEF Parses
    <3>2. Compiling(cg', open')
      BY <1>1, <1>6, <3>1, JumpingKeeps
    <3>3. QED
      BY <1>1, <1>2, <2>2, <3>1, <3>2
  <2>3. CASE Rejects
    BY <1>3, <2>3
  <2>4. QED
    BY <2>1, <2>2, <2>3
<1>7. CASE EndFunction
  <2>1. status = "compiling"
    BY <1>7 DEF EndFunction, Ending
  <2>2. RunInv' /\ n' = n
    BY <1>1, <1>7, <2>1, EndFunctionRuns
  <2>3. QED
    BY <2>2 DEF Inv
<1>8. QED
  BY <1>4, <1>5, <1>6, <1>7, CompileStepOnly

\* Every step keeps the invariant.
LEMMA NextKeeps ==
  ASSUME Inv, Next
  PROVE  Inv'
<1>1. CASE RunStep
  <2>1. RunInv
    BY <1>1, RunStepOnly DEF Inv, CompileInv
  <2>2. Runs
    BY <1>1, <2>1, RunStepRuns
  <2>3. QED
    BY <2>2 DEF Inv, Runs
<1>2. CASE CompileStep /\ CompileInv
  BY <1>2, CompileStepKeeps DEF Inv
<1>3. CASE CompileStep /\ RunInv
  <2>1. Parses \/ Rejects \/ EndFunction
    BY <1>3, CompileStepOnly, OpeningParses, ClosingParses, JumpingParses DEF Inv
  <2>2. status = "compiling"
    BY <2>1 DEF Parses, Rejects, EndFunction, Ending
  <2>3. QED
    BY <1>3, <2>2 DEF RunInv
<1>4. QED
  BY <1>1, <1>2, <1>3 DEF Next, Inv

\* Before the first statement nothing is open but the function.
LEMMA InitCode ==
  ASSUME Init
  PROVE  CodeOK(cg, {})
<1>1. DOMAIN cg = Fields
  BY DEF Init, Fields
<1>2. /\ cg.code = <<>> /\ cg.label = <<[to |-> 0, refs |-> {}]>>
      /\ cg.label_stack = <<>> /\ cg.break_stack = <<>> /\ cg.continue_stack = <<>>
      /\ cg.switch_stack = <<>> /\ cg.mTryStack = <<>>
      /\ cg.block_stack = <<FunFlags>> /\ cg.context_stack = <<0>>
      /\ cg.in_loop = FALSE /\ cg.in_switch = FALSE /\ cg.size = 0
      /\ cg.catch = [s \in 1 .. MaxObjects |-> {}]
      /\ cg.goto = [label |-> 0, context |-> 0, from |-> {}, to |-> {}]
  BY DEF Init, FunFlags
<1>3. /\ Len(cg.code) = 0 /\ Len(cg.label) = 1 /\ Len(cg.switch_stack) = 0
      /\ Len(cg.block_stack) = 1 /\ cg.label[1] = [to |-> 0, refs |-> {}]
  BY <1>2
<1>4. CodeShape(cg)
  <2>1. IsSeq(cg.code)
    <3>1. cg.code \in Seq({})
      BY <1>2
    <3>2. QED
      BY <3>1 DEF IsSeq
  <2>2. cg.label \in Seq(LabelType) /\ cg.label # <<>>
    BY <1>2 DEF LabelType
  <2>3. QED
    BY <1>1, <1>2, <1>3, <2>1, <2>2, Bounds DEF CodeShape
<1>5. StackShape(cg)
  <2>1. IsSeq(cg.block_stack)
    <3>1. cg.block_stack \in Seq({FunFlags})
      BY <1>2
    <3>2. QED
      BY <3>1 DEF IsSeq
  <2>2. cg.context_stack \in Seq(0 .. cg.size)
    BY <1>2
  <2>3. cg.catch \in [1 .. MaxObjects -> SUBSET Nat]
    BY <1>2
  <2>4. /\ cg.label_stack \in Seq(1 .. Len(cg.label))
        /\ cg.break_stack \in Seq(1 .. Len(cg.label))
        /\ cg.continue_stack \in Seq(1 .. Len(cg.label))
        /\ cg.switch_stack \in Seq(SwitchType)
        /\ cg.mTryStack \in Seq(Tries(Len(cg.label)))
    BY <1>2
  <2>5. /\ DOMAIN cg.goto = {"label", "context", "from", "to"}
        /\ cg.goto.label \in 0 .. Len(cg.label)
    <3>1. cg.goto.label = 0
      BY <1>2
    <3>2. DOMAIN cg.goto = {"label", "context", "from", "to"}
      BY <1>2
    <3>3. QED
      BY <1>3, <3>1, <3>2
  <2>6. QED
    BY <1>2, <2>1, <2>2, <2>3, <2>4, <2>5 DEF StackShape
<1>6. Held(cg, {}) /\ RefsClean(cg, {})
  <2>1. RetLabel \in Owned(cg)
    BY DEF Owned
  <2>2. \A l \in 1 .. Len(cg.label) : l = RetLabel /\ cg.label[l].refs = {}
    BY <1>3 DEF RetLabel
  <2>3. QED
    BY <2>1, <2>2 DEF Held, RefsClean, Holders
<1>7. Linked(cg) /\ Switched(cg)
  BY <1>3 DEF Linked, Switched
<1>8. Within(cg, Len(cg.code) + 1)
  <2>1. \A l \in 1 .. Len(cg.label) : cg.label[l].to = 0
    BY <1>3
  <2>2. \A s \in 1 .. MaxObjects : cg.catch[s] = {}
    BY <1>2
  <2>3. QED
    BY <1>3, <2>1, <2>2 DEF Within
<1>9. QED
  BY <1>4, <1>5, <1>6, <1>7, <1>8 DEF CodeOK

\* The tower of the function alone stands at the beginning.
LEMMA InitStanding ==
  ASSUME Init
  PROVE  OpenOK(open) /\ Standing(cg, open) /\ Len(open) = 1 /\ open[1].k = "function"
<1>1. open = <<[k |-> "function", done |-> FALSE, live |-> <<>>, id |-> 0]>>
  BY DEF Init
<1>2. Len(open) = 1 /\ open[1].k = "function" /\ DOMAIN open[1] = ItemFields
  BY <1>1 DEF ItemFields
<1>3. OpenOK(open)
  <2>1. IsSeq(open)
    <3>1. open \in Seq({open[1]})
      BY <1>1
    <3>2. QED
      BY <3>1 DEF IsSeq
  <2>2. QED
    BY <1>2, <2>1 DEF OpenOK
<1>4. /\ Len(cg.label_stack) = 0 /\ Len(cg.break_stack) = 0 /\ Len(cg.continue_stack) = 0
      /\ Len(cg.switch_stack) = 0 /\ Len(cg.mTryStack) = 0
      /\ Len(cg.block_stack) = 1 /\ Len(cg.context_stack) = 1
      /\ cg.block_stack[1] = FunFlags
  BY DEF Init, FunFlags
<1>5. PICK t : t = Tops(cg)
  OBVIOUS
<1>6. t = [label |-> 0, brk |-> 0, cont |-> 0, sw |-> 0, ctx |-> 1, try |-> 0, blk |-> 1]
  BY <1>4, <1>5 DEF Tops
<1>7. Zero \in Heights /\ t \in Heights /\ Below(Zero, t) /\ Below(Zero, Zero) /\ Below(t, t)
  BY <1>6 DEF Zero, Heights, Below
<1>8. FlagsAt(cg, Zero) = FunFlags
  BY <1>4 DEF FlagsAt, Zero
<1>9. After(Zero, "function", FunFlags) = t
  BY <1>6 DEF After, Zero, LabelsOf, Owns, Bit, Blocks, Loops, FunFlags
<1>10. ItemOK(cg, Zero, "function")
  BY <1>8 DEF ItemOK, FunFlags, Loops
<1>11. PICK h : h = [i \in 1 .. 2 |-> IF i = 1 THEN Zero ELSE t]
  OBVIOUS
<1>12. h \in [1 .. 2 -> Heights] /\ h[1] = Zero /\ h[2] = t
  BY <1>7, <1>11
<1>13. \A i, j \in 1 .. 2 : i <= j => Below(h[i], h[j])
  BY <1>7, <1>12
<1>14. Len(open) + 1 = 2
  BY <1>2
<1>15. \A i \in 1 .. Len(open) : i = 1 /\ i + 1 = 2
  BY <1>2
<1>16. Tower(cg, open, h)
  <2>1. \A i \in 1 .. Len(open) :
          /\ h[i + 1] = After(h[i], open[i].k, FlagsAt(cg, h[i]))
          /\ ItemOK(cg, h[i], open[i].k)
    BY <1>2, <1>8, <1>9, <1>10, <1>12, <1>15
  <2>2. QED
    BY <1>5, <1>12, <1>13, <1>14, <2>1 DEF Tower
<1>17. QED
  BY <1>2, <1>3, <1>16 DEF Standing

\* The invariant holds at the beginning.
LEMMA InitInv ==
  ASSUME Init
  PROVE  Inv
<1>1. CodeOK(cg, {}) /\ OpenOK(open) /\ Standing(cg, open) /\ Len(open) = 1
      /\ open[1].k = "function"
  BY InitCode, InitStanding
<1>2. /\ cg.mTryStack = <<>> /\ cg.in_switch = FALSE /\ cg.in_loop = FALSE
      /\ cg.goto = [label |-> 0, context |-> 0, from |-> {}, to |-> {}]
      /\ n = 0 /\ status = "compiling" /\ ip = 1 /\ ods = <<>>
  BY DEF Init
<1>3. Apart(cg)
  BY <1>2 DEF Apart
<1>4. Handlers(cg, open) /\ GotoOK(cg)
  BY <1>1, <1>2 DEF Handlers, GotoOK
<1>5. Compiling(cg, open)
  BY <1>1, <1>2, <1>3, <1>4 DEF Compiling
<1>6. n \in 0 .. MaxStatements
  BY <1>2, Bounds
<1>7. QED
  BY <1>1, <1>2, <1>5, <1>6 DEF Inv, CompileInv

\* The invariant holds in every state of every behaviour.
LEMMA InvIsInvariant ==
  Spec => []Inv
<1>1. Init => Inv
  BY InitInv
<1>2. Inv /\ [Next]_vars => Inv'
  <2>1. ASSUME Inv, UNCHANGED vars
        PROVE  Inv'
    BY <2>1 DEF vars, Inv, CompileInv, RunInv, Leads
  <2>2. QED
    BY <2>1, NextKeeps
<1>3. QED
  BY <1>1, <1>2, PTL DEF Spec

-----------------------------------------------------------------------------
(* What follows from it                                                    *)
\* The code, the labels and the slots that the compiler has given out.
LEMMA CodeTyped ==
  ASSUME NEW c, CodeShape(c)
  PROVE  /\ \A i \in DOMAIN c.code :
              /\ c.code[i].op \in Ops /\ c.code[i].arg \in Nat
              /\ c.code[i].op \in {"TOSD", "MARK", "UNWIND"} => c.code[i].arg \in 1 .. c.size
         /\ c.size \in 0 .. MaxObjects
<1>1. DOMAIN c.code = 1 .. Len(c.code)
  BY SeqShape DEF CodeShape
<1>2. QED
  BY <1>1 DEF CodeShape, InstrOK

\* The label, break and continue stacks hold labels that exist.
LEMMA StacksTyped ==
  ASSUME NEW c, CodeShape(c), NEW S, S = 1 .. Len(c.label),
         c.label_stack \in Seq(S), c.break_stack \in Seq(S), c.continue_stack \in Seq(S)
  PROVE  Range(c.label_stack \o c.break_stack \o c.continue_stack) \subseteq DOMAIN c.label
<1>1. c.label_stack \o c.break_stack \in Seq(S)
  BY ConcatProperties
<1>2. (c.label_stack \o c.break_stack) \o c.continue_stack \in Seq(S)
  BY <1>1, ConcatProperties
<1>3. DOMAIN c.label = S
  BY LenProperties DEF CodeShape
<1>4. QED
  BY <1>2, <1>3, RangeOfSeq

\* The invariant gives the type invariant.
LEMMA InvTypeOK ==
  ASSUME Inv
  PROVE  TypeOK
<1>1. /\ status \in {"compiling", "rejected", "running", "returned", "thrown"}
      /\ n \in 0 .. MaxStatements
  BY DEF Inv, CompileInv, RunInv
<1>2. CodeShape(cg)
  BY DEF Inv, CompileInv, RunInv, CodeOK, Finished
<1>3. ip \in Nat /\ ods \in Seq(1 .. cg.size) /\ Len(ods) <= MaxOds
  <2>1. CASE CompileInv
    BY <2>1, Bounds DEF CompileInv
  <2>2. CASE RunInv
    BY <2>2 DEF RunInv, Leads
  <2>3. QED
    BY <2>1, <2>2 DEF Inv
<1>4. PICK S : S = 1 .. Len(cg.label)
  OBVIOUS
<1>5. /\ cg.label_stack \in Seq(S) /\ cg.break_stack \in Seq(S) /\ cg.continue_stack \in Seq(S)
      /\ cg.context_stack \in Seq(0 .. cg.size)
  <2>1. CASE CompileInv
    BY <1>4, <2>1 DEF CompileInv, CodeOK, StackShape
  <2>2. CASE RunInv
    <3>1. /\ cg.label_stack = <<>> /\ cg.break_stack = <<>> /\ cg.continue_stack = <<>>
          /\ cg.context_stack = <<>>
      BY <2>2 DEF RunInv, Finished, Emptied
    <3>2. QED
      BY <3>1
  <2>3. QED
    BY <2>1, <2>2 DEF Inv
<1>6. Range(cg.context_stack) \subseteq 0 .. cg.size
  BY <1>5, RangeOfSeq
<1>7. Range(cg.label_stack \o cg.break_stack \o cg.continue_stack) \subseteq DOMAIN cg.label
  BY <1>2, <1>4, <1>5, StacksTyped
<1>8. /\ \A i \in DOMAIN cg.code :
           /\ cg.code[i].op \in Ops /\ cg.code[i].arg \in Nat
           /\ cg.code[i].op \in {"TOSD", "MARK", "UNWIND"} => cg.code[i].arg \in 1 .. cg.size
      /\ cg.size \in 0 .. MaxObjects
  BY <1>2, CodeTyped
<1>9. QED
  BY <1>1, <1>3, <1>6, <1>7, <1>8 DEF TypeOK

\* The code, the labels, the parser's stacks and the ODS always have the shape
\* the engine and the parser rely on: every stack holds labels and slots that
\* exist, and the ODS never outgrows its capacity.
THEOREM TypeCorrect ==
  Spec => []TypeOK
BY InvIsInvariant, InvTypeOK, PTL

\* The invariant says that a complete function has every jump set and every
\* stack empty.
LEMMA InvLeavesNothing ==
  ASSUME Inv
  PROVE  LeavesNothingOpen
<1>1. SUFFICES ASSUME status = "running"
               PROVE  LeavesNothingOpen
  BY DEF LeavesNothingOpen
<1>2. Finished(cg)
  BY <1>1 DEF Inv, CompileInv, RunInv
<1>3. CodeShape(cg) /\ JumpsSet(cg) /\ Emptied(cg) /\ cg.context_stack = <<>>
  BY <1>2 DEF Finished
<1>4. DOMAIN cg.code = 1 .. Len(cg.code)
  BY <1>3, SeqShape DEF CodeShape
<1>5. \A i \in DOMAIN cg.code :
        cg.code[i].op \in {"JMP", "JZ", "JNZ", "JSWITCH"} => cg.code[i].arg # 0
  BY <1>3, <1>4 DEF JumpsSet, JumpOps
<1>6. /\ cg.label_stack = <<>> /\ cg.break_stack = <<>> /\ cg.continue_stack = <<>>
      /\ cg.switch_stack = <<>> /\ cg.mTryStack = <<>> /\ cg.block_stack = <<>>
      /\ ~cg.in_loop /\ ~cg.in_switch
  BY <1>3 DEF Emptied
<1>7. \A s, t, u : s = <<>> /\ t = <<>> /\ u = <<>> => s \o t \o u = <<>>
  OBVIOUS
<1>8. QED
  BY <1>3, <1>5, <1>6, <1>7 DEF LeavesNothingOpen

\* When the closing brace of a function has been compiled, for every function
\* of every size, every jump and switch in it was patched with a target, and
\* none of the parser's stacks holds anything for the next function.
THEOREM NothingLeftOpen ==
  Spec => []LeavesNothingOpen
BY InvIsInvariant, InvLeavesNothing, PTL

\* The invariant keeps the engine in the code, when no function ends in a jump.
LEMMA InvStays ==
  ASSUME "trailing" \notin Forms, Inv
  PROVE  StaysInCode
<1>1. SUFFICES ASSUME status = "running"
               PROVE  ip \in DOMAIN cg.code
  BY DEF StaysInCode
<1>2. RunInv
  BY <1>1 DEF Inv, CompileInv
<1>3. CodeShape(cg) /\ ip \in 1 .. Len(cg.code)
  BY <1>2 DEF RunInv, Finished, Leads
<1>4. QED
  BY <1>3, SeqShape DEF CodeShape

\* A function whose last instruction is no jump is left through its RET only:
\* no jump, switch or handler, and no fall-through, leads past its end.
THEOREM CodeIsNotLeft ==
  ASSUME "trailing" \notin Forms
  PROVE  Spec => []StaysInCode
BY InvIsInvariant, InvStays, PTL

-----------------------------------------------------------------------------
(* The open statements, their numbers and the goals that are behind them   *)

\* No open statement has ended, a loop's body aside once it has; of two
\* statements the inner one is the later; and a loop's statement is a block.
Order(o, m, E) ==
  /\ m \in Nat /\ \A i \in 1 .. Len(o) : o[i].done \in BOOLEAN
  /\ \A i \in 1 .. Len(o) : o[i].k # "handlers" =>
       /\ o[i].id \in 0 .. m /\ E[<<"end", o[i].id>>] = 0
       /\ E[<<"body", o[i].id>>] = 0 \/ (i = Len(o) /\ o[i].k \in Loops /\ o[i].done)
  /\ \A i, j \in 1 .. Len(o) :
       i < j /\ o[i].k # "handlers" /\ o[j].k # "handlers" => o[i].id < o[j].id
  /\ \A i \in 1 .. Len(o) - 1 : o[i].k \in Loops => o[i + 1].k = "block" /\ ~o[i].done
  /\ \A i \in Nat : i > m => E[<<"end", i>>] = 0 /\ E[<<"body", i>>] = 0

\* A statement begins.
LEMMA OrderUp ==
  ASSUME NEW o, IsSeq(o), Len(o) >= 1, NEW m, NEW E, Order(o, m, E),
         NEW x, x.id = m + 1, x.k # "handlers", x.done = FALSE,
         NEW p, Len(p) = Len(o) + 1, \A i \in 1 .. Len(o) : p[i] = o[i], p[Len(o) + 1] = x,
         o[Len(o)].k \in Loops => x.k = "block" /\ ~o[Len(o)].done
  PROVE  Order(p, m + 1, E)
<1>1. PICK w \in Nat : w = Len(o)
  BY SeqShape
<1>2. w >= 1 /\ Len(p) = w + 1 /\ p[w + 1] = x /\ m \in Nat
  BY <1>1 DEF Order
<1>3. \A i \in 1 .. w + 1 : i \in 1 .. w \/ i = w + 1
  BY <1>1
<1>4. \A i \in 1 .. w : p[i] = o[i] /\ i # w + 1
  BY <1>1
<1>5. \A i \in 1 .. w + 1 : p[i].done \in BOOLEAN
  <2>1. \A i \in 1 .. w : p[i].done \in BOOLEAN
    BY <1>1, <1>4 DEF Order
  <2>2. QED
    BY <1>2, <1>3, <2>1
<1>6. ASSUME NEW i \in 1 .. w + 1, p[i].k # "handlers"
      PROVE  /\ p[i].id \in 0 .. m + 1 /\ E[<<"end", p[i].id>>] = 0
             /\ E[<<"body", p[i].id>>] = 0
             /\ i \in 1 .. w => p[i].id \in 0 .. m
  <2>1. CASE i \in 1 .. w
    <3>1. o[i].k # "handlers"
      BY <1>4, <1>6, <2>1
    <3>2. /\ o[i].id \in 0 .. m /\ E[<<"end", o[i].id>>] = 0
          /\ E[<<"body", o[i].id>>] = 0 \/ (i = w /\ o[i].k \in Loops /\ o[i].done)
      BY <1>1, <2>1, <3>1 DEF Order
    <3>3. E[<<"body", o[i].id>>] = 0
      BY <1>1, <3>2
    <3>4. o[i].id \in 0 .. m + 1
      BY <1>2, <3>2
    <3>5. QED
      BY <1>4, <2>1, <3>2, <3>3, <3>4
  <2>2. CASE i = w + 1
    <3>1. m + 1 \in Nat /\ m + 1 > m /\ m + 1 \in 0 .. m + 1
      BY <1>2
    <3>2. E[<<"end", m + 1>>] = 0 /\ E[<<"body", m + 1>>] = 0
      BY <3>1 DEF Order
    <3>3. i \notin 1 .. w
      BY <2>2
    <3>4. QED
      BY <1>2, <2>2, <3>1, <3>2, <3>3
  <2>3. QED
    BY <1>3, <2>1, <2>2
<1>7. ASSUME NEW i \in 1 .. w + 1, NEW j \in 1 .. w + 1, i < j, p[i].k # "handlers",
             p[j].k # "handlers"
      PROVE  p[i].id < p[j].id
  <2>1. i \in 1 .. w
    BY <1>1, <1>7
  <2>2. CASE j \in 1 .. w
    <3>1. o[i].id < o[j].id
      BY <1>1, <1>4, <1>7, <2>1, <2>2 DEF Order
    <3>2. QED
      BY <1>4, <2>1, <2>2, <3>1
  <2>3. CASE j = w + 1
    <3>1. p[i].id \in 0 .. m /\ p[j].id = m + 1
      BY <1>2, <1>6, <1>7, <2>1, <2>3
    <3>2. QED
      BY <1>2, <3>1
  <2>4. QED
    BY <1>3, <2>2, <2>3
<1>8. ASSUME NEW i \in 1 .. w, p[i].k \in Loops
      PROVE  p[i + 1].k = "block" /\ ~p[i].done
  <2>1. CASE i = w
    BY <1>1, <1>2, <1>4, <1>8, <2>1
  <2>2. CASE i # w
    <3>1. i \in 1 .. Len(o) - 1 /\ i + 1 \in 1 .. w
      BY <1>1, <2>2
    <3>2. o[i + 1].k = "block" /\ ~o[i].done
      BY <1>4, <1>8, <3>1 DEF Order
    <3>3. QED
      BY <1>4, <3>1, <3>2
  <2>3. QED
    BY <2>1, <2>2
<1>9. \A i \in Nat : i > m + 1 => E[<<"end", i>>] = 0 /\ E[<<"body", i>>] = 0
  <2>1. \A i \in Nat : i > m + 1 => i > m
    BY <1>2
  <2>2. QED
    BY <2>1 DEF Order
<1>10. Len(p) = w + 1 /\ Len(p) - 1 = w /\ m + 1 \in Nat
  BY <1>2
<1>11. QED
  BY <1>5, <1>6, <1>7, <1>8, <1>9, <1>10 DEF Order

\* The innermost statement may be done, and another one counts.
LEMMA OrderSame ==
  ASSUME NEW o, IsSeq(o), Len(o) >= 1, NEW m, NEW E, Order(o, m, E),
         NEW p, Len(p) = Len(o), SameItems(o, p, Len(o)),
         \A i \in 1 .. Len(o) - 1 : p[i] = o[i], p[Len(o)].done \in BOOLEAN,
         o[Len(o)].done => p[Len(o)].done, NEW q \in {m, m + 1}
  PROVE  Order(p, q, E)
<1>1. PICK w \in Nat : w = Len(o)
  BY SeqShape
<1>2. w >= 1 /\ Len(p) = w /\ m \in Nat /\ q \in Nat /\ m <= q
  BY <1>1 DEF Order
<1>3. /\ \A i \in 1 .. w : p[i].k = o[i].k /\ p[i].id = o[i].id
      /\ \A i \in 1 .. w - 1 : p[i].done = o[i].done
  BY <1>1 DEF SameItems
<1>4. \A i \in 1 .. w : i \in 1 .. w - 1 \/ i = w
  BY <1>1
<1>5. \A i \in 1 .. w : o[i].done \in BOOLEAN
  BY <1>1 DEF Order
<1>6. \A i \in 1 .. w : p[i].done \in BOOLEAN
  <2>1. \A i \in 1 .. w - 1 : p[i].done \in BOOLEAN
    BY <1>3, <1>5
  <2>2. QED
    BY <1>1, <1>4, <2>1
<1>7. ASSUME NEW i \in 1 .. w, p[i].k # "handlers"
      PROVE  /\ p[i].id \in 0 .. q /\ E[<<"end", p[i].id>>] = 0
             /\ E[<<"body", p[i].id>>] = 0 \/ (i = w /\ p[i].k \in Loops /\ p[i].done)
  <2>1. /\ o[i].id \in 0 .. m /\ E[<<"end", o[i].id>>] = 0
        /\ E[<<"body", o[i].id>>] = 0 \/ (i = w /\ o[i].k \in Loops /\ o[i].done)
    BY <1>1, <1>3, <1>7 DEF Order
  <2>2. o[i].id \in 0 .. q
    BY <1>2, <2>1
  <2>3. QED
    BY <1>1, <1>3, <2>1, <2>2
<1>8. \A i, j \in 1 .. w :
        i < j /\ p[i].k # "handlers" /\ p[j].k # "handlers" => p[i].id < p[j].id
  BY <1>1, <1>3 DEF Order
<1>9. ASSUME NEW i \in 1 .. w - 1, p[i].k \in Loops
      PROVE  p[i + 1].k = "block" /\ ~p[i].done
  <2>1. i \in 1 .. w /\ i + 1 \in 1 .. w
    BY <1>1
  <2>2. o[i + 1].k = "block" /\ ~o[i].done
    BY <1>1, <1>3, <1>9, <2>1 DEF Order
  <2>3. QED
    BY <1>3, <2>1, <2>2
<1>10. \A i \in Nat : i > q => E[<<"end", i>>] = 0 /\ E[<<"body", i>>] = 0
  <2>1. \A i \in Nat : i > q => i > m
    BY <1>2
  <2>2. QED
    BY <2>1 DEF Order
<1>11. QED
  BY <1>2, <1>6, <1>7, <1>8, <1>9, <1>10 DEF Order

\* The innermost statement ends, and so does a loop's body with it.
LEMMA OrderDown ==
  ASSUME NEW o, IsSeq(o), Len(o) >= 2, NEW m, NEW E, Order(o, m, E),
         NEW t, t = o[Len(o)], NEW u, u = o[Len(o) - 1],
         NEW p, Len(p) = Len(o) - 1, SameItems(o, p, Len(p)),
         \A i \in 1 .. Len(p) - 1 : p[i] = o[i], p[Len(p)].done \in BOOLEAN,
         u.k \in Loops => p[Len(p)].done,
         NEW F, \A g \in Goals :
                  \/ F[g] = E[g]
                  \/ g = <<"end", t.id>> /\ t.k # "handlers"
                  \/ g = <<"body", u.id>> /\ u.k \in Loops
  PROVE  Order(p, m, F)
<1>1. PICK w \in Nat : w = Len(o)
  BY SeqShape
<1>2. PICK v \in Nat : v = w - 1 /\ v >= 1 /\ w = v + 1
  BY <1>1
<1>3. Len(p) = v /\ t = o[w] /\ u = o[v] /\ m \in Nat
  BY <1>1, <1>2 DEF Order
<1>4. /\ \A i \in 1 .. v : p[i].k = o[i].k /\ p[i].id = o[i].id
      /\ \A i \in 1 .. v - 1 : p[i].done = o[i].done
      /\ \A i \in 1 .. v : i \in 1 .. w /\ i < w
      /\ w \in 1 .. w /\ v \in 1 .. w /\ v \in 1 .. v
  BY <1>1, <1>2, <1>3 DEF SameItems
<1>5. /\ \A i \in 1 .. w : o[i].k # "handlers" =>
           /\ o[i].id \in 0 .. m /\ E[<<"end", o[i].id>>] = 0
           /\ E[<<"body", o[i].id>>] = 0 \/ i = w
      /\ \A i, j \in 1 .. w :
           i < j /\ o[i].k # "handlers" /\ o[j].k # "handlers" => o[i].id < o[j].id
      /\ \A i \in 1 .. w : o[i].done \in BOOLEAN
  BY <1>1 DEF Order
<1>6. \A i \in Nat : <<"end", i>> \in Goals /\ <<"body", i>> \in Goals
  BY DEF Goals
<1>7. \A i \in Nat : (i # t.id \/ t.k = "handlers") => F[<<"end", i>>] = E[<<"end", i>>]
  <2>1. ASSUME NEW i \in Nat, i # t.id \/ t.k = "handlers"
        PROVE  F[<<"end", i>>] = E[<<"end", i>>]
    <3>1. PICK g \in Goals : g = <<"end", i>>
      BY <1>6
    <3>2. g # <<"body", u.id>> /\ (g = <<"end", t.id>> => i = t.id)
      BY <3>1
    <3>3. QED
      BY <2>1, <3>1, <3>2
  <2>2. QED
    BY <2>1
<1>8. \A i \in Nat : (i # u.id \/ u.k \notin Loops) => F[<<"body", i>>] = E[<<"body", i>>]
  <2>1. ASSUME NEW i \in Nat, i # u.id \/ u.k \notin Loops
        PROVE  F[<<"body", i>>] = E[<<"body", i>>]
    <3>1. PICK g \in Goals : g = <<"body", i>>
      BY <1>6
    <3>2. g # <<"end", t.id>> /\ (g = <<"body", u.id>> => i = u.id)
      BY <3>1
    <3>3. QED
      BY <2>1, <3>1, <3>2
  <2>2. QED
    BY <2>1
<1>9. ASSUME NEW i \in 1 .. v, p[i].k # "handlers"
      PROVE  /\ p[i].id \in 0 .. m /\ F[<<"end", p[i].id>>] = 0
             /\ F[<<"body", p[i].id>>] = 0 \/ (i = v /\ p[i].k \in Loops /\ p[i].done)
  <2>1. PICK d : d = p[i].id
    OBVIOUS
  <2>2. d = o[i].id /\ o[i].k # "handlers" /\ i \in 1 .. w /\ i < w /\ i # w
    BY <1>2, <1>4, <1>9, <2>1
  <2>3. d \in 0 .. m /\ E[<<"end", d>>] = 0 /\ E[<<"body", d>>] = 0
    BY <1>5, <2>2
  <2>4. d # t.id \/ t.k = "handlers"
    <3>1. t.k # "handlers" => d < t.id /\ t.id \in 0 .. m
      BY <1>3, <1>4, <1>5, <2>2, ZenonT(60)
    <3>2. QED
      BY <2>3, <3>1
  <2>5. d \in Nat /\ F[<<"end", d>>] = 0
    BY <1>7, <2>3, <2>4
  <2>6. CASE i = v /\ u.k \in Loops
    <3>1. p[i].k \in Loops /\ p[i].done
      BY <1>3, <1>4, <2>6
    <3>2. QED
      BY <2>1, <2>3, <2>5, <2>6, <3>1
  <2>7. CASE i = v /\ u.k \notin Loops
    BY <1>8, <2>1, <2>3, <2>5, <2>7
  <2>8. CASE i # v
    <3>1. u.k # "handlers" => d < u.id /\ u.id \in 0 .. m
      <4>1. i < v
        BY <1>2, <2>8
      <4>2. QED
        BY <1>3, <1>4, <1>5, <2>2, <4>1, ZenonT(60)
    <3>2. u.k \in Loops => u.k # "handlers"
      BY DEF Loops
    <3>3. d # u.id \/ u.k \notin Loops
      BY <2>3, <3>1, <3>2
    <3>4. QED
      BY <1>8, <2>1, <2>3, <2>5, <3>3
  <2>9. QED
    BY <2>6, <2>7, <2>8
<1>10. \A i, j \in 1 .. v :
         i < j /\ p[i].k # "handlers" /\ p[j].k # "handlers" => p[i].id < p[j].id
  BY <1>4, <1>5
<1>11. ASSUME NEW i \in 1 .. v - 1, p[i].k \in Loops
       PROVE  p[i + 1].k = "block" /\ ~p[i].done
  <2>1. i \in 1 .. v /\ i + 1 \in 1 .. v /\ i \in 1 .. Len(o) - 1
    BY <1>1, <1>2
  <2>2. o[i + 1].k = "block" /\ ~o[i].done
    BY <1>4, <1>11, <2>1 DEF Order
  <2>3. QED
    BY <1>4, <2>1, <2>2
<1>12. ASSUME NEW i \in Nat, i > m
       PROVE  F[<<"end", i>>] = 0 /\ F[<<"body", i>>] = 0
  <2>1. E[<<"end", i>>] = 0 /\ E[<<"body", i>>] = 0
    BY <1>12 DEF Order
  <2>2. i # t.id \/ t.k = "handlers"
    <3>1. t.k # "handlers" => t.id \in 0 .. m
      BY <1>3, <1>4, <1>5, ZenonT(60)
    <3>2. QED
      BY <1>3, <1>12, <3>1
  <2>3. i # u.id \/ u.k \notin Loops
    <3>1. u.k \in Loops => u.k # "handlers"
      BY DEF Loops
    <3>2. u.k # "handlers" => u.id \in 0 .. m
      BY <1>3, <1>4, <1>5, ZenonT(60)
    <3>3. QED
      BY <1>3, <1>12, <3>1, <3>2
  <2>4. QED
    BY <1>7, <1>8, <2>1, <2>2, <2>3
<1>13. \A i \in 1 .. v : p[i].done \in BOOLEAN
  <2>1. \A i \in 1 .. v - 1 : p[i].done \in BOOLEAN
    <3>1. \A i \in 1 .. v - 1 : i \in 1 .. v
      BY <1>2
    <3>2. QED
      BY <1>4, <1>5, <3>1
  <2>2. \A i \in 1 .. v : i \in 1 .. v - 1 \/ i = v
    BY <1>2
  <2>3. QED
    BY <1>3, <2>1, <2>2
<1>14. QED
  BY <1>3, <1>9, <1>10, <1>11, <1>12, <1>13 DEF Order

\* The innermost statement gives way to another, which has a number of its own
\* unless it is the handlers of a try block.
LEMMA OrderSwap ==
  ASSUME NEW o, IsSeq(o), Len(o) >= 1, NEW m, NEW E, Order(o, m, E), o[Len(o)].k # "block",
         NEW x, x.done = FALSE, NEW q,
         (x.k = "handlers" /\ q = m) \/ (x.k # "handlers" /\ q = m + 1 /\ x.id = q),
         NEW p, Len(p) = Len(o), \A i \in 1 .. Len(o) - 1 : p[i] = o[i], p[Len(o)] = x
  PROVE  Order(p, q, E)
<1>1. PICK w \in Nat : w = Len(o)
  BY SeqShape
<1>2. w >= 1 /\ Len(p) = w /\ p[w] = x /\ m \in Nat /\ q \in Nat /\ m <= q
  BY <1>1 DEF Order
<1>3. /\ \A i \in 1 .. w - 1 : p[i] = o[i] /\ i # w /\ i \in 1 .. w
      /\ \A i \in 1 .. w : i \in 1 .. w - 1 \/ i = w
  BY <1>1
<1>4. /\ \A i \in 1 .. w - 1 : o[i].done \in BOOLEAN
      /\ \A i \in 1 .. w - 1 : o[i].k # "handlers" =>
           /\ o[i].id \in 0 .. m /\ E[<<"end", o[i].id>>] = 0
           /\ E[<<"body", o[i].id>>] = 0
      /\ \A i, j \in 1 .. w - 1 :
           i < j /\ o[i].k # "handlers" /\ o[j].k # "handlers" => o[i].id < o[j].id
  BY <1>1, <1>3 DEF Order
<1>5. \A i \in 1 .. w - 1 : o[i].k \in Loops => i + 1 \in 1 .. w - 1 /\ o[i + 1].k = "block"
                                              /\ ~o[i].done
  <2>1. ASSUME NEW i \in 1 .. w - 1, o[i].k \in Loops
        PROVE  i + 1 \in 1 .. w - 1 /\ o[i + 1].k = "block" /\ ~o[i].done
    <3>1. o[i + 1].k = "block" /\ ~o[i].done
      BY <1>1, <2>1 DEF Order
    <3>2. i + 1 # w
      BY <1>1, <3>1
    <3>3. QED
      BY <1>1, <3>1, <3>2
  <2>2. QED
    BY <2>1
<1>6. x.k # "handlers" => /\ x.id \in 0 .. q /\ x.id > m /\ x.id \in Nat
                          /\ E[<<"end", x.id>>] = 0 /\ E[<<"body", x.id>>] = 0
  <2>1. x.k # "handlers" => x.id \in 0 .. q /\ x.id > m /\ x.id \in Nat
    BY <1>2
  <2>2. QED
    BY <2>1 DEF Order
<1>7. ASSUME NEW i \in 1 .. w, p[i].k # "handlers"
      PROVE  /\ p[i].id \in 0 .. q /\ E[<<"end", p[i].id>>] = 0
             /\ E[<<"body", p[i].id>>] = 0
  <2>1. CASE i = w
    BY <1>2, <1>6, <1>7, <2>1
  <2>2. CASE i \in 1 .. w - 1
    <3>1. p[i].id \in 0 .. m /\ E[<<"end", p[i].id>>] = 0 /\ E[<<"body", p[i].id>>] = 0
      BY <1>3, <1>4, <1>7, <2>2
    <3>2. QED
      BY <1>2, <3>1
  <2>3. QED
    BY <1>3, <2>1, <2>2
<1>8. ASSUME NEW i \in 1 .. w, NEW j \in 1 .. w, i < j, p[i].k # "handlers",
             p[j].k # "handlers"
      PROVE  p[i].id < p[j].id
  <2>1. i \in 1 .. w - 1
    BY <1>1, <1>8
  <2>2. CASE j = w
    <3>1. p[i].id \in 0 .. m /\ p[j].id > m /\ p[j].id \in Nat
      BY <1>2, <1>3, <1>4, <1>6, <1>8, <2>1, <2>2
    <3>2. QED
      BY <1>2, <3>1
  <2>3. CASE j \in 1 .. w - 1
    BY <1>3, <1>4, <1>8, <2>1, <2>3
  <2>4. QED
    BY <1>3, <2>2, <2>3
<1>9. \A i \in 1 .. w - 1 : p[i].k \in Loops => p[i + 1].k = "block" /\ ~p[i].done
  BY <1>3, <1>5
<1>10. \A i \in 1 .. w : p[i].done \in BOOLEAN
  BY <1>2, <1>3, <1>4
<1>11. \A i \in Nat : i > q => E[<<"end", i>>] = 0 /\ E[<<"body", i>>] = 0
  <2>1. \A i \in Nat : i > q => i > m
    BY <1>2
  <2>2. QED
    BY <2>1 DEF Order
<1>12. QED
  BY <1>2, <1>7, <1>8, <1>9, <1>10, <1>11 DEF Order

\* A statement that is part of a controlled one may complete it.
CompletePost(o, p) ==
  /\ Len(p) = Len(o) /\ SameItems(o, p, Len(o))
  /\ \A i \in 1 .. Len(o) - 1 : p[i] = o[i]
  /\ p[Len(o)].done = IF o[Len(o)].k \in Controlled THEN TRUE ELSE o[Len(o)].done

\* This is what Complete does.
LEMMA CompleteIs ==
  ASSUME NEW o, OpenOK(o), NEW p, p = Complete(o)
  PROVE  CompletePost(o, p)
<1>1. PICK w \in Nat : w = Len(o) /\ w >= 1 /\ DOMAIN o = 1 .. w /\ Last(o) = o[w]
  BY SeqShape DEF OpenOK
<1>2. DOMAIN o[w] = ItemFields
  BY <1>1 DEF OpenOK
<1>3. CASE o[w].k \in Controlled
  <2>1. PICK x : x = [o[w] EXCEPT !.done = TRUE]
    OBVIOUS
  <2>2. p = [o EXCEPT ![w] = x]
    BY <1>1, <1>3, <2>1 DEF Complete
  <2>3. x.k = o[w].k /\ x.id = o[w].id /\ x.done = TRUE
    BY <1>2, <2>1 DEF ItemFields
  <2>4. \A i \in 1 .. w : p[i] = IF i = w THEN x ELSE o[i]
    BY <1>1, <2>2
  <2>5. Len(p) = w
    <3>1. PICK S : o \in Seq(S)
      BY DEF OpenOK, IsSeq
    <3>2. p \in Seq(S \union {x}) /\ Len(p) = Len(o)
      <4>1. o \in Seq(S \union {x})
        BY <3>1, SeqWider
      <4>2. QED
        BY <1>1, <2>2, <4>1, ExceptSeq
    <3>3. QED
      BY <1>1, <3>2
  <2>6. SameItems(o, p, w)
    BY <2>3, <2>4 DEF SameItems
  <2>7. \A i \in 1 .. w - 1 : p[i] = o[i]
    BY <1>1, <2>4
  <2>8. p[w].done = TRUE
    BY <1>1, <2>3, <2>4
  <2>9. QED
    BY <1>1, <1>3, <2>5, <2>6, <2>7, <2>8 DEF CompletePost
<1>4. CASE o[w].k \notin Controlled
  <2>1. p = o
    BY <1>1, <1>4 DEF Complete
  <2>2. QED
    BY <1>1, <1>4, <2>1 DEF CompletePost, SameItems
<1>5. QED
  BY <1>3, <1>4

\* The innermost statement ends, and the one around it may be done.
ClosePost(o, p) ==
  /\ Len(o) >= 2 /\ Len(p) = Len(o) - 1 /\ SameItems(o, p, Len(p))
  /\ \A i \in 1 .. Len(p) - 1 : p[i] = o[i]
  /\ p[Len(p)].done = IF o[Len(o) - 1].k \in Controlled THEN TRUE ELSE o[Len(o) - 1].done

\* This is what Close does.
LEMMA CloseIs ==
  ASSUME NEW o, OpenOK(o), o[Len(o)].k # "function", NEW p, p = Close(o)
  PROVE  ClosePost(o, p)
<1>1. PICK f : f = Front(o)
  OBVIOUS
<1>2. Len(o) >= 2 /\ OpenOK(f) /\ Len(f) = Len(o) - 1
  BY <1>1, FrontOpen
<1>3. PICK w \in Nat : w = Len(o)
  BY SeqShape DEF OpenOK
<1>4. \A i \in 1 .. w - 1 : f[i] = o[i]
  <2>1. IsSeq(o) /\ Len(o) # 0
    BY <1>2 DEF OpenOK
  <2>2. QED
    BY <1>1, <1>3, <2>1, FrontShape
<1>5. p = Complete(f)
  BY <1>1 DEF Close
<1>6. CompletePost(f, p)
  BY <1>2, <1>5, CompleteIs
<1>7. PICK v \in Nat : v = w - 1 /\ v >= 1 /\ Len(f) = v
  BY <1>2, <1>3
<1>8. /\ Len(p) = v /\ SameItems(f, p, v) /\ \A i \in 1 .. v - 1 : p[i] = f[i]
      /\ p[v].done = IF f[v].k \in Controlled THEN TRUE ELSE f[v].done
  BY <1>6, <1>7 DEF CompletePost
<1>9. SameItems(o, p, v) /\ f[v] = o[v] /\ \A i \in 1 .. v - 1 : p[i] = o[i]
  BY <1>4, <1>7, <1>8 DEF SameItems
<1>10. Len(o) - 1 = v /\ Len(p) = Len(o) - 1
  BY <1>2, <1>3, <1>7, <1>8
<1>11. p[v].done = IF o[v].k \in Controlled THEN TRUE ELSE o[v].done
  BY <1>8, <1>9
<1>12. QED
  BY <1>2, <1>8, <1>9, <1>10, <1>11 DEF ClosePost

-----------------------------------------------------------------------------
(* What holds between two actions                                          *)

Purposes == Goals \union {None, Dead}
\* The labels of the function, the gotos and the try blocks are no goals.
Nowhere(c, P) ==
  /\ P[RetLabel] = None /\ (c.goto.label # 0 => P[c.goto.label] = None)
  /\ \A t \in 1 .. Len(c.mTryStack) : P[c.mTryStack[t].label] = None
\* The history says where the goals are that are behind the compiler.
Tied(c, E) ==
  /\ DOMAIN c.end = 0 .. MaxStatements /\ DOMAIN c.body = 0 .. MaxStatements
  /\ \A i \in Nat : /\ E[<<"end", i>>] # 0 => c.end[i] = E[<<"end", i>>]
                    /\ E[<<"body", i>>] # 0 => c.body[i] = E[<<"body", i>>]
\* Between two handlers only the label behind them refers to the last jump.
LastJump(c, o, P) ==
  o[Len(o)].k = "handlers" =>
    \A k \in 1 .. Len(c.label) :
      P[k] # Dead /\ k # c.mTryStack[Len(c.mTryStack)].label =>
        Len(c.code) \notin c.label[k].refs
Waits(o) == o[Len(o)].k \in Loops /\ ~o[Len(o)].done
Homeward(c, o, m, P, E) ==
  /\ P \in [Nat -> Purposes] /\ Homing(c, P, E) /\ Nowhere(c, P)
  /\ AtHome(c, o, P) /\ Order(o, m, E) /\ Tied(c, E)
  /\ c.in_loop = Waits(o) /\ LastJump(c, o, P)

\* A label that does not exist yet may be given any purpose.
LEMMA Repurposed ==
  ASSUME NEW c, CodeOK(c, {}), NEW o, OpenOK(o), NEW m, NEW P, NEW E,
         Homeward(c, o, m, P, E), NEW Q \in [Nat -> Purposes],
         \A k \in 1 .. Len(c.label) : Q[k] = P[k]
  PROVE  Homeward(c, o, m, Q, E)
<1>1. CodeShape(c) /\ StackShape(c) /\ Stacked(c)
  BY StackedOK DEF CodeOK
<1>2. Homing(c, Q, E)
  BY HomingAgrees DEF Homeward
<1>3. Nowhere(c, Q)
  <2>1. RetLabel \in 1 .. Len(c.label) /\ (c.goto.label # 0 => c.goto.label \in 1 .. Len(c.label))
    <3>1. Len(c.label) \in Nat \ {0} /\ c.goto.label \in 0 .. Len(c.label)
      BY <1>1, ShapeFacts DEF StackShape
    <3>2. QED
      BY <3>1 DEF RetLabel
  <2>2. \A t \in 1 .. Len(c.mTryStack) : c.mTryStack[t].label \in 1 .. Len(c.label)
    BY <1>1, StackFacts DEF Tries
  <2>3. QED
    BY <2>1, <2>2 DEF Nowhere, Homeward
<1>4. AtHome(c, o, Q)
  <2>1. IsSeq(o) /\ SameItems(o, o, Len(o)) /\ AtHome(c, o, P)
    BY DEF OpenOK, SameItems, Homeward
  <2>2. PICK x : x = Highs(c)
    OBVIOUS
  <2>3. Alike(c, c, x)
    BY DEF Alike, Kept
  <2>4. QED
    BY <1>1, <2>1, <2>2, <2>3, HomeSame
<1>5. LastJump(c, o, Q)
  BY DEF Homeward, LastJump
<1>6. QED
  BY <1>2, <1>3, <1>4, <1>5 DEF Homeward

-----------------------------------------------------------------------------
(* The steps of the actions, and the labels they put                       *)

\* Nothing leads nowhere.
LEMMA GoesNowhere ==
  ASSUME NEW c, NEW P, NEW E, Homing(c, P, E)
  PROVE  Goes(c, c, P, E)
BY DEF Goes, SamePlace

\* The end of a loop is where its second label is put.
LEMMA LoopEndGoes ==
  ASSUME NEW c, NEW P, NEW E, Homing(c, P, E), NEW l, l = TOS(c, "label_stack"),
         l \in 1 .. Len(c.label), NEW g \in Goals, P[l] = g, E[g] = 0,
         NEW op, op = "JMP" => Plain(c), NEW d, d = LoopEnd(c, op),
         NEW m, m = Len(d.code) + 1, NEW F, F = Reached(E, g, m)
  PROVE  Goes(c, d, P, F)
<1>1. PICK f \in Stacks : f = "label_stack"
  BY DEF Stacks
<1>2. PICK e : e = Pop(c, f)
  OBVIOUS
<1>3. Goes(c, e, P, E)
  BY <1>2, PopGoes
<1>4. PICK t : t = TOS(e, "label_stack")
  OBVIOUS
<1>5. PICK j : j = Jump(e, op, t)
  OBVIOUS
<1>6. Homing(e, P, E) /\ (op = "JMP" => Plain(e))
  BY <1>3 DEF Goes, SamePlace, Plain
<1>7. Goes(e, j, P, E)
  BY <1>5, <1>6, JumpGoes
<1>8. PICK k : k = Pop(j, f)
  OBVIOUS
<1>9. Goes(j, k, P, E)
  BY <1>7, <1>8, PopGoes DEF Goes
<1>10. Goes(c, k, P, E)
  BY <1>3, <1>7, <1>9, GoesTwice
<1>11. PICK off : off = 0
  OBVIOUS
<1>12. d = Here(k, l, off)
  BY <1>1, <1>2, <1>4, <1>5, <1>8, <1>11 DEF LoopEnd
<1>13. l \in 1 .. Len(k.label) /\ Homing(k, P, E)
  BY <1>10 DEF Goes
<1>14. PICK w : w = Len(k.code) + 1
  OBVIOUS
<1>15. PICK H : H = Reached(E, g, w)
  OBVIOUS
<1>16. Goes(k, d, P, H) /\ Len(d.code) = Len(k.code)
  BY <1>11, <1>12, <1>13, <1>14, <1>15, PutGoes
<1>17. H = F
  BY <1>14, <1>15, <1>16 DEF Reached
<1>18. QED
  BY <1>10, <1>16, <1>17, GoesTwice

\* The objects of a context are destroyed: that is no jump.
LEMMA UnwindGoes ==
  ASSUME NEW c, NEW P, NEW E, Homing(c, P, E), NEW i, NEW do_clear \in BOOLEAN,
         NEW d, d = CheckObjects(c, i, do_clear)
  PROVE  Goes(c, d, P, E)
<1>1. CASE c.context_stack[i] = 0
  <2>1. d = c
    BY <1>1 DEF CheckObjects
  <2>2. QED
    BY <2>1, GoesNowhere
<1>2. CASE c.context_stack[i] # 0
  <2>1. PICK op : op = "UNWIND"
    OBVIOUS
  <2>2. PICK e : e = Emit(c, op, c.context_stack[i])
    OBVIOUS
  <2>3. Goes(c, e, P, E)
    BY <2>1, <2>2, EmitGoes
  <2>4. d = IF do_clear THEN [e EXCEPT !.context_stack[i] = 0] ELSE e
    BY <1>2, <2>1, <2>2 DEF CheckObjects
  <2>5. Goes(e, d, P, E)
    <3>1. CASE do_clear
      <4>1. PICK f \in Stacks : f = "context_stack"
        BY DEF Stacks
      <4>2. PICK x : x = [e.context_stack EXCEPT ![i] = 0]
        OBVIOUS
      <4>3. SetTo(e, d, f, x)
        BY <2>4, <3>1, <4>1, <4>2 DEF SetTo
      <4>4. QED
        BY <2>3, <4>3, StackGoes DEF Goes
    <3>2. CASE ~do_clear
      BY <2>3, <2>4, <3>2, GoesNowhere DEF Goes
    <3>3. QED
      BY <3>1, <3>2
  <2>6. QED
    BY <2>3, <2>5, GoesTwice
<1>3. QED
  BY <1>1, <1>2

\* check_context().
LEMMA ContextGoes ==
  ASSUME NEW c, NEW P, NEW E, Homing(c, P, E), NEW d, d = CheckContext(c)
  PROVE  Goes(c, d, P, E)
<1>1. CASE ContextGenerated(c)
  BY <1>1, GoesNowhere DEF CheckContext
<1>2. CASE ~ContextGenerated(c)
  <2>1. PICK f \in Stacks : f = "context_stack"
    BY DEF Stacks
  <2>2. PICK z : z = 0
    OBVIOUS
  <2>3. PICK e : e = Push(c, f, z)
    OBVIOUS
  <2>4. Goes(c, e, P, E)
    BY <2>3, PushGoes
  <2>5. PICK w : w = Len(c.block_stack)
    OBVIOUS
  <2>6. d = [e EXCEPT !.block_stack[w] = @ \union {"CONTEXT_PUSHED"}]
    BY <1>2, <2>1, <2>2, <2>3, <2>5 DEF CheckContext
  <2>7. PICK g \in Stacks : g = "block_stack"
    BY DEF Stacks
  <2>8. PICK x : x = [e.block_stack EXCEPT ![w] = @ \union {"CONTEXT_PUSHED"}]
    OBVIOUS
  <2>9. SetTo(e, d, g, x)
    BY <2>6, <2>7, <2>8 DEF SetTo
  <2>10. Goes(e, d, P, E)
    BY <2>4, <2>9, StackGoes DEF Goes
  <2>11. QED
    BY <2>4, <2>10, GoesTwice
<1>3. QED
  BY <1>1, <1>2

\* A new object.
LEMMA ConstructGoes ==
  ASSUME NEW c, NEW P, NEW E, Homing(c, P, E), NEW op, op # "JMP",
         NEW e, e = Construct(c, op)
  PROVE  Goes(c, e, P, E)
<1>1. PICK s : s = c.size + 1
  OBVIOUS
<1>2. PICK d : d = CheckContext(c)
  OBVIOUS
<1>3. Goes(c, d, P, E)
  BY <1>2, ContextGoes
<1>4. PICK x : x = [d.context_stack EXCEPT ![Len(d.context_stack)] = IF @ = 0 THEN s ELSE @]
  OBVIOUS
<1>5. PICK b : b = [d EXCEPT !.size = s, !.context_stack = x]
  OBVIOUS
<1>6. DOMAIN d = Fields
  BY <1>3 DEF Goes, Homing, Shaped
<1>7. /\ DOMAIN b = Fields /\ b.code = d.code /\ b.label = d.label /\ b.here = d.here
      /\ b.goto.label = d.goto.label /\ b.body = d.body /\ b.end = d.end
  BY <1>5, <1>6 DEF Fields
<1>8. Goes(d, b, P, E)
  BY <1>3, <1>7, AsideGoes DEF Goes
<1>9. e = Emit(b, op, s)
  BY <1>1, <1>2, <1>4, <1>5 DEF Construct
<1>10. Goes(b, e, P, E)
  BY <1>8, <1>9, EmitGoes DEF Goes
<1>11. QED
  BY <1>3, <1>8, <1>10, GoesTwice

\* init_block().
LEMMA InitGoes ==
  ASSUME NEW c, NEW P, NEW E, Homing(c, P, E), NEW d, d = InitBlock(c)
  PROVE  Goes(c, d, P, E)
<1>1. PICK f \in Stacks : f = "break_stack"
  BY DEF Stacks
<1>2. PICK t : t = TOS(c, "label_stack")
  OBVIOUS
<1>3. PICK b : b = IF c.in_loop \/ c.in_switch THEN Push(c, f, t) ELSE c
  OBVIOUS
<1>4. Goes(c, b, P, E)
  <2>1. CASE c.in_loop \/ c.in_switch
    BY <1>3, <2>1, PushGoes
  <2>2. CASE ~(c.in_loop \/ c.in_switch)
    BY <1>3, <2>2, GoesNowhere
  <2>3. QED
    BY <2>1, <2>2
<1>5. PICK s : s = IF c.in_switch THEN [Pop(b, "label_stack") EXCEPT !.in_switch = FALSE] ELSE b
  OBVIOUS
<1>6. Goes(b, s, P, E)
  <2>1. CASE c.in_switch
    <3>1. PICK g \in Stacks : g = "label_stack"
      BY DEF Stacks
    <3>2. PICK a : a = Pop(b, g)
      OBVIOUS
    <3>3. Goes(b, a, P, E)
      BY <1>4, <3>2, PopGoes DEF Goes
    <3>4. s = [a EXCEPT !.in_switch = FALSE] /\ DOMAIN a = Fields
      BY <1>5, <2>1, <3>1, <3>2, <3>3 DEF Goes, Homing, Shaped
    <3>5. /\ DOMAIN s = Fields /\ s.code = a.code /\ s.label = a.label /\ s.here = a.here
          /\ s.goto.label = a.goto.label /\ s.body = a.body /\ s.end = a.end
      BY <3>4 DEF Fields
    <3>6. Goes(a, s, P, E)
      BY <3>3, <3>5, AsideGoes DEF Goes
    <3>7. QED
      BY <3>3, <3>6, GoesTwice
  <2>2. CASE ~c.in_switch
    BY <1>4, <1>5, <2>2, GoesNowhere DEF Goes
  <2>3. QED
    BY <2>1, <2>2
<1>7. PICK l : l = NewLabel(s)
  OBVIOUS
<1>8. PICK k : k = IF c.in_loop
                   THEN [Push(l, "continue_stack", Len(l.label)) EXCEPT !.in_loop = FALSE]
                   ELSE s
  OBVIOUS
<1>9. Goes(s, k, P, E)
  <2>1. CASE c.in_loop
    <3>1. Goes(s, l, P, E)
      BY <1>6, <1>7, NewLabelGoes DEF Goes
    <3>2. PICK g \in Stacks : g = "continue_stack"
      BY DEF Stacks
    <3>3. PICK y : y = Len(l.label)
      OBVIOUS
    <3>4. PICK a : a = Push(l, g, y)
      OBVIOUS
    <3>5. Goes(l, a, P, E)
      BY <3>1, <3>4, PushGoes DEF Goes
    <3>6. k = [a EXCEPT !.in_loop = FALSE] /\ DOMAIN a = Fields
      BY <1>8, <2>1, <3>2, <3>3, <3>4, <3>5 DEF Goes, Homing, Shaped
    <3>7. /\ DOMAIN k = Fields /\ k.code = a.code /\ k.label = a.label /\ k.here = a.here
          /\ k.goto.label = a.goto.label /\ k.body = a.body /\ k.end = a.end
      BY <3>6 DEF Fields
    <3>8. Goes(a, k, P, E)
      BY <3>5, <3>7, AsideGoes DEF Goes
    <3>9. QED
      BY <3>1, <3>5, <3>8, GoesTwice
  <2>2. CASE ~c.in_loop
    BY <1>6, <1>8, <2>2, GoesNowhere DEF Goes
  <2>3. QED
    BY <2>1, <2>2
<1>10. PICK flags : flags = BlockFlags(c)
  OBVIOUS
<1>11. PICK h \in Stacks : h = "block_stack"
  BY DEF Stacks
<1>12. d = Push(k, h, flags)
  <2>1. BlockFlags(c) = (IF c.in_loop \/ c.in_switch THEN {"BREAKABLE"} ELSE {}) \union
               (IF c.in_switch THEN {"IN_SWITCH"} ELSE {}) \union
               (IF c.in_loop THEN {"CONTINUEABLE"} ELSE {})
    BY DEF BlockFlags
  <2>2. QED
    BY <1>1, <1>2, <1>3, <1>5, <1>7, <1>8, <1>10, <1>11, <2>1 DEF InitBlock
<1>13. Goes(k, d, P, E)
  BY <1>9, <1>12, PushGoes DEF Goes
<1>14. QED
  BY <1>4, <1>6, <1>9, <1>13, GoesTwice

SetCases(c, st, arg, table) == [c EXCEPT !.code[st].arg = arg, !.code[st].table = table]
\* The jump of a switch gets its cases, which makes it no jump of a break.
LEMMA CasesGoes ==
  ASSUME NEW c, NEW P, NEW E, Homing(c, P, E), NEW st \in 1 .. Len(c.code),
         c.code[st].op \in {"JSWITCH", "HALT"}, NEW arg, NEW table,
         NEW d, d = SetCases(c, st, arg, table)
  PROVE  Goes(c, d, P, E)
<1>1. /\ DOMAIN c = Fields /\ IsSeq(c.code) /\ Len(c.code) \in Nat
      /\ DOMAIN c.code = 1 .. Len(c.code) /\ DOMAIN c.code[st] = InstrFields
      /\ DOMAIN c.here = HereFields
  BY SeqShape DEF Homing, Shaped
<1> DEFINE x == [[c.code[st] EXCEPT !.arg = arg] EXCEPT !.table = table]
<1>2. x.op = c.code[st].op /\ DOMAIN x = InstrFields
  BY <1>1, SMTT(40) DEF InstrFields
<1>3. d.code = [c.code EXCEPT ![st] = x]
  BY <1>1 DEF Fields, SetCases
<1> HIDE DEF x
<1>4. /\ d.code = [i \in 1 .. Len(c.code) |-> d.code[i]]
      /\ \A i \in 1 .. Len(c.code) : d.code[i] = IF i = st THEN x ELSE c.code[i]
  BY <1>1, <1>3
<1>5. IsSeq(d.code) /\ Len(d.code) = Len(c.code)
  BY <1>1, <1>4, FunctionShape
<1>6. /\ DOMAIN d = Fields /\ d.label = c.label /\ d.here = c.here /\ d.goto = c.goto
      /\ d.body = c.body /\ d.end = c.end
  BY <1>1 DEF Fields, SetCases
<1>7. \A i \in 1 .. Len(c.code) :
        d.code[i] = c.code[i] \/ (~Bound(d.code[i]) /\ DOMAIN d.code[i] = InstrFields)
  BY <1>2, <1>4 DEF Bound
<1>8. Homing(d, P, E)
  BY <1>1, <1>5, <1>6, <1>7, HomingPatch
<1>9. QED
  BY <1>6, <1>8 DEF Goes, SamePlace

\* The end of a switch is where its break label is put.
LEMMA EndSwitchGoes ==
  ASSUME NEW c, NEW P, NEW E, Homing(c, P, E), CodeOK(c, {}), Len(c.break_stack) >= 1,
         Len(c.switch_stack) >= 1, NEW g \in Goals, P[c.break_stack[Len(c.break_stack)]] = g,
         E[g] = 0, NEW m, m = Len(c.code) + 1, NEW F, F = Reached(E, g, m),
         NEW e, e = EndSwitch(c)
  PROVE  Goes(c, e, P, F)
<1>1. CodeShape(c) /\ StackShape(c) /\ Switched(c) /\ DOMAIN c = Fields
  BY DEF CodeOK, CodeShape
<1>2. PICK l : l = c.break_stack[Len(c.break_stack)]
  OBVIOUS
<1>3. l = TOS(c, "break_stack") /\ l \in 1 .. Len(c.label)
  <2>1. Len(c.break_stack) \in 1 .. Len(c.break_stack)
    BY <1>1, StackFacts
  <2>2. l = TOS(c, "break_stack")
    BY <1>2 DEF TOS, Last
  <2>3. QED
    BY <1>1, <1>2, <2>1, <2>2, StackFacts
<1>4. PICK off : off = 0
  OBVIOUS
<1>5. PICK d : d = Here(c, l, off)
  OBVIOUS
<1>6. P[l] = g
  BY <1>2
<1>7. Goes(c, d, P, F) /\ Len(d.code) = Len(c.code)
  BY <1>3, <1>4, <1>5, <1>6, PutGoes
<1>8. PICK z \in {0, -1} : z = 0
  OBVIOUS
<1>9. PICK to : to = Len(c.code) + 1 + z
  OBVIOUS
<1>10. HereDoes(c, d, l, to)
  BY <1>3, <1>4, <1>5, <1>8, <1>9, HereFacts DEF Homing
<1>11. d.switch_stack = c.switch_stack
  BY <1>1, <1>5 DEF Here, Fields
<1>12. PICK w : w = Len(c.switch_stack)
  OBVIOUS
<1>13. PICK sw : sw = c.switch_stack[w]
  OBVIOUS
<1>14. sw = TOS(d, "switch_stack")
  BY <1>11, <1>12, <1>13 DEF TOS, Last
<1>15. w \in 1 .. Len(c.switch_stack)
  BY <1>1, <1>12, StackFacts
<1>16. PICK st : st = sw.start
  OBVIOUS
<1>17. st \in 1 .. Len(c.code) /\ c.code[st].op \in {"JSWITCH", "HALT"}
  BY <1>1, <1>13, <1>15, <1>16 DEF Switched
<1>18. st \in 1 .. Len(d.code) /\ d.code[st].op \in {"JSWITCH", "HALT"}
  BY <1>7, <1>10, <1>17 DEF HereDoes
<1>19. PICK arg : arg = IF sw.default = 0 THEN IpOffset(d) ELSE sw.default
  OBVIOUS
<1>20. PICK table : table = sw.cases
  OBVIOUS
<1>21. PICK b : b = SetCases(d, st, arg, table)
  OBVIOUS
<1>22. Goes(d, b, P, F)
  <2>1. Homing(d, P, F)
    BY <1>7 DEF Goes
  <2>2. QED
    BY <1>18, <1>21, <2>1, CasesGoes
<1>23. PICK f \in Stacks : f = "switch_stack"
  BY DEF Stacks
<1>24. e = Pop(b, f)
  <2>1. e = Pop([d EXCEPT !.code[sw.start].arg = arg, !.code[sw.start].table = sw.cases],
                "switch_stack")
    BY <1>3, <1>4, <1>5, <1>14, <1>19 DEF EndSwitch
  <2>2. QED
    BY <1>16, <1>20, <1>21, <1>23, <2>1 DEF SetCases
<1>25. Goes(b, e, P, F)
  BY <1>22, <1>24, PopGoes DEF Goes
<1>26. Goes(c, b, P, F)
  BY <1>7, <1>22, GoesTwice
<1>27. QED
  BY <1>25, <1>26, GoesTwice

\* The goal that is behind the compiler after a block with the flags B: that of
\* its switch, or the body of its loop, and no other.
GoalOf(c, P, E, B, g) ==
  /\ g \in Goals
  /\ ~("IN_SWITCH" \in B /\ "CONTINUEABLE" \in B)
  /\ "IN_SWITCH" \in B => P[c.break_stack[Len(c.break_stack)]] = g /\ E[g] = 0
  /\ "CONTINUEABLE" \in B => P[c.continue_stack[Len(c.continue_stack)]] = g /\ E[g] = 0
EndOf(E, B, g, m) ==
  IF "IN_SWITCH" \in B \/ "CONTINUEABLE" \in B THEN Reached(E, g, m) ELSE E

\* The end of a block, up to its context.
LEMMA FinishGoes ==
  ASSUME NEW c, NEW P, NEW E, Homing(c, P, E), CodeOK(c, {}), NEW B, Closable(c, B),
         NEW g, GoalOf(c, P, E, B, g), NEW m, m = Len(c.code) + 1,
         NEW F, F = EndOf(E, B, g, m), NEW d, d = FinishBlock(c)
  PROVE  Goes(c, d, P, F)
<1>1. CodeShape(c) /\ StackShape(c) /\ DOMAIN c = Fields
  BY DEF CodeOK, CodeShape
<1>2. B = TOS(c, "block_stack")
  BY DEF Closable, TOS, Last
<1>3. PICK h \in Stacks : h = "block_stack"
  BY DEF Stacks
<1>4. PICK b : b = Pop(c, h)
  OBVIOUS
<1>5. Goes(c, b, P, E) /\ b[h] = Front(c[h]) /\ \A q \in Fields : q # h => b[q] = c[q]
  BY <1>4, PopGoes
<1>6. /\ DOMAIN b = Fields /\ b.code = c.code /\ b.label = c.label
      /\ b.label_stack = c.label_stack /\ b.break_stack = c.break_stack
      /\ b.continue_stack = c.continue_stack /\ b.switch_stack = c.switch_stack
      /\ b.mTryStack = c.mTryStack /\ b.context_stack = c.context_stack
      /\ b.in_loop = c.in_loop /\ b.in_switch = c.in_switch /\ b.size = c.size
      /\ b.catch = c.catch /\ b.goto = c.goto
      /\ b.block_stack = Front(c.block_stack)
  BY <1>3, <1>5 DEF Fields, Goes, Homing, Shaped
<1>7. IsSeq(b.block_stack)
  <2>1. IsSeq(c.block_stack) /\ Len(c.block_stack) # 0
    BY <1>1 DEF StackShape, Closable
  <2>2. QED
    BY <1>6, <2>1, FrontShape
<1>8. StackShape(b)
  BY <1>1, <1>6, <1>7 DEF StackShape
<1>9. CodeOK(b, {}) /\ Homing(b, P, E)
  BY <1>5, <1>6, <1>8, AsideOK DEF Goes
<1>10. g \in Goals
  BY DEF GoalOf
<1>11. PICK s : s = IF "IN_SWITCH" \in B THEN EndSwitch(b) ELSE b
  OBVIOUS
<1>12. PICK H : H = IF "IN_SWITCH" \in B THEN F ELSE E
  OBVIOUS
<1>13. Goes(b, s, P, H)
  <2>1. CASE "IN_SWITCH" \in B
    <3>1. Len(b.break_stack) >= 1 /\ Len(b.switch_stack) >= 1 /\ s = EndSwitch(b)
      BY <1>6, <1>11, <2>1 DEF Closable
    <3>2. P[b.break_stack[Len(b.break_stack)]] = g /\ E[g] = 0
      BY <1>6, <2>1 DEF GoalOf
    <3>3. m = Len(b.code) + 1 /\ F = Reached(E, g, m) /\ H = F
      BY <1>6, <1>12, <2>1 DEF EndOf
    <3>4. Goes(b, s, P, F)
      BY <1>9, <1>10, <3>1, <3>2, <3>3, EndSwitchGoes
    <3>5. QED
      BY <3>3, <3>4
  <2>2. CASE "IN_SWITCH" \notin B
    BY <1>9, <1>11, <1>12, <2>2, GoesNowhere
  <2>3. QED
    BY <2>1, <2>2
<1>14. PICK k : k = IF "CONTINUEABLE" \in B
                    THEN Pop(Here(s, TOS(s, "continue_stack"), 0), "continue_stack")
                    ELSE s
  OBVIOUS
<1>15. Goes(s, k, P, F)
  <2>1. CASE "CONTINUEABLE" \in B
    <3>1. s = b /\ H = E /\ F = Reached(E, g, m)
      BY <1>11, <1>12, <2>1 DEF GoalOf, EndOf
    <3>2. PICK l : l = TOS(b, "continue_stack")
      OBVIOUS
    <3>3. l = c.continue_stack[Len(c.continue_stack)] /\ P[l] = g /\ E[g] = 0
      BY <1>6, <2>1, <3>2 DEF GoalOf, TOS, Last
    <3>4. l \in 1 .. Len(b.label)
      <4>1. Len(c.continue_stack) \in 1 .. Len(c.continue_stack)
        BY <1>1, <2>1, StackFacts DEF Closable
      <4>2. QED
        BY <1>1, <1>6, <3>3, <4>1, StackFacts
    <3>5. PICK off : off = 0
      OBVIOUS
    <3>6. PICK a : a = Here(b, l, off)
      OBVIOUS
    <3>7. m = Len(b.code) + 1
      BY <1>6
    <3>8. Goes(b, a, P, F)
      BY <1>9, <1>10, <3>1, <3>3, <3>4, <3>5, <3>6, <3>7, PutGoes
    <3>9. PICK f \in Stacks : f = "continue_stack"
      BY DEF Stacks
    <3>10. k = Pop(a, f)
      BY <1>14, <2>1, <3>1, <3>2, <3>5, <3>6, <3>9
    <3>11. Goes(a, k, P, F)
      BY <3>8, <3>10, PopGoes DEF Goes
    <3>12. QED
      BY <3>1, <3>8, <3>11, GoesTwice
  <2>2. CASE "CONTINUEABLE" \notin B
    <3>1. k = s
      BY <1>14, <2>2
    <3>2. H = F
      BY <1>12, <2>2 DEF EndOf
    <3>3. QED
      BY <1>13, <3>1, <3>2, GoesNowhere DEF Goes
  <2>3. QED
    BY <2>1, <2>2
<1>16. d = IF "BREAKABLE" \in B THEN Pop(k, "break_stack") ELSE k
  BY <1>2, <1>3, <1>4, <1>11, <1>14 DEF FinishBlock
<1>17. Goes(k, d, P, F)
  <2>1. CASE "BREAKABLE" \in B
    <3>1. PICK f \in Stacks : f = "break_stack"
      BY DEF Stacks
    <3>2. d = Pop(k, f)
      BY <1>16, <2>1, <3>1
    <3>3. QED
      BY <1>15, <3>2, PopGoes DEF Goes
  <2>2. CASE "BREAKABLE" \notin B
    BY <1>15, <1>16, <2>2, GoesNowhere DEF Goes
  <2>3. QED
    BY <2>1, <2>2
<1>18. Goes(c, s, P, H)
  BY <1>5, <1>13, GoesTwice
<1>19. Goes(c, k, P, F)
  BY <1>15, <1>18, GoesTwice
<1>20. QED
  BY <1>17, <1>19, GoesTwice

\* Neither do the objects and the context of a block lead anywhere.
LEMMA FinalizeGoes ==
  ASSUME NEW c, NEW P, NEW E, Homing(c, P, E), CodeOK(c, {}), NEW B, Closable(c, B),
         NEW g, GoalOf(c, P, E, B, g), NEW m, m = Len(c.code) + 1,
         NEW F, F = EndOf(E, B, g, m), NEW e, e = FinalizeBlock(c)
  PROVE  Goes(c, e, P, F)
<1>1. PICK d : d = FinishBlock(c)
  OBVIOUS
<1>2. Goes(c, d, P, F)
  BY <1>1, FinishGoes
<1>3. B = TOS(c, "block_stack")
  BY DEF Closable, TOS, Last
<1>4. CASE "CONTEXT_PUSHED" \notin B
  <2>1. e = d
    BY <1>1, <1>3, <1>4 DEF FinalizeBlock, ContextGenerated
  <2>2. QED
    BY <1>2, <2>1
<1>5. CASE "CONTEXT_PUSHED" \in B
  <2>1. PICK i : i = Len(d.context_stack)
    OBVIOUS
  <2>2. PICK u : u = CheckObjects(d, i, TRUE)
    OBVIOUS
  <2>3. Goes(d, u, P, F)
    <3>1. Homing(d, P, F)
      BY <1>2 DEF Goes
    <3>2. QED
      BY <2>2, <3>1, UnwindGoes
  <2>4. PICK v : v = [u EXCEPT !.goto.context = IF @ = Len(u.context_stack) THEN -1 ELSE @]
    OBVIOUS
  <2>5. e = Pop(v, "context_stack")
    BY <1>1, <1>3, <1>5, <2>1, <2>2, <2>4 DEF FinalizeBlock, ContextGenerated
  <2>6. DOMAIN u = Fields
    BY <2>3 DEF Goes, Homing, Shaped
  <2>7. /\ DOMAIN v = Fields /\ v.code = u.code /\ v.label = u.label /\ v.here = u.here
        /\ v.body = u.body /\ v.end = u.end
        /\ v.goto = [u.goto EXCEPT !.context = IF @ = Len(u.context_stack) THEN -1 ELSE @]
    BY <2>4, <2>6 DEF Fields
  <2>8. DOMAIN u.goto = {"label", "context", "from", "to"}
    <3>1. PICK X : X = {}
      OBVIOUS
    <3>2. FinishPost(c, X, d, B)
      BY <1>1, <3>1, FinishBlockOK
    <3>3. d.goto = c.goto /\ DOMAIN c.goto = {"label", "context", "from", "to"}
      BY <3>2 DEF FinishPost, CodeOK, StackShape
    <3>4. DOMAIN d = Fields
      BY <1>2 DEF Goes, Homing, Shaped
    <3>5. u.goto = d.goto
      <4>1. CASE d.context_stack[i] = 0
        BY <2>2, <4>1 DEF CheckObjects
      <4>2. CASE d.context_stack[i] # 0
        BY <2>2, <3>4, <4>2 DEF CheckObjects, Emit, Fields
      <4>3. QED
        BY <4>1, <4>2
    <3>6. QED
      BY <3>3, <3>5
  <2>9. v.goto.label = u.goto.label
    BY <2>7, <2>8
  <2>10. Goes(u, v, P, F)
    BY <2>3, <2>7, <2>9, AsideGoes DEF Goes
  <2>11. PICK f \in Stacks : f = "context_stack"
    BY DEF Stacks
  <2>12. Goes(v, e, P, F)
    BY <2>5, <2>10, <2>11, PopGoes DEF Goes
  <2>13. Goes(c, u, P, F)
    BY <1>2, <2>3, GoesTwice
  <2>14. Goes(c, v, P, F)
    BY <2>10, <2>13, GoesTwice
  <2>15. QED
    BY <2>12, <2>14, GoesTwice
<1>6. QED
  BY <1>4, <1>5

\* The unwinding before a break or goto.
LEMMA LocalGoes ==
  ASSUME NEW c, NEW P, NEW E, Homing(c, P, E), NEW d, d = CheckLocalUnwind(c)
  PROVE  Goes(c, d, P, E)
<1>1. PICK i : i = Len(c.context_stack)
  OBVIOUS
<1>2. PICK e : e = CheckObjects(c, i, FALSE)
  OBVIOUS
<1>3. Goes(c, e, P, E)
  BY <1>2, UnwindGoes
<1>4. d = e \/ d = c
  BY <1>1, <1>2 DEF CheckLocalUnwind
<1>5. QED
  BY <1>3, <1>4, GoesNowhere

\* The unwinding before a return.
LEMMA EnclosingGoes ==
  ASSUME NEW c, NEW P, NEW E, Homing(c, P, E), NEW d, d = CheckEnclosingScopes(c)
  PROVE  Goes(c, d, P, E)
<1>1. d = c \/ \E i : d = CheckObjects(c, i, TRUE)
  BY DEF CheckEnclosingScopes
<1>2. ASSUME NEW i, d = CheckObjects(c, i, TRUE)
      PROVE  Goes(c, d, P, E)
  BY <1>2, UnwindGoes
<1>3. QED
  BY <1>1, <1>2, GoesNowhere

-----------------------------------------------------------------------------
(* The gotos and their label                                               *)
Follows(c, d, P, E) == Homing(d, P, E) /\ SamePlace(c, d)

\* The label of the gotos is new: it refers to nothing.
LEMMA CreateGoes ==
  ASSUME NEW c, NEW P, NEW E, Homing(c, P, E), NEW d, d = CreateGotoLabel(c)
  PROVE  Follows(c, d, P, E)
<1>1. PICK e : e = NewLabel(c)
  OBVIOUS
<1>2. Homing(e, P, E) /\ SamePlace(c, e)
  BY <1>1, NewLabelGoes DEF Goes
<1>3. d = [e EXCEPT !.goto.label = Len(e.label)]
  BY <1>1 DEF CreateGotoLabel
<1>4. DOMAIN e = Fields /\ DOMAIN e.here = HereFields
  BY <1>2 DEF Homing, Shaped
<1>5. /\ DOMAIN d = Fields /\ d.code = e.code /\ d.label = e.label /\ d.here = e.here
      /\ d.body = e.body /\ d.end = e.end
  BY <1>3, <1>4 DEF Fields
<1>6. Homing(d, P, E)
  BY <1>2, <1>4, <1>5, HomingSame
<1>7. QED
  BY <1>2, <1>5, <1>6 DEF Follows, SamePlace

\* A goto is no break or continue.
LEMMA DoGotoGoes ==
  ASSUME NEW c, NEW P, NEW E, Homing(c, P, E), Plain(c), NEW e, e = DoGoto(c)
  PROVE  Follows(c, e, P, E)
<1> DEFINE new == c.goto.label = 0
<1>1. PICK d : d = IF new THEN CreateGotoLabel(c) ELSE c
  OBVIOUS
<1>2. Follows(c, d, P, E)
  <2>1. CASE new
    BY <1>1, <2>1, CreateGoes
  <2>2. CASE ~new
    BY <1>1, <2>2 DEF Follows, SamePlace
  <2>3. QED
    BY <2>1, <2>2
<1>3. PICK u : u = IF InContext(d) /\ d.label[d.goto.label].to # 0 THEN d
                   ELSE CheckLocalUnwind(d)
  OBVIOUS
<1>4. Homing(d, P, E)
  BY <1>2 DEF Follows
<1>5. Goes(d, u, P, E)
  <2>1. PICK w : w = CheckLocalUnwind(d)
    OBVIOUS
  <2>2. Goes(d, w, P, E)
    BY <1>4, <2>1, LocalGoes
  <2>3. u = d \/ u = w
    BY <1>3, <2>1
  <2>4. QED
    BY <1>4, <2>2, <2>3, GoesNowhere
<1>6. PICK r : r = IF new /\ u # d
                   THEN [u EXCEPT !.goto.context = Len(u.context_stack)] ELSE u
  OBVIOUS
<1>7. /\ DOMAIN u = Fields /\ DOMAIN u.here = HereFields /\ Homing(u, P, E)
      /\ SamePlace(d, u)
  BY <1>5 DEF Goes, Homing, Shaped
<1>8. /\ DOMAIN r = Fields /\ r.code = u.code /\ r.label = u.label /\ r.here = u.here
      /\ r.body = u.body /\ r.end = u.end
  <2>1. CASE new /\ u # d
    <3>1. r = [u EXCEPT !.goto.context = Len(u.context_stack)]
      BY <1>6, <2>1
    <3>2. QED
      BY <1>7, <3>1 DEF Fields
  <2>2. CASE ~(new /\ u # d)
    <3>1. r = u
      BY <1>6, <2>2
    <3>2. QED
      BY <1>7, <3>1
  <2>3. QED
    BY <2>1, <2>2
<1>9. Homing(r, P, E)
  BY <1>7, <1>8, HomingSame
<1>10. PICK op : op = "JMP"
  OBVIOUS
<1>11. PICK l : l = r.goto.label
  BY SMTT(40)
<1>12. e = Jump(r, op, l)
  BY <1>1, <1>3, <1>6, <1>10, <1>11 DEF DoGoto
<1>13. SamePlace(c, r)
  BY <1>2, <1>7, <1>8 DEF Follows, SamePlace
<1>14. Plain(r)
  BY <1>13 DEF SamePlace, Plain
<1>15. Goes(r, e, P, E)
  BY <1>9, <1>12, <1>14, JumpGoes
<1>16. QED
  BY <1>13, <1>15 DEF Goes, Follows, SamePlace

SetHalt(c, i) == [c EXCEPT !.code[i].op = "HALT"]
\* An instruction that becomes a HALT is no jump any more.
LEMMA HaltGoes ==
  ASSUME NEW c, NEW P, NEW E, Homing(c, P, E), NEW i, NEW d, d = SetHalt(c, i)
  PROVE  Follows(c, d, P, E)
<1>1. /\ DOMAIN c = Fields /\ IsSeq(c.code) /\ DOMAIN c.code = 1 .. Len(c.code)
      /\ Len(c.code) \in Nat /\ DOMAIN c.here = HereFields
      /\ \A j \in 1 .. Len(c.code) : DOMAIN c.code[j] = InstrFields
  BY SeqShape DEF Homing, Shaped
<1>2. /\ d.label = c.label /\ d.here = c.here /\ d.body = c.body /\ d.end = c.end
      /\ DOMAIN d = Fields /\ d.code = [c.code EXCEPT ![i].op = "HALT"]
  BY <1>1 DEF Fields, SetHalt
<1>3. CASE i \notin 1 .. Len(c.code)
  <2>1. PICK S : c.code \in Seq(S)
    BY <1>1 DEF IsSeq
  <2>2. d.code = c.code
    BY <1>1, <1>2, <1>3, <2>1
  <2>3. DOMAIN d.here = HereFields
    BY <1>1, <1>2
  <2>4. Homing(d, P, E)
    BY <1>2, <2>2, <2>3, HomingSame
  <2>5. QED
    BY <1>2, <2>4 DEF Follows, SamePlace
<1>4. CASE i \in 1 .. Len(c.code)
  <2>1. \A j \in 1 .. Len(c.code) :
          d.code[j] = IF j = i THEN [c.code[j] EXCEPT !.op = "HALT"] ELSE c.code[j]
    BY <1>1, <1>2, <1>4, ZenonT(60)
  <2>2. \A j \in 1 .. Len(c.code) :
          d.code[j] = c.code[j] \/ (d.code[j].op = "HALT" /\ DOMAIN d.code[j] = InstrFields)
    BY <1>1, <2>1 DEF InstrFields
  <2>3. \A j \in 1 .. Len(c.code) :
          d.code[j] = c.code[j] \/ (~Bound(d.code[j]) /\ DOMAIN d.code[j] = InstrFields)
    BY <2>2 DEF Bound
  <2>4. d.code = [j \in 1 .. Len(c.code) |-> d.code[j]]
    BY <1>1, <1>2
  <2>5. IsSeq(d.code) /\ Len(d.code) = Len(c.code)
    BY <1>1, <2>4, FunctionShape
  <2>6. DOMAIN d.here = HereFields
    BY <1>1, <1>2
  <2>7. Homing(d, P, E)
    BY <1>2, <2>3, <2>5, <2>6, HomingPatch
  <2>8. QED
    BY <1>2, <2>7 DEF Follows, SamePlace
<1>5. QED
  BY <1>3, <1>4

\* The label of the gotos stands for nothing.
LEMMA GotoLabelGoes ==
  ASSUME NEW c, CodeOK(c, {}), NEW P, NEW E, Homing(c, P, E), NEW e, e = GotoLabel(c),
         NEW l, l = (IF c.goto.label = 0 THEN Len(c.label) + 1 ELSE c.goto.label),
         P[l] = None
  PROVE  Follows(c, e, P, E)
<1>1. CodeShape(c) /\ StackShape(c) /\ Len(c.label) \in Nat /\ Len(c.label) >= 1
      /\ c.goto.label \in 0 .. Len(c.label) /\ DOMAIN c = Fields
  BY ShapeFacts, SMTT(40) DEF CodeOK, StackShape, CodeShape
<1>2. PICK d : d = IF c.goto.label = 0 THEN CreateGotoLabel(c) ELSE c
  OBVIOUS
<1>3. Follows(c, d, P, E) /\ l \in 1 .. Len(d.label)
  <2>1. CASE c.goto.label = 0
    <3>1. PICK X : X = {}
      OBVIOUS
    <3>2. d = CreateGotoLabel(c) /\ l = Len(c.label) + 1
      BY <1>2, <2>1
    <3>3. CreateGotoPost(c, X, d, l)
      BY <2>1, <3>1, <3>2, CreateGotoLabelOK
    <3>4. Follows(c, d, P, E)
      BY <3>2, CreateGoes
    <3>5. QED
      BY <3>3, <3>4 DEF CreateGotoPost
  <2>2. CASE c.goto.label # 0
    <3>1. d = c /\ l \in 1 .. Len(c.label)
      BY <1>1, <1>2, <2>2
    <3>2. QED
      BY <3>1 DEF Follows, SamePlace
  <2>3. QED
    BY <2>1, <2>2
<1>4. PICK off \in {0, -1} : off = 0
  OBVIOUS
<1>5. PICK h : h = Here(d, l, off)
  OBVIOUS
<1>6. Homing(d, P, E)
  BY <1>3 DEF Follows
<1>7. Goes(d, h, P, E)
  BY <1>3, <1>5, <1>6, HereGoes
<1>8. e = IF InContext(h) THEN PatchWithNOP(h) ELSE h
  BY <1>2, <1>4, <1>5 DEF GotoLabel
<1>9. Follows(h, e, P, E)
  <2>1. CASE InContext(h)
    <3> DEFINE refs == h.label[h.goto.label].refs
    <3>1. PICK i : i = (CHOOSE j \in refs : \A k \in refs : j <= k) - 1
      OBVIOUS
    <3>2. e = SetHalt(h, i)
      BY <1>8, <2>1, <3>1 DEF PatchWithNOP, SetHalt
    <3>3. Homing(h, P, E)
      BY <1>7 DEF Goes
    <3>4. QED
      BY <3>2, <3>3, HaltGoes
  <2>2. CASE ~InContext(h)
    BY <1>7, <1>8, <2>2 DEF Follows, SamePlace, Goes
  <2>3. QED
    BY <2>1, <2>2
<1>10. QED
  BY <1>3, <1>7, <1>9 DEF Follows, SamePlace, Goes

-----------------------------------------------------------------------------
(* What an action has to leave                                             *)

\* Stacks that do not change keep their marks.
LEMMA SameStacksHome ==
  ASSUME NEW c, NEW d, SameStacks(c, d), NEW x, x = Highs(c)
  PROVE  Alike(c, d, x) /\ Highs(d) = x
BY DEF SameStacks, Highs, Alike, Kept

\* Only the innermost statement may be done, and another one counts.
SameOpen(o, p) ==
  /\ Len(p) = Len(o) /\ SameItems(o, p, Len(o))
  /\ \A i \in 1 .. Len(o) - 1 : p[i] = o[i]
  /\ p[Len(o)].done \in BOOLEAN /\ (o[Len(o)].done => p[Len(o)].done)

\* A statement that neither opens nor closes leaves all in place.
LEMMA StillHome ==
  ASSUME NEW c, CodeOK(c, {}), NEW o, OpenOK(o), NEW m, NEW P, NEW E,
         Homeward(c, o, m, P, E), o[Len(o)].k \notin Loops, o[Len(o)].k # "handlers",
         NEW d, Homing(d, P, E), d.body = c.body, d.end = c.end,
         NEW x, x = Highs(c), Alike(c, d, x), Highs(d) = x,
         d.mTryStack = c.mTryStack, d.in_loop = c.in_loop,
         d.goto.label # 0 => P[d.goto.label] = None,
         NEW p, SameOpen(o, p), NEW q \in {m, m + 1}
  PROVE  Homeward(d, p, q, P, E)
<1>1. Stacked(c) /\ IsSeq(o) /\ Len(o) >= 1 /\ Len(o) \in Nat
  BY StackedOK, SeqShape DEF OpenOK
<1>2. /\ P \in [Nat -> Purposes] /\ Nowhere(c, P) /\ AtHome(c, o, P) /\ Order(o, m, E)
      /\ Tied(c, E) /\ c.in_loop = Waits(o)
  BY DEF Homeward
<1>3. Nowhere(d, P)
  BY <1>2 DEF Nowhere
<1>4. Len(p) = Len(o) /\ SameItems(o, p, Len(o))
  BY DEF SameOpen
<1>5. AtHome(d, p, P)
  BY <1>1, <1>2, <1>4, HomeSame
<1>6. Order(p, q, E)
  BY <1>1, <1>2, OrderSame DEF SameOpen
<1>7. Tied(d, E)
  BY <1>2 DEF Tied
<1>8. p[Len(p)].k = o[Len(o)].k
  <2>1. Len(o) \in 1 .. Len(o)
    BY <1>1
  <2>2. QED
    BY <1>4, <2>1 DEF SameItems
<1>9. d.in_loop = Waits(p)
  BY <1>2, <1>8 DEF Waits
<1>10. LastJump(d, p, P)
  BY <1>8 DEF LastJump
<1>11. QED
  BY <1>2, <1>3, <1>5, <1>6, <1>7, <1>9, <1>10 DEF Homeward

\* The try blocks and the gotos hold no goal's label.
Aimless(c, d, P) ==
  /\ d.goto.label = c.goto.label
  /\ \A t \in 1 .. Len(d.mTryStack) : P[d.mTryStack[t].label] = None
\* So it is when they hold the labels that they held.
LEMMA AimlessSame ==
  ASSUME NEW c, NEW P, Nowhere(c, P), NEW d, d.goto.label = c.goto.label,
         d.mTryStack = c.mTryStack
  PROVE  Aimless(c, d, P)
BY DEF Aimless, Nowhere

\* A statement x is begun inside the innermost one.
Inside(o, p, x, m) ==
  /\ Len(p) = Len(o) + 1 /\ (\A i \in 1 .. Len(o) : p[i] = o[i]) /\ p[Len(o) + 1] = x
  /\ x.id = m + 1 /\ x.k # "handlers" /\ x.done = FALSE
  /\ o[Len(o)].k \in Loops => x.k = "block" /\ ~o[Len(o)].done

\* A statement that opens has its labels on the stacks.
LEMMA OpensHome ==
  ASSUME NEW c, CodeOK(c, {}), NEW o, OpenOK(o), NEW m, NEW P, NEW E,
         Homeward(c, o, m, P, E), NEW y, NEW p, Inside(o, p, y, m),
         NEW d, Homing(d, P, E), d.body = c.body, d.end = c.end, Aimless(c, d, P),
         NEW x, x = Highs(c), Alike(c, d, x), NEW i, i = Len(o) + 1,
         Highs(d) = Above(x, p, i), Spot(d, p, x, i, P), d.in_loop = (y.k \in Loops)
  PROVE  Homeward(d, p, m + 1, P, E)
<1>1. Stacked(c) /\ IsSeq(o) /\ Len(o) >= 1 /\ Len(o) \in Nat
  BY StackedOK, SeqShape DEF OpenOK
<1>2. /\ P \in [Nat -> Purposes] /\ Nowhere(c, P) /\ AtHome(c, o, P) /\ Order(o, m, E)
      /\ Tied(c, E)
  BY DEF Homeward
<1>3. Nowhere(d, P)
  BY <1>2 DEF Nowhere, Aimless
<1>4. Len(p) = i /\ SameItems(o, p, Len(o)) /\ p[Len(p)] = y
  BY DEF Inside, SameItems
<1>5. AtHome(d, p, P)
  BY <1>1, <1>2, <1>4, HomeOpen
<1>6. Order(p, m + 1, E)
  BY <1>1, <1>2, OrderUp DEF Inside
<1>7. Tied(d, E)
  BY <1>2 DEF Tied
<1>8. y.k # "handlers" /\ y.done = FALSE
  BY DEF Inside
<1>9. d.in_loop = Waits(p)
  BY <1>4, <1>8 DEF Waits
<1>10. LastJump(d, p, P)
  BY <1>4, <1>8 DEF LastJump
<1>11. QED
  BY <1>2, <1>3, <1>5, <1>6, <1>7, <1>9, <1>10 DEF Homeward

\* The innermost statement ends.
Outside(o, p) ==
  /\ Len(o) >= 2 /\ Len(p) = Len(o) - 1 /\ SameItems(o, p, Len(p))
  /\ \A i \in 1 .. Len(p) - 1 : p[i] = o[i]
  /\ p[Len(p)].done \in BOOLEAN /\ (p[Len(p)].k \in Loops => p[Len(p)].done)
\* The goals that are behind the compiler when it ends: its own end, or its
\* being the body of a loop.
Passed(o, E, F) ==
  \A g \in Goals :
    \/ F[g] = E[g]
    \/ g = <<"end", o[Len(o)].id>> /\ o[Len(o)].k # "handlers"
    \/ g = <<"body", o[Len(o) - 1].id>> /\ o[Len(o) - 1].k \in Loops

\* A statement that closes leaves the stacks as they were below it.
LEMMA LeavesHome ==
  ASSUME NEW c, CodeOK(c, {}), NEW o, OpenOK(o), NEW m, NEW P, NEW E, Order(o, m, E),
         P \in [Nat -> Purposes], NEW x, Base(c, o, P, x), NEW p, Outside(o, p),
         NEW F, Passed(o, E, F), NEW d, Homing(d, P, F), Nowhere(d, P), Tied(d, F),
         Alike(c, d, x), Highs(d) = x, d.in_loop = FALSE, LastJump(d, p, P)
  PROVE  Homeward(d, p, m, P, F)
<1>1. Stacked(c) /\ IsSeq(o) /\ Len(o) >= 1 /\ Len(o) \in Nat
  BY StackedOK, SeqShape DEF OpenOK
<1>2. Len(o) >= 2 /\ Len(p) = Len(o) - 1 /\ SameItems(o, p, Len(o) - 1)
  BY DEF Outside
<1>3. AtHome(d, p, P)
  BY <1>1, <1>2, HomeClose
<1>4. PICK t : t = o[Len(o)]
  OBVIOUS
<1>5. PICK u : u = o[Len(o) - 1]
  OBVIOUS
<1>6. p[Len(p)].k = u.k
  <2>1. Len(o) - 1 \in 1 .. Len(o) - 1
    BY <1>1, <1>2
  <2>2. QED
    BY <1>2, <1>5, <2>1 DEF SameItems
<1>7. /\ SameItems(o, p, Len(p)) /\ (\A i \in 1 .. Len(p) - 1 : p[i] = o[i])
      /\ p[Len(p)].done \in BOOLEAN /\ (u.k \in Loops => p[Len(p)].done)
  BY <1>6 DEF Outside
<1>8. \A g \in Goals :
        \/ F[g] = E[g]
        \/ g = <<"end", t.id>> /\ t.k # "handlers"
        \/ g = <<"body", u.id>> /\ u.k \in Loops
  BY <1>4, <1>5 DEF Passed
<1>9. Order(p, m, F)
  BY <1>1, <1>2, <1>4, <1>5, <1>7, <1>8, OrderDown
<1>10. d.in_loop = Waits(p)
  BY <1>6, <1>7 DEF Waits
<1>11. QED
  BY <1>3, <1>9, <1>10 DEF Homeward

\* Another statement, x, takes the place of the innermost one.
Instead(o, p, x, m, q) ==
  /\ Len(p) = Len(o) /\ (\A i \in 1 .. Len(o) - 1 : p[i] = o[i]) /\ p[Len(o)] = x
  /\ x.done = FALSE /\ x.k \notin Loops /\ o[Len(o)].k # "block"
  /\ (x.k = "handlers" /\ q = m) \/ (x.k # "handlers" /\ q = m + 1 /\ x.id = q)
\* The stacks are those of the other statement then.
LEMMA ReplacesHome ==
  ASSUME NEW c, CodeOK(c, {}), NEW o, OpenOK(o), NEW m, NEW P, NEW E,
         Homeward(c, o, m, P, E), NEW y, NEW p, NEW q, Instead(o, p, y, m, q),
         NEW x, Base(c, o, P, x),
         NEW d, Homing(d, P, E), d.body = c.body, d.end = c.end, Aimless(c, d, P),
         Alike(c, d, x), NEW i, i = Len(o), Highs(d) = Above(x, p, i), Spot(d, p, x, i, P),
         d.in_loop = FALSE, LastJump(d, p, P)
  PROVE  Homeward(d, p, q, P, E)
<1>1. Stacked(c) /\ IsSeq(o) /\ Len(o) >= 1 /\ Len(o) \in Nat
  BY StackedOK, SeqShape DEF OpenOK
<1>2. P \in [Nat -> Purposes] /\ Nowhere(c, P) /\ Order(o, m, E) /\ Tied(c, E)
  BY DEF Homeward
<1>3. Nowhere(d, P)
  BY <1>2 DEF Nowhere, Aimless
<1>4. Len(p) = i /\ SameItems(o, p, i - 1) /\ p[Len(p)] = y
  BY DEF Instead, SameItems
<1>5. AtHome(d, p, P)
  BY <1>1, <1>4, HomeReplace
<1>6. Order(p, q, E)
  BY <1>1, <1>2, OrderSwap DEF Instead
<1>7. Tied(d, E)
  BY <1>2 DEF Tied
<1>8. d.in_loop = Waits(p)
  BY <1>4 DEF Waits, Instead
<1>9. QED
  BY <1>2, <1>3, <1>5, <1>6, <1>7, <1>8 DEF Homeward

-----------------------------------------------------------------------------
(* The actions                                                             *)

\* Some purposes of the labels lead the jumps home.
Leading(c, o, m) == \E P, E : Homeward(c, o, m, P, E)

\* A statement that is no more than code leaves all in place.
LEMMA StaysHome ==
  ASSUME NEW c, CodeOK(c, {}), NEW o, OpenOK(o), NEW m, NEW P, NEW E,
         Homeward(c, o, m, P, E), o[Len(o)].k \notin Loops,
         NEW d, NEW p, Coded(c, d, o, p), Homing(d, P, E), d.body = c.body, d.end = c.end,
         NEW q \in {m, m + 1}
  PROVE  Homeward(d, p, q, P, E)
<1>1. Quiet(c, d) /\ p = Complete(o) /\ o[Len(o)].k # "handlers"
  BY DEF Coded
<1>2. SameStacks(c, d) /\ d.goto.label = c.goto.label
  BY <1>1 DEF Quiet, GotoSame
<1>3. PICK x : x = Highs(c)
  OBVIOUS
<1>4. Alike(c, d, x) /\ Highs(d) = x
  BY <1>2, <1>3, SameStacksHome
<1>5. d.mTryStack = c.mTryStack /\ d.in_loop = c.in_loop
  BY <1>2 DEF SameStacks
<1>6. Order(o, m, E) /\ Nowhere(c, P)
  BY DEF Homeward
<1>7. SameOpen(o, p)
  <2>1. CompletePost(o, p)
    BY <1>1, CompleteIs
  <2>2. o[Len(o)].done \in BOOLEAN
    <3>1. Len(o) \in 1 .. Len(o)
      BY SeqShape DEF OpenOK
    <3>2. QED
      BY <1>6, <3>1 DEF Order
  <2>3. QED
    BY <2>1, <2>2 DEF CompletePost, SameOpen
<1>8. d.goto.label # 0 => P[d.goto.label] = None
  BY <1>2, <1>6 DEF Nowhere
<1>9. QED
  BY <1>1, <1>3, <1>4, <1>5, <1>7, <1>8, StillHome

\* Only a block begins where a loop waits for its statement.
LEMMA NotWaiting ==
  ASSUME "bare" \notin Forms, OpenOK(open), NEW kind, CanStart(kind), kind # "block"
  PROVE  open[Len(open)].k \notin Loops
<1>1. Top = open[Len(open)]
  BY TopIs
<1>2. Top.k \in Blocks \/ Top.k \notin Loops
  BY DEF CanStart
<1>3. QED
  BY <1>1, <1>2 DEF Blocks, Loops

\* The history is all that changes where a statement begins.
BegunSame(c, d) ==
  /\ d.body = c.body /\ d.end = c.end /\ d.goto = c.goto
  /\ d.code = c.code /\ d.label = c.label /\ d.label_stack = c.label_stack
  /\ d.break_stack = c.break_stack /\ d.continue_stack = c.continue_stack
  /\ d.switch_stack = c.switch_stack /\ d.mTryStack = c.mTryStack
  /\ d.block_stack = c.block_stack /\ d.context_stack = c.context_stack
  /\ d.in_loop = c.in_loop /\ d.in_switch = c.in_switch
\* The fields are those of the compiler's state.
LEMMA BeginSame ==
  ASSUME NEW c, NEW d, NEW o, NEW stmt, BeginsAt(c, d, o, stmt)
  PROVE  BegunSame(c, d)
BY DEF BeginsAt, BegunSame, Fields

\* An expression statement.
LEMMA ExpressionLeads ==
  ASSUME "bare" \notin Forms, Compiling(cg, open), Leading(cg, open, n), Expression
  PROVE  Leading(cg', open', n')
<1>1. PICK P, E : Homeward(cg, open, n, P, E)
  BY DEF Leading
<1>2. CodeOK(cg, {}) /\ OpenOK(open) /\ Homing(cg, P, E)
  BY <1>1 DEF Compiling, Homeward
<1>3. PICK d : d = Begin(cg, open, "")
  OBVIOUS
<1>4. cg' = Emit(d, "CALL", 0) /\ n' = n + 1
  BY <1>3 DEF Expression, Compile
<1>5. Coded(cg, cg', open, open')
  BY ExpressionCoded
<1>6. open[Len(open)].k \notin Loops
  BY <1>2, NotWaiting DEF Expression
<1>7. Homing(d, P, E) /\ BegunSame(cg, d)
  <2>1. Homing(d, P, E) /\ BeginsAt(cg, d, open, "")
    BY <1>2, <1>3, BeginGoes
  <2>2. QED
    BY <2>1, BeginSame
<1>8. Goes(d, cg', P, E)
  BY <1>4, <1>7, EmitGoes
<1>9. Homing(cg', P, E) /\ cg'.body = cg.body /\ cg'.end = cg.end
  BY <1>7, <1>8 DEF Goes, SamePlace, BegunSame
<1>10. Homeward(cg', open', n', P, E)
  BY <1>1, <1>2, <1>4, <1>5, <1>6, <1>9, StaysHome
<1>11. QED
  BY <1>10 DEF Leading

\* A return.
LEMMA ReturnLeads ==
  ASSUME "bare" \notin Forms, Compiling(cg, open), Leading(cg, open, n), Return
  PROVE  Leading(cg', open', n')
<1>1. PICK P, E : Homeward(cg, open, n, P, E)
  BY DEF Leading
<1>2. CodeOK(cg, {}) /\ OpenOK(open) /\ Homing(cg, P, E)
  BY <1>1 DEF Compiling, Homeward
<1>3. PICK d : d = Begin(cg, open, "return")
  OBVIOUS
<1>4. PICK e : e = CheckEnclosingScopes(d)
  OBVIOUS
<1>5. cg' = Jump(e, "JMP", RetLabel) /\ n' = n + 1
  BY <1>3, <1>4 DEF Return, Compile
<1>6. Coded(cg, cg', open, open')
  BY ReturnCoded
<1>7. open[Len(open)].k \notin Loops
  BY <1>2, NotWaiting DEF Return
<1>8. Homing(d, P, E) /\ BeginsAt(cg, d, open, "return") /\ BegunSame(cg, d)
  <2>1. Homing(d, P, E) /\ BeginsAt(cg, d, open, "return")
    BY <1>2, <1>3, BeginGoes
  <2>2. QED
    BY <2>1, BeginSame
<1>9. Goes(d, e, P, E)
  BY <1>4, <1>8, EnclosingGoes
<1>10. Homing(e, P, E) /\ Plain(e)
  BY <1>8, <1>9 DEF Goes, SamePlace, BeginsAt, Plain
<1>11. Goes(e, cg', P, E)
  BY <1>5, <1>10, JumpGoes
<1>12. Homing(cg', P, E) /\ cg'.body = cg.body /\ cg'.end = cg.end
  BY <1>8, <1>9, <1>11 DEF Goes, SamePlace, BegunSame
<1>13. Homeward(cg', open', n', P, E)
  BY <1>1, <1>2, <1>5, <1>6, <1>7, <1>12, StaysHome
<1>14. QED
  BY <1>13 DEF Leading

\* A case or the default of a switch.
LEMMA CaseLeads ==
  ASSUME "bare" \notin Forms, Compiling(cg, open), Leading(cg, open, n), Case
  PROVE  Leading(cg', open', n')
<1>1. PICK P, E : Homeward(cg, open, n, P, E)
  BY DEF Leading
<1>2. CodeOK(cg, {}) /\ OpenOK(open) /\ Homing(cg, P, E)
  BY <1>1 DEF Compiling, Homeward
<1>3. PICK x : SetTo(cg, cg', "switch_stack", x)
  <2>1. PICK i : i = Len(cg.switch_stack)
    OBVIOUS
  <2>2. \/ cg' = [cg EXCEPT !.switch_stack[i].cases = @ \union {IpOffset(cg)}]
        \/ cg' = [cg EXCEPT !.switch_stack[i].default = IpOffset(cg)]
    BY <2>1 DEF Case, Compile
  <2>3. QED
    BY <2>2 DEF SetTo
<1>4. n' = n + 1
  BY DEF Case, Compile
<1>5. Coded(cg, cg', open, open')
  BY CaseCoded
<1>6. open[Len(open)].k \notin Loops
  BY <1>2, NotWaiting DEF Case
<1>7. Goes(cg, cg', P, E)
  BY <1>2, <1>3, StackGoes DEF Stacks
<1>8. Homing(cg', P, E) /\ cg'.body = cg.body /\ cg'.end = cg.end
  BY <1>7 DEF Goes, SamePlace
<1>9. Homeward(cg', open', n', P, E)
  BY <1>1, <1>2, <1>4, <1>5, <1>6, <1>8, StaysHome
<1>10. QED
  BY <1>9 DEF Leading

\* Of the open statements of some kinds the innermost one is the latest.
LEMMA LatestIs ==
  ASSUME NEW o, IsSeq(o), NEW m, NEW E, Order(o, m, E), NEW K, "handlers" \notin K,
         NEW j, IsLast(o, K, j),
         NEW S, S = {o[i].id : i \in {x \in 1 .. Len(o) : o[x].k \in K}}
  PROVE  Max(S) = o[j].id /\ o[j].id \in Nat
<1> USE DEF IsLast
<1>1. Len(o) \in Nat
  BY SeqShape
<1>2. \A i \in 1 .. Len(o) : o[i].k \in K => o[i].id \in Nat
  <2>1. ASSUME NEW i \in 1 .. Len(o), o[i].k \in K
        PROVE  o[i].id \in Nat
    <3>1. o[i].k # "handlers"
      BY <2>1
    <3>2. m \in Nat /\ o[i].id \in 0 .. m
      BY <3>1 DEF Order
    <3>3. QED
      BY <3>2
  <2>2. QED
    BY <2>1
<1>3. S \in SUBSET Nat /\ o[j].id \in S
  BY <1>2
<1>4. ASSUME NEW i \in 1 .. Len(o), o[i].k \in K
      PROVE  o[j].id >= o[i].id
  <2>1. CASE i = j
    BY <1>2, <2>1
  <2>2. CASE i > j
    <3>1. i \in j + 1 .. Len(o)
      BY <1>1, <2>2
    <3>2. QED
      BY <1>4, <3>1
  <2>3. CASE i < j
    <3>1. o[i].k # "handlers" /\ o[j].k # "handlers"
      BY <1>4
    <3>2. o[i].id < o[j].id
      BY <2>3, <3>1 DEF Order
    <3>3. QED
      BY <1>2, <1>4, <3>2
  <2>4. QED
    BY <1>1, <2>1, <2>2, <2>3
<1>5. \A y \in S : o[j].id >= y
  BY <1>4
<1>6. Max(S) = o[j].id
  BY <1>3, <1>5, MaxIs
<1>7. QED
  BY <1>2, <1>6

\* The innermost loop or switch, as the history has it.
LEMMA NestIs ==
  ASSUME NEW o, IsSeq(o)
  PROVE  /\ {b.id : b \in Nest(o)} =
              {o[i].id : i \in {x \in 1 .. Len(o) : o[x].k \in Breakable}}
         /\ {b.id : b \in {b \in Nest(o) : b.loop}} =
              {o[i].id : i \in {x \in 1 .. Len(o) : o[x].k \in Loops}}
<1>1. DOMAIN o = 1 .. Len(o)
  BY SeqShape
<1>2. Loops \subseteq Breakable
  BY DEF Breakable
<1>3. PICK N : N = Nest(o)
  OBVIOUS
<1>4. N = {[id |-> o[i].id, loop |-> o[i].k \in Loops] : i \in {x \in 1 .. Len(o) : o[x].k \in Breakable}}
  BY <1>1, <1>3 DEF Nest
<1>5. PICK T : T = {x \in 1 .. Len(o) : o[x].k \in Breakable}
  OBVIOUS
<1>6. /\ \A i \in T : \E b \in N : b.id = o[i].id /\ (b.loop <=> o[i].k \in Loops)
      /\ \A b \in N : \E i \in T : b.id = o[i].id /\ (b.loop <=> o[i].k \in Loops)
  <2>1. ASSUME NEW i \in T
        PROVE  \E b \in N : b.id = o[i].id /\ (b.loop <=> o[i].k \in Loops)
    <3>1. PICK b : b = [id |-> o[i].id, loop |-> o[i].k \in Loops]
      OBVIOUS
    <3>2. b \in N
      BY <1>4, <1>5, <3>1, Zenon
    <3>3. QED
      BY <3>1, <3>2
  <2>2. ASSUME NEW b \in N
        PROVE  \E i \in T : b.id = o[i].id /\ (b.loop <=> o[i].k \in Loops)
    <3>1. PICK i \in T : b = [id |-> o[i].id, loop |-> o[i].k \in Loops]
      BY <1>4, <1>5, Zenon
    <3>2. QED
      BY <3>1
  <2>3. QED
    BY <2>1, <2>2
<1>7. {b.id : b \in N} = {o[i].id : i \in T}
  BY <1>6
<1>8. {b.id : b \in {b \in N : b.loop}} = {o[i].id : i \in {x \in 1 .. Len(o) : o[x].k \in Loops}}
  <2>1. PICK U : U = {x \in 1 .. Len(o) : o[x].k \in Loops}
    OBVIOUS
  <2>2. PICK M : M = {b \in N : b.loop}
    OBVIOUS
  <2>3. \A x : x \in U <=> x \in T /\ o[x].k \in Loops
    BY <1>2, <1>5, <2>1
  <2>4. \A b : b \in M <=> b \in N /\ b.loop
    BY <2>2
  <2>5. /\ \A i \in U : \E b \in M : b.id = o[i].id
        /\ \A b \in M : \E i \in U : b.id = o[i].id
    BY <1>6, <2>3, <2>4
  <2>6. {b.id : b \in M} = {o[i].id : i \in U}
    BY <2>5
  <2>7. QED
    BY <2>1, <2>2, <2>6
<1>9. QED
  BY <1>3, <1>5, <1>7, <1>8

\* There is an innermost one when there is one at all.
LEMMA InnermostExists ==
  ASSUME NEW o, IsSeq(o), NEW K, NEW i \in 1 .. Len(o), o[i].k \in K
  PROVE  \E j : IsLast(o, K, j)
<1> USE DEF IsLast
<1>1. PICK w \in Nat : w = Len(o)
  BY SeqShape
<1>2. PICK S : S = {x \in 1 .. w : o[x].k \in K}
  OBVIOUS
<1>3. S \in SUBSET (0 .. w) /\ S # {}
  BY <1>1, <1>2
<1>4. PICK j \in S : \A x \in S : j >= x
  BY <1>3, GreatestExists
<1>5. ASSUME NEW x \in j + 1 .. w
      PROVE  o[x].k \notin K
  BY <1>1, <1>2, <1>4
<1>6. QED
  BY <1>1, <1>2, <1>4, <1>5

\* A break that is no error.
LEMMA BreakLeads ==
  ASSUME "bare" \notin Forms, Compiling(cg, open), Leading(cg, open, n), Break,
         status' = "compiling"
  PROVE  Leading(cg', open', n')
<1>1. PICK P, E : Homeward(cg, open, n, P, E)
  BY DEF Leading
<1>2. CodeOK(cg, {}) /\ OpenOK(open) /\ Homing(cg, P, E) /\ Order(open, n, E)
      /\ AtHome(cg, open, P) /\ IsSeq(open) /\ Stacked(cg)
  BY <1>1, StackedOK DEF Compiling, Homeward, OpenOK
<1>3. PICK d : d = Begin(cg, open, "break")
  OBVIOUS
<1>4. PICK e : e = CheckLocalUnwind(d)
  OBVIOUS
<1>5. PICK l : l = TOS(cg, "break_stack")
  OBVIOUS
<1>6. cg' = Jump(e, "JMP", l) /\ n' = n + 1 /\ cg.break_stack # <<>> /\ Nest(open) # {}
  BY <1>3, <1>4, <1>5 DEF Break, Compile, Reject
<1>7. Coded(cg, cg', open, open')
  BY BreakCoded
<1>8. open[Len(open)].k \notin Loops
  BY <1>2, NotWaiting DEF Break
<1>9. Homing(d, P, E) /\ BeginsAt(cg, d, open, "break")
  BY <1>2, <1>3, BeginGoes
<1>10. BegunSame(cg, d)
  BY <1>9, BeginSame
<1>11. Goes(d, e, P, E)
  BY <1>4, <1>9, LocalGoes
<1>12. PICK j : IsLast(open, Breakable, j)
  <2>1. \E i \in 1 .. Len(open) : open[i].k \in Breakable
    BY <1>2, <1>6, SeqShape DEF Nest
  <2>2. QED
    BY <1>2, <2>1, InnermostExists
<1>13. Innermost(e.here.nest) = open[j].id /\ open[j].id \in Nat
  <2>1. e.here.nest = Nest(open)
    BY <1>9, <1>11 DEF Goes, SamePlace, BeginsAt
  <2>2. "handlers" \notin Breakable
    BY DEF Breakable, Loops
  <2>3. PICK S : S = {open[i].id : i \in {x \in 1 .. Len(open) : open[x].k \in Breakable}}
    OBVIOUS
  <2>4. Max(S) = open[j].id /\ open[j].id \in Nat
    BY <1>2, <1>12, <2>2, <2>3, LatestIs
  <2>5. QED
    BY <1>2, <2>1, <2>3, <2>4, NestIs DEF Innermost
<1>14. l \in 1 .. Len(cg.label) /\ P[l] = <<"end", open[j].id>>
  <2>1. l = TOS(cg, "break_stack")
    BY <1>5
  <2>2. HasBody(open, j)
    <3>1. SUFFICES ASSUME open[j].k \in Loops
                   PROVE  HasBody(open, j)
      BY DEF HasBody
    <3>2. Len(open) \in Nat /\ j \in 1 .. Len(open) /\ j # Len(open)
      BY <1>2, <1>8, <1>12, <3>1, SeqShape DEF IsLast
    <3>3. j \in 1 .. Len(open) - 1
      BY <3>2
    <3>4. QED
      BY <1>2, <3>1, <3>2, <3>3 DEF Order, HasBody
  <2>3. QED
    <3>1. Stacked(cg) /\ IsSeq(open) /\ AtHome(cg, open, P)
      BY <1>2
    <3>2. IsLast(open, Breakable, j)
      BY <1>12
    <3>3. QED
      BY <2>1, <2>2, <3>1, <3>2, BreakHome
<1>15. l \in 1 .. Len(e.label)
  BY <1>10, <1>11, <1>14 DEF Goes, BegunSame
<1>16. P[l] = Goal(e.here) /\ P[l] \in Goals
  <2>1. e.here.stmt = "break"
    BY <1>9, <1>11 DEF Goes, SamePlace, BeginsAt
  <2>2. QED
    BY <1>13, <1>14, <2>1 DEF Goal, Goals
<1>17. Homing(e, P, E)
  BY <1>11 DEF Goes
<1>18. Goes(e, cg', P, E)
  BY <1>6, <1>15, <1>16, <1>17, BoundGoes
<1>19. Homing(cg', P, E) /\ cg'.body = cg.body /\ cg'.end = cg.end
  BY <1>10, <1>11, <1>18 DEF Goes, SamePlace, BegunSame
<1>20. Homeward(cg', open', n', P, E)
  BY <1>1, <1>2, <1>6, <1>7, <1>8, <1>19, StaysHome
<1>21. QED
  BY <1>20 DEF Leading

\* A continue that is no error.
LEMMA ContinueLeads ==
  ASSUME "bare" \notin Forms, Compiling(cg, open), Leading(cg, open, n), Continue,
         status' = "compiling"
  PROVE  Leading(cg', open', n')
<1>1. PICK P, E : Homeward(cg, open, n, P, E)
  BY DEF Leading
<1>2. CodeOK(cg, {}) /\ OpenOK(open) /\ Homing(cg, P, E) /\ Order(open, n, E)
      /\ AtHome(cg, open, P) /\ IsSeq(open) /\ Stacked(cg)
  BY <1>1, StackedOK DEF Compiling, Homeward, OpenOK
<1>3. PICK d : d = Begin(cg, open, "continue")
  OBVIOUS
<1>4. PICK l : l = TOS(cg, "continue_stack")
  OBVIOUS
<1>5. /\ cg' = Jump(d, "JMP", l) /\ n' = n + 1
      /\ \E i \in DOMAIN open : open[i].k \in Loops
  BY <1>3, <1>4 DEF Continue, Compile, Reject
<1>6. Coded(cg, cg', open, open')
  BY ContinueCoded
<1>7. open[Len(open)].k \notin Loops
  BY <1>2, NotWaiting DEF Continue
<1>8. Homing(d, P, E) /\ BeginsAt(cg, d, open, "continue")
  BY <1>2, <1>3, BeginGoes
<1>9. BegunSame(cg, d)
  BY <1>8, BeginSame
<1>10. PICK j : IsLast(open, Loops, j)
  <2>1. \E i \in 1 .. Len(open) : open[i].k \in Loops
    BY <1>2, <1>5, SeqShape
  <2>2. QED
    BY <1>2, <2>1, InnermostExists
<1>11. Innermost({b \in d.here.nest : b.loop}) = open[j].id /\ open[j].id \in Nat
  <2>1. d.here.nest = Nest(open)
    BY <1>8 DEF BeginsAt
  <2>2. "handlers" \notin Loops
    BY DEF Loops
  <2>3. PICK S : S = {open[i].id : i \in {x \in 1 .. Len(open) : open[x].k \in Loops}}
    OBVIOUS
  <2>4. Max(S) = open[j].id /\ open[j].id \in Nat
    BY <1>2, <1>10, <2>2, <2>3, LatestIs
  <2>5. QED
    BY <1>2, <2>1, <2>3, <2>4, NestIs DEF Innermost
<1>12. l \in 1 .. Len(cg.label) /\ P[l] = <<"body", open[j].id>>
  <2>1. l = TOS(cg, "continue_stack")
    BY <1>4
  <2>2. HasBody(open, j)
    <3>1. Len(open) \in Nat /\ j \in 1 .. Len(open) /\ j # Len(open) /\ open[j].k \in Loops
      BY <1>2, <1>7, <1>10, SeqShape DEF IsLast
    <3>2. j \in 1 .. Len(open) - 1
      BY <3>1
    <3>3. QED
      BY <1>2, <3>1, <3>2 DEF Order, HasBody
  <2>3. QED
    <3>1. Stacked(cg) /\ IsSeq(open) /\ AtHome(cg, open, P)
      BY <1>2
    <3>2. IsLast(open, Loops, j)
      BY <1>10
    <3>3. QED
      BY <2>1, <2>2, <3>1, <3>2, ContinueHome
<1>13. l \in 1 .. Len(d.label)
  BY <1>9, <1>12 DEF BegunSame
<1>14. P[l] = Goal(d.here) /\ P[l] \in Goals
  <2>1. d.here.stmt = "continue"
    BY <1>8 DEF BeginsAt
  <2>2. QED
    BY <1>11, <1>12, <2>1 DEF Goal, Goals
<1>15. Goes(d, cg', P, E)
  BY <1>5, <1>8, <1>13, <1>14, BoundGoes
<1>16. Homing(cg', P, E) /\ cg'.body = cg.body /\ cg'.end = cg.end
  BY <1>9, <1>15 DEF Goes, SamePlace, BegunSame
<1>17. Homeward(cg', open', n', P, E)
  BY <1>1, <1>2, <1>5, <1>6, <1>7, <1>16, StaysHome
<1>18. QED
  BY <1>17 DEF Leading

\* The next two labels may be given any purpose.
LEMMA NewPurposes ==
  ASSUME NEW c, CodeOK(c, {}), NEW o, OpenOK(o), NEW m, NEW P, NEW E,
         Homeward(c, o, m, P, E), NEW f \in Purposes, NEW g \in Purposes,
         NEW w, w = Len(c.label)
  PROVE  \E Q : Homeward(c, o, m, Q, E) /\ Q[w + 1] = f /\ Q[w + 2] = g
<1>1. w \in Nat
  BY ShapeFacts DEF CodeOK
<1>2. P \in [Nat -> Purposes]
  BY DEF Homeward
<1>3. PICK Q : Q = [k \in Nat |-> IF k = w + 1 THEN f ELSE IF k = w + 2 THEN g ELSE P[k]]
  OBVIOUS
<1>4. Q \in [Nat -> Purposes]
  BY <1>2, <1>3
<1>5. \A k \in 1 .. Len(c.label) : Q[k] = P[k]
  BY <1>1, <1>3
<1>6. Q[w + 1] = f /\ Q[w + 2] = g
  BY <1>1, <1>3
<1>7. QED
  BY <1>4, <1>5, <1>6, Repurposed

\* The label of the gotos, which may be new, stands for nothing.
LEMMA GotoPurpose ==
  ASSUME NEW c, CodeOK(c, {}), NEW o, OpenOK(o), NEW m, NEW P, NEW E,
         Homeward(c, o, m, P, E),
         NEW l, l = (IF c.goto.label = 0 THEN Len(c.label) + 1 ELSE c.goto.label)
  PROVE  \E Q : Homeward(c, o, m, Q, E) /\ Q[l] = None
<1>1. CASE c.goto.label = 0
  <2>1. None \in Purposes
    BY DEF Purposes
  <2>2. PICK w : w = Len(c.label)
    OBVIOUS
  <2>3. PICK Q : Homeward(c, o, m, Q, E) /\ Q[w + 1] = None
    BY <2>1, <2>2, NewPurposes
  <2>4. QED
    BY <1>1, <2>2, <2>3
<1>2. CASE c.goto.label # 0
  <2>1. P[l] = None
    BY <1>2 DEF Homeward, Nowhere
  <2>2. QED
    BY <2>1
<1>3. QED
  BY <1>1, <1>2

\* A goto or its label leaves all in place.
LEMMA AimedHome ==
  ASSUME NEW c, CodeOK(c, {}), NEW o, OpenOK(o), NEW m, NEW P, NEW E,
         Homeward(c, o, m, P, E), o[Len(o)].k \notin Loops,
         NEW d, NEW p, Aimed(c, d, o, p), SameOpen(o, p),
         Homing(d, P, E), d.body = c.body, d.end = c.end,
         NEW l, l = (IF c.goto.label = 0 THEN Len(c.label) + 1 ELSE c.goto.label), P[l] = None,
         NEW q \in {m, m + 1}
  PROVE  Homeward(d, p, q, P, E)
<1>1. SameStacks(c, d) /\ o[Len(o)].k # "handlers" /\ d.goto.label = l
  BY DEF Aimed
<1>2. PICK x : x = Highs(c)
  OBVIOUS
<1>3. Alike(c, d, x) /\ Highs(d) = x
  BY <1>1, <1>2, SameStacksHome
<1>4. d.mTryStack = c.mTryStack /\ d.in_loop = c.in_loop
  BY <1>1 DEF SameStacks
<1>5. d.goto.label # 0 => P[d.goto.label] = None
  BY <1>1
<1>6. QED
  BY <1>1, <1>2, <1>3, <1>4, <1>5, StillHome

\* What may complete a controlled statement leaves the others.
LEMMA CompleteSame ==
  ASSUME NEW o, OpenOK(o), NEW m, NEW E, Order(o, m, E), NEW p, p = Complete(o)
  PROVE  SameOpen(o, p)
<1>1. CompletePost(o, p)
  BY CompleteIs
<1>2. Len(o) \in 1 .. Len(o)
  BY SeqShape DEF OpenOK
<1>3. o[Len(o)].done \in BOOLEAN
  BY <1>2 DEF Order
<1>4. QED
  BY <1>1, <1>3 DEF CompletePost, SameOpen

SetGoto(c, d, f, x) == d = [c EXCEPT !.goto = [@ EXCEPT ![f] = x]]
\* The history of the gotos leads nowhere.
LEMMA SetGotoGoes ==
  ASSUME NEW c, NEW P, NEW E, Homing(c, P, E), NEW f \in {"from", "to"}, NEW x,
         NEW d, SetGoto(c, d, f, x), DOMAIN c.goto = {"label", "context", "from", "to"}
  PROVE  Goes(c, d, P, E)
<1>1. DOMAIN c = Fields
  BY DEF Homing, Shaped
<1>2. PICK y : y = [c.goto EXCEPT ![f] = x]
  OBVIOUS
<1>3. d = [c EXCEPT !.goto = y]
  BY <1>2 DEF SetGoto
<1>4. DOMAIN d = Fields /\ d.goto = y /\ \A q \in Fields : q # "goto" => d[q] = c[q]
  BY <1>1, <1>3 DEF Fields
<1>5. /\ d.code = c.code /\ d.label = c.label /\ d.here = c.here
      /\ d.body = c.body /\ d.end = c.end
  BY <1>4 DEF Fields
<1>6. d.goto.label = c.goto.label
  BY <1>2, <1>4
<1>7. QED
  BY <1>4, <1>5, <1>6, AsideGoes

\* A goto.
LEMMA GotoLeads ==
  ASSUME "bare" \notin Forms, Compiling(cg, open), Leading(cg, open, n), Goto
  PROVE  Leading(cg', open', n')
<1>1. CodeOK(cg, {}) /\ OpenOK(open)
  BY DEF Compiling
<1>2. PICK l : l = IF cg.goto.label = 0 THEN Len(cg.label) + 1 ELSE cg.goto.label
  OBVIOUS
<1>3. PICK P, E : Homeward(cg, open, n, P, E) /\ P[l] = None
  BY <1>1, <1>2, GotoPurpose DEF Leading
<1>4. Homing(cg, P, E) /\ Order(open, n, E)
  BY <1>3 DEF Homeward
<1>5. PICK d : d = Begin(cg, open, "goto")
  OBVIOUS
<1>6. PICK e : e = DoGoto(d)
  OBVIOUS
<1>7. PICK from : /\ cg' = [e EXCEPT !.goto.from = @ \union {from}]
                  /\ open' = Complete(open) /\ n' = n + 1
  BY <1>5, <1>6 DEF Goto, Compile
<1>8. PICK x : x = e.goto.from \union {from}
  OBVIOUS
<1>9. PICK f \in {"from", "to"} : f = "from"
  OBVIOUS
<1>10. SetGoto(e, cg', f, x)
  BY <1>7, <1>8, <1>9 DEF SetGoto
<1>11. Aimed(cg, cg', open, open')
  BY GotoAimed
<1>12. open[Len(open)].k \notin Loops
  BY <1>1, NotWaiting DEF Goto
<1>13. Homing(d, P, E) /\ BeginsAt(cg, d, open, "goto")
  BY <1>4, <1>5, BeginGoes
<1>14. BegunSame(cg, d)
  BY <1>13, BeginSame
<1>15. Plain(d)
  BY <1>13 DEF BeginsAt, Plain
<1>16. Follows(d, e, P, E)
  BY <1>6, <1>13, <1>15, DoGotoGoes
<1>17. Homing(e, P, E)
  BY <1>16 DEF Follows
<1>18. DOMAIN e.goto = {"label", "context", "from", "to"}
  <2>1. CodeOK(d, {}) /\ Len(d.context_stack) >= 1
    <3>1. CodeOK(d, {})
      BY <1>1, <1>5, HistoryOK
    <3>2. Len(cg.context_stack) >= 1
      BY TopFacts DEF TopPost, Compiling
    <3>3. QED
      BY <1>14, <3>1, <3>2 DEF BegunSame
  <2>2. CodeOK(e, {})
    BY <1>6, <2>1, DoGotoOK DEF GotoPost
  <2>3. QED
    BY <2>2 DEF CodeOK, StackShape
<1>19. Goes(e, cg', P, E)
  BY <1>10, <1>17, <1>18, SetGotoGoes
<1>20. Homing(cg', P, E) /\ cg'.body = cg.body /\ cg'.end = cg.end
  BY <1>14, <1>16, <1>19 DEF Goes, Follows, SamePlace, BegunSame
<1>21. SameOpen(open, open')
  BY <1>1, <1>4, <1>7, CompleteSame
<1>22. Homeward(cg', open', n', P, E)
  BY <1>1, <1>2, <1>3, <1>7, <1>11, <1>12, <1>20, <1>21, AimedHome
<1>23. QED
  BY <1>22 DEF Leading

\* The label of the gotos.
LEMMA LabelLeads ==
  ASSUME "bare" \notin Forms, Compiling(cg, open), Leading(cg, open, n), Label
  PROVE  Leading(cg', open', n')
<1>1. CodeOK(cg, {}) /\ OpenOK(open)
  BY DEF Compiling
<1>2. PICK l : l = IF cg.goto.label = 0 THEN Len(cg.label) + 1 ELSE cg.goto.label
  OBVIOUS
<1>3. PICK P, E : Homeward(cg, open, n, P, E) /\ P[l] = None
  BY <1>1, <1>2, GotoPurpose DEF Leading
<1>4. Homing(cg, P, E) /\ Order(open, n, E)
  BY <1>3 DEF Homeward
<1>5. PICK e : e = GotoLabel(cg)
  OBVIOUS
<1>6. PICK x : x = {Place(open)}
  OBVIOUS
<1>7. PICK f \in {"from", "to"} : f = "to"
  OBVIOUS
<1>8. SetGoto(e, cg', f, x) /\ open' = open /\ n' = n + 1
  BY <1>5, <1>6, <1>7 DEF Label, Compile, SetGoto
<1>9. Aimed(cg, cg', open, open')
  BY LabelAimed
<1>10. open[Len(open)].k \notin Loops
  BY <1>1, NotWaiting DEF Label
<1>11. Follows(cg, e, P, E)
  BY <1>1, <1>2, <1>3, <1>4, <1>5, GotoLabelGoes
<1>12. Homing(e, P, E)
  BY <1>11 DEF Follows
<1>13. DOMAIN e.goto = {"label", "context", "from", "to"}
  <2>1. CodeOK(e, {})
    BY <1>1, <1>5, GotoLabelOK DEF GotoPost
  <2>2. QED
    BY <2>1 DEF CodeOK, StackShape
<1>14. Goes(e, cg', P, E)
  BY <1>8, <1>12, <1>13, SetGotoGoes
<1>15. Homing(cg', P, E) /\ cg'.body = cg.body /\ cg'.end = cg.end
  BY <1>11, <1>14 DEF Goes, Follows, SamePlace
<1>16. SameOpen(open, open')
  <2>1. Len(open) \in 1 .. Len(open)
    BY <1>1, SeqShape DEF OpenOK
  <2>2. open[Len(open)].done \in BOOLEAN
    BY <1>4, <2>1 DEF Order
  <2>3. QED
    BY <1>8, <2>2 DEF SameOpen, SameItems
<1>17. Homeward(cg', open', n', P, E)
  BY <1>1, <1>2, <1>3, <1>8, <1>9, <1>10, <1>15, <1>16, AimedHome
<1>18. QED
  BY <1>17 DEF Leading

-----------------------------------------------------------------------------
(* The statements that open                                                *)

\* A statement is begun: it is put above the others.
LEMMA BegunInside ==
  ASSUME NEW o, OpenOK(o), NEW y, NEW p, p = Append(o, y), NEW m, y.id = m + 1,
         y.k # "handlers", y.done = FALSE, o[Len(o)].k \in Loops => y.k = "block" /\ ~o[Len(o)].done
  PROVE  Inside(o, p, y, m)
<1>1. IsSeq(o)
  BY DEF OpenOK
<1>2. Len(p) = Len(o) + 1 /\ (\A i \in 1 .. Len(o) : p[i] = o[i]) /\ p[Len(o) + 1] = y
  BY <1>1, AppendShape
<1>3. QED
  BY <1>2 DEF Inside

\* An if or a loop without a scope of its own.
LEMMA PlainOpensHome ==
  ASSUME NEW c, CodeOK(c, {}), NEW o, OpenOK(o), NEW m, NEW P, NEW E,
         Homeward(c, o, m, P, E), NEW y, NEW p, Inside(o, p, y, m),
         NEW k, k = y.k, k \in {"if", "while", "do"}, NEW d, LabelOpens(c, d, k),
         Homing(d, P, E), d.body = c.body, d.end = c.end, NEW w, w = Len(c.label),
         P[w + 1] = None, k \in Loops => P[w + 2] = <<"end", y.id>>, d.in_loop = (k \in Loops)
  PROVE  Homeward(d, p, m + 1, P, E)
<1>1. Stacked(c) /\ Len(o) >= 1 /\ Len(o) \in Nat
  BY StackedOK, SeqShape DEF OpenOK
<1>2. PICK x : x = Highs(c)
  OBVIOUS
<1>3. PICK i : i = Len(o) + 1
  OBVIOUS
<1>4. /\ x.label = Len(c.label_stack) /\ x.brk = Len(c.break_stack)
      /\ x.cont = Len(c.continue_stack) /\ x.blk = Len(c.block_stack)
      /\ x.label \in Nat /\ x.brk \in Nat /\ x.cont \in Nat /\ x.blk \in Nat
  <2>1. x \in Marks
    BY <1>1, <1>2 DEF Stacked
  <2>2. QED
    BY <1>2, <2>1 DEF Highs, Marks
<1>5. /\ d.break_stack = c.break_stack /\ d.continue_stack = c.continue_stack
      /\ d.block_stack = c.block_stack /\ d.mTryStack = c.mTryStack /\ d.goto = c.goto
      /\ Len(d.label_stack) = Len(c.label_stack) + LabelsOf(k)
      /\ Kept(c.label_stack, d.label_stack, Len(c.label_stack))
      /\ d.label_stack[Len(c.label_stack) + 1] = w + 1
      /\ k \in Loops => d.label_stack[Len(c.label_stack) + 2] = w + 2
  BY DEF LabelOpens
<1>6. Alike(c, d, x)
  BY <1>4, <1>5 DEF Alike, Kept
<1>7. Aimless(c, d, P)
  BY <1>5, AimlessSame DEF Homeward
<1>8. p[i] = y
  BY <1>3 DEF Inside
<1>9. /\ ~Owns(k) /\ k # "switch" /\ k # "block" /\ ~IsBody(p, i)
  BY <1>8 DEF Owns, Blocks, IsBody
<1>10. Highs(d) = Above(x, p, i)
  <2>1. BreaksOf(p, i) = 0 /\ ContinuesOf(p, i) = 0 /\ BlocksOf(p, i) = 0
    BY <1>8, <1>9 DEF BreaksOf, ContinuesOf, BlocksOf
  <2>2. Above(x, p, i) = [label |-> x.label + LabelsOf(k), brk |-> x.brk + 0,
                          cont |-> x.cont + 0, blk |-> x.blk + 0]
    BY <1>8, <2>1 DEF Above
  <2>3. x.brk + 0 = x.brk /\ x.cont + 0 = x.cont /\ x.blk + 0 = x.blk
    BY <1>4
  <2>4. QED
    BY <1>4, <1>5, <2>2, <2>3 DEF Highs
<1>11. Spot(d, p, x, i, P)
  <2>1. P[d.label_stack[x.label + 1]] = None
    BY <1>4, <1>5
  <2>2. k \in Loops => P[d.label_stack[x.label + 2]] = <<"end", y.id>>
    BY <1>4, <1>5
  <2>3. QED
    BY <1>8, <1>9, <2>1, <2>2 DEF Spot
<1>12. d.in_loop = (y.k \in Loops)
  OBVIOUS
<1>13. QED
  BY <1>2, <1>3, <1>6, <1>7, <1>10, <1>11, <1>12, OpensHome

\* An if.
LEMMA IfLeads ==
  ASSUME "bare" \notin Forms, Compiling(cg, open), Leading(cg, open, n), If
  PROVE  Leading(cg', open', n')
<1>1. PICK y : y = Item("if", <<>>)
  OBVIOUS
<1>2. PICK e : e = Begin(cg, open, "")
  OBVIOUS
<1>3. cg' = LabelJump(e, "JZ", TRUE) /\ open' = Append(open, y) /\ n' = n + 1
  BY <1>1, <1>2 DEF If, Compile
<1>4. CodeOK(cg, {}) /\ OpenOK(open)
  BY DEF Compiling
<1>5. open[Len(open)].k \notin Loops
  <2>1. PICK kind : kind = "if"
    OBVIOUS
  <2>2. CanStart(kind) /\ kind # "block"
    BY <2>1 DEF If, CanOpen
  <2>3. QED
    BY <1>4, <2>2, NotWaiting
<1>6. PICK w : w = Len(cg.label)
  OBVIOUS
<1>7. PICK P, E : Homeward(cg, open, n, P, E) /\ P[w + 1] = None
  <2>1. PICK R, E : Homeward(cg, open, n, R, E)
    BY DEF Leading
  <2>2. None \in Purposes
    BY DEF Purposes
  <2>3. \E Q : Homeward(cg, open, n, Q, E) /\ Q[w + 1] = None /\ Q[w + 2] = None
    BY <1>4, <1>6, <2>1, <2>2, NewPurposes
  <2>4. QED
    BY <2>3
<1>8. Homing(e, P, E) /\ BeginsAt(cg, e, open, "")
  BY <1>2, <1>7, BeginGoes DEF Homeward
<1>9. BegunSame(cg, e)
  BY <1>8, BeginSame
<1>10. Homing(cg', P, E) /\ cg'.body = cg.body /\ cg'.end = cg.end
  <2>1. PICK op : op = "JZ"
    OBVIOUS
  <2>2. PICK push \in BOOLEAN : push = TRUE
    OBVIOUS
  <2>3. cg' = LabelJump(e, op, push) /\ op # "JMP"
    BY <1>3, <2>1, <2>2
  <2>4. Goes(e, cg', P, E)
    BY <1>8, <2>3, LabelJumpGoes
  <2>5. QED
    BY <1>9, <2>4 DEF Goes, SamePlace, BegunSame
<1>11. LabelOpens(cg, cg', "if") /\ cg'.in_loop = cg.in_loop
  BY IfOpens
<1>12. PICK k : k = "if"
  OBVIOUS
<1>13. cg'.in_loop = (k \in Loops)
  BY <1>5, <1>7, <1>11, <1>12 DEF Homeward, Waits, Loops
<1>14. k = y.k /\ y.id = n + 1 /\ y.k # "handlers" /\ y.done = FALSE /\ k \notin Loops
  BY <1>1, <1>12 DEF Item, Loops
<1>15. Inside(open, open', y, n)
  BY <1>3, <1>4, <1>5, <1>14, BegunInside
<1>16. LabelOpens(cg, cg', k) /\ k \in {"if", "while", "do"}
  BY <1>11, <1>12
<1>17. Homeward(cg', open', n + 1, P, E)
  BY <1>4, <1>6, <1>7, <1>10, <1>13, <1>14, <1>15, <1>16, PlainOpensHome
<1>18. QED
  BY <1>3, <1>17 DEF Leading

\* Only instructions and labels have changed.
Adds(c, d, P, E) == Homing(d, P, E) /\ d.body = c.body /\ d.end = c.end
\* do_loop_start() after label_here().
LEMMA StartLoopGoes ==
  ASSUME NEW c, CodeOK(c, {}), NEW P, NEW E, Homing(c, P, E), P[Len(c.label) + 1] = None,
         NEW o, NEW d, d = StartLoop(c, o)
  PROVE  Adds(c, d, P, E) /\ d.in_loop = TRUE
<1>1. PICK e : e = LabelHere(c)
  OBVIOUS
<1>2. PICK b : b = TRUE
  OBVIOUS
<1>3. PICK a : a = [e EXCEPT !.in_loop = b]
  OBVIOUS
<1>4. PICK f : f = Begin(a, o, "")
  OBVIOUS
<1>5. PICK op : op = "JZ"
  OBVIOUS
<1>6. PICK push \in BOOLEAN : push = TRUE
  OBVIOUS
<1>7. d = LabelJump(f, op, push) /\ op # "JMP"
  BY <1>1, <1>2, <1>3, <1>4, <1>5, <1>6 DEF StartLoop
<1>8. IsSeq(c.label_stack)
  BY DEF CodeOK, StackShape, IsSeq
<1>9. Goes(c, e, P, E)
  BY <1>1, <1>8, LabelHereGoes
<1>10. Homing(e, P, E) /\ DOMAIN e = Fields /\ CodeOK(e, {})
  BY <1>1, <1>9, LabelHereOK DEF Goes, Homing, Shaped, GrowPost, Works
<1>11. Goes(e, a, P, E) /\ a.in_loop = b /\ CodeOK(a, {})
  <2>1. /\ DOMAIN a = Fields /\ a.in_loop = b
        /\ a.code = e.code /\ a.label = e.label /\ a.here = e.here
        /\ a.goto.label = e.goto.label /\ a.body = e.body /\ a.end = e.end
    BY <1>3, <1>10 DEF Fields
  <2>2. CodeOK(a, {})
    BY <1>2, <1>3, <1>10, SetLoopOK DEF SetLoopPost
  <2>3. QED
    BY <1>10, <2>1, <2>2, AsideGoes
<1>12. Homing(a, P, E)
  BY <1>11 DEF Goes
<1>13. Homing(f, P, E) /\ BeginsAt(a, f, o, "")
  BY <1>4, <1>12, BeginGoes
<1>14. BegunSame(a, f)
  BY <1>13, BeginSame
<1>15. Goes(f, d, P, E)
  BY <1>7, <1>13, LabelJumpGoes
<1>16. d.in_loop = f.in_loop
  <2>1. CodeOK(f, {})
    BY <1>4, <1>11, HistoryOK
  <2>2. d = LabelJump(f, op, TRUE) /\ op \in JumpOps
    BY <1>5, <1>6, <1>7 DEF JumpOps
  <2>3. GrowPost(f, {}, d, Len(f.label) + 1)
    BY <2>1, <2>2, LabelJumpOK
  <2>4. QED
    BY <2>3 DEF GrowPost, Works, LabelFrame
<1>17. Adds(c, d, P, E)
  BY <1>9, <1>11, <1>14, <1>15 DEF Goes, SamePlace, BegunSame, Adds
<1>18. QED
  BY <1>2, <1>11, <1>14, <1>16, <1>17 DEF BegunSame

\* The next two labels are those of a loop.
Looping(c, o, m, w, P, E) ==
  Homeward(c, o, m, P, E) /\ P[w + 1] = None /\ P[w + 2] = <<"end", m + 1>>
\* A loop has a label it jumps back to, for nothing, and one for its end.
LEMMA LoopPurposes ==
  ASSUME NEW c, CodeOK(c, {}), NEW o, OpenOK(o), NEW m, m \in Nat, Leading(c, o, m),
         NEW w, w = Len(c.label)
  PROVE  \E P, E : Looping(c, o, m, w, P, E)
<1>1. PICK R, E : Homeward(c, o, m, R, E)
  BY DEF Leading
<1>2. PICK g : g = <<"end", m + 1>>
  OBVIOUS
<1>3. None \in Purposes /\ g \in Purposes
  BY <1>2 DEF Purposes, Goals
<1>4. \E Q : Homeward(c, o, m, Q, E) /\ Q[w + 1] = None /\ Q[w + 2] = g
  BY <1>1, <1>3, NewPurposes, SMTT(40)
<1>5. QED
  BY <1>2, <1>4 DEF Looping

\* A while.
LEMMA WhileLeads ==
  ASSUME "bare" \notin Forms, Compiling(cg, open), Leading(cg, open, n), n \in Nat, While
  PROVE  Leading(cg', open', n')
<1>1. PICK y : y = Item("while", <<>>)
  OBVIOUS
<1>2. PICK p : p = Append(open, y)
  OBVIOUS
<1>3. cg' = StartLoop(cg, p) /\ open' = p /\ n' = n + 1
  BY <1>1, <1>2 DEF While, Compile
<1>4. CodeOK(cg, {}) /\ OpenOK(open)
  BY DEF Compiling
<1>5. open[Len(open)].k \notin Loops
  <2>1. PICK kind : kind = "while"
    OBVIOUS
  <2>2. CanStart(kind) /\ kind # "block"
    BY <2>1 DEF While, CanOpen
  <2>3. QED
    BY <1>4, <2>2, NotWaiting
<1>6. PICK w : w = Len(cg.label)
  OBVIOUS
<1>7. PICK P, E : Looping(cg, open, n, w, P, E)
  BY <1>4, <1>6, LoopPurposes
<1>8. Homing(cg', P, E) /\ cg'.body = cg.body /\ cg'.end = cg.end /\ cg'.in_loop = TRUE
  <2>1. Homing(cg, P, E) /\ P[Len(cg.label) + 1] = None
    BY <1>6, <1>7 DEF Looping, Homeward
  <2>2. Adds(cg, cg', P, E) /\ cg'.in_loop = TRUE
    BY <1>3, <1>4, <2>1, StartLoopGoes
  <2>3. QED
    BY <2>2 DEF Adds
<1>9. PICK k \in Loops : k = "while"
  BY DEF Loops
<1>10. LabelOpens(cg, cg', k)
  BY <1>3, <1>4, StartLoopOK
<1>11. k = y.k /\ y.id = n + 1 /\ y.k # "handlers" /\ y.done = FALSE
  BY <1>1, <1>9 DEF Item
<1>12. Inside(open, open', y, n)
  BY <1>2, <1>3, <1>4, <1>5, <1>11, BegunInside
<1>13. k \in {"if", "while", "do"} /\ cg'.in_loop = (k \in Loops) /\ P[w + 2] = <<"end", y.id>>
  BY <1>7, <1>8, <1>9, <1>11 DEF Looping
<1>14. Homeward(cg', open', n + 1, P, E)
  BY <1>4, <1>6, <1>7, <1>8, <1>10, <1>11, <1>12, <1>13, PlainOpensHome DEF Looping
<1>15. QED
  BY <1>3, <1>14 DEF Leading

\* A do.
LEMMA DoLeads ==
  ASSUME "bare" \notin Forms, Compiling(cg, open), Leading(cg, open, n), n \in Nat, Do
  PROVE  Leading(cg', open', n')
<1>1. PICK y : y = Item("do", <<>>)
  OBVIOUS
<1>2. PICK e : e = LabelHere(cg)
  OBVIOUS
<1>3. PICK g : g = PushLabelStack(e)
  OBVIOUS
<1>4. PICK b : b = TRUE
  OBVIOUS
<1>5. cg' = [g EXCEPT !.in_loop = b] /\ open' = Append(open, y) /\ n' = n + 1
  BY <1>1, <1>2, <1>3, <1>4 DEF Do, Compile
<1>6. CodeOK(cg, {}) /\ OpenOK(open)
  BY DEF Compiling
<1>7. open[Len(open)].k \notin Loops
  <2>1. PICK kind : kind = "do"
    OBVIOUS
  <2>2. CanStart(kind) /\ kind # "block"
    BY <2>1 DEF Do, CanOpen
  <2>3. QED
    BY <1>6, <2>2, NotWaiting
<1>8. PICK w : w = Len(cg.label)
  OBVIOUS
<1>9. PICK P, E : Looping(cg, open, n, w, P, E)
  BY <1>6, <1>8, LoopPurposes
<1>10. Goes(cg, e, P, E)
  <2>1. IsSeq(cg.label_stack)
    BY <1>6 DEF CodeOK, StackShape, IsSeq
  <2>2. Homing(cg, P, E) /\ P[Len(cg.label) + 1] = None
    BY <1>8, <1>9 DEF Looping, Homeward
  <2>3. QED
    BY <1>2, <2>1, <2>2, LabelHereGoes
<1>11. Goes(e, g, P, E)
  <2>1. Homing(e, P, E)
    BY <1>10 DEF Goes
  <2>2. QED
    BY <1>3, <2>1, PushLabelGoes
<1>12. Goes(g, cg', P, E)
  <2>1. Homing(g, P, E) /\ DOMAIN g = Fields
    BY <1>11 DEF Goes, Homing, Shaped
  <2>2. /\ DOMAIN cg' = Fields
        /\ cg'.code = g.code /\ cg'.label = g.label /\ cg'.here = g.here
        /\ cg'.goto.label = g.goto.label /\ cg'.body = g.body /\ cg'.end = g.end
    BY <1>5, <2>1 DEF Fields
  <2>3. QED
    BY <2>1, <2>2, AsideGoes
<1>13. Homing(cg', P, E) /\ cg'.body = cg.body /\ cg'.end = cg.end
  BY <1>10, <1>11, <1>12 DEF Goes, SamePlace
<1>14. PICK k \in Loops : k = "do"
  BY DEF Loops
<1>15. LabelOpens(cg, cg', k) /\ cg'.in_loop = (k \in Loops)
  BY <1>14, DoOpens
<1>16. k = y.k /\ y.id = n + 1 /\ y.k # "handlers" /\ y.done = FALSE
  BY <1>1, <1>14 DEF Item
<1>17. Inside(open, open', y, n)
  BY <1>5, <1>6, <1>7, <1>16, BegunInside
<1>18. k \in {"if", "while", "do"} /\ P[w + 2] = <<"end", y.id>>
  BY <1>9, <1>14, <1>16 DEF Looping
<1>19. Homeward(cg', open', n + 1, P, E)
  BY <1>6, <1>8, <1>9, <1>13, <1>15, <1>16, <1>17, <1>18, PlainOpensHome DEF Looping
<1>20. QED
  BY <1>5, <1>19 DEF Leading

\* The flags of a new block: it is a loop's statement, or not.
LEMMA FlagsAre ==
  ASSUME NEW c, c.in_switch = FALSE, c.in_loop \in BOOLEAN, NEW F, F = BlockFlags(c)
  PROVE  /\ "BREAKABLE" \in F <=> c.in_loop
         /\ "CONTINUEABLE" \in F <=> c.in_loop
         /\ "IN_SWITCH" \notin F
<1>1. CASE c.in_loop
  BY <1>1 DEF BlockFlags
<1>2. CASE ~c.in_loop
  BY <1>2 DEF BlockFlags
<1>3. QED
  BY <1>1, <1>2

\* Nothing that a block is about differs but for the contexts.
SameBlocks(b, d) ==
  /\ d.break_stack = b.break_stack /\ d.continue_stack = b.continue_stack
  /\ Len(d.block_stack) = Len(b.block_stack)
  /\ \A i \in 1 .. Len(b.block_stack) : \A f \in {"BREAKABLE", "CONTINUEABLE", "IN_SWITCH"} :
       f \in d.block_stack[i] <=> f \in b.block_stack[i]
\* A context makes no difference.
LEMMA ContextBlocks ==
  ASSUME NEW b, IsSeq(b.block_stack), Len(b.block_stack) >= 1, NEW d, SameLabels(b, d), Contexted(b, d)
  PROVE  SameBlocks(b, d)
<1>1. Len(b.block_stack) \in Nat
  BY SeqShape
<1>2. Len(d.block_stack) = Len(b.block_stack)
  BY DEF Contexted
<1>3. ASSUME NEW i \in 1 .. Len(b.block_stack), NEW f \in {"BREAKABLE", "CONTINUEABLE", "IN_SWITCH"}
      PROVE  f \in d.block_stack[i] <=> f \in b.block_stack[i]
  <2>1. CASE i = Len(b.block_stack)
    BY <2>1 DEF Contexted
  <2>2. CASE i # Len(b.block_stack)
    <3>1. i \in 1 .. Len(b.block_stack) - 1
      BY <1>1, <2>2
    <3>2. QED
      BY <3>1 DEF Contexted, Kept
  <2>3. QED
    BY <2>1, <2>2
<1>4. QED
  BY <1>2, <1>3 DEF SameBlocks, SameLabels

\* The labels that the statement y has pushed above those of c.
Pushed(c, d, P, y) ==
  /\ Len(d.label_stack) = Len(c.label_stack) + LabelsOf(y.k)
  /\ Kept(c.label_stack, d.label_stack, Len(c.label_stack))
  /\ y.k \in Loops =>
       /\ P[d.label_stack[Len(c.label_stack) + 1]] = None
       /\ P[d.label_stack[Len(c.label_stack) + 2]] = <<"end", y.id>>
\* The label that a continue in the block of a waiting loop goes to.
BodyLabel(c, o, P) ==
  c.in_loop => P[Len(c.label) + 1] = <<"body", o[Len(o)].id>>

\* A statement with a block or scope of its own, which is the statement of a
\* loop if that is what the loop waits for.
LEMMA BlockOpensHome ==
  ASSUME NEW c, CodeOK(c, {}), NEW o, OpenOK(o), NEW m, NEW P, NEW E,
         Homeward(c, o, m, P, E), c.in_switch = FALSE, NEW y, NEW p, Inside(o, p, y, m),
         y.k \in {"block", "try", "catch", "for"}, NEW b, InitPost(c, {}, b), BodyLabel(c, o, P),
         NEW d, SameBlocks(b, d), Pushed(c, d, P, y), Homing(d, P, E), d.body = c.body,
         d.end = c.end, Aimless(c, d, P), d.in_loop = (y.k \in Loops)
  PROVE  Homeward(d, p, m + 1, P, E)
<1>1. Stacked(c) /\ IsSeq(o) /\ Len(o) >= 1 /\ Len(o) \in Nat /\ c.in_loop \in BOOLEAN
  BY StackedOK, SeqShape DEF OpenOK, CodeOK, StackShape
<1>2. PICK x : x = Highs(c)
  OBVIOUS
<1>3. PICK i : i = Len(o) + 1
  OBVIOUS
<1>4. /\ x.label = Len(c.label_stack) /\ x.brk = Len(c.break_stack)
      /\ x.cont = Len(c.continue_stack) /\ x.blk = Len(c.block_stack)
      /\ x.label \in Nat /\ x.brk \in Nat /\ x.cont \in Nat /\ x.blk \in Nat
  <2>1. x \in Marks
    BY <1>1, <1>2 DEF Stacked
  <2>2. QED
    BY <1>2, <2>1 DEF Highs, Marks
<1>5. PICK F : F = BlockFlags(c)
  OBVIOUS
<1>6. /\ "BREAKABLE" \in F <=> c.in_loop
      /\ "CONTINUEABLE" \in F <=> c.in_loop
      /\ "IN_SWITCH" \notin F
  BY <1>1, <1>5, FlagsAre
<1>7. /\ IF c.in_loop THEN Grows(c.break_stack, b.break_stack, c.label_stack[Len(c.label_stack)])
         ELSE b.break_stack = c.break_stack
      /\ IF c.in_loop THEN Grows(c.continue_stack, b.continue_stack, Len(c.label) + 1)
         ELSE b.continue_stack = c.continue_stack
      /\ Grows(c.block_stack, b.block_stack, F)
  BY <1>5 DEF InitPost
<1>8. p[i] = y /\ p[Len(o)] = o[Len(o)] /\ i - 1 = Len(o) /\ i > 1
  <2>1. Len(o) \in 1 .. Len(o)
    BY <1>1
  <2>2. QED
    BY <1>1, <1>3, <2>1 DEF Inside
<1>9. c.in_loop <=> IsBody(p, i)
  <2>1. c.in_loop = (o[Len(o)].k \in Loops /\ ~o[Len(o)].done)
    BY DEF Homeward, Waits
  <2>2. o[Len(o)].k \in Loops => y.k = "block" /\ ~o[Len(o)].done
    BY DEF Inside
  <2>3. IsBody(p, i) <=> y.k = "block" /\ o[Len(o)].k \in Loops
    BY <1>8 DEF IsBody
  <2>4. QED
    BY <2>1, <2>2, <2>3
<1>10. Owns(y.k) /\ y.k # "switch"
  BY DEF Owns, Blocks
<1>11. /\ Len(d.break_stack) = x.brk + (IF c.in_loop THEN 1 ELSE 0)
       /\ Kept(c.break_stack, d.break_stack, x.brk)
       /\ c.in_loop => d.break_stack[x.brk + 1] = c.label_stack[Len(c.label_stack)]
  <2>1. d.break_stack = b.break_stack
    BY DEF SameBlocks
  <2>2. CASE c.in_loop
    BY <1>4, <1>7, <2>1, <2>2 DEF Grows
  <2>3. CASE ~c.in_loop
    BY <1>4, <1>7, <2>1, <2>3 DEF Kept
  <2>4. QED
    BY <2>2, <2>3
<1>12. /\ Len(d.continue_stack) = x.cont + (IF c.in_loop THEN 1 ELSE 0)
       /\ Kept(c.continue_stack, d.continue_stack, x.cont)
       /\ c.in_loop => d.continue_stack[x.cont + 1] = Len(c.label) + 1
  <2>1. d.continue_stack = b.continue_stack
    BY DEF SameBlocks
  <2>2. CASE c.in_loop
    BY <1>4, <1>7, <2>1, <2>2 DEF Grows
  <2>3. CASE ~c.in_loop
    BY <1>4, <1>7, <2>1, <2>3 DEF Kept
  <2>4. QED
    BY <2>2, <2>3
<1>13. Len(d.block_stack) = x.blk + 1
  BY <1>4, <1>7 DEF SameBlocks, Grows
<1>14. Len(d.label_stack) = x.label + LabelsOf(y.k) /\ Kept(c.label_stack, d.label_stack, x.label)
  BY <1>4 DEF Pushed
<1>15. ASSUME NEW j \in 1 .. x.blk, NEW f \in {"BREAKABLE", "CONTINUEABLE", "IN_SWITCH"}
       PROVE  f \in d.block_stack[j] <=> f \in c.block_stack[j]
  <2>1. j \in 1 .. Len(b.block_stack) /\ b.block_stack[j] = c.block_stack[j]
    BY <1>4, <1>7, <1>15 DEF Grows, Kept
  <2>2. QED
    BY <2>1 DEF SameBlocks
<1>16. ASSUME NEW f \in {"BREAKABLE", "CONTINUEABLE", "IN_SWITCH"}
       PROVE  f \in d.block_stack[x.blk + 1] <=> f \in F
  <2>1. x.blk + 1 \in 1 .. Len(b.block_stack) /\ b.block_stack[x.blk + 1] = F
    BY <1>4, <1>7 DEF Grows
  <2>2. QED
    BY <2>1 DEF SameBlocks
<1>17. Alike(c, d, x)
  BY <1>11, <1>12, <1>14, <1>15 DEF Alike
<1>18. Highs(d) = Above(x, p, i)
  <2>1. /\ BreaksOf(p, i) = (IF c.in_loop THEN 1 ELSE 0)
        /\ ContinuesOf(p, i) = (IF c.in_loop THEN 1 ELSE 0)
        /\ BlocksOf(p, i) = 1
    BY <1>8, <1>9, <1>10 DEF BreaksOf, ContinuesOf, BlocksOf
  <2>2. QED
    BY <1>8, <1>11, <1>12, <1>13, <1>14, <2>1 DEF Highs, Above
<1>19. c.in_loop => P[c.label_stack[Len(c.label_stack)]] = <<"end", o[Len(o)].id>>
  <2>1. PICK z : TopHome(c, o, P, z)
    BY <1>1, HomeTop DEF Homeward
  <2>2. ASSUME c.in_loop
        PROVE  P[c.label_stack[Len(c.label_stack)]] = <<"end", o[Len(o)].id>>
    <3>1. o[Len(o)].k \in Loops
      BY <2>2 DEF Homeward, Waits
    <3>2. LabelsOf(o[Len(o)].k) = 2
      BY <3>1 DEF LabelsOf
    <3>3. Len(c.label_stack) = z.label + 2
      BY <2>1, <3>2 DEF TopHome, Highs, Above
    <3>4. P[c.label_stack[z.label + 2]] = <<"end", o[Len(o)].id>>
      BY <2>1, <3>1 DEF TopHome, Spot
    <3>5. QED
      BY <3>3, <3>4
  <2>3. QED
    BY <2>2
<1>20. Spot(d, p, x, i, P)
  <2>1. y.k \in Loops => /\ P[d.label_stack[x.label + 1]] = None
                         /\ P[d.label_stack[x.label + 2]] = <<"end", y.id>>
    BY <1>4 DEF Pushed
  <2>2. /\ "BREAKABLE" \in d.block_stack[x.blk + 1] <=> IsBody(p, i)
        /\ "CONTINUEABLE" \in d.block_stack[x.blk + 1] <=> IsBody(p, i)
        /\ "IN_SWITCH" \notin d.block_stack[x.blk + 1]
    BY <1>6, <1>9, <1>16
  <2>3. IsBody(p, i) => /\ P[d.break_stack[x.brk + 1]] = <<"end", p[i - 1].id>>
                        /\ P[d.continue_stack[x.cont + 1]] = <<"body", p[i - 1].id>>
    BY <1>8, <1>9, <1>11, <1>12, <1>19 DEF BodyLabel
  <2>4. y.k \notin {"if", "else"}
    OBVIOUS
  <2>5. QED
    BY <1>8, <1>10, <2>1, <2>2, <2>3, <2>4 DEF Spot
<1>21. QED
  BY <1>2, <1>3, <1>17, <1>18, <1>20, OpensHome

\* init_block() adds a label for a loop only.
InitDoes(c, d, P, E) ==
  /\ InitPost(c, {}, d) /\ Adds(c, d, P, E) /\ d.goto = c.goto
  /\ ~c.in_loop => d.label = c.label /\ d.label_stack = c.label_stack

\* init_block() leads no jump astray.
LEMMA InitHome ==
  ASSUME NEW c, NEW o, Compiling(c, o), NEW P, NEW E, Homing(c, P, E), NEW d, d = InitBlock(c)
  PROVE  InitDoes(c, d, P, E)
<1>1. PICK y : y = Tops(c)
  OBVIOUS
<1>2. InitPost(c, {}, d) /\ d.label_stack = c.label_stack
  BY <1>1, InitKeeps
<1>3. Adds(c, d, P, E)
  BY InitGoes DEF Goes, SamePlace, Adds
<1>4. DOMAIN c = Fields /\ c.in_switch = FALSE
  BY DEF Compiling, CodeOK, CodeShape
<1>5. ASSUME ~c.in_loop
      PROVE  d.label = c.label
  <2>1. PICK F : F = BlockFlags(c)
    OBVIOUS
  <2>2. d = Push(c, "block_stack", F)
    BY <1>4, <1>5, <2>1 DEF InitBlock, BlockFlags
  <2>3. QED
    BY <1>4, <2>2 DEF Push, Fields
<1>6. QED
  BY <1>2, <1>3, <1>5 DEF InitDoes, InitPost

\* An object is begun in the innermost block.
ObjectDoes(b, d, P, E) ==
  /\ SameBlocks(b, d) /\ Adds(b, d, P, E) /\ CodeOK(d, {}) /\ d.label = b.label
  /\ d.label_stack = b.label_stack /\ d.mTryStack = b.mTryStack /\ d.goto = b.goto
  /\ d.in_loop = b.in_loop

\* Nor does the construction of an object in it.
LEMMA ObjectHome ==
  ASSUME NEW b, CodeOK(b, {}), Len(b.block_stack) >= 1, b.size < MaxObjects,
         NEW op \in {"TOSD", "MARK"}, NEW o, NEW P, NEW E, Homing(b, P, E),
         NEW d, d = Construct(Begin(b, o, ""), op)
  PROVE  ObjectDoes(b, d, P, E)
<1>1. PICK e : e = Begin(b, o, "")
  OBVIOUS
<1>2. Homing(e, P, E) /\ BeginsAt(b, e, o, "")
  BY <1>1, BeginGoes
<1>3. BegunSame(b, e)
  BY <1>2, BeginSame
<1>4. CodeOK(e, {}) /\ e.size = b.size
  <2>1. CodeOK(e, {}) /\ Aside(b, e)
    BY <1>1, HistoryOK
  <2>2. QED
    BY <2>1 DEF Aside, Frame
<1>5. d = Construct(e, op) /\ op # "JMP"
  BY <1>1
<1>6. Goes(e, d, P, E)
  BY <1>2, <1>5, ConstructGoes
<1>7. ConstructPost(e, {}, d)
  <2>1. Len(e.block_stack) >= 1 /\ e.size < MaxObjects
    BY <1>3, <1>4 DEF BegunSame
  <2>2. QED
    BY <1>4, <1>5, <2>1, ConstructOK
<1>8. SameLabels(e, d) /\ Contexted(e, d) /\ CodeOK(d, {})
  BY <1>7 DEF ConstructPost
<1>9. SameBlocks(e, d)
  <2>1. IsSeq(e.block_stack) /\ Len(e.block_stack) >= 1
    BY <1>3, <1>4 DEF CodeOK, StackShape, BegunSame
  <2>2. QED
    BY <1>8, <2>1, ContextBlocks
<1>10. SameBlocks(b, d)
  BY <1>3, <1>9 DEF SameBlocks, BegunSame
<1>11. Adds(b, d, P, E)
  BY <1>3, <1>6 DEF Adds, Goes, SamePlace, BegunSame
<1>12. QED
  BY <1>3, <1>8, <1>10, <1>11 DEF ObjectDoes, SameLabels, BegunSame

\* A block, which may be the statement of a loop.
LEMMA OpenBlockLeads ==
  ASSUME "bare" \notin Forms, Compiling(cg, open), Leading(cg, open, n), n \in Nat, OpenBlock
  PROVE  Leading(cg', open', n')
<1>1. PICK y : y = Item("block", <<>>)
  OBVIOUS
<1>2. cg' = InitBlock(cg) /\ open' = Append(open, y) /\ n' = n + 1
  BY <1>1 DEF OpenBlock, Compile
<1>3. CodeOK(cg, {}) /\ OpenOK(open) /\ cg.in_switch = FALSE
  BY DEF Compiling
<1>4. PICK w : w = Len(cg.label)
  OBVIOUS
<1>5. PICK R, E : Homeward(cg, open, n, R, E)
  BY DEF Leading
<1>6. PICK f : f = IF cg.in_loop THEN <<"body", open[Len(open)].id>> ELSE None
  OBVIOUS
<1>7. f \in Purposes
  <2>1. CASE cg.in_loop
    <3>1. open[Len(open)].k \in Loops
      BY <1>5, <2>1 DEF Homeward, Waits
    <3>2. open[Len(open)].k # "handlers"
      BY <3>1 DEF Loops
    <3>3. Len(open) \in 1 .. Len(open) /\ n \in Nat
      BY <1>3, SeqShape DEF OpenOK
    <3>4. open[Len(open)].id \in 0 .. n
      BY <1>5, <3>2, <3>3 DEF Homeward, Order
    <3>5. open[Len(open)].id \in Nat
      BY <3>4
    <3>6. QED
      BY <1>6, <2>1, <3>5 DEF Purposes, Goals
  <2>2. CASE ~cg.in_loop
    BY <1>6, <2>2 DEF Purposes
  <2>3. QED
    BY <2>1, <2>2
<1>8. PICK P : Homeward(cg, open, n, P, E) /\ P[w + 1] = f
  <2>1. \E Q : Homeward(cg, open, n, Q, E) /\ Q[w + 1] = f /\ Q[w + 2] = f
    BY <1>3, <1>4, <1>5, <1>7, NewPurposes
  <2>2. QED
    BY <2>1
<1>9. Homing(cg, P, E) /\ Nowhere(cg, P)
  BY <1>8 DEF Homeward
<1>10. InitDoes(cg, cg', P, E)
  BY <1>2, <1>9, InitHome
<1>11. InitPost(cg, {}, cg') /\ Adds(cg, cg', P, E)
  BY <1>10 DEF InitDoes
<1>12. BodyLabel(cg, open, P)
  BY <1>4, <1>6, <1>8 DEF BodyLabel
<1>13. SameBlocks(cg', cg')
  BY DEF SameBlocks
<1>14. y.k = "block" /\ y.id = n + 1 /\ y.k # "handlers" /\ y.done = FALSE /\ y.k \notin Loops
       /\ LabelsOf(y.k) = 0
  BY <1>1 DEF Item, Loops, LabelsOf
<1>15. Inside(open, open', y, n)
  <2>1. open[Len(open)].k \in Loops => ~open[Len(open)].done
    BY <1>3, TopIs DEF OpenBlock, CanOpen, CanStart, Loops, Blocks
  <2>2. QED
    BY <1>2, <1>3, <1>14, <2>1, BegunInside
<1>16. Pushed(cg, cg', P, y)
  <2>1. Len(cg.label_stack) \in Nat
    BY <1>3, StackFacts DEF CodeOK
  <2>2. cg'.label_stack = cg.label_stack
    BY <1>3, <1>11 DEF InitPost
  <2>3. QED
    BY <1>14, <2>1, <2>2 DEF Pushed, Kept
<1>17. Aimless(cg, cg', P)
  BY <1>9, <1>11, AimlessSame DEF InitPost
<1>18. cg'.in_loop = (y.k \in Loops) /\ y.k \in {"block", "try", "catch", "for"}
  <2>1. cg'.in_loop = FALSE
    BY <1>11 DEF InitPost
  <2>2. (y.k \in Loops) = FALSE
    BY <1>14
  <2>3. QED
    BY <1>14, <2>1, <2>2
<1>19. Homing(cg', P, E) /\ cg'.body = cg.body /\ cg'.end = cg.end
  BY <1>11 DEF Adds
<1>20. Homeward(cg', open', n + 1, P, E)
  BY <1>3, <1>8, <1>11, <1>12, <1>13, <1>15, <1>16, <1>17, <1>18, <1>19, BlockOpensHome
<1>21. QED
  BY <1>2, <1>20 DEF Leading

\* The same labels and blocks are the same stacks.
LEMMA SameBlocksHome ==
  ASSUME NEW c, CodeOK(c, {}), NEW d, SameBlocks(c, d), d.label_stack = c.label_stack,
         NEW x, x = Highs(c)
  PROVE  Alike(c, d, x) /\ Highs(d) = x
<1>1. x.blk = Len(c.block_stack)
  BY DEF Highs
<1>2. Alike(c, d, x)
  BY <1>1 DEF SameBlocks, Alike, Kept
<1>3. Highs(d) = x
  BY DEF SameBlocks, Highs
<1>4. QED
  BY <1>2, <1>3

\* A declaration.
LEMMA DeclareLeads ==
  ASSUME "bare" \notin Forms, Compiling(cg, open), Leading(cg, open, n), Declare
  PROVE  Leading(cg', open', n')
<1>1. PICK v : v = Append(Top.live, cg.size + 1)
  OBVIOUS
<1>2. CodeOK(cg, {}) /\ OpenOK(open) /\ Standing(cg, open)
  BY DEF Compiling
<1>3. /\ Top = open[Len(open)] /\ Top.k \in Blocks \ {"switch"} /\ cg.size < MaxObjects
  BY <1>2, TopIs DEF Declare
<1>4. PICK op \in {"TOSD", "MARK"} : op = "TOSD"
  OBVIOUS
<1>5. /\ cg' = Construct(Begin(cg, open, ""), op) /\ n' = n + 1
      /\ open' = [open EXCEPT ![Len(open)] = [@ EXCEPT !["live"] = v]]
  BY <1>1, <1>3, <1>4 DEF Declare, Compile
<1>6. Len(cg.block_stack) >= 1
  BY <1>2, TopFacts DEF TopPost
<1>7. PICK P, E : Homeward(cg, open, n, P, E)
  BY DEF Leading
<1>8. Homing(cg, P, E) /\ Nowhere(cg, P) /\ Order(open, n, E)
  BY <1>7 DEF Homeward
<1>9. ObjectDoes(cg, cg', P, E)
  BY <1>2, <1>3, <1>5, <1>6, <1>8, ObjectHome
<1>10. /\ SameBlocks(cg, cg') /\ cg'.label_stack = cg.label_stack
       /\ cg'.mTryStack = cg.mTryStack /\ cg'.goto = cg.goto /\ cg'.in_loop = cg.in_loop
       /\ Homing(cg', P, E) /\ cg'.body = cg.body /\ cg'.end = cg.end
  BY <1>9 DEF ObjectDoes, Adds
<1>11. PICK x : x = Highs(cg)
  OBVIOUS
<1>12. Alike(cg, cg', x) /\ Highs(cg') = x
  BY <1>2, <1>10, <1>11, SameBlocksHome
<1>13. SameOpen(open, open')
  <2>1. /\ IsSeq(open) /\ Len(open) \in Nat /\ Len(open) >= 1 /\ DOMAIN open = 1 .. Len(open)
        /\ \A i \in 1 .. Len(open) : DOMAIN open[i] = ItemFields
    BY <1>2, SeqShape DEF OpenOK
  <2>2. Len(open) \in 1 .. Len(open)
    BY <2>1
  <2>3. Len(open') = Len(open)
    BY <1>2, <1>5, AlteredOpen, ZenonT(60)
  <2>4. \A i \in 1 .. Len(open) - 1 : open'[i] = open[i]
    <3>1. ASSUME NEW i \in 1 .. Len(open) - 1
          PROVE  open'[i] = open[i]
      <4>1. Len(open) \in Nat
        BY <2>1
      <4>2. i \in 1 .. Len(open) /\ i # Len(open)
        BY <4>1
      <4>3. i \in DOMAIN open
        BY <2>1, <4>2
      <4>4. QED
        BY <1>5, <4>2, <4>3
    <3>2. QED
      BY <3>1
  <2>5. /\ open'[Len(open)].k = open[Len(open)].k /\ open'[Len(open)].id = open[Len(open)].id
        /\ open'[Len(open)].done = open[Len(open)].done
    BY <1>5, <2>1, <2>2 DEF ItemFields
  <2>6. SameItems(open, open', Len(open))
    <3>1. ASSUME NEW i \in 1 .. Len(open)
          PROVE  open'[i].k = open[i].k /\ open'[i].id = open[i].id
      <4>1. CASE i = Len(open)
        BY <2>5, <4>1
      <4>2. CASE i # Len(open)
        <5>1. Len(open) \in Nat
          BY <2>1
        <5>2. i \in 1 .. Len(open) - 1
          BY <4>2, <5>1
        <5>3. QED
          BY <2>4, <5>2
      <4>3. QED
        BY <4>1, <4>2
    <3>2. QED
      BY <3>1 DEF SameItems
  <2>7. open[Len(open)].done \in BOOLEAN
    BY <1>8, <2>2 DEF Order
  <2>8. QED
    BY <2>3, <2>4, <2>5, <2>6, <2>7 DEF SameOpen
<1>14. open[Len(open)].k \notin Loops /\ open[Len(open)].k # "handlers"
  BY <1>3 DEF Loops, Blocks
<1>15. cg'.goto.label # 0 => P[cg'.goto.label] = None
  BY <1>8, <1>10 DEF Nowhere
<1>16. PICK q \in {n, n + 1} : q = n'
  BY <1>5
<1>17. Homeward(cg', open', q, P, E)
  BY <1>2, <1>7, <1>10, <1>11, <1>12, <1>13, <1>14, <1>15, StillHome
<1>18. QED
  BY <1>16, <1>17 DEF Leading

\* A for, with or without an object of its own.
LEMMA ForLeads ==
  ASSUME "bare" \notin Forms, Compiling(cg, open), Leading(cg, open, n), n \in Nat, For
  PROVE  Leading(cg', open', n')
<1>1. PICK c : c = InitBlock(cg)
  OBVIOUS
<1>2. PICK dcl \in {FALSE, "object" \in Kinds /\ cg.size < MaxObjects} :
        LET d == IF dcl THEN Construct(Begin(c, open, ""), "TOSD") ELSE c
            o == Append(open, Item("for", IF dcl THEN <<d.size>> ELSE <<>>))
        IN  Compile(StartLoop(d, o), o)
  BY <1>1 DEF For
<1>3. PICK d : d = IF dcl THEN Construct(Begin(c, open, ""), "TOSD") ELSE c
  OBVIOUS
<1>4. PICK y : y = Item("for", IF dcl THEN <<d.size>> ELSE <<>>)
  OBVIOUS
<1>5. PICK p : p = Append(open, y)
  OBVIOUS
<1>6. cg' = StartLoop(d, p) /\ open' = p /\ n' = n + 1
  BY <1>2, <1>3, <1>4, <1>5 DEF Compile
<1>7. CodeOK(cg, {}) /\ OpenOK(open) /\ cg.in_switch = FALSE
  BY DEF Compiling
<1>8. open[Len(open)].k \notin Loops
  <2>1. PICK kind : kind = "for"
    OBVIOUS
  <2>2. CanStart(kind) /\ kind # "block"
    BY <2>1 DEF For, CanOpen
  <2>3. QED
    BY <1>7, <2>2, NotWaiting
<1>9. PICK w : w = Len(cg.label)
  OBVIOUS
<1>10. PICK P, E : Looping(cg, open, n, w, P, E)
  BY <1>7, <1>9, LoopPurposes
<1>11. /\ Homeward(cg, open, n, P, E) /\ P[w + 1] = None /\ P[w + 2] = <<"end", n + 1>>
       /\ Homing(cg, P, E) /\ Nowhere(cg, P)
  BY <1>10 DEF Looping, Homeward
<1>12. ~cg.in_loop
  BY <1>8, <1>11 DEF Homeward, Waits
<1>13. InitDoes(cg, c, P, E)
  BY <1>1, <1>11, InitHome
<1>14. /\ InitPost(cg, {}, c) /\ Homing(c, P, E) /\ c.body = cg.body /\ c.end = cg.end
       /\ c.goto = cg.goto /\ c.label = cg.label /\ c.label_stack = cg.label_stack
  BY <1>12, <1>13 DEF InitDoes, Adds
<1>15. /\ CodeOK(c, {}) /\ c.size = cg.size /\ c.mTryStack = cg.mTryStack
       /\ Grows(cg.block_stack, c.block_stack, BlockFlags(cg))
  BY <1>14 DEF InitPost
<1>16. /\ SameBlocks(c, d) /\ Homing(d, P, E) /\ d.body = cg.body /\ d.end = cg.end
       /\ CodeOK(d, {}) /\ d.label = cg.label /\ d.label_stack = cg.label_stack
       /\ d.mTryStack = cg.mTryStack /\ d.goto = cg.goto
  <2>1. CASE dcl
    <3>1. PICK op \in {"TOSD", "MARK"} : op = "TOSD"
      OBVIOUS
    <3>2. d = Construct(Begin(c, open, ""), op)
      BY <1>3, <2>1, <3>1
    <3>3. c.size < MaxObjects
      BY <1>2, <1>15, <2>1
    <3>4. Len(c.block_stack) >= 1
      <4>1. Len(cg.block_stack) \in Nat
        BY <1>7, StackFacts DEF CodeOK
      <4>2. QED
        BY <1>15, <4>1 DEF Grows
    <3>5. ObjectDoes(c, d, P, E)
      BY <1>14, <1>15, <3>2, <3>3, <3>4, ObjectHome
    <3>6. QED
      BY <1>14, <1>15, <3>5 DEF ObjectDoes, Adds
  <2>2. CASE ~dcl
    BY <1>3, <1>14, <1>15, <2>2 DEF SameBlocks
  <2>3. QED
    BY <1>2, <2>1, <2>2
<1>17. Adds(d, cg', P, E) /\ cg'.in_loop = TRUE
  <2>1. P[Len(d.label) + 1] = None
    BY <1>9, <1>11, <1>16
  <2>2. QED
    BY <1>6, <1>16, <2>1, StartLoopGoes
<1>18. PICK k \in Loops : k = "for"
  BY DEF Loops
<1>19. LabelOpens(d, cg', k)
  BY <1>6, <1>16, StartLoopOK
<1>20. k = y.k /\ y.id = n + 1 /\ y.k # "handlers" /\ y.done = FALSE /\ y.k = "for"
  BY <1>4, <1>18 DEF Item
<1>21. Inside(open, open', y, n)
  BY <1>5, <1>6, <1>7, <1>8, <1>20, BegunInside
<1>22. /\ Pushed(cg, cg', P, y) /\ cg'.break_stack = d.break_stack
       /\ cg'.continue_stack = d.continue_stack /\ cg'.block_stack = d.block_stack
       /\ cg'.mTryStack = cg.mTryStack /\ cg'.goto = cg.goto
  BY <1>9, <1>11, <1>16, <1>19, <1>20 DEF LabelOpens, Pushed
<1>23. SameBlocks(c, cg')
  BY <1>16, <1>22 DEF SameBlocks
<1>24. Aimless(cg, cg', P)
  BY <1>11, <1>22, AimlessSame
<1>25. BodyLabel(cg, open, P)
  BY <1>12 DEF BodyLabel
<1>26. Homing(cg', P, E) /\ cg'.body = cg.body /\ cg'.end = cg.end
  BY <1>16, <1>17 DEF Adds
<1>27. cg'.in_loop = (y.k \in Loops) /\ y.k \in {"block", "try", "catch", "for"}
  BY <1>17, <1>18, <1>20
<1>28. Homeward(cg', open', n + 1, P, E)
  BY <1>7, <1>11, <1>14, <1>21, <1>22, <1>23, <1>24, <1>25, <1>26, <1>27, BlockOpensHome
<1>29. QED
  BY <1>6, <1>28 DEF Leading

\* do_switch() and its block add a jump and labels.
LEMMA SwitchGoes ==
  ASSUME NEW c, NEW P, NEW E, Homing(c, P, E), NEW o, NEW b, b = Begin(c, o, ""),
         NEW e, e = [b EXCEPT !.in_switch = TRUE], NEW f, f = PushLabelStack(e),
         NEW x, NEW s, s = Push(f, "switch_stack", x),
         NEW m, m = Emit(s, "JSWITCH", 0), NEW d, d = InitBlock(m)
  PROVE  Adds(c, d, P, E)
<1>1. Homing(b, P, E) /\ BeginsAt(c, b, o, "")
  BY BeginGoes
<1>2. BegunSame(c, b)
  BY <1>1, BeginSame
<1>3. Goes(b, e, P, E)
  <2>1. DOMAIN b = Fields
    BY <1>1 DEF Homing, Shaped
  <2>2. /\ DOMAIN e = Fields
        /\ e.code = b.code /\ e.label = b.label /\ e.here = b.here
        /\ e.goto.label = b.goto.label /\ e.body = b.body /\ e.end = b.end
    BY <2>1 DEF Fields
  <2>3. QED
    BY <1>1, <2>2, AsideGoes
<1>4. Goes(e, f, P, E)
  <2>1. Homing(e, P, E)
    BY <1>3 DEF Goes
  <2>2. QED
    BY <2>1, PushLabelGoes
<1>5. Goes(f, s, P, E)
  <2>1. Homing(f, P, E)
    BY <1>4 DEF Goes
  <2>2. PICK g \in Stacks : g = "switch_stack"
    BY DEF Stacks
  <2>3. s = Push(f, g, x)
    BY <2>2
  <2>4. QED
    BY <2>1, <2>3, PushGoes
<1>6. Goes(s, m, P, E)
  <2>1. Homing(s, P, E)
    BY <1>5 DEF Goes
  <2>2. PICK op, arg : op = "JSWITCH" /\ arg = 0
    OBVIOUS
  <2>3. m = Emit(s, op, arg) /\ op # "JMP"
    BY <2>2
  <2>4. QED
    BY <2>1, <2>3, EmitGoes
<1>7. Goes(m, d, P, E)
  <2>1. Homing(m, P, E)
    BY <1>6 DEF Goes
  <2>2. QED
    BY <2>1, InitGoes
<1>8. b.body = c.body /\ b.end = c.end
  BY <1>2 DEF BegunSame
<1>9. f.body = b.body /\ f.end = b.end
  BY <1>3, <1>4 DEF Goes, SamePlace
<1>10. d.body = f.body /\ d.end = f.end
  BY <1>5, <1>6, <1>7 DEF Goes, SamePlace
<1>11. Homing(d, P, E)
  BY <1>7 DEF Goes
<1>12. QED
  BY <1>8, <1>9, <1>10, <1>11 DEF Adds

\* The block of a switch has the label of its end to break to.
LEMMA SwitchOpensHome ==
  ASSUME NEW c, CodeOK(c, {}), NEW o, OpenOK(o), NEW m, NEW P, NEW E,
         Homeward(c, o, m, P, E), c.in_loop = FALSE, NEW y, NEW p, Inside(o, p, y, m),
         y.k = "switch", NEW d, SwitchOpens(c, d), Homing(d, P, E), d.body = c.body,
         d.end = c.end, P[Len(c.label) + 1] = <<"end", y.id>>
  PROVE  Homeward(d, p, m + 1, P, E)
<1>1. Stacked(c) /\ IsSeq(o) /\ Len(o) >= 1 /\ Len(o) \in Nat
  BY StackedOK, SeqShape DEF OpenOK
<1>2. PICK x : x = Highs(c)
  OBVIOUS
<1>3. PICK i : i = Len(o) + 1
  OBVIOUS
<1>4. /\ x.label = Len(c.label_stack) /\ x.brk = Len(c.break_stack)
      /\ x.cont = Len(c.continue_stack) /\ x.blk = Len(c.block_stack)
      /\ x.label \in Nat /\ x.brk \in Nat /\ x.cont \in Nat /\ x.blk \in Nat
  <2>1. x \in Marks
    BY <1>1, <1>2 DEF Stacked
  <2>2. QED
    BY <1>2, <2>1 DEF Highs, Marks
<1>5. p[i] = y
  BY <1>3 DEF Inside
<1>6. /\ Len(d.label_stack) = x.label /\ Kept(c.label_stack, d.label_stack, x.label)
      /\ Grows(c.break_stack, d.break_stack, Len(c.label) + 1)
      /\ d.continue_stack = c.continue_stack
      /\ Grows(c.block_stack, d.block_stack, SwitchFlags(c))
      /\ d.mTryStack = c.mTryStack /\ d.goto.label = c.goto.label /\ d.in_loop = FALSE
  BY <1>4 DEF SwitchOpens, GotoSame
<1>7. SwitchFlags(c) = {"BREAKABLE", "IN_SWITCH"}
  BY DEF SwitchFlags
<1>8. /\ Kept(c.break_stack, d.break_stack, x.brk) /\ Len(d.break_stack) = x.brk + 1
      /\ d.break_stack[x.brk + 1] = Len(c.label) + 1
  BY <1>4, <1>6 DEF Grows
<1>9. /\ Kept(c.block_stack, d.block_stack, x.blk) /\ Len(d.block_stack) = x.blk + 1
      /\ d.block_stack[x.blk + 1] = {"BREAKABLE", "IN_SWITCH"}
  BY <1>4, <1>6, <1>7 DEF Grows
<1>10. Alike(c, d, x)
  BY <1>6, <1>8, <1>9 DEF Alike, Kept
<1>11. ~IsBody(p, i)
  BY <1>5 DEF IsBody
<1>12. y.k \notin Loops /\ y.k \notin {"if", "else"} /\ Owns(y.k)
  BY DEF Loops, Owns, Blocks
<1>13. Highs(d) = Above(x, p, i)
  <2>1. BreaksOf(p, i) = 1 /\ ContinuesOf(p, i) = 0 /\ BlocksOf(p, i) = 1 /\ LabelsOf(p[i].k) = 0
    BY <1>5, <1>11, <1>12 DEF BreaksOf, ContinuesOf, BlocksOf, LabelsOf
  <2>2. Len(d.continue_stack) = x.cont
    BY <1>4, <1>6
  <2>3. QED
    BY <1>4, <1>6, <1>8, <1>9, <2>1, <2>2 DEF Highs, Above
<1>14. Spot(d, p, x, i, P)
  <2>1. /\ "BREAKABLE" \in d.block_stack[x.blk + 1]
        /\ "CONTINUEABLE" \notin d.block_stack[x.blk + 1]
        /\ "IN_SWITCH" \in d.block_stack[x.blk + 1]
    BY <1>9
  <2>2. P[d.break_stack[x.brk + 1]] = <<"end", p[i].id>>
    BY <1>5, <1>8
  <2>3. QED
    BY <1>5, <1>11, <1>12, <2>1, <2>2 DEF Spot
<1>15. Aimless(c, d, P)
  BY <1>6, AimlessSame DEF Homeward
<1>16. d.in_loop = (y.k \in Loops)
  <2>1. (y.k \in Loops) = FALSE
    BY <1>12
  <2>2. QED
    BY <1>6, <2>1
<1>17. QED
  BY <1>2, <1>3, <1>10, <1>13, <1>14, <1>15, <1>16, OpensHome

\* A switch.
LEMMA SwitchLeads ==
  ASSUME "bare" \notin Forms, Compiling(cg, open), Leading(cg, open, n), n \in Nat, Switch
  PROVE  Leading(cg', open', n')
<1>1. PICK y : y = Item("switch", <<>>)
  OBVIOUS
<1>2. PICK b : b = Begin(cg, open, "")
  OBVIOUS
<1>3. PICK e : e = [b EXCEPT !.in_switch = TRUE]
  OBVIOUS
<1>4. PICK f : f = PushLabelStack(e)
  OBVIOUS
<1>5. PICK s : s = Push(f, "switch_stack", [start |-> IpOffset(f), cases |-> {}, default |-> 0])
  OBVIOUS
<1>6. PICK q : q = Emit(s, "JSWITCH", 0)
  OBVIOUS
<1>7. cg' = InitBlock(q) /\ open' = Append(open, y) /\ n' = n + 1
  BY <1>1, <1>2, <1>3, <1>4, <1>5, <1>6 DEF Switch, Compile
<1>8. CodeOK(cg, {}) /\ OpenOK(open)
  BY DEF Compiling
<1>9. open[Len(open)].k \notin Loops
  <2>1. PICK kind : kind = "switch"
    OBVIOUS
  <2>2. CanStart(kind) /\ kind # "block"
    BY <2>1 DEF Switch, CanOpen
  <2>3. QED
    BY <1>8, <2>2, NotWaiting
<1>10. PICK w : w = Len(cg.label)
  OBVIOUS
<1>11. PICK g : g = <<"end", n + 1>>
  OBVIOUS
<1>12. PICK P, E : Homeward(cg, open, n, P, E) /\ P[w + 1] = g
  <2>1. PICK R, E : Homeward(cg, open, n, R, E)
    BY DEF Leading
  <2>2. g \in Purposes
    BY <1>11 DEF Purposes, Goals
  <2>3. \E Q : Homeward(cg, open, n, Q, E) /\ Q[w + 1] = g /\ Q[w + 2] = g
    BY <1>8, <1>10, <2>1, <2>2, NewPurposes
  <2>4. QED
    BY <2>3
<1>13. Homing(cg, P, E) /\ cg.in_loop = FALSE
  <2>1. cg.in_loop = Waits(open)
    BY <1>12 DEF Homeward
  <2>2. Waits(open) = FALSE
    BY <1>9 DEF Waits
  <2>3. QED
    BY <1>12, <2>1, <2>2 DEF Homeward
<1>14. Adds(cg, cg', P, E)
  BY <1>2, <1>3, <1>4, <1>5, <1>6, <1>7, <1>13, SwitchGoes
<1>15. CodeOK(b, {}) /\ Aside(cg, b)
  BY <1>2, <1>8, HistoryOK
<1>16. SwitchOpens(cg, cg')
  BY <1>3, <1>4, <1>5, <1>6, <1>7, <1>8, <1>15, SwitchOpensOK
<1>17. y.k = "switch" /\ y.id = n + 1 /\ y.done = FALSE /\ y.k # "handlers"
  BY <1>1 DEF Item
<1>18. Inside(open, open', y, n)
  BY <1>7, <1>8, <1>9, <1>17, BegunInside
<1>19. P[Len(cg.label) + 1] = <<"end", y.id>>
  BY <1>10, <1>11, <1>12, <1>17
<1>20. Homeward(cg', open', n + 1, P, E)
  BY <1>8, <1>12, <1>13, <1>14, <1>16, <1>17, <1>18, <1>19, SwitchOpensHome DEF Adds
<1>21. QED
  BY <1>7, <1>20 DEF Leading

\* The try block's label is pushed, and is no goal's.
TryDoes(c, d, P, E, l) ==
  /\ Adds(c, d, P, E) /\ d.goto = c.goto
  /\ d.break_stack = c.break_stack /\ d.continue_stack = c.continue_stack
  /\ d.block_stack = c.block_stack /\ d.label_stack = c.label_stack
  /\ d.in_loop = c.in_loop
  /\ Grows(c.mTryStack, d.mTryStack, l)
\* It is a new label.
LEMMA TryLabelHome ==
  ASSUME NEW b, CodeOK(b, {}), NEW P, NEW E, Homing(b, P, E), NEW e, e = NewLabel(b),
         NEW t, NEW d, d = Push(e, "mTryStack", t)
  PROVE  TryDoes(b, d, P, E, t)
<1>1. PICK l : l = Len(b.label) + 1
  OBVIOUS
<1>2. NewLabelPost(b, {}, e, l)
  BY <1>1, NewLabelOK
<1>3. Frame(b, e) /\ e.body = b.body /\ e.end = b.end
  BY <1>2 DEF NewLabelPost
<1>4. Homing(e, P, E)
  BY NewLabelGoes DEF Goes
<1>5. PICK f \in Stacks : f = "mTryStack"
  BY DEF Stacks
<1>6. d = Push(e, f, t)
  BY <1>5
<1>7. Goes(e, d, P, E) /\ d[f] = Append(e[f], t) /\ \A q \in Fields : q # f => d[q] = e[q]
  BY <1>4, <1>6, PushGoes
<1>8. d.mTryStack = Append(e.mTryStack, t)
  BY <1>5, <1>7
<1>9. /\ d.body = e.body /\ d.end = e.end /\ d.goto = e.goto
      /\ d.break_stack = e.break_stack /\ d.continue_stack = e.continue_stack
      /\ d.block_stack = e.block_stack /\ d.label_stack = e.label_stack
      /\ d.in_loop = e.in_loop
  BY <1>5, <1>7 DEF Fields
<1>10. Homing(d, P, E)
  BY <1>7 DEF Goes
<1>11. Grows(b.mTryStack, d.mTryStack, t)
  <2>1. IsSeq(b.mTryStack)
    BY DEF CodeOK, StackShape, IsSeq
  <2>2. d.mTryStack = Append(b.mTryStack, t)
    BY <1>3, <1>8 DEF Frame
  <2>3. QED
    BY <2>1, <2>2, AppendShape DEF Grows, Kept
<1>12. QED
  BY <1>3, <1>9, <1>10, <1>11 DEF TryDoes, Adds, Frame

\* A try block.
LEMMA TryLeads ==
  ASSUME "bare" \notin Forms, Compiling(cg, open), Leading(cg, open, n), n \in Nat, Try
  PROVE  Leading(cg', open', n')
<1>1. PICK b : b = InitBlock(cg)
  OBVIOUS
<1>2. PICK e : e = NewLabel(b)
  OBVIOUS
<1>3. PICK s : s = e.size + 1
  OBVIOUS
<1>4. PICK t : t = [label |-> Len(e.label), slot |-> s]
  OBVIOUS
<1>5. PICK d : d = Push(e, "mTryStack", t)
  OBVIOUS
<1>6. PICK y : y = Item("try", <<s>>)
  OBVIOUS
<1>7. PICK op \in {"TOSD", "MARK"} : op = "MARK"
  OBVIOUS
<1>8. cg' = Construct(Begin(d, open, ""), op) /\ open' = Append(open, y)
      /\ cg.size < MaxObjects /\ n' = n + 1
  BY <1>1, <1>2, <1>3, <1>4, <1>5, <1>6, <1>7 DEF Try, Compile
<1>9. CodeOK(cg, {}) /\ OpenOK(open) /\ cg.in_switch = FALSE
  BY DEF Compiling
<1>10. open[Len(open)].k \notin Loops
  <2>1. PICK kind : kind = "try"
    OBVIOUS
  <2>2. CanStart(kind) /\ kind # "block"
    BY <2>1 DEF Try, CanOpen
  <2>3. QED
    BY <1>9, <2>2, NotWaiting
<1>11. PICK w : w = Len(cg.label)
  OBVIOUS
<1>12. PICK P, E : Homeward(cg, open, n, P, E) /\ P[w + 1] = None
  <2>1. PICK R, E : Homeward(cg, open, n, R, E)
    BY DEF Leading
  <2>2. None \in Purposes
    BY DEF Purposes
  <2>3. \E Q : Homeward(cg, open, n, Q, E) /\ Q[w + 1] = None /\ Q[w + 2] = None
    BY <1>9, <1>11, <2>1, <2>2, NewPurposes
  <2>4. QED
    BY <2>3
<1>13. Homing(cg, P, E) /\ cg.in_loop = FALSE /\ Nowhere(cg, P)
  <2>1. cg.in_loop = Waits(open)
    BY <1>12 DEF Homeward
  <2>2. Waits(open) = FALSE
    BY <1>10 DEF Waits
  <2>3. QED
    BY <1>12, <2>1, <2>2 DEF Homeward
<1>14. InitDoes(cg, b, P, E)
  BY <1>1, <1>13, InitHome
<1>15. /\ InitPost(cg, {}, b) /\ Adds(cg, b, P, E) /\ b.goto = cg.goto
       /\ b.label = cg.label /\ b.label_stack = cg.label_stack
  BY <1>13, <1>14 DEF InitDoes
<1>16. CodeOK(b, {}) /\ b.mTryStack = cg.mTryStack /\ b.in_loop = FALSE /\ b.size = cg.size
       /\ Grows(cg.block_stack, b.block_stack, BlockFlags(cg))
  BY <1>15 DEF InitPost
<1>17. TryDoes(b, d, P, E, t)
  <2>1. Homing(b, P, E)
    BY <1>15 DEF Adds
  <2>2. QED
    BY <1>2, <1>5, <1>16, <2>1, TryLabelHome
<1>18. /\ Adds(b, d, P, E) /\ d.goto = b.goto
       /\ d.break_stack = b.break_stack /\ d.continue_stack = b.continue_stack
       /\ d.block_stack = b.block_stack /\ d.label_stack = b.label_stack
       /\ d.in_loop = b.in_loop
       /\ Grows(b.mTryStack, d.mTryStack, t)
  BY <1>17 DEF TryDoes
<1>19. P[t.label] = None
  <2>1. Homing(b, P, E)
    BY <1>15 DEF Adds
  <2>2. Len(e.label) = Len(b.label) + 1
    BY <1>2, <2>1, NewLabelGoes
  <2>3. QED
    BY <1>4, <1>11, <1>12, <1>15, <2>2
<1>20. CodeOK(d, {}) /\ d.size = cg.size
  <2>1. PICK h : h = Tops(cg)
    OBVIOUS
  <2>2. PICK F : F = BlockFlags(cg)
    OBVIOUS
  <2>3. InitReadyPost(cg, b, h, F)
    BY <1>1, <2>1, <2>2, InitReady
  <2>4. s \in Nat
    <3>1. PICK l : l = Len(b.label) + 1
      OBVIOUS
    <3>2. NewLabelPost(b, {}, e, l)
      BY <1>2, <1>16, <3>1, NewLabelOK
    <3>3. e.size = cg.size /\ cg.size \in Nat
      BY <1>9, <1>16, <3>2 DEF NewLabelPost, Frame, CodeOK, CodeShape
    <3>4. QED
      BY <1>3, <3>3
  <2>5. TryReadyPost(cg, d, h, F)
    BY <1>2, <1>4, <1>5, <1>9, <2>3, <2>4, TryReady
  <2>6. QED
    BY <2>5 DEF TryReadyPost, Ready
<1>21. ObjectDoes(d, cg', P, E)
  <2>1. Len(d.block_stack) >= 1
    <3>1. Len(cg.block_stack) \in Nat
      BY <1>9, StackFacts DEF CodeOK
    <3>2. QED
      BY <1>16, <1>18, <3>1 DEF Grows
  <2>2. Homing(d, P, E) /\ d.size < MaxObjects
    BY <1>8, <1>18, <1>20 DEF Adds
  <2>3. QED
    BY <1>8, <1>20, <2>1, <2>2, ObjectHome
<1>22. /\ SameBlocks(d, cg') /\ Adds(d, cg', P, E) /\ cg'.label_stack = d.label_stack
       /\ cg'.mTryStack = d.mTryStack /\ cg'.goto = d.goto /\ cg'.in_loop = d.in_loop
  BY <1>21 DEF ObjectDoes
<1>23. SameBlocks(b, cg')
  BY <1>18, <1>22 DEF SameBlocks
<1>24. Homing(cg', P, E) /\ cg'.body = cg.body /\ cg'.end = cg.end
  BY <1>15, <1>18, <1>22 DEF Adds
<1>25. /\ y.k = "try" /\ y.id = n + 1 /\ y.done = FALSE /\ y.k # "handlers"
       /\ y.k \notin Loops /\ LabelsOf(y.k) = 0
  BY <1>6 DEF Item, Loops, LabelsOf
<1>26. Inside(open, open', y, n)
  BY <1>8, <1>9, <1>10, <1>25, BegunInside
<1>27. Pushed(cg, cg', P, y)
  <2>1. Len(cg.label_stack) \in Nat
    BY <1>9, StackFacts DEF CodeOK
  <2>2. cg'.label_stack = cg.label_stack
    BY <1>15, <1>18, <1>22
  <2>3. QED
    BY <1>25, <2>1, <2>2 DEF Pushed, Kept
<1>28. Aimless(cg, cg', P)
  <2>1. Len(cg.mTryStack) \in Nat
    BY <1>9, StackFacts DEF CodeOK
  <2>2. Grows(cg.mTryStack, cg'.mTryStack, t)
    BY <1>16, <1>18, <1>22
  <2>3. ASSUME NEW j \in 1 .. Len(cg'.mTryStack)
        PROVE  P[cg'.mTryStack[j].label] = None
    <3>1. CASE j = Len(cg.mTryStack) + 1
      BY <1>19, <2>2, <3>1 DEF Grows
    <3>2. CASE j # Len(cg.mTryStack) + 1
      <4>1. j \in 1 .. Len(cg.mTryStack)
        BY <2>1, <2>2, <2>3, <3>2 DEF Grows
      <4>2. cg'.mTryStack[j] = cg.mTryStack[j]
        BY <2>2, <4>1 DEF Grows, Kept
      <4>3. QED
        BY <1>13, <4>1, <4>2 DEF Nowhere
    <3>3. QED
      BY <3>1, <3>2
  <2>4. cg'.goto.label = cg.goto.label
    BY <1>15, <1>18, <1>22
  <2>5. QED
    BY <2>3, <2>4 DEF Aimless
<1>29. cg'.in_loop = (y.k \in Loops) /\ y.k \in {"block", "try", "catch", "for"}
  <2>1. cg'.in_loop = FALSE
    BY <1>16, <1>18, <1>22
  <2>2. (y.k \in Loops) = FALSE
    BY <1>25
  <2>3. QED
    BY <1>25, <2>1, <2>2
<1>30. BodyLabel(cg, open, P)
  BY <1>13 DEF BodyLabel
<1>31. Homeward(cg', open', n + 1, P, E)
  BY <1>9, <1>12, <1>15, <1>23, <1>24, <1>26, <1>27, <1>28, <1>29, <1>30, BlockOpensHome
<1>32. QED
  BY <1>8, <1>31 DEF Leading

\* A handler.
LEMMA CatchLeads ==
  ASSUME Compiling(cg, open), Leading(cg, open, n), Catch
  PROVE  Leading(cg', open', n')
<1>1. PICK b : b = InitBlock(cg)
  OBVIOUS
<1>2. PICK y : y = Item("catch", <<>>)
  OBVIOUS
<1>3. PICK i : i = TOS(cg, "mTryStack").slot
  OBVIOUS
<1>4. PICK m : m = IpOffset(cg)
  OBVIOUS
<1>5. PICK d : d = [b EXCEPT !.catch[i] = @ \union {m}]
  OBVIOUS
<1>6. cg' = CheckContext(d) /\ open' = Append(open, y) /\ Top.k = "handlers" /\ n' = n + 1
  BY <1>1, <1>2, <1>3, <1>4, <1>5 DEF Catch, Compile, Ending
<1>7. /\ CodeOK(cg, {}) /\ OpenOK(open) /\ open[Len(open)].k = "handlers"
      /\ cg.in_switch = FALSE
  BY <1>6, TopIs DEF Compiling
<1>8. open[Len(open)].k \notin Loops
  BY <1>7 DEF Loops
<1>9. PICK P, E : Homeward(cg, open, n, P, E)
  BY DEF Leading
<1>10. Homing(cg, P, E) /\ cg.in_loop = FALSE /\ Nowhere(cg, P)
  <2>1. cg.in_loop = Waits(open)
    BY <1>9 DEF Homeward
  <2>2. Waits(open) = FALSE
    BY <1>8 DEF Waits
  <2>3. QED
    BY <1>9, <2>1, <2>2 DEF Homeward
<1>11. InitDoes(cg, b, P, E)
  BY <1>1, <1>10, InitHome
<1>12. /\ InitPost(cg, {}, b) /\ Adds(cg, b, P, E) /\ b.goto = cg.goto
       /\ b.label = cg.label /\ b.label_stack = cg.label_stack
  BY <1>10, <1>11 DEF InitDoes
<1>13. CodeOK(b, {}) /\ b.mTryStack = cg.mTryStack /\ b.in_loop = FALSE /\ b.code = cg.code
       /\ Grows(cg.block_stack, b.block_stack, BlockFlags(cg))
  BY <1>12 DEF InitPost
<1>14. CatchSetPost(b, d)
  <2>1. m \in 1 .. Len(b.code) + 1
    BY <1>4, <1>7, <1>13, ShapeFacts DEF CodeOK, IpOffset
  <2>2. PICK z : z = b.catch[i] \union {m}
    OBVIOUS
  <2>3. d = [b EXCEPT !.catch = [@ EXCEPT ![i] = z]]
    BY <1>5, <2>2
  <2>4. QED
    BY <1>13, <2>1, <2>2, <2>3, CatchSetOK
<1>15. /\ CodeOK(d, {}) /\ DOMAIN d = Fields /\ d.code = b.code /\ d.label = b.label
       /\ d.label_stack = b.label_stack /\ d.break_stack = b.break_stack
       /\ d.continue_stack = b.continue_stack /\ d.mTryStack = b.mTryStack
       /\ d.block_stack = b.block_stack /\ d.in_loop = b.in_loop /\ d.goto = b.goto
  BY <1>14 DEF CatchSetPost
<1>16. Goes(b, d, P, E)
  <2>1. Homing(b, P, E) /\ DOMAIN b = Fields
    BY <1>12 DEF Adds, Homing, Shaped
  <2>2. d.here = b.here /\ d.body = b.body /\ d.end = b.end
    BY <1>5, <2>1 DEF Fields
  <2>3. QED
    BY <1>15, <2>1, <2>2, AsideGoes
<1>17. Goes(d, cg', P, E)
  <2>1. Homing(d, P, E)
    BY <1>16 DEF Goes
  <2>2. QED
    BY <1>6, <2>1, ContextGoes
<1>18. Len(d.block_stack) >= 1
  <2>1. Len(cg.block_stack) \in Nat
    BY <1>7, StackFacts DEF CodeOK
  <2>2. QED
    BY <1>13, <1>15, <2>1 DEF Grows
<1>19. SameLabels(d, cg') /\ Contexted(d, cg')
  BY <1>6, <1>15, <1>18, CheckContextOK DEF CheckContextPost
<1>20. SameBlocks(d, cg')
  <2>1. IsSeq(d.block_stack)
    BY <1>15 DEF CodeOK, StackShape
  <2>2. QED
    BY <1>18, <1>19, <2>1, ContextBlocks
<1>21. SameBlocks(b, cg')
  BY <1>15, <1>20 DEF SameBlocks
<1>22. cg'.label_stack = cg.label_stack /\ cg'.mTryStack = cg.mTryStack
       /\ cg'.goto = cg.goto /\ cg'.in_loop = FALSE
  BY <1>12, <1>13, <1>15, <1>19 DEF SameLabels
<1>23. Homing(cg', P, E)
  BY <1>17 DEF Goes
<1>24. cg'.body = cg.body /\ cg'.end = cg.end
  BY <1>12, <1>16, <1>17 DEF Adds, Goes, SamePlace
<1>25. /\ y.k = "catch" /\ y.id = n + 1 /\ y.done = FALSE /\ y.k # "handlers"
       /\ y.k \notin Loops /\ LabelsOf(y.k) = 0
  BY <1>2 DEF Item, Loops, LabelsOf
<1>26. Inside(open, open', y, n)
  BY <1>6, <1>7, <1>8, <1>25, BegunInside
<1>27. Pushed(cg, cg', P, y)
  <2>1. Len(cg.label_stack) \in Nat
    BY <1>7, StackFacts DEF CodeOK
  <2>2. QED
    BY <1>22, <1>25, <2>1 DEF Pushed, Kept
<1>28. Aimless(cg, cg', P)
  BY <1>10, <1>22, AimlessSame
<1>29. cg'.in_loop = (y.k \in Loops) /\ y.k \in {"block", "try", "catch", "for"}
  <2>1. (y.k \in Loops) = FALSE
    BY <1>25
  <2>2. QED
    BY <1>22, <1>25, <2>1
<1>30. BodyLabel(cg, open, P)
  BY <1>10 DEF BodyLabel
<1>31. Homeward(cg', open', n + 1, P, E)
  BY <1>7, <1>9, <1>12, <1>21, <1>23, <1>24, <1>26, <1>27, <1>28, <1>29, <1>30, BlockOpensHome
<1>32. QED
  BY <1>6, <1>31 DEF Leading
-----------------------------------------------------------------------------
(* The statements that close                                               *)

\* The innermost statement ends, and the loop whose body it is is done with it.
LEMMA CloseOutside ==
  ASSUME NEW o, OpenOK(o), o[Len(o)].k # "function", NEW m, NEW E, Order(o, m, E),
         NEW p, p = Close(o)
  PROVE  Outside(o, p)
<1>1. ClosePost(o, p)
  BY CloseIs
<1>2. /\ Len(o) >= 2 /\ Len(p) = Len(o) - 1 /\ SameItems(o, p, Len(p))
      /\ \A i \in 1 .. Len(p) - 1 : p[i] = o[i]
      /\ p[Len(p)].done = IF o[Len(o) - 1].k \in Controlled THEN TRUE ELSE o[Len(o) - 1].done
  BY <1>1 DEF ClosePost
<1>3. Len(o) \in Nat
  BY SeqShape DEF OpenOK
<1>4. Len(p) \in 1 .. Len(p) /\ Len(p) \in 1 .. Len(o) /\ Len(p) = Len(o) - 1
  BY <1>2, <1>3
<1>5. p[Len(p)].k = o[Len(o) - 1].k /\ o[Len(o) - 1].done \in BOOLEAN
  BY <1>2, <1>4 DEF SameItems, Order
<1>6. p[Len(p)].done \in BOOLEAN
  BY <1>2, <1>5
<1>7. p[Len(p)].k \in Loops => p[Len(p)].done
  BY <1>2, <1>5 DEF Controlled
<1>8. QED
  BY <1>2, <1>6, <1>7 DEF Outside

\* The try blocks and the gotos are none of its business.
LEMMA NowhereSame ==
  ASSUME NEW c, NEW P, Nowhere(c, P), NEW d, d.goto.label = c.goto.label,
         d.mTryStack = c.mTryStack
  PROVE  Nowhere(d, P)
BY DEF Nowhere

\* An if or a loop without a scope of its own ends.
LEMMA PlainLeavesHome ==
  ASSUME NEW c, NEW o, Compiling(c, o), NEW m, NEW P, NEW E, Homeward(c, o, m, P, E),
         NEW k, k = o[Len(o)].k, k \in {"if", "else", "while", "do"}, NEW d, LabelCloses(c, d, k),
         NEW p, p = Close(o), NEW F, Passed(o, E, F), Homing(d, P, F), Tied(d, F),
         d.in_loop = FALSE
  PROVE  Homeward(d, p, m, P, F)
<1>1. /\ CodeOK(c, {}) /\ OpenOK(o) /\ Stacked(c) /\ IsSeq(o) /\ Len(o) >= 1 /\ Len(o) \in Nat
  BY StackedOK, SeqShape DEF OpenOK, Compiling
<1>2. /\ P \in [Nat -> Purposes] /\ Nowhere(c, P) /\ AtHome(c, o, P) /\ Order(o, m, E)
  BY DEF Homeward
<1>3. PICK x : TopHome(c, o, P, x)
  BY <1>1, <1>2, HomeTop
<1>4. PICK i : i = Len(o)
  OBVIOUS
<1>5. Base(c, o, P, x) /\ x \in Marks /\ Highs(c) = Above(x, o, i)
  BY <1>3, <1>4 DEF TopHome
<1>6. o[i].k = k /\ k # "switch" /\ k # "block" /\ ~Owns(k) /\ k # "function"
  BY <1>4 DEF Owns, Blocks
<1>7. BreaksOf(o, i) = 0 /\ ContinuesOf(o, i) = 0 /\ BlocksOf(o, i) = 0
  BY <1>6 DEF BreaksOf, ContinuesOf, BlocksOf, IsBody
<1>8. /\ Len(c.label_stack) = x.label + LabelsOf(k) /\ Len(c.break_stack) = x.brk + 0
      /\ Len(c.continue_stack) = x.cont + 0 /\ Len(c.block_stack) = x.blk + 0
  BY <1>5, <1>6, <1>7 DEF Highs, Above
<1>9. x.label \in Nat /\ x.brk \in Nat /\ x.cont \in Nat /\ x.blk \in Nat /\ LabelsOf(k) \in Nat
  BY <1>5 DEF Marks, LabelsOf
<1>10. Len(c.label_stack) - LabelsOf(k) = x.label
  BY <1>8, <1>9
<1>11. /\ Len(d.label_stack) = x.label /\ Kept(c.label_stack, d.label_stack, x.label)
       /\ d.break_stack = c.break_stack /\ d.continue_stack = c.continue_stack
       /\ d.block_stack = c.block_stack /\ d.mTryStack = c.mTryStack
       /\ d.goto = c.goto
  BY <1>10 DEF LabelCloses
<1>12. Alike(c, d, x)
  BY <1>11 DEF Alike, Kept
<1>13. Highs(d) = x
  <2>1. /\ Len(d.break_stack) = x.brk /\ Len(d.continue_stack) = x.cont
        /\ Len(d.block_stack) = x.blk
    BY <1>8, <1>9, <1>11
  <2>2. QED
    BY <1>5, <1>11, <2>1 DEF Highs, Marks
<1>14. Outside(o, p)
  BY <1>1, <1>2, <1>4, <1>6, CloseOutside
<1>15. Nowhere(d, P)
  BY <1>2, <1>11, NowhereSame
<1>16. LastJump(d, p, P)
  <2>1. p[Len(p)].k # "handlers"
    BY <1>1, <1>4, <1>6, CloseOpen
  <2>2. QED
    BY <2>1 DEF LastJump
<1>17. QED
  BY <1>1, <1>2, <1>5, <1>12, <1>13, <1>14, <1>15, <1>16, LeavesHome

\* It is the label of the innermost if that is on top of the label stack.
LEMMA IfTopHome ==
  ASSUME NEW c, NEW o, Compiling(c, o), NEW P, AtHome(c, o, P), o[Len(o)].k \in {"if", "else"},
         NEW e, e.label_stack = c.label_stack, NEW l, l = TOS(e, "label_stack")
  PROVE  l \in 1 .. Len(c.label) /\ P[l] = None
<1>1. Stacked(c) /\ IsSeq(c.label_stack) /\ OpenOK(o)
  BY StackedOK DEF Compiling, CodeOK, StackShape, IsSeq
<1>2. PICK x : TopHome(c, o, P, x)
  BY <1>1, HomeTop DEF OpenOK
<1>3. LabelsOf(o[Len(o)].k) = 1
  BY DEF LabelsOf, Loops
<1>4. Len(c.label_stack) = x.label + 1 /\ x.label \in Nat
  BY <1>2, <1>3 DEF TopHome, Highs, Above, Marks
<1>5. l = c.label_stack[x.label + 1]
  BY <1>1, <1>4, SeqShape DEF TOS
<1>6. x.label + 1 \in 1 .. Len(c.label_stack)
  BY <1>4
<1>7. l \in 1 .. Len(c.label)
  BY <1>1, <1>5, <1>6 DEF Stacked
<1>8. P[c.label_stack[x.label + 1]] = None
  BY <1>2 DEF TopHome, Spot
<1>9. QED
  BY <1>5, <1>7, <1>8

\* The end of an if.
LEMMA EndIfLeads ==
  ASSUME Compiling(cg, open), Leading(cg, open, n), EndIf
  PROVE  Leading(cg', open', n')
<1>1. PICK P, E : Homeward(cg, open, n, P, E)
  BY DEF Leading
<1>2. PICK k : k = open[Len(open)].k
  OBVIOUS
<1>3. k \in {"if", "else"} /\ k \notin Loops
  BY <1>2, TopIs DEF EndIf, Ending, Compiling, Loops
<1>4. LabelCloses(cg, cg', k) /\ cg'.in_loop = cg.in_loop
  BY <1>2, EndIfCloses
<1>5. cg'.in_loop = FALSE
  <2>1. cg.in_loop = Waits(open)
    BY <1>1 DEF Homeward
  <2>2. Waits(open) = FALSE
    BY <1>2, <1>3 DEF Waits
  <2>3. QED
    BY <1>4, <2>1, <2>2
<1>6. Homing(cg, P, E) /\ Tied(cg, E) /\ AtHome(cg, open, P)
  BY <1>1 DEF Homeward
<1>7. Goes(cg, cg', P, E)
  <2>1. PICK l : l = TOS(cg, "label_stack")
    OBVIOUS
  <2>2. PICK push \in BOOLEAN : push = FALSE
    OBVIOUS
  <2>3. cg' = DoLoopEnd(cg, push, push)
    BY <2>2 DEF EndIf, Reduce
  <2>4. l \in 1 .. Len(cg.label) /\ P[l] = None
    BY <1>2, <1>3, <1>6, <2>1, IfTopHome
  <2>5. QED
    BY <1>6, <2>1, <2>2, <2>3, <2>4, IfEndGoes
<1>8. Homing(cg', P, E) /\ Tied(cg', E)
  BY <1>6, <1>7 DEF Goes, SamePlace, Tied
<1>9. Passed(open, E, E)
  BY DEF Passed
<1>10. open' = Close(open) /\ n' = n /\ k \in {"if", "else", "while", "do"}
  BY <1>3 DEF EndIf, Reduce
<1>11. Homeward(cg', open', n, P, E)
  BY <1>1, <1>2, <1>4, <1>5, <1>8, <1>9, <1>10, PlainLeavesHome
<1>12. QED
  BY <1>10, <1>11 DEF Leading

\* A goal that is reached is noted in the history.
Behind(d, P, E, g, F) ==
  Homing(d, P, F) /\ Tied(d, F) /\ \E m : F = Reached(E, g, m)
SetAt(f, i, x) == [f EXCEPT ![i] = x]
\* So is the end of a loop or switch.
LEMMA TiedEnd ==
  ASSUME NEW c, NEW E, E \in [Goals -> Nat], Tied(c, E), NEW id, id \in 0 .. MaxStatements,
         NEW g, g = <<"end", id>>, NEW m, NEW d, d.body = c.body, d.end = SetAt(c.end, id, m),
         NEW F, F = Reached(E, g, m)
  PROVE  Tied(d, F)
<1>1. /\ DOMAIN c.end = 0 .. MaxStatements /\ DOMAIN c.body = 0 .. MaxStatements
      /\ \A i \in Nat : /\ E[<<"end", i>>] # 0 => c.end[i] = E[<<"end", i>>]
                        /\ E[<<"body", i>>] # 0 => c.body[i] = E[<<"body", i>>]
  BY DEF Tied
<1>2. DOMAIN d.end = 0 .. MaxStatements /\ DOMAIN d.body = 0 .. MaxStatements
  BY <1>1 DEF SetAt
<1>3. ASSUME NEW i \in Nat
      PROVE  F[<<"end", i>>] # 0 => d.end[i] = F[<<"end", i>>]
  <2>1. <<"end", i>> \in Goals
    BY DEF Goals
  <2>2. CASE i = id
    <3>1. F[<<"end", i>>] = m
      BY <2>1, <2>2 DEF Reached
    <3>2. d.end[i] = m
      BY <1>1, <2>2 DEF SetAt
    <3>3. QED
      BY <3>1, <3>2
  <2>3. CASE i # id
    <3>1. <<"end", i>> # g
      BY <2>3
    <3>2. F[<<"end", i>>] = E[<<"end", i>>]
      BY <2>1, <3>1 DEF Reached
    <3>3. d.end[i] = c.end[i]
      BY <2>3 DEF SetAt
    <3>4. QED
      BY <1>1, <3>2, <3>3
  <2>4. QED
    BY <2>2, <2>3
<1>4. ASSUME NEW i \in Nat
      PROVE  F[<<"body", i>>] # 0 => d.body[i] = F[<<"body", i>>]
  <2>1. <<"body", i>> \in Goals /\ <<"body", i>> # g
    BY DEF Goals
  <2>2. F[<<"body", i>>] = E[<<"body", i>>]
    BY <2>1 DEF Reached
  <2>3. QED
    BY <1>1, <2>2
<1>5. QED
  BY <1>2, <1>3, <1>4 DEF Tied

\* So is the end of the block that is a loop's statement.
LEMMA TiedBody ==
  ASSUME NEW c, NEW E, E \in [Goals -> Nat], Tied(c, E), NEW id, id \in 0 .. MaxStatements,
         NEW g, g = <<"body", id>>, NEW m, NEW d, d.end = c.end, d.body = SetAt(c.body, id, m),
         NEW F, F = Reached(E, g, m)
  PROVE  Tied(d, F)
<1>1. /\ DOMAIN c.end = 0 .. MaxStatements /\ DOMAIN c.body = 0 .. MaxStatements
      /\ \A i \in Nat : /\ E[<<"end", i>>] # 0 => c.end[i] = E[<<"end", i>>]
                        /\ E[<<"body", i>>] # 0 => c.body[i] = E[<<"body", i>>]
  BY DEF Tied
<1>2. DOMAIN d.end = 0 .. MaxStatements /\ DOMAIN d.body = 0 .. MaxStatements
  BY <1>1 DEF SetAt
<1>3. ASSUME NEW i \in Nat
      PROVE  F[<<"body", i>>] # 0 => d.body[i] = F[<<"body", i>>]
  <2>1. <<"body", i>> \in Goals
    BY DEF Goals
  <2>2. CASE i = id
    <3>1. F[<<"body", i>>] = m
      BY <2>1, <2>2 DEF Reached
    <3>2. d.body[i] = m
      BY <1>1, <2>2 DEF SetAt
    <3>3. QED
      BY <3>1, <3>2
  <2>3. CASE i # id
    <3>1. <<"body", i>> # g
      BY <2>3
    <3>2. F[<<"body", i>>] = E[<<"body", i>>]
      BY <2>1, <3>1 DEF Reached
    <3>3. d.body[i] = c.body[i]
      BY <2>3 DEF SetAt
    <3>4. QED
      BY <1>1, <3>2, <3>3
  <2>4. QED
    BY <2>2, <2>3
<1>4. ASSUME NEW i \in Nat
      PROVE  F[<<"end", i>>] # 0 => d.end[i] = F[<<"end", i>>]
  <2>1. <<"end", i>> \in Goals /\ <<"end", i>> # g
    BY DEF Goals
  <2>2. F[<<"end", i>>] = E[<<"end", i>>]
    BY <2>1 DEF Reached
  <2>3. QED
    BY <1>1, <2>2
<1>5. QED
  BY <1>2, <1>3, <1>4 DEF Tied

\* What is noted for a block that is no loop's statement does not matter.
LEMMA TiedAnyway ==
  ASSUME NEW c, NEW E, Tied(c, E), NEW id, E[<<"body", id>>] = 0, NEW m, NEW d,
         d.end = c.end, d.body = SetAt(c.body, id, m)
  PROVE  Tied(d, E)
<1>1. /\ DOMAIN c.end = 0 .. MaxStatements /\ DOMAIN c.body = 0 .. MaxStatements
      /\ \A i \in Nat : /\ E[<<"end", i>>] # 0 => c.end[i] = E[<<"end", i>>]
                        /\ E[<<"body", i>>] # 0 => c.body[i] = E[<<"body", i>>]
  BY DEF Tied
<1>2. DOMAIN d.end = 0 .. MaxStatements /\ DOMAIN d.body = 0 .. MaxStatements
  BY <1>1 DEF SetAt
<1>3. ASSUME NEW i \in Nat, E[<<"body", i>>] # 0
      PROVE  d.body[i] = E[<<"body", i>>]
  <2>1. i # id
    BY <1>3
  <2>2. d.body[i] = c.body[i]
    BY <2>1 DEF SetAt
  <2>3. QED
    BY <1>1, <1>3, <2>2
<1>4. QED
  BY <1>1, <1>2, <1>3 DEF Tied

\* A loop ends with its label put.
LEMMA LoopBehind ==
  ASSUME NEW c, NEW P, NEW E, Homing(c, P, E), Tied(c, E), NEW l, l = TOS(c, "label_stack"),
         l \in 1 .. Len(c.label), NEW id, id \in 0 .. MaxStatements, NEW g, g = <<"end", id>>,
         P[l] = g, E[g] = 0, NEW op, op = "JMP" => Plain(c), NEW d, d = LoopDone(c, op, id)
  PROVE  \E F : Behind(d, P, E, g, F)
<1>1. PICK e : e = LoopEnd(c, op)
  OBVIOUS
<1>2. PICK m : m = Len(e.code) + 1
  OBVIOUS
<1>3. PICK F : F = Reached(E, g, m)
  OBVIOUS
<1>4. MaxStatements \in Nat
  BY Bounds
<1>5. PICK z \in Goals : z = g
  BY <1>4 DEF Goals
<1>6. Goes(c, e, P, F)
  BY <1>1, <1>2, <1>3, <1>5, LoopEndGoes
<1>7. Homing(e, P, F) /\ DOMAIN e = Fields /\ e.body = c.body /\ e.end = c.end
  BY <1>6 DEF Goes, Homing, Shaped, SamePlace
<1>8. PICK a : a = [e EXCEPT !.in_loop = FALSE]
  OBVIOUS
<1>9. d = Ends(a, id)
  BY <1>1, <1>8 DEF LoopDone
<1>10. /\ DOMAIN a = Fields /\ a.code = e.code /\ a.label = e.label /\ a.here = e.here
       /\ a.body = e.body /\ a.end = e.end
  BY <1>7, <1>8 DEF Fields
<1>11. /\ DOMAIN d = Fields /\ d.code = a.code /\ d.label = a.label /\ d.here = a.here
       /\ d.body = a.body /\ d.end = SetAt(a.end, id, m)
  BY <1>2, <1>9, <1>10 DEF Ends, SetAt, Fields, IpOffset
<1>12. Homing(d, P, F)
  <2>1. DOMAIN d.here = HereFields
    BY <1>7, <1>10, <1>11 DEF Homing, Shaped
  <2>2. d.code = e.code /\ d.label = e.label
    BY <1>10, <1>11
  <2>3. QED
    BY <1>7, <1>11, <2>1, <2>2, HomingSame
<1>13. Tied(d, F)
  <2>1. d.body = c.body /\ d.end = SetAt(c.end, id, m)
    BY <1>7, <1>10, <1>11
  <2>2. E \in [Goals -> Nat]
    BY DEF Homing
  <2>3. QED
    BY <1>3, <2>1, <2>2, TiedEnd
<1>14. QED
  BY <1>3, <1>12, <1>13 DEF Behind

\* It is the innermost loop's label that is on top of the label stack.
LEMMA LoopTopHome ==
  ASSUME NEW c, NEW o, Compiling(c, o), NEW P, AtHome(c, o, P), o[Len(o)].k \in Loops,
         NEW e, e.label_stack = c.label_stack, NEW l, l = TOS(e, "label_stack")
  PROVE  l \in 1 .. Len(c.label) /\ P[l] = <<"end", o[Len(o)].id>>
<1>1. Stacked(c) /\ IsSeq(c.label_stack) /\ OpenOK(o)
  BY StackedOK DEF Compiling, CodeOK, StackShape, IsSeq
<1>2. PICK x : TopHome(c, o, P, x)
  BY <1>1, HomeTop DEF OpenOK
<1>3. LabelsOf(o[Len(o)].k) = 2
  BY DEF LabelsOf
<1>4. Len(c.label_stack) = x.label + 2 /\ x.label \in Nat
  BY <1>2, <1>3 DEF TopHome, Highs, Above, Marks
<1>5. l = c.label_stack[x.label + 2]
  BY <1>1, <1>4, SeqShape DEF TOS
<1>6. x.label + 2 \in 1 .. Len(c.label_stack)
  BY <1>4
<1>7. l \in 1 .. Len(c.label)
  BY <1>1, <1>5, <1>6 DEF Stacked
<1>8. P[c.label_stack[x.label + 2]] = <<"end", o[Len(o)].id>>
  BY <1>2 DEF TopHome, Spot
<1>9. QED
  BY <1>5, <1>7, <1>8

\* The goal that is behind is the end of the innermost statement.
LEMMA BehindPassed ==
  ASSUME NEW o, o[Len(o)].k # "handlers", NEW d, NEW P, NEW E, E \in [Goals -> Nat],
         NEW g, g = <<"end", o[Len(o)].id>>, NEW F, Behind(d, P, E, g, F)
  PROVE  Passed(o, E, F)
<1>1. PICK m : F = Reached(E, g, m)
  BY DEF Behind
<1>2. ASSUME NEW z \in Goals, z # g
      PROVE  F[z] = E[z]
  BY <1>1, <1>2 DEF Reached
<1>3. QED
  BY <1>2 DEF Passed

\* The number of an open statement, whose end is still to come.
LEMMA EndAhead ==
  ASSUME NEW o, OpenOK(o), NEW m, m \in 0 .. MaxStatements, NEW E, Order(o, m, E),
         o[Len(o)].k # "handlers"
  PROVE  o[Len(o)].id \in 0 .. MaxStatements /\ E[<<"end", o[Len(o)].id>>] = 0
<1>1. Len(o) \in 1 .. Len(o)
  BY SeqShape DEF OpenOK
<1>2. MaxStatements \in Nat
  BY Bounds
<1>3. o[Len(o)].id \in 0 .. m /\ E[<<"end", o[Len(o)].id>>] = 0
  BY <1>1 DEF Order
<1>4. QED
  BY <1>2, <1>3

\* A while or do ends.
LEMMA LoopLeadsOut ==
  ASSUME NEW c, NEW o, Compiling(c, o), NEW m, m \in 0 .. MaxStatements, NEW P, NEW E,
         Homeward(c, o, m, P, E), NEW k, k = o[Len(o)].k, k \in {"while", "do"},
         NEW e, Aside(c, e), CodeOK(e, {}), Homing(e, P, E), e.body = c.body, e.end = c.end,
         NEW op \in JumpOps, op = "JMP" => Plain(e), NEW i, i = o[Len(o)].id,
         NEW d, d = LoopDone(e, op, i), NEW p, p = Close(o)
  PROVE  Leading(d, p, m)
<1>1. k \in Loops /\ k # "handlers" /\ k \in {"if", "else", "while", "do"}
  BY DEF Loops
<1>2. OpenOK(o) /\ AtHome(c, o, P) /\ Order(o, m, E) /\ Tied(c, E) /\ E \in [Goals -> Nat]
  BY DEF Compiling, Homeward, Homing
<1>3. i \in 0 .. MaxStatements /\ E[<<"end", i>>] = 0
  BY <1>1, <1>2, EndAhead
<1>4. PICK l : l = TOS(e, "label_stack")
  OBVIOUS
<1>5. PICK g : g = <<"end", i>>
  OBVIOUS
<1>6. l \in 1 .. Len(e.label) /\ P[l] = g
  <2>1. e.label_stack = c.label_stack /\ e.label = c.label
    BY DEF Aside, Frame
  <2>2. l \in 1 .. Len(c.label) /\ P[l] = <<"end", o[Len(o)].id>>
    BY <1>1, <1>2, <1>4, <2>1, LoopTopHome
  <2>3. QED
    BY <1>5, <2>1, <2>2
<1>7. Tied(e, E)
  BY <1>2 DEF Tied
<1>8. PICK F : Behind(d, P, E, g, F)
  BY <1>3, <1>4, <1>5, <1>6, <1>7, LoopBehind
<1>9. Passed(o, E, F)
  BY <1>1, <1>2, <1>5, <1>8, BehindPassed
<1>10. LoopClosed(c, d, k)
  BY <1>1, LoopShrinks
<1>11. Homeward(d, p, m, P, F)
  BY <1>1, <1>8, <1>9, <1>10, PlainLeavesHome DEF Behind, LoopClosed
<1>12. QED
  BY <1>11 DEF Leading

\* The end of a while.
LEMMA EndWhileLeads ==
  ASSUME Compiling(cg, open), Leading(cg, open, n), n \in 0 .. MaxStatements, EndWhile
  PROVE  Leading(cg', open', n')
<1>1. PICK P, E : Homeward(cg, open, n, P, E)
  BY DEF Leading
<1>2. PICK e : e = Between(cg, open)
  OBVIOUS
<1>3. PICK k : k = open[Len(open)].k
  OBVIOUS
<1>4. CodeOK(cg, {}) /\ OpenOK(open) /\ Homing(cg, P, E)
  BY <1>1 DEF Compiling, Homeward
<1>5. k = "while" /\ Top = open[Len(open)]
  BY <1>3, <1>4, TopIs DEF EndWhile, Ending
<1>6. CodeOK(e, {}) /\ Aside(cg, e)
  BY <1>2, <1>4, HistoryOK
<1>7. PICK i : i = open[Len(open)].id
  OBVIOUS
<1>8. PICK op \in JumpOps : op = "JMP"
  BY DEF JumpOps
<1>9. cg' = LoopDone(e, op, i) /\ open' = Close(open) /\ n' = n
  BY <1>2, <1>5, <1>7, <1>8, LoopEnds DEF EndWhile, Reduce, LoopDone
<1>10. PICK stmt : stmt = ""
  OBVIOUS
<1>11. Homing(e, P, E) /\ BeginsAt(cg, e, open, stmt)
  BY <1>2, <1>4, <1>10, BeginGoes
<1>12. BegunSame(cg, e) /\ Plain(e)
  BY <1>10, <1>11, BeginSame DEF BeginsAt, Plain
<1>13. Leading(cg', open', n)
  BY <1>1, <1>3, <1>5, <1>6, <1>7, <1>9, <1>11, <1>12, LoopLeadsOut DEF BegunSame
<1>14. QED
  BY <1>9, <1>13

\* The end of a do.
LEMMA EndDoLeads ==
  ASSUME Compiling(cg, open), Leading(cg, open, n), n \in 0 .. MaxStatements, EndDo
  PROVE  Leading(cg', open', n')
<1>1. PICK P, E : Homeward(cg, open, n, P, E)
  BY DEF Leading
<1>2. PICK stmt : stmt = ""
  OBVIOUS
<1>3. PICK e : e = Begin(cg, open, stmt)
  OBVIOUS
<1>4. PICK k : k = open[Len(open)].k
  OBVIOUS
<1>5. CodeOK(cg, {}) /\ OpenOK(open) /\ Homing(cg, P, E)
  BY <1>1 DEF Compiling, Homeward
<1>6. k = "do" /\ Top = open[Len(open)]
  BY <1>4, <1>5, TopIs DEF EndDo, Ending
<1>7. CodeOK(e, {}) /\ Aside(cg, e)
  BY <1>3, <1>5, HistoryOK
<1>8. PICK i : i = open[Len(open)].id
  OBVIOUS
<1>9. PICK op \in JumpOps : op = "JNZ"
  BY DEF JumpOps
<1>10. cg' = LoopDone(e, op, i) /\ open' = Close(open) /\ n' = n
  BY <1>2, <1>3, <1>6, <1>8, <1>9, LoopEnds DEF EndDo, Reduce, LoopDone
<1>11. Homing(e, P, E) /\ BeginsAt(cg, e, open, stmt)
  BY <1>3, <1>5, BeginGoes
<1>12. BegunSame(cg, e) /\ Plain(e)
  BY <1>2, <1>11, BeginSame DEF BeginsAt, Plain
<1>13. Leading(cg', open', n)
  BY <1>1, <1>4, <1>6, <1>7, <1>8, <1>10, <1>11, <1>12, LoopLeadsOut DEF BegunSame
<1>14. QED
  BY <1>10, <1>13

\* An else.
LEMMA ElseLeads ==
  ASSUME Compiling(cg, open), Leading(cg, open, n), Else
  PROVE  Leading(cg', open', n')
<1>1. PICK c : c = Between(cg, open)
  OBVIOUS
<1>2. PICK y : y = Item("else", <<>>)
  OBVIOUS
<1>3. PICK push \in BOOLEAN : push = TRUE
  OBVIOUS
<1>4. PICK stmt : stmt = ""
  OBVIOUS
<1>5. /\ cg' = DoLoopEnd(c, push, push) /\ open' = Append(Front(open), y) /\ n' = n + 1
      /\ Top.k = "if"
  BY <1>1, <1>2, <1>3 DEF Else, Compile, Ending
<1>6. CodeOK(cg, {}) /\ OpenOK(open) /\ open[Len(open)].k = "if" /\ Stacked(cg)
  BY <1>5, TopIs, StackedOK DEF Compiling
<1>7. PICK w : w = Len(cg.label)
  OBVIOUS
<1>8. PICK P, E : Homeward(cg, open, n, P, E) /\ P[w + 1] = None
  <2>1. PICK R, E : Homeward(cg, open, n, R, E)
    BY DEF Leading
  <2>2. None \in Purposes
    BY DEF Purposes
  <2>3. \E Q : Homeward(cg, open, n, Q, E) /\ Q[w + 1] = None /\ Q[w + 2] = None
    BY <1>6, <1>7, <2>1, <2>2, NewPurposes
  <2>4. QED
    BY <2>3
<1>9. Homing(cg, P, E) /\ Nowhere(cg, P) /\ AtHome(cg, open, P) /\ cg.in_loop = FALSE
  <2>1. cg.in_loop = Waits(open)
    BY <1>8 DEF Homeward
  <2>2. Waits(open) = FALSE
    BY <1>6 DEF Waits, Loops
  <2>3. QED
    BY <1>8, <2>1, <2>2 DEF Homeward
<1>10. Homing(c, P, E) /\ BeginsAt(cg, c, open, stmt)
  BY <1>1, <1>4, <1>9, BeginGoes
<1>11. BegunSame(cg, c) /\ Plain(c)
  BY <1>4, <1>10, BeginSame DEF BeginsAt, Plain
<1>12. Homing(cg', P, E) /\ cg'.body = cg.body /\ cg'.end = cg.end
  <2>1. PICK l : l = TOS(c, "label_stack")
    OBVIOUS
  <2>2. c.label_stack = cg.label_stack /\ c.label = cg.label
    BY <1>11 DEF BegunSame
  <2>3. l \in 1 .. Len(cg.label) /\ P[l] = None
    BY <1>6, <1>9, <2>1, <2>2, IfTopHome
  <2>4. l \in 1 .. Len(c.label)
    BY <2>2, <2>3
  <2>5. Goes(c, cg', P, E)
    BY <1>3, <1>5, <1>10, <1>11, <2>1, <2>3, <2>4, IfEndGoes
  <2>6. QED
    BY <1>11, <2>5 DEF Goes, SamePlace, BegunSame
<1>13. PICK x : TopHome(cg, open, P, x)
  BY <1>6, <1>9, HomeTop DEF OpenOK
<1>14. PICK i : i = Len(open)
  OBVIOUS
<1>15. Base(cg, open, P, x) /\ x \in Marks /\ Highs(cg) = Above(x, open, i)
  BY <1>13, <1>14 DEF TopHome
<1>16. ReplacePost(open, y, open')
  <2>1. DOMAIN y = ItemFields /\ y.k = "else"
    BY <1>2 DEF Item, ItemFields
  <2>2. QED
    BY <1>5, <1>6, <2>1, ReplacedOpen
<1>17. /\ Len(open') = i /\ open'[i] = y /\ i \in Nat /\ i >= 2
       /\ y.k = "else" /\ y.id = n + 1 /\ y.done = FALSE /\ y.k \notin Loops
  BY <1>2, <1>14, <1>16 DEF ReplacePost, Item, Loops
<1>18. \A j \in 1 .. i - 1 : open'[j] = open[j]
  <2>1. IsSeq(open) /\ Len(open) # 0
    BY <1>6 DEF OpenOK
  <2>2. /\ IsSeq(Front(open)) /\ Len(Front(open)) = Len(open) - 1
        /\ \A j \in 1 .. Len(open) - 1 : Front(open)[j] = open[j]
    BY <2>1, FrontShape
  <2>3. \A j \in 1 .. Len(Front(open)) : open'[j] = Front(open)[j]
    BY <1>5, <2>2, AppendShape
  <2>4. QED
    BY <1>14, <2>2, <2>3
<1>19. LabelsOf("if") = 1 /\ LabelsOf("else") = 1
  BY DEF LabelsOf, Loops
<1>20. /\ BreaksOf(open, i) = 0 /\ ContinuesOf(open, i) = 0 /\ BlocksOf(open, i) = 0
       /\ BreaksOf(open', i) = 0 /\ ContinuesOf(open', i) = 0 /\ BlocksOf(open', i) = 0
  BY <1>6, <1>14, <1>17 DEF BreaksOf, ContinuesOf, BlocksOf, IsBody, Owns, Blocks
<1>21. Above(x, open', i) = Above(x, open, i)
  BY <1>6, <1>14, <1>17, <1>19, <1>20 DEF Above
<1>22. /\ Works(c, {}, cg') /\ Len(cg'.label_stack) = Len(c.label_stack)
       /\ Kept(c.label_stack, cg'.label_stack, Len(c.label_stack) - 1)
       /\ cg'.label_stack[Len(c.label_stack)] = Len(c.label) + 1
  <2>1. CodeOK(c, {}) /\ Aside(cg, c)
    BY <1>1, <1>6, HistoryOK
  <2>2. Len(c.label_stack) = x.label + 1 /\ x.label \in Nat
    BY <1>6, <1>11, <1>14, <1>15, <1>19 DEF BegunSame, Highs, Above, Marks
  <2>3. Len(c.label_stack) >= 1
    BY <2>2
  <2>4. cg' = DoLoopEnd(c, TRUE, TRUE)
    BY <1>3, <1>5
  <2>5. QED
    BY <2>1, <2>3, <2>4, ElseOK
<1>23. /\ cg'.break_stack = cg.break_stack /\ cg'.continue_stack = cg.continue_stack
       /\ cg'.block_stack = cg.block_stack /\ cg'.mTryStack = cg.mTryStack
       /\ cg'.goto = cg.goto /\ cg'.in_loop = FALSE
       /\ Len(cg'.label_stack) = Len(cg.label_stack)
       /\ Kept(cg.label_stack, cg'.label_stack, Len(cg.label_stack) - 1)
       /\ cg'.label_stack[Len(cg.label_stack)] = w + 1
  BY <1>7, <1>9, <1>11, <1>22 DEF BegunSame, Works, LabelFrame
<1>24. /\ Len(cg.label_stack) = x.label + 1 /\ Len(cg.break_stack) = x.brk
       /\ Len(cg.continue_stack) = x.cont /\ Len(cg.block_stack) = x.blk
       /\ x.label \in Nat
  <2>1. /\ Len(cg.label_stack) = x.label + 1 /\ Len(cg.break_stack) = x.brk + 0
        /\ Len(cg.continue_stack) = x.cont + 0 /\ Len(cg.block_stack) = x.blk + 0
    BY <1>6, <1>14, <1>15, <1>19, <1>20 DEF Highs, Above
  <2>2. x.label \in Nat /\ x.brk \in Nat /\ x.cont \in Nat /\ x.blk \in Nat
    BY <1>15 DEF Marks
  <2>3. QED
    BY <2>1, <2>2
<1>25. Alike(cg, cg', x)
  <2>1. Len(cg.label_stack) - 1 = x.label
    BY <1>24
  <2>2. QED
    BY <1>23, <2>1 DEF Alike, Kept
<1>26. Highs(cg') = Above(x, open', i)
  BY <1>15, <1>21, <1>23 DEF Highs
<1>27. Spot(cg', open', x, i, P)
  <2>1. P[cg'.label_stack[x.label + 1]] = None
    BY <1>8, <1>23, <1>24
  <2>2. open'[i].k = "else" /\ ~Owns("else") /\ "else" \notin Loops /\ ~IsBody(open', i)
    BY <1>17 DEF Owns, Blocks, Loops, IsBody
  <2>3. QED
    BY <2>1, <2>2 DEF Spot
<1>28. Instead(open, open', y, n, n + 1)
  BY <1>6, <1>14, <1>17, <1>18 DEF Instead
<1>29. Aimless(cg, cg', P)
  BY <1>9, <1>23, AimlessSame
<1>30. LastJump(cg', open', P)
  BY <1>17 DEF LastJump
<1>31. Homeward(cg', open', n + 1, P, E)
  <2>1. PICK q : q = n + 1
    OBVIOUS
  <2>2. Instead(open, open', y, n, q)
    BY <1>28, <2>1
  <2>3. Homeward(cg', open', q, P, E)
    BY <1>6, <1>8, <1>12, <1>14, <1>15, <1>23, <1>25, <1>26, <1>27, <1>29, <1>30, <2>2, ReplacesHome
  <2>4. QED
    BY <2>1, <2>3
<1>32. QED
  BY <1>5, <1>31 DEF Leading

\* The labels that a for has pushed, above the scope that it owns, are gone.
Rid(c, o, h) ==
  /\ h.break_stack = c.break_stack /\ h.continue_stack = c.continue_stack
  /\ h.switch_stack = c.switch_stack /\ h.block_stack = c.block_stack
  /\ h.context_stack = c.context_stack
  /\ Len(h.label_stack) = Len(c.label_stack) - LabelsOf(o[Len(o)].k)
  /\ Kept(c.label_stack, h.label_stack, Len(c.label_stack) - LabelsOf(o[Len(o)].k))
Dropped(h, d, B) ==
  B = h.block_stack[Len(h.block_stack)] /\ Closable(h, B) /\ FinalPost(h, {}, d, B)
\* The block that is the innermost statement's own ends.
LEMMA RidDrops ==
  ASSUME NEW c, NEW o, Compiling(c, o), Owns(o[Len(o)].k), NEW h, CodeOK(h, {}), Rid(c, o, h),
         NEW d, d = FinalizeBlock(h)
  PROVE  \E B : Dropped(h, d, B)
<1>1. OpenOK(o) /\ Standing(c, o)
  BY DEF Compiling
<1>2. PICK x : TopPost(c, o, x)
  BY <1>1, TopFacts
<1>3. PICK k : k = o[Len(o)].k
  OBVIOUS
<1>4. PICK F : F = FlagsAt(c, x)
  OBVIOUS
<1>5. x \in Heights
  BY <1>2 DEF TopPost
<1>6. /\ Len(c.label_stack) = x.label + LabelsOf(k)
      /\ Len(c.break_stack) = x.brk + Bit("BREAKABLE" \in F)
      /\ Len(c.continue_stack) = x.cont + Bit("CONTINUEABLE" \in F)
      /\ Len(c.switch_stack) = x.sw + Bit("IN_SWITCH" \in F)
      /\ Len(c.context_stack) = x.ctx + Bit("CONTEXT_PUSHED" \in F)
      /\ Len(c.block_stack) = x.blk + 1
  BY <1>2, <1>3, <1>4, OwnSums
<1>7. /\ "IN_SWITCH" \in F => "BREAKABLE" \in F
      /\ "BREAKABLE" \in F /\ "IN_SWITCH" \notin F =>
           x.label >= 1 /\ c.break_stack[x.brk + 1] = c.label_stack[x.label]
  BY <1>2, <1>4, OwnFlags
<1>8. x.label \in Nat /\ Len(c.label_stack) - LabelsOf(k) = x.label
  <2>1. x.label \in Nat /\ LabelsOf(k) \in Nat
    BY <1>5 DEF Heights, LabelsOf
  <2>2. QED
    BY <1>6, <2>1
<1>9. Len(h.label_stack) = x.label /\ Kept(c.label_stack, h.label_stack, x.label)
  BY <1>3, <1>8 DEF Rid
<1>10. x.label >= 1 => h.label_stack[x.label] = c.label_stack[x.label]
  <2>1. x.label >= 1 => x.label \in 1 .. x.label
    BY <1>8
  <2>2. QED
    BY <1>9, <2>1 DEF Kept
<1>11. BlockSums(h, x, F)
  BY <1>4, <1>6, <1>7, <1>9, <1>10 DEF BlockSums, FlagsAt, Rid
<1>12. Closable(h, F) /\ ("CONTEXT_PUSHED" \in F => Len(h.context_stack) >= 1)
  BY <1>5, <1>11, SumsClose
<1>13. FinalPost(h, {}, d, F)
  BY <1>12, FinalizeBlockOK
<1>14. F = h.block_stack[Len(h.block_stack)]
  BY <1>12 DEF Closable
<1>15. QED
  BY <1>12, <1>13, <1>14 DEF Dropped

\* What the flags of a block say of the statement that owns it.
Flagged(o, i, B) ==
  /\ "BREAKABLE" \in B <=> o[i].k = "switch" \/ IsBody(o, i)
  /\ "CONTINUEABLE" \in B <=> IsBody(o, i)
  /\ "IN_SWITCH" \in B <=> o[i].k = "switch"
\* They are those of the innermost statement.
LEMMA FlagsHome ==
  ASSUME NEW c, NEW o, NEW P, NEW x, TopHome(c, o, P, x), Owns(o[Len(o)].k),
         NEW h, Rid(c, o, h), NEW B, B = h.block_stack[Len(h.block_stack)]
  PROVE  Flagged(o, Len(o), B)
<1>1. PICK i : i = Len(o)
  OBVIOUS
<1>2. x \in Marks /\ Highs(c) = Above(x, o, i) /\ Spot(c, o, x, i, P)
  BY <1>1 DEF TopHome
<1>3. Len(c.block_stack) = x.blk + 1
  BY <1>1, <1>2 DEF Highs, Above, BlocksOf
<1>4. B = c.block_stack[x.blk + 1]
  BY <1>3 DEF Rid
<1>5. QED
  BY <1>1, <1>2, <1>4 DEF Spot, Flagged

Gone(c, d, x) == Alike(c, d, x) /\ Highs(d) = x
\* What the statement had on the stacks is gone with its block.
LEMMA BlockGone ==
  ASSUME NEW c, NEW o, NEW P, NEW x, TopHome(c, o, P, x), Owns(o[Len(o)].k),
         NEW h, Rid(c, o, h), NEW d, NEW B, Dropped(h, d, B)
  PROVE  Gone(c, d, x)
<1>1. PICK i : i = Len(o)
  OBVIOUS
<1>2. PICK k : k = o[i].k
  OBVIOUS
<1>3. x \in Marks /\ Highs(c) = Above(x, o, i)
  BY <1>1 DEF TopHome
<1>4. Flagged(o, i, B)
  BY <1>1, FlagsHome DEF Dropped
<1>5. /\ Len(c.label_stack) = x.label + LabelsOf(k)
      /\ Len(c.break_stack) = x.brk + BreaksOf(o, i)
      /\ Len(c.continue_stack) = x.cont + ContinuesOf(o, i)
      /\ Len(c.block_stack) = x.blk + 1
  BY <1>1, <1>2, <1>3 DEF Highs, Above, BlocksOf
<1>6. x.label \in Nat /\ x.brk \in Nat /\ x.cont \in Nat /\ x.blk \in Nat
  BY <1>3 DEF Marks
<1>7. BreaksOf(o, i) = Bit("BREAKABLE" \in B) /\ ContinuesOf(o, i) = Bit("CONTINUEABLE" \in B)
  BY <1>4 DEF Flagged, BreaksOf, ContinuesOf, Bit
<1>8. Len(d.break_stack) = x.brk /\ Kept(c.break_stack, d.break_stack, x.brk)
  <2>1. Drops("BREAKABLE" \in B, c.break_stack, d.break_stack)
    BY DEF Dropped, FinalPost, Rid
  <2>2. Len(c.break_stack) = x.brk + Bit("BREAKABLE" \in B)
    BY <1>5, <1>7
  <2>3. QED
    BY <1>6, <2>1, <2>2, DropsTo
<1>9. Len(d.continue_stack) = x.cont /\ Kept(c.continue_stack, d.continue_stack, x.cont)
  <2>1. Drops("CONTINUEABLE" \in B, c.continue_stack, d.continue_stack)
    BY DEF Dropped, FinalPost, Rid
  <2>2. Len(c.continue_stack) = x.cont + Bit("CONTINUEABLE" \in B)
    BY <1>5, <1>7
  <2>3. QED
    BY <1>6, <2>1, <2>2, DropsTo
<1>10. Len(d.block_stack) = x.blk /\ Kept(c.block_stack, d.block_stack, x.blk)
  <2>1. Len(c.block_stack) - 1 = x.blk
    BY <1>5, <1>6
  <2>2. Shrinks(c.block_stack, d.block_stack)
    BY DEF Dropped, FinalPost, Rid
  <2>3. QED
    BY <2>1, <2>2 DEF Shrinks
<1>11. Len(d.label_stack) = x.label /\ Kept(c.label_stack, d.label_stack, x.label)
  <2>1. LabelsOf(k) \in Nat
    BY DEF LabelsOf
  <2>2. Len(c.label_stack) - LabelsOf(k) = x.label
    BY <1>5, <1>6, <2>1
  <2>3. d.label_stack = h.label_stack
    BY DEF Dropped, FinalPost
  <2>4. QED
    BY <1>1, <1>2, <2>2, <2>3 DEF Rid
<1>12. Alike(c, d, x)
  BY <1>8, <1>9, <1>10, <1>11 DEF Alike, Kept
<1>13. Highs(d) = x
  BY <1>3, <1>8, <1>9, <1>10, <1>11 DEF Highs, Marks
<1>14. QED
  BY <1>12, <1>13 DEF Gone

\* A block or for ends, and the goals with it that it has passed.
LEMMA BlockLeavesHome ==
  ASSUME NEW c, NEW o, Compiling(c, o), NEW m, NEW P, NEW E, Homeward(c, o, m, P, E),
         o[Len(o)].k \in {"block", "switch", "for"}, NEW h, CodeOK(h, {}), Rid(c, o, h),
         h.mTryStack = c.mTryStack, h.goto.label = c.goto.label, h.in_loop = FALSE,
         NEW d, d = FinalizeBlock(h), NEW p, p = Close(o),
         NEW F, Passed(o, E, F), Homing(d, P, F), Tied(d, F)
  PROVE  Homeward(d, p, m, P, F)
<1>1. /\ CodeOK(c, {}) /\ OpenOK(o) /\ IsSeq(o) /\ Len(o) >= 1
  BY DEF OpenOK, Compiling
<1>2. /\ P \in [Nat -> Purposes] /\ Nowhere(c, P) /\ AtHome(c, o, P) /\ Order(o, m, E)
  BY DEF Homeward
<1>3. Owns(o[Len(o)].k) /\ o[Len(o)].k # "function" /\ o[Len(o)].k # "catch"
  BY DEF Owns, Blocks
<1>4. PICK x : TopHome(c, o, P, x)
  BY <1>1, <1>2, HomeTop
<1>5. PICK B : Dropped(h, d, B)
  BY <1>3, RidDrops
<1>6. Gone(c, d, x)
  BY <1>3, <1>4, <1>5, BlockGone
<1>7. /\ d.mTryStack = c.mTryStack /\ d.goto.label = c.goto.label /\ d.in_loop = FALSE
  BY <1>5 DEF Dropped, FinalPost, GotoSame
<1>8. Outside(o, p)
  BY <1>1, <1>2, <1>3, CloseOutside
<1>9. Nowhere(d, P)
  BY <1>2, <1>7, NowhereSame
<1>10. LastJump(d, p, P)
  <2>1. p[Len(p)].k # "handlers"
    BY <1>1, <1>3, CloseOpen
  <2>2. QED
    BY <2>1 DEF LastJump
<1>11. Base(c, o, P, x) /\ Alike(c, d, x) /\ Highs(d) = x
  BY <1>4, <1>6 DEF TopHome, Gone
<1>12. QED
  BY <1>1, <1>2, <1>7, <1>8, <1>9, <1>10, <1>11, LeavesHome

\* The goal of the innermost statement is still to come.
GoalFits(o, i, E, g) ==
  /\ o[i].k = "switch" => g = <<"end", o[i].id>> /\ E[g] = 0
  /\ IsBody(o, i) => g = <<"body", o[i - 1].id>> /\ E[g] = 0
\* It is what the labels on top of the stacks stand for.
LEMMA GoalHome ==
  ASSUME NEW c, NEW o, NEW P, NEW x, TopHome(c, o, P, x), Owns(o[Len(o)].k),
         NEW h, Rid(c, o, h), NEW B, B = h.block_stack[Len(h.block_stack)],
         NEW E, NEW g \in Goals, GoalFits(o, Len(o), E, g)
  PROVE  GoalOf(h, P, E, B, g)
<1>1. PICK i : i = Len(o)
  OBVIOUS
<1>2. x \in Marks /\ Highs(c) = Above(x, o, i) /\ Spot(c, o, x, i, P) /\ GoalFits(o, i, E, g)
  BY <1>1 DEF TopHome
<1>3. Flagged(o, i, B)
  BY <1>1, FlagsHome
<1>4. x.brk \in Nat /\ x.cont \in Nat
  BY <1>2 DEF Marks
<1>5. ~(o[i].k = "switch" /\ IsBody(o, i))
  BY DEF IsBody
<1>6. ASSUME o[i].k = "switch"
      PROVE  P[h.break_stack[Len(h.break_stack)]] = g /\ E[g] = 0
  <2>1. Len(c.break_stack) = x.brk + 1
    BY <1>2, <1>6 DEF Highs, Above, BreaksOf
  <2>2. QED
    BY <1>2, <1>6, <2>1 DEF Rid, Spot, GoalFits
<1>7. ASSUME IsBody(o, i)
      PROVE  P[h.continue_stack[Len(h.continue_stack)]] = g /\ E[g] = 0
  <2>1. Len(c.continue_stack) = x.cont + 1
    BY <1>2, <1>7 DEF Highs, Above, ContinuesOf
  <2>2. QED
    BY <1>2, <1>7, <2>1 DEF Rid, Spot, GoalFits
<1>8. QED
  BY <1>3, <1>5, <1>6, <1>7 DEF GoalOf, Flagged

\* The goals that are behind after the block.
Thereby(o, G, g, w) ==
  IF o[Len(o)].k = "switch" \/ IsBody(o, Len(o)) THEN Reached(G, g, w) ELSE G
\* The end of a block leads to where the history says that it is.
LEMMA BlockEndsHome ==
  ASSUME NEW c, NEW o, Compiling(c, o), NEW m, NEW P, NEW E, Homeward(c, o, m, P, E),
         o[Len(o)].k \in {"block", "switch", "for"}, NEW h, CodeOK(h, {}), Rid(c, o, h),
         h.mTryStack = c.mTryStack, h.goto.label = c.goto.label, h.in_loop = FALSE,
         NEW d, d = FinalizeBlock(h), NEW p, p = Close(o),
         NEW G, Homing(h, P, G), NEW g \in Goals, GoalFits(o, Len(o), G, g),
         NEW w, w = Len(h.code) + 1, NEW F, F = Thereby(o, G, g, w),
         Passed(o, E, F), Tied(h, F)
  PROVE  Homeward(d, p, m, P, F)
<1>1. OpenOK(o) /\ IsSeq(o) /\ Len(o) >= 1 /\ AtHome(c, o, P)
  BY DEF OpenOK, Compiling, Homeward
<1>2. Owns(o[Len(o)].k)
  BY DEF Owns, Blocks
<1>3. PICK x : TopHome(c, o, P, x)
  BY <1>1, HomeTop
<1>4. PICK B : Dropped(h, d, B)
  BY <1>2, RidDrops
<1>5. B = h.block_stack[Len(h.block_stack)] /\ Closable(h, B)
  BY <1>4 DEF Dropped
<1>6. GoalOf(h, P, G, B, g)
  BY <1>2, <1>3, <1>5, GoalHome
<1>7. Flagged(o, Len(o), B)
  BY <1>2, <1>3, <1>5, FlagsHome
<1>8. F = EndOf(G, B, g, w)
  BY <1>7 DEF EndOf, Thereby, Flagged
<1>9. Goes(h, d, P, F)
  BY <1>5, <1>6, <1>8, FinalizeGoes
<1>10. Homing(d, P, F) /\ Tied(d, F)
  BY <1>9 DEF Goes, SamePlace, Tied
<1>11. QED
  BY <1>10, BlockLeavesHome

\* The history of the end of a block changes nothing else.
Noted(c, o, h, P, E) ==
  /\ CodeOK(h, {}) /\ Rid(c, o, h) /\ h.mTryStack = c.mTryStack
  /\ h.goto.label = c.goto.label /\ h.in_loop = c.in_loop
  /\ Homing(h, P, E)

\* Noting where the block ends leads no jump astray.
LEMMA NotedHome ==
  ASSUME NEW c, NEW o, Compiling(c, o), NEW P, NEW E, Homing(c, P, E),
         o[Len(o)].k \in {"block", "switch"}, NEW e, e = Between(c, o), NEW id,
         NEW h, h \in {Ends(e, id), BodyEnds(e, id)}
  PROVE  Noted(c, o, h, P, E)
<1>1. CodeOK(c, {})
  BY DEF Compiling
<1>2. CodeOK(e, {}) /\ Aside(c, e)
  BY <1>1, HistoryOK
<1>3. h \in {Begin(e, o, id), Between(e, o), BodyEnds(e, id), Ends(e, id)}
  OBVIOUS
<1>4. CodeOK(h, {}) /\ Aside(e, h)
  BY <1>2, <1>3, HistoryOK
<1>5. PICK stmt : stmt = ""
  OBVIOUS
<1>6. Homing(e, P, E) /\ BeginsAt(c, e, o, stmt)
  BY <1>5, BeginGoes
<1>7. BegunSame(c, e) /\ DOMAIN e = Fields
  BY <1>2, <1>6, BeginSame DEF CodeOK, CodeShape
<1>8. DOMAIN h = Fields /\ h.here = e.here
  BY <1>7 DEF Ends, BodyEnds, Fields
<1>9. Homing(h, P, E)
  <2>1. h.code = e.code /\ h.label = e.label
    BY <1>4 DEF Aside
  <2>2. DOMAIN h.here = HereFields
    BY <1>6, <1>8 DEF Homing, Shaped
  <2>3. QED
    BY <1>6, <1>8, <2>1, <2>2, HomingSame
<1>10. LabelsOf(o[Len(o)].k) = 0
  BY DEF LabelsOf, Loops
<1>11. /\ h.label_stack = c.label_stack /\ h.break_stack = c.break_stack
       /\ h.continue_stack = c.continue_stack /\ h.switch_stack = c.switch_stack
       /\ h.block_stack = c.block_stack /\ h.context_stack = c.context_stack
       /\ h.mTryStack = c.mTryStack /\ h.goto = c.goto /\ h.in_loop = c.in_loop
  BY <1>4, <1>7 DEF Aside, Frame, BegunSame
<1>12. Rid(c, o, h)
  <2>1. Len(c.label_stack) \in Nat
    BY <1>1, StackFacts DEF CodeOK
  <2>2. Len(c.label_stack) - 0 = Len(c.label_stack)
    BY <2>1
  <2>3. QED
    BY <1>10, <1>11, <2>2 DEF Rid, Kept
<1>13. QED
  BY <1>4, <1>9, <1>11, <1>12 DEF Noted

\* The end of a switch.
LEMMA CloseSwitchLeads ==
  ASSUME NEW c, NEW o, Compiling(c, o), NEW m, m \in 0 .. MaxStatements, NEW P, NEW E,
         Homeward(c, o, m, P, E), o[Len(o)].k = "switch", NEW e, e = Between(c, o),
         NEW id, id = o[Len(o)].id, NEW h, h = Ends(e, id), NEW d, d = FinalizeBlock(h),
         NEW p, p = Close(o)
  PROVE  Leading(d, p, m)
<1>1. /\ OpenOK(o) /\ Order(o, m, E) /\ Homing(c, P, E) /\ Tied(c, E) /\ c.in_loop = Waits(o)
      /\ E \in [Goals -> Nat]
  BY DEF Compiling, Homeward, Homing
<1>2. Noted(c, o, h, P, E)
  BY <1>1, NotedHome
<1>3. c.in_loop = FALSE
  <2>1. Waits(o) = FALSE
    BY DEF Waits, Loops
  <2>2. QED
    BY <1>1, <2>1
<1>4. /\ CodeOK(h, {}) /\ Rid(c, o, h) /\ h.mTryStack = c.mTryStack
      /\ h.goto.label = c.goto.label /\ h.in_loop = FALSE /\ Homing(h, P, E)
  BY <1>2, <1>3 DEF Noted
<1>5. id \in 0 .. MaxStatements /\ E[<<"end", id>>] = 0
  BY <1>1, EndAhead
<1>6. PICK g \in Goals : g = <<"end", id>>
  BY <1>5, Bounds DEF Goals
<1>7. GoalFits(o, Len(o), E, g)
  BY <1>5, <1>6 DEF GoalFits, IsBody
<1>8. PICK w : w = Len(h.code) + 1
  OBVIOUS
<1>9. PICK F : F = Thereby(o, E, g, w)
  OBVIOUS
<1>10. F = Reached(E, g, w)
  BY <1>9 DEF Thereby
<1>11. Passed(o, E, F)
  <2>1. ASSUME NEW z \in Goals, z # g
        PROVE  F[z] = E[z]
    BY <1>1, <1>10, <2>1 DEF Reached
  <2>2. QED
    BY <1>6, <2>1 DEF Passed
<1>12. Tied(h, F)
  <2>1. CodeOK(c, {})
    BY DEF Compiling
  <2>2. CodeOK(e, {}) /\ Aside(c, e)
    BY <2>1, HistoryOK
  <2>3. DOMAIN e = Fields /\ e.code = c.code
    BY <2>2 DEF CodeOK, CodeShape, Aside
  <2>4. h.body = e.body /\ h.end = SetAt(e.end, id, w)
    BY <1>8, <2>3 DEF Ends, SetAt, Fields, IpOffset
  <2>5. e.body = c.body /\ e.end = c.end
    BY <2>1 DEF Between, CodeOK, CodeShape, Fields
  <2>6. h.body = c.body /\ h.end = SetAt(c.end, id, w)
    BY <2>4, <2>5
  <2>7. QED
    BY <1>1, <1>5, <1>6, <1>10, <2>6, TiedEnd
<1>13. Homeward(d, p, m, P, F)
  BY <1>4, <1>7, <1>8, <1>9, <1>11, <1>12, BlockEndsHome
<1>14. QED
  BY <1>13 DEF Leading

\* The goals of the statement around the innermost one are still to come.
LEMMA AroundAhead ==
  ASSUME NEW o, OpenOK(o), NEW m, m \in 0 .. MaxStatements, NEW E, Order(o, m, E),
         o[Len(o)].k \notin {"function", "catch"}, NEW id, id = o[Len(o) - 1].id
  PROVE  id \in 0 .. MaxStatements /\ E[<<"body", id>>] = 0
<1>1. Len(o) >= 2 /\ Len(o) \in Nat
  BY FrontOpen, SeqShape DEF OpenOK
<1>2. PICK i : i = Len(o) - 1
  OBVIOUS
<1>3. i \in 1 .. Len(o) /\ i \in 1 .. Len(o) - 1 /\ i + 1 = Len(o) /\ i # Len(o)
  BY <1>1, <1>2
<1>4. o[i].k # "handlers"
  BY <1>3 DEF OpenOK
<1>5. o[i].id \in 0 .. m /\ E[<<"body", o[i].id>>] = 0
  BY <1>3, <1>4 DEF Order
<1>6. MaxStatements \in Nat
  BY Bounds
<1>7. QED
  BY <1>2, <1>5, <1>6

\* The end of a block.
LEMMA CloseInnerLeads ==
  ASSUME NEW c, NEW o, Compiling(c, o), NEW m, m \in 0 .. MaxStatements, NEW P, NEW E,
         Homeward(c, o, m, P, E), o[Len(o)].k = "block", NEW e, e = Between(c, o),
         NEW id, id = o[Len(o) - 1].id, NEW h, h = BodyEnds(e, id), NEW d, d = FinalizeBlock(h),
         NEW p, p = Close(o)
  PROVE  Leading(d, p, m)
<1>1. /\ OpenOK(o) /\ Order(o, m, E) /\ Homing(c, P, E) /\ Tied(c, E) /\ c.in_loop = Waits(o)
      /\ E \in [Goals -> Nat]
  BY DEF Compiling, Homeward, Homing
<1>2. Noted(c, o, h, P, E)
  BY <1>1, NotedHome
<1>3. c.in_loop = FALSE
  <2>1. Waits(o) = FALSE
    BY DEF Waits, Loops
  <2>2. QED
    BY <1>1, <2>1
<1>4. /\ CodeOK(h, {}) /\ Rid(c, o, h) /\ h.mTryStack = c.mTryStack
      /\ h.goto.label = c.goto.label /\ h.in_loop = FALSE /\ Homing(h, P, E)
  BY <1>2, <1>3 DEF Noted
<1>5. id \in 0 .. MaxStatements /\ E[<<"body", id>>] = 0
  BY <1>1, AroundAhead
<1>6. PICK g \in Goals : g = <<"body", id>>
  BY <1>5, Bounds DEF Goals
<1>7. GoalFits(o, Len(o), E, g)
  BY <1>5, <1>6 DEF GoalFits, IsBody
<1>8. PICK w : w = Len(h.code) + 1
  OBVIOUS
<1>9. PICK F : F = Thereby(o, E, g, w)
  OBVIOUS
<1>10. h.end = c.end /\ h.body = SetAt(c.body, id, w)
  <2>1. CodeOK(c, {})
    BY DEF Compiling
  <2>2. CodeOK(e, {}) /\ Aside(c, e)
    BY <2>1, HistoryOK
  <2>3. DOMAIN e = Fields /\ e.code = c.code
    BY <2>2 DEF CodeOK, CodeShape, Aside
  <2>4. h.end = e.end /\ h.body = SetAt(e.body, id, w)
    BY <1>8, <2>3 DEF BodyEnds, SetAt, Fields, IpOffset
  <2>5. e.body = c.body /\ e.end = c.end
    BY <2>1 DEF Between, CodeOK, CodeShape, Fields
  <2>6. QED
    BY <2>4, <2>5
<1>11. CASE IsBody(o, Len(o))
  <2>1. F = Reached(E, g, w)
    BY <1>9, <1>11 DEF Thereby
  <2>2. Passed(o, E, F)
    <3>1. ASSUME NEW z \in Goals, z # g
          PROVE  F[z] = E[z]
      BY <1>1, <2>1, <3>1 DEF Reached
    <3>2. o[Len(o) - 1].k \in Loops
      BY <1>11 DEF IsBody
    <3>3. QED
      BY <1>6, <3>1, <3>2 DEF Passed
  <2>3. Tied(h, F)
    BY <1>1, <1>5, <1>6, <1>10, <2>1, TiedBody
  <2>4. Homeward(d, p, m, P, F)
    BY <1>4, <1>7, <1>8, <1>9, <2>2, <2>3, BlockEndsHome
  <2>5. QED
    BY <2>4 DEF Leading
<1>12. CASE ~IsBody(o, Len(o))
  <2>1. F = E
    BY <1>9, <1>12 DEF Thereby
  <2>2. Passed(o, E, F)
    BY <2>1 DEF Passed
  <2>3. Tied(h, E)
    BY <1>1, <1>5, <1>10, TiedAnyway
  <2>4. Tied(h, F)
    BY <2>1, <2>3
  <2>5. Homeward(d, p, m, P, F)
    BY <1>4, <1>7, <1>8, <1>9, <2>2, <2>4, BlockEndsHome
  <2>6. QED
    BY <2>5 DEF Leading
<1>13. QED
  BY <1>11, <1>12

\* The closing brace of a block or a switch.
LEMMA CloseBlockLeads ==
  ASSUME Compiling(cg, open), Leading(cg, open, n), n \in 0 .. MaxStatements, CloseBlock
  PROVE  Leading(cg', open', n')
<1>1. PICK P, E : Homeward(cg, open, n, P, E)
  BY DEF Leading
<1>2. OpenOK(open)
  BY DEF Compiling
<1>3. Top = open[Len(open)] /\ Top.k \in {"block", "switch"}
  BY <1>2, TopIs DEF CloseBlock, Ending
<1>4. PICK e : e = Between(cg, open)
  OBVIOUS
<1>5. open' = Close(open) /\ n' = n
  BY DEF CloseBlock, Reduce
<1>6. CASE Top.k = "switch"
  <2>1. PICK id : id = open[Len(open)].id
    OBVIOUS
  <2>2. PICK h : h = Ends(e, id)
    OBVIOUS
  <2>3. cg' = FinalizeBlock(h)
    BY <1>3, <1>4, <1>6, <2>1, <2>2 DEF CloseBlock, Reduce
  <2>4. Leading(cg', open', n)
    BY <1>1, <1>3, <1>4, <1>5, <1>6, <2>1, <2>2, <2>3, CloseSwitchLeads
  <2>5. QED
    BY <1>5, <2>4
<1>7. CASE Top.k = "block"
  <2>1. PICK id : id = open[Len(open) - 1].id
    OBVIOUS
  <2>2. PICK h : h = BodyEnds(e, id)
    OBVIOUS
  <2>3. Last(Front(open)).id = id
    <3>1. Len(open) >= 2 /\ Len(open) \in Nat
      BY <1>2, <1>3, <1>7, FrontOpen, SeqShape DEF OpenOK
    <3>2. IsSeq(open) /\ Len(open) # 0
      BY <1>2, <3>1 DEF OpenOK
    <3>3. /\ IsSeq(Front(open)) /\ Len(Front(open)) = Len(open) - 1
          /\ \A j \in 1 .. Len(open) - 1 : Front(open)[j] = open[j]
      BY <3>2, FrontShape
    <3>4. Last(Front(open)) = Front(open)[Len(Front(open))]
      BY <3>3, SeqShape
    <3>5. Len(open) - 1 \in 1 .. Len(open) - 1
      BY <3>1
    <3>6. QED
      BY <2>1, <3>3, <3>4, <3>5
  <2>4. cg' = FinalizeBlock(h)
    BY <1>4, <1>7, <2>2, <2>3 DEF CloseBlock, Reduce
  <2>5. Leading(cg', open', n)
    BY <1>1, <1>3, <1>4, <1>5, <1>7, <2>1, <2>2, <2>4, CloseInnerLeads
  <2>6. QED
    BY <1>5, <2>5
<1>8. QED
  BY <1>3, <1>6, <1>7
ForGone(c, o, h) ==
  /\ CodeOK(h, {}) /\ Rid(c, o, h) /\ h.mTryStack = c.mTryStack
  /\ h.goto.label = c.goto.label /\ h.in_loop = FALSE
\* The labels of a for have gone, and the history notes where it ends.
LEMMA ForRid ==
  ASSUME NEW c, NEW o, Compiling(c, o), o[Len(o)].k = "for", NEW e, e = Begin(c, o, ""),
         NEW f, f = Emit(e, "CALL", 0), NEW op, op = "JMP", NEW i, NEW g, g = LoopDone(f, op, i),
         NEW q, NEW h, h = Between(g, q)
  PROVE  ForGone(c, o, h)
<1>1. PICK k : k = o[Len(o)].k
  OBVIOUS
<1>2. CodeOK(c, {}) /\ OpenOK(o)
  BY DEF Compiling
<1>3. k = "for" /\ k \in Loops /\ LabelsOf(k) = 2
  BY <1>1 DEF LabelsOf, Loops
<1>4. CodeOK(e, {}) /\ Aside(c, e)
  BY <1>2, HistoryOK
<1>5. CodeOK(f, {}) /\ Frame(e, f) /\ f.label = e.label /\ f.context_stack = e.context_stack
  <2>1. "CALL" \in Ops \ (JumpOps \union {"JSWITCH"})
        /\ "CALL" \notin {"TOSD", "MARK", "UNWIND"} /\ 0 \in Nat
    BY DEF Ops, JumpOps
  <2>2. CodeShape(e)
    BY <1>4 DEF CodeOK
  <2>3. CodeOK(f, {})
    BY <1>4, <2>1, EmitOK
  <2>4. EmitPost(e, f, "CALL", 0)
    BY <2>1, <2>2, EmitFacts
  <2>5. QED
    BY <2>3, <2>4 DEF EmitPost
<1>6. Frame(c, f) /\ f.label = c.label /\ f.context_stack = c.context_stack
  BY <1>4, <1>5 DEF Aside, Frame
<1>7. Len(f.label_stack) >= 2 /\ f.label[f.label_stack[Len(f.label_stack) - 1]].to # 0
  BY <1>1, <1>3, <1>6, LoopLabels, ZenonT(60) DEF Frame
<1>8. PICK j \in JumpOps : j = op
  BY DEF JumpOps
<1>9. LabelCloses(f, g, k) /\ g.in_loop = FALSE
  BY <1>3, <1>5, <1>7, <1>8, LoopClosesOK, ZenonT(60)
<1>10. LabelCloses(c, g, k)
  <2>1. Later(c, g)
    BY <1>6, <1>9, ZenonT(60) DEF LabelCloses, Later
  <2>2. QED
    BY <1>6, <1>9, <2>1 DEF LabelCloses, Frame
<1>11. CodeOK(h, {}) /\ Aside(g, h)
  BY <1>9, HistoryOK DEF LabelCloses
<1>12. Rid(c, o, h) /\ h.mTryStack = c.mTryStack
  BY <1>1, <1>10, <1>11 DEF Rid, LabelCloses, Aside, Frame
<1>13. h.goto.label = c.goto.label /\ h.in_loop = FALSE
  BY <1>9, <1>10, <1>11, ZenonT(60) DEF LabelCloses, Aside, Frame
<1>14. QED
  BY <1>11, <1>12, <1>13 DEF ForGone

\* The end of a for.
LEMMA EndForLeads ==
  ASSUME Compiling(cg, open), Leading(cg, open, n), n \in 0 .. MaxStatements, EndFor
  PROVE  Leading(cg', open', n')
<1>1. PICK P, E : Homeward(cg, open, n, P, E)
  BY DEF Leading
<1>2. PICK e : e = Begin(cg, open, "")
  OBVIOUS
<1>3. PICK f : f = Emit(e, "CALL", 0)
  OBVIOUS
<1>4. PICK i : i = open[Len(open)].id
  OBVIOUS
<1>5. PICK op : op = "JMP"
  OBVIOUS
<1>6. PICK g : g = LoopDone(f, op, i)
  OBVIOUS
<1>7. PICK q : q = Front(open)
  OBVIOUS
<1>8. PICK h : h = Between(g, q)
  OBVIOUS
<1>9. /\ CodeOK(cg, {}) /\ OpenOK(open) /\ Homing(cg, P, E) /\ AtHome(cg, open, P)
      /\ Order(open, n, E) /\ Tied(cg, E) /\ E \in [Goals -> Nat]
  BY <1>1 DEF Compiling, Homeward, Homing
<1>10. open[Len(open)].k = "for" /\ Top = open[Len(open)]
  BY <1>9, TopIs DEF EndFor, Ending
<1>11. cg' = FinalizeBlock(h) /\ open' = Close(open) /\ n' = n
  BY <1>2, <1>3, <1>4, <1>5, <1>6, <1>7, <1>8, <1>10, LoopEnds DEF EndFor, Reduce, LoopDone
<1>12. /\ CodeOK(h, {}) /\ Rid(cg, open, h) /\ h.mTryStack = cg.mTryStack
       /\ h.goto.label = cg.goto.label /\ h.in_loop = FALSE
  <2>1. ForGone(cg, open, h)
    BY <1>2, <1>3, <1>5, <1>6, <1>8, <1>10, ForRid
  <2>2. QED
    BY <2>1 DEF ForGone
<1>13. PICK stmt : stmt = ""
  OBVIOUS
<1>14. Homing(e, P, E) /\ BeginsAt(cg, e, open, stmt)
  BY <1>2, <1>9, <1>13, BeginGoes
<1>15. BegunSame(cg, e)
  BY <1>14, BeginSame
<1>16. Goes(e, f, P, E)
  <2>1. PICK call, z : call = "CALL" /\ z = 0
    OBVIOUS
  <2>2. call # "JMP" /\ f = Emit(e, call, z)
    BY <1>3, <2>1
  <2>3. QED
    BY <1>14, <2>2, EmitGoes
<1>17. Homing(f, P, E) /\ Plain(f) /\ f.body = cg.body /\ f.end = cg.end
  BY <1>13, <1>14, <1>15, <1>16 DEF Goes, SamePlace, Plain, BeginsAt, BegunSame
<1>18. f.label_stack = cg.label_stack /\ f.label = cg.label
  <2>1. f.label_stack = e.label_stack /\ f.label = e.label
    <3>1. DOMAIN e = Fields
      BY <1>14 DEF Homing, Shaped
    <3>2. QED
      BY <1>3, <3>1 DEF Emit, Fields
  <2>2. QED
    BY <1>15, <2>1 DEF BegunSame
<1>19. PICK l : l = TOS(f, "label_stack")
  OBVIOUS
<1>20. PICK z : z = <<"end", i>>
  OBVIOUS
<1>21. l \in 1 .. Len(f.label) /\ P[l] = z
  <2>1. open[Len(open)].k \in Loops
    BY <1>10 DEF Loops
  <2>2. l \in 1 .. Len(cg.label) /\ P[l] = <<"end", open[Len(open)].id>>
    BY <1>9, <1>18, <1>19, <2>1, LoopTopHome
  <2>3. QED
    BY <1>4, <1>18, <1>20, <2>2
<1>22. i \in 0 .. MaxStatements /\ E[z] = 0
  BY <1>4, <1>9, <1>10, <1>20, EndAhead
<1>23. Tied(f, E)
  BY <1>9, <1>17 DEF Tied
<1>24. PICK F : Behind(g, P, E, z, F)
  BY <1>5, <1>6, <1>17, <1>19, <1>20, <1>21, <1>22, <1>23, LoopBehind
<1>25. Passed(open, E, F)
  BY <1>4, <1>9, <1>10, <1>20, <1>24, BehindPassed
<1>26. Homing(g, P, F) /\ Tied(g, F)
  BY <1>24 DEF Behind
<1>27. Homing(h, P, F) /\ BeginsAt(g, h, q, stmt)
  BY <1>8, <1>13, <1>26, BeginGoes
<1>28. Tied(h, F)
  <2>1. BegunSame(g, h)
    BY <1>27, BeginSame
  <2>2. QED
    BY <1>26, <2>1 DEF Tied, BegunSame
<1>29. open[Len(open)].k # "switch" /\ ~IsBody(open, Len(open))
  BY <1>10 DEF IsBody
<1>30. PICK w : w = Len(h.code) + 1
  OBVIOUS
<1>31. PICK y \in Goals : y = <<"end", 0>>
  BY DEF Goals
<1>32. GoalFits(open, Len(open), F, y) /\ F = Thereby(open, F, y, w)
  BY <1>29 DEF GoalFits, Thereby
<1>33. Homeward(cg', open', n, P, F)
  BY <1>1, <1>10, <1>11, <1>12, <1>25, <1>27, <1>28, <1>30, <1>32, BlockEndsHome
<1>34. QED
  BY <1>11, <1>33 DEF Leading

\* No label but that of the try block refers to the jump behind its handlers.
LEMMA JumpLast ==
  ASSUME NEW c, NEW P, NEW E, Homing(c, P, E), NEW l, l = c.mTryStack[Len(c.mTryStack)].label,
         NEW op, NEW d, d = Jump(c, op, l), d.mTryStack = c.mTryStack, NEW p
  PROVE  LastJump(d, p, P)
<1>1. Shaped(c)
  BY DEF Homing
<1>2. JumpDoes(c, d, op, l)
  BY <1>1, JumpFacts, SMTT(40)
<1>3. Len(c.code) \in Nat /\ Len(d.code) = Len(c.code) + 1
  BY <1>1, <1>2, ShapedFacts, SMTT(40) DEF JumpDoes
<1>4. RefersTo(c.label, d.label, l, Len(c.code) + 1)
  BY <1>2 DEF JumpDoes
<1>5. ASSUME NEW k \in 1 .. Len(d.label), P[k] # Dead, k # l
      PROVE  Len(d.code) \notin d.label[k].refs
  <2>1. k \in 1 .. Len(c.label) /\ d.label[k].refs = c.label[k].refs
    BY <1>4, <1>5 DEF RefersTo
  <2>2. \A i \in d.label[k].refs : i \in 1 .. Len(c.code)
    BY <1>5, <2>1 DEF Homing
  <2>3. Len(c.code) + 1 \notin 1 .. Len(c.code)
    BY <1>3
  <2>4. QED
    BY <1>3, <2>2, <2>3, SMTT(40)
<1>6. QED
  BY <1>5 DEF LastJump

\* The block of a try or of a handler ends with a jump behind the handlers.
HandlerDone(c, d, P, E) ==
  /\ Adds(c, d, P, E) /\ d.goto.label = c.goto.label /\ d.mTryStack = c.mTryStack
  /\ d.in_loop = c.in_loop /\ \A p : LastJump(d, p, P)

\* That jump is the last instruction, and at a label that stands for nothing.
LEMMA HandlerGoes ==
  ASSUME NEW c, NEW o, Compiling(c, o), NEW P, NEW E, Homing(c, P, E), Nowhere(c, P),
         o[Len(o)].k \in {"try", "catch"}, Len(c.mTryStack) >= 1, NEW x, TopHome(c, o, P, x),
         NEW e, e = Between(c, o), NEW f, f = FinalizeBlock(e),
         NEW d, d = Jump(f, "JMP", TOS(f, "mTryStack").label)
  PROVE  HandlerDone(c, d, P, E) /\ Gone(c, d, x)
<1>1. CodeOK(c, {}) /\ OpenOK(o)
  BY DEF Compiling
<1>2. CodeOK(e, {}) /\ Aside(c, e)
  BY <1>1, HistoryOK
<1>3. PICK stmt : stmt = ""
  OBVIOUS
<1>4. Homing(e, P, E) /\ BeginsAt(c, e, o, stmt)
  BY <1>3, BeginGoes
<1>5. BegunSame(c, e) /\ Plain(e)
  BY <1>3, <1>4, BeginSame DEF BeginsAt, Plain
<1>6. Owns(o[Len(o)].k) /\ LabelsOf(o[Len(o)].k) = 0
  BY DEF Owns, Blocks, LabelsOf, Loops
<1>7. Rid(c, o, e)
  <2>1. Len(c.label_stack) \in Nat
    BY <1>1, StackFacts DEF CodeOK
  <2>2. Len(c.label_stack) - 0 = Len(c.label_stack)
    BY <2>1
  <2>3. QED
    BY <1>5, <1>6, <2>2 DEF Rid, Kept, BegunSame
<1>8. PICK B : Dropped(e, f, B)
  BY <1>2, <1>6, <1>7, RidDrops
<1>9. B = e.block_stack[Len(e.block_stack)] /\ Closable(e, B) /\ FinalPost(e, {}, f, B)
  BY <1>8 DEF Dropped
<1>10. Gone(c, f, x)
  BY <1>6, <1>7, <1>8, BlockGone
<1>11. Flagged(o, Len(o), B)
  BY <1>6, <1>7, <1>9, FlagsHome
<1>12. "IN_SWITCH" \notin B /\ "CONTINUEABLE" \notin B
  BY <1>11 DEF Flagged, IsBody
<1>13. PICK g \in Goals : g = <<"end", 0>>
  BY DEF Goals
<1>14. PICK w : w = Len(e.code) + 1
  OBVIOUS
<1>15. GoalOf(e, P, E, B, g) /\ E = EndOf(E, B, g, w)
  BY <1>12 DEF GoalOf, EndOf
<1>16. Goes(e, f, P, E)
  BY <1>2, <1>4, <1>9, <1>14, <1>15, FinalizeGoes
<1>17. Homing(f, P, E) /\ Plain(f) /\ f.body = c.body /\ f.end = c.end
  BY <1>5, <1>16 DEF Goes, SamePlace, Plain, BegunSame
<1>18. /\ CodeOK(f, {}) /\ f.mTryStack = c.mTryStack /\ f.in_loop = c.in_loop
       /\ f.goto.label = c.goto.label
  BY <1>5, <1>9 DEF FinalPost, GotoSame, BegunSame
<1>19. PICK l : l = TOS(f, "mTryStack").label
  OBVIOUS
<1>20. Len(f.mTryStack) \in Nat /\ IsSeq(f.mTryStack)
  BY <1>18, SeqShape DEF CodeOK, StackShape, IsSeq
<1>21. l = f.mTryStack[Len(f.mTryStack)].label /\ l \in 1 .. Len(f.label)
  <2>1. TOS(f, "mTryStack") = f.mTryStack[Len(f.mTryStack)]
    BY <1>20, SeqShape DEF TOS
  <2>2. Len(f.mTryStack) \in 1 .. Len(f.mTryStack)
    BY <1>18, <1>20
  <2>3. f.mTryStack[Len(f.mTryStack)] \in Tries(Len(f.label))
    BY <1>18, <2>2, StackFacts DEF CodeOK
  <2>4. QED
    BY <1>19, <2>1, <2>3 DEF Tries
<1>22. PICK op \in JumpOps : op = "JMP"
  BY DEF JumpOps
<1>23. d = Jump(f, op, l)
  BY <1>19, <1>22
<1>24. JumpPost(f, {}, d, op, l)
  BY <1>18, <1>21, <1>22, <1>23, JumpOK
<1>25. Goes(f, d, P, E)
  BY <1>17, <1>23, JumpGoes
<1>26. /\ d.label_stack = f.label_stack /\ d.break_stack = f.break_stack
       /\ d.continue_stack = f.continue_stack /\ d.block_stack = f.block_stack
       /\ d.mTryStack = f.mTryStack /\ d.in_loop = f.in_loop /\ d.goto = f.goto
       /\ d.body = f.body /\ d.end = f.end
  BY <1>24 DEF JumpPost, Frame
<1>27. ASSUME NEW p PROVE LastJump(d, p, P)
  BY <1>17, <1>21, <1>23, <1>26, JumpLast, ZenonT(60)
<1>28. HandlerDone(c, d, P, E)
  BY <1>17, <1>18, <1>25, <1>26, <1>27 DEF HandlerDone, Adds, Goes
<1>29. Gone(c, d, x)
  BY <1>10, <1>26 DEF Gone, Alike, Highs
<1>30. QED
  BY <1>28, <1>29

\* The end of the block of a try.
LEMMA EndTryBlockLeads ==
  ASSUME Compiling(cg, open), Leading(cg, open, n), EndTryBlock
  PROVE  Leading(cg', open', n')
<1>1. PICK e : e = Between(cg, open)
  OBVIOUS
<1>2. PICK f : f = FinalizeBlock(e)
  OBVIOUS
<1>3. PICK y : y = Item("handlers", <<>>)
  OBVIOUS
<1>4. /\ cg' = Jump(f, "JMP", TOS(f, "mTryStack").label)
      /\ open' = Append(Front(open), y) /\ n' = n /\ Top.k = "try"
  BY <1>1, <1>2, <1>3 DEF EndTryBlock, Reduce, Ending
<1>5. CodeOK(cg, {}) /\ OpenOK(open) /\ open[Len(open)].k = "try" /\ Len(open) \in Nat
      /\ Len(open) >= 1
  BY <1>4, TopIs DEF Compiling
<1>6. PICK P, E : Homeward(cg, open, n, P, E)
  BY DEF Leading
<1>7. Homing(cg, P, E) /\ Nowhere(cg, P) /\ AtHome(cg, open, P) /\ cg.in_loop = FALSE
  <2>1. cg.in_loop = Waits(open)
    BY <1>6 DEF Homeward
  <2>2. Waits(open) = FALSE
    BY <1>5 DEF Waits, Loops
  <2>3. QED
    BY <1>6, <2>1, <2>2 DEF Homeward
<1>8. PICK x : TopHome(cg, open, P, x)
  BY <1>5, <1>7, HomeTop DEF OpenOK
<1>9. Base(cg, open, P, x) /\ x \in Marks
  BY <1>8 DEF TopHome
<1>10. Len(cg.mTryStack) >= 1
  <2>1. PICK h : Tower(cg, open, h)
    BY DEF Compiling, Standing
  <2>2. PICK i \in 1 .. Len(open) : i = Len(open)
    BY <1>5
  <2>3. QED
    BY <1>5, <2>1, <2>2, HandlersTry
<1>11. HandlerDone(cg, cg', P, E) /\ Gone(cg, cg', x)
  BY <1>1, <1>2, <1>4, <1>5, <1>7, <1>8, <1>10, HandlerGoes
<1>12. /\ Homing(cg', P, E) /\ cg'.body = cg.body /\ cg'.end = cg.end
       /\ cg'.goto.label = cg.goto.label /\ cg'.mTryStack = cg.mTryStack
       /\ cg'.in_loop = FALSE /\ LastJump(cg', open', P)
  BY <1>7, <1>11 DEF HandlerDone, Adds
<1>13. Alike(cg, cg', x) /\ Highs(cg') = x
  BY <1>11 DEF Gone
<1>14. PICK i : i = Len(open)
  OBVIOUS
<1>15. y.k = "handlers" /\ y.done = FALSE /\ y.k \notin Loops
  BY <1>3 DEF Item, Loops
<1>16. ReplacePost(open, y, open')
  <2>1. DOMAIN y = ItemFields
    BY <1>3 DEF Item, ItemFields
  <2>2. QED
    BY <1>4, <1>5, <1>15, <2>1, ReplacedOpen
<1>17. Len(open') = i /\ open'[i] = y
  BY <1>14, <1>16 DEF ReplacePost
<1>18. \A j \in 1 .. i - 1 : open'[j] = open[j]
  <2>1. IsSeq(open) /\ Len(open) # 0
    BY <1>5 DEF OpenOK
  <2>2. /\ IsSeq(Front(open)) /\ Len(Front(open)) = Len(open) - 1
        /\ \A j \in 1 .. Len(open) - 1 : Front(open)[j] = open[j]
    BY <2>1, FrontShape
  <2>3. \A j \in 1 .. Len(Front(open)) : open'[j] = Front(open)[j]
    BY <1>4, <2>2, AppendShape
  <2>4. QED
    BY <1>14, <2>2, <2>3
<1>19. PICK q : q = n
  OBVIOUS
<1>20. Instead(open, open', y, n, q)
  BY <1>5, <1>14, <1>15, <1>17, <1>18, <1>19 DEF Instead
<1>21. Highs(cg') = Above(x, open', i)
  <2>1. /\ LabelsOf(open'[i].k) = 0 /\ BreaksOf(open', i) = 0
        /\ ContinuesOf(open', i) = 0 /\ BlocksOf(open', i) = 0
    BY <1>15, <1>17 DEF LabelsOf, Loops, BreaksOf, ContinuesOf, BlocksOf, IsBody, Owns, Blocks
  <2>2. x = Above(x, open', i)
    BY <1>9, <2>1 DEF Above, Marks
  <2>3. QED
    BY <1>13, <2>2
<1>22. Spot(cg', open', x, i, P)
  BY <1>15, <1>17 DEF Spot, Loops, Owns, Blocks, IsBody
<1>23. Aimless(cg, cg', P)
  BY <1>7, <1>12, AimlessSame, SMTT(40)
<1>24. Homeward(cg', open', q, P, E)
  BY <1>5, <1>6, <1>9, <1>12, <1>13, <1>14, <1>20, <1>21, <1>22, <1>23, ReplacesHome
<1>25. QED
  BY <1>4, <1>19, <1>24 DEF Leading

\* The end of a handler.
LEMMA EndCatchLeads ==
  ASSUME Compiling(cg, open), Leading(cg, open, n), EndCatch
  PROVE  Leading(cg', open', n')
<1>1. PICK e : e = Between(cg, open)
  OBVIOUS
<1>2. PICK f : f = FinalizeBlock(e)
  OBVIOUS
<1>3. PICK q : q = Front(open)
  OBVIOUS
<1>4. /\ cg' = Jump(f, "JMP", TOS(f, "mTryStack").label)
      /\ open' = [q EXCEPT ![Len(q)] = [@ EXCEPT !["done"] = TRUE]] /\ n' = n /\ Top.k = "catch"
  BY <1>1, <1>2, <1>3 DEF EndCatch, Reduce, Ending
<1>5. CodeOK(cg, {}) /\ OpenOK(open) /\ open[Len(open)].k = "catch" /\ Len(open) \in Nat
      /\ Len(open) >= 1 /\ IsSeq(open)
  BY <1>4, TopIs DEF Compiling, OpenOK
<1>6. PICK P, E : Homeward(cg, open, n, P, E)
  BY DEF Leading
<1>7. /\ Homing(cg, P, E) /\ Nowhere(cg, P) /\ AtHome(cg, open, P) /\ cg.in_loop = FALSE
      /\ Order(open, n, E) /\ P \in [Nat -> Purposes] /\ Tied(cg, E)
  <2>1. cg.in_loop = Waits(open)
    BY <1>6 DEF Homeward
  <2>2. Waits(open) = FALSE
    BY <1>5 DEF Waits, Loops
  <2>3. QED
    BY <1>6, <2>1, <2>2 DEF Homeward
<1>8. PICK x : TopHome(cg, open, P, x)
  BY <1>5, <1>7, HomeTop
<1>9. Base(cg, open, P, x)
  BY <1>8 DEF TopHome
<1>10. /\ Len(open) >= 2 /\ OpenOK(q) /\ Len(q) = Len(open) - 1
       /\ SameKinds(open, q, Len(open) - 1) /\ q[Len(q)].k = "handlers"
  <2>1. PICK k : k = open[Len(open)].k
    OBVIOUS
  <2>2. k = "catch"
    BY <1>5, <2>1
  <2>3. QED
    BY <1>3, <1>5, <2>1, <2>2, FrontOpen
<1>11. Len(cg.mTryStack) >= 1
  <2>1. PICK h : Tower(cg, open, h)
    BY DEF Compiling, Standing
  <2>2. PICK i : i = Len(open) - 1
    OBVIOUS
  <2>3. i \in 1 .. Len(open) /\ i \in 1 .. Len(open) - 1
    BY <1>5, <1>10, <2>2
  <2>4. open[i].k = "handlers"
    BY <1>10, <2>2, <2>3 DEF SameKinds
  <2>5. QED
    BY <1>5, <2>1, <2>3, <2>4, HandlersTry
<1>12. HandlerDone(cg, cg', P, E) /\ Gone(cg, cg', x)
  BY <1>1, <1>2, <1>4, <1>5, <1>7, <1>8, <1>11, HandlerGoes
<1>13. /\ Homing(cg', P, E) /\ cg'.body = cg.body /\ cg'.end = cg.end
       /\ cg'.goto.label = cg.goto.label /\ cg'.mTryStack = cg.mTryStack
       /\ cg'.in_loop = FALSE /\ LastJump(cg', open', P)
  BY <1>7, <1>12 DEF HandlerDone, Adds
<1>14. Alike(cg, cg', x) /\ Highs(cg') = x
  BY <1>12 DEF Gone
<1>15. Outside(open, open')
  <2>1. \A i \in 1 .. Len(q) : q[i] = open[i]
    BY <1>3, <1>5, <1>10, FrontShape
  <2>2. DOMAIN q = 1 .. Len(q) /\ Len(q) \in Nat /\ Len(q) \in 1 .. Len(q)
    BY <1>10, SeqShape DEF OpenOK
  <2>3. PICK z : z = [q[Len(q)] EXCEPT !["done"] = TRUE]
    OBVIOUS
  <2>4. open' = [q EXCEPT ![Len(q)] = z]
    BY <1>4, <2>3
  <2>5. DOMAIN q[Len(q)] = ItemFields
    BY <1>10, <2>2 DEF OpenOK
  <2>6. z.k = "handlers" /\ z.id = q[Len(q)].id /\ z.done = TRUE
    BY <1>10, <2>3, <2>5 DEF ItemFields
  <2>7. Len(open') = Len(q)
    BY <1>4, <1>10, AlteredOpen, ZenonT(60)
  <2>8. open'[Len(q)] = z
    BY <2>2, <2>4, SMTT(40)
  <2>9. ASSUME NEW i \in 1 .. Len(q) - 1
        PROVE  open'[i] = q[i] /\ i \in 1 .. Len(q)
    <3>1. PICK w \in Nat : w = Len(q)
      BY <2>2
    <3>2. i \in 1 .. w - 1
      BY <3>1
    <3>3. i \in 1 .. w /\ i # w
      BY <3>2
    <3>4. QED
      BY <2>2, <2>4, <3>1, <3>3, ZenonT(60)
  <2>10. SameItems(open, open', Len(q))
    <3>1. ASSUME NEW i \in 1 .. Len(q)
          PROVE  open'[i].k = q[i].k /\ open'[i].id = q[i].id
      <4>1. CASE i = Len(q)
        BY <1>10, <2>6, <2>8, <4>1
      <4>2. CASE i # Len(q)
        <5>1. PICK w \in Nat : w = Len(q)
          BY <2>2
        <5>2. i \in 1 .. w /\ i # w
          BY <4>2, <5>1
        <5>3. i \in 1 .. w - 1
          BY <5>2
        <5>4. i \in 1 .. Len(q) - 1
          BY <5>1, <5>3
        <5>5. QED
          BY <2>9, <5>4, SMTT(40)
      <4>3. QED
        BY <4>1, <4>2
    <3>2. QED
      BY <2>1, <3>1 DEF SameItems
  <2>11. \A i \in 1 .. Len(open') - 1 : open'[i] = open[i]
    BY <2>1, <2>7, <2>9
  <2>12. open'[Len(open')].done = TRUE
    BY <2>6, <2>7, <2>8
  <2>13. QED
    BY <1>10, <2>7, <2>10, <2>11, <2>12 DEF Outside
<1>16. Passed(open, E, E)
  BY DEF Passed
<1>17. Nowhere(cg', P)
  BY <1>7, <1>13, NowhereSame
<1>18. Tied(cg', E)
  BY <1>7, <1>13 DEF Tied
<1>19. PICK F : F = E
  OBVIOUS
<1>20. Homeward(cg', open', n, P, F)
  BY <1>5, <1>7, <1>9, <1>13, <1>14, <1>15, <1>16, <1>17, <1>18, <1>19, LeavesHome
<1>21. QED
  BY <1>4, <1>20 DEF Leading
-----------------------------------------------------------------------------
(* The end of a try block                                                  *)

\* Only the label l stands for something else now: for nothing any more.
Buried(P, Q, l) ==
  /\ P \in [Nat -> Purposes] /\ Q \in [Nat -> Purposes] /\ l \in Nat
  /\ Q[l] = Dead /\ \A k \in Nat : k # l => Q[k] = P[k]

\* What holds of an open statement holds without a label that it has not.
LEMMA SpotBuried ==
  ASSUME NEW c, Stacked(c), NEW o, NEW i, NEW P, NEW Q, NEW l, Buried(P, Q, l), ~Other(c, l),
         NEW x \in Marks, NEW y, y = Above(x, o, i), Under(y, Highs(c)), Spot(c, o, x, i, P)
  PROVE  Spot(c, o, x, i, Q)
<1>1. /\ y.label = x.label + LabelsOf(o[i].k)
      /\ y.brk = x.brk + BreaksOf(o, i) /\ y.cont = x.cont + ContinuesOf(o, i)
  <2>1. AbovePost(x, o, i, y)
    BY AboveFacts
  <2>2. QED
    BY <2>1 DEF AbovePost
<1>2. /\ y.label <= Len(c.label_stack) /\ y.brk <= Len(c.break_stack)
      /\ y.cont <= Len(c.continue_stack)
  BY DEF Under, Highs
<1>3. /\ x.label \in Nat /\ x.brk \in Nat /\ x.cont \in Nat
      /\ Len(c.label_stack) \in Nat /\ Len(c.break_stack) \in Nat
      /\ Len(c.continue_stack) \in Nat /\ Len(c.label) \in Nat
  BY DEF Marks, Stacked, Highs
<1>4. \A j \in 1 .. Len(c.label_stack) : Q[c.label_stack[j]] = P[c.label_stack[j]]
  <2>1. ASSUME NEW j \in 1 .. Len(c.label_stack)
        PROVE  c.label_stack[j] \in Nat /\ c.label_stack[j] # l
    BY <1>3 DEF Stacked, Other, In
  <2>2. QED
    BY <2>1 DEF Buried
<1>5. \A j \in 1 .. Len(c.break_stack) : Q[c.break_stack[j]] = P[c.break_stack[j]]
  <2>1. ASSUME NEW j \in 1 .. Len(c.break_stack)
        PROVE  c.break_stack[j] \in Nat /\ c.break_stack[j] # l
    BY <1>3 DEF Stacked, Other, In
  <2>2. QED
    BY <2>1 DEF Buried
<1>6. \A j \in 1 .. Len(c.continue_stack) : Q[c.continue_stack[j]] = P[c.continue_stack[j]]
  <2>1. ASSUME NEW j \in 1 .. Len(c.continue_stack)
        PROVE  c.continue_stack[j] \in Nat /\ c.continue_stack[j] # l
    BY <1>3 DEF Stacked, Other, In
  <2>2. QED
    BY <2>1 DEF Buried
<1>7. o[i].k \in Loops =>
        x.label + 1 \in 1 .. Len(c.label_stack) /\ x.label + 2 \in 1 .. Len(c.label_stack)
  <2>1. SUFFICES ASSUME o[i].k \in Loops
                 PROVE  x.label + 1 \in 1 .. Len(c.label_stack)
                        /\ x.label + 2 \in 1 .. Len(c.label_stack)
    OBVIOUS
  <2>2. LabelsOf(o[i].k) = 2
    BY <2>1 DEF LabelsOf
  <2>3. x.label + 2 <= Len(c.label_stack)
    BY <1>1, <1>2, <2>2
  <2>4. QED
    BY <1>3, <2>3
<1>8. o[i].k \in {"if", "else"} => x.label + 1 \in 1 .. Len(c.label_stack)
  <2>1. SUFFICES ASSUME o[i].k \in {"if", "else"}
                 PROVE  x.label + 1 \in 1 .. Len(c.label_stack)
    OBVIOUS
  <2>2. LabelsOf(o[i].k) = 1
    BY <2>1 DEF LabelsOf, Loops
  <2>3. x.label + 1 <= Len(c.label_stack)
    BY <1>1, <1>2, <2>2
  <2>4. QED
    BY <1>3, <2>3
<1>9. o[i].k = "switch" \/ IsBody(o, i) => x.brk + 1 \in 1 .. Len(c.break_stack)
  <2>1. SUFFICES ASSUME o[i].k = "switch" \/ IsBody(o, i)
                 PROVE  x.brk + 1 \in 1 .. Len(c.break_stack)
    OBVIOUS
  <2>2. BreaksOf(o, i) = 1
    BY <2>1 DEF BreaksOf
  <2>3. x.brk + 1 <= Len(c.break_stack)
    BY <1>1, <1>2, <2>2
  <2>4. QED
    BY <1>3, <2>3
<1>10. IsBody(o, i) => x.cont + 1 \in 1 .. Len(c.continue_stack)
  <2>1. SUFFICES ASSUME IsBody(o, i)
                 PROVE  x.cont + 1 \in 1 .. Len(c.continue_stack)
    OBVIOUS
  <2>2. ContinuesOf(o, i) = 1
    BY <2>1 DEF ContinuesOf
  <2>3. x.cont + 1 <= Len(c.continue_stack)
    BY <1>1, <1>2, <2>2
  <2>4. QED
    BY <1>3, <2>3
<1>11. /\ o[i].k \in {"if", "else"} \union Loops => Q[c.label_stack[x.label + 1]] = None
       /\ o[i].k \in Loops => Q[c.label_stack[x.label + 2]] = <<"end", o[i].id>>
  BY <1>4, <1>7, <1>8 DEF Spot
<1>12. /\ IsBody(o, i) =>
            /\ Q[c.break_stack[x.brk + 1]] = <<"end", o[i - 1].id>>
            /\ Q[c.continue_stack[x.cont + 1]] = <<"body", o[i - 1].id>>
       /\ o[i].k = "switch" => Q[c.break_stack[x.brk + 1]] = <<"end", o[i].id>>
  BY <1>5, <1>6, <1>9, <1>10 DEF Spot
<1>13. QED
  BY <1>11, <1>12 DEF Spot

\* So the marks hold without it.
LEMMA HomeBuried ==
  ASSUME NEW c, Stacked(c), NEW o, IsSeq(o), NEW P, NEW Q, NEW l, Buried(P, Q, l),
         ~Other(c, l), AtHome(c, o, P)
  PROVE  AtHome(c, o, Q)
<1>1. PICK h : Home(c, o, P, h)
  BY DEF AtHome
<1>2. PICK w \in Nat : w = Len(o)
  BY SeqShape
<1>3. /\ h \in [1 .. w + 1 -> Marks] /\ h[w + 1] = Highs(c)
      /\ \A i \in 1 .. w : h[i + 1] = Above(h[i], o, i)
      /\ \A i \in 1 .. w : Spot(c, o, h[i], i, P)
      /\ \A i, j \in 1 .. w + 1 : i <= j => Under(h[i], h[j])
  BY <1>1, <1>2 DEF Home, HomePart
<1>4. ASSUME NEW i \in 1 .. w
      PROVE  Spot(c, o, h[i], i, Q)
  <2>1. i \in 1 .. w + 1 /\ i + 1 \in 1 .. w + 1 /\ w + 1 \in 1 .. w + 1 /\ i + 1 <= w + 1
    BY <1>2
  <2>2. PICK x \in Marks : x = h[i]
    BY <1>3, <2>1
  <2>3. PICK y : y = h[i + 1]
    OBVIOUS
  <2>4. y = Above(x, o, i) /\ Under(y, Highs(c)) /\ Spot(c, o, x, i, P)
    BY <1>3, <2>1, <2>2, <2>3
  <2>5. Spot(c, o, x, i, Q)
    BY <2>4, SpotBuried
  <2>6. QED
    BY <2>2, <2>5
<1>5. HomePart(c, o, Q, h, Len(o))
  BY <1>1, <1>2, <1>4 DEF Home, HomePart
<1>6. QED
  BY <1>1, <1>5 DEF Home, AtHome

\* The jump behind the handlers goes, and what jumped there leads to where it
\* was: nobody's label is left.
TryOver(c, d, Q, E) ==
  /\ Homing(d, Q, E) /\ d.body = c.body /\ d.end = c.end

\* finalize() of a try block takes the last jump out and puts its label: the
\* other labels still have their jumps.
LEMMA TryOverGoes ==
  ASSUME NEW c, NEW P, NEW E, Homing(c, P, E), NEW m, m = Len(c.code), m >= 1,
         NEW l, l \in 1 .. Len(c.label), P[l] = None, NEW Q, Buried(P, Q, l),
         \A k \in 1 .. Len(c.label) : P[k] # Dead /\ k # l => m \notin c.label[k].refs,
         NEW b, b = Backspace(c), NEW off, off = 0, NEW d, d = Here(b, l, off)
  PROVE  TryOver(c, d, Q, E)
<1>1. Shaped(c) /\ m \in Nat /\ Len(c.label) \in Nat
  BY ShapedFacts DEF Homing
<1>2. /\ IsSeq(Front(c.code)) /\ Len(Front(c.code)) = m - 1
      /\ \A i \in 1 .. m - 1 : Front(c.code)[i] = c.code[i]
  <2>1. IsSeq(c.code) /\ Len(c.code) # 0
    BY <1>1 DEF Shaped
  <2>2. QED
    BY <2>1, FrontShape
<1>3. /\ DOMAIN b = Fields /\ b.code = Front(c.code) /\ b.label = c.label /\ b.here = c.here
      /\ b.body = c.body /\ b.end = c.end
  BY <1>1 DEF Shaped, Backspace, Pop, Fields
<1>4. Shaped(b)
  BY <1>1, <1>2, <1>3 DEF Shaped
<1>5. PICK to : to = Len(b.code) + 1 + off
  OBVIOUS
<1>6. HereDoes(b, d, l, to)
  BY <1>3, <1>4, <1>5, HereFacts
<1>7. Len(b.code) = m - 1 /\ (\A i \in 1 .. m - 1 : b.code[i] = c.code[i])
  BY <1>2, <1>3
<1>8. /\ Shaped(d) /\ d.body = c.body /\ d.end = c.end
      /\ Len(d.code) = m - 1 /\ Len(d.label) = Len(c.label)
  BY <1>3, <1>6, <1>7 DEF HereDoes, SamePlace
<1>9. \A k \in 1 .. Len(c.label) :
        d.label[k].refs = c.label[k].refs /\ (k # l => d.label[k].to = c.label[k].to)
  BY <1>3, <1>6 DEF HereDoes
<1>10. \A i \in 1 .. m - 1 :
         /\ d.code[i].op = c.code[i].op /\ d.code[i].at = c.code[i].at
         /\ i \notin c.label[l].refs => d.code[i].arg = c.code[i].arg
  <2>1. \A i \in 1 .. Len(b.code) :
          /\ d.code[i].op = b.code[i].op /\ d.code[i].at = b.code[i].at
          /\ d.code[i].arg = IF i \in b.label[l].refs THEN to ELSE b.code[i].arg
    BY <1>6 DEF HereDoes
  <2>2. QED
    BY <1>3, <1>7, <2>1
<1>11. \A k \in 1 .. Len(c.label) : k # l => Q[k] = P[k]
  BY <1>1 DEF Buried
<1>12. Q[l] = Dead /\ Dead \notin Goals
  BY GoalIsNone DEF Buried
<1>13. \A i \in 1 .. m - 1 : Bound(d.code[i]) <=> Bound(c.code[i])
  BY <1>10 DEF Bound
<1>14. ASSUME NEW k \in 1 .. Len(d.label), Q[k] # Dead, NEW i \in d.label[k].refs
       PROVE  i \in 1 .. Len(d.code) /\ (Bound(d.code[i]) => Goal(d.code[i].at) = Q[k])
  <2>1. k \in 1 .. Len(c.label) /\ k # l /\ P[k] = Q[k] /\ P[k] # Dead /\ i \in c.label[k].refs
    BY <1>8, <1>9, <1>11, <1>12, <1>14
  <2>2. i \in 1 .. m /\ i # m /\ (Bound(c.code[i]) => Goal(c.code[i].at) = P[k])
    BY <2>1 DEF Homing
  <2>3. i \in 1 .. m - 1
    BY <1>1, <2>2
  <2>4. QED
    BY <1>8, <1>10, <1>13, <2>1, <2>2, <2>3
<1>15. ASSUME NEW i \in 1 .. Len(d.code), Bound(d.code[i])
       PROVE  /\ Goal(d.code[i].at) \in Goals
              /\ d.code[i].arg = 0 \/ d.code[i].arg = E[Goal(d.code[i].at)]
  <2>1. i \in 1 .. m - 1 /\ i \in 1 .. m
    BY <1>1, <1>8
  <2>2. Bound(c.code[i]) /\ d.code[i].at = c.code[i].at
    BY <1>10, <1>13, <1>15, <2>1
  <2>3. /\ Goal(c.code[i].at) \in Goals
        /\ c.code[i].arg = 0 \/ c.code[i].arg = E[Goal(c.code[i].at)]
    BY <2>1, <2>2 DEF Homing
  <2>4. i \notin c.label[l].refs
    <3>1. P[l] # Dead /\ None \notin Goals
      BY GoalIsNone
    <3>2. i \in c.label[l].refs => Goal(c.code[i].at) = P[l]
      BY <2>2, <3>1 DEF Homing
    <3>3. QED
      BY <2>3, <3>1, <3>2
  <2>5. QED
    BY <1>10, <2>1, <2>2, <2>3, <2>4
<1>16. \A k \in 1 .. Len(d.label) : Q[k] \in Goals => d.label[k].to = 0 \/ d.label[k].to = E[Q[k]]
  <2>1. \A k \in 1 .. Len(c.label) : P[k] \in Goals => c.label[k].to = 0 \/ c.label[k].to = E[P[k]]
    BY DEF Homing
  <2>2. QED
    BY <1>8, <1>9, <1>11, <1>12, <2>1
<1>17. E \in [Goals -> Nat]
  BY DEF Homing
<1>18. Homing(d, Q, E)
  BY <1>8, <1>14, <1>15, <1>16, <1>17 DEF Homing
<1>19. QED
  BY <1>8, <1>18 DEF TryOver

\* A label can be buried.
LEMMA CanBury ==
  ASSUME NEW P, P \in [Nat -> Purposes], NEW l, l \in Nat
  PROVE  \E Q : Buried(P, Q, l)
<1>1. PICK Q : Q = [P EXCEPT ![l] = Dead]
  OBVIOUS
<1>2. Dead \in Purposes
  BY DEF Purposes
<1>3. Q \in [Nat -> Purposes] /\ Q[l] = Dead /\ \A k \in Nat : k # l => Q[k] = P[k]
  BY <1>1, <1>2
<1>4. QED
  BY <1>3 DEF Buried

\* The label behind the handlers is not that of the function, the gotos or
\* another try block.
LEMMA NowhereBuried ==
  ASSUME NEW c, CodeOK(c, {}), Apart(c), Len(c.mTryStack) >= 1, NEW P, Nowhere(c, P),
         NEW l, l = c.mTryStack[Len(c.mTryStack)].label, NEW Q, Buried(P, Q, l),
         NEW d, Shrinks(c.mTryStack, d.mTryStack), d.goto = c.goto
  PROVE  Nowhere(d, Q)
<1>1. /\ Len(c.mTryStack) \in Nat /\ Len(c.label) \in Nat
      /\ \A i \in 1 .. Len(c.mTryStack) : c.mTryStack[i] \in Tries(Len(c.label))
      /\ c.goto.label \in 0 .. Len(c.label)
  BY StackFacts, ShapeFacts DEF CodeOK, StackShape
<1>2. PICK w \in Nat : w = Len(c.mTryStack)
  BY <1>1
<1>3. w \in 1 .. w /\ ~Other(c, l)
  BY <1>2 DEF Apart
<1>4. l # RetLabel /\ l # c.goto.label
  BY <1>3 DEF Other
<1>5. RetLabel \in Nat /\ c.goto.label \in Nat
  BY <1>1 DEF RetLabel
<1>6. Q[RetLabel] = P[RetLabel] /\ Q[c.goto.label] = P[c.goto.label]
  BY <1>4, <1>5 DEF Buried
<1>7. ASSUME NEW t \in 1 .. Len(d.mTryStack)
      PROVE  Q[d.mTryStack[t].label] = None
  <2>1. Len(d.mTryStack) = w - 1 /\ \A i \in 1 .. w - 1 : d.mTryStack[i] = c.mTryStack[i]
    BY <1>2 DEF Shrinks, Kept
  <2>2. t \in 1 .. w /\ t # w /\ d.mTryStack[t] = c.mTryStack[t]
    BY <1>2, <2>1
  <2>3. c.mTryStack[t].label # l
    BY <1>2, <1>3, <2>2 DEF Apart
  <2>4. c.mTryStack[t].label \in Nat
    BY <1>1, <1>2, <2>2 DEF Tries
  <2>5. P[c.mTryStack[t].label] = None
    BY <1>2, <2>2 DEF Nowhere
  <2>6. QED
    BY <2>2, <2>3, <2>4, <2>5 DEF Buried
<1>8. QED
  BY <1>6, <1>7 DEF Nowhere

\* The end of a try block and of its handlers.
LEMMA EndTryLeads ==
  ASSUME Compiling(cg, open), Leading(cg, open, n), EndTry
  PROVE  Leading(cg', open', n')
<1>1. /\ CodeOK(cg, {}) /\ CodeShape(cg) /\ OpenOK(open) /\ Standing(cg, open)
      /\ Apart(cg) /\ Handlers(cg, open)
  BY DEF Compiling, CodeOK
<1>2. open[Len(open)].k = "handlers"
  BY <1>1, TopIs DEF EndTry, Ending
<1>3. PICK m : m = Len(cg.code)
  OBVIOUS
<1>4. PICK l : l = cg.mTryStack[Len(cg.mTryStack)].label
  OBVIOUS
<1>5. m >= 1 /\ cg.code[m].op = "JMP"
  BY <1>2, <1>3, <1>1 DEF Handlers
<1>6. PICK b : b = Backspace(cg)
  OBVIOUS
<1>7. PICK off \in {0, -1} : off = 0
  OBVIOUS
<1>8. PICK d : d = Here(b, l, off)
  OBVIOUS
<1>9. PICK f \in Stacks : f = "mTryStack"
  BY DEF Stacks
<1>10. cg' = Pop(d, f) /\ open' = Close(open) /\ n' = n
  <2>1. Last(cg.code).op = "JMP"
    BY <1>3, <1>5 DEF Last
  <2>2. b.mTryStack = cg.mTryStack
    BY <1>1, <1>6 DEF Backspace, Pop, CodeShape, Fields
  <2>3. TOS(b, "mTryStack").label = l
    BY <1>4, <2>2 DEF TOS, Last
  <2>4. QED
    BY <1>6, <1>7, <1>8, <1>9, <2>1, <2>3 DEF EndTry, Reduce
<1>11. Len(cg.mTryStack) >= 1
  <2>1. PICK h : Tower(cg, open, h)
    BY <1>1 DEF Standing
  <2>2. Len(open) \in 1 .. Len(open)
    BY <1>1, SeqShape DEF OpenOK
  <2>3. QED
    BY <1>1, <1>2, <2>1, <2>2, HandlersTry
<1>12. EndTryPost(cg, cg', l, m) /\ l \in 1 .. Len(cg.label)
  <2>1. d = Here(b, l, 0) /\ cg' = Pop(d, "mTryStack")
    BY <1>7, <1>8, <1>9, <1>10
  <2>2. QED
    BY <1>1, <1>3, <1>4, <1>5, <1>6, <1>11, <2>1, EndTryFacts
<1>13. PICK P, E : Homeward(cg, open, n, P, E)
  BY DEF Leading
<1>14. /\ P \in [Nat -> Purposes] /\ Homing(cg, P, E) /\ Nowhere(cg, P) /\ AtHome(cg, open, P)
       /\ Order(open, n, E) /\ Tied(cg, E) /\ cg.in_loop = Waits(open) /\ LastJump(cg, open, P)
  BY <1>13 DEF Homeward
<1>15. l \in Nat /\ P[l] = None /\ ~Other(cg, l)
  <2>1. Len(cg.mTryStack) \in Nat /\ Len(cg.label) \in Nat
    BY <1>1, StackFacts, ShapeFacts DEF CodeOK
  <2>2. PICK t \in 1 .. Len(cg.mTryStack) : t = Len(cg.mTryStack)
    BY <1>11, <2>1
  <2>3. QED
    BY <1>1, <1>4, <1>12, <1>14, <2>1, <2>2 DEF Nowhere, Apart
<1>16. PICK Q : Buried(P, Q, l)
  BY <1>14, <1>15, CanBury
<1>17. \A k \in 1 .. Len(cg.label) : P[k] # Dead /\ k # l => m \notin cg.label[k].refs
  BY <1>2, <1>3, <1>4, <1>14 DEF LastJump
<1>18. TryOver(cg, d, Q, E)
  BY <1>3, <1>5, <1>6, <1>7, <1>8, <1>12, <1>14, <1>15, <1>16, <1>17, TryOverGoes
<1>19. Homing(d, Q, E) /\ d.body = cg.body /\ d.end = cg.end
  BY <1>18 DEF TryOver
<1>20. Goes(d, cg', Q, E)
  BY <1>10, <1>19, PopGoes
<1>21. Homing(cg', Q, E) /\ cg'.body = cg.body /\ cg'.end = cg.end
  BY <1>19, <1>20 DEF Goes, SamePlace
<1>22. /\ cg'.label_stack = cg.label_stack /\ cg'.break_stack = cg.break_stack
       /\ cg'.continue_stack = cg.continue_stack /\ cg'.block_stack = cg.block_stack
       /\ cg'.in_loop = cg.in_loop /\ cg'.goto = cg.goto
       /\ Shrinks(cg.mTryStack, cg'.mTryStack)
  BY <1>12 DEF EndTryPost
<1>23. Nowhere(cg', Q)
  BY <1>1, <1>4, <1>11, <1>14, <1>16, <1>22, NowhereBuried
<1>24. AtHome(cg, open, Q)
  <2>1. Stacked(cg) /\ IsSeq(open)
    BY <1>1, StackedOK DEF OpenOK
  <2>2. QED
    BY <1>14, <1>15, <1>16, <2>1, HomeBuried
<1>25. PICK x : TopHome(cg, open, Q, x)
  BY <1>1, <1>24, HomeTop DEF OpenOK
<1>26. Base(cg, open, Q, x) /\ x \in Marks /\ Highs(cg) = Above(x, open, Len(open))
  BY <1>25 DEF TopHome
<1>27. Highs(cg) = x
  <2>1. PICK i : i = Len(open)
    OBVIOUS
  <2>2. /\ LabelsOf(open[i].k) = 0 /\ BreaksOf(open, i) = 0
        /\ ContinuesOf(open, i) = 0 /\ BlocksOf(open, i) = 0
    BY <1>2, <2>1 DEF LabelsOf, Loops, BreaksOf, ContinuesOf, BlocksOf, IsBody, Owns, Blocks
  <2>3. x = Above(x, open, i)
    BY <1>26, <2>2 DEF Above, Marks
  <2>4. QED
    BY <1>26, <2>1, <2>3
<1>28. Alike(cg, cg', x) /\ Highs(cg') = x
  <2>1. SameBlocks(cg, cg')
    BY <1>22 DEF SameBlocks
  <2>2. QED
    BY <1>1, <1>22, <1>27, <2>1, SameBlocksHome
<1>29. cg'.in_loop = FALSE
  <2>1. Waits(open) = FALSE
    BY <1>2 DEF Waits, Loops
  <2>2. QED
    BY <1>14, <1>22, <2>1
<1>30. open[Len(open)].k # "function" /\ open[Len(open)].k # "catch"
  BY <1>2
<1>31. open'[Len(open')].k # "handlers"
  BY <1>1, <1>10, <1>30, CloseOpen
<1>32. LastJump(cg', open', Q)
  BY <1>31 DEF LastJump
<1>33. Outside(open, open')
  BY <1>1, <1>10, <1>14, <1>30, CloseOutside
<1>34. Passed(open, E, E)
  BY DEF Passed
<1>35. Tied(cg', E)
  BY <1>14, <1>21 DEF Tied
<1>36. Q \in [Nat -> Purposes]
  BY <1>16 DEF Buried
<1>37. Homeward(cg', open', n, Q, E)
  BY <1>1, <1>14, <1>21, <1>23, <1>26, <1>28, <1>29, <1>32, <1>33, <1>34, <1>35, <1>36, LeavesHome
<1>38. QED
  BY <1>10, <1>37 DEF Leading
-----------------------------------------------------------------------------
(* The end of the function                                                 *)

\* At the end only the label of the function's returns is still put: what the
\* others stand for does not matter any more.
Alone(Q) == Q[RetLabel] = None /\ \A k \in Nat : k # RetLabel => Q[k] = Dead
\* What else happens to the jumps is that they stay where they lead.
Remains(c, d, Q, E) ==
  /\ Homing(d, Q, E) /\ d.body = c.body /\ d.end = c.end /\ RetLabel \in 1 .. Len(d.label)

\* The other labels may be forgotten.
LEMMA HomingAlone ==
  ASSUME NEW c, NEW P, NEW E, Homing(c, P, E), P[RetLabel] = None, NEW Q, Alone(Q)
  PROVE  Homing(c, Q, E)
<1>1. Dead \notin Goals
  BY GoalIsNone
<1>2. \A k \in 1 .. Len(c.label) : Q[k] # Dead => Q[k] = P[k]
  BY ShapedFacts DEF Alone, Homing
<1>3. \A k \in 1 .. Len(c.label) : Q[k] # Dead =>
        \A i \in c.label[k].refs :
          i \in 1 .. Len(c.code) /\ (Bound(c.code[i]) => Goal(c.code[i].at) = Q[k])
  BY <1>2 DEF Homing
<1>4. \A k \in 1 .. Len(c.label) : Q[k] \in Goals => c.label[k].to = 0 \/ c.label[k].to = E[Q[k]]
  BY <1>1, <1>2 DEF Homing
<1>5. QED
  BY <1>3, <1>4 DEF Homing

\* A jump at the very end is taken out.
LEMMA BackGoes ==
  ASSUME NEW c, NEW Q, NEW E, Homing(c, Q, E), Alone(Q), RetLabel \in 1 .. Len(c.label),
         NEW m, m = Len(c.code), m >= 1,
         NEW b, b = [c EXCEPT !.label[RetLabel].refs = @ \ {m}], NEW d, d = Backspace(b)
  PROVE  Remains(c, d, Q, E)
<1>1. Shaped(c) /\ m \in Nat /\ Len(c.label) \in Nat
  BY ShapedFacts DEF Homing
<1>2. DOMAIN c = Fields /\ IsSeq(c.code) /\ c.label \in Seq(LabelType)
  BY <1>1 DEF Shaped
<1>3. PICK l : l = RetLabel
  OBVIOUS
<1> DEFINE x == [c.label[l] EXCEPT !.refs = @ \ {m}]
<1>4. "label" \in Fields /\ "code" \in Fields
  BY DEF Fields
<1>5. b.label = [c.label EXCEPT ![l] = x] /\ DOMAIN b = Fields
      /\ \A f \in Fields \ {"label"} : b[f] = c[f]
  BY <1>2, <1>3, <1>4
<1>6. d = [b EXCEPT !.code = Front(c.code)]
  BY <1>4, <1>5 DEF Backspace, Pop
<1>7. d.code = Front(c.code) /\ DOMAIN d = Fields /\ \A f \in Fields \ {"code"} : d[f] = b[f]
  BY <1>4, <1>5, <1>6
<1>8. d.label = [c.label EXCEPT ![l] = x] /\ \A f \in Fields \ {"code", "label"} : d[f] = c[f]
  BY <1>4, <1>5, <1>7
<1>9. d.body = c.body /\ d.end = c.end /\ d.here = c.here
  BY <1>8 DEF Fields
<1>10. c.label[l] \in LabelType
  BY <1>2, <1>3, ElementOfSeq
<1>11. x \in LabelType /\ x.refs = c.label[l].refs \ {m}
  BY <1>10 DEF LabelType
<1> HIDE DEF x
<1>12. /\ d.label \in Seq(LabelType) /\ Len(d.label) = Len(c.label)
       /\ \A k \in 1 .. Len(c.label) : d.label[k] = IF k = l THEN x ELSE c.label[k]
  <2>1. PICK s \in Seq(LabelType) : s = c.label
    BY <1>2
  <2>2. PICK y \in LabelType : y = x
    BY <1>11
  <2>3. PICK i \in 1 .. Len(s) : i = l
    BY <1>3, <2>1
  <2>4. PICK t : t = [s EXCEPT ![i] = y]
    OBVIOUS
  <2>5. /\ t \in Seq(LabelType) /\ Len(t) = Len(s)
        /\ \A k \in 1 .. Len(s) : t[k] = IF k = i THEN y ELSE s[k]
    BY <2>4, ExceptSeq
  <2>6. d.label = t
    BY <1>8, <2>1, <2>2, <2>3, <2>4
  <2>7. QED
    BY <2>1, <2>2, <2>3, <2>5, <2>6
<1>13. /\ IsSeq(d.code) /\ Len(d.code) = m - 1
       /\ \A i \in 1 .. m - 1 : d.code[i] = c.code[i]
  <2>1. PICK s : s = c.code
    OBVIOUS
  <2>2. IsSeq(s) /\ Len(s) # 0
    BY <1>1, <1>2, <2>1
  <2>3. /\ IsSeq(Front(s)) /\ Len(Front(s)) = Len(s) - 1
        /\ \A i \in 1 .. Len(s) - 1 : Front(s)[i] = s[i]
    BY <2>2, FrontShape
  <2>4. QED
    BY <1>7, <2>1, <2>3
<1>14. (\A i \in 1 .. m - 1 : i \in 1 .. m) /\ \A i \in 1 .. m : i # m => i \in 1 .. m - 1
  BY <1>1, SMTT(40)
<1>15. Shaped(d)
  BY <1>1, <1>7, <1>9, <1>12, <1>13, <1>14, ZenonT(60) DEF Shaped
<1>16. ASSUME NEW k \in 1 .. Len(d.label), Q[k] # Dead, NEW i \in d.label[k].refs
       PROVE  i \in 1 .. Len(d.code) /\ (Bound(d.code[i]) => Goal(d.code[i].at) = Q[k])
  <2>1. k = l /\ k \in 1 .. Len(c.label)
    BY <1>1, <1>3, <1>12, <1>16 DEF Alone
  <2>2. i \in c.label[k].refs /\ i # m
    BY <1>11, <1>12, <1>16, <2>1
  <2>3. i \in 1 .. m /\ (Bound(c.code[i]) => Goal(c.code[i].at) = Q[k])
    BY <1>16, <2>1, <2>2 DEF Homing
  <2>4. QED
    BY <1>13, <1>14, <2>2, <2>3
<1>17. \A i \in 1 .. Len(d.code) : Bound(d.code[i]) =>
         /\ Goal(d.code[i].at) \in Goals
         /\ d.code[i].arg = 0 \/ d.code[i].arg = E[Goal(d.code[i].at)]
  <2>1. SUFFICES ASSUME NEW i \in 1 .. Len(d.code), Bound(d.code[i])
                 PROVE  /\ Goal(d.code[i].at) \in Goals
                        /\ d.code[i].arg = 0 \/ d.code[i].arg = E[Goal(d.code[i].at)]
    OBVIOUS
  <2>2. i \in 1 .. Len(c.code) /\ d.code[i] = c.code[i]
    BY <1>13, <1>14
  <2>3. /\ Goal(c.code[i].at) \in Goals
        /\ c.code[i].arg = 0 \/ c.code[i].arg = E[Goal(c.code[i].at)]
    BY <2>1, <2>2 DEF Homing
  <2>4. QED
    BY <2>2, <2>3, SMTT(40)
<1>18. \A k \in 1 .. Len(d.label) : Q[k] \notin Goals
  BY <1>1, <1>12, GoalIsNone DEF Alone
<1>19. E \in [Goals -> Nat]
  BY SMTT(40) DEF Homing
<1>20. Homing(d, Q, E)
  BY <1>15, <1>16, <1>17, <1>18, <1>19 DEF Homing
<1>21. QED
  BY <1>9, <1>12, <1>20 DEF Remains

\* What goes on remains.
LEMMA GoesRemains ==
  ASSUME NEW c, NEW d, NEW Q, NEW E, RetLabel \in 1 .. Len(c.label), Goes(c, d, Q, E)
  PROVE  Remains(c, d, Q, E)
BY DEF Goes, SamePlace, Remains

\* Two steps are one.
LEMMA RemainsTwice ==
  ASSUME NEW c, NEW d, NEW e, NEW Q, NEW E, Remains(c, d, Q, E), Remains(d, e, Q, E)
  PROVE  Remains(c, e, Q, E)
BY DEF Remains

\* The label of the function's returns is put, once or again.
LEMMA ReturnRemains ==
  ASSUME NEW c, NEW Q, NEW E, Homing(c, Q, E), Alone(Q), RetLabel \in 1 .. Len(c.label),
         NEW off \in {0, -1}, NEW d, d = Here(c, RetLabel, off)
  PROVE  Remains(c, d, Q, E)
<1>1. PICK l : l = RetLabel
  OBVIOUS
<1>2. l \in 1 .. Len(c.label) /\ Q[l] = None /\ d = Here(c, l, off)
  BY <1>1 DEF Alone
<1>3. Goes(c, d, Q, E)
  BY <1>2, HereGoes
<1>4. QED
  BY <1>3, GoesRemains

\* The function is complete: its jumps lead where they did.
LEMMA FinalizeRemains ==
  ASSUME NEW c, NEW Q, NEW E, Homing(c, Q, E), Alone(Q), RetLabel \in 1 .. Len(c.label),
         Len(c.code) >= 1, NEW e, e = FinalizeFunction(c)
  PROVE  Remains(c, e, Q, E)
<1>1. PICK zero \in {0, -1} : zero = 0
  OBVIOUS
<1>2. PICK back \in {0, -1} : back = -1
  OBVIOUS
<1>3. PICK op : op = Last(c.code).op
  OBVIOUS
<1>4. PICK d : d = IF EndsInJump(c)
                   THEN Here(Backspace([c EXCEPT !.label[RetLabel].refs = @ \ {Len(c.code)}]),
                             RetLabel, 0)
                   ELSE IF op = "UNWIND" THEN Here(c, RetLabel, -1) ELSE c
  OBVIOUS
<1>5. Remains(c, c, Q, E)
  BY DEF Remains
<1>6. Remains(c, d, Q, E)
  <2>1. CASE EndsInJump(c)
    <3>1. PICK m : m = Len(c.code)
      OBVIOUS
    <3>2. PICK a : a = [c EXCEPT !.label[RetLabel].refs = @ \ {m}]
      OBVIOUS
    <3>3. PICK b : b = Backspace(a)
      OBVIOUS
    <3>4. Remains(c, b, Q, E)
      BY <3>1, <3>2, <3>3, BackGoes
    <3>5. d = Here(b, RetLabel, zero)
      BY <1>1, <1>4, <2>1, <3>1, <3>2, <3>3
    <3>6. Homing(b, Q, E) /\ RetLabel \in 1 .. Len(b.label)
      BY <3>4 DEF Remains
    <3>7. Remains(b, d, Q, E)
      BY <3>5, <3>6, ReturnRemains
    <3>8. QED
      BY <3>4, <3>7, RemainsTwice
  <2>2. CASE ~EndsInJump(c) /\ op = "UNWIND"
    <3>1. d = Here(c, RetLabel, back)
      BY <1>2, <1>4, <2>2
    <3>2. QED
      BY <3>1, ReturnRemains
  <2>3. CASE ~EndsInJump(c) /\ op # "UNWIND"
    BY <1>4, <1>5, <2>3
  <2>4. QED
    BY <2>1, <2>2, <2>3
<1>7. Homing(d, Q, E) /\ RetLabel \in 1 .. Len(d.label)
  BY <1>6 DEF Remains
<1>8. PICK clear \in BOOLEAN : clear = TRUE
  OBVIOUS
<1>9. PICK one : one = 1
  OBVIOUS
<1>10. PICK u : u = CheckObjects(d, one, clear)
  OBVIOUS
<1>11. Remains(d, u, Q, E)
  <2>1. Goes(d, u, Q, E)
    BY <1>7, <1>10, UnwindGoes
  <2>2. QED
    BY <1>7, <2>1, GoesRemains
<1>12. Homing(u, Q, E) /\ RetLabel \in 1 .. Len(u.label)
  BY <1>11 DEF Remains
<1>13. PICK r : r = IF u.code # <<>> /\ Last(u.code).op = "UNWIND" THEN Here(u, RetLabel, -1) ELSE u
  OBVIOUS
<1>14. Remains(u, r, Q, E)
  <2>1. CASE u.code # <<>> /\ Last(u.code).op = "UNWIND"
    <3>1. r = Here(u, RetLabel, back)
      BY <1>2, <1>13, <2>1
    <3>2. QED
      BY <1>12, <3>1, ReturnRemains
  <2>2. CASE ~(u.code # <<>> /\ Last(u.code).op = "UNWIND")
    BY <1>12, <1>13, <2>2 DEF Remains
  <2>3. QED
    BY <2>1, <2>2
<1>15. Homing(r, Q, E) /\ RetLabel \in 1 .. Len(r.label)
  BY <1>14 DEF Remains
<1>16. PICK o : o = <<>>
  OBVIOUS
<1>17. PICK stmt : stmt = ""
  OBVIOUS
<1>18. PICK s : s = Begin(r, o, stmt)
  OBVIOUS
<1>19. Homing(s, Q, E) /\ BeginsAt(r, s, o, stmt)
  BY <1>15, <1>17, <1>18, BeginGoes
<1>20. BegunSame(r, s)
  BY <1>19, BeginSame
<1>21. Remains(r, s, Q, E)
  BY <1>15, <1>19, <1>20 DEF BegunSame, Remains
<1>22. PICK ret : ret = "RET"
  OBVIOUS
<1>23. PICK arg : arg = 0
  OBVIOUS
<1>24. PICK t : t = Emit(s, ret, arg)
  OBVIOUS
<1>25. Homing(s, Q, E) /\ RetLabel \in 1 .. Len(s.label)
  BY <1>21 DEF Remains
<1>26. Remains(s, t, Q, E)
  <2>1. ret # "JMP"
    BY <1>22
  <2>2. Goes(s, t, Q, E)
    BY <1>19, <1>24, <2>1, EmitGoes
  <2>3. QED
    BY <1>25, <2>2, GoesRemains
<1>27. PICK f \in Stacks : f = "context_stack"
  BY DEF Stacks
<1>28. PICK g : g = Pop(t, f)
  OBVIOUS
<1>29. Remains(t, g, Q, E)
  <2>1. Homing(t, Q, E) /\ RetLabel \in 1 .. Len(t.label)
    BY <1>26 DEF Remains
  <2>2. Goes(t, g, Q, E)
    BY <1>28, <2>1, PopGoes, SMTT(40)
  <2>3. QED
    BY <2>1, <2>2, GoesRemains
<1>30. e = g
  BY <1>3, <1>4, <1>8, <1>9, <1>10, <1>13, <1>16, <1>17, <1>18, <1>22, <1>23, <1>24, <1>27, <1>28
     DEF FinalizeFunction
<1>31. Remains(c, u, Q, E)
  BY <1>6, <1>11, RemainsTwice
<1>32. Remains(c, r, Q, E)
  BY <1>14, <1>31, RemainsTwice
<1>33. Remains(c, s, Q, E)
  BY <1>21, <1>32, RemainsTwice
<1>34. Remains(c, t, Q, E)
  BY <1>26, <1>33, RemainsTwice
<1>35. QED
  BY <1>29, <1>30, <1>34, RemainsTwice

\* What a break or continue in a complete function needs.
Settled(c, E) ==
  /\ \A i \in 1 .. Len(c.code) : Bound(c.code[i]) =>
       /\ Goal(c.code[i].at) \in Goals
       /\ c.code[i].arg # 0 => c.code[i].arg = E[Goal(c.code[i].at)]
  /\ DOMAIN c.code = 1 .. Len(c.code)

\* A break or continue leads where the history of c says that its goal is.
LeadsIn(c, x) ==
  x.op = "JMP" =>
    /\ x.at.stmt = "break" => x.arg = c.end[Innermost(x.at.nest)]
    /\ x.at.stmt = "continue" => x.arg = c.body[Innermost({b \in x.at.nest : b.loop})]

\* Then it leads where the history says that its goal is.
LEMMA SettledLeads ==
  ASSUME NEW c, NEW E, Settled(c, E), Tied(c, E), JumpsSet(c), NEW i \in DOMAIN c.code
  PROVE  LeadsIn(c, c.code[i])
<1>1. PICK x : x = c.code[i]
  OBVIOUS
<1>2. i \in 1 .. Len(c.code)
  BY DEF Settled
<1>3. x.op = "JMP" => x.arg # 0
  BY <1>1, <1>2 DEF JumpsSet, JumpOps
<1>4. Bound(x) => Goal(x.at) \in Goals /\ x.arg = E[Goal(x.at)]
  BY <1>1, <1>2, <1>3 DEF Settled, Bound
<1>5. ASSUME x.op = "JMP", x.at.stmt = "break"
      PROVE  x.arg = c.end[Innermost(x.at.nest)]
  <2>1. PICK g : g = Innermost(x.at.nest)
    OBVIOUS
  <2>2. Goal(x.at) = <<"end", g>> /\ Bound(x)
    BY <1>5, <2>1 DEF Goal, Bound
  <2>3. g \in Nat /\ x.arg = E[<<"end", g>>] /\ E[<<"end", g>>] # 0
    BY <1>3, <1>4, <1>5, <2>2 DEF Goals
  <2>4. QED
    BY <2>1, <2>3 DEF Tied
<1>6. ASSUME x.op = "JMP", x.at.stmt = "continue",
             NEW S, S = {b \in x.at.nest : b.loop}
      PROVE  x.arg = c.body[Innermost(S)]
  <2>1. PICK g : g = Innermost(S)
    OBVIOUS
  <2>2. Goal(x.at) = <<"body", g>> /\ Bound(x)
    BY <1>6, <2>1 DEF Goal, Bound
  <2>3. g \in Nat /\ x.arg = E[<<"body", g>>] /\ E[<<"body", g>>] # 0
    BY <1>3, <1>4, <1>6, <2>2 DEF Goals
  <2>4. QED
    BY <2>1, <2>3 DEF Tied
<1>7. QED
  BY <1>1, <1>5, <1>6 DEF LeadsIn

\* The closing brace of the function.
LEMMA EndFunctionSettles ==
  ASSUME Compiling(cg, open), Leading(cg, open, n), EndFunction
  PROVE  \E E : Settled(cg', E) /\ Tied(cg', E)
<1>1. PICK b : b = Between(cg, open)
  OBVIOUS
<1>2. PICK f : f = FinishBlock(b)
  OBVIOUS
<1>3. PICK off \in {0, -1} : off = 0
  OBVIOUS
<1>4. PICK d : d = Here(f, RetLabel, off)
  OBVIOUS
<1>5. /\ cg' = FinalizeFunction(d) /\ (cg.goto.from # {} => cg.goto.to # {}) /\ cg.code # <<>>
  BY <1>1, <1>2, <1>3, <1>4 DEF EndFunction
<1>6. open[Len(open)].k = "function"
  BY TopIs DEF EndFunction, Ending, Compiling
<1>7. EndShape(d) /\ Len(d.code) >= 1
  <2>1. d = Here(f, RetLabel, 0)
    BY <1>3, <1>4
  <2>2. QED
    BY <1>1, <1>2, <1>5, <1>6, <2>1, ReturnHere
<1>8. PICK P, E : Homeward(cg, open, n, P, E)
  BY DEF Leading
<1>9. Homing(cg, P, E) /\ P[RetLabel] = None /\ Tied(cg, E)
  BY <1>8 DEF Homeward, Nowhere
<1>10. PICK stmt : stmt = ""
  OBVIOUS
<1>11. PICK o : o = open
  OBVIOUS
<1>12. Homing(b, P, E) /\ BeginsAt(cg, b, o, stmt)
  BY <1>1, <1>9, <1>10, <1>11, BeginGoes
<1>13. BegunSame(cg, b)
  BY <1>12, BeginSame
<1>14. CodeOK(b, {}) /\ Aside(cg, b)
  BY <1>1, HistoryOK DEF Compiling
<1>15. PICK F : F = FunFlags
  OBVIOUS
<1>16. Closable(b, F)
  <2>1. FunctionOnly(cg)
    BY <1>6, OnlyFunction
  <2>2. FunctionOnly(b)
    BY <1>14, <2>1 DEF FunctionOnly, Closable, Frame, In, Aside
  <2>3. QED
    BY <1>15, <2>2 DEF FunctionOnly
<1>17. "BREAKABLE" \notin F /\ "CONTINUEABLE" \notin F /\ "IN_SWITCH" \notin F
  BY <1>15 DEF FunFlags
<1>18. PICK i \in Nat : i = 0
  OBVIOUS
<1>19. PICK g \in Goals : g = <<"end", i>>
  BY DEF Goals
<1>20. GoalOf(b, P, E, F, g)
  BY <1>17 DEF GoalOf
<1>21. PICK m : m = Len(b.code) + 1
  OBVIOUS
<1>22. E = EndOf(E, F, g, m)
  BY <1>17 DEF EndOf
<1>23. Goes(b, f, P, E)
  BY <1>2, <1>12, <1>14, <1>16, <1>20, <1>21, <1>22, FinishGoes
<1>24. Homing(f, P, E) /\ f.body = cg.body /\ f.end = cg.end
  BY <1>13, <1>23 DEF Goes, SamePlace, BegunSame
<1>25. RetLabel \in 1 .. Len(f.label)
  <2>1. Len(cg.label) \in Nat \ {0}
    BY ShapeFacts DEF Compiling, CodeOK
  <2>2. RetLabel \in 1 .. Len(b.label)
    BY <1>13, <2>1 DEF BegunSame, RetLabel
  <2>3. QED
    BY <1>23, <2>2 DEF Goes
<1>26. PICK Q : Q = [k \in Nat |-> IF k = RetLabel THEN None ELSE Dead]
  OBVIOUS
<1>27. Alone(Q)
  BY <1>26 DEF Alone, RetLabel
<1>28. Homing(f, Q, E)
  BY <1>9, <1>24, <1>27, HomingAlone
<1>29. Remains(f, d, Q, E)
  BY <1>4, <1>25, <1>27, <1>28, ReturnRemains
<1>30. Homing(d, Q, E) /\ RetLabel \in 1 .. Len(d.label)
  BY <1>29 DEF Remains
<1>31. Remains(d, cg', Q, E)
  BY <1>5, <1>7, <1>27, <1>30, FinalizeRemains
<1>32. Homing(cg', Q, E) /\ cg'.body = cg.body /\ cg'.end = cg.end
  BY <1>24, <1>29, <1>31 DEF Remains
<1>33. Tied(cg', E)
  BY <1>9, <1>32 DEF Tied
<1>34. Settled(cg', E)
  <2>1. DOMAIN cg'.code = 1 .. Len(cg'.code)
    BY <1>32, ShapedFacts DEF Homing
  <2>2. QED
    BY <1>32, <2>1 DEF Homing, Settled
<1>35. QED
  BY <1>33, <1>34
-----------------------------------------------------------------------------
(* Every jump leads home                                                   *)

\* At the beginning there is nothing that a jump could miss.
LEMMA InitHoming ==
  ASSUME Init, NEW P, NEW E, E \in [Goals -> Nat], \A g \in Goals : E[g] = 0
  PROVE  Homing(cg, P, E)
<1>1. CodeShape(cg)
  BY InitCode DEF CodeOK
<1>2. cg.code = <<>> /\ cg.label = <<[to |-> 0, refs |-> {}]>> /\ DOMAIN cg.here = HereFields
  BY DEF Init, HereFields
<1>3. Len(cg.code) = 0 /\ Len(cg.label) = 1 /\ cg.label[1].to = 0 /\ cg.label[1].refs = {}
  BY <1>2
<1>4. Shaped(cg)
  BY <1>1, <1>2, <1>3 DEF Shaped, CodeShape
<1>5. QED
  BY <1>3, <1>4 DEF Homing

\* The function's own block is all that is on the stacks.
LEMMA InitAtHome ==
  ASSUME Init, NEW P
  PROVE  AtHome(cg, open, P)
<1>1. open = <<[k |-> "function", done |-> FALSE, live |-> <<>>, id |-> 0]>>
  BY DEF Init
<1>2. Len(open) = 1 /\ open[1].k = "function"
  BY <1>1
<1>3. /\ Len(cg.label_stack) = 0 /\ Len(cg.break_stack) = 0 /\ Len(cg.continue_stack) = 0
      /\ Len(cg.block_stack) = 1 /\ cg.block_stack[1] = FunFlags
  BY DEF Init, FunFlags
<1>4. PICK t : t = Highs(cg)
  OBVIOUS
<1>5. t = [label |-> 0, brk |-> 0, cont |-> 0, blk |-> 1]
  BY <1>3, <1>4 DEF Highs
<1>6. Ground \in Marks /\ t \in Marks /\ Under(Ground, t) /\ Under(Ground, Ground) /\ Under(t, t)
  BY <1>5 DEF Ground, Marks, Under
<1>7. PICK one : one = 1
  OBVIOUS
<1>8. open[one].k = "function" /\ ~IsBody(open, one)
  BY <1>2, <1>7 DEF IsBody
<1>9. Above(Ground, open, one) = t
  <2>1. LabelsOf(open[one].k) = 0
    BY <1>8 DEF LabelsOf, Loops
  <2>2. BreaksOf(open, one) = 0 /\ ContinuesOf(open, one) = 0 /\ BlocksOf(open, one) = 1
    BY <1>8 DEF BreaksOf, ContinuesOf, BlocksOf, Owns, Blocks
  <2>3. QED
    BY <1>5, <2>1, <2>2 DEF Above, Ground
<1>10. Spot(cg, open, Ground, one, P)
  <2>1. cg.block_stack[Ground.blk + 1] = FunFlags
    BY <1>3 DEF Ground
  <2>2. open[one].k \notin {"if", "else"} \union Loops /\ open[one].k # "switch"
    BY <1>8 DEF Loops
  <2>3. QED
    BY <1>8, <2>1, <2>2 DEF Spot, FunFlags
<1>11. PICK h : h = [i \in 1 .. 2 |-> IF i = 1 THEN Ground ELSE t]
  OBVIOUS
<1>12. h \in [1 .. 2 -> Marks] /\ h[1] = Ground /\ h[2] = t
  BY <1>6, <1>11
<1>13. \A i, j \in 1 .. 2 : i <= j => Under(h[i], h[j])
  BY <1>6, <1>12
<1>14. one + 1 = 2 /\ \A i \in 1 .. one : i = one /\ i = 1 /\ i + 1 = 2
  BY <1>7
<1>15. HomePart(cg, open, P, h, one)
  BY <1>9, <1>10, <1>12, <1>13, <1>14 DEF HomePart
<1>16. Home(cg, open, P, h)
  BY <1>2, <1>4, <1>7, <1>12, <1>15 DEF Home
<1>17. QED
  BY <1>16 DEF AtHome

\* No goal is behind the compiler at the beginning.
LEMMA InitOrder ==
  ASSUME Init, NEW E, \A g \in Goals : E[g] = 0
  PROVE  Order(open, n, E) /\ Tied(cg, E)
<1>1. open = <<[k |-> "function", done |-> FALSE, live |-> <<>>, id |-> 0]>> /\ n = 0
  BY DEF Init
<1>2. Len(open) = 1 /\ open[1].k = "function" /\ open[1].id = 0 /\ open[1].done = FALSE
  BY <1>1
<1>3. \A i \in Nat : <<"end", i>> \in Goals /\ <<"body", i>> \in Goals
  BY DEF Goals
<1>4. \A i \in Nat : E[<<"end", i>>] = 0 /\ E[<<"body", i>>] = 0
  BY <1>3
<1>5. \A i \in 1 .. Len(open) : i = 1 /\ i = Len(open)
  BY <1>2
<1>6. Order(open, n, E)
  <2>1. \A i \in 1 .. Len(open) : /\ open[i].id \in 0 .. n /\ open[i].done \in BOOLEAN
                                  /\ E[<<"end", open[i].id>>] = 0
                                  /\ E[<<"body", open[i].id>>] = 0
    <3>1. SUFFICES ASSUME NEW i \in 1 .. Len(open)
                   PROVE  /\ open[i].id \in 0 .. n /\ open[i].done \in BOOLEAN
                          /\ E[<<"end", open[i].id>>] = 0
                          /\ E[<<"body", open[i].id>>] = 0
      OBVIOUS
    <3>2. i = 1
      BY <1>5
    <3>3. open[i].id = 0 /\ open[i].done = FALSE
      BY <1>2, <3>2
    <3>4. n = 0
      BY <1>1
    <3>5. E[<<"end", 0>>] = 0 /\ E[<<"body", 0>>] = 0
      BY <1>4
    <3>6. open[i].id \in 0 .. n
      BY <3>3, <3>4
    <3>7. QED
      BY <3>3, <3>5, <3>6
  <2>2. ASSUME NEW i \in 1 .. Len(open), NEW j \in 1 .. Len(open), i < j
        PROVE  FALSE
    BY <1>5, <2>2
  <2>3. \A i \in 1 .. Len(open) - 1 : FALSE
    BY <1>2
  <2>4. n \in Nat
    BY <1>1
  <2>5. QED
    BY <1>4, <2>1, <2>2, <2>3, <2>4 DEF Order
<1>7. Tied(cg, E)
  <2>1. DOMAIN cg.end = 0 .. MaxStatements /\ DOMAIN cg.body = 0 .. MaxStatements
    BY DEF Init
  <2>2. QED
    BY <1>4, <2>1 DEF Tied
<1>8. QED
  BY <1>6, <1>7

\* So it begins.
LEMMA InitLeads ==
  ASSUME Init
  PROVE  Leading(cg, open, n)
<1>1. PICK P : P = [k \in Nat |-> None]
  OBVIOUS
<1>2. PICK E : E = [g \in Goals |-> 0]
  OBVIOUS
<1>3. P \in [Nat -> Purposes]
  BY <1>1 DEF Purposes
<1>4. E \in [Goals -> Nat] /\ \A g \in Goals : E[g] = 0
  BY <1>2
<1>5. Homing(cg, P, E) /\ AtHome(cg, open, P) /\ Order(open, n, E) /\ Tied(cg, E)
  BY <1>4, InitHoming, InitAtHome, InitOrder
<1>6. Nowhere(cg, P)
  <2>1. cg.goto.label = 0 /\ Len(cg.mTryStack) = 0
    BY DEF Init
  <2>2. P[RetLabel] = None
    BY <1>1 DEF RetLabel
  <2>3. QED
    BY <2>1, <2>2 DEF Nowhere
<1>7. open[Len(open)].k = "function" /\ cg.in_loop = FALSE
  BY DEF Init
<1>8. Waits(open) = FALSE /\ LastJump(cg, open, P)
  BY <1>7 DEF Waits, Loops, LastJump
<1>9. QED
  BY <1>3, <1>5, <1>6, <1>7, <1>8 DEF Homeward, Leading

\* While a function is compiled its labels lead the jumps home; once it is
\* complete they have got there.
Homebound ==
  /\ status = "compiling" => Leading(cg, open, n)
  /\ status \in {"running", "returned", "thrown"} =>
       \A i \in DOMAIN cg.code : LeadsHome(cg.code[i])

\* The statements that open, and those that neither open nor close.
LEMMA OpeningLeads ==
  ASSUME "bare" \notin Forms, n \in 0 .. MaxStatements, Compiling(cg, open),
         Leading(cg, open, n), Opening
  PROVE  Leading(cg', open', n')
<1>1. n \in Nat
  BY Bounds
<1>2. CASE Expression \/ Declare \/ Return \/ Case \/ Goto \/ Label
  BY <1>2, ExpressionLeads, DeclareLeads, ReturnLeads, CaseLeads, GotoLeads, LabelLeads
<1>3. CASE OpenBlock \/ If \/ While \/ Do \/ For \/ Switch \/ Try
  BY <1>1, <1>3, OpenBlockLeads, IfLeads, WhileLeads, DoLeads, ForLeads, SwitchLeads, TryLeads
<1>4. QED
  BY <1>2, <1>3 DEF Opening

\* The statements that close, or go on with another part.
LEMMA ClosingLeads ==
  ASSUME n \in 0 .. MaxStatements, Compiling(cg, open), Leading(cg, open, n), Closing
  PROVE  Leading(cg', open', n')
BY CloseBlockLeads, ElseLeads, EndIfLeads, EndWhileLeads, EndDoLeads, EndForLeads,
   EndTryBlockLeads, CatchLeads, EndCatchLeads, EndTryLeads DEF Closing

\* A step of the parser.
LEMMA CompileStepHomes ==
  ASSUME "bare" \notin Forms, Inv, Homebound, CompileStep, status = "compiling"
  PROVE  Homebound'
<1>1. n \in 0 .. MaxStatements /\ Compiling(cg, open) /\ Leading(cg, open, n)
      /\ ip = 1 /\ ods = <<>>
  BY DEF Inv, CompileInv, RunInv, Homebound
<1>2. ASSUME Parses, Leading(cg', open', n')
      PROVE  Homebound'
  BY <1>2 DEF Parses, Homebound
<1>3. CASE Opening
  BY <1>1, <1>2, <1>3, OpeningParses, OpeningLeads
<1>4. CASE Closing
  BY <1>1, <1>2, <1>4, ClosingParses, ClosingLeads
<1>5. CASE Break \/ Continue
  <2>1. Parses \/ Rejects
    BY <1>1, <1>5, JumpingParses
  <2>2. CASE Parses
    <3>1. status' = "compiling"
      BY <2>2 DEF Parses
    <3>2. Leading(cg', open', n')
      BY <1>1, <1>5, <3>1, BreakLeads, ContinueLeads
    <3>3. QED
      BY <1>2, <2>2, <3>2
  <2>3. CASE Rejects
    BY <2>3 DEF Rejects, Homebound
  <2>4. QED
    BY <2>1, <2>2, <2>3
<1>6. CASE EndFunction
  <2>1. RunInv'
    BY <1>1, <1>6, EndFunctionRuns
  <2>2. status' = "running" /\ JumpsSet(cg')
    BY <1>6, <2>1 DEF RunInv, Finished, EndFunction
  <2>3. PICK E : Settled(cg', E) /\ Tied(cg', E)
    BY <1>1, <1>6, EndFunctionSettles
  <2>4. \A i \in DOMAIN cg'.code : LeadsIn(cg', cg'.code[i])
    BY <2>2, <2>3, SettledLeads
  <2>5. QED
    BY <2>2, <2>4 DEF Homebound, LeadsHome, LeadsIn
<1>7. QED
  BY <1>3, <1>4, <1>5, <1>6, CompileStepOnly

\* A step of the engine leaves the code as it is.
LEMMA RunStepHomes ==
  ASSUME Inv, Homebound, RunStep
  PROVE  Homebound'
<1>1. status = "running"
  BY RunStepOnly
<1>2. RunInv
  BY <1>1 DEF Inv, CompileInv
<1>3. cg' = cg /\ RunInv'
  BY <1>2, RunStepRuns DEF Runs
<1>4. status' \in {"running", "returned", "thrown"}
  BY <1>3 DEF RunInv
<1>5. QED
  BY <1>1, <1>3, <1>4 DEF Homebound, LeadsHome

\* In a function whose loops have blocks for statements, every break leads to
\* the end of the innermost loop or switch that it is written in, and every
\* continue to the end of the innermost loop's block, whatever other blocks,
\* ifs, switches, try blocks and handlers lie between: the label on top of the
\* parser's break or continue stack is always that of the right statement.
THEOREM JumpsGoHome ==
  ASSUME "bare" \notin Forms
  PROVE  Spec => []JumpsLeadHome
<1>1. Init => Homebound
  BY InitLeads DEF Homebound, Init
<1>2. Inv /\ Homebound /\ [Next]_vars => Homebound'
  <2>1. ASSUME Inv, Homebound, Next
        PROVE  Homebound'
    <3>1. CASE RunStep
      BY <2>1, <3>1, RunStepHomes
    <3>2. CASE CompileStep
      <4>1. Parses \/ Rejects \/ EndFunction
        BY <2>1, <3>2, CompileStepOnly, OpeningParses, ClosingParses, JumpingParses DEF Inv
      <4>2. status = "compiling"
        BY <4>1 DEF Parses, Rejects, EndFunction, Ending
      <4>3. QED
        BY <2>1, <3>2, <4>2, CompileStepHomes
    <3>3. QED
      BY <2>1, <3>1, <3>2 DEF Next
  <2>2. ASSUME Homebound, UNCHANGED vars
        PROVE  Homebound'
    BY <2>2 DEF vars, Homebound, LeadsHome
  <2>3. QED
    BY <2>1, <2>2
<1>3. Homebound => JumpsLeadHome
  BY DEF Homebound, JumpsLeadHome
<1>4. QED
  BY <1>1, <1>2, <1>3, InvIsInvariant, PTL DEF Spec
=============================================================================
