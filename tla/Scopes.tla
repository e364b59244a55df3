------------------------------- MODULE Scopes -------------------------------
(***************************************************************************)
(* The code generator's scopes: how the statements of one function become  *)
(* jumps, TOSD (an object enters the object destructor stack, ODS) and     *)
(* UNWIND instructions (src/src/common.cpp, function.cpp, code.cpp, with   *)
(* the grammar's actions in src/src/build/parser.y), and what the code     *)
(* then does to the ODS when the engine runs it.                           *)
(*                                                                         *)
(* Every function of at most MaxStatements statements is compiled, one     *)
(* parser action after the other, and every path through its code is run.  *)
(* An expression is one CALL instruction, which may raise an exception; a  *)
(* condition is its jump.  Positions in the code count from 1.             *)
(*                                                                         *)
(* Each instruction also records what the source says of its place: the    *)
(* objects in scope where a statement begins, and the enclosing loops and  *)
(* switches.  The compiler never reads this history.                       *)
(***************************************************************************)
EXTENDS Integers, SequencesExt

CONSTANTS
  Kinds,          \* the kinds of statement the functions are made of
  Forms,          \* forms of them that are allowed, see AllForms
  MaxStatements,  \* bound on the statements of a function
  MaxNesting,     \* bound on the nesting of statements
  MaxObjects,     \* bound on the objects and try blocks of a function
  MaxOds          \* capacity of the ODS (ODS_STACKSIZE)

AllKinds == {"call", "object", "block", "if", "else", "while", "do", "for",
             "switch", "try", "break", "continue", "return", "goto", "label"}
AllForms ==
  {"nested",   \* break, continue, return in a block of their own
   "bare",     \* a loop whose statement is not a block
   "trailing", \* a jump is the last instruction of the function
   "far"}      \* a goto leaves other objects than those of its own scope

ASSUME KindsAssumption == Kinds \subseteq AllKinds /\ Forms \subseteq AllForms
ASSUME BoundAssumption ==
  /\ {MaxStatements, MaxNesting, MaxObjects, MaxOds} \subseteq Nat \ {0}

VARIABLES
  cg,      \* code buffer, labels and ParserState
  open,    \* the statements the parser is inside, outermost first
  n,       \* statements so far
  status,  \* "compiling", "rejected", "running", "returned" or "thrown"
  ip,      \* position of the next instruction
  ods      \* slots of the function's objects on the ODS

vars == <<cg, open, n, status, ip, ods>>

-----------------------------------------------------------------------------
(* The source: what is open, what is in scope, what can be written next.   *)
Loops      == {"while", "do", "for"}
Controlled == Loops \union {"if", "else"}
Blocks     == {"function", "block", "switch", "try", "catch"}

Item(k, live) == [k |-> k, done |-> FALSE, live |-> live, id |-> n + 1]
Top  == Last(open)
Live(o) == FlattenSeq([i \in DOMAIN o |-> o[i].live])
Breakable == Loops \union {"switch"}
Nest(o) == {[id |-> o[i].id, loop |-> o[i].k \in Loops] :
              i \in {j \in DOMAIN o : o[j].k \in Breakable}}

\* A statement has ended: a controlled statement is one statement.
Complete(o) ==
  IF Last(o).k \in Controlled THEN [o EXCEPT ![Len(o)].done = TRUE] ELSE o
Close(o) == Complete(Front(o))

CanStart(kind) ==
  /\ status = "compiling" /\ kind \in Kinds /\ n < MaxStatements
  /\ \/ Top.k \in Blocks
     \/ /\ Top.k \in Controlled /\ ~Top.done
        /\ Top.k \in Loops => kind = "block" \/ "bare" \in Forms
Ending(kinds) == status = "compiling" /\ Top.k \in kinds
CanOpen(kind) == CanStart(kind) /\ Len(open) < MaxNesting

\* The innermost block is the one that the jump leaves or continues.
InOwnBlock(kind) ==
  LET i == CHOOSE j \in DOMAIN open :
             /\ open[j].k \in Blocks
             /\ \A m \in j + 1..Len(open) : open[m].k \notin Blocks
  IN  CASE kind = "return" -> i = 1
        [] kind = "break" /\ open[i].k = "switch" -> TRUE
        [] OTHER -> i > 1 /\ open[i].k = "block" /\ open[i - 1].k \in Loops
MayJump(kind) == "nested" \in Forms \/ InOwnBlock(kind)

\* Where a goto or its label stands: what is in scope there, the innermost
\* scope and its objects, and the handlers it is in.
Scope(o) == SelectLastInSeq(o, LAMBDA i : i.k \in Blocks \union {"for"})
Place(o) == [live |-> Live(o), own |-> o[Scope(o)].live, scope |-> o[Scope(o)].id,
             handlers |-> {o[i].id : i \in {j \in DOMAIN o : o[j].k = "catch"}}]
\* C++ forbids jumping past declarations and into try blocks and handlers.
Legal(from, to) == IsPrefix(to.live, from.live) /\ to.handlers \subseteq from.handlers
\* The goto leaves the objects of its own scope; or none, and the label follows
\* in this scope, and no other goto came before.
Near(from, to) ==
  \/ from.live = to.live \o from.own
  \/ from.live = to.live /\ from.new /\ from.scope = to.scope
MayGoto(from, to) == Legal(from, to) /\ ("far" \in Forms \/ Near(from, to))

-----------------------------------------------------------------------------
(* The compiler.  Each operator maps a state of it to the next one.        *)
Push(c, stack, x) == [c EXCEPT ![stack] = Append(@, x)]
Pop(c, stack)     == [c EXCEPT ![stack] = Front(@)]
TOS(c, stack)     == Last(c[stack])

\* The place of the next instruction: a statement begins, or does not.
Begin(c, o, stmt) ==
  [c EXCEPT !.here = [live |-> {Live(o)}, nest |-> Nest(o), stmt |-> stmt]]
Between(c, o) ==
  [c EXCEPT !.here = [live |-> {}, nest |-> Nest(o), stmt |-> ""]]

Emit(c, op, arg) ==
  [c EXCEPT !.code = Append(@, [op |-> op, arg |-> arg, table |-> {},
                                at |-> c.here]),
            !.here.live = {}]
IpOffset(c)  == Len(c.code) + 1
\* History: where the block that is a loop's statement ends, and where the
\* loop or switch itself ends.
BodyEnds(c, id) == [c EXCEPT !.body[id] = IpOffset(c)]
Ends(c, id)     == [c EXCEPT !.end[id] = IpOffset(c)]
Backspace(c) == Pop(c, "code")

NewLabel(c) == Push(c, "label", [to |-> 0, refs |-> {}])
Here(c, l, off) ==
  LET to == IpOffset(c) + off
  IN  [c EXCEPT !.label[l].to = to,
                !.code = [i \in DOMAIN @ |->
                            IF i \in c.label[l].refs
                            THEN [@[i] EXCEPT !.arg = to] ELSE @[i]]]
Jump(c, op, l) ==
  LET e == Emit(c, op, c.label[l].to)
  IN  IF c.label[l].to # 0 THEN e
      ELSE [e EXCEPT !.label[l].refs = @ \union {Len(e.code)}]

PushLabelStack(c) ==
  LET d == NewLabel(c) IN Push(d, "label_stack", Len(d.label))
LabelHere(c) ==
  LET d == PushLabelStack(c) IN Here(d, TOS(d, "label_stack"), 0)
LabelJump(c, op, do_push) ==
  LET d == IF do_push THEN PushLabelStack(c) ELSE c
      j == Jump(d, op, TOS(d, "label_stack"))
  IN  IF do_push THEN j ELSE Pop(j, "label_stack")

DoLoopEnd(c, is_jump, is_forward) ==
  LET l1 == TOS(c, "label_stack")
      d  == Pop(c, "label_stack")
  IN  Here(IF is_jump THEN LabelJump(d, "JMP", is_forward) ELSE d, l1, 0)
DoDoEnd(c) ==
  LET l1 == TOS(c, "label_stack")
      d  == Pop(c, "label_stack")
      j  == Jump(d, "JNZ", TOS(d, "label_stack"))
  IN  Here(Pop(j, "label_stack"), l1, 0)

\* A block: the loop or switch whose statement it is gets its labels here.
InitBlock(c) ==
  LET breakable == c.in_loop \/ c.in_switch
      flags == (IF breakable THEN {"BREAKABLE"} ELSE {}) \union
               (IF c.in_switch THEN {"IN_SWITCH"} ELSE {}) \union
               (IF c.in_loop THEN {"CONTINUEABLE"} ELSE {})
      b == IF breakable THEN Push(c, "break_stack", TOS(c, "label_stack"))
           ELSE c
      s == IF c.in_switch
           THEN [Pop(b, "label_stack") EXCEPT !.in_switch = FALSE] ELSE b
      l == NewLabel(s)
      k == IF c.in_loop
           THEN [Push(l, "continue_stack", Len(l.label))
                   EXCEPT !.in_loop = FALSE]
           ELSE s
  IN  Push(k, "block_stack", flags)

ContextGenerated(c) == "CONTEXT_PUSHED" \in TOS(c, "block_stack")
\* context_stack holds the first_obj of each local context, 0 for none.
CheckContext(c) ==
  IF ContextGenerated(c) THEN c
  ELSE [Push(c, "context_stack", 0)
          EXCEPT !.block_stack[Len(c.block_stack)] =
                    @ \union {"CONTEXT_PUSHED"}]
CheckObjects(c, i, do_clear) ==
  IF c.context_stack[i] = 0 THEN c
  ELSE LET e == Emit(c, "UNWIND", c.context_stack[i])
       IN  IF do_clear THEN [e EXCEPT !.context_stack[i] = 0] ELSE e
\* Mutated: a local does not move the allocation cursor.
Construct_NoAlloc(c, op) ==
  LET s == c.size + 1
      d == CheckContext(c)
  IN  Emit([d EXCEPT !.context_stack[Len(d.context_stack)] =
                        IF @ = 0 THEN s ELSE @], op, s)
\* Mutated: the last object of a scope is taken for its first.
Construct_LastObj(c, op) ==
  LET s == c.size + 1
      d == CheckContext(c)
  IN  Emit([d EXCEPT !.size = s, !.context_stack[Len(d.context_stack)] = s],
           op, s)

\* A new local, whose construction ends with the instruction op.
Construct(c, op) ==
  LET s == c.size + 1
      d == CheckContext(c)
  IN  Emit([d EXCEPT !.size = s,
                     !.context_stack[Len(d.context_stack)] =
                        IF @ = 0 THEN s ELSE @], op, s)

\* Mutated: off by one.
EndSwitch_Past(c) ==
  LET d  == Here(c, TOS(c, "break_stack"), 0)
      sw == TOS(d, "switch_stack")
      default == IF sw.default = 0 THEN IpOffset(d) + 1 ELSE sw.default
  IN  Pop([d EXCEPT !.code[sw.start].arg = default,
                    !.code[sw.start].table = sw.cases], "switch_stack")

EndSwitch(c) ==
  LET d  == Here(c, TOS(c, "break_stack"), 0)
      sw == TOS(d, "switch_stack")
      default == IF sw.default = 0 THEN IpOffset(d) ELSE sw.default
  IN  Pop([d EXCEPT !.code[sw.start].arg = default,
                    !.code[sw.start].table = sw.cases], "switch_stack")

\* Mutated: the break label stays on its stack.
FinishBlock_KeepsBreak(c) ==
  LET flags == TOS(c, "block_stack")
      b == Pop(c, "block_stack")
      s == IF "IN_SWITCH" \in flags THEN EndSwitch(b) ELSE b
  IN  IF "CONTINUEABLE" \in flags
      THEN Pop(Here(s, TOS(s, "continue_stack"), 0), "continue_stack")
      ELSE s

\* The end of a block, up to the context, which CloseContext leaves.
FinishBlock(c) ==
  LET flags == TOS(c, "block_stack")
      b == Pop(c, "block_stack")
      s == IF "IN_SWITCH" \in flags THEN EndSwitch(b) ELSE b
      k == IF "CONTINUEABLE" \in flags
           THEN Pop(Here(s, TOS(s, "continue_stack"), 0), "continue_stack")
           ELSE s
  IN  IF "BREAKABLE" \in flags THEN Pop(k, "break_stack") ELSE k
\* The context a label was first jumped to from is no context's again.
FinalizeBlock(c) ==
  LET d == FinishBlock(c)
      u == CheckObjects(d, Len(d.context_stack), TRUE)
  IN  IF ContextGenerated(c)
      THEN Pop([u EXCEPT !.goto.context = IF @ = Len(u.context_stack) THEN -1 ELSE @],
               "context_stack")
      ELSE d

RetLabel == 1
EndsInJump(c) == Last(c.code).op = "JMP" /\ Last(c.code).arg = IpOffset(c)

\* A jump at the very end of the function is taken for its own return.
FinalizeFunction(c) ==
  LET op == Last(c.code).op
      d  == IF EndsInJump(c)
            THEN Here(Backspace([c EXCEPT !.label[RetLabel].refs =
                                   @ \ {Len(c.code)}]), RetLabel, 0)
            ELSE IF op = "UNWIND" THEN Here(c, RetLabel, -1) ELSE c
      u  == CheckObjects(d, 1, TRUE)
      r  == IF u.code # <<>> /\ Last(u.code).op = "UNWIND"
            THEN Here(u, RetLabel, -1) ELSE u
  IN  Pop(Emit(Begin(r, <<>>, ""), "RET", 0), "context_stack")

\* The outermost local scope inside the function that has objects.
CheckEnclosingScopes(c) ==
  LET having == {i \in 2..Len(c.context_stack) : c.context_stack[i] # 0}
  IN  IF having = {} THEN c
      ELSE CheckObjects(c, CHOOSE i \in having : \A j \in having : i <= j,
                        TRUE)
\* Mutated: a break counts as the end of the scope it is in.
CheckLocalUnwind_Clears(c) ==
  IF ContextGenerated(c) THEN CheckObjects(c, Len(c.context_stack), TRUE)
  ELSE c

CheckLocalUnwind(c) ==
  IF ContextGenerated(c) THEN CheckObjects(c, Len(c.context_stack), FALSE)
  ELSE c

\* The label of a goto, on its first use; `context` is 0 for NULL.
CreateGotoLabel(c) ==
  LET d == NewLabel(c) IN [d EXCEPT !.goto.label = Len(d.label)]
InContext(c) == c.goto.context = Len(c.context_stack)
\* The code does not know whether the label is outside the goto's scope: it
\* unwinds, unless the label stands and was first jumped to from the same one.
DoGoto(c) ==
  LET new == c.goto.label = 0
      d   == IF new THEN CreateGotoLabel(c) ELSE c
      u   == IF InContext(d) /\ d.label[d.goto.label].to # 0 THEN d ELSE CheckLocalUnwind(d)
      r   == IF new /\ u # d THEN [u EXCEPT !.goto.context = Len(u.context_stack)] ELSE u
  IN  Jump(r, "JMP", r.goto.label)

PatchWithNOP(c) ==
  LET refs == c.label[c.goto.label].refs
      i    == CHOOSE j \in refs : \A k \in refs : j <= k
  IN  [c EXCEPT !.code[i - 1].op = "HALT"]
\* A label that ends up in the scope of its first goto takes back the UNWIND.
GotoLabel(c) ==
  LET d == Here(IF c.goto.label = 0 THEN CreateGotoLabel(c) ELSE c,
                IF c.goto.label = 0 THEN Len(c.label) + 1 ELSE c.goto.label, 0)
  IN  IF InContext(d) THEN PatchWithNOP(d) ELSE d

-----------------------------------------------------------------------------
(* The parser's actions.                                                   *)
Compile(c, o) ==
  /\ cg' = c /\ open' = o /\ n' = n + 1
  /\ UNCHANGED <<status, ip, ods>>
Reduce(c, o) ==
  /\ cg' = c /\ open' = o
  /\ UNCHANGED <<n, status, ip, ods>>

Expression ==
  /\ CanStart("call")
  /\ Compile(Emit(Begin(cg, open, ""), "CALL", 0), Complete(open))

\* A declaration is only written in a block: as a controlled statement, or
\* where a switch may jump over it, it is no sensible C++.
Declare ==
  /\ CanStart("object") /\ Top.k \in Blocks \ {"switch"}
  /\ cg.size < MaxObjects
  /\ Compile(Construct(Begin(cg, open, ""), "TOSD"),
             [open EXCEPT ![Len(open)].live = Append(@, cg.size + 1)])

OpenBlock ==
  /\ CanOpen("block")
  /\ Compile(InitBlock(cg), Append(open, Item("block", <<>>)))
CloseBlock ==
  /\ Ending({"block", "switch"})
  /\ LET c == Between(cg, open)
     IN  Reduce(FinalizeBlock(IF Top.k = "switch" THEN Ends(c, Top.id)
                              ELSE BodyEnds(c, Last(Front(open)).id)),
                Close(open))

If ==
  /\ CanOpen("if")
  /\ Compile(LabelJump(Begin(cg, open, ""), "JZ", TRUE),
             Append(open, Item("if", <<>>)))
Else ==
  /\ Ending({"if"}) /\ Top.done /\ "else" \in Kinds /\ n < MaxStatements
  /\ Compile(DoLoopEnd(Between(cg, open), TRUE, TRUE),
             Append(Front(open), Item("else", <<>>)))
EndIf ==
  /\ Ending({"if", "else"}) /\ Top.done
  /\ Reduce(DoLoopEnd(cg, FALSE, FALSE), Close(open))

\* do_loop_start() after label_here().
StartLoop(c, o) ==
  LabelJump(Begin([LabelHere(c) EXCEPT !.in_loop = TRUE], o, ""), "JZ", TRUE)
While ==
  /\ CanOpen("while")
  /\ LET o == Append(open, Item("while", <<>>)) IN Compile(StartLoop(cg, o), o)
EndWhile ==
  /\ Ending({"while"}) /\ Top.done
  /\ Reduce(Ends([DoLoopEnd(Between(cg, open), TRUE, FALSE)
                    EXCEPT !.in_loop = FALSE], Top.id), Close(open))

Do ==
  /\ CanOpen("do")
  /\ Compile([PushLabelStack(LabelHere(cg)) EXCEPT !.in_loop = TRUE],
             Append(open, Item("do", <<>>)))
EndDo ==
  /\ Ending({"do"}) /\ Top.done
  /\ Reduce(Ends([DoDoEnd(Begin(cg, open, "")) EXCEPT !.in_loop = FALSE],
                 Top.id), Close(open))

\* The scope of a for statement may declare an object of its own.
For ==
  /\ CanOpen("for")
  /\ \E dcl \in {FALSE, "object" \in Kinds /\ cg.size < MaxObjects} :
       LET c == InitBlock(cg)
           d == IF dcl THEN Construct(Begin(c, open, ""), "TOSD") ELSE c
           o == Append(open,
                       Item("for", IF dcl THEN <<d.size>> ELSE <<>>))
       IN  Compile(StartLoop(d, o), o)
EndFor ==
  /\ Ending({"for"}) /\ Top.done
  /\ LET incr == Emit(Begin(cg, open, ""), "CALL", 0)
         c == Ends([DoLoopEnd(incr, TRUE, FALSE) EXCEPT !.in_loop = FALSE],
                   Top.id)
     IN  Reduce(FinalizeBlock(Between(c, Front(open))), Close(open))

\* do_switch() and the block that follows it.
Switch ==
  /\ CanOpen("switch")
  /\ LET c == PushLabelStack([Begin(cg, open, "") EXCEPT !.in_switch = TRUE])
         s == Push(c, "switch_stack",
                   [start |-> IpOffset(c), cases |-> {}, default |-> 0])
     IN  Compile(InitBlock(Emit(s, "JSWITCH", 0)),
                 Append(open, Item("switch", <<>>)))
Case ==
  /\ CanStart("switch") /\ Top.k = "switch"
  /\ LET i == Len(cg.switch_stack)
     IN  \/ Compile([cg EXCEPT !.switch_stack[i].cases =
                       @ \union {IpOffset(cg)}], open)
         \/ /\ cg.switch_stack[i].default = 0
            /\ Compile([cg EXCEPT !.switch_stack[i].default =
                          IpOffset(cg)], open)

\* A try block: its marker is the first object of its scope.
Try ==
  /\ CanOpen("try") /\ cg.size < MaxObjects
  /\ LET c == NewLabel(InitBlock(cg))
         s == c.size + 1
     IN  Compile(Construct(Begin(Push(c, "mTryStack",
                                      [label |-> Len(c.label), slot |-> s]),
                                 open, ""), "MARK"),
                 Append(open, Item("try", <<s>>)))
EndTryBlock ==
  /\ Ending({"try"})
  /\ LET c == FinalizeBlock(Between(cg, open))
     IN  Reduce(Jump(c, "JMP", TOS(c, "mTryStack").label),
                Append(Front(open), Item("handlers", <<>>)))
Catch ==
  /\ Ending({"handlers"}) /\ n < MaxStatements /\ Len(open) < MaxNesting
  /\ Compile(CheckContext([InitBlock(cg)
                EXCEPT !.catch[TOS(cg, "mTryStack").slot] =
                          @ \union {IpOffset(cg)}]),
             Append(open, Item("catch", <<>>)))
EndCatch ==
  /\ Ending({"catch"})
  /\ LET c == FinalizeBlock(Between(cg, open))
         o == Front(open)
     IN  Reduce(Jump(c, "JMP", TOS(c, "mTryStack").label),
                [o EXCEPT ![Len(o)].done = TRUE])
\* Mutated: the handler stays on the try stack.
EndTry_KeepsHandler ==
  /\ Ending({"handlers"}) /\ Top.done
  /\ LET c == IF Last(cg.code).op = "JMP" THEN Backspace(cg) ELSE cg
     IN  Reduce(Here(c, TOS(c, "mTryStack").label, 0), Close(open))

EndTry ==
  /\ Ending({"handlers"}) /\ Top.done
  /\ LET c == IF Last(cg.code).op = "JMP" THEN Backspace(cg) ELSE cg
     IN  Reduce(Pop(Here(c, TOS(c, "mTryStack").label, 0), "mTryStack"),
                Close(open))

Reject ==
  /\ status' = "rejected" /\ n' = n + 1
  /\ UNCHANGED <<cg, open, ip, ods>>
Break ==
  /\ CanStart("break") /\ Nest(open) # {} /\ MayJump("break")
  /\ \/ cg.break_stack = <<>> /\ Reject
     \/ /\ cg.break_stack # <<>>
        /\ Compile(Jump(CheckLocalUnwind(Begin(cg, open, "break")), "JMP",
                        TOS(cg, "break_stack")), Complete(open))
Continue ==
  /\ CanStart("continue") /\ MayJump("continue")
  /\ \E i \in DOMAIN open : open[i].k \in Loops
  /\ \/ cg.continue_stack = <<>> /\ Reject
     \/ /\ cg.continue_stack # <<>>
        /\ Compile(Jump(Begin(cg, open, "continue"), "JMP",
                        TOS(cg, "continue_stack")), Complete(open))
Return ==
  /\ CanStart("return") /\ MayJump("return")
  /\ Compile(Jump(CheckEnclosingScopes(Begin(cg, open, "return")), "JMP",
                  RetLabel), Complete(open))

\* One label stands for all; from and to are history.
Goto ==
  /\ CanStart("goto")
  /\ LET from == Place(open) @@ [new |-> cg.goto.label = 0]
     IN  /\ \A to \in cg.goto.to : MayGoto(from, to)
         /\ Compile([DoGoto(Begin(cg, open, "goto")) EXCEPT !.goto.from = @ \union {from}],
                    Complete(open))
Label ==
  /\ CanStart("label") /\ Top.k \in Blocks /\ cg.goto.to = {}
  /\ \A from \in cg.goto.from : MayGoto(from, Place(open))
  /\ Compile([GotoLabel(cg) EXCEPT !.goto.to = {Place(open)}], open)

\* The closing brace of the function, after which the function is called.
EndFunction ==
  /\ Ending({"function"}) /\ cg.code # <<>>
  /\ cg.goto.from # {} => cg.goto.to # {}
  /\ LET c == Here(FinishBlock(Between(cg, open)), RetLabel, 0)
     IN  /\ "trailing" \in Forms \/ ~EndsInJump(c)
         /\ cg' = FinalizeFunction(c)
  /\ open' = <<>> /\ status' = "running"
  /\ UNCHANGED <<n, ip, ods>>

-----------------------------------------------------------------------------
(* The engine runs the code.                                               *)
Instr == cg.code[ip]
At(ops) == status = "running" /\ ip \in DOMAIN cg.code /\ Instr.op \in ops
GoTo(p) == ip' = p /\ UNCHANGED <<cg, open, n, status, ods>>

RunCall == At({"CALL"}) /\ GoTo(ip + 1)
\* A HALT whose operand is no breakpoint's does nothing.
RunNOP == At({"HALT"}) /\ GoTo(ip + 1)
RunConstruct ==
  /\ At({"TOSD", "MARK"}) /\ Len(ods) < MaxOds
  /\ ods' = Append(ods, Instr.arg) /\ ip' = ip + 1
  /\ UNCHANGED <<cg, open, n, status>>
\* Mutated: the ODS is unwound without looking for the object first.
RunUnwind_NoSearch ==
  /\ At({"UNWIND"})
  /\ LET on == {i \in DOMAIN ods : ods[i] = Instr.arg}
     IN  ods' = IF on = {} THEN <<>>
                ELSE SubSeq(ods, 1, (CHOOSE i \in on :
                                       \A j \in on : j <= i) - 1)
  /\ ip' = ip + 1
  /\ UNCHANGED <<cg, open, n, status>>

\* do_unwind(): nothing happens unless the object is on the ODS.
RunUnwind ==
  /\ At({"UNWIND"})
  /\ LET on == {i \in DOMAIN ods : ods[i] = Instr.arg}
     IN  ods' = IF on = {} THEN ods
                ELSE SubSeq(ods, 1, (CHOOSE i \in on :
                                       \A j \in on : j <= i) - 1)
  /\ ip' = ip + 1
  /\ UNCHANGED <<cg, open, n, status>>
RunJump   == At({"JMP", "JZ", "JNZ"}) /\ GoTo(Instr.arg)
RunNoJump == At({"JZ", "JNZ"}) /\ GoTo(ip + 1)
RunSwitch ==
  At({"JSWITCH"}) /\ \E p \in Instr.table \union {Instr.arg} : GoTo(p)
RunReturn ==
  /\ At({"RET"})
  /\ status' = "returned"
  /\ UNCHANGED <<cg, open, n, ip, ods>>
\* A call or a constructor throws, to a marker of this function or past it.
Handled(i) == \E p \in cg.catch[ods[i]] :
  /\ ods' = SubSeq(ods, 1, i - 1) /\ ip' = p
  /\ UNCHANGED <<cg, open, n, status>>
Raise ==
  /\ At({"CALL", "TOSD"})
  /\ \/ \E i \in DOMAIN ods : Handled(i)
     \/ /\ status' = "thrown" /\ ods' = <<>>
        /\ UNCHANGED <<cg, open, n, ip>>

Init ==
  /\ cg = [code |-> <<>>, label |-> <<[to |-> 0, refs |-> {}]>>,
           label_stack |-> <<>>, break_stack |-> <<>>,
           continue_stack |-> <<>>, switch_stack |-> <<>>,
           mTryStack |-> <<>>,
           block_stack |-> <<{"CONTEXT_PUSHED", "FUN_BLOCK"}>>,
           context_stack |-> <<0>>,
           in_loop |-> FALSE, in_switch |-> FALSE, size |-> 0,
           catch |-> [s \in 1..MaxObjects |-> {}],
           goto |-> [label |-> 0, context |-> 0, from |-> {}, to |-> {}],
           body |-> [i \in 0..MaxStatements |-> 0],
           end |-> [i \in 0..MaxStatements |-> 0],
           here |-> [live |-> {}, nest |-> {}, stmt |-> ""]]
  /\ open = <<[k |-> "function", done |-> FALSE, live |-> <<>>, id |-> 0]>>
  /\ n = 0 /\ status = "compiling" /\ ip = 1 /\ ods = <<>>

CompileStep ==
  \/ Expression \/ Declare \/ OpenBlock \/ CloseBlock
  \/ If \/ Else \/ EndIf \/ While \/ EndWhile \/ Do \/ EndDo \/ For \/ EndFor
  \/ Switch \/ Case \/ Try \/ EndTryBlock \/ Catch \/ EndCatch \/ EndTry
  \/ Break \/ Continue \/ Return \/ Goto \/ Label \/ EndFunction
RunStep ==
  \/ RunCall \/ RunNOP \/ RunConstruct \/ RunUnwind \/ RunJump \/ RunNoJump
  \/ RunSwitch \/ RunReturn \/ Raise
Next == CompileStep \/ RunStep

Spec == Init /\ [][Next]_vars

-----------------------------------------------------------------------------
(* Properties.                                                             *)
Ops == {"CALL", "TOSD", "MARK", "UNWIND", "JMP", "JZ", "JNZ", "JSWITCH",
        "HALT", "RET"}
\* The shape of the code, of the parser's stacks and of the ODS: every
\* reference of a label is a jump, and every stack holds labels or slots.
TypeOK ==
  /\ status \in {"compiling", "rejected", "running", "returned", "thrown"}
  /\ n \in 0..MaxStatements /\ ip \in Nat
  /\ \A i \in DOMAIN cg.code :
       /\ cg.code[i].op \in Ops /\ cg.code[i].arg \in Nat
       /\ cg.code[i].op \in {"TOSD", "MARK", "UNWIND"} =>
            cg.code[i].arg \in 1..cg.size
  /\ cg.size \in 0..MaxObjects /\ Range(cg.context_stack) \subseteq 0..cg.size
  /\ Range(cg.label_stack \o cg.break_stack \o cg.continue_stack)
       \subseteq DOMAIN cg.label
  /\ ods \in Seq(1..cg.size) /\ Len(ods) <= MaxOds

\* The objects that are in scope at the next instruction, where the source
\* says so. All paths may share an UNWIND, which looks for its object first.
InScope ==
  IF status = "running" /\ ip \in DOMAIN cg.code /\ Instr.op # "UNWIND"
  THEN Instr.at.live ELSE {}

\* Where a statement begins, and where the function returns, the ODS holds
\* the objects that are in scope there, in the order of their construction,
\* whatever path led there: no scope is left, by its end, by a jump, a return
\* or an exception, with an object still to be destroyed, and none is
\* destroyed while it is in scope.
OdsIsScoped == \A live \in InScope : ods = live

\* Whatever else goes wrong, an object in scope has not been destroyed.
LiveNotDestroyed == \A live \in InScope : Range(live) \subseteq Range(ods)

\* The code of a function is left through its RET only: no jump, and no
\* fall-through after a jump was taken out, leads past its last instruction.
StaysInCode == status = "running" => ip \in DOMAIN cg.code

\* A break leads to the end of the innermost loop or switch it is written in,
\* a continue to the end of the block that is the innermost loop's statement,
\* whatever blocks and statements lie between.
Innermost(nest) == Max({b.id : b \in nest})    \* the one begun last
LeadsHome(x) ==
  LET loop == Innermost({b \in x.at.nest : b.loop})
  IN  x.op = "JMP" =>
        /\ x.at.stmt = "break" => x.arg = cg.end[Innermost(x.at.nest)]
        /\ x.at.stmt = "continue" /\ cg.body[loop] # 0 => x.arg = cg.body[loop]
JumpsLeadHome == status = "running" => \A i \in DOMAIN cg.code : LeadsHome(cg.code[i])

\* An exception is handled by a try block it was thrown in, never by one that
\* was left before.
CatchIsEnclosing ==
  [][At({"CALL", "TOSD"}) /\ status' = "running" /\ Len(ods') < Len(ods) =>
       \A live \in InScope : ods[Len(ods') + 1] \in Range(live)]_vars

\* When the function is complete so are its labels and blocks: every jump
\* was patched with a position of the code, and no loop, switch, try block
\* or scope is left on the parser's stacks for the next function.
LeavesNothingOpen ==
  status = "running" =>
    /\ \A i \in DOMAIN cg.code :
         cg.code[i].op \in {"JMP", "JZ", "JNZ", "JSWITCH"} =>
           cg.code[i].arg # 0
    /\ cg.label_stack \o cg.break_stack \o cg.continue_stack = <<>>
    /\ cg.switch_stack \o cg.mTryStack \o cg.block_stack = <<>>
    /\ cg.context_stack = <<>> /\ ~cg.in_loop /\ ~cg.in_switch
=============================================================================
