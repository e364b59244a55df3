------------------------------- MODULE Engine -------------------------------
(***************************************************************************)
(* The control core of the stack engine (src/src/engine.cpp): the function *)
(* stack, the heights of the execution stack, the object stack, the object *)
(* destructor stack (ODS) with its try-block markers, nested activations   *)
(* of Engine::execute(), interpreted and native exceptions, traps, halting *)
(* at a breakpoint, evaluating statements while halted, and resuming.      *)
(*                                                                         *)
(* The interpreted program is a parameter: which functions a function may  *)
(* call, what it throws and catches, which local objects it constructs,    *)
(* where it may fault, call back through native code or hit a breakpoint.  *)
(* Instructions that neither transfer control nor move a frame are left    *)
(* out.  An instruction pointer is abstracted to the activation whose code *)
(* it points into and the scopes that are open at that point of the code.  *)
(***************************************************************************)
EXTENDS Integers, SequencesExt

CONSTANTS
  Fun,        \* the function blocks (FBlock) of the program
  Temp,       \* the immediate code block (mCodeBlock), an element of Fun
  Dtor,       \* the destructor all local objects share, an element of Fun
  Start,      \* START_FB, the false bottom pushed by execute()
  NoFun,      \* a null FBlock or CatchHandler
  Type,       \* the types that can be thrown
  NoType,     \* no type was thrown to this handler yet
  FaultType,  \* the interpreted type of traps and of the native Exception
  Calls,      \* Calls[f]: what f calls; Calls[Temp] is for a program run
  Statements, \* what statements typed at the prompt call
  CallsBack,  \* CallsBack[f]: what native functions called by f call back
  NArgs,      \* NArgs[f]: words of arguments
  NatArgs,    \* NatArgs[f]: words of arguments of the natives f calls
  NLocal,     \* NLocal[f]: words of locals
  Methods,    \* functions called on an object (LOS before, DOS after)
  Objects,    \* Objects[f]: slots of f's destructible locals
  Handles,    \* Handles[f]: types the catch blocks of f's try block match
  Throws,     \* Throws[f]: types f throws
  Rethrows,   \* functions with a bare throw in their catch block
  Checks,     \* functions with an instruction that may throw an Exception
  Traps,      \* functions with an instruction that may trap
  Breaks,     \* functions with a breakpoint
  Undefined,  \* functions declared and called but not defined yet
  MaxFrames,  \* MAX_FUNCTION_DEPTH: capacity of the function stack
  MaxStack,   \* EXEC_STACKSIZE: words of the execution stack
  MaxTrace,   \* trace-back lines exec_message() prints (50)
  MaxActs     \* bound on the number of function activations (model only)

Outer  == 0   \* slot of an object in the function's own scope
Marker == 1   \* slot of the try-block marker
Inner  == 2   \* slot of an object inside the try block
Slot   == {Outer, Marker, Inner}

ASSUME FunAssumption ==
  /\ {Temp, Dtor} \subseteq Fun /\ Temp # Dtor
  /\ Start \notin Fun /\ NoFun \notin Fun /\ Start # NoFun
  /\ FaultType \in Type /\ NoType \notin Type
ASSUME ProgramAssumption ==
  /\ Calls \in [Fun -> SUBSET (Fun \ {Temp, Dtor})]
  /\ Statements \subseteq Fun \ {Temp, Dtor}
  /\ CallsBack \in [Fun -> SUBSET (Fun \ ({Temp, Dtor} \union Methods))]
  /\ NArgs \in [Fun -> Nat] /\ NatArgs \in [Fun -> Nat]
  /\ NLocal \in [Fun -> Nat]
  /\ Objects \in [Fun -> SUBSET {Outer, Inner}]
  /\ Handles \in [Fun -> SUBSET Type]
  /\ Throws \in [Fun -> SUBSET Type]
\* What is not defined has no try block.
ASSUME UndefinedAssumption ==
  Undefined \subseteq Fun /\ \A f \in Undefined : Handles[f] = {}
ASSUME BoundAssumption ==
  /\ MaxFrames \in Nat \ {0} /\ MaxStack \in Nat /\ MaxTrace \in Nat
  /\ MaxActs \in Nat

VARIABLES
  reg,      \* the machine registers: fb, ppcode, baseSP, mSP, mOP
  os,       \* the object stack (ostack)
  fs,       \* the function stack, one [pc, fb, bp] triple per element
  ods,      \* the object destructor stack
  nat,      \* the native stack: execute() and do_unwind() activations
  resume,   \* resume_state
  xargs,    \* flags of the ArgBlock resume_state.m_xargs points to
  nargs,    \* start_exec()'s static nargs
  cur,      \* throw_exception()'s static curr_except
  thrown,   \* m_thrown_type of each function's CatchHandler
  jmp,      \* the execute() that last filled here_in_execute, as nat index
  blocked,  \* the trap signal is still blocked after a long jump
  mode,     \* "run", "raise" (a native Exception is in flight) or "wild"
  acts,     \* activations started so far
  halt      \* history: the machine at the last halt

vars == <<reg, os, fs, ods, nat, resume, xargs, nargs, cur, thrown, jmp,
          blocked, mode, acts, halt>>

-----------------------------------------------------------------------------
(* Heights of the execution stack grow with use (mSP itself moves down).   *)
Ip     == [act: Int, in: SUBSET Slot]
NullIp == [act |-> 0, in |-> {}]           \* ppcode == NULL
EndIp  == [act |-> -1, in |-> {}]          \* ppcode == end_of_code
NullObj == 0                               \* a null object pointer
Base   == 1                                \* height of the empty stack
Fb     == Fun \union {Start, NoFun}

Reg    == [fb: Fb, pc: Ip, bp: Int, sp: Int, op: Int]
Frame  == [pc: Ip, fb: Fb, bp: Int]
Entry  == [obj: Int, try: Fun \union {NoFun}, act: Int, slot: Slot]
Flags  == SUBSET {"args", "outside"}
After  == {"next", "catch", "uncaught", "resume", "crash"}
Native == [k: {"exec", "unwind"}, saved: Reg, flags: Flags, own: Flags,
           p: Int, obj: Int, after: After, h: Fun \union {NoFun}, act: Int,
           depth: Nat]
Resume0 == [pc |-> NullIp, fb |-> NoFun, bp |-> 0]
NoArgs  == {"none"}
Reg0    == [fb |-> NoFun, pc |-> NullIp, bp |-> Base, sp |-> Base,
            op |-> NullObj]
Halt0   == [reg |-> Reg0, fs |-> <<>>, ods |-> <<>>, os |-> <<>>, own |-> {}]

\* Engine::paused()
Paused == resume.fb # NoFun
\* The console waits for the next statement or command.
Idle   == nat = <<>> /\ mode = "run"
\* start_exec() of the innermost execute() runs interpreted code.
Running ==
  /\ mode = "run" /\ nat # <<>> /\ Last(nat).k = "exec"
  /\ reg.fb \in Fun /\ reg.pc # EndIp

\* Mutated: the RESUME bit stays in the flags.
Exec_KeepsResumeBit(r, flags) ==
  [k |-> "exec", saved |-> r, flags |-> flags \union {"resume"}, own |-> flags,
   p |-> NullObj, obj |-> NullObj, after |-> "next", h |-> NoFun, act |-> 0,
   depth |-> 0]

\* An activation of execute(): it keeps the registers of its caller. own is
\* history: the flags it was called with.
Exec(r, flags) ==
  [k |-> "exec", saved |-> r, flags |-> flags, own |-> flags, p |-> NullObj,
   obj |-> NullObj, after |-> "next", h |-> NoFun, act |-> 0, depth |-> 0]

\* An activation of do_unwind(p): it keeps the registers, and what its caller
\* does next. act and depth are history: the activation that pushed the
\* marker p, and the number of frames.
Unwind(p, after, h, act) ==
  [k |-> "unwind", saved |-> reg, flags |-> {}, own |-> {}, p |-> p,
   obj |-> NullObj, after |-> after, h |-> h, act |-> act, depth |-> Len(fs)]

Triple(r)     == [pc |-> r.pc, fb |-> r.fb, bp |-> r.bp]
CatchIp(h, a) == [act |-> a, in |-> Objects[h] \intersect {Outer}]
Restart(r)    == [r EXCEPT !.fb = Start, !.pc = NullIp]

signalVars == <<jmp, blocked>>
throwVars  == <<cur, thrown>>
dataVars   == <<os, ods>>

-----------------------------------------------------------------------------
(* Entering and leaving functions                                          *)

\* Mutated: mSP is not moved past the locals.
StartFunction_NoLocals(f, r, frames) ==
  /\ fs' = Append(frames, Triple(r)) /\ acts' = acts + 1
  /\ reg' = [r EXCEPT !.fb = f, !.bp = r.sp,
               !.pc = [act |-> acts + 1, in |-> {}]]
  /\ mode' = "run" /\ UNCHANGED resume

\* start_function(f) with registers r and the function stack frames. The pc
\* of a frame beyond the capacity overwrites the top index of the stack
\* before the depth is tested, so the overflow is detected or not.
StartFunction(f, r, frames) ==
  IF Len(frames) >= MaxFrames
  THEN /\ mode' \in {"raise", "wild"}
       /\ reg' = [r EXCEPT !.sp = Base] /\ fs' = <<>> /\ resume' = Resume0
       /\ UNCHANGED acts
  ELSE LET shared == Paused /\ NLocal[f] = NLocal[Temp]
           bp == IF shared THEN resume.bp ELSE r.sp
           sp == IF shared THEN r.sp ELSE r.sp + NLocal[f]
       IN /\ fs' = Append(frames, Triple(r))
          /\ acts' = acts + 1
          /\ IF f \in Undefined
             THEN /\ reg' = [r EXCEPT !.fb = f, !.pc = NullIp]
                  /\ mode' = "raise"
             ELSE /\ reg' = [r EXCEPT !.fb = f, !.bp = bp, !.sp = sp,
                               !.pc = [act |-> acts + 1, in |-> {}]]
                  /\ mode' = IF sp > MaxStack THEN "raise" ELSE "run"
          /\ UNCHANGED resume

\* Mutated: every execute() pushes the triple of a call from outside.
Enter_AlwaysOutside(f, n, r, frames) ==
  /\ nat' = n
  /\ StartFunction(f, Restart(r), Append(frames, Triple(r)))
  /\ jmp' = Len(n)
  /\ UNCHANGED blocked

\* execute(f): n is the native stack with the new activation on top.
Enter(f, n, r, frames) ==
  /\ nat' = n
  /\ StartFunction(f, Restart(r), frames)
  /\ jmp' = IF mode' = "run" THEN Len(n) ELSE jmp
  /\ UNCHANGED blocked

\* Mutated: the arguments of the native function are not dropped.
AfterNative_KeepsArgs(r) ==
  [r EXCEPT !.pc = IF @ = NullIp THEN EndIp ELSE @]

\* CALLN goes on after its native function called the interpreter.
AfterNative(r) ==
  [r EXCEPT !.sp = @ - nargs, !.pc = IF @ = NullIp THEN EndIp ELSE @]

\* Mutated: the stacks are not reset after the report.
ExecMessage_NoReset(r, frames, o) ==
  [reg |-> Restart(r), fs |-> frames, ods |-> o, rs |-> resume]

\* Mutated: the stacks are not reset when the trace is given up.
ExecMessage_GivesUp(r, frames, o) ==
  IF r.fb = Start THEN [reg |-> r, fs |-> frames, ods |-> o, rs |-> resume]
  ELSE LET left == Len(frames) - (MaxTrace + 1)
       IN [reg |-> Restart(r), rs |-> Resume0, ods |-> <<>>,
           fs |-> IF left > 0 THEN SubSeq(frames, 1, left) ELSE <<>>]

\* exec_message(msg, true) with the stack trace on: it pops to the false
\* bottom, gives up after MaxTrace lines, and resets what is left.
ExecMessage(r, frames, o) ==
  IF r.fb = Start THEN [reg |-> r, fs |-> frames, ods |-> o, rs |-> resume]
  ELSE LET bottom == Max({0} \union {i \in DOMAIN frames : frames[i].fb = Start})
           all  == IF bottom = 0 THEN Len(frames) ELSE Len(frames) - bottom + 1
           pops == IF all > MaxTrace + 1 THEN MaxTrace + 1 ELSE all
           left == Len(frames) - pops
           t    == IF pops = 0 THEN Triple(r) ELSE frames[left + 1]
           info == \E f \in {r.fb} \union
                      {frames[i].fb : i \in left + 2 .. Len(frames)} :
                        f \in Fun \ ({Temp} \union Undefined)
       IN [reg |-> [r EXCEPT !.pc = t.pc, !.fb = t.fb, !.bp = t.bp,
                             !.sp = IF left > 0 THEN Base ELSE @],
           fs |-> <<>>, ods |-> IF info THEN <<>> ELSE o, rs |-> Resume0]

\* execute() returns and its caller, the top of n, goes on with registers r:
\* the console, CALLN, or do_unwind(), which reports a crashed destructor.
ReturnTo(n, r, frames, o, rs, crashed) ==
  /\ nat' = n
  /\ mode' = "run"
  /\ IF n # <<>> /\ Last(n).k = "unwind" /\ crashed
     THEN LET m == ExecMessage(r, frames, o) IN
          reg' = m.reg /\ fs' = m.fs /\ ods' = m.ods /\ resume' = m.rs
     ELSE /\ reg' = IF n # <<>> /\ Last(n).k = "exec"
                    THEN AfterNative(r) ELSE r
          /\ fs' = frames /\ ods' = o /\ resume' = rs

GoWild ==
  /\ mode' = "wild"
  /\ UNCHANGED <<reg, os, fs, ods, nat, resume, xargs, nargs, throwVars,
                 signalVars, acts, halt>>

-----------------------------------------------------------------------------
(* The console                                                             *)

\* Mutated: every statement leaves its argument block.
Console_TakesFlags(flags) ==
  /\ Idle /\ acts < MaxActs
  /\ Paused => flags = {}
  /\ Enter(Temp, <<Exec(reg, flags)>>, reg, fs)
  /\ xargs' = flags
  /\ UNCHANGED <<dataVars, nargs, throwVars, halt>>

\* statement_end() executes the immediate code of a statement; for a program
\* run (run_main_function()) it passes an argument block for the result.
Console(flags) ==
  /\ Idle /\ acts < MaxActs
  /\ Paused => flags = {}
  /\ Enter(Temp, <<Exec(reg, flags)>>, reg, fs)
  /\ xargs' = IF flags = {} THEN xargs ELSE flags
  /\ UNCHANGED <<dataVars, nargs, throwVars, halt>>

\* Engine::set_frame(i): the frame in which statements are evaluated.
SelectFrame(i) ==
  /\ Idle /\ Paused /\ i \in 0 .. Len(fs) - 1
  /\ resume' = [resume EXCEPT !.bp = IF i = 0 THEN reg.bp
                                     ELSE fs[Len(fs) - i + 1].bp]
  /\ UNCHANGED <<reg, dataVars, fs, nat, xargs, nargs, throwVars, signalVars,
                 mode, acts, halt>>

\* Program::run() of a halted program: execute(NULL, RESUME).
Resume ==
  /\ Idle /\ Paused
  /\ nat' = <<[Exec(reg, IF xargs = NoArgs THEN {} ELSE xargs)
                 EXCEPT !.own = halt.own]>>
  /\ reg' = [reg EXCEPT !.fb = resume.fb, !.pc = resume.pc]
  /\ resume' = Resume0
  /\ jmp' = 1
  /\ UNCHANGED <<dataVars, fs, xargs, nargs, throwVars, blocked, mode, acts,
                 halt>>

-----------------------------------------------------------------------------
(* Interpreted code                                                        *)

Call(f) ==
  /\ Running /\ acts < MaxActs
  /\ f \in IF reg.fb = Temp /\ "args" \notin Last(nat).own
           THEN Statements ELSE Calls[reg.fb]
  /\ LET method == f \in Methods IN
     /\ os' = IF method THEN Append(os, reg.op) ELSE os
     /\ StartFunction(f, [reg EXCEPT !.sp = @ + NArgs[f],
                            !.op = IF method THEN reg.bp + Outer ELSE @], fs)
  /\ UNCHANGED <<ods, nat, xargs, nargs, throwVars, signalVars, halt>>

\* CALLN of a native function that calls g back through stub_execute().
CallNative(g) ==
  /\ Running /\ g \in CallsBack[reg.fb] /\ acts < MaxActs
  /\ nargs' = NatArgs[reg.fb]
  /\ xargs' = {"args", "outside"}
  /\ LET r == [reg EXCEPT !.sp = @ + NatArgs[reg.fb] + NArgs[g]] IN
     Enter(g, Append(nat, Exec(reg, {"args", "outside"})), r,
           Append(fs, [Triple(r) EXCEPT !.bp = r.sp]))
  /\ UNCHANGED <<dataVars, throwVars, halt>>

\* CALLN of a native function that does not call back.
CallLeaf ==
  /\ Running
  /\ nargs' = NatArgs[reg.fb]
  /\ UNCHANGED <<reg, dataVars, fs, nat, resume, xargs, throwVars, signalVars,
                 mode, acts, halt>>

\* The constructor of a local object is done: TOSD puts the object on the ODS.
Construct(slot) ==
  /\ Running /\ slot \in Objects[reg.fb] \ reg.pc.in /\ acts < MaxActs
  /\ (Marker \in reg.pc.in) = (slot = Inner)
  /\ reg' = [reg EXCEPT !.pc.in = @ \union {slot}]
  /\ ods' = Append(ods, [obj |-> reg.bp + slot, try |-> NoFun,
                         act |-> reg.pc.act, slot |-> slot])
  /\ UNCHANGED <<os, fs, nat, resume, xargs, nargs, throwVars, signalVars,
                 mode, acts, halt>>

\* A try block starts: its marker, with the catch handler, goes on the ODS.
EnterTry ==
  /\ Running /\ Handles[reg.fb] # {} /\ Marker \notin reg.pc.in
  /\ Objects[reg.fb] \intersect {Outer} \subseteq reg.pc.in
  /\ reg' = [reg EXCEPT !.pc.in = @ \union {Marker}]
  /\ ods' = Append(ods, [obj |-> reg.bp + Marker, try |-> reg.fb,
                         act |-> reg.pc.act, slot |-> Marker])
  /\ UNCHANGED <<os, fs, nat, resume, xargs, nargs, throwVars, signalVars,
                 mode, acts, halt>>

\* Mutated: the whole ODS is unwound.
LeaveScope_UnwindsAll(slot) ==
  /\ Running /\ slot \in reg.pc.in
  /\ nat' = Append(nat, Unwind(NullObj, "next", NoFun, reg.pc.act))
  /\ UNCHANGED <<reg, dataVars, fs, resume, xargs, nargs, throwVars, signalVars,
                 mode, acts, halt>>

\* UNWIND at the end of a scope, or of all of them at a return: do_unwind()
\* down to the first object of the scope, if the ODS holds it.
LeaveScope(slot) ==
  /\ Running /\ slot \in reg.pc.in
  /\ LET p == reg.bp + slot IN
     IF \E i \in DOMAIN ods : ods[i].obj = p
     THEN /\ nat' = Append(nat, Unwind(p, "next", NoFun, reg.pc.act))
          /\ UNCHANGED reg
     ELSE /\ reg' = [reg EXCEPT !.pc.in = {s \in @ : s < slot}]
          /\ UNCHANGED nat
  /\ UNCHANGED <<dataVars, fs, resume, xargs, nargs, throwVars, signalVars,
                 mode, acts, halt>>

\* Mutated: the object of a method call is not dropped.
Return_KeepsObject ==
  /\ Running /\ reg.pc.in = {} /\ fs # <<>>
  /\ LET t     == Last(fs)
         value == t.fb = Start /\ "args" \in Last(nat).own
     IN /\ fs' = Front(fs)
        /\ reg' = [fb |-> t.fb, bp |-> t.bp, op |-> reg.op,
                   pc |-> IF t.pc = NullIp THEN EndIp ELSE t.pc,
                   sp |-> reg.bp - NArgs[reg.fb] + (IF value THEN 1 ELSE 0)]
  /\ UNCHANGED <<os, ods, nat, resume, xargs, nargs, throwVars, signalVars,
                 mode, acts, halt>>

\* RET and RETI: end_function(), and the arguments are dropped. A function
\* that execute() called for its value leaves it on the stack. The caller of
\* a method drops the object (DOS).
Return ==
  /\ Running /\ reg.pc.in = {}
  /\ IF fs = <<>> \/ (reg.fb \in Methods /\ os = <<>>) THEN GoWild
     ELSE LET t     == Last(fs)
              value == t.fb = Start /\ "args" \in Last(nat).own
              dos   == t.fb # Start /\ reg.fb \in Methods
          IN /\ fs' = Front(fs)
             /\ reg' = [fb |-> t.fb, bp |-> t.bp,
                        pc |-> IF t.pc = NullIp THEN EndIp ELSE t.pc,
                        sp |-> reg.bp - NArgs[reg.fb] + (IF value THEN 1 ELSE 0),
                        op |-> IF dos THEN Last(os) ELSE reg.op]
             /\ os' = IF dos THEN Front(os) ELSE os
             /\ UNCHANGED <<ods, nat, resume, xargs, nargs, throwVars,
                            signalVars, mode, acts, halt>>

\* Mutated: mSP is not restored after a statement.
ExecEnd_KeepsStack ==
  /\ mode = "run" /\ nat # <<>> /\ Last(nat).k = "exec" /\ reg.pc = EndIp
  /\ LET e == Last(nat) IN
     ReturnTo(Front(nat), [reg EXCEPT !.fb = e.saved.fb, !.pc = e.saved.pc,
                             !.sp = IF "args" \in e.flags THEN @ - 1 ELSE @],
              fs, ods, resume, FALSE)
  /\ UNCHANGED <<os, xargs, nargs, throwVars, signalVars, acts, halt>>

\* start_exec() reached the end of code: execute() returns OK.
ExecEnd ==
  /\ mode = "run" /\ nat # <<>> /\ Last(nat).k = "exec" /\ reg.pc = EndIp
  /\ LET e       == Last(nat)
         outside == "outside" \in e.flags
         old     == IF outside /\ fs # <<>>
                    THEN [e.saved EXCEPT !.fb = Last(fs).fb, !.pc = Last(fs).pc,
                                         !.sp = Last(fs).bp]
                    ELSE e.saved
     IN IF outside /\ fs = <<>> THEN GoWild
        ELSE /\ ReturnTo(Front(nat),
                  [reg EXCEPT !.fb = old.fb, !.pc = old.pc,
                     !.sp = IF "args" \in e.flags THEN @ - 1 ELSE old.sp],
                  IF outside THEN Front(fs) ELSE fs, ods, resume, FALSE)
             /\ UNCHANGED <<os, xargs, nargs, throwVars, signalVars, acts, halt>>

\* A breakpoint: exec_message("halted at"), and execute() returns HALTED.
Halt ==
  /\ Running /\ reg.fb \in Breaks
  /\ ReturnTo(Front(nat), reg, fs, ods, Triple(reg), FALSE)
  /\ halt' = [reg |-> reg, fs |-> fs, ods |-> ods, os |-> os,
              own |-> Last(nat).own]
  /\ UNCHANGED <<os, xargs, nargs, throwVars, signalVars, acts>>

-----------------------------------------------------------------------------
(* Exceptions                                                              *)

\* Mutated: the ODS is searched from its oldest entry.
ThrowException_OldestFirst(type, again, caught, lost) ==
  LET try  == {i \in DOMAIN ods : ods[i].try # NoFun}
      hits == {i \in try : type \in Handles[ods[i].try]}
  IN IF hits # {}
     THEN LET e == ods[Min(hits)] IN
          /\ cur' = e.try
          /\ thrown' = [thrown EXCEPT ![e.try] = type]
          /\ nat' = Append(nat, Unwind(e.obj, caught, e.try, e.act))
     ELSE /\ UNCHANGED throwVars
          /\ nat' = Append(nat, Unwind(NullObj, lost, NoFun, 0))

\* throw_exception(): the topmost marker of the ODS that handles the type is
\* unwound to; without one the whole ODS is. again: a bare throw.
ThrowException(type, again, caught, lost) ==
  LET try  == {i \in DOMAIN ods : ods[i].try # NoFun}
      t    == IF again THEN thrown[cur] ELSE type
      hits == {i \in try : t \in Handles[ods[i].try]}
  IN IF hits # {}
     THEN LET e == ods[Max(hits)] IN
          /\ cur' = e.try
          /\ thrown' = [thrown EXCEPT ![e.try] = t]
          /\ nat' = Append(nat, Unwind(e.obj, caught, e.try, e.act))
     ELSE /\ cur' = IF try # {} THEN ods[Min(try)].try
                    ELSE IF again THEN cur ELSE NoFun
          /\ UNCHANGED thrown
          /\ nat' = Append(nat, Unwind(NullObj, lost, NoFun, 0))

\* THROW_EX of a type.
Throw(t) ==
  /\ Running /\ t \in Throws[reg.fb]
  /\ ThrowException(t, FALSE, "catch", "uncaught")
  /\ UNCHANGED <<reg, dataVars, fs, resume, xargs, nargs, signalVars, mode,
                 acts, halt>>

\* THROW_EX of t_void, the bare throw of a catch block.
Rethrow ==
  /\ Running /\ reg.fb \in Rethrows
  /\ IF cur = NoFun THEN GoWild
     ELSE /\ ThrowException(NoType, TRUE, "catch", "uncaught")
          /\ UNCHANGED <<reg, dataVars, fs, resume, xargs, nargs, signalVars,
                         mode, acts, halt>>

\* An instruction throws a native Exception (bad_ptr_check(), DCAST, ...).
CheckFails ==
  /\ Running /\ reg.fb \in Checks
  /\ mode' = "raise"
  /\ UNCHANGED <<reg, dataVars, fs, nat, resume, xargs, nargs, throwVars,
                 signalVars, acts, halt>>

\* An instruction traps. handler() jumps to the execute() that last filled
\* here_in_execute, whose frame may be gone, and leaves the signal blocked; a
\* trap whose signal is blocked kills the process.
Trap ==
  /\ Running /\ reg.fb \in Traps
  /\ IF jmp = Len(nat) /\ ~blocked
     THEN /\ mode' = "raise" /\ blocked' = TRUE
          /\ UNCHANGED <<reg, dataVars, fs, nat, resume, xargs, nargs,
                         throwVars, jmp, acts, halt>>
     ELSE GoWild

\* execute() catches a native Exception: while halted it gives up at once.
HandleRaise ==
  /\ mode = "raise"
  /\ IF Paused
     THEN /\ ReturnTo(Front(nat), reg, fs, ods, resume, FALSE)
          /\ UNCHANGED throwVars
     ELSE /\ mode' = "run"
          /\ ThrowException(FaultType, FALSE, "resume", "crash")
          /\ UNCHANGED <<reg, fs, ods, resume>>
  /\ UNCHANGED <<os, xargs, nargs, signalVars, acts, halt>>

-----------------------------------------------------------------------------
(* do_unwind()                                                             *)

Unwinding   == mode = "run" /\ nat # <<>> /\ Last(nat).k = "unwind"
\* Mutated: the loop stops before the object.
UnwindStops_Early(u) == ods # <<>> => Last(ods).obj = u.p

\* while (obj != p && o_ds.depth() > 0)
UnwindStops(u) == ods = <<>> \/ (u.p # NullObj /\ u.obj = u.p)

\* The loop pops a record, and executes the destructor of an object.
UnwindStep ==
  /\ Unwinding /\ ~UnwindStops(Last(nat))
  /\ LET e == Last(ods)
         n == [nat EXCEPT ![Len(nat)].obj = e.obj]
     IN IF e.try # NoFun
        THEN /\ nat' = n
             /\ reg' = [reg EXCEPT !.op = e.obj]
             /\ UNCHANGED <<fs, resume, mode, acts, signalVars>>
        ELSE Enter(Dtor, Append(n, Exec([reg EXCEPT !.op = e.obj], {})),
                   [reg EXCEPT !.op = e.obj], fs)
  /\ ods' = Front(ods)
  /\ UNCHANGED <<os, xargs, nargs, throwVars, halt>>

\* Mutated: end_function() is not called for the functions above the handler.
Catch_NoEndFunction(u) ==
  /\ reg' = [u.saved EXCEPT !.fb = u.h, !.pc = CatchIp(u.h, @.act)]
  /\ mode' = "run" /\ UNCHANGED fs

\* while (fb != curr_except->fun_block()) end_function(): the registers and
\* frames in which the catch block of h runs. The false bottom is not a
\* function, so end_function() faults on it.
Catch(u) ==
  LET r     == u.saved
      above == {i \in DOMAIN fs : fs[i].fb = u.h
                                  /\ \A j \in i + 1 .. Len(fs) : fs[j].fb # Start}
  IN IF r.fb = u.h
     THEN /\ reg' = [r EXCEPT !.pc = CatchIp(u.h, r.pc.act)]
          /\ mode' = "run" /\ UNCHANGED fs
     ELSE IF r.fb # Start /\ above # {}
     THEN LET i == Max(above) IN
          /\ reg' = [r EXCEPT !.fb = u.h, !.bp = fs[i].bp,
                              !.pc = CatchIp(u.h, fs[i].pc.act)]
          /\ fs' = SubSeq(fs, 1, i - 1)
          /\ mode' = "run"
     ELSE /\ mode' = "wild" /\ UNCHANGED <<reg, fs>>

UnwindEnds(after) ==
  Unwinding /\ UnwindStops(Last(nat)) /\ Last(nat).after = after

\* UNWIND is done: the scopes from the first object of the scope on are left.
LeftScope ==
  /\ UnwindEnds("next")
  /\ LET u == Last(nat) IN
     reg' = [u.saved EXCEPT !.pc.in = {s \in @ : u.saved.bp + s < u.p}]
  /\ nat' = Front(nat)
  /\ UNCHANGED <<dataVars, fs, resume, xargs, nargs, throwVars, signalVars,
                 mode, acts, halt>>

\* THROW_EX goes on in the catch block.
Caught ==
  /\ UnwindEnds("catch")
  /\ Catch(Last(nat))
  /\ nat' = Front(nat)
  /\ UNCHANGED <<dataVars, resume, xargs, nargs, throwVars, signalVars, acts,
                 halt>>

\* THROW_EX found no handler: it throws a native Exception.
Uncaught ==
  /\ UnwindEnds("uncaught")
  /\ reg' = Last(nat).saved
  /\ mode' = "raise"
  /\ nat' = Front(nat)
  /\ UNCHANGED <<dataVars, fs, resume, xargs, nargs, throwVars, signalVars,
                 acts, halt>>

\* Mutated: the flags are lost.
CaughtNative_LosesFlags ==
  /\ UnwindEnds("resume")
  /\ Catch(Last(nat))
  /\ LET n == Front(nat) IN
     nat' = [n EXCEPT ![Len(n)].flags = {}] /\ jmp' = Len(n)
  /\ resume' = Resume0
  /\ UNCHANGED <<dataVars, xargs, nargs, throwVars, blocked, acts, halt>>

\* execute() resumes itself in the catch block, with the flags of the last
\* argument block.
CaughtNative ==
  /\ UnwindEnds("resume")
  /\ Catch(Last(nat))
  /\ LET n == Front(nat) IN
     /\ nat' = [n EXCEPT ![Len(n)].flags = IF xargs = NoArgs THEN {} ELSE xargs]
     /\ jmp' = Len(n)
  /\ resume' = Resume0
  /\ UNCHANGED <<dataVars, xargs, nargs, throwVars, blocked, acts, halt>>

\* Mutated: the exception is thrown on after the report.
Crash_ThrowsOn ==
  /\ UnwindEnds("crash")
  /\ LET m == ExecMessage(Last(nat).saved, fs, ods) IN
     reg' = m.reg /\ fs' = m.fs /\ ods' = m.ods /\ resume' = m.rs
  /\ nat' = Front(Front(nat))
  /\ mode' = "raise"
  /\ UNCHANGED <<os, xargs, nargs, throwVars, signalVars, acts, halt>>

\* Mutated: execute() goes on running after the report.
Crash_RunsOn ==
  /\ UnwindEnds("crash")
  /\ LET m == ExecMessage(Last(nat).saved, fs, ods) IN
     reg' = m.reg /\ fs' = m.fs /\ ods' = m.ods /\ resume' = m.rs
  /\ nat' = Front(nat)
  /\ UNCHANGED <<os, xargs, nargs, throwVars, signalVars, mode, acts, halt>>

\* execute() reports an uncaught exception and returns CRASHED.
Crash ==
  /\ UnwindEnds("crash")
  /\ LET m == ExecMessage(Last(nat).saved, fs, ods) IN
     ReturnTo(Front(Front(nat)), m.reg, m.fs, m.ods, m.rs, TRUE)
  /\ UNCHANGED <<os, xargs, nargs, throwVars, signalVars, acts, halt>>

-----------------------------------------------------------------------------
Init ==
  /\ reg = Reg0 /\ os = <<>> /\ fs = <<>> /\ ods = <<>> /\ nat = <<>>
  /\ resume = Resume0 /\ xargs = NoArgs /\ nargs = 0
  /\ cur = NoFun /\ thrown = [f \in Fun |-> NoType]
  /\ jmp = 0 /\ blocked = FALSE /\ mode = "run" /\ acts = 0 /\ halt = Halt0

User ==
  \/ \E flags \in {{}, {"args"}} : Console(flags)
  \/ \E i \in 0 .. Len(fs) : SelectFrame(i)
  \/ Resume

Interpret ==
  \/ \E f \in Fun : Call(f) \/ CallNative(f)
  \/ CallLeaf
  \/ \E slot \in {Outer, Inner} : Construct(slot)
  \/ EnterTry
  \/ \E slot \in Slot : LeaveScope(slot)
  \/ Return \/ ExecEnd \/ Halt
  \/ \E t \in Type : Throw(t)
  \/ Rethrow \/ CheckFails \/ Trap

Unwinds ==
  \/ UnwindStep \/ LeftScope \/ Caught \/ Uncaught \/ CaughtNative \/ Crash

Next == User \/ Interpret \/ HandleRaise \/ Unwinds
Spec == Init /\ [][Next]_vars
\* The thread that interprets goes on; the user need not type anything.
FairSpec == Spec /\ WF_vars(Interpret \/ HandleRaise \/ Unwinds)

-----------------------------------------------------------------------------
(* Properties                                                              *)

\* Every register, stack and control block has its shape.
TypeOK ==
  /\ reg \in Reg
  /\ os \in Seq(Int) /\ fs \in Seq(Frame) /\ ods \in Seq(Entry)
  /\ nat \in Seq(Native)
  /\ resume \in [pc: Ip, fb: Fb, bp: Int]
  /\ xargs \in Flags \union {NoArgs} /\ nargs \in Nat
  /\ cur \in Fun \union {NoFun} /\ thrown \in [Fun -> Type \union {NoType}]
  /\ jmp \in Nat /\ blocked \in BOOLEAN
  /\ mode \in {"run", "raise", "wild"} /\ acts \in Nat
  /\ halt \in [reg: Reg, fs: Seq(Frame), ods: Seq(Entry), os: Seq(Int),
               own: Flags]

\* The activations of interpreted code: the running one, the halted one and
\* the callers on the function stack. After a statement is done, fb and ppcode
\* are what they were before it and point nowhere.
Activations ==
  {[fb |-> fs[i].fb, pc |-> fs[i].pc] : i \in DOMAIN fs} \union
  (IF nat # <<>> THEN {[fb |-> reg.fb, pc |-> reg.pc]} ELSE {}) \union
  (IF Paused THEN {[fb |-> halt.reg.fb, pc |-> halt.reg.pc]} ELSE {})
Live == {a \in Activations : a.fb \in Fun /\ a.pc.act > 0}

\* A native Exception is only ever thrown directly under an execute(), which
\* catches it; no do_unwind(), throw_exception() or native frame is between.
RaiseIsCaught == mode = "raise" => nat # <<>> /\ Last(nat).k = "exec"

\* Between unwindings the ODS holds exactly the objects and try markers of
\* the scopes that are open in the live activations, oldest activation first:
\* no object is destroyed twice, early, or never.
OdsMatchesScopes ==
  mode = "run" /\ (\A i \in DOMAIN nat : nat[i].k = "exec") =>
    /\ \A a \in Live :
         {ods[i].slot : i \in {j \in DOMAIN ods : ods[j].act = a.pc.act}}
           = a.pc.in
    /\ \A i \in DOMAIN ods : \E a \in Live : a.pc.act = ods[i].act
    /\ \A i, j \in DOMAIN ods : i < j => ods[i].obj < ods[j].obj

\* While destructors run, throw, crash and overflow the stacks in executions of
\* their own, the frames below do_unwind() stay: it goes on with the function
\* stack as deep as it was, so that the registers it restores belong to its
\* top, or with none at all, after a report that reset the stacks.
UnwindTransparent ==
  mode = "run" /\ nat # <<>> /\ Last(nat).k = "unwind" =>
    Len(fs) = Last(nat).depth \/ fs = <<>>

\* Frames nest: the base pointers of the callers only grow towards the
\* running function, whose frame lies below the top of the execution stack. A
\* false bottom keeps the base pointer of whatever ran before.
FramesNest ==
  mode = "run" /\ nat # <<>> /\ ~Paused =>
    /\ \A i, j \in DOMAIN fs :
         i < j /\ fs[i].fb # Start /\ fs[j].fb # Start => fs[i].bp <= fs[j].bp
    /\ \A i \in DOMAIN fs :
         fs[i].fb # Start => fs[i].bp <= reg.bp \/ Last(nat).k = "unwind"
    /\ Running => reg.bp + NLocal[reg.fb] <= reg.sp

\* Back at the prompt, with no program halted, nothing of what ran is left:
\* no frame, no object to destroy, no marker.
CleanPrompt == Idle /\ ~Paused => fs = <<>> /\ ods = <<>>

\* Back at the prompt, with no program halted, the execution stack and the
\* object stack are as empty as they were at the start.
StackRestored == Idle /\ ~Paused => reg.sp = Base /\ os = <<>>

\* While a program is halted, statements evaluated at the prompt and frames
\* selected there leave it as it was when it halted, so that resuming it
\* continues the same execution.
ResumeExact ==
  Idle /\ Paused =>
    /\ [reg |-> reg, fs |-> fs, ods |-> ods, os |-> os, own |-> halt.own] = halt
    /\ resume.pc = halt.reg.pc /\ resume.fb = halt.reg.fb

\* A breakpoint gives control to the console ("so that we can pause the thread
\* for debugging", engine.cpp:1577): no native caller of the halted code runs
\* on.
HaltStops == [][Halt => nat' = <<>>]_vars

\* execute() ends with the flags it was called with, halted and resumed or
\* resumed in a catch block in between ("save flags and arg block so we can
\* resume properly!", engine.cpp:1606).
FlagsKept ==
  mode = "run" =>
    \A i \in DOMAIN nat : nat[i].k = "exec" => nat[i].flags = nat[i].own

\* The catch block an exception ends in runs in the activation whose try block
\* pushed the marker ("dropped us into the right function context",
\* engine.cpp:1688).
CatchLandsHome ==
  [][(Caught \/ CaughtNative) /\ mode' = "run"
       => reg'.pc.act = Last(nat).act]_vars

\* throw_exception() has handed type t to the youngest activation with an open
\* try block that handles it, and to none only if there is none.
Offered(t) ==
  LET open == {a \in Live : Marker \in a.pc.in /\ t \in Handles[a.fb]}
      u    == Last(nat')
  IN \/ open = {} /\ u.h = NoFun
     \/ \E a \in open : /\ u.h = a.fb /\ u.act = a.pc.act
                        /\ \A b \in open : b.pc.act <= a.pc.act

\* "An exception has to be offered to the innermost enclosing try block first"
\* (engine.cpp:614), across calls: what is thrown, what a catch block throws
\* on, and what a check or a trap throws, unless the ODS was unwound before
\* for an exception that nobody caught.
InnermostFirst ==
  [][/\ \A t \in Type : Throw(t) => Offered(t)
     /\ Rethrow /\ mode' = "run" => Offered(thrown[cur])
     /\ HandleRaise /\ ~Paused /\ ods # <<>> => Offered(FaultType)]_vars

\* A native function that calls the interpreter back finds the registers as
\* they were, and leaves the stack as it was, when the callback ended well.
NativeCallTransparent ==
  [][ExecEnd /\ Len(nat) > 1 /\ nat[Len(nat) - 1].k = "exec" /\ mode' = "run"
       => reg' = Last(nat).saved]_vars

\* Whatever a statement does (it may crash, in destructors too, and overflow
\* both stacks), execute() returns to the console in the end: no combination
\* of registers is left in which neither code, an unwinding nor an exception
\* goes on. Fails when an outer activation is stuck after a nested one.
ConsoleReturns == nat # <<>> ~> nat = <<>> \/ mode = "wild"

\* A trap in interpreted code becomes an exception of the execute() that runs
\* the code ("translate signals into C++ exceptions", engine.cpp:1635).
TrapsAreRaised == [][Trap => mode' = "raise"]_vars
=============================================================================
