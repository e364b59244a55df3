---------------------------- MODULE EngineProofs ----------------------------
(***************************************************************************)
(* What holds of the engine for every interpreted program, every capacity  *)
(* of its stacks and every length of run: registers, stacks and control    *)
(* blocks keep their shape, and a native Exception is only ever thrown     *)
(* where an execute() catches it.  The invariant is strengthened by the    *)
(* shape of the native stack: a do_unwind() is always called by an         *)
(* execute().  The sections after that are about exceptions, the flags of  *)
(* execute(), and destructors; each begins with the programs it is about.  *)
(***************************************************************************)
EXTENDS Engine, NaturalSets, SequenceTheorems

ResumeType == [pc: Ip, fb: Fb, bp: Int]
Mode == {"run", "raise", "wild"}

\* Every do_unwind() on the native stack n was called by the execute() below.
UnwindsNested(n) ==
  \A i \in 1 .. Len(n) : n[i].k = "unwind" => i > 1 /\ n[i - 1].k = "exec"

NatShape == UnwindsNested(nat)

IInv == TypeOK /\ NatShape /\ RaiseIsCaught

-----------------------------------------------------------------------------
(* Sequences                                                               *)

\* Front drops one element and keeps the others.
LEMMA FrontFacts ==
  ASSUME NEW S, NEW s \in Seq(S), s # <<>>
  PROVE  /\ Front(s) \in Seq(S)
         /\ Len(Front(s)) = Len(s) - 1
         /\ Len(s) \in Nat \ {0}
         /\ \A i \in 1 .. Len(s) - 1 : Front(s)[i] = s[i]
<1>1. Len(s) \in Nat \ {0}
  BY EmptySeq
<1>2. \A i \in 1 .. Len(s) - 1 : s[i] \in S
  BY <1>1, ElementOfSeq
<1>3. Front(s) = SubSeq(s, 1, Len(s) - 1)
  BY DEF Front
<1> DEFINE m == Len(s) - 1
<1>4. m \in Int /\ m >= 0
  BY <1>1
<1> HIDE DEF m
<1>5. \A i \in 1 .. m : s[i] \in S
  BY <1>2 DEF m
<1>6. /\ SubSeq(s, 1, m) \in Seq(S)
      /\ Len(SubSeq(s, 1, m)) = IF 1 <= m THEN m - 1 + 1 ELSE 0
      /\ \A i \in 1 .. m - 1 + 1 : SubSeq(s, 1, m)[i] = s[1 + i - 1]
  BY <1>4, <1>5, SubSeqProperties
<1>7. Len(SubSeq(s, 1, m)) = m
      /\ \A i \in 1 .. m : SubSeq(s, 1, m)[i] = s[i]
  BY <1>4, <1>6
<1>8. Front(s) = SubSeq(s, 1, m) /\ m = Len(s) - 1
  BY <1>3 DEF m
<1>9. QED
  BY <1>1, <1>6, <1>7, <1>8

\* Last is the element with the highest index.
LEMMA LastFacts ==
  ASSUME NEW S, NEW s \in Seq(S), s # <<>>
  PROVE  /\ Last(s) \in S
         /\ Last(s) = s[Len(s)]
         /\ Len(s) \in Nat \ {0}
<1>1. Len(s) \in Nat \ {0}
  BY EmptySeq
<1>2. QED
  BY <1>1, ElementOfSeq DEF Last

-----------------------------------------------------------------------------
(* The native stack                                                        *)

\* An execute() may be called from anywhere.
LEMMA PushExec ==
  ASSUME NEW n \in Seq(Native), UnwindsNested(n),
         NEW e \in Native, e.k = "exec"
  PROVE  /\ Append(n, e) \in Seq(Native)
         /\ UnwindsNested(Append(n, e))
         /\ Append(n, e) # <<>>
         /\ Last(Append(n, e)) = e
<1>1. /\ Append(n, e) \in Seq(Native) /\ Append(n, e) # <<>>
      /\ Len(Append(n, e)) = Len(n) + 1
      /\ \A i \in 1 .. Len(n) : Append(n, e)[i] = n[i]
      /\ Append(n, e)[Len(n) + 1] = e
      /\ Len(n) \in Nat
  BY AppendProperties, LenProperties
<1>2. Last(Append(n, e)) = e
  BY <1>1 DEF Last
<1>3. UnwindsNested(Append(n, e))
  <2>1. SUFFICES ASSUME NEW i \in 1 .. Len(n) + 1,
                        Append(n, e)[i].k = "unwind"
                 PROVE  i > 1 /\ Append(n, e)[i - 1].k = "exec"
    BY <1>1 DEF UnwindsNested
  <2>2. i \in 1 .. Len(n)
    BY <1>1, <2>1
  <2>3. i > 1 /\ n[i - 1].k = "exec"
    BY <1>1, <2>1, <2>2 DEF UnwindsNested
  <2>4. QED
    BY <1>1, <2>2, <2>3
<1>4. QED
  BY <1>1, <1>2, <1>3

\* A do_unwind() may be called from an execute().
LEMMA PushUnwind ==
  ASSUME NEW n \in Seq(Native), UnwindsNested(n), n # <<>>,
         Last(n).k = "exec", NEW u \in Native
  PROVE  /\ Append(n, u) \in Seq(Native)
         /\ UnwindsNested(Append(n, u))
<1>1. /\ Append(n, u) \in Seq(Native)
      /\ Len(Append(n, u)) = Len(n) + 1
      /\ \A i \in 1 .. Len(n) : Append(n, u)[i] = n[i]
      /\ Append(n, u)[Len(n) + 1] = u
      /\ Len(n) \in Nat \ {0}
      /\ n[Len(n)].k = "exec"
  BY AppendProperties, LastFacts
<1>2. UnwindsNested(Append(n, u))
  <2>1. SUFFICES ASSUME NEW i \in 1 .. Len(n) + 1,
                        Append(n, u)[i].k = "unwind"
                 PROVE  i > 1 /\ Append(n, u)[i - 1].k = "exec"
    BY <1>1 DEF UnwindsNested
  <2>2. CASE i = Len(n) + 1
    BY <1>1, <2>2
  <2>3. CASE i \in 1 .. Len(n)
    <3>1. i > 1 /\ n[i - 1].k = "exec"
      BY <1>1, <2>1, <2>3 DEF UnwindsNested
    <3>2. QED
      BY <1>1, <2>3, <3>1
  <2>4. QED
    BY <1>1, <2>2, <2>3
<1>3. QED
  BY <1>1, <1>2

\* Returning keeps the shape; below a do_unwind() is an execute().
LEMMA PopNative ==
  ASSUME NEW n \in Seq(Native), UnwindsNested(n), n # <<>>
  PROVE  /\ Front(n) \in Seq(Native)
         /\ UnwindsNested(Front(n))
         /\ Last(n).k = "unwind" => Front(n) # <<>> /\ Last(Front(n)).k = "exec"
<1>1. /\ Front(n) \in Seq(Native)
      /\ Len(Front(n)) = Len(n) - 1
      /\ Len(n) \in Nat \ {0}
      /\ \A i \in 1 .. Len(n) - 1 : Front(n)[i] = n[i]
      /\ Last(n) = n[Len(n)]
  BY FrontFacts, LastFacts
<1>2. UnwindsNested(Front(n))
  <2>1. SUFFICES ASSUME NEW i \in 1 .. Len(n) - 1, Front(n)[i].k = "unwind"
                 PROVE  i > 1 /\ Front(n)[i - 1].k = "exec"
    BY <1>1 DEF UnwindsNested
  <2>2. i > 1 /\ n[i - 1].k = "exec"
    BY <1>1, <2>1 DEF UnwindsNested
  <2>3. QED
    BY <1>1, <2>2
<1>3. ASSUME Last(n).k = "unwind"
      PROVE  Front(n) # <<>> /\ Last(Front(n)).k = "exec"
  <2>1. Len(n) > 1 /\ n[Len(n) - 1].k = "exec"
    BY <1>1, <1>3 DEF UnwindsNested
  <2>2. Front(n) # <<>>
    BY <1>1, <2>1, EmptySeq
  <2>3. QED
    BY <1>1, <2>1, <2>2, LastFacts
<1>4. QED
  BY <1>1, <1>2, <1>3

\* So does changing a field of the top activation other than its kind.
LEMMA ChangeTop ==
  ASSUME NEW n \in Seq(Native), UnwindsNested(n), n # <<>>,
         NEW e \in Native, e.k = Last(n).k
  PROVE  /\ [n EXCEPT ![Len(n)] = e] \in Seq(Native)
         /\ UnwindsNested([n EXCEPT ![Len(n)] = e])
<1> DEFINE m == [n EXCEPT ![Len(n)] = e]
<1>1. /\ Len(n) \in Nat \ {0} /\ Last(n) = n[Len(n)]
      /\ m \in Seq(Native) /\ Len(m) = Len(n)
      /\ \A i \in 1 .. Len(n) : m[i] = IF i = Len(n) THEN e ELSE n[i]
  BY LastFacts, ExceptSeq
<1> HIDE DEF m
<1>2. \A i \in 1 .. Len(n) : m[i].k = n[i].k
  BY <1>1
<1>3. SUFFICES ASSUME NEW i \in 1 .. Len(n), m[i].k = "unwind"
               PROVE  i > 1 /\ m[i - 1].k = "exec"
  BY <1>1, Zenon DEF UnwindsNested, m
<1>4. i > 1 /\ n[i - 1].k = "exec"
  BY <1>1, <1>2, <1>3 DEF UnwindsNested
<1>5. QED
  BY <1>1, <1>2, <1>4
-----------------------------------------------------------------------------
(* The operators the actions are built from                                *)

\* The constants that occur as values of registers.
LEMMA Constants ==
  /\ NullIp \in Ip /\ EndIp \in Ip /\ Resume0 \in ResumeType
  /\ Start \in Fb /\ NoFun \in Fb /\ Fun \subseteq Fb
  /\ Base \in Int /\ NullObj \in Int
BY DEF NullIp, EndIp, Ip, Resume0, ResumeType, Fb, Base, NullObj

\* The fields of the registers.
LEMMA RegFields ==
  ASSUME NEW r \in Reg
  PROVE  /\ r.fb \in Fb /\ r.pc \in Ip /\ r.bp \in Int /\ r.sp \in Int
         /\ r.op \in Int
         /\ Triple(r) \in Frame
BY DEF Reg, Triple, Frame

\* Registers of which some are set anew.
LEMMA RegUpdate ==
  ASSUME NEW r \in Reg
  PROVE  /\ \A op \in Int : [r EXCEPT !.op = op] \in Reg
         /\ \A sp \in Int : [r EXCEPT !.sp = sp] \in Reg
         /\ \A pc \in Ip : [r EXCEPT !.pc = pc] \in Reg
         /\ \A fb \in Fb, pc \in Ip : [r EXCEPT !.fb = fb, !.pc = pc] \in Reg
         /\ \A sp, op \in Int : [r EXCEPT !.sp = sp, !.op = op] \in Reg
         /\ \A sp \in Int, pc \in Ip : [r EXCEPT !.sp = sp, !.pc = pc] \in Reg
         /\ \A fb \in Fb, pc \in Ip, sp \in Int :
              [r EXCEPT !.fb = fb, !.pc = pc, !.sp = sp] \in Reg
         /\ \A fb \in Fb, pc \in Ip, bp \in Int :
              [r EXCEPT !.fb = fb, !.bp = bp, !.pc = pc] \in Reg
         /\ \A fb \in Fb, pc \in Ip, bp, sp \in Int :
              /\ [r EXCEPT !.fb = fb, !.bp = bp, !.sp = sp, !.pc = pc] \in Reg
              /\ [r EXCEPT !.pc = pc, !.fb = fb, !.bp = bp, !.sp = sp] \in Reg
BY DEF Reg

\* The parts of the type invariant that the entry of a function changes.
LEMMA StartFunctionInv ==
  ASSUME TypeOK, NEW f \in Fun, NEW r \in Reg, NEW frames \in Seq(Frame),
         StartFunction(f, r, frames)
  PROVE  /\ reg' \in Reg /\ fs' \in Seq(Frame)
         /\ resume' \in ResumeType /\ mode' \in Mode /\ acts' \in Nat
<1>1. CASE Len(frames) >= MaxFrames
  <2>1. fs' = <<>> /\ mode' \in Mode /\ acts' = acts
    BY <1>1 DEF StartFunction, Mode
  <2>2. reg' \in Reg
    BY <1>1, Constants, RegUpdate DEF StartFunction
  <2>3. resume' \in ResumeType
    BY <1>1, Constants DEF StartFunction
  <2>4. QED
    BY <2>1, <2>2, <2>3, BoundAssumption, EmptySeq DEF TypeOK
<1>2. CASE ~ (Len(frames) >= MaxFrames)
  <2>1. Triple(r) \in Frame
    BY RegFields
  <2>2. fs' = Append(frames, Triple(r)) /\ acts' = acts + 1 /\ resume' = resume
    BY <1>2 DEF StartFunction
  <2>3. fs' \in Seq(Frame)
    BY <1>2, <2>1, <2>2, AppendProperties, LenProperties, BoundAssumption
  <2>4. mode' \in Mode
    BY <1>2 DEF StartFunction, Mode
  <2>5. reg' \in Reg
    <3> DEFINE shared == Paused /\ NLocal[f] = NLocal[Temp]
               bp == IF shared THEN resume.bp ELSE r.sp
               sp == IF shared THEN r.sp ELSE r.sp + NLocal[f]
               ip == [act |-> acts + 1, in |-> {}]
    <3>1. bp \in Int /\ sp \in Int
      <4>1. resume.bp \in Int /\ NLocal[f] \in Int /\ r.sp \in Int
        BY ProgramAssumption, RegFields DEF TypeOK
      <4>2. QED
        BY <4>1
    <3>2. ip \in Ip /\ f \in Fb
      BY Constants DEF TypeOK, Ip
    <3>3. \/ reg' = [r EXCEPT !.fb = f, !.pc = NullIp]
          \/ reg' = [r EXCEPT !.fb = f, !.bp = bp, !.sp = sp, !.pc = ip]
      BY <1>2 DEF StartFunction
    <3> HIDE DEF shared, bp, sp, ip
    <3>4. [r EXCEPT !.fb = f, !.pc = NullIp] \in Reg
      BY <3>2, Constants, RegUpdate
    <3>5. [r EXCEPT !.fb = f, !.bp = bp, !.sp = sp, !.pc = ip] \in Reg
      BY <3>1, <3>2, RegUpdate
    <3>6. QED
      BY <3>3, <3>4, <3>5
  <2>6. QED
    BY <2>2, <2>3, <2>4, <2>5 DEF TypeOK, ResumeType
<1>3. QED
  BY <1>1, <1>2

\* execute() begins with an execute() on top of the native stack.
LEMMA EnterInv ==
  ASSUME TypeOK, NEW f \in Fun, NEW r \in Reg, NEW frames \in Seq(Frame),
         NEW n \in Seq(Native), Enter(f, n, r, frames)
  PROVE  /\ reg' \in Reg /\ fs' \in Seq(Frame)
         /\ resume' \in ResumeType /\ mode' \in Mode /\ acts' \in Nat
         /\ nat' = n /\ jmp' \in Nat /\ blocked' = blocked
<1>1. Restart(r) \in Reg
  BY Constants, RegUpdate DEF Restart
<1>2. StartFunction(f, Restart(r), frames)
  BY DEF Enter
<1>3. nat' = n /\ jmp' \in Nat /\ blocked' = blocked
  BY LenProperties DEF Enter, TypeOK
<1>4. QED
  BY <1>1, <1>2, <1>3, StartFunctionInv

\* What exec_message() leaves of the stacks and registers.
LEMMA ExecMessageType ==
  ASSUME TypeOK, NEW r \in Reg, NEW frames \in Seq(Frame),
         NEW o \in Seq(Entry)
  PROVE  LET m == ExecMessage(r, frames, o) IN
         /\ m.reg \in Reg /\ m.fs \in Seq(Frame)
         /\ m.ods \in Seq(Entry) /\ m.rs \in ResumeType
<1>1. CASE r.fb = Start
  BY <1>1 DEF ExecMessage, TypeOK, ResumeType
<1>2. CASE r.fb # Start
  <2> DEFINE S == {0} \union {i \in DOMAIN frames : frames[i].fb = Start}
             bottom == Max(S)
             all  == IF bottom = 0 THEN Len(frames) ELSE Len(frames) - bottom + 1
             pops == IF all > MaxTrace + 1 THEN MaxTrace + 1 ELSE all
             left == Len(frames) - pops
             t    == IF pops = 0 THEN Triple(r) ELSE frames[left + 1]
             info == \E f \in {r.fb} \union
                       {frames[i].fb : i \in left + 2 .. Len(frames)} :
                         f \in Fun \ ({Temp} \union Undefined)
             sp   == IF left > 0 THEN Base ELSE r.sp
             q    == [r EXCEPT !.pc = t.pc, !.fb = t.fb, !.bp = t.bp,
                               !.sp = sp]
  <2>1. Len(frames) \in Nat /\ DOMAIN frames = 1 .. Len(frames)
    BY LenProperties
  <2>2. S \in SUBSET (0 .. Len(frames)) /\ S # {}
    BY <2>1
  <2>3. bottom \in 0 .. Len(frames)
    <3> HIDE DEF S
    <3>1. QED
      BY <2>1, <2>2, MaxElement
  <2>4. ExecMessage(r, frames, o) =
          [reg |-> q, fs |-> <<>>, ods |-> IF info THEN <<>> ELSE o,
           rs |-> Resume0]
    BY <1>2, Zenon DEF ExecMessage
  <2> HIDE DEF S, bottom, info
  <2>5. all \in 0 .. Len(frames)
    BY <2>1, <2>3
  <2> HIDE DEF all
  <2>6. pops \in 0 .. Len(frames) /\ (pops # 0 => left + 1 \in 1 .. Len(frames))
    BY <2>1, <2>5, BoundAssumption
  <2> HIDE DEF pops, left
  <2>7. t \in Frame
    BY <2>6, ElementOfSeq, RegFields
  <2> HIDE DEF t
  <2>8. sp \in Int
    BY Constants, RegFields
  <2> HIDE DEF sp
  <2>9. q \in Reg
    BY <2>7, <2>8, RegUpdate DEF Frame
  <2> HIDE DEF q
  <2>10. QED
    BY <2>4, <2>9, Constants, EmptySeq, BoundAssumption
<1>3. QED
  BY <1>1, <1>2

\* execute() returns to a caller that is an execute() or a do_unwind(), or
\* to the console.
LEMMA ReturnToInv ==
  ASSUME TypeOK, NEW n \in Seq(Native), NEW r \in Reg,
         NEW frames \in Seq(Frame),
         NEW o \in Seq(Entry), NEW rs \in ResumeType, NEW crashed \in BOOLEAN,
         ReturnTo(n, r, frames, o, rs, crashed)
  PROVE  /\ reg' \in Reg /\ fs' \in Seq(Frame)
         /\ ods' \in Seq(Entry) /\ resume' \in ResumeType
         /\ nat' = n /\ mode' = "run"
<1>1. nat' = n /\ mode' = "run"
  BY DEF ReturnTo
<1>2. CASE n # <<>> /\ Last(n).k = "unwind" /\ crashed
  <2> DEFINE m == ExecMessage(r, frames, o)
  <2>1. reg' = m.reg /\ fs' = m.fs /\ ods' = m.ods /\ resume' = m.rs
    BY <1>2 DEF ReturnTo
  <2>2. /\ m.reg \in Reg /\ m.fs \in Seq(Frame)
        /\ m.ods \in Seq(Entry) /\ m.rs \in ResumeType
    BY ExecMessageType
  <2> HIDE DEF m
  <2>3. QED
    BY <1>1, <2>1, <2>2
<1>3. CASE ~ (n # <<>> /\ Last(n).k = "unwind" /\ crashed)
  <2>1. fs' = frames /\ ods' = o /\ resume' = rs
    BY <1>3 DEF ReturnTo
  <2>2. reg' = AfterNative(r) \/ reg' = r
    BY <1>3 DEF ReturnTo
  <2>3. AfterNative(r) \in Reg
    <3> DEFINE sp == r.sp - nargs
               pc == IF r.pc = NullIp THEN EndIp ELSE r.pc
    <3>1. sp \in Int /\ pc \in Ip
      BY Constants, RegFields DEF TypeOK
    <3>2. AfterNative(r) = [r EXCEPT !.sp = sp, !.pc = pc]
      BY DEF AfterNative
    <3> HIDE DEF sp, pc
    <3>3. [r EXCEPT !.sp = sp, !.pc = pc] \in Reg
      BY <3>1, RegUpdate
    <3>4. QED
      BY <3>2, <3>3
  <2>4. QED
    BY <1>1, <2>1, <2>2, <2>3
<1>4. QED
  BY <1>2, <1>3

\* The activation of do_unwind() that throw_exception() calls, and the
\* catch handlers it remembers.
LEMMA UnwindType ==
  ASSUME TypeOK, NEW p \in Int, NEW after \in After,
         NEW h \in Fun \union {NoFun}, NEW act \in Int
  PROVE  Unwind(p, after, h, act) \in Native
BY LenProperties, Constants DEF TypeOK, Unwind, Native, Flags

LEMMA ExecType ==
  ASSUME NEW r \in Reg, NEW flags \in Flags
  PROVE  Exec(r, flags) \in Native /\ Exec(r, flags).k = "exec"
BY Constants DEF Exec, Native, After

LEMMA ThrowExceptionInv ==
  ASSUME TypeOK, NatShape, nat # <<>>, Last(nat).k = "exec",
         NEW type \in Type \union {NoType}, NEW again \in BOOLEAN,
         again => cur # NoFun,
         NEW caught \in After, NEW lost \in After,
         ThrowException(type, again, caught, lost)
  PROVE  /\ cur' \in Fun \union {NoFun}
         /\ thrown' \in [Fun -> Type \union {NoType}]
         /\ nat' \in Seq(Native) /\ UnwindsNested(nat')
<1> DEFINE try  == {i \in DOMAIN ods : ods[i].try # NoFun}
           t    == IF again THEN thrown[cur] ELSE type
           hits == {i \in try : t \in Handles[ods[i].try]}
<1>1. try \in SUBSET (0 .. Len(ods)) /\ hits \subseteq try /\ Len(ods) \in Nat
  BY LenProperties DEF TypeOK
<1>2. \A i \in try : ods[i].obj \in Int /\ ods[i].try \in Fun /\ ods[i].act \in Int
  <2>1. ASSUME NEW i \in try
        PROVE  ods[i] \in Entry /\ ods[i].try # NoFun
    BY <1>1, LenProperties, ElementOfSeq DEF TypeOK
  <2>2. QED
    BY <2>1 DEF Entry
<1>3. t \in Type \union {NoType}
  BY DEF TypeOK
<1>4. CASE hits # {}
  <2> DEFINE e == ods[Max(hits)]
  <2>1. /\ cur' = e.try /\ thrown' = [thrown EXCEPT ![e.try] = t]
        /\ nat' = Append(nat, Unwind(e.obj, caught, e.try, e.act))
    BY <1>4, Zenon DEF ThrowException
  <2> HIDE DEF hits, try, t
  <2>2. Max(hits) \in hits
    BY <1>1, <1>4, MaxElement
  <2>3. e.obj \in Int /\ e.try \in Fun /\ e.act \in Int
    BY <1>1, <1>2, <2>2
  <2> HIDE DEF e
  <2>4. Unwind(e.obj, caught, e.try, e.act) \in Native
    BY <2>3, UnwindType
  <2>5. nat' \in Seq(Native) /\ UnwindsNested(nat')
    BY <2>1, <2>4, PushUnwind DEF TypeOK, NatShape
  <2>6. QED
    BY <1>3, <2>1, <2>3, <2>5 DEF TypeOK
<1>5. CASE hits = {}
  <2>1. /\ cur' = IF try # {} THEN ods[Min(try)].try
                   ELSE IF again THEN cur ELSE NoFun
        /\ thrown' = thrown
        /\ nat' = Append(nat, Unwind(NullObj, lost, NoFun, 0))
    BY <1>5, Zenon DEF ThrowException, throwVars
  <2> HIDE DEF hits, try, t
  <2>2. try # {} => ods[Min(try)].try \in Fun
    <3>1. ASSUME try # {} PROVE Min(try) \in try
      BY <1>1, <3>1, MinElement
    <3>2. QED
      BY <1>2, <3>1
  <2>3. Unwind(NullObj, lost, NoFun, 0) \in Native
    BY Constants, UnwindType
  <2>4. nat' \in Seq(Native) /\ UnwindsNested(nat')
    BY <2>1, <2>3, PushUnwind DEF TypeOK, NatShape
  <2>5. QED
    BY <2>1, <2>2, <2>4 DEF TypeOK
<1>6. QED
  BY <1>4, <1>5

\* The registers and frames in which a catch block runs.
LEMMA CatchInv ==
  ASSUME TypeOK, NEW u \in Native, Catch(u)
  PROVE  /\ reg' \in Reg /\ fs' \in Seq(Frame)
         /\ mode' \in {"run", "wild"}
<1> DEFINE r     == u.saved
           above == {i \in DOMAIN fs : fs[i].fb = u.h
                                  /\ \A j \in i + 1 .. Len(fs) : fs[j].fb # Start}
<1>1. r \in Reg /\ u.h \in Fun \union {NoFun} /\ Len(fs) \in Nat
      /\ DOMAIN fs = 1 .. Len(fs)
  BY LenProperties DEF TypeOK, Native
<1>2. u.h \in Fb
  BY <1>1 DEF Fb
<1>3. \A a \in Int : CatchIp(u.h, a) \in Ip
  BY DEF CatchIp, Ip, Slot
<1>4. CASE r.fb = u.h
  <2>1. reg' = [r EXCEPT !.pc = CatchIp(u.h, r.pc.act)] /\ mode' = "run"
        /\ fs' = fs
    BY <1>4 DEF Catch
  <2>2. r.pc.act \in Int
    BY <1>1, RegFields DEF Ip
  <2>3. [r EXCEPT !.pc = CatchIp(u.h, r.pc.act)] \in Reg
    BY <1>1, <1>3, <2>2, RegUpdate
  <2>4. QED
    BY <2>1, <2>3 DEF TypeOK
<1>5. CASE r.fb # u.h /\ r.fb # Start /\ above # {}
  <2> DEFINE i == Max(above)
             q == [r EXCEPT !.fb = u.h, !.bp = fs[i].bp,
                            !.pc = CatchIp(u.h, fs[i].pc.act)]
  <2>1. reg' = q /\ fs' = SubSeq(fs, 1, i - 1) /\ mode' = "run"
    BY <1>5, Zenon DEF Catch
  <2>2. above \in SUBSET (0 .. Len(fs))
    BY <1>1
  <2>3. above \subseteq 1 .. Len(fs)
    BY <1>1
  <2> HIDE DEF above
  <2>4. i \in 1 .. Len(fs)
    BY <1>1, <1>5, <2>2, <2>3, MaxElement
  <2> HIDE DEF i
  <2>5. fs[i].bp \in Int /\ fs[i].pc.act \in Int
    <3>1. fs[i] \in Frame
      BY <2>4, ElementOfSeq DEF TypeOK
    <3>2. QED
      BY <3>1 DEF Frame, Ip
  <2>6. q \in Reg
    BY <1>1, <1>2, <1>3, <2>5, RegUpdate
  <2> DEFINE m == i - 1
  <2>7. m \in Int /\ m < Len(fs) /\ \A j \in 1 .. m : fs[j] \in Frame
    BY <1>1, <2>4, ElementOfSeq DEF TypeOK
  <2>8. fs' = SubSeq(fs, 1, m)
    BY <2>1
  <2> HIDE DEF m, q
  <2>9. fs' \in Seq(Frame) /\ Len(fs') <= Len(fs)
    BY <1>1, <2>7, <2>8, SubSeqProperties
  <2>10. QED
    BY <1>1, <2>1, <2>6, <2>9, LenProperties, BoundAssumption
       DEF TypeOK
<1>6. CASE r.fb # u.h /\ ~ (r.fb # Start /\ above # {})
  <2>1. mode' = "wild" /\ reg' = reg /\ fs' = fs
    BY <1>6, Zenon DEF Catch
  <2>2. QED
    BY <2>1 DEF TypeOK
<1>7. QED
  BY <1>4, <1>5, <1>6

\* Registers of which the open scopes change.
LEMMA ScopesUpdate ==
  ASSUME NEW r \in Reg, NEW in \in SUBSET Slot
  PROVE  [r EXCEPT !.pc.in = in] \in Reg
<1>1. r.pc \in Ip
  BY RegFields
<1>2. [r.pc EXCEPT !.in = in] \in Ip
  BY <1>1 DEF Ip
<1>3. [r EXCEPT !.pc = [r.pc EXCEPT !.in = in]] \in Reg
  BY <1>2, RegUpdate
<1>4. QED
  BY <1>3 DEF Reg

-----------------------------------------------------------------------------
(* The steps                                                               *)

\* Undefined behaviour is the end of the model: nothing else changes.
LEMMA GoWildStep ==
  ASSUME IInv, GoWild
  PROVE  IInv'
BY DEF IInv, TypeOK, NatShape, UnwindsNested, RaiseIsCaught,
       GoWild, throwVars, signalVars

\* The console: statements, program runs, frames, resuming.
LEMMA ConsoleStep ==
  ASSUME IInv, NEW flags \in {{}, {"args"}}, Console(flags)
  PROVE  IInv'
<1> DEFINE e == Exec(reg, flags)
           n == <<e>>
<1>1. flags \in Flags /\ TypeOK /\ reg \in Reg /\ fs \in Seq(Frame)
  BY DEF Flags, IInv, TypeOK
<1>2. e \in Native /\ e.k = "exec"
  BY <1>1, ExecType
<1> HIDE DEF e
<1>3. n \in Seq(Native) /\ n # <<>> /\ Len(n) = 1 /\ n[1] = e
  BY <1>2
<1>4. UnwindsNested(n) /\ Last(n).k = "exec"
  BY <1>2, <1>3 DEF UnwindsNested, Last
<1>5. Enter(Temp, n, reg, fs) /\ Temp \in Fun
  BY FunAssumption DEF Console, e
<1> HIDE DEF n
<1>6. /\ reg' \in Reg /\ fs' \in Seq(Frame)
      /\ resume' \in ResumeType /\ mode' \in Mode /\ acts' \in Nat
      /\ nat' = n /\ jmp' \in Nat /\ blocked' = blocked
  BY <1>1, <1>3, <1>5, EnterInv
<1>7. /\ xargs' \in Flags \union {NoArgs}
      /\ UNCHANGED <<os, ods, nargs, cur, thrown, halt>>
  BY <1>1 DEF Console, dataVars, throwVars, TypeOK
<1>8. TypeOK'
  BY <1>1, <1>3, <1>6, <1>7 DEF TypeOK, ResumeType, Mode
<1>9. QED
  BY <1>3, <1>4, <1>6, <1>8
     DEF IInv, NatShape, RaiseIsCaught

LEMMA SelectFrameStep ==
  ASSUME IInv, NEW i \in 0 .. Len(fs), SelectFrame(i)
  PROVE  IInv'
<1> DEFINE bp == IF i = 0 THEN reg.bp ELSE fs[Len(fs) - i + 1].bp
<1>1. /\ TypeOK /\ i \in 0 .. Len(fs) - 1
      /\ resume' = [resume EXCEPT !.bp = bp]
      /\ UNCHANGED <<reg, os, ods, fs, nat, xargs, nargs, cur, thrown, jmp,
                     blocked, mode, acts, halt>>
  BY DEF SelectFrame, IInv, dataVars, throwVars, signalVars
<1>2. bp \in Int
  <2>1. CASE i = 0
    BY <1>1, <2>1, RegFields DEF TypeOK
  <2>2. CASE i # 0
    <3>1. Len(fs) - i + 1 \in 1 .. Len(fs)
      BY <1>1, <2>2, LenProperties DEF TypeOK
    <3>2. fs[Len(fs) - i + 1] \in Frame
      BY <1>1, <3>1, ElementOfSeq DEF TypeOK
    <3>3. QED
      BY <2>2, <3>2 DEF Frame
  <2>3. QED
    BY <2>1, <2>2
<1> HIDE DEF bp
<1>3. resume' \in ResumeType
  BY <1>1, <1>2 DEF TypeOK, ResumeType
<1>4. TypeOK'
  BY <1>1, <1>3 DEF TypeOK, ResumeType
<1>5. QED
  BY <1>1, <1>4
     DEF IInv, NatShape, UnwindsNested, RaiseIsCaught

LEMMA ResumeStep ==
  ASSUME IInv, Resume
  PROVE  IInv'
<1> DEFINE flags == IF xargs = NoArgs THEN {} ELSE xargs
           e == [Exec(reg, flags) EXCEPT !.own = halt.own]
           q == [reg EXCEPT !.fb = resume.fb, !.pc = resume.pc]
<1>1. /\ TypeOK /\ nat' = <<e>> /\ reg' = q /\ resume' = Resume0 /\ jmp' = 1
      /\ mode = "run"
      /\ UNCHANGED <<os, ods, fs, xargs, nargs, cur, thrown, blocked, mode,
                     acts, halt>>
  BY DEF Resume, Idle, IInv, dataVars, throwVars
<1>2. flags \in Flags /\ halt.own \in Flags
  BY <1>1 DEF TypeOK, Flags
<1> HIDE DEF flags
<1>3. Exec(reg, flags) \in Native /\ Exec(reg, flags).k = "exec"
  BY <1>1, <1>2, ExecType DEF TypeOK
<1>4. e \in Native /\ e.k = "exec"
  BY <1>2, <1>3 DEF Native
<1>5. q \in Reg
  BY <1>1, RegUpdate DEF TypeOK
<1> HIDE DEF e, q
<1>6. nat' \in Seq(Native) /\ UnwindsNested(nat')
  BY <1>1, <1>4 DEF UnwindsNested
<1>7. TypeOK'
  BY <1>1, <1>5, <1>6, Constants DEF TypeOK, ResumeType
<1>8. QED
  BY <1>1, <1>6, <1>7
     DEF IInv, NatShape, RaiseIsCaught

\* The innermost activation while interpreted code runs.
LEMMA RunningFacts ==
  ASSUME IInv, Running
  PROVE  /\ TypeOK /\ reg \in Reg /\ reg.fb \in Fun /\ reg.pc \in Ip
         /\ reg.bp \in Int /\ reg.sp \in Int
         /\ nat \in Seq(Native) /\ nat # <<>> /\ UnwindsNested(nat)
         /\ Last(nat).k = "exec" /\ Last(nat) \in Native /\ mode = "run"
BY RegFields, LastFacts DEF Running, IInv, TypeOK, NatShape

LEMMA CallStep ==
  ASSUME IInv, NEW f \in Fun, Call(f)
  PROVE  IInv'
<1>1. TypeOK /\ Running
  BY DEF IInv, Call
<1> DEFINE method == f \in Methods
           sp == reg.sp + NArgs[f]
           op == IF method THEN reg.bp + Outer ELSE reg.op
           q == [reg EXCEPT !.sp = sp, !.op = op]
<1>2. /\ os' = IF method THEN Append(os, reg.op) ELSE os
      /\ StartFunction(f, q, fs)
      /\ UNCHANGED <<ods, nat, xargs, nargs, cur, thrown, jmp, blocked, halt>>
  BY DEF Call, throwVars, signalVars
<1>3. sp \in Int /\ op \in Int /\ reg \in Reg /\ os' \in Seq(Int)
  <2>1. reg \in Reg /\ reg.bp \in Int /\ reg.sp \in Int /\ reg.op \in Int
    BY <1>1, RegFields DEF TypeOK
  <2>2. NArgs[f] \in Int
    BY ProgramAssumption
  <2>3. os' \in Seq(Int)
    BY <1>1, <1>2, <2>1, AppendProperties DEF TypeOK
  <2>4. QED
    BY <2>1, <2>2, <2>3 DEF Outer
<1> HIDE DEF sp, op
<1>4. q \in Reg
  BY <1>3, RegUpdate
<1> HIDE DEF q, method
<1>5. /\ reg' \in Reg /\ fs' \in Seq(Frame)
      /\ resume' \in ResumeType /\ mode' \in Mode /\ acts' \in Nat
  BY <1>1, <1>2, <1>4, StartFunctionInv DEF TypeOK
<1>6. TypeOK'
  BY <1>1, <1>2, <1>3, <1>5 DEF TypeOK, ResumeType, Mode
<1>7. NatShape' /\ RaiseIsCaught'
  BY <1>1, <1>2, RunningFacts DEF NatShape, UnwindsNested, RaiseIsCaught
<1>8. QED
  BY <1>5, <1>6, <1>7 DEF IInv

LEMMA CallNativeStep ==
  ASSUME IInv, NEW g \in Fun, CallNative(g)
  PROVE  IInv'
<1>1. TypeOK /\ Running /\ reg.fb \in Fun
  BY DEF IInv, CallNative, Running
<1> DEFINE flags == {"args", "outside"}
           e == Exec(reg, flags)
           n == Append(nat, e)
           sp == reg.sp + NatArgs[reg.fb] + NArgs[g]
           r == [reg EXCEPT !.sp = sp]
           t == [Triple(r) EXCEPT !.bp = r.sp]
           frames == Append(fs, t)
<1>2. /\ nargs' = NatArgs[reg.fb] /\ xargs' = flags
      /\ Enter(g, n, r, frames)
      /\ UNCHANGED <<os, ods, cur, thrown, halt>>
  BY DEF CallNative, dataVars, throwVars
<1>3. flags \in Flags /\ NatArgs[reg.fb] \in Nat /\ NArgs[g] \in Nat
  BY <1>1, ProgramAssumption DEF Flags
<1>4. e \in Native /\ e.k = "exec"
  BY <1>1, <1>3, RunningFacts, ExecType
<1> HIDE DEF e, flags
<1>5. n \in Seq(Native) /\ UnwindsNested(n) /\ n # <<>> /\ Last(n).k = "exec"
  BY <1>1, <1>4, RunningFacts, PushExec
<1>6. sp \in Int
  BY <1>1, <1>3, RunningFacts
<1> HIDE DEF n, sp
<1>7. r \in Reg
  BY <1>1, <1>6, RunningFacts, RegUpdate
<1> HIDE DEF r
<1>8. t \in Frame
  <2>1. Triple(r) \in Frame /\ r.sp \in Int
    BY <1>7, RegFields
  <2>2. QED
    BY <2>1 DEF Frame
<1> HIDE DEF t
<1>9. frames \in Seq(Frame)
  BY <1>1, <1>8, AppendProperties DEF TypeOK
<1> HIDE DEF frames
<1>10. /\ reg' \in Reg /\ fs' \in Seq(Frame)
       /\ resume' \in ResumeType /\ mode' \in Mode /\ acts' \in Nat
       /\ nat' = n /\ jmp' \in Nat /\ blocked' = blocked
  BY <1>1, <1>2, <1>5, <1>7, <1>9, EnterInv
<1>11. TypeOK'
  BY <1>1, <1>2, <1>3, <1>5, <1>10 DEF TypeOK, ResumeType, Mode
<1>12. QED
  BY <1>5, <1>10, <1>11
     DEF IInv, NatShape, RaiseIsCaught

LEMMA CallLeafStep ==
  ASSUME IInv, CallLeaf
  PROVE  IInv'
<1>1. /\ TypeOK /\ reg.fb \in Fun /\ nargs' = NatArgs[reg.fb]
      /\ UNCHANGED <<reg, os, ods, fs, nat, resume, xargs, cur, thrown, jmp,
                     blocked, mode, acts, halt>>
  BY DEF CallLeaf, IInv, Running, dataVars, throwVars, signalVars
<1>2. nargs' \in Nat
  BY <1>1, ProgramAssumption
<1>3. TypeOK'
  BY <1>1, <1>2 DEF TypeOK
<1>4. QED
  BY <1>1, <1>3
     DEF IInv, NatShape, UnwindsNested, RaiseIsCaught

\* What TOSD pushes for an object or a marker.
LEMMA PushEntry ==
  ASSUME IInv, Running, NEW slot \in Slot, NEW h \in Fun \union {NoFun},
         reg' = [reg EXCEPT !.pc.in = @ \union {slot}],
         ods' = Append(ods, [obj |-> reg.bp + slot, try |-> h,
                             act |-> reg.pc.act, slot |-> slot]),
         UNCHANGED <<os, fs, nat, resume, xargs, nargs, cur, thrown, jmp,
                     blocked, mode, acts, halt>>
  PROVE  IInv'
<1> DEFINE e == [obj |-> reg.bp + slot, try |-> h, act |-> reg.pc.act,
                 slot |-> slot]
<1>1. TypeOK /\ reg \in Reg /\ reg.pc \in Ip /\ reg.bp \in Int
  BY RunningFacts
<1>2. reg.pc.in \union {slot} \subseteq Slot
  BY <1>1 DEF Ip
<1>3. [reg EXCEPT !.pc.in = @ \union {slot}] \in Reg
  BY <1>1, <1>2, ScopesUpdate
<1>4. reg' \in Reg
  BY <1>3
<1>5. e \in Entry
  BY <1>1 DEF Entry, Ip, Slot, Outer, Marker, Inner
<1> HIDE DEF e
<1>6. ods' \in Seq(Entry)
  BY <1>1, <1>5, AppendProperties DEF TypeOK, e
<1>7. TypeOK'
  BY <1>1, <1>4, <1>6 DEF TypeOK
<1>8. QED
  BY <1>1, <1>7
     DEF IInv, NatShape, UnwindsNested, RaiseIsCaught

LEMMA ConstructStep ==
  ASSUME IInv, NEW slot \in {Outer, Inner}, Construct(slot)
  PROVE  IInv'
<1>1. slot \in Slot /\ Running
  BY DEF Slot, Construct
<1>2. /\ reg' = [reg EXCEPT !.pc.in = @ \union {slot}]
      /\ ods' = Append(ods, [obj |-> reg.bp + slot, try |-> NoFun,
                             act |-> reg.pc.act, slot |-> slot])
      /\ UNCHANGED <<os, fs, nat, resume, xargs, nargs, cur, thrown, jmp,
                     blocked, mode, acts, halt>>
  BY DEF Construct, throwVars, signalVars
<1>3. QED
  BY <1>1, <1>2, PushEntry

LEMMA EnterTryStep ==
  ASSUME IInv, EnterTry
  PROVE  IInv'
<1>1. Marker \in Slot /\ Running /\ reg.fb \in Fun
  BY DEF Slot, EnterTry, Running
<1>2. /\ reg' = [reg EXCEPT !.pc.in = @ \union {Marker}]
      /\ ods' = Append(ods, [obj |-> reg.bp + Marker, try |-> reg.fb,
                             act |-> reg.pc.act, slot |-> Marker])
      /\ UNCHANGED <<os, fs, nat, resume, xargs, nargs, cur, thrown, jmp,
                     blocked, mode, acts, halt>>
  BY DEF EnterTry, throwVars, signalVars
<1>3. QED
  BY <1>1, <1>2, PushEntry

LEMMA LeaveScopeStep ==
  ASSUME IInv, NEW slot \in Slot, LeaveScope(slot)
  PROVE  IInv'
<1> DEFINE p == reg.bp + slot
           u == Unwind(p, "next", NoFun, reg.pc.act)
           in == {s \in reg.pc.in : s < slot}
<1>1. /\ Running /\ TypeOK
      /\ UNCHANGED <<os, ods, fs, resume, xargs, nargs, cur, thrown, jmp,
                     blocked, mode, acts, halt>>
      /\ \/ nat' = Append(nat, u) /\ reg' = reg
         \/ reg' = [reg EXCEPT !.pc.in = in] /\ nat' = nat
  BY DEF LeaveScope, IInv, dataVars, throwVars, signalVars
<1>2. /\ reg \in Reg /\ reg.pc.act \in Int /\ in \subseteq Slot /\ p \in Int
  <2>1. reg \in Reg /\ reg.pc \in Ip /\ reg.bp \in Int
    BY <1>1, RunningFacts
  <2>2. QED
    BY <2>1 DEF Ip, Slot, Outer, Marker, Inner
<1> HIDE DEF p, in
<1>3. u \in Native
  BY <1>1, <1>2, UnwindType DEF After
<1> HIDE DEF u
<1>4. Append(nat, u) \in Seq(Native) /\ UnwindsNested(Append(nat, u))
  BY <1>1, <1>3, RunningFacts, PushUnwind
<1>5. [reg EXCEPT !.pc.in = in] \in Reg
  BY <1>2, ScopesUpdate
<1>6. nat' \in Seq(Native) /\ UnwindsNested(nat') /\ reg' \in Reg
  BY <1>1, <1>2, <1>4, <1>5, RunningFacts
<1>7. TypeOK'
  BY <1>1, <1>6 DEF TypeOK
<1>8. mode' # "raise"
  BY <1>1, RunningFacts
<1>9. QED
  BY <1>1, <1>6, <1>7, <1>8
     DEF IInv, NatShape, RaiseIsCaught

LEMMA ReturnStep ==
  ASSUME IInv, Return
  PROVE  IInv'
<1>1. CASE GoWild
  BY <1>1, GoWildStep
<1>2. CASE ~ GoWild
  <2> DEFINE t     == Last(fs)
             value == t.fb = Start /\ "args" \in Last(nat).own
             dos   == t.fb # Start /\ reg.fb \in Methods
             pc    == IF t.pc = NullIp THEN EndIp ELSE t.pc
             sp    == reg.bp - NArgs[reg.fb] + (IF value THEN 1 ELSE 0)
             op    == IF dos THEN Last(os) ELSE reg.op
  <2>1. /\ Running /\ fs # <<>> /\ (reg.fb \in Methods => os # <<>>)
        /\ fs' = Front(fs)
        /\ reg' = [fb |-> t.fb, bp |-> t.bp, pc |-> pc, sp |-> sp, op |-> op]
        /\ os' = IF dos THEN Front(os) ELSE os
        /\ UNCHANGED <<ods, nat, resume, xargs, nargs, cur, thrown, jmp,
                       blocked, mode, acts, halt>>
    BY <1>2 DEF Return, throwVars, signalVars
  <2>2. /\ TypeOK /\ reg \in Reg /\ reg.fb \in Fun /\ mode = "run"
    BY <2>1, RunningFacts
  <2>3. t \in Frame /\ Len(fs) \in Nat
    BY <2>1, <2>2, LastFacts DEF TypeOK
  <2>4. pc \in Ip /\ t.fb \in Fb /\ t.bp \in Int
    BY <2>3, Constants DEF Frame
  <2>5. sp \in Int
    BY <2>2, RegFields, ProgramAssumption
  <2>6. op \in Int /\ os' \in Seq(Int)
    BY <2>1, <2>2, FrontFacts, LastFacts, RegFields DEF TypeOK
  <2>7. fs' \in Seq(Frame) /\ Len(fs') <= Len(fs) /\ Len(fs') \in Nat
    BY <2>1, <2>2, FrontFacts, LenProperties DEF TypeOK
  <2> HIDE DEF t, pc, sp, op, dos
  <2>8. reg' \in Reg
    BY <2>1, <2>4, <2>5, <2>6 DEF Reg
  <2>9. TypeOK'
    BY <2>1, <2>2, <2>6, <2>7, <2>8 DEF TypeOK
  <2>11. QED
    BY <2>1, <2>2, <2>9
       DEF IInv, NatShape, UnwindsNested, RaiseIsCaught
<1>3. QED
  BY <1>1, <1>2

LEMMA ExecEndStep ==
  ASSUME IInv, ExecEnd
  PROVE  IInv'
<1>1. CASE GoWild
  BY <1>1, GoWildStep
<1>2. CASE ~ GoWild
  <2> DEFINE e       == Last(nat)
             outside == "outside" \in e.flags
             t       == Last(fs)
             old     == IF outside /\ fs # <<>>
                        THEN [e.saved EXCEPT !.fb = t.fb, !.pc = t.pc, !.sp = t.bp]
                        ELSE e.saved
             sp      == IF "args" \in e.flags THEN reg.sp - 1 ELSE old.sp
             r       == [reg EXCEPT !.fb = old.fb, !.pc = old.pc, !.sp = sp]
             frames  == IF outside THEN Front(fs) ELSE fs
  <2>1. /\ nat # <<>> /\ (outside => fs # <<>>)
        /\ ReturnTo(Front(nat), r, frames, ods, resume, FALSE)
        /\ UNCHANGED <<os, xargs, nargs, cur, thrown, jmp, blocked, acts, halt>>
    BY <1>2 DEF ExecEnd, throwVars, signalVars
  <2>2. /\ TypeOK /\ reg \in Reg /\ e \in Native /\ UnwindsNested(nat)
        /\ Len(fs) \in Nat
    BY <2>1, LastFacts, LenProperties
       DEF IInv, TypeOK, NatShape
  <2>3. outside => t \in Frame
    BY <2>1, <2>2, LastFacts DEF TypeOK
  <2>4. frames \in Seq(Frame)
    BY <2>1, <2>2, FrontFacts, BoundAssumption DEF TypeOK
  <2>5. Front(nat) \in Seq(Native) /\ UnwindsNested(Front(nat))
    BY <2>1, <2>2, PopNative DEF TypeOK
  <2>6. e.saved \in Reg
    BY <2>2 DEF Native
  <2> HIDE DEF e, frames, t
  <2>7. old \in Reg
    <3>1. ASSUME outside
          PROVE  [e.saved EXCEPT !.fb = t.fb, !.pc = t.pc, !.sp = t.bp] \in Reg
      <4>1. t.fb \in Fb /\ t.pc \in Ip /\ t.bp \in Int
        BY <2>3, <3>1 DEF Frame
      <4>2. QED
        BY <2>6, <4>1, RegUpdate
    <3>2. QED
      BY <2>6, <3>1
  <2> HIDE DEF old
  <2>8. old.fb \in Fb /\ old.pc \in Ip /\ sp \in Int
    BY <2>2, <2>7, RegFields
  <2> HIDE DEF sp
  <2>9. r \in Reg
    BY <2>2, <2>8, RegUpdate
  <2> HIDE DEF r
  <2>10. /\ reg' \in Reg /\ fs' \in Seq(Frame)
         /\ ods' \in Seq(Entry) /\ resume' \in ResumeType
         /\ nat' = Front(nat) /\ mode' = "run"
    BY <2>1, <2>2, <2>4, <2>5, <2>9, ReturnToInv DEF TypeOK, ResumeType
  <2>11. TypeOK'
    BY <2>1, <2>2, <2>5, <2>10 DEF TypeOK, ResumeType
  <2>12. QED
    BY <2>5, <2>10, <2>11 DEF IInv, NatShape, RaiseIsCaught
<1>3. QED
  BY <1>1, <1>2

LEMMA HaltStep ==
  ASSUME IInv, Halt
  PROVE  IInv'
<1>1. /\ Running /\ ReturnTo(Front(nat), reg, fs, ods, Triple(reg), FALSE)
      /\ halt' = [reg |-> reg, fs |-> fs, ods |-> ods, os |-> os,
                  own |-> Last(nat).own]
      /\ UNCHANGED <<os, xargs, nargs, cur, thrown, jmp, blocked, acts>>
  BY DEF Halt, throwVars, signalVars
<1>2. /\ TypeOK /\ reg \in Reg /\ Last(nat) \in Native
      /\ Front(nat) \in Seq(Native) /\ UnwindsNested(Front(nat))
  BY <1>1, RunningFacts, PopNative DEF IInv
<1>3. Triple(reg) \in ResumeType
  BY <1>2, RegFields DEF Frame, ResumeType
<1>4. /\ reg' \in Reg /\ fs' \in Seq(Frame)
      /\ ods' \in Seq(Entry) /\ resume' \in ResumeType
      /\ nat' = Front(nat) /\ mode' = "run"
  BY <1>1, <1>2, <1>3, ReturnToInv DEF TypeOK
<1>5. Last(nat).own \in Flags
  BY <1>2 DEF Native
<1>6. TypeOK'
  BY <1>1, <1>2, <1>4, <1>5 DEF TypeOK, ResumeType
<1>7. QED
  BY <1>2, <1>4, <1>6 DEF IInv, NatShape, RaiseIsCaught

\* What a step that calls throw_exception() in interpreted code preserves.
LEMMA ThrowingStep ==
  ASSUME IInv, nat # <<>>, Last(nat).k = "exec",
         NEW type \in Type \union {NoType}, NEW again \in BOOLEAN,
         again => cur # NoFun,
         NEW caught \in After, NEW lost \in After,
         ThrowException(type, again, caught, lost), mode' = "run",
         UNCHANGED <<reg, os, ods, fs, resume, xargs, nargs, jmp, blocked,
                     acts, halt>>
  PROVE  IInv'
<1>1. TypeOK /\ NatShape
  BY DEF IInv
<1>2. /\ cur' \in Fun \union {NoFun}
      /\ thrown' \in [Fun -> Type \union {NoType}]
      /\ nat' \in Seq(Native) /\ UnwindsNested(nat')
  BY <1>1, ThrowExceptionInv
<1>3. TypeOK'
  BY <1>1, <1>2 DEF TypeOK
<1>4. QED
  BY <1>2, <1>3 DEF IInv, NatShape, RaiseIsCaught

LEMMA ThrowStep ==
  ASSUME IInv, NEW t \in Type, Throw(t)
  PROVE  IInv'
<1>1. /\ Running /\ ThrowException(t, FALSE, "catch", "uncaught")
      /\ UNCHANGED <<reg, os, ods, fs, resume, xargs, nargs, jmp, blocked, mode,
                     acts, halt>>
  BY DEF Throw, dataVars, signalVars
<1>2. "catch" \in After /\ "uncaught" \in After
  BY DEF After
<1>3. mode' = "run" /\ nat # <<>> /\ Last(nat).k = "exec"
  BY <1>1, RunningFacts
<1>4. QED
  BY <1>1, <1>2, <1>3, ThrowingStep

LEMMA RethrowStep ==
  ASSUME IInv, Rethrow
  PROVE  IInv'
<1>1. CASE GoWild
  BY <1>1, GoWildStep
<1>2. CASE ~ GoWild
  <2>1. /\ Running /\ cur # NoFun
        /\ ThrowException(NoType, TRUE, "catch", "uncaught")
        /\ UNCHANGED <<reg, os, ods, fs, resume, xargs, nargs, jmp, blocked, mode,
                       acts, halt>>
    BY <1>2 DEF Rethrow, dataVars, signalVars
  <2>2. "catch" \in After /\ "uncaught" \in After
    BY DEF After
  <2>3. mode' = "run" /\ nat # <<>> /\ Last(nat).k = "exec"
    BY <2>1, RunningFacts
  <2>4. QED
    BY <2>1, <2>2, <2>3, ThrowingStep
<1>3. QED
  BY <1>1, <1>2

LEMMA CheckFailsStep ==
  ASSUME IInv, CheckFails
  PROVE  IInv'
<1>1. /\ Running /\ mode' = "raise"
      /\ UNCHANGED <<reg, os, ods, fs, nat, resume, xargs, nargs, cur, thrown,
                     jmp, blocked, acts, halt>>
  BY DEF CheckFails, dataVars, throwVars, signalVars
<1>2. TypeOK'
  BY <1>1 DEF IInv, TypeOK
<1>3. QED
  BY <1>1, <1>2, RunningFacts
     DEF IInv, NatShape, UnwindsNested, RaiseIsCaught

LEMMA TrapStep ==
  ASSUME IInv, Trap
  PROVE  IInv'
<1>1. CASE GoWild
  BY <1>1, GoWildStep
<1>2. CASE ~ GoWild
  <2>1. /\ Running /\ mode' = "raise" /\ blocked' = TRUE
        /\ UNCHANGED <<reg, os, ods, fs, nat, resume, xargs, nargs, cur, thrown,
                       jmp, acts, halt>>
    BY <1>2 DEF Trap, dataVars, throwVars
  <2>2. TypeOK'
    BY <2>1 DEF IInv, TypeOK
  <2>3. QED
    BY <2>1, <2>2, RunningFacts
       DEF IInv, NatShape, UnwindsNested, RaiseIsCaught
<1>3. QED
  BY <1>1, <1>2

LEMMA HandleRaiseStep ==
  ASSUME IInv, HandleRaise
  PROVE  IInv'
<1>1. /\ mode = "raise" /\ TypeOK /\ nat # <<>> /\ Last(nat).k = "exec"
      /\ UNCHANGED <<os, xargs, nargs, jmp, blocked, acts, halt>>
  BY DEF HandleRaise, IInv, RaiseIsCaught, signalVars
<1>2. CASE Paused
  <2>1. /\ ReturnTo(Front(nat), reg, fs, ods, resume, FALSE)
        /\ UNCHANGED <<cur, thrown>>
    BY <1>2 DEF HandleRaise, throwVars
  <2>2. /\ Front(nat) \in Seq(Native) /\ UnwindsNested(Front(nat))
       
    BY <1>1, PopNative DEF IInv, TypeOK, NatShape
  <2>3. /\ reg' \in Reg /\ fs' \in Seq(Frame)
        /\ ods' \in Seq(Entry) /\ resume' \in ResumeType
        /\ nat' = Front(nat) /\ mode' = "run"
    BY <1>1, <2>1, <2>2, ReturnToInv DEF TypeOK, ResumeType
  <2>4. TypeOK'
    BY <1>1, <2>1, <2>2, <2>3 DEF TypeOK, ResumeType
  <2>5. QED
    BY <2>2, <2>3, <2>4 DEF IInv, NatShape, RaiseIsCaught
<1>3. CASE ~ Paused
  <2>1. /\ ThrowException(FaultType, FALSE, "resume", "crash") /\ mode' = "run"
        /\ UNCHANGED <<reg, os, ods, fs, resume, xargs, nargs, jmp, blocked,
                       acts, halt>>
    BY <1>3 DEF HandleRaise, signalVars
  <2>2. "resume" \in After /\ "crash" \in After /\ FaultType \in Type
    BY FunAssumption DEF After
  <2>3. QED
    BY <1>1, <2>1, <2>2, ThrowingStep
<1>4. QED
  BY <1>2, <1>3

-----------------------------------------------------------------------------
(* do_unwind()                                                             *)

LEMMA UnwindingFacts ==
  ASSUME IInv, Unwinding
  PROVE  /\ TypeOK /\ mode = "run" /\ nat # <<>> /\ Last(nat) \in Native
         /\ Last(nat).saved \in Reg /\ Last(nat).k = "unwind"
         /\ Front(nat) \in Seq(Native) /\ UnwindsNested(Front(nat))
         /\ Front(nat) # <<>> /\ Last(Front(nat)).k = "exec"
<1>1. /\ TypeOK /\ mode = "run" /\ nat \in Seq(Native) /\ nat # <<>>
      /\ UnwindsNested(nat) /\ Last(nat).k = "unwind"
  BY DEF IInv, TypeOK, NatShape, Unwinding
<1>2. Last(nat) \in Native
  BY <1>1, LastFacts
<1>3. Last(nat).saved \in Reg
  BY <1>2 DEF Native
<1>4. QED
  BY <1>1, <1>2, <1>3, PopNative

LEMMA UnwindStepStep ==
  ASSUME IInv, UnwindStep
  PROVE  IInv'
<1> DEFINE e == Last(ods)
           top == Last(nat)
           n == [nat EXCEPT ![Len(nat)].obj = e.obj]
           q == [reg EXCEPT !.op = e.obj]
<1>1. /\ Unwinding /\ ods # <<>> /\ ods' = Front(ods)
      /\ UNCHANGED <<os, xargs, nargs, cur, thrown, halt>>
  BY DEF UnwindStep, UnwindStops, throwVars
<1>2. /\ TypeOK /\ mode = "run" /\ nat # <<>> /\ top \in Native
      /\ nat \in Seq(Native) /\ UnwindsNested(nat) /\ top.k = "unwind"
      /\ reg \in Reg /\ fs \in Seq(Frame)
  BY <1>1, UnwindingFacts DEF IInv, NatShape, TypeOK
<1>3. e.obj \in Int /\ ods' \in Seq(Entry)
  <2>1. e \in Entry
    BY <1>1, <1>2, LastFacts DEF TypeOK
  <2>2. QED
    BY <1>1, <1>2, <2>1, FrontFacts DEF TypeOK, Entry
<1> HIDE DEF e
<1>4. n \in Seq(Native) /\ UnwindsNested(n)
  <2> DEFINE m == [top EXCEPT !.obj = e.obj]
  <2>1. m \in Native /\ m.k = top.k
    BY <1>2, <1>3 DEF Native
  <2>2. n = [nat EXCEPT ![Len(nat)] = m]
    BY <1>2, LastFacts
  <2> HIDE DEF m
  <2>3. QED
    BY <1>2, <2>1, <2>2, ChangeTop
<1>5. q \in Reg
  BY <1>2, <1>3, RegUpdate
<1>6. CASE e.try # NoFun
  <2>1. /\ nat' = n /\ reg' = q
        /\ UNCHANGED <<fs, resume, mode, acts, jmp, blocked>>
    BY <1>6 DEF UnwindStep, signalVars, e
  <2> HIDE DEF n, q
  <2>2. TypeOK'
    BY <1>1, <1>2, <1>3, <1>4, <1>5, <2>1 DEF TypeOK
  <2>3. QED
    BY <1>2, <1>4, <2>1, <2>2 DEF IInv, NatShape, RaiseIsCaught
<1>7. CASE e.try = NoFun
  <2> DEFINE x == Exec(q, {})
             nn == Append(n, x)
  <2>1. Enter(Dtor, nn, q, fs)
    BY <1>7 DEF UnwindStep, e
  <2> HIDE DEF n, q
  <2>2. {} \in Flags /\ Dtor \in Fun
    BY FunAssumption DEF Flags
  <2>3. x \in Native /\ x.k = "exec"
    BY <1>5, <2>2, ExecType
  <2> HIDE DEF x
  <2>4. /\ nn \in Seq(Native) /\ UnwindsNested(nn) /\ nn # <<>>
        /\ Last(nn).k = "exec"
    BY <1>4, <2>3, PushExec
  <2> HIDE DEF nn
  <2>5. /\ reg' \in Reg /\ fs' \in Seq(Frame)
        /\ resume' \in ResumeType /\ mode' \in Mode /\ acts' \in Nat
        /\ nat' = nn /\ jmp' \in Nat /\ blocked' = blocked
    BY <1>2, <1>5, <2>1, <2>2, <2>4, EnterInv
  <2>6. TypeOK'
    BY <1>1, <1>2, <1>3, <2>4, <2>5 DEF TypeOK, ResumeType, Mode
  <2>7. QED
    BY <2>4, <2>5, <2>6 DEF IInv, NatShape, RaiseIsCaught
<1>8. QED
  BY <1>6, <1>7

LEMMA LeftScopeStep ==
  ASSUME IInv, LeftScope
  PROVE  IInv'
<1> DEFINE u  == Last(nat)
           in == {s \in u.saved.pc.in : u.saved.bp + s < u.p}
<1>1. /\ Unwinding
      /\ reg' = [u.saved EXCEPT !.pc.in = in] /\ nat' = Front(nat)
      /\ UNCHANGED <<os, ods, fs, resume, xargs, nargs, cur, thrown, jmp,
                     blocked, mode, acts, halt>>
  BY DEF LeftScope, UnwindEnds, dataVars, throwVars, signalVars
<1>2. /\ TypeOK /\ mode = "run" /\ u.saved \in Reg
      /\ nat' \in Seq(Native) /\ UnwindsNested(nat')
  BY <1>1, UnwindingFacts
<1>3. u.saved.pc \in Ip
  BY <1>2, RegFields
<1>4. in \in SUBSET Slot
  BY <1>3 DEF Ip
<1> HIDE DEF u, in
<1>5. reg' \in Reg
  BY <1>1, <1>2, <1>4, ScopesUpdate
<1>6. TypeOK'
  BY <1>1, <1>2, <1>5 DEF TypeOK
<1>7. QED
  BY <1>1, <1>2, <1>6 DEF IInv, NatShape, RaiseIsCaught

LEMMA CaughtStep ==
  ASSUME IInv, Caught
  PROVE  IInv'
<1>1. /\ Unwinding /\ Catch(Last(nat)) /\ nat' = Front(nat)
      /\ UNCHANGED <<os, ods, resume, xargs, nargs, cur, thrown, jmp, blocked,
                     acts, halt>>
  BY DEF Caught, UnwindEnds, dataVars, throwVars, signalVars
<1>2. /\ TypeOK /\ Last(nat) \in Native
      /\ nat' \in Seq(Native) /\ UnwindsNested(nat')
  BY <1>1, UnwindingFacts DEF IInv
<1>3. /\ reg' \in Reg /\ fs' \in Seq(Frame)
      /\ mode' \in {"run", "wild"}
  BY <1>1, <1>2, CatchInv
<1>4. TypeOK'
  BY <1>1, <1>2, <1>3 DEF TypeOK
<1>5. QED
  BY <1>2, <1>3, <1>4 DEF IInv, NatShape, RaiseIsCaught

LEMMA UncaughtStep ==
  ASSUME IInv, Uncaught
  PROVE  IInv'
<1>1. /\ Unwinding /\ reg' = Last(nat).saved /\ nat' = Front(nat)
      /\ mode' = "raise"
      /\ UNCHANGED <<os, ods, fs, resume, xargs, nargs, cur, thrown, jmp,
                     blocked, acts, halt>>
  BY DEF Uncaught, UnwindEnds, dataVars, throwVars, signalVars
<1>2. /\ TypeOK /\ reg' \in Reg /\ nat' \in Seq(Native) /\ UnwindsNested(nat')
      /\ nat' # <<>> /\ Last(nat').k = "exec"
  BY <1>1, UnwindingFacts
<1>3. TypeOK'
  BY <1>1, <1>2 DEF TypeOK
<1>4. QED
  BY <1>1, <1>2, <1>3 DEF IInv, NatShape, RaiseIsCaught

LEMMA CaughtNativeStep ==
  ASSUME IInv, CaughtNative
  PROVE  IInv'
<1> DEFINE n == Front(nat)
           flags == IF xargs = NoArgs THEN {} ELSE xargs
<1>1. /\ Unwinding /\ Catch(Last(nat))
      /\ nat' = [n EXCEPT ![Len(n)].flags = flags] /\ jmp' = Len(n)
      /\ resume' = Resume0
      /\ UNCHANGED <<os, ods, xargs, nargs, cur, thrown, blocked, acts, halt>>
  BY DEF CaughtNative, UnwindEnds, dataVars, throwVars
<1>2. /\ TypeOK /\ Last(nat) \in Native
      /\ n \in Seq(Native) /\ UnwindsNested(n) /\ n # <<>>
  BY <1>1, UnwindingFacts DEF IInv
<1>3. flags \in Flags
  BY <1>2 DEF TypeOK, Flags
<1> HIDE DEF flags, n
<1>4. nat' \in Seq(Native) /\ UnwindsNested(nat') /\ Len(n) \in Nat
  <2> DEFINE m == [Last(n) EXCEPT !.flags = flags]
  <2>1. Last(n) \in Native /\ Last(n) = n[Len(n)] /\ Len(n) \in Nat
    BY <1>2, LastFacts
  <2>2. m \in Native /\ m.k = Last(n).k
    BY <1>3, <2>1 DEF Native
  <2>3. nat' = [n EXCEPT ![Len(n)] = m]
    BY <1>1, <2>1
  <2> HIDE DEF m
  <2>4. QED
    BY <1>2, <2>1, <2>2, <2>3, ChangeTop
<1>5. /\ reg' \in Reg /\ fs' \in Seq(Frame)
      /\ mode' \in {"run", "wild"}
  BY <1>1, <1>2, CatchInv
<1>6. TypeOK'
  BY <1>1, <1>2, <1>4, <1>5, Constants DEF TypeOK, ResumeType
<1>7. QED
  BY <1>4, <1>5, <1>6 DEF IInv, NatShape, RaiseIsCaught

LEMMA CrashStep ==
  ASSUME IInv, Crash
  PROVE  IInv'
<1> DEFINE m == ExecMessage(Last(nat).saved, fs, ods)
           n == Front(Front(nat))
<1>1. /\ Unwinding /\ ReturnTo(n, m.reg, m.fs, m.ods, m.rs, TRUE)
      /\ UNCHANGED <<os, xargs, nargs, cur, thrown, jmp, blocked, acts, halt>>
  BY DEF Crash, UnwindEnds, throwVars, signalVars
<1>2. /\ TypeOK /\ Last(nat).saved \in Reg
  BY <1>1, UnwindingFacts DEF IInv
<1>3. /\ n \in Seq(Native) /\ UnwindsNested(n)
  BY <1>1, UnwindingFacts, PopNative
<1>4. /\ m.reg \in Reg /\ m.fs \in Seq(Frame)
      /\ m.ods \in Seq(Entry) /\ m.rs \in ResumeType
  BY <1>2, ExecMessageType DEF TypeOK
<1> HIDE DEF m, n
<1>5. /\ reg' \in Reg /\ fs' \in Seq(Frame)
      /\ ods' \in Seq(Entry) /\ resume' \in ResumeType
      /\ nat' = n /\ mode' = "run"
  BY <1>1, <1>2, <1>3, <1>4, ReturnToInv
<1>6. TypeOK'
  BY <1>1, <1>2, <1>3, <1>5 DEF TypeOK, ResumeType
<1>7. QED
  BY <1>3, <1>5, <1>6 DEF IInv, NatShape, RaiseIsCaught

-----------------------------------------------------------------------------
(* The invariant and its consequences                                      *)

LEMMA InitInv == Init => IInv
<1> SUFFICES ASSUME Init
             PROVE  IInv
  OBVIOUS
<1>1. reg \in Reg /\ NoFun \in Fb /\ NullIp \in Ip
  BY Constants DEF Init, Reg0, Reg
<1>2. halt \in [reg: Reg, fs: Seq(Frame), ods: Seq(Entry), os: Seq(Int),
                own: Flags]
  BY <1>1, EmptySeq DEF Init, Halt0, Flags
<1>3. /\ os \in Seq(Int) /\ fs \in Seq(Frame) /\ ods \in Seq(Entry)
      /\ nat \in Seq(Native) /\ Len(nat) = 0 /\ Len(fs) = 0
  BY EmptySeq DEF Init
<1>4. TypeOK
  BY <1>1, <1>2, <1>3, Constants DEF Init, TypeOK, ResumeType
<1>5. QED
  BY <1>3, <1>4, BoundAssumption
     DEF Init, IInv, NatShape, UnwindsNested, RaiseIsCaught

\* Every step, of the user, of interpreted code, of execute() and of
\* do_unwind(), keeps the invariant.
LEMMA NextInv == IInv /\ [Next]_vars => IInv'
<1> SUFFICES ASSUME IInv, [Next]_vars
             PROVE  IInv'
  OBVIOUS
<1>1. CASE User
  BY <1>1, ConsoleStep, SelectFrameStep, ResumeStep DEF User
<1>2. CASE Interpret
  BY <1>2, CallStep, CallNativeStep, CallLeafStep, ConstructStep, EnterTryStep,
     LeaveScopeStep, ReturnStep, ExecEndStep, HaltStep, ThrowStep, RethrowStep,
     CheckFailsStep, TrapStep DEF Interpret
<1>3. CASE HandleRaise
  BY <1>3, HandleRaiseStep
<1>4. CASE Unwinds
  BY <1>4, UnwindStepStep, LeftScopeStep, CaughtStep, UncaughtStep,
     CaughtNativeStep, CrashStep DEF Unwinds
<1>5. CASE UNCHANGED vars
  BY <1>5 DEF vars, IInv, TypeOK, NatShape, UnwindsNested, RaiseIsCaught,
              dataVars, throwVars, signalVars
<1>6. QED
  BY <1>1, <1>2, <1>3, <1>4, <1>5 DEF Next

THEOREM Invariance == Spec => []IInv
BY InitInv, NextInv, PTL DEF Spec

\* Registers, stacks and control blocks keep their shape: engine.h's registers
\* and ExecBlock, and the records of the object destructor stack.
THEOREM TypeCorrect == Spec => []TypeOK
<1>1. IInv => TypeOK
  BY DEF IInv
<1>2. QED
  BY <1>1, Invariance, PTL

\* In every program a native Exception is thrown directly under an execute():
\* none can escape through do_unwind() to a caller that does not catch it.
THEOREM RaisesAreCaught == Spec => []RaiseIsCaught
<1>1. IInv => RaiseIsCaught
  BY DEF IInv
<1>2. QED
  BY <1>1, Invariance, PTL

-----------------------------------------------------------------------------
(***************************************************************************)
(* Exceptions find their way: in every program that behaves well (see      *)
(* WellBehaved: nothing halts, calls back or is undefined, and no function *)
(* with a try block recurs), for every capacity and every length of run,   *)
(* the ODS is the list of the open scopes, a catch block runs in the       *)
(* activation whose try block caught, the innermost try block catches, the *)
(* frames nest, and nothing is left at the prompt.                         *)
(*                                                                         *)
(* The inductive invariant, Sound, says which phases a statement goes      *)
(* through: a function runs, a native Exception is in flight, do_unwind()  *)
(* pops the ODS, one of its destructors runs.  In each phase the frames    *)
(* are a chain of activations whose scopes own the entries of the ODS.     *)
(***************************************************************************)

\* What f calls: the code of a statement calls what was typed.
Callees(f) == Calls[f] \union (IF f = Temp THEN Statements ELSE {})

\* The destructor does nothing but return.
PlainDestructor ==
  /\ Callees(Dtor) = {} /\ Objects[Dtor] = {} /\ Handles[Dtor] = {}
  /\ Throws[Dtor] = {} /\ Dtor \notin Rethrows \union Checks \union Traps

\* No call leads back into a function with a try block: rank does not grow
\* along calls, and falls where such a function is called.
NoHandlerRecurs(rank) ==
  \A f \in Fun : \A g \in Callees(f) :
    rank[g] <= rank[f] /\ (Handles[g] # {} => rank[g] < rank[f])

\* Objects and markers are locals.
LocalsHaveRoom ==
  \A f \in Fun : Objects[f] # {} \/ Handles[f] # {} => NLocal[f] > Inner

\* The programs in which an exception finds its way: without breakpoints,
\* callbacks and undefined functions.
WellBehaved(rank) ==
  /\ Breaks = {} /\ Undefined = {} /\ \A f \in Fun : CallsBack[f] = {}
  /\ NArgs[Temp] = 0
  /\ PlainDestructor /\ LocalsHaveRoom
  /\ rank \in [Fun -> Nat] /\ NoHandlerRecurs(rank)

\* Neither stack overflows.
Roomy == Len(fs) < MaxFrames /\ reg.sp <= MaxStack

-----------------------------------------------------------------------------
\* The frames of what runs: those of its callers, and its own on top.
Frames(frames, r) == Append(frames, Triple(r))

\* The scopes that are open in activation a are nested.
ScopesNest(a) ==
  /\ a.pc.in \subseteq Objects[a.fb]
                        \union (IF Handles[a.fb] # {} THEN {Marker} ELSE {})
  /\ Inner \in a.pc.in => Marker \in a.pc.in
  /\ Marker \in a.pc.in => Objects[a.fb] \intersect {Outer} \subseteq a.pc.in

\* A frame of one of the first n activations.
IsActivation(n, a) ==
  /\ a.fb \in Fun \ {Dtor} /\ a.pc.act \in 1 .. n
  /\ a.bp - NArgs[a.fb] >= Base
  /\ ScopesNest(a)

\* b is called, directly or not, by a.
Above(rank, a, b) ==
  /\ a.pc.act < b.pc.act
  /\ a.bp + NLocal[a.fb] <= b.bp - NArgs[b.fb]
  /\ rank[b.fb] <= rank[a.fb] /\ (Handles[b.fb] # {} => rank[b.fb] < rank[a.fb])

\* c is a false bottom with activations above each other.
Nested(rank, n, c) ==
  /\ Len(c) > 1 /\ c[1].fb = Start /\ c[1].pc = NullIp
  /\ \A i \in 2 .. Len(c) : IsActivation(n, c[i])
  /\ \A i, j \in 2 .. Len(c) : i < j => Above(rank, c[i], c[j])

\* Entry e of the ODS is for an open scope of activation a.
BelongsTo(e, a) ==
  /\ e.act = a.pc.act /\ e.slot \in a.pc.in /\ e.obj = a.bp + e.slot
  /\ e.try = IF e.slot = Marker THEN a.fb ELSE NoFun

\* The ODS o holds nothing but what belongs to the activations c, in order.
Owned(c, o) ==
  /\ \A k \in 1 .. Len(o) : \E i \in 2 .. Len(c) : BelongsTo(o[k], c[i])
  /\ \A k, l \in 1 .. Len(o) : k < l => o[k].obj < o[l].obj

\* It holds everything below height p.
KeptBelow(c, o, p) ==
  \A i \in 2 .. Len(c) : \A s \in c[i].pc.in :
    c[i].bp + s < p => \E k \in 1 .. Len(o) : o[k].obj = c[i].bp + s
\* It holds everything.
Kept(c, o) ==
  \A i \in 2 .. Len(c) : \A s \in c[i].pc.in :
    \E k \in 1 .. Len(o) : o[k].obj = c[i].bp + s

\* What the call u of do_unwind() has still to do, in the activations c.
Target(c, o, u) ==
  /\ u.after \in {"uncaught", "crash"} => u.p = NullObj
  /\ u.after = "next" =>
       /\ u.p >= Base
       /\ \E s \in u.saved.pc.in : u.p = u.saved.bp + s
  /\ u.after \in {"catch", "resume"} =>
       /\ u.p >= Base
       /\ \E i \in 2 .. Len(c) :
            /\ Marker \in c[i].pc.in /\ u.p = c[i].bp + Marker
            /\ u.h = c[i].fb /\ u.act = c[i].pc.act
  /\ u.after = "resume" => Checks \union Traps # {}
  /\ u.p # NullObj =>
       /\ KeptBelow(c, o, u.p)
       /\ IF u.obj = u.p THEN \A k \in 1 .. Len(o) : o[k].obj < u.p
          ELSE \E k \in 1 .. Len(o) : o[k].obj = u.p

\* The call u of do_unwind() interrupts the innermost of the activations.
UnwindOf(rank, n, u, frames, o) ==
  /\ u.k = "unwind" /\ u.depth = Len(frames)
  /\ Nested(rank, n, Frames(frames, u.saved))
  /\ u.saved.bp + NLocal[u.saved.fb] <= u.saved.sp
  /\ Owned(Frames(frames, u.saved), o)
  /\ Target(Frames(frames, u.saved), o, u)

\* The registers are those of r, but for the object.
SameBut(q, r) == q.fb = r.fb /\ q.pc = r.pc /\ q.bp = r.bp /\ q.sp = r.sp

\* e is the execute() that the console called.
Outermost(e) ==
  /\ e.k = "exec" /\ "outside" \notin e.own /\ e.flags = e.own
  /\ e.saved.sp >= Base

-----------------------------------------------------------------------------
(* The phases of a statement                                               *)

\* The console waits, and nothing is left of what ran.
AtPrompt ==
  nat = <<>> /\ mode = "run" /\ fs = <<>> /\ ods = <<>> /\ reg.sp >= Base

\* A function runs.
InFunction(rank) ==
  /\ Len(nat) = 1 /\ Outermost(nat[1]) /\ mode = "run"
  /\ Nested(rank, acts, Frames(fs, reg))
  /\ reg.bp + NLocal[reg.fb] <= reg.sp
  /\ Owned(Frames(fs, reg), ods) /\ Kept(Frames(fs, reg), ods)

\* A native Exception is on its way in a function, from a check or a trap, or
\* since no block caught what was thrown.
InRaise(rank) ==
  /\ Len(nat) = 1 /\ Outermost(nat[1]) /\ mode = "raise"
  /\ Nested(rank, acts, Frames(fs, reg))
  /\ reg.bp + NLocal[reg.fb] <= reg.sp
  /\ Owned(Frames(fs, reg), ods)
  /\ ods = <<>> \/ (Kept(Frames(fs, reg), ods) /\ Checks \union Traps # {})

\* The statement is done.
AtEnd ==
  /\ Len(nat) = 1 /\ Outermost(nat[1]) /\ mode = "run"
  /\ reg.fb = Start /\ reg.pc = EndIp /\ fs = <<>> /\ ods = <<>>
  /\ reg.sp >= IF "args" \in nat[1].own THEN Base + 1 ELSE Base

\* The ODS is unwound.
InUnwind(rank) ==
  /\ Len(nat) = 2 /\ Outermost(nat[1]) /\ mode = "run"
  /\ UnwindOf(rank, acts, nat[2], fs, ods) /\ SameBut(reg, nat[2].saved)

\* do_unwind() executes a destructor.
InExecute ==
  /\ Len(nat) = 3 /\ Outermost(nat[1]) /\ mode = "run"
  /\ nat[3].k = "exec" /\ nat[3].flags = {} /\ nat[3].own = {}
  /\ SameBut(nat[3].saved, nat[2].saved)
\* The destructor runs.
InDestructor(rank) ==
  /\ InExecute
  /\ reg.fb = Dtor /\ reg.pc.in = {} /\ reg.pc # EndIp /\ fs # <<>>
  /\ reg.bp >= nat[2].saved.sp /\ reg.bp + NLocal[Dtor] <= reg.sp
  /\ Last(fs) = [pc |-> NullIp, fb |-> Start, bp |-> nat[2].saved.bp]
  /\ UnwindOf(rank, acts, nat[2], Front(fs), ods)
\* It has returned.
DestructorDone(rank) ==
  /\ InExecute
  /\ reg.fb = Start /\ reg.pc = EndIp /\ reg.bp = nat[2].saved.bp
  /\ UnwindOf(rank, acts, nat[2], fs, ods)

\* Every state is in one of these phases, in programs that behave well.
Sound(rank) ==
  mode # "wild" =>
    /\ resume = Resume0 /\ "outside" \notin xargs
    /\ \/ AtPrompt \/ InFunction(rank) \/ InRaise(rank) \/ AtEnd
       \/ InUnwind(rank) \/ InDestructor(rank) \/ DestructorDone(rank)

-----------------------------------------------------------------------------
(* Frames and scopes                                                       *)

\* The frames of the callers, and the frame of what runs on top of them.
LEMMA FramesShape ==
  ASSUME NEW frames \in Seq(Frame), NEW r \in Reg
  PROVE  LET c == Frames(frames, r)
             m == Len(frames) + 1 IN
         /\ c \in Seq(Frame) /\ Len(c) = m /\ m \in Nat \ {0}
         /\ \A i \in 1 .. Len(frames) : c[i] = frames[i]
         /\ c[m].fb = r.fb /\ c[m].pc = r.pc /\ c[m].bp = r.bp
<1>1. Triple(r) \in Frame /\ Triple(r).fb = r.fb /\ Triple(r).pc = r.pc
      /\ Triple(r).bp = r.bp
  BY RegFields DEF Triple
<1>2. QED
  BY <1>1, AppendProperties, LenProperties DEF Frames

\* The same, to pick the frames from.
FramesOf(c, m, frames, r) ==
  /\ c = Frames(frames, r) /\ m = Len(frames) /\ Len(c) = m + 1
  /\ \A i \in 1 .. m : c[i] = frames[i]
  /\ c[m + 1].fb = r.fb /\ c[m + 1].pc = r.pc /\ c[m + 1].bp = r.bp
\* There are such frames.
LEMMA FramesAre ==
  ASSUME NEW frames \in Seq(Frame), NEW r \in Reg
  PROVE  \E c \in Seq(Frame) : \E m \in Nat : FramesOf(c, m, frames, r)
<1> DEFINE c == Frames(frames, r)
           m == Len(frames)
<1>1. m \in Nat
  BY LenProperties
<1>2. /\ c \in Seq(Frame) /\ Len(c) = m + 1
      /\ \A i \in 1 .. m : c[i] = frames[i]
      /\ c[m + 1].fb = r.fb /\ c[m + 1].pc = r.pc /\ c[m + 1].bp = r.bp
  BY FramesShape
<1>3. FramesOf(c, m, frames, r)
  BY <1>2, Zenon DEF FramesOf
<1>4. QED
  BY <1>1, <1>2, <1>3

\* The fields of an element of a sequence of frames.
LEMMA FrameFields ==
  ASSUME NEW c \in Seq(Frame), NEW i \in 1 .. Len(c)
  PROVE  /\ c[i] \in Frame /\ c[i].fb \in Fb /\ c[i].pc \in Ip /\ c[i].bp \in Int
         /\ c[i].pc.act \in Int /\ c[i].pc.in \in SUBSET Slot
<1>1. c[i] \in Frame
  BY ElementOfSeq
<1>2. QED
  BY <1>1 DEF Frame, Ip

\* The sizes of frames are numbers.
LEMMA Sizes ==
  ASSUME NEW f \in Fun
  PROVE  NArgs[f] \in Nat /\ NLocal[f] \in Nat
BY ProgramAssumption

\* A function with an open scope has room for it in its locals.
LEMMA ScopeInFrame ==
  ASSUME NEW rank, WellBehaved(rank), NEW n \in Nat, NEW c \in Seq(Frame),
         NEW i \in 1 .. Len(c), IsActivation(n, c[i]), NEW s \in c[i].pc.in
  PROVE  /\ s \in Slot /\ s \in 0 .. 2
         /\ c[i].bp + s < c[i].bp + NLocal[c[i].fb]
         /\ c[i].bp + s >= Base
         /\ s = Marker => Handles[c[i].fb] # {}
<1>1. c[i].pc.in \in SUBSET Slot /\ c[i].bp \in Int
  BY FrameFields
<1>2. c[i].fb \in Fun /\ ScopesNest(c[i]) /\ c[i].bp - NArgs[c[i].fb] >= Base
  BY DEF IsActivation
<1>3. NArgs[c[i].fb] \in Nat /\ NLocal[c[i].fb] \in Nat
  BY <1>2, Sizes
<1>4. Objects[c[i].fb] \subseteq {Outer, Inner}
  BY <1>2, ProgramAssumption
<1>5. s \in Objects[c[i].fb] \/ (s = Marker /\ Handles[c[i].fb] # {})
  BY <1>2 DEF ScopesNest
<1>6. NLocal[c[i].fb] > Inner
  BY <1>2, <1>5 DEF WellBehaved, LocalsHaveRoom
<1>7. QED
  BY <1>1, <1>2, <1>3, <1>4, <1>5, <1>6, SMTT(40) DEF Slot, Outer, Marker, Inner, Base

\* The scopes of different activations lie apart on the execution stack.
LEMMA ScopesApart ==
  ASSUME NEW rank, WellBehaved(rank), NEW n \in Nat, NEW c \in Seq(Frame),
         Nested(rank, n, c), NEW i \in 2 .. Len(c), NEW j \in 2 .. Len(c), i < j,
         NEW s \in c[i].pc.in
  PROVE  c[i].bp + s < c[j].bp
<1>1. Len(c) \in Nat
  BY LenProperties
<1>2. i \in 1 .. Len(c) /\ j \in 1 .. Len(c)
  BY <1>1
<1>3. IsActivation(n, c[i]) /\ IsActivation(n, c[j]) /\ Above(rank, c[i], c[j])
  BY DEF Nested
<1>4. c[i].bp \in Int /\ c[j].bp \in Int
  BY <1>2, FrameFields
<1>5. c[i].fb \in Fun /\ c[j].fb \in Fun
  BY <1>3 DEF IsActivation
<1>6. NArgs[c[j].fb] \in Nat /\ NLocal[c[i].fb] \in Nat
  BY <1>5, Sizes
<1>7. s \in 0 .. 2 /\ c[i].bp + s < c[i].bp + NLocal[c[i].fb]
  BY <1>2, <1>3, ScopeInFrame
<1>8. c[i].bp + NLocal[c[i].fb] <= c[j].bp - NArgs[c[j].fb]
  BY <1>3 DEF Above
<1>9. PICK a \in Int, b \in Int : a = c[i].bp /\ b = c[j].bp
  BY <1>4
<1>10. PICK l \in Nat, k \in Nat : l = NLocal[c[i].fb] /\ k = NArgs[c[j].fb]
  BY <1>6
<1>11. a + s < a + l /\ a + l <= b - k /\ s \in Int
  BY <1>7, <1>8, <1>9, <1>10
<1>12. a + s < b
  BY <1>11
<1>13. QED
  BY <1>9, <1>12

\* No function with a try block is active twice.
LEMMA HandlerOnce ==
  ASSUME NEW rank, WellBehaved(rank), NEW n \in Nat, NEW c \in Seq(Frame),
         Nested(rank, n, c), NEW i \in 2 .. Len(c), NEW j \in 2 .. Len(c),
         c[i].fb = c[j].fb, Handles[c[i].fb] # {}
  PROVE  i = j
<1>1. Len(c) \in Nat
  BY LenProperties
<1>2. ASSUME NEW k \in 2 .. Len(c), NEW l \in 2 .. Len(c), k < l,
             c[k].fb = c[l].fb, Handles[c[k].fb] # {}
      PROVE  FALSE
  <2>1. Above(rank, c[k], c[l]) /\ IsActivation(n, c[k])
    BY <1>2 DEF Nested
  <2>2. c[k].fb \in Fun
    BY <2>1 DEF IsActivation
  <2>3. rank[c[k].fb] \in Nat
    BY <2>2 DEF WellBehaved
  <2>4. rank[c[l].fb] < rank[c[k].fb]
    BY <1>2, <2>1 DEF Above
  <2>5. QED
    BY <1>2, <2>3, <2>4
<1>3. ~(i < j) /\ ~(j < i)
  BY <1>2, Zenon
<1>4. QED
  BY <1>1, <1>3

\* d is c cut off above m, with other scopes open in the activation m.
CutAt(d, c, m) ==
  /\ Len(d) = m /\ \A i \in 1 .. m - 1 : d[i] = c[i]
  /\ d[m].fb = c[m].fb /\ d[m].bp = c[m].bp /\ d[m].pc.act = c[m].pc.act

\* Cutting off frames, and opening or closing scopes of the last, keeps nesting.
LEMMA CutNested ==
  ASSUME NEW rank, NEW n \in Nat, NEW c \in Seq(Frame), Nested(rank, n, c),
         NEW m \in 2 .. Len(c), NEW d \in Seq(Frame), CutAt(d, c, m),
         ScopesNest(d[m])
  PROVE  Nested(rank, n, d)
<1>1. Len(c) \in Nat /\ m \in Nat /\ Len(d) = m /\ m > 1
  BY LenProperties DEF CutAt
<1>2. d[1] = c[1]
  BY <1>1 DEF CutAt
<1>3. \A i \in 2 .. m : d[i].fb = c[i].fb /\ d[i].bp = c[i].bp
                        /\ d[i].pc.act = c[i].pc.act
  <2>1. ASSUME NEW i \in 2 .. m
        PROVE  d[i].fb = c[i].fb /\ d[i].bp = c[i].bp /\ d[i].pc.act = c[i].pc.act
    <3>1. CASE i = m
      BY <3>1 DEF CutAt
    <3>2. CASE i # m
      <4>1. i \in 1 .. m - 1
        BY <1>1, <3>2
      <4>2. QED
        BY <4>1 DEF CutAt
    <3>3. QED
      BY <3>1, <3>2
  <2>2. QED
    BY <2>1
<1>4. \A i \in 2 .. m : ScopesNest(d[i])
  <2>1. ASSUME NEW i \in 2 .. m, i # m
        PROVE  ScopesNest(d[i])
    <3>1. i \in 1 .. m - 1 /\ i \in 2 .. Len(c)
      BY <1>1, <2>1
    <3>2. d[i] = c[i] /\ IsActivation(n, c[i])
      BY <3>1 DEF CutAt, Nested
    <3>3. QED
      BY <3>2 DEF IsActivation
  <2>2. QED
    BY <2>1
<1>5. \A i \in 2 .. m : i \in 2 .. Len(c)
  BY <1>1
<1>6. \A i \in 2 .. m : IsActivation(n, d[i])
  BY <1>3, <1>4, <1>5, Zenon DEF IsActivation, Nested
<1>7. \A i, j \in 2 .. m : i < j => Above(rank, d[i], d[j])
  BY <1>3, <1>5, Zenon DEF Above, Nested
<1>8. c[1].fb = Start /\ c[1].pc = NullIp
  BY DEF Nested
<1>9. QED
  BY <1>1, <1>2, <1>6, <1>7, <1>8 DEF Nested

\* Heights of scopes are different: no two scopes share a place.
LEMMA OnePlace ==
  ASSUME NEW rank, WellBehaved(rank), NEW n \in Nat, NEW c \in Seq(Frame),
         Nested(rank, n, c), NEW i \in 2 .. Len(c), NEW j \in 2 .. Len(c),
         NEW s \in c[i].pc.in, NEW t \in c[j].pc.in, c[i].bp + s <= c[j].bp + t
  PROVE  i <= j /\ (i = j => s <= t)
<1>1. Len(c) \in Nat
  BY LenProperties
<1>2. i \in 1 .. Len(c) /\ j \in 1 .. Len(c)
  BY <1>1
<1>3. PICK a \in Int, b \in Int : a = c[i].bp /\ b = c[j].bp
  BY <1>2, FrameFields
<1>4. IsActivation(n, c[i]) /\ IsActivation(n, c[j])
  BY DEF Nested
<1>5. s \in 0 .. 2 /\ t \in 0 .. 2
  BY <1>2, <1>4, ScopeInFrame
<1>6. j < i => b + t < a
  BY <1>3, ScopesApart, Zenon
<1>7. a + s <= b + t
  BY <1>3
<1>8. i = j => a = b
  BY <1>3
<1>9. QED
  BY <1>5, <1>6, <1>7, <1>8

\* d is what is left of c when the ODS o is unwound down to p, the place of the
\* scope s0 of activation m.
CutsScopes(c, o, p, m, s0, d) ==
  /\ KeptBelow(c, o, p) /\ \A k \in 1 .. Len(o) : o[k].obj < p
  /\ s0 \in c[m].pc.in /\ p = c[m].bp + s0
  /\ CutAt(d, c, m) /\ d[m].pc.in = {s \in c[m].pc.in : s < s0}

\* When all of the ODS down to the scope s0 of activation m is unwound, what is
\* left of it belongs to the scopes that are left open.
LEMMA CutScopes ==
  ASSUME NEW rank, WellBehaved(rank), NEW n \in Nat, NEW c \in Seq(Frame),
         Nested(rank, n, c), NEW o \in Seq(Entry), NEW p \in Int,
         Owned(c, o), NEW m \in 2 .. Len(c), NEW s0, NEW d \in Seq(Frame),
         CutsScopes(c, o, p, m, s0, d)
  PROVE  Nested(rank, n, d) /\ Owned(d, o) /\ Kept(d, o)
<1> USE DEF CutsScopes
<1>1. Len(c) \in Nat /\ m \in Nat /\ Len(d) = m /\ m > 1 /\ m <= Len(c)
      /\ m \in 1 .. Len(c)
  BY LenProperties DEF CutAt
<1>2. IsActivation(n, c[m])
  BY DEF Nested
<1>3. s0 \in 0 .. 2 /\ c[m].pc.in \in SUBSET Slot
  BY <1>1, <1>2, ScopeInFrame, FrameFields
<1>4. ScopesNest(d[m])
  <2>1. ScopesNest(c[m])
    BY <1>2 DEF IsActivation
  <2>2. d[m].fb = c[m].fb
    BY DEF CutAt
  <2>3. \A s : s \in d[m].pc.in <=> s \in c[m].pc.in /\ s < s0
    OBVIOUS
  <2>4. Inner \notin d[m].pc.in
    BY <1>3, <2>3 DEF Inner
  <2>5. Marker \in d[m].pc.in =>
          Marker \in c[m].pc.in /\ (Outer \in c[m].pc.in => Outer \in d[m].pc.in)
    BY <1>3, <2>3 DEF Marker, Outer
  <2>6. QED
    BY <2>1, <2>2, <2>3, <2>4, <2>5 DEF ScopesNest
<1>5. Nested(rank, n, d)
  BY <1>4, CutNested
<1>6. \A i \in 2 .. m - 1 : d[i] = c[i]
  BY <1>1 DEF CutAt
<1>7. Owned(d, o)
  <2>1. ASSUME NEW k \in 1 .. Len(o)
        PROVE  \E i \in 2 .. Len(d) : BelongsTo(o[k], d[i])
    <3>1. PICK i \in 2 .. Len(c) : BelongsTo(o[k], c[i])
      BY DEF Owned
    <3>2. PICK t \in c[i].pc.in : o[k].slot = t /\ o[k].obj = c[i].bp + t
      BY <3>1, Zenon DEF BelongsTo
    <3>3. c[i].bp + t < c[m].bp + s0
      BY <3>2
    <3>4. i \in 1 .. Len(c) /\ IsActivation(n, c[i])
      BY <1>1 DEF Nested
    <3>5. PICK a \in Int, b \in Int : a = c[i].bp /\ b = c[m].bp
      BY <1>1, <3>4, FrameFields, Zenon
    <3>6. t \in 0 .. 2
      BY <3>4, ScopeInFrame
    <3>7. a + t < b + s0
      BY <3>3, <3>5
    <3>8. a + t <= b + s0
      BY <1>3, <3>6, <3>7
    <3>9. c[i].bp + t <= c[m].bp + s0
      BY <3>5, <3>8
    <3>10. i <= m
      BY <3>9, OnePlace, Zenon
    <3>11. CASE i = m
      <4>1. t < s0
        BY <1>3, <3>5, <3>6, <3>7, <3>11, SMTT(40)
      <4>2. t \in d[m].pc.in
        BY <3>11, <4>1
      <4>3. BelongsTo(o[k], d[m])
        BY <3>1, <3>2, <3>11, <4>2 DEF BelongsTo, CutAt
      <4>4. QED
        BY <1>1, <4>3
    <3>12. CASE i # m
      <4>1. i \in 2 .. m - 1
        BY <1>1, <3>10, <3>12
      <4>2. QED
        BY <1>1, <1>6, <3>1, <4>1
    <3>13. QED
      BY <3>11, <3>12
  <2>2. QED
    BY <2>1, Zenon DEF Owned
<1>8. Kept(d, o)
  <2>1. ASSUME NEW i \in 2 .. m, NEW s \in d[i].pc.in
        PROVE  \E k \in 1 .. Len(o) : o[k].obj = d[i].bp + s
    <3>1. i \in 2 .. Len(c) /\ i \in 1 .. Len(c)
      BY <1>1
    <3>2. d[i].bp = c[i].bp /\ s \in c[i].pc.in
      BY <1>1, <1>6 DEF CutAt
    <3>3. c[i].bp + s < p
      <4>1. CASE i = m
        <5>1. s \in 0 .. 2 /\ s < s0
          BY <1>2, <3>1, <3>2, <4>1, ScopeInFrame
        <5>2. PICK b \in Int : b = c[m].bp
          BY <1>1, FrameFields, Zenon
        <5>3. b + s < b + s0
          BY <1>3, <5>1
        <5>4. QED
          BY <4>1, <5>2, <5>3
      <4>2. CASE i # m
        <5>1. i < m
          BY <1>1, <4>2
        <5>2. c[i].bp + s < c[m].bp
          BY <3>1, <3>2, <5>1, ScopesApart
        <5>3. IsActivation(n, c[i])
          BY <3>1 DEF Nested
        <5>4. PICK a \in Int, b \in Int : a = c[i].bp /\ b = c[m].bp
          BY <1>1, <3>1, FrameFields, Zenon
        <5>5. s \in 0 .. 2
          BY <3>1, <3>2, <5>3, ScopeInFrame
        <5>6. a + s < b
          BY <5>2, <5>4
        <5>7. a + s < b + s0
          BY <1>3, <5>5, <5>6, SMTT(40)
        <5>8. QED
          BY <5>4, <5>7
      <4>3. QED
        BY <4>1, <4>2
    <3>4. QED
      BY <3>1, <3>2, <3>3, SMTT(40) DEF KeptBelow
  <2>2. QED
    BY <1>1, <2>1 DEF Kept
<1>9. QED
  BY <1>5, <1>7, <1>8

\* The fields of an entry of the ODS.
LEMMA EntryFields ==
  ASSUME NEW o \in Seq(Entry), NEW k \in 1 .. Len(o)
  PROVE  /\ o[k] \in Entry /\ o[k].obj \in Int /\ o[k].act \in Int
         /\ o[k].try \in Fun \union {NoFun} /\ o[k].slot \in Slot
<1>1. o[k] \in Entry
  BY ElementOfSeq
<1>2. QED
  BY <1>1 DEF Entry

\* The first activation of a statement.
LEMMA FirstNested ==
  ASSUME NEW rank, NEW n \in Nat, NEW d \in Seq(Frame), Len(d) = 2,
         d[1].fb = Start, d[1].pc = NullIp,
         d[2].fb \in Fun \ {Dtor}, d[2].pc.act = n + 1, d[2].pc.in = {},
         d[2].bp - NArgs[d[2].fb] >= Base
  PROVE  Nested(rank, n + 1, d) /\ Owned(d, <<>>) /\ Kept(d, <<>>)
<1>1. ScopesNest(d[2])
  BY DEF ScopesNest
<1>2. d[2].pc.act \in 1 .. n + 1
  OBVIOUS
<1>3. IsActivation(n + 1, d[2])
  BY <1>1, <1>2 DEF IsActivation
<1>4. \A i \in 2 .. Len(d) : i = 2
  OBVIOUS
<1>5. Nested(rank, n + 1, d)
  BY <1>3, <1>4 DEF Nested
<1>6. QED
  BY <1>4, <1>5 DEF Owned, Kept

\* A function that is called comes above all that are active.
LEMMA CallNested ==
  ASSUME NEW rank, WellBehaved(rank), NEW n \in Nat, NEW c \in Seq(Frame),
         Nested(rank, n, c), NEW d \in Seq(Frame), NEW m, m = Len(c),
         Len(d) = m + 1, \A i \in 1 .. m : d[i] = c[i],
         NEW g \in Fun \ {Dtor}, g \in Callees(c[m].fb), d[m + 1].fb = g,
         d[m + 1].pc.act = n + 1, d[m + 1].pc.in = {},
         c[m].bp + NLocal[c[m].fb] <= d[m + 1].bp - NArgs[g]
  PROVE  Nested(rank, n + 1, d)
<1>1. m \in Nat /\ m > 1
  BY LenProperties DEF Nested
<1>2. \A i \in 2 .. m : d[i] = c[i] /\ IsActivation(n, c[i])
  BY <1>1 DEF Nested
<1>3. \A i \in 2 .. m : i \in 1 .. Len(c) /\ i \in 2 .. Len(c)
  BY <1>1
<1>4. m \in 2 .. m /\ m + 1 \in 1 .. Len(d) /\ m + 1 \in 2 .. Len(d)
  BY <1>1
<1>5. PICK x \in Int, b \in Int : x = c[m].bp /\ b = d[m + 1].bp
  BY <1>3, <1>4, FrameFields, Zenon
<1>6. PICK l \in Nat, k \in Nat : l = NLocal[c[m].fb] /\ k = NArgs[g]
  BY <1>2, <1>4, Sizes DEF IsActivation
<1>7. x + l <= b - k
  BY <1>5, <1>6
<1>8. IsActivation(n + 1, d[m + 1])
  <2>1. NArgs[c[m].fb] \in Nat /\ c[m].bp - NArgs[c[m].fb] >= Base
    BY <1>2, <1>4, Sizes DEF IsActivation
  <2>2. x >= Base
    BY <1>5, <2>1, SMTT(40) DEF Base
  <2>3. b - k >= Base
    BY <1>6, <1>7, <2>2, SMTT(40) DEF Base
  <2>4. ScopesNest(d[m + 1])
    BY DEF ScopesNest
  <2>5. d[m + 1].pc.act \in 1 .. n + 1
    OBVIOUS
  <2>6. QED
    BY <1>5, <1>6, <2>3, <2>4, <2>5 DEF IsActivation
<1>9. \A i \in 2 .. m : IsActivation(n + 1, d[i])
  <2>1. ASSUME NEW i \in 2 .. m
        PROVE  IsActivation(n + 1, d[i])
    <3>1. d[i] = c[i] /\ c[i].pc.act \in 1 .. n
      BY <1>2 DEF IsActivation
    <3>2. c[i].pc.act \in 1 .. n + 1
      BY <3>1
    <3>3. QED
      BY <1>2, <3>1, <3>2 DEF IsActivation
  <2>2. QED
    BY <2>1
<1>10. \A i \in 2 .. m : Above(rank, d[i], d[m + 1])
  <2>1. ASSUME NEW i \in 2 .. m
        PROVE  Above(rank, d[i], d[m + 1])
    <3>1. d[i] = c[i] /\ c[i].pc.act \in 1 .. n /\ c[i].fb \in Fun
      BY <1>2 DEF IsActivation
    <3>2. c[i].pc.act < n + 1
      BY <3>1
    <3>3. rank[c[i].fb] \in Nat /\ rank[c[m].fb] \in Nat /\ rank[g] \in Nat
      BY <1>2, <1>4, <3>1, Zenon DEF WellBehaved, IsActivation
    <3>4. rank[g] <= rank[c[m].fb] /\ (Handles[g] # {} => rank[g] < rank[c[m].fb])
      BY <1>2, <1>4 DEF WellBehaved, NoHandlerRecurs, IsActivation
    <3>5. rank[c[m].fb] <= rank[c[i].fb]
      <4>1. CASE i = m
        BY <3>3, <4>1
      <4>2. CASE i # m
        BY <1>1, <1>3, <4>2 DEF Nested, Above
      <4>3. QED
        BY <4>1, <4>2
    <3>6. rank[g] <= rank[c[i].fb] /\ (Handles[g] # {} => rank[g] < rank[c[i].fb])
      BY <3>3, <3>4, <3>5, SMTT(40)
    <3>7. PICK a \in Int, q \in Nat : a = c[i].bp /\ q = NLocal[c[i].fb]
      BY <1>3, <3>1, FrameFields, Sizes, Zenon
    <3>8. a + q <= x + l
      <4>1. CASE i = m
        BY <1>5, <1>6, <3>7, <4>1, SMTT(40)
      <4>2. CASE i # m
        <5>1. c[i].bp + NLocal[c[i].fb] <= c[m].bp - NArgs[c[m].fb]
          BY <1>1, <1>3, <4>2 DEF Nested, Above
        <5>2. NArgs[c[m].fb] \in Nat
          BY <1>2, <1>4, Sizes, Zenon DEF IsActivation
        <5>3. a + q <= x - NArgs[c[m].fb]
          BY <1>5, <3>7, <5>1
        <5>4. QED
          BY <5>2, <5>3, SMTT(40)
      <4>3. QED
        BY <4>1, <4>2
    <3>9. a + q <= b - k
      BY <1>7, <3>8
    <3>10. QED
      BY <1>5, <1>6, <3>1, <3>2, <3>6, <3>7, <3>9, Zenon DEF Above
  <2>2. QED
    BY <2>1
<1>11. \A i, j \in 2 .. m + 1 : i < j => Above(rank, d[i], d[j])
  <2>1. ASSUME NEW i \in 2 .. m + 1, NEW j \in 2 .. m + 1, i < j
        PROVE  Above(rank, d[i], d[j])
    <3>1. CASE j = m + 1
      BY <1>1, <1>10, <2>1, <3>1
    <3>2. CASE j # m + 1
      <4>1. i \in 2 .. m /\ j \in 2 .. m
        BY <1>1, <2>1, <3>2
      <4>2. QED
        BY <1>2, <2>1, <4>1 DEF Nested
    <3>3. QED
      BY <3>1, <3>2
  <2>2. QED
    BY <2>1
<1>12. \A i \in 2 .. m + 1 : IsActivation(n + 1, d[i])
  <2>1. ASSUME NEW i \in 2 .. m + 1, i # m + 1
        PROVE  i \in 2 .. m
    BY <1>1, <2>1
  <2>2. QED
    BY <1>8, <1>9, <2>1
<1>13. d[1] = c[1] /\ c[1].fb = Start /\ c[1].pc = NullIp
  BY <1>1 DEF Nested
<1>14. QED
  BY <1>1, <1>11, <1>12, <1>13 DEF Nested

\* A function that is called has no scopes open yet.
LEMMA CallScopes ==
  ASSUME NEW c \in Seq(Frame), NEW d \in Seq(Frame), NEW m, m = Len(c),
         Len(d) = m + 1, \A i \in 1 .. m : d[i] = c[i], d[m + 1].pc.in = {},
         NEW o \in Seq(Entry), Owned(c, o), Kept(c, o)
  PROVE  Owned(d, o) /\ Kept(d, o)
<1>1. m \in Nat
  BY LenProperties
<1>2. \A i \in 2 .. m : i \in 2 .. m + 1 /\ d[i] = c[i]
  BY <1>1
<1>3. \A i \in 2 .. m + 1 : i \in 2 .. m \/ i = m + 1
  BY <1>1
<1>4. Owned(d, o)
  BY <1>2 DEF Owned
<1>5. Kept(d, o)
  <2>1. ASSUME NEW i \in 2 .. m + 1, NEW s \in d[i].pc.in
        PROVE  \E k \in 1 .. Len(o) : o[k].obj = d[i].bp + s
    <3>1. i \in 2 .. m
      BY <1>3, <2>1
    <3>2. QED
      BY <1>2, <3>1 DEF Kept
  <2>2. QED
    BY <2>1 DEF Kept
<1>6. QED
  BY <1>4, <1>5

\* d is c without its last frame, which has no scope open.
Returns(d, c, m) ==
  /\ m + 1 = Len(c) /\ m > 1 /\ c[m + 1].pc.in = {}
  /\ Len(d) = m /\ \A i \in 1 .. m : d[i] = c[i]

\* A function that returns has no scopes open any more.
LEMMA ReturnScopes ==
  ASSUME NEW rank, NEW n \in Nat, NEW c \in Seq(Frame), Nested(rank, n, c),
         NEW m \in Nat, NEW d \in Seq(Frame), Returns(d, c, m),
         NEW o \in Seq(Entry), Owned(c, o), Kept(c, o)
  PROVE  Nested(rank, n, d) /\ Owned(d, o) /\ Kept(d, o)
<1> USE DEF Returns
<1>1. \A i \in 2 .. m : i \in 2 .. Len(c) /\ d[i] = c[i]
  OBVIOUS
<1>2. m \in 2 .. Len(c) /\ m \in 2 .. m
  OBVIOUS
<1>3. ScopesNest(d[m])
  BY <1>1, <1>2 DEF Nested, IsActivation
<1>4. CutAt(d, c, m)
  BY <1>1, <1>2 DEF CutAt
<1>5. Nested(rank, n, d)
  BY <1>2, <1>3, <1>4, CutNested, Zenon
<1>6. Owned(d, o)
  <2>1. ASSUME NEW k \in 1 .. Len(o)
        PROVE  \E i \in 2 .. Len(d) : BelongsTo(o[k], d[i])
    <3>1. PICK i \in 2 .. Len(c) : BelongsTo(o[k], c[i])
      BY Zenon DEF Owned
    <3>2. i # m + 1
      BY <3>1 DEF BelongsTo
    <3>3. i \in 2 .. m
      BY <3>2
    <3>4. QED
      BY <1>1, <3>1, <3>3
  <2>2. QED
    BY <2>1, Zenon DEF Owned
<1>7. Kept(d, o)
  BY <1>1 DEF Kept
<1>8. QED
  BY <1>5, <1>6, <1>7

\* d are the activations c after the innermost, m, opened the scope s.
Opens(d, c, m, s) ==
  /\ m = Len(c) /\ CutAt(d, c, m) /\ ScopesNest(d[m])
  /\ d[m].pc.in = c[m].pc.in \union {s} /\ \A t \in c[m].pc.in : t < s
\* Entry e of the ODS is that of scope s of activation a.
Notes(e, a, s) ==
  /\ e.act = a.pc.act /\ e.slot = s /\ e.obj = a.bp + s
  /\ e.try = IF s = Marker THEN a.fb ELSE NoFun
\* What TOSD pushes belongs to the scope that it opens.
LEMMA OpenScope ==
  ASSUME NEW rank, WellBehaved(rank), NEW n \in Nat, NEW c \in Seq(Frame),
         Nested(rank, n, c), NEW m, NEW d \in Seq(Frame), NEW s \in 0 .. 2,
         Opens(d, c, m, s),
         NEW o \in Seq(Entry), Owned(c, o), Kept(c, o), NEW e \in Entry,
         Notes(e, c[m], s)
  PROVE  LET q == Append(o, e) IN
         Nested(rank, n, d) /\ Owned(d, q) /\ Kept(d, q)
<1> USE DEF Opens, Notes
<1>1. m \in Nat /\ m > 1 /\ m \in 2 .. Len(c) /\ Len(d) = m /\ m \in 1 .. Len(c)
  BY LenProperties DEF Nested, CutAt
<1>2. Nested(rank, n, d)
  BY <1>1, CutNested
<1>3. \A i \in 2 .. m - 1 : d[i] = c[i] /\ i \in 2 .. m
  BY <1>1 DEF CutAt
<1>4. \A i \in 2 .. m : d[i].bp = c[i].bp /\ c[i].pc.in \subseteq d[i].pc.in
  <2>1. ASSUME NEW i \in 2 .. m
        PROVE  d[i].bp = c[i].bp /\ c[i].pc.in \subseteq d[i].pc.in
    <3>1. CASE i = m
      BY <3>1 DEF CutAt
    <3>2. CASE i # m
      <4>1. i \in 2 .. m - 1
        BY <1>1, <3>2
      <4>2. QED
        BY <1>3, <4>1, Zenon
    <3>3. QED
      BY <3>1, <3>2
  <2>2. QED
    BY <2>1
<1> DEFINE q == Append(o, e)
           z == Len(o)
<1>5. /\ q \in Seq(Entry) /\ Len(q) = z + 1 /\ z \in Nat
      /\ \A k \in 1 .. z : q[k] = o[k]
      /\ q[z + 1] = e
  BY AppendProperties, LenProperties
<1> HIDE DEF q
<1>6. \A k \in 1 .. z : \E i \in 2 .. m : BelongsTo(o[k], d[i])
  <2>1. ASSUME NEW k \in 1 .. z
        PROVE  \E i \in 2 .. m : BelongsTo(o[k], d[i])
    <3>1. PICK i \in 2 .. Len(c) : BelongsTo(o[k], c[i])
      BY DEF Owned
    <3>2. d[i].bp = c[i].bp /\ c[i].pc.in \subseteq d[i].pc.in /\ i \in 2 .. m
      BY <1>4
    <3>3. d[i].fb = c[i].fb /\ d[i].pc.act = c[i].pc.act
      <4>1. CASE i = m
        BY <4>1 DEF CutAt
      <4>2. CASE i # m
        <5>1. i \in 2 .. m - 1
          BY <1>1, <3>2, <4>2
        <5>2. QED
          BY <1>3, <5>1, Zenon
      <4>3. QED
        BY <4>1, <4>2
    <3>4. BelongsTo(o[k], d[i])
      BY <3>1, <3>2, <3>3, Zenon DEF BelongsTo
    <3>5. QED
      BY <3>2, <3>4
  <2>2. QED
    BY <2>1, Zenon
<1>7. BelongsTo(e, d[m]) /\ m \in 2 .. m
  BY <1>1 DEF BelongsTo, CutAt
<1>8. \A k \in 1 .. z : o[k].obj < e.obj
  <2>1. ASSUME NEW k \in 1 .. z
        PROVE  o[k].obj < e.obj
    <3>1. PICK i \in 2 .. Len(c) : BelongsTo(o[k], c[i])
      BY DEF Owned
    <3>2. PICK t \in c[i].pc.in : o[k].obj = c[i].bp + t
      BY <3>1 DEF BelongsTo
    <3>3. i \in 1 .. Len(c) /\ IsActivation(n, c[i])
      BY <1>1 DEF Nested
    <3>4. PICK a \in Int, b \in Int : a = c[i].bp /\ b = c[m].bp
      BY <1>1, <3>3, FrameFields, Zenon
    <3>5. t \in 0 .. 2
      BY <3>3, ScopeInFrame, Zenon
    <3>6. a + t < b + s
      <4>1. CASE i = m
        <5>1. a = b /\ t < s
          BY <3>4, <4>1
        <5>2. QED
          BY <3>5, <5>1
      <4>2. CASE i # m
        <5>1. i < m
          BY <1>1, <4>2
        <5>2. a + t < b
          BY <1>1, <3>4, <5>1, ScopesApart, Zenon
        <5>3. QED
          BY <3>5, <5>2
      <4>3. QED
        BY <4>1, <4>2
    <3>7. QED
      BY <3>2, <3>4, <3>6
  <2>2. QED
    BY <2>1
<1>9. Owned(d, q)
  <2>1. ASSUME NEW k \in 1 .. z + 1
        PROVE  \E i \in 2 .. m : BelongsTo(q[k], d[i])
    <3>1. CASE k = z + 1
      BY <1>5, <1>7, <3>1
    <3>2. CASE k # z + 1
      <4>1. k \in 1 .. z
        BY <1>5, <3>2
      <4>2. QED
        BY <1>5, <1>6, <4>1
    <3>3. QED
      BY <3>1, <3>2
  <2>2. ASSUME NEW k \in 1 .. z + 1, NEW l \in 1 .. z + 1, k < l
        PROVE  q[k].obj < q[l].obj
    <3>1. k \in 1 .. z
      BY <1>5, <2>2
    <3>2. CASE l = z + 1
      BY <1>5, <1>8, <3>1, <3>2, Zenon
    <3>3. CASE l # z + 1
      <4>1. l \in 1 .. z
        BY <1>5, <3>3
      <4>2. QED
        BY <1>5, <2>2, <3>1, <4>1, Zenon DEF Owned
    <3>4. QED
      BY <3>2, <3>3
  <2>3. QED
    BY <1>1, <1>5, <2>1, <2>2 DEF Owned
<1>10. Kept(d, q)
  <2>1. ASSUME NEW i \in 2 .. m, NEW t \in d[i].pc.in
        PROVE  \E k \in 1 .. z + 1 : q[k].obj = d[i].bp + t
    <3>1. CASE t \in c[i].pc.in
      <4>1. PICK k \in 1 .. z : o[k].obj = c[i].bp + t
        BY <1>1, <3>1 DEF Kept
      <4>2. k \in 1 .. z + 1 /\ q[k].obj = d[i].bp + t
        BY <1>4, <1>5, <4>1, SMTT(40)
      <4>3. QED
        BY <4>2, Zenon
    <3>2. CASE t \notin c[i].pc.in
      <4>1. i = m
        <5>1. ASSUME i # m PROVE FALSE
          <6>1. i \in 2 .. m - 1
            BY <1>1, <5>1
          <6>2. QED
            BY <1>3, <3>2, <6>1
        <5>2. QED
          BY <5>1
      <4>2. t = s
        BY <3>2, <4>1
      <4>3. q[z + 1].obj = d[i].bp + t /\ z + 1 \in 1 .. z + 1
        BY <1>5, <4>1, <4>2 DEF CutAt
      <4>4. QED
        BY <4>3
    <3>3. QED
      BY <3>1, <3>2
  <2>2. QED
    BY <1>1, <1>5, <2>1 DEF Kept
<1>11. QED
  BY <1>2, <1>9, <1>10 DEF q

\* Popping a record of the ODS: what is left is still owned, and what is to be
\* left when do_unwind() is done is still there.
LEMMA PopScope ==
  ASSUME NEW c \in Seq(Frame), NEW o \in Seq(Entry), o # <<>>, Owned(c, o),
         NEW u \in Native, NEW v \in Native, Target(c, o, u),
         ~(u.p # NullObj /\ u.obj = u.p), v.obj = Last(o).obj,
         v.p = u.p, v.after = u.after, v.h = u.h, v.act = u.act, v.saved = u.saved
  PROVE  Owned(c, Front(o)) /\ Target(c, Front(o), v)
<1>1. PICK m \in Nat : m + 1 = Len(o)
  <2>1. PICK l \in Nat \ {0} : l = Len(o)
    BY LastFacts
  <2>2. l - 1 \in Nat /\ (l - 1) + 1 = l
    BY <2>1
  <2>3. QED
    BY <2>1, <2>2, Zenon
<1>2. PICK q \in Seq(Entry) : q = Front(o)
  BY FrontFacts
<1>3. Len(q) = m /\ \A k \in 1 .. m : q[k] = o[k]
  <2>1. Len(q) = Len(o) - 1 /\ \A k \in 1 .. Len(o) - 1 : q[k] = o[k]
    BY <1>2, FrontFacts
  <2>2. QED
    BY <1>1, <2>1
<1>4. \A k \in 1 .. m : k \in 1 .. Len(o)
  BY <1>1
<1>5. Owned(c, q)
  BY <1>3, <1>4, Zenon DEF Owned
<1>6. Last(o) = o[m + 1] /\ m + 1 \in 1 .. Len(o)
  BY <1>1, LastFacts
<1>7. \A k \in 1 .. m : q[k].obj < v.obj
  BY <1>1, <1>3, <1>4, <1>6 DEF Owned
<1>8. \A k \in 1 .. m + 1 : o[k].obj \in Int
  BY <1>1, EntryFields
<1>9. v.obj \in Int /\ v.p \in Int
  BY DEF Native
<1>10. ASSUME v.p # NullObj
       PROVE  /\ KeptBelow(c, q, v.p)
              /\ IF v.obj = v.p THEN \A k \in 1 .. Len(q) : q[k].obj < v.p
                 ELSE \E k \in 1 .. Len(q) : q[k].obj = v.p
  <2>1. KeptBelow(c, o, v.p) /\ u.obj # u.p
    BY <1>10 DEF Target
  <2>2. PICK k \in 1 .. m + 1 : o[k].obj = v.p
    BY <1>1, <1>10, <2>1 DEF Target
  <2>3. v.p <= v.obj
    <3>1. CASE k = m + 1
      BY <1>6, <1>9, <2>2, <3>1
    <3>2. CASE k # m + 1
      <4>1. k \in 1 .. m
        BY <3>2
      <4>2. q[k].obj < v.obj /\ q[k].obj = v.p
        BY <1>3, <1>7, <2>2, <4>1
      <4>3. QED
        BY <1>9, <4>2
    <3>3. QED
      BY <3>1, <3>2
  <2>4. KeptBelow(c, q, v.p)
    <3>1. ASSUME NEW i \in 2 .. Len(c), NEW s \in c[i].pc.in, c[i].bp + s < v.p
          PROVE  \E l \in 1 .. Len(q) : q[l].obj = c[i].bp + s
      <4>1. PICK l \in 1 .. m + 1 : o[l].obj = c[i].bp + s
        BY <1>1, <2>1, <3>1, Zenon DEF KeptBelow
      <4>2. o[l].obj < v.p
        BY <3>1, <4>1
      <4>3. l # m + 1
        BY <1>6, <1>8, <1>9, <2>3, <4>2, SMTT(40)
      <4>4. l \in 1 .. m
        BY <4>3
      <4>5. q[l].obj = c[i].bp + s
        BY <1>3, <4>1, <4>4
      <4>6. QED
        BY <1>3, <4>4, <4>5
    <3>2. QED
      BY <3>1, Zenon DEF KeptBelow
  <2>5. CASE v.obj = v.p
    BY <1>3, <1>7, <2>4, <2>5
  <2>6. CASE v.obj # v.p
    <3>1. k # m + 1
      BY <1>6, <2>2, <2>6
    <3>2. k \in 1 .. m
      BY <3>1
    <3>3. q[k].obj = v.p
      BY <1>3, <2>2, <3>2
    <3>4. QED
      BY <1>3, <2>4, <2>6, <3>2, <3>3
  <2>7. QED
    BY <2>5, <2>6
<1>11. Target(c, q, v)
  BY <1>10 DEF Target
<1>12. QED
  BY <1>2, <1>5, <1>11

\* Where do_unwind() stops, only what is below its target is left.
LEMMA UnwoundToTarget ==
  ASSUME NEW c \in Seq(Frame), NEW o \in Seq(Entry), NEW u \in Native,
         Target(c, o, u), u.p # NullObj,
         o = <<>> \/ (u.p # NullObj /\ u.obj = u.p)
  PROVE  KeptBelow(c, o, u.p) /\ \A k \in 1 .. Len(o) : o[k].obj < u.p
<1>1. o = <<>> => Len(o) = 0
  BY EmptySeq
<1>2. o = <<>> => 1 .. Len(o) = {}
  BY <1>1
<1>3. u.obj = u.p
  BY <1>2 DEF Target
<1>4. QED
  BY <1>3 DEF Target

-----------------------------------------------------------------------------
(* Which phase enables what                                                *)

\* What a step may rely on.
Stepping(rank) ==
  /\ WellBehaved(rank) /\ IInv /\ IInv' /\ Sound(rank)
  /\ Roomy /\ Roomy' /\ FlagsKept'

\* The types of the variables.
LEMMA Typed ==
  ASSUME IInv
  PROVE  /\ reg \in Reg /\ fs \in Seq(Frame) /\ ods \in Seq(Entry)
         /\ nat \in Seq(Native) /\ acts \in Nat
         /\ mode \in {"run", "raise", "wild"} /\ TypeOK
BY DEF IInv, TypeOK

\* No program is halted.
LEMMA NotPaused ==
  ASSUME NEW rank, Sound(rank), mode # "wild"
  PROVE  ~Paused /\ resume = Resume0
BY DEF Sound, Paused, Resume0

\* The last activation of code on the native stack.
LEMMA LastNative ==
  ASSUME IInv
  PROVE  /\ nat = <<>> <=> Len(nat) = 0
         /\ nat # <<>> => Last(nat) = nat[Len(nat)]
         /\ \A i \in 1 .. Len(nat) : nat[i] \in Native
BY Typed, EmptySeq, LastFacts, ElementOfSeq

\* The console waits at the prompt only.
LEMMA IdlePhase ==
  ASSUME NEW rank, IInv, Sound(rank), Idle
  PROVE  AtPrompt
<1>1. Len(nat) = 0
  BY LastNative DEF Idle
<1>2. QED
  BY <1>1 DEF Idle, Sound, InFunction, InRaise, AtEnd, InUnwind, InDestructor,
     DestructorDone, InExecute

\* The innermost frame, of the function that runs.
LEMMA InnerFrame ==
  ASSUME NEW rank, NEW frames \in Seq(Frame), NEW r \in Reg, NEW n \in Nat,
         Nested(rank, n, Frames(frames, r))
  PROVE  /\ r.fb \in Fun \ {Dtor} /\ r.pc.act \in 1 .. n /\ r.pc.in \in SUBSET Slot
         /\ r.bp - NArgs[r.fb] >= Base /\ r.bp >= Base /\ ScopesNest(r)
         /\ Len(frames) \in Nat \ {0} /\ frames # <<>>
         /\ frames[1].fb = Start /\ frames[1].pc = NullIp
         /\ r.pc # EndIp /\ r.pc # NullIp
<1>1. PICK c \in Seq(Frame), m \in Nat :
        /\ c = Frames(frames, r) /\ m = Len(frames) /\ Len(c) = m + 1
        /\ \A i \in 1 .. m : c[i] = frames[i]
        /\ c[m + 1].fb = r.fb /\ c[m + 1].pc = r.pc /\ c[m + 1].bp = r.bp
  BY FramesShape, LenProperties
<1>2. Nested(rank, n, c)
  BY <1>1
<1>3. m # 0 /\ m + 1 \in 2 .. Len(c) /\ 1 \in 1 .. m
  BY <1>1, <1>2 DEF Nested
<1>4. IsActivation(n, c[m + 1])
  BY <1>2, <1>3, Zenon DEF Nested
<1>5. /\ r.fb \in Fun \ {Dtor} /\ r.pc.act \in 1 .. n
      /\ r.bp - NArgs[r.fb] >= Base /\ ScopesNest(r)
  BY <1>1, <1>4 DEF IsActivation, ScopesNest
<1>6. r.bp >= Base
  <2>1. PICK b \in Int, k \in Nat : b = r.bp /\ k = NArgs[r.fb]
    BY <1>5, Sizes, RegFields
  <2>2. b - k >= Base
    BY <1>5, <2>1
  <2>3. b >= Base
    BY <2>2 DEF Base
  <2>4. QED
    BY <2>1, <2>3
<1>7. frames[1].fb = Start /\ frames[1].pc = NullIp
  BY <1>1, <1>2, <1>3 DEF Nested
<1>8. r.pc # EndIp /\ r.pc # NullIp
  BY <1>5 DEF EndIp, NullIp
<1>9. r.pc \in Ip
  BY RegFields
<1>10. QED
  BY <1>1, <1>3, <1>5, <1>6, <1>7, <1>8, <1>9, EmptySeq DEF Ip

\* Code runs in a function or in a destructor.
LEMMA RunningPhase ==
  ASSUME NEW rank, IInv, Sound(rank), Running
  PROVE  InFunction(rank) \/ InDestructor(rank)
<1>1. mode = "run" /\ nat # <<>> /\ Last(nat).k = "exec" /\ reg.pc # EndIp
  BY DEF Running
<1>2. Last(nat) = nat[Len(nat)]
  BY <1>1, LastNative
<1>3. ~AtPrompt /\ ~InRaise(rank) /\ ~AtEnd /\ ~DestructorDone(rank)
  BY <1>1 DEF AtPrompt, InRaise, AtEnd, DestructorDone
<1>4. ~InUnwind(rank)
  BY <1>1, <1>2 DEF InUnwind, UnwindOf
<1>5. QED
  BY <1>1, <1>3, <1>4 DEF Sound

\* do_unwind() goes on in one phase only.
LEMMA UnwindingPhase ==
  ASSUME NEW rank, IInv, Sound(rank), Unwinding
  PROVE  InUnwind(rank) /\ Last(nat) = nat[2]
<1>1. mode = "run" /\ nat # <<>> /\ Last(nat).k = "unwind"
  BY DEF Unwinding
<1>2. Last(nat) = nat[Len(nat)]
  BY <1>1, LastNative
<1>3. ~AtPrompt /\ ~InRaise(rank)
  BY <1>1 DEF AtPrompt, InRaise
<1>4. ~InFunction(rank) /\ ~AtEnd
  BY <1>1, <1>2 DEF InFunction, AtEnd, Outermost
<1>5. ~InDestructor(rank) /\ ~DestructorDone(rank)
  BY <1>1, <1>2 DEF InDestructor, DestructorDone, InExecute
<1>6. InUnwind(rank)
  BY <1>1, <1>3, <1>4, <1>5 DEF Sound
<1>7. QED
  BY <1>2, <1>6 DEF InUnwind

\* A native Exception is on its way in one phase only.
LEMMA RaisePhase ==
  ASSUME NEW rank, IInv, Sound(rank), mode = "raise"
  PROVE  InRaise(rank)
BY DEF Sound, AtPrompt, InFunction, AtEnd, InUnwind, InDestructor,
       DestructorDone, InExecute

\* Code has ended in a statement or in a destructor.
LEMMA EndPhase ==
  ASSUME NEW rank, IInv, Sound(rank), mode = "run", nat # <<>>,
         Last(nat).k = "exec", reg.pc = EndIp
  PROVE  AtEnd \/ DestructorDone(rank)
<1>1. Last(nat) = nat[Len(nat)]
  BY LastNative
<1>2. ~AtPrompt /\ ~InRaise(rank) /\ ~InDestructor(rank)
  BY DEF AtPrompt, InRaise, InDestructor
<1>3. ~InUnwind(rank)
  BY <1>1 DEF InUnwind, UnwindOf
<1>4. ~InFunction(rank)
  BY Typed, InnerFrame, Zenon DEF InFunction
<1>5. QED
  BY <1>2, <1>3, <1>4 DEF Sound

\* A destructor does nothing but return.
LEMMA DestructorIsPlain ==
  ASSUME NEW rank, WellBehaved(rank), InDestructor(rank)
  PROVE  /\ reg.fb = Dtor /\ reg.pc.in = {}
         /\ Calls[reg.fb] = {} /\ Objects[reg.fb] = {} /\ Handles[reg.fb] = {}
         /\ Throws[reg.fb] = {}
         /\ reg.fb \notin Rethrows \union Checks \union Traps
BY DEF InDestructor, WellBehaved, PlainDestructor, Callees

-----------------------------------------------------------------------------
(* Beginning and ending functions                                          *)

\* start_function() when there is room.
LEMMA FunctionStarts ==
  ASSUME TypeOK, ~Paused, NEW f \in Fun, f \notin Undefined, NEW r \in Reg,
         NEW frames \in Seq(Frame), Len(frames) < MaxFrames,
         StartFunction(f, r, frames), reg'.sp <= MaxStack
  PROVE  /\ fs' = Append(frames, Triple(r)) /\ acts' = acts + 1
         /\ resume' = resume /\ mode' = "run"
         /\ reg'.fb = f /\ reg'.bp = r.sp /\ reg'.sp = r.sp + NLocal[f]
         /\ reg'.pc = [act |-> acts + 1, in |-> {}]
<1>1. ~(Len(frames) >= MaxFrames)
  BY LenProperties, BoundAssumption
<1>2. NLocal[f] \in Nat /\ r.sp \in Int
  BY Sizes, RegFields
<1> DEFINE sp == r.sp + NLocal[f]
           pc == [act |-> acts + 1, in |-> {}]
<1>3. /\ fs' = Append(frames, Triple(r)) /\ acts' = acts + 1 /\ resume' = resume
      /\ reg' = [r EXCEPT !.fb = f, !.bp = r.sp, !.sp = sp, !.pc = pc]
      /\ mode' = IF sp > MaxStack THEN "raise" ELSE "run"
  BY <1>1 DEF StartFunction
<1> HIDE DEF sp, pc
<1>4. reg'.fb = f /\ reg'.bp = r.sp /\ reg'.sp = sp /\ reg'.pc = pc
  BY <1>3 DEF Reg
<1>5. sp \in Int
  BY <1>2 DEF sp
<1>6. mode' = "run"
  BY <1>3, <1>4, <1>5, BoundAssumption
<1>7. QED
  BY <1>3, <1>4, <1>6 DEF sp, pc

\* A statement begins.
LEMMA ConsoleSound ==
  ASSUME NEW rank, Stepping(rank), NEW flags \in {{}, {"args"}}, Console(flags)
  PROVE  Sound(rank)'
<1>1. /\ AtPrompt /\ mode = "run" /\ ~Paused /\ resume = Resume0
      /\ "outside" \notin xargs
  BY IdlePhase, NotPaused DEF Stepping, Console, Idle, Sound
<1>2. /\ TypeOK /\ reg \in Reg /\ fs \in Seq(Frame) /\ acts \in Nat
      /\ reg' \in Reg /\ fs' \in Seq(Frame) /\ acts' \in Nat
  BY Typed, SMTT(40) DEF Stepping, IInv, TypeOK
<1>3. PICK r \in Reg : r = Restart(reg)
  BY <1>2, Constants, RegUpdate, Zenon DEF Restart
<1>4. r.fb = Start /\ r.pc = NullIp /\ r.bp = reg.bp /\ r.sp = reg.sp
  BY <1>2, <1>3 DEF Restart, Reg
<1>5. /\ nat' = <<Exec(reg, flags)>> /\ StartFunction(Temp, r, fs)
      /\ xargs' = (IF flags = {} THEN xargs ELSE flags) /\ ods' = ods
  BY <1>3 DEF Console, Enter, dataVars
<1>6. Temp \in Fun /\ Temp # Dtor /\ Temp \notin Undefined /\ NArgs[Temp] = 0
  BY FunAssumption DEF Stepping, WellBehaved
<1>7. fs = <<>> /\ ods = <<>> /\ reg.sp >= Base
  BY <1>1 DEF AtPrompt
<1>8. Len(fs) < MaxFrames /\ reg'.sp <= MaxStack
  BY DEF Stepping, Roomy
<1>9. /\ fs' = Append(fs, Triple(r)) /\ acts' = acts + 1
      /\ resume' = resume /\ mode' = "run"
      /\ reg'.fb = Temp /\ reg'.bp = r.sp /\ reg'.sp = r.sp + NLocal[Temp]
      /\ reg'.pc = [act |-> acts + 1, in |-> {}]
  BY <1>1, <1>2, <1>5, <1>6, <1>8, FunctionStarts, Zenon
<1>10. Triple(r) \in Frame /\ Triple(r).fb = Start /\ Triple(r).pc = NullIp
  BY <1>4, RegFields DEF Triple
<1>11. Len(fs') = 1 /\ fs'[1].fb = Start /\ fs'[1].pc = NullIp
  BY <1>7, <1>9, <1>10
<1>12. PICK d \in Seq(Frame) : d = Frames(fs', reg') /\ Len(d) = 2 /\ d[1] = fs'[1]
           /\ d[2].fb = reg'.fb /\ d[2].pc = reg'.pc /\ d[2].bp = reg'.bp
  <2>1. PICK d \in Seq(Frame), m \in Nat : FramesOf(d, m, fs', reg')
    BY <1>2, FramesAre
  <2>2. m = 1 /\ 1 \in 1 .. m
    BY <1>11, <2>1 DEF FramesOf
  <2>3. d = Frames(fs', reg') /\ Len(d) = 2 /\ d[1] = fs'[1]
    BY <2>1, <2>2 DEF FramesOf
  <2>4. d[2].fb = reg'.fb /\ d[2].pc = reg'.pc /\ d[2].bp = reg'.bp
    BY <2>1, <2>2 DEF FramesOf
  <2>5. QED
    BY <2>3, <2>4
<1>13. d[2].bp - NArgs[Temp] >= Base
  BY <1>2, <1>4, <1>6, <1>7, <1>9, <1>12, RegFields
<1>14. /\ d[1].fb = Start /\ d[1].pc = NullIp /\ d[2].fb = Temp
       /\ d[2].pc.act = acts + 1 /\ d[2].pc.in = {}
  BY <1>9, <1>11, <1>12
<1>15. Nested(rank, acts', d) /\ Owned(d, <<>>) /\ Kept(d, <<>>)
  BY <1>2, <1>6, <1>9, <1>12, <1>13, <1>14, FirstNested, Zenon
<1>16. Outermost(nat'[1]) /\ Len(nat') = 1
  BY <1>5, <1>7 DEF Outermost, Exec
<1>17. reg'.bp + NLocal[reg'.fb] <= reg'.sp
  BY <1>2, <1>6, <1>9, Sizes, RegFields
<1>18. InFunction(rank)'
  BY <1>5, <1>7, <1>9, <1>12, <1>15, <1>16, <1>17 DEF InFunction
<1>19. resume' = Resume0 /\ "outside" \notin xargs'
  BY <1>1, <1>5, <1>9
<1>20. QED
  BY <1>18, <1>19 DEF Sound

\* A function calls another.
LEMMA CallSound ==
  ASSUME NEW rank, Stepping(rank), NEW f \in Fun, Call(f)
  PROVE  Sound(rank)'
<1>1. Running /\ mode = "run" /\ IInv /\ Sound(rank) /\ WellBehaved(rank)
  BY DEF Call, Running, Stepping
<1>2. f \in Callees(reg.fb)
  BY DEF Call, Callees
<1>3. InFunction(rank)
  <2>1. ASSUME InDestructor(rank) PROVE FALSE
    BY <1>1, <1>2, <2>1 DEF InDestructor, WellBehaved, PlainDestructor
  <2>2. QED
    BY <1>1, <2>1, RunningPhase
<1>4. ~Paused /\ resume = Resume0 /\ "outside" \notin xargs
  BY <1>1, NotPaused DEF Sound
<1>5. /\ TypeOK /\ reg \in Reg /\ fs \in Seq(Frame) /\ acts \in Nat
      /\ ods \in Seq(Entry)
      /\ reg' \in Reg /\ fs' \in Seq(Frame) /\ acts' \in Nat
  BY Typed DEF Stepping, IInv, TypeOK
<1>6. /\ reg.fb \in Fun /\ reg.bp + NLocal[reg.fb] <= reg.sp
      /\ Nested(rank, acts, Frames(fs, reg))
      /\ Owned(Frames(fs, reg), ods) /\ Kept(Frames(fs, reg), ods)
  BY <1>1, <1>3 DEF InFunction, Running
<1>7. f # Dtor /\ f \notin Undefined
  BY <1>1, <1>2, <1>6, ProgramAssumption DEF Callees, WellBehaved
<1> DEFINE sp == reg.sp + NArgs[f]
           op == IF f \in Methods THEN reg.bp + Outer ELSE reg.op
           r  == [reg EXCEPT !.sp = sp, !.op = op]
<1>8. sp \in Int /\ op \in Int
  BY <1>5, RegFields, Sizes DEF Outer
<1>9. /\ StartFunction(f, r, fs) /\ nat' = nat /\ ods' = ods /\ xargs' = xargs
  BY DEF Call
<1> HIDE DEF sp, op
<1>10. /\ r \in Reg /\ r.fb = reg.fb /\ r.pc = reg.pc /\ r.bp = reg.bp
       /\ r.sp = sp
  BY <1>5, <1>8, RegUpdate, ZenonT(60) DEF Reg
<1> HIDE DEF r
<1>11. Len(fs) < MaxFrames /\ reg'.sp <= MaxStack
  BY DEF Stepping, Roomy
<1>12. /\ fs' = Append(fs, Triple(r)) /\ acts' = acts + 1
       /\ resume' = resume /\ mode' = "run"
       /\ reg'.fb = f /\ reg'.bp = r.sp /\ reg'.sp = r.sp + NLocal[f]
       /\ reg'.pc = [act |-> acts + 1, in |-> {}]
  BY <1>4, <1>5, <1>7, <1>9, <1>10, <1>11, FunctionStarts, Zenon
<1>13. fs' = Frames(fs, reg)
  BY <1>10, <1>12 DEF Frames, Triple
<1>14. PICK c \in Seq(Frame), m \in Nat :
         /\ c = Frames(fs, reg) /\ m = Len(c) /\ m \in 1 .. Len(c)
         /\ c[m].fb = reg.fb /\ c[m].bp = reg.bp
  BY <1>5, FramesShape
<1>15. PICK d \in Seq(Frame) :
         /\ d = Frames(fs', reg') /\ Len(d) = m + 1
         /\ \A i \in 1 .. m : d[i] = c[i]
         /\ d[m + 1].fb = reg'.fb /\ d[m + 1].pc = reg'.pc
         /\ d[m + 1].bp = reg'.bp
  BY <1>5, <1>13, <1>14, FramesShape, ZenonT(60)
<1>16. c[m].bp + NLocal[c[m].fb] <= d[m + 1].bp - NArgs[f]
  <2>1. PICK b \in Int, h \in Int, l \in Nat, k \in Nat :
          b = reg.bp /\ h = reg.sp /\ l = NLocal[reg.fb] /\ k = NArgs[f]
    BY <1>5, <1>6, RegFields, Sizes, Zenon
  <2>2. d[m + 1].bp = h + k
    BY <1>10, <1>12, <1>15, <2>1 DEF sp
  <2>3. b + l <= h
    BY <1>6, <2>1
  <2>4. b + l <= h + k - k
    BY <2>3
  <2>5. QED
    BY <1>14, <2>1, <2>2, <2>4
<1>17. d[m + 1].fb = f /\ d[m + 1].pc.act = acts + 1 /\ d[m + 1].pc.in = {}
  BY <1>12, <1>15
<1>18. Nested(rank, acts, c) /\ Owned(c, ods) /\ Kept(c, ods)
       /\ f \in Callees(c[m].fb) /\ f \in Fun \ {Dtor}
  BY <1>2, <1>6, <1>7, <1>14
<1>19. Nested(rank, acts + 1, d)
  BY <1>1, <1>5, <1>14, <1>15, <1>16, <1>17, <1>18, CallNested, ZenonT(60)
<1>20. Owned(d, ods) /\ Kept(d, ods)
  <2>1. m = Len(c) /\ Len(d) = m + 1 /\ \A i \in 1 .. m : d[i] = c[i]
    BY <1>14, <1>15
  <2>2. QED
    BY <1>5, <1>17, <1>18, <2>1, CallScopes, Zenon
<1>21. reg'.bp + NLocal[reg'.fb] <= reg'.sp
  BY <1>5, <1>8, <1>10, <1>12, Sizes
<1>22. InFunction(rank)'
  BY <1>3, <1>9, <1>12, <1>15, <1>19, <1>20, <1>21 DEF InFunction
<1>23. QED
  BY <1>4, <1>9, <1>12, <1>22 DEF Sound

\* A native function that does not call back changes nothing.
LEMMA CallLeafSound ==
  ASSUME NEW rank, Stepping(rank), CallLeaf
  PROVE  Sound(rank)'
BY DEF Stepping, CallLeaf, dataVars, Sound, AtPrompt, InFunction, InRaise, AtEnd,
   InUnwind, InDestructor, DestructorDone, InExecute

-----------------------------------------------------------------------------
(* Scopes                                                                  *)

\* The registers after the open scopes have changed.
LEMMA ScopesChanged ==
  ASSUME NEW r \in Reg, NEW in \in SUBSET Slot
  PROVE  LET q == [r EXCEPT !.pc.in = in] IN
         /\ q.fb = r.fb /\ q.bp = r.bp /\ q.sp = r.sp
         /\ q.pc.act = r.pc.act /\ q.pc.in = in
BY DEF Reg, Ip

\* The registers q are those of r in other scopes of the same function.
Rescoped(q, r) == q.fb = r.fb /\ q.bp = r.bp /\ q.pc.act = r.pc.act
\* c and d are the frames of what runs with the registers r and q.
TwoFrames(c, d, m, frames, r, q) ==
  /\ c = Frames(frames, r) /\ d = Frames(frames, q) /\ m = Len(c)
  /\ m = Len(frames) + 1 /\ CutAt(d, c, m)
  /\ c[m].fb = r.fb /\ c[m].bp = r.bp /\ c[m].pc = r.pc
  /\ d[m].pc = q.pc /\ d[m].fb = q.fb
\* The frames of what runs when only the scopes of its function change.
LEMMA SameFrames ==
  ASSUME NEW frames \in Seq(Frame), NEW r \in Reg, NEW q \in Reg, Rescoped(q, r)
  PROVE  \E c, d \in Seq(Frame) : \E m \in Nat :
           TwoFrames(c, d, m, frames, r, q)
<1> USE DEF Rescoped, TwoFrames
<1>1. PICK c \in Seq(Frame), m \in Nat :
        /\ c = Frames(frames, r) /\ m = Len(frames) + 1 /\ Len(c) = m
        /\ \A i \in 1 .. Len(frames) : c[i] = frames[i]
        /\ c[m].fb = r.fb /\ c[m].pc = r.pc /\ c[m].bp = r.bp
  BY FramesShape, ZenonT(60)
<1>2. PICK d \in Seq(Frame) :
        /\ d = Frames(frames, q) /\ Len(d) = m
        /\ \A i \in 1 .. Len(frames) : d[i] = frames[i]
        /\ d[m].fb = q.fb /\ d[m].pc = q.pc /\ d[m].bp = q.bp
  <2>1. PICK d \in Seq(Frame), l \in Nat :
          /\ d = Frames(frames, q) /\ l = Len(frames) + 1 /\ Len(d) = l
          /\ \A i \in 1 .. Len(frames) : d[i] = frames[i]
          /\ d[l].fb = q.fb /\ d[l].pc = q.pc /\ d[l].bp = q.bp
    BY FramesShape
  <2>2. l = m
    BY <1>1, <2>1
  <2>3. QED
    BY <2>1, <2>2
<1>3. \A i \in 1 .. m - 1 : d[i] = c[i]
  BY <1>1, <1>2, LenProperties
<1>4. CutAt(d, c, m)
  BY <1>1, <1>2, <1>3 DEF CutAt
<1>5. m = Len(c)
  BY <1>1
<1>6. QED
  BY <1>1, <1>2, <1>4, <1>5

\* TOSD opens a scope and notes it.
LEMMA PushSound ==
  ASSUME NEW rank, Stepping(rank), InFunction(rank), NEW slot \in Slot,
         NEW h \in Fun \union {NoFun}, h = IF slot = Marker THEN reg.fb ELSE NoFun,
         reg' = [reg EXCEPT !.pc.in = @ \union {slot}],
         ods' = Append(ods, [obj |-> reg.bp + slot, try |-> h,
                             act |-> reg.pc.act, slot |-> slot]),
         ScopesNest(reg'), \A t \in reg.pc.in : t < slot,
         UNCHANGED <<os, fs, nat, resume, xargs, nargs, cur, thrown, jmp,
                     blocked, mode, acts, halt>>
  PROVE  Sound(rank)'
<1>1. /\ reg \in Reg /\ fs \in Seq(Frame) /\ acts \in Nat
      /\ ods \in Seq(Entry) /\ reg' \in Reg /\ ods' \in Seq(Entry)
      /\ WellBehaved(rank)
  BY Typed DEF Stepping, IInv, TypeOK
<1>2. reg.pc.in \union {slot} \in SUBSET Slot
  BY <1>1, RegFields DEF Ip
<1>3. /\ reg'.fb = reg.fb /\ reg'.bp = reg.bp /\ reg'.sp = reg.sp
      /\ reg'.pc.act = reg.pc.act /\ reg'.pc.in = reg.pc.in \union {slot}
  BY <1>1, <1>2, ScopesChanged, ZenonT(60)
<1>4. PICK c \in Seq(Frame), d \in Seq(Frame), m \in Nat :
        /\ c = Frames(fs, reg) /\ d = Frames(fs', reg') /\ m = Len(c)
        /\ CutAt(d, c, m)
        /\ c[m].fb = reg.fb /\ c[m].bp = reg.bp /\ c[m].pc = reg.pc
        /\ d[m].pc = reg'.pc /\ d[m].fb = reg'.fb
  <2>1. PICK c \in Seq(Frame), d \in Seq(Frame), m \in Nat :
          /\ c = Frames(fs, reg) /\ d = Frames(fs, reg') /\ m = Len(c)
          /\ CutAt(d, c, m)
          /\ c[m].fb = reg.fb /\ c[m].bp = reg.bp /\ c[m].pc = reg.pc
          /\ d[m].pc = reg'.pc /\ d[m].fb = reg'.fb
    <3>1. PICK q \in Reg : q = reg'
      BY <1>1
    <3>2. Rescoped(q, reg)
      BY <1>3, <3>1 DEF Rescoped
    <3>3. fs \in Seq(Frame) /\ reg \in Reg
      BY <1>1
    <3>4. \E c, d \in Seq(Frame) : \E m \in Nat : TwoFrames(c, d, m, fs, reg, q)
      BY <3>2, <3>3, SameFrames
    <3>5. QED
      BY <3>1, <3>4, Zenon DEF TwoFrames
  <2>2. d = Frames(fs', reg')
    BY <2>1
  <2>3. QED
    BY <2>1, <2>2, Zenon
<1>5. Nested(rank, acts, c) /\ Owned(c, ods) /\ Kept(c, ods)
  BY <1>4, SMTT(40) DEF InFunction
<1>6. ScopesNest(d[m])
  BY <1>4, Zenon DEF ScopesNest
<1>7. slot \in 0 .. 2
  BY DEF Slot, Outer, Marker, Inner
<1>8. PICK e \in Entry :
        e = [obj |-> reg.bp + slot, try |-> h, act |-> reg.pc.act, slot |-> slot]
  BY <1>1, <1>7, RegFields, SMTT(40) DEF Entry, Ip
<1>9. /\ e.act = c[m].pc.act /\ e.slot = slot /\ e.obj = c[m].bp + slot
      /\ e.try = IF slot = Marker THEN c[m].fb ELSE NoFun
  BY <1>4, <1>8
<1>10. d[m].pc.in = c[m].pc.in \union {slot} /\ \A t \in c[m].pc.in : t < slot
  BY <1>3, <1>4
<1>11. ods' = Append(ods, e)
  BY <1>8
<1>12. Nested(rank, acts, d) /\ Owned(d, Append(ods, e)) /\ Kept(d, Append(ods, e))
  <2>1. CutAt(d, c, m) /\ m = Len(c)
    BY <1>4
  <2>2. QED
    <3>1. Opens(d, c, m, slot)
      BY <1>6, <1>10, <2>1 DEF Opens
    <3>2. Notes(e, c[m], slot)
      BY <1>9 DEF Notes
    <3>3. QED
      BY <1>1, <1>5, <1>7, <3>1, <3>2, OpenScope
<1>13. InFunction(rank)'
  BY <1>3, <1>4, <1>11, <1>12 DEF InFunction
<1>14. QED
  BY <1>13 DEF Sound, InFunction, Stepping

\* The scopes that are open while a function runs.
LEMMA OpenScopes ==
  ASSUME NEW rank, Stepping(rank), InFunction(rank)
  PROVE  /\ ScopesNest(reg) /\ reg.fb \in Fun /\ reg.pc.in \subseteq Slot
         /\ Objects[reg.fb] \subseteq {Outer, Inner}
         /\ reg \in Reg
<1>1. reg \in Reg /\ fs \in Seq(Frame) /\ acts \in Nat
  BY Typed DEF Stepping
<1>2. ScopesNest(reg) /\ reg.fb \in Fun /\ reg.pc.in \in SUBSET Slot
  BY <1>1, InnerFrame, Zenon DEF InFunction
<1>3. QED
  BY <1>1, <1>2, ProgramAssumption

\* A local object is constructed, and goes on the ODS.
LEMMA ConstructSound ==
  ASSUME NEW rank, Stepping(rank), NEW slot \in {Outer, Inner}, Construct(slot)
  PROVE  Sound(rank)'
<1>1. InFunction(rank)
  <2>1. Objects[reg.fb] # {} /\ Running
    BY DEF Construct
  <2>2. QED
    BY <2>1, RunningPhase, DestructorIsPlain DEF Stepping
<1>2. /\ ScopesNest(reg) /\ reg.fb \in Fun /\ reg.pc.in \subseteq Slot
      /\ Objects[reg.fb] \subseteq {Outer, Inner} /\ reg \in Reg
  BY <1>1, OpenScopes
<1>3. /\ slot \in Objects[reg.fb] /\ slot \notin reg.pc.in
      /\ (Marker \in reg.pc.in) = (slot = Inner)
  BY DEF Construct
<1>4. slot \in Slot /\ slot # Marker /\ Outer # Inner /\ Outer # Marker
      /\ Marker # Inner
  BY DEF Slot, Outer, Marker, Inner
<1>5. reg' = [reg EXCEPT !.pc.in = @ \union {slot}]
  BY DEF Construct
<1>6. /\ reg'.fb = reg.fb /\ reg'.pc.in = reg.pc.in \union {slot}
  BY <1>2, <1>4, <1>5, ScopesChanged
<1>7. \A t \in reg.pc.in : t < slot
  <2>1. CASE slot = Outer
    <3>1. Marker \notin reg.pc.in /\ Inner \notin reg.pc.in
      BY <1>2, <1>3, <1>4, <2>1 DEF ScopesNest
    <3>2. QED
      BY <1>2, <1>3, <2>1, <3>1 DEF Slot
  <2>2. CASE slot = Inner
    BY <1>2, <1>3, <2>2 DEF Slot, Outer, Marker, Inner
  <2>3. QED
    BY <2>1, <2>2
<1>8. ScopesNest(reg')
  BY <1>2, <1>3, <1>4, <1>6 DEF ScopesNest
<1>9. QED
  BY <1>1, <1>4, <1>5, <1>7, <1>8, PushSound, Zenon DEF Construct, throwVars, signalVars

\* A try block starts, and its marker goes on the ODS.
LEMMA EnterTrySound ==
  ASSUME NEW rank, Stepping(rank), EnterTry
  PROVE  Sound(rank)'
<1>1. InFunction(rank)
  <2>1. Handles[reg.fb] # {} /\ Running
    BY DEF EnterTry
  <2>2. QED
    BY <2>1, RunningPhase, DestructorIsPlain DEF Stepping
<1>2. /\ ScopesNest(reg) /\ reg.fb \in Fun /\ reg.pc.in \subseteq Slot
      /\ Objects[reg.fb] \subseteq {Outer, Inner} /\ reg \in Reg
  BY <1>1, OpenScopes
<1>3. /\ Handles[reg.fb] # {} /\ Marker \notin reg.pc.in
      /\ Objects[reg.fb] \intersect {Outer} \subseteq reg.pc.in
  BY DEF EnterTry
<1>4. Marker \in Slot /\ Outer # Marker /\ Marker # Inner
  BY DEF Slot, Outer, Marker, Inner
<1>5. reg' = [reg EXCEPT !.pc.in = @ \union {Marker}]
  BY DEF EnterTry
<1>6. /\ reg'.fb = reg.fb /\ reg'.pc.in = reg.pc.in \union {Marker}
  BY <1>2, <1>4, <1>5, ScopesChanged
<1>7. \A t \in reg.pc.in : t < Marker
  <2>1. Inner \notin reg.pc.in
    BY <1>2, <1>3 DEF ScopesNest
  <2>2. QED
    BY <1>2, <1>3, <2>1 DEF Slot, Outer, Marker
<1>8. ScopesNest(reg')
  BY <1>2, <1>3, <1>4, <1>6 DEF ScopesNest
<1>9. QED
  BY <1>1, <1>2, <1>4, <1>5, <1>7, <1>8, PushSound, Zenon
     DEF EnterTry, throwVars, signalVars

-----------------------------------------------------------------------------
(* do_unwind() starts                                                      *)

\* What has everything has all that lies below a height.
LEMMA KeptIsKeptBelow ==
  ASSUME NEW c, NEW o, NEW p, Kept(c, o)
  PROVE  KeptBelow(c, o, p)
BY DEF Kept, KeptBelow

\* A step that calls do_unwind() in a function.
LEMMA UnwindStarts ==
  ASSUME NEW rank, Stepping(rank), InFunction(rank) \/ InRaise(rank),
         NEW u \in Native, u.k = "unwind", u.saved = reg, u.depth = Len(fs),
         Target(Frames(fs, reg), ods, u), nat' = Append(nat, u), mode' = "run",
         UNCHANGED <<reg, fs, ods, resume, xargs, acts>>
  PROVE  Sound(rank)'
<1>1. /\ nat \in Seq(Native) /\ Len(nat) = 1 /\ Outermost(nat[1])
      /\ Nested(rank, acts, Frames(fs, reg)) /\ reg.bp + NLocal[reg.fb] <= reg.sp
      /\ Owned(Frames(fs, reg), ods) /\ mode # "wild"
  BY Typed DEF Stepping, InFunction, InRaise
<1>2. Len(nat') = 2 /\ nat'[1] = nat[1] /\ nat'[2] = u
  <2>1. PICK n \in Seq(Native) : n = nat /\ Len(n) = 1
    BY <1>1
  <2>2. /\ Len(Append(n, u)) = Len(n) + 1
        /\ \A i \in 1 .. Len(n) : Append(n, u)[i] = n[i]
        /\ Append(n, u)[Len(n) + 1] = u
    BY AppendProperties
  <2>3. QED
    BY <2>1, <2>2
<1>3. UnwindOf(rank, acts, u, fs, ods)
  BY <1>1 DEF UnwindOf
<1>4. SameBut(reg, u.saved)
  BY DEF SameBut
<1>5. InUnwind(rank)'
  BY <1>1, <1>2, <1>3, <1>4 DEF InUnwind
<1>6. resume' = Resume0 /\ "outside" \notin xargs'
  BY <1>1 DEF Stepping, Sound
<1>7. QED
  BY <1>5, <1>6 DEF Sound

\* The marker of an open try block is what throw_exception() unwinds to.
LEMMA MarkerTarget ==
  ASSUME NEW rank, WellBehaved(rank), NEW n \in Nat, NEW c \in Seq(Frame),
         Nested(rank, n, c), NEW o \in Seq(Entry), Owned(c, o), Kept(c, o),
         NEW k \in 1 .. Len(o), o[k].try # NoFun, NEW u \in Native,
         u.p = o[k].obj, u.h = o[k].try, u.act = o[k].act, u.obj = NullObj,
         u.after \in {"catch", "resume"},
         u.after = "resume" => Checks \union Traps # {}
  PROVE  Target(c, o, u)
<1>1. PICK i \in 2 .. Len(c) : BelongsTo(o[k], c[i])
  BY DEF Owned
<1>2. /\ Marker \in c[i].pc.in /\ u.p = c[i].bp + Marker
      /\ u.h = c[i].fb /\ u.act = c[i].pc.act
  BY <1>1 DEF BelongsTo
<1>3. IsActivation(n, c[i]) /\ i \in 1 .. Len(c)
  BY LenProperties DEF Nested
<1>4. c[i].bp + Marker >= Base
  BY <1>2, <1>3, ScopeInFrame, Zenon
<1>5. u.p >= Base /\ u.p # NullObj /\ u.obj # u.p
  BY <1>2, <1>4 DEF Base, NullObj
<1>6. KeptBelow(c, o, u.p)
  BY KeptIsKeptBelow
<1>7. QED
  BY <1>2, <1>5, <1>6, Zenon DEF Target

\* throw_exception() in a function.
LEMMA ThrowExceptionSound ==
  ASSUME NEW rank, Stepping(rank), InFunction(rank) \/ InRaise(rank),
         ods = <<>> \/ Kept(Frames(fs, reg), ods),
         NEW type \in Type \union {NoType}, NEW again \in BOOLEAN,
         NEW caught \in {"catch", "resume"}, NEW lost \in {"uncaught", "crash"},
         caught = "resume" => ods = <<>> \/ Checks \union Traps # {},
         ThrowException(type, again, caught, lost), mode' = "run",
         UNCHANGED <<reg, fs, ods, resume, xargs, acts>>
  PROVE  Sound(rank)'
<1>1. /\ reg \in Reg /\ fs \in Seq(Frame) /\ ods \in Seq(Entry) /\ acts \in Nat
      /\ TypeOK /\ WellBehaved(rank) /\ Len(fs) \in Nat
  BY Typed, LenProperties DEF Stepping
<1>2. PICK c \in Seq(Frame) : c = Frames(fs, reg)
  BY <1>1, FramesShape
<1>3. Nested(rank, acts, c) /\ Owned(c, ods)
  BY <1>2 DEF InFunction, InRaise
<1> DEFINE try  == {i \in DOMAIN ods : ods[i].try # NoFun}
           t    == IF again THEN thrown[cur] ELSE type
           hits == {i \in try : t \in Handles[ods[i].try]}
<1>4. /\ hits \in SUBSET (0 .. Len(ods)) /\ Len(ods) \in Nat
      /\ \A i \in hits : i \in 1 .. Len(ods) /\ ods[i].try # NoFun
  BY <1>1, LenProperties
<1>5. CASE hits # {}
  <2>1. nat' = Append(nat, Unwind(ods[Max(hits)].obj, caught, ods[Max(hits)].try,
                                  ods[Max(hits)].act))
    BY <1>5, Zenon DEF ThrowException
  <2> HIDE DEF hits, try, t
  <2>2. Max(hits) \in hits
    BY <1>4, <1>5, MaxElement, Zenon
  <2>3. PICK k \in 1 .. Len(ods) : k = Max(hits) /\ ods[k].try # NoFun
    BY <1>4, <2>2, Zenon
  <2>4. /\ ods[k].obj \in Int /\ ods[k].try \in Fun \union {NoFun}
        /\ ods[k].act \in Int
    BY <1>1, EntryFields
  <2>5. caught \in After
    BY DEF After
  <2>6. PICK u \in Native : u = Unwind(ods[k].obj, caught, ods[k].try, ods[k].act)
    BY <1>1, <2>4, <2>5, UnwindType
  <2>7. /\ u.p = ods[k].obj /\ u.h = ods[k].try /\ u.act = ods[k].act
        /\ u.obj = NullObj /\ u.after = caught
        /\ u.k = "unwind" /\ u.saved = reg /\ u.depth = Len(fs)
    BY <2>6 DEF Unwind
  <2>8. ods # <<>>
    BY <1>1, <2>3, EmptySeq
  <2>9. Kept(c, ods)
    BY <1>2, <2>8
  <2>10. u.after \in {"catch", "resume"}
         /\ (u.after = "resume" => Checks \union Traps # {})
    BY <2>7, <2>8
  <2>11. Target(c, ods, u)
    BY <1>1, <1>3, <2>3, <2>7, <2>9, <2>10, MarkerTarget, Zenon
  <2>12. nat' = Append(nat, u)
    BY <2>1, <2>3, <2>6
  <2>13. QED
    BY <1>2, <2>7, <2>11, <2>12, UnwindStarts
<1>6. CASE hits = {}
  <2>1. nat' = Append(nat, Unwind(NullObj, lost, NoFun, 0))
    BY <1>6, Zenon DEF ThrowException, throwVars
  <2>2. lost \in After
    BY DEF After
  <2>3. PICK u \in Native : u = Unwind(NullObj, lost, NoFun, 0)
    <3>1. NullObj \in Int /\ NoFun \in Fun \union {NoFun} /\ 0 \in Int
      BY Constants
    <3>2. QED
      BY <1>1, <2>2, <3>1, UnwindType, Zenon
  <2>4. /\ u.p = NullObj /\ u.after = lost
        /\ u.k = "unwind" /\ u.saved = reg /\ u.depth = Len(fs)
    BY <2>3 DEF Unwind
  <2>5. Target(Frames(fs, reg), ods, u)
    BY <2>4 DEF Target
  <2>6. QED
    BY <2>1, <2>3, <2>4, <2>5, UnwindStarts
<1>7. QED
  BY <1>5, <1>6

\* A function throws.
LEMMA ThrowSound ==
  ASSUME NEW rank, Stepping(rank), NEW t \in Type, Throw(t)
  PROVE  Sound(rank)'
<1>1. Running /\ t \in Throws[reg.fb]
  BY DEF Throw
<1>2. InFunction(rank)
  BY <1>1, RunningPhase, DestructorIsPlain DEF Stepping
<1>3. Kept(Frames(fs, reg), ods)
  BY <1>2 DEF InFunction
<1>4. ThrowException(t, FALSE, "catch", "uncaught") /\ mode' = mode
      /\ UNCHANGED <<reg, fs, ods, resume, xargs, acts>>
  BY Zenon DEF Throw, dataVars
<1>5. mode' = "run"
  BY <1>2, <1>4 DEF InFunction
<1>6. QED
  BY <1>2, <1>3, <1>4, <1>5, ThrowExceptionSound, Zenon

\* A catch block throws on.
LEMMA RethrowSound ==
  ASSUME NEW rank, Stepping(rank), Rethrow
  PROVE  Sound(rank)'
<1>1. Running /\ reg.fb \in Rethrows
  BY DEF Rethrow
<1>2. InFunction(rank)
  BY <1>1, RunningPhase, DestructorIsPlain DEF Stepping
<1>3. Kept(Frames(fs, reg), ods)
  BY <1>2 DEF InFunction
<1>4. CASE cur = NoFun
  BY <1>4 DEF Rethrow, GoWild, Sound
<1>5. CASE cur # NoFun
  <2>1. ThrowException(NoType, TRUE, "catch", "uncaught") /\ mode' = mode
        /\ UNCHANGED <<reg, fs, ods, resume, xargs, acts>>
    BY <1>5, Zenon DEF Rethrow, dataVars
  <2>2. mode' = "run"
    BY <1>2, <2>1 DEF InFunction
  <2>3. QED
    BY <1>2, <1>3, <2>1, <2>2, ThrowExceptionSound, Zenon
<1>6. QED
  BY <1>4, <1>5

\* execute() catches a native Exception.
LEMMA HandleRaiseSound ==
  ASSUME NEW rank, Stepping(rank), HandleRaise
  PROVE  Sound(rank)'
<1>1. mode = "raise" /\ InRaise(rank) /\ ~Paused
  BY RaisePhase, NotPaused DEF HandleRaise, Stepping
<1>2. ThrowException(FaultType, FALSE, "resume", "crash") /\ mode' = "run"
      /\ UNCHANGED <<reg, fs, ods, resume, xargs, acts>>
  BY <1>1, Zenon DEF HandleRaise
<1>3. ods = <<>> \/ (Kept(Frames(fs, reg), ods) /\ Checks \union Traps # {})
  BY <1>1 DEF InRaise
<1>4. FaultType \in Type \union {NoType}
  BY FunAssumption
<1>5. QED
  BY <1>1, <1>2, <1>3, <1>4, ThrowExceptionSound, Zenon

\* A scope is left, or all of them at a return.
LEMMA LeaveScopeSound ==
  ASSUME NEW rank, Stepping(rank), NEW slot \in Slot, LeaveScope(slot)
  PROVE  Sound(rank)'
<1>1. Running /\ slot \in reg.pc.in
  BY DEF LeaveScope
<1>2. InFunction(rank)
  BY <1>1, RunningPhase, DestructorIsPlain DEF Stepping
<1>3. /\ reg \in Reg /\ fs \in Seq(Frame) /\ ods \in Seq(Entry) /\ acts \in Nat
      /\ TypeOK /\ WellBehaved(rank) /\ Len(fs) \in Nat
  BY Typed, LenProperties DEF Stepping
<1>4. PICK c \in Seq(Frame), m \in Nat :
        /\ c = Frames(fs, reg) /\ m = Len(c) /\ m \in 1 .. Len(c)
        /\ c[m].fb = reg.fb /\ c[m].bp = reg.bp /\ c[m].pc = reg.pc
  <2>1. fs \in Seq(Frame) /\ reg \in Reg
    BY <1>3
  <2>2. QED
    BY <2>1, FramesShape
<1>5. Nested(rank, acts, c) /\ Owned(c, ods) /\ Kept(c, ods)
  BY <1>2, <1>4 DEF InFunction
<1>6. m \in 2 .. Len(c)
  BY <1>4, <1>5 DEF Nested
<1>7. IsActivation(acts, c[m]) /\ slot \in c[m].pc.in
  BY <1>1, <1>4, <1>5, <1>6 DEF Nested
<1>8. c[m].bp + slot >= Base
  BY <1>3, <1>4, <1>7, ScopeInFrame
<1>9. PICK p \in Int : p = reg.bp + slot
  BY <1>3, RegFields DEF Slot, Outer, Marker, Inner
<1>10. p >= Base /\ p # NullObj
  BY <1>4, <1>8, <1>9 DEF Base, NullObj
<1>11. PICK k \in 1 .. Len(ods) : ods[k].obj = p
  <2>1. \E k \in 1 .. Len(ods) : ods[k].obj = c[m].bp + slot
    BY <1>5, <1>6, <1>7 DEF Kept
  <2>2. QED
    BY <1>4, <1>9, <2>1
<1>12. k \in DOMAIN ods
  BY <1>3, LenProperties
<1>13. nat' = Append(nat, Unwind(p, "next", NoFun, reg.pc.act)) /\ reg' = reg
  BY <1>9, <1>11, <1>12 DEF LeaveScope
<1>14. PICK u \in Native : u = Unwind(p, "next", NoFun, reg.pc.act)
  <2>1. reg.pc.act \in Int /\ "next" \in After
    BY <1>3, RegFields DEF Ip, After
  <2>2. QED
    BY <1>3, <2>1, UnwindType, Zenon
<1>15. /\ u.p = p /\ u.after = "next" /\ u.obj = NullObj
       /\ u.k = "unwind" /\ u.saved = reg /\ u.depth = Len(fs)
  BY <1>14 DEF Unwind
<1>16. Target(c, ods, u)
  <2>1. u.saved.bp + slot = p /\ slot \in u.saved.pc.in
    BY <1>1, <1>9, <1>15
  <2>2. KeptBelow(c, ods, u.p)
    BY <1>5, KeptIsKeptBelow
  <2>3. \E s \in u.saved.pc.in : u.p = u.saved.bp + s
    BY <1>15, <2>1
  <2>4. QED
    BY <1>10, <1>11, <1>15, <2>2, <2>3 DEF Target
<1>17. mode' = "run" /\ UNCHANGED <<fs, ods, resume, xargs, acts>>
  BY <1>2 DEF LeaveScope, InFunction, dataVars
<1>18. QED
  BY <1>2, <1>4, <1>13, <1>14, <1>15, <1>16, <1>17, UnwindStarts

\* An instruction throws a native Exception.
LEMMA CheckFailsSound ==
  ASSUME NEW rank, Stepping(rank), CheckFails
  PROVE  Sound(rank)'
<1>1. Running /\ reg.fb \in Checks /\ mode' = "raise"
      /\ UNCHANGED <<reg, ods, fs, nat, resume, xargs, acts>>
  BY DEF CheckFails, dataVars
<1>2. InFunction(rank)
  BY <1>1, RunningPhase, DestructorIsPlain DEF Stepping
<1>3. InRaise(rank)'
  BY <1>1, <1>2 DEF InRaise, InFunction
<1>4. mode # "wild"
  BY <1>2 DEF InFunction
<1>5. QED
  BY <1>1, <1>3, <1>4 DEF Sound, Stepping

\* An instruction traps.
LEMMA TrapSound ==
  ASSUME NEW rank, Stepping(rank), Trap
  PROVE  Sound(rank)'
<1>1. CASE mode' = "wild"
  BY <1>1 DEF Sound
<1>2. CASE mode' # "wild"
  <2>1. Running /\ reg.fb \in Traps /\ mode' = "raise"
        /\ UNCHANGED <<reg, ods, fs, nat, resume, xargs, acts>>
    BY <1>2 DEF Trap, dataVars, GoWild
  <2>2. InFunction(rank)
    BY <2>1, RunningPhase, DestructorIsPlain DEF Stepping
  <2>3. InRaise(rank)'
    BY <2>1, <2>2 DEF InRaise, InFunction
  <2>4. mode # "wild"
    BY <2>2 DEF InFunction
  <2>5. QED
    BY <2>1, <2>3, <2>4 DEF Sound, Stepping
<1>3. QED
  BY <1>1, <1>2

-----------------------------------------------------------------------------
(* Returning                                                               *)

\* Frames with the same fields are the same.
LEMMA FrameEqual ==
  ASSUME NEW a \in Frame, NEW b \in Frame, a.pc = b.pc, a.fb = b.fb, a.bp = b.bp
  PROVE  a = b
BY DEF Frame

\* Without open scopes there is nothing on the ODS.
LEMMA NothingOwned ==
  ASSUME NEW c \in Seq(Frame), NEW o \in Seq(Entry), Owned(c, o), Len(c) = 2,
         c[2].pc.in = {}
  PROVE  o = <<>>
<1>1. 1 .. Len(o) = {}
  <2>1. ASSUME NEW k \in 1 .. Len(o)
        PROVE  FALSE
    <3>1. PICK i \in 2 .. 2 : BelongsTo(o[k], c[i])
      BY DEF Owned
    <3>2. i = 2
      OBVIOUS
    <3>3. QED
      BY <3>1, <3>2 DEF BelongsTo
  <2>2. QED
    BY <2>1
<1>2. Len(o) \in Nat
  BY LenProperties
<1>3. Len(o) = 0
  <2>1. 1 \notin 1 .. Len(o)
    BY <1>1
  <2>2. QED
    BY <1>2, <2>1
<1>4. QED
  BY <1>3, EmptySeq

\* The last function of a statement returns.
LEMMA LastReturnSound ==
  ASSUME NEW rank, Stepping(rank), InFunction(rank), Return, mode' = "run",
         fs # <<>>, Len(fs) = 1, reg.pc.in = {}
  PROVE  Sound(rank)'
<1>1. /\ reg \in Reg /\ fs \in Seq(Frame) /\ ods \in Seq(Entry) /\ acts \in Nat
      /\ nat \in Seq(Native) /\ WellBehaved(rank)
  BY Typed DEF Stepping
<1>2. /\ Nested(rank, acts, Frames(fs, reg)) /\ Owned(Frames(fs, reg), ods)
      /\ Len(nat) = 1 /\ Outermost(nat[1])
  BY DEF InFunction
<1>3. /\ fs[1].fb = Start /\ fs[1].pc = NullIp /\ reg.bp - NArgs[reg.fb] >= Base
      /\ reg.fb \in Fun
  BY <1>1, <1>2, InnerFrame, Zenon
<1>4. Last(fs) = fs[1] /\ Last(nat) = nat[1]
  BY <1>1, <1>2, LastFacts, EmptySeq
<1>5. PICK v \in {0, 1} : v = (IF "args" \in nat[1].own THEN 1 ELSE 0)
  OBVIOUS
<1>6. /\ fs' = Front(fs) /\ UNCHANGED <<ods, nat, resume, xargs, mode, acts>>
      /\ reg'.fb = Start /\ reg'.pc = EndIp /\ reg'.sp = reg.bp - NArgs[reg.fb] + v
  BY <1>3, <1>4, <1>5 DEF Return, GoWild
<1>7. fs' = <<>>
  <2>1. Front(fs) \in Seq(Frame) /\ Len(Front(fs)) = 0
    BY <1>1, FrontFacts
  <2>2. QED
    BY <1>6, <2>1, EmptySeq
<1>8. ods = <<>>
  <2>1. PICK c \in Seq(Frame), m \in Nat : FramesOf(c, m, fs, reg)
    BY <1>1, FramesAre
  <2>2. c = Frames(fs, reg) /\ Len(c) = 2 /\ c[2].pc.in = {}
    BY <2>1 DEF FramesOf
  <2>3. QED
    BY <1>1, <1>2, <2>2, NothingOwned
<1>9. reg'.sp >= IF "args" \in nat[1].own THEN Base + 1 ELSE Base
  <2>1. PICK b \in Int, k \in Nat : b = reg.bp /\ k = NArgs[reg.fb]
    BY <1>1, <1>3, RegFields, Sizes
  <2>2. b - k >= Base
    BY <1>3, <2>1
  <2>3. b - k + v >= Base + v
    BY <2>2 DEF Base
  <2>4. QED
    BY <1>5, <1>6, <2>1, <2>3 DEF Base
<1>10. AtEnd'
  BY <1>2, <1>6, <1>7, <1>8, <1>9 DEF AtEnd
<1>11. QED
  BY <1>6, <1>10 DEF Sound, Stepping, InFunction

\* A function returns to one that called it.
LEMMA InnerReturnSound ==
  ASSUME NEW rank, Stepping(rank), InFunction(rank), Return, mode' = "run",
         fs # <<>>, Len(fs) # 1, reg.pc.in = {}
  PROVE  Sound(rank)'
<1>1. /\ reg \in Reg /\ fs \in Seq(Frame) /\ ods \in Seq(Entry) /\ acts \in Nat
      /\ nat \in Seq(Native) /\ WellBehaved(rank)
      /\ reg' \in Reg /\ fs' \in Seq(Frame)
  BY Typed DEF Stepping, IInv, TypeOK
<1>2. PICK c \in Seq(Frame), m \in Nat :
        /\ c = Frames(fs, reg) /\ m = Len(fs) /\ Len(c) = m + 1
        /\ \A i \in 1 .. m : c[i] = fs[i]
        /\ c[m + 1].fb = reg.fb /\ c[m + 1].pc = reg.pc /\ c[m + 1].bp = reg.bp
  <2>1. PICK c \in Seq(Frame), m \in Nat : FramesOf(c, m, fs, reg)
    BY <1>1, FramesAre, Zenon
  <2>2. QED
    BY <2>1, Zenon DEF FramesOf
<1>3. /\ Nested(rank, acts, c) /\ Owned(c, ods) /\ Kept(c, ods)
      /\ Len(nat) = 1 /\ Outermost(nat[1])
  BY <1>2 DEF InFunction
<1>4. m > 1 /\ m \in 2 .. Len(c) /\ m + 1 \in 2 .. Len(c) /\ m \in 1 .. m
  <2>1. m # 0
    BY <1>1, <1>2, EmptySeq
  <2>2. QED
    BY <1>2, <2>1
<1>5. Last(fs) = c[m]
  BY <1>1, <1>2, <1>4, LastFacts, Zenon
<1>6. IsActivation(acts, c[m]) /\ Above(rank, c[m], c[m + 1])
      /\ IsActivation(acts, c[m + 1])
  BY <1>3, <1>4 DEF Nested
<1>7. c[m].fb # Start /\ c[m].pc # NullIp /\ c[m].fb \in Fun
  BY <1>6, FunAssumption DEF IsActivation, NullIp
<1>8. /\ fs' = Front(fs) /\ UNCHANGED <<ods, nat, resume, xargs, mode, acts>>
      /\ reg'.fb = c[m].fb /\ reg'.pc = c[m].pc /\ reg'.bp = c[m].bp
      /\ reg'.sp = reg.bp - NArgs[reg.fb] + 0
  BY <1>5, <1>7 DEF Return, GoWild
<1>9. Len(fs') = m - 1 /\ \A i \in 1 .. m - 1 : fs'[i] = fs[i]
  <2>1. /\ Len(Front(fs)) = Len(fs) - 1
        /\ \A i \in 1 .. Len(fs) - 1 : Front(fs)[i] = fs[i]
    BY <1>1, FrontFacts, Zenon
  <2>2. fs' = Front(fs) /\ m = Len(fs)
    BY <1>2, <1>8, Zenon
  <2>3. QED
    BY <2>1, <2>2, Zenon
<1>10. PICK d \in Seq(Frame) :
         /\ d = Frames(fs', reg') /\ Len(d) = m
         /\ \A i \in 1 .. m - 1 : d[i] = fs'[i]
         /\ d[m].fb = reg'.fb /\ d[m].pc = reg'.pc /\ d[m].bp = reg'.bp
  <2>1. PICK d \in Seq(Frame), l \in Nat : FramesOf(d, l, fs', reg')
    BY <1>1, FramesAre, Zenon
  <2>2. l = m - 1
    BY <1>9, <2>1 DEF FramesOf
  <2>3. l + 1 = m
    BY <2>2
  <2>4. QED
    BY <2>1, <2>2, <2>3 DEF FramesOf
<1>11. \A i \in 1 .. m : d[i] = c[i]
  <2>1. d[m] \in Frame /\ c[m] \in Frame
    BY <1>2, <1>4, <1>10, ElementOfSeq
  <2>2. d[m].pc = c[m].pc /\ d[m].fb = c[m].fb /\ d[m].bp = c[m].bp
    BY <1>8, <1>10
  <2>3. d[m] = c[m]
    BY <2>1, <2>2, FrameEqual
  <2>4. ASSUME NEW i \in 1 .. m, i # m
        PROVE  d[i] = c[i]
    <3>1. i \in 1 .. m - 1
      BY <2>4
    <3>2. QED
      BY <1>2, <1>9, <1>10, <3>1
  <2>5. QED
    BY <2>3, <2>4
<1>12. Nested(rank, acts, d) /\ Owned(d, ods) /\ Kept(d, ods)
  <2>1. Returns(d, c, m)
    BY <1>2, <1>4, <1>10, <1>11 DEF Returns
  <2>2. QED
    BY <1>1, <1>3, <2>1, ReturnScopes
<1>13. reg'.bp + NLocal[reg'.fb] <= reg'.sp
  <2>1. c[m].bp + NLocal[c[m].fb] <= c[m + 1].bp - NArgs[c[m + 1].fb]
    BY <1>6 DEF Above
  <2>2. NArgs[reg.fb] \in Nat /\ reg.bp \in Int
    BY <1>1, <1>2, <1>6, RegFields, Sizes DEF IsActivation
  <2>3. reg'.sp = reg.bp - NArgs[reg.fb]
    BY <1>8, <2>2
  <2>4. QED
    BY <1>2, <1>8, <2>1, <2>3
<1>14. InFunction(rank)'
  BY <1>3, <1>8, <1>10, <1>12, <1>13 DEF InFunction
<1>15. QED
  BY <1>8, <1>14 DEF Sound, Stepping, InFunction

\* A destructor returns.
LEMMA DestructorReturnSound ==
  ASSUME NEW rank, Stepping(rank), InDestructor(rank), Return, mode' = "run"
  PROVE  Sound(rank)'
<1>1. /\ Last(fs) = [pc |-> NullIp, fb |-> Start, bp |-> nat[2].saved.bp]
      /\ UnwindOf(rank, acts, nat[2], Front(fs), ods) /\ InExecute /\ fs # <<>>
  BY DEF InDestructor
<1>2. /\ fs' = Front(fs) /\ UNCHANGED <<ods, nat, resume, xargs, mode, acts>>
      /\ reg'.fb = Start /\ reg'.pc = EndIp /\ reg'.bp = nat[2].saved.bp
  BY <1>1 DEF Return, GoWild
<1>3. DestructorDone(rank)'
  BY <1>1, <1>2 DEF DestructorDone, InExecute
<1>4. QED
  BY <1>1, <1>2, <1>3 DEF Sound, Stepping, InExecute

\* A function or a destructor returns.
LEMMA ReturnSound ==
  ASSUME NEW rank, Stepping(rank), Return
  PROVE  Sound(rank)'
<1>1. Running /\ reg.pc.in = {} /\ mode = "run"
  BY DEF Return, Running
<1>2. CASE mode' = "wild"
  BY <1>2 DEF Sound
<1>3. CASE mode' # "wild"
  <2>1. mode' = "run" /\ fs # <<>>
    BY <1>1, <1>3 DEF Return, GoWild
  <2>2. CASE InFunction(rank)
    BY <1>1, <2>1, <2>2, LastReturnSound, InnerReturnSound
  <2>3. CASE InDestructor(rank)
    BY <2>1, <2>3, DestructorReturnSound
  <2>4. QED
    BY <1>1, <2>2, <2>3, RunningPhase DEF Stepping
<1>4. QED
  BY <1>2, <1>3

\* The statement is done: execute() returns to the console.
LEMMA StatementEndSound ==
  ASSUME NEW rank, Stepping(rank), AtEnd, ExecEnd
  PROVE  Sound(rank)'
<1>1. /\ nat \in Seq(Native) /\ reg \in Reg /\ Len(nat) = 1 /\ Outermost(nat[1])
      /\ fs = <<>> /\ ods = <<>> /\ nat # <<>> /\ nat[1] \in Native
  BY Typed, LastNative DEF Stepping, AtEnd
<1>2. Last(nat) = nat[1] /\ Front(nat) = <<>>
  <2>1. Front(nat) \in Seq(Native) /\ Len(Front(nat)) = 0
    BY <1>1, FrontFacts
  <2>2. QED
    BY <1>1, <2>1, LastFacts, EmptySeq
<1> DEFINE e  == nat[1]
           sp == IF "args" \in e.flags THEN reg.sp - 1 ELSE e.saved.sp
           r  == [reg EXCEPT !.fb = e.saved.fb, !.pc = e.saved.pc, !.sp = sp]
<1>3. "outside" \notin e.flags /\ e.flags = e.own /\ e.saved.sp >= Base
  BY <1>1 DEF Outermost
<1>4. /\ ReturnTo(<<>>, r, fs, ods, resume, FALSE) /\ xargs' = xargs
  BY <1>2, <1>3, Zenon DEF ExecEnd
<1>5. sp \in Int /\ sp >= Base
  <2>1. e.saved \in Reg /\ reg.sp \in Int
    BY <1>1, RegFields DEF Native
  <2>2. e.saved.sp \in Int
    BY <2>1, RegFields
  <2>3. CASE "args" \in e.flags
    <3>1. reg.sp >= Base + 1
      BY <1>3, <2>3 DEF AtEnd
    <3>2. QED
      BY <2>1, <2>3, <3>1 DEF Base
  <2>4. CASE "args" \notin e.flags
    BY <1>3, <2>2, <2>4
  <2>5. QED
    BY <2>3, <2>4
<1> HIDE DEF sp
<1>6. r.sp = sp
  BY <1>1 DEF Reg
<1> HIDE DEF r
<1>7. /\ nat' = <<>> /\ mode' = "run" /\ reg' = r /\ fs' = fs /\ ods' = ods
      /\ resume' = resume
  BY <1>4 DEF ReturnTo
<1>8. AtPrompt'
  BY <1>1, <1>5, <1>6, <1>7 DEF AtPrompt
<1>9. resume = Resume0 /\ "outside" \notin xargs
  BY DEF Stepping, Sound, AtEnd
<1>10. QED
  BY <1>4, <1>7, <1>8, <1>9 DEF Sound

\* A destructor is done: execute() returns to do_unwind().
LEMMA DestructorEndSound ==
  ASSUME NEW rank, Stepping(rank), DestructorDone(rank), ExecEnd
  PROVE  Sound(rank)'
<1>1. /\ nat \in Seq(Native) /\ reg \in Reg /\ Len(nat) = 3 /\ Outermost(nat[1])
      /\ nat # <<>> /\ nat[3] \in Native /\ nat[3].flags = {}
      /\ SameBut(nat[3].saved, nat[2].saved)
      /\ reg.bp = nat[2].saved.bp
      /\ UnwindOf(rank, acts, nat[2], fs, ods)
  BY Typed, LastNative DEF Stepping, DestructorDone, InExecute
<1>2. PICK n \in Seq(Native) :
        n = Front(nat) /\ Len(n) = 2 /\ n[1] = nat[1] /\ n[2] = nat[2]
  <2>1. /\ Front(nat) \in Seq(Native) /\ Len(Front(nat)) = Len(nat) - 1
        /\ \A i \in 1 .. Len(nat) - 1 : Front(nat)[i] = nat[i]
    BY <1>1, FrontFacts, Zenon
  <2>2. QED
    BY <1>1, <2>1
<1>3. Last(nat) = nat[3] /\ n # <<>> /\ Last(n) = n[2]
  <2>1. n # <<>>
    BY <1>2, EmptySeq
  <2>2. Last(n) = n[Len(n)] /\ Last(nat) = nat[Len(nat)]
    BY <1>1, <2>1, LastFacts, Zenon
  <2>3. QED
    BY <1>1, <1>2, <2>1, <2>2
<1> DEFINE e == nat[3]
           r == [reg EXCEPT !.fb = e.saved.fb, !.pc = e.saved.pc, !.sp = e.saved.sp]
<1>4. /\ ReturnTo(n, r, fs, ods, resume, FALSE) /\ xargs' = xargs /\ acts' = acts
  BY <1>1, <1>2, <1>3, Zenon DEF ExecEnd
<1>5. r.fb = e.saved.fb /\ r.pc = e.saved.pc /\ r.sp = e.saved.sp /\ r.bp = reg.bp
  BY <1>1 DEF Reg
<1> HIDE DEF r
<1>6. Last(n).k # "exec"
  BY <1>1, <1>2, <1>3 DEF UnwindOf
<1>7. /\ nat' = n /\ mode' = "run" /\ reg' = r /\ fs' = fs /\ ods' = ods
      /\ resume' = resume
  BY <1>3, <1>4, <1>6 DEF ReturnTo
<1>8. SameBut(reg', nat[2].saved)
  BY <1>1, <1>5, <1>7 DEF SameBut
<1>9. InUnwind(rank)'
  BY <1>1, <1>2, <1>4, <1>7, <1>8 DEF InUnwind
<1>10. resume = Resume0 /\ "outside" \notin xargs
  BY DEF Stepping, Sound, DestructorDone, InExecute
<1>11. QED
  BY <1>4, <1>7, <1>9, <1>10 DEF Sound

\* execute() returns, to the console or to do_unwind().
LEMMA ExecEndSound ==
  ASSUME NEW rank, Stepping(rank), ExecEnd
  PROVE  Sound(rank)'
<1>1. AtEnd \/ DestructorDone(rank)
  BY EndPhase DEF ExecEnd, Stepping
<1>2. QED
  BY <1>1, StatementEndSound, DestructorEndSound

-----------------------------------------------------------------------------
(* do_unwind() goes on                                                     *)

\* What holds while do_unwind() goes on.
LEMMA InUnwinding ==
  ASSUME NEW rank, Stepping(rank), Unwinding
  PROVE  /\ nat \in Seq(Native) /\ Len(nat) = 2 /\ nat # <<>> /\ Last(nat) = nat[2]
         /\ nat[2] \in Native /\ nat[2].saved \in Reg /\ Outermost(nat[1])
         /\ UnwindOf(rank, acts, nat[2], fs, ods) /\ SameBut(reg, nat[2].saved)
         /\ Len(Front(nat)) = 1 /\ Front(nat)[1] = nat[1]
         /\ mode = "run" /\ resume = Resume0 /\ "outside" \notin xargs
<1>1. InUnwind(rank) /\ Last(nat) = nat[2]
  BY UnwindingPhase DEF Stepping
<1>2. nat \in Seq(Native) /\ Len(nat) = 2 /\ nat # <<>>
  BY <1>1, Typed, LastNative DEF Stepping, InUnwind
<1>3. nat[2] \in Native
  BY <1>2, ElementOfSeq
<1>4. nat[2].saved \in Reg
  BY <1>3 DEF Native
<1>5. Len(Front(nat)) = 1 /\ Front(nat)[1] = nat[1]
  <2>1. /\ Len(Front(nat)) = Len(nat) - 1
        /\ \A i \in 1 .. Len(nat) - 1 : Front(nat)[i] = nat[i]
    BY <1>2, FrontFacts, Zenon
  <2>2. QED
    BY <1>2, <2>1
<1>6. /\ Outermost(nat[1]) /\ UnwindOf(rank, acts, nat[2], fs, ods)
      /\ SameBut(reg, nat[2].saved) /\ mode = "run"
  BY <1>1 DEF InUnwind
<1>7. resume = Resume0 /\ "outside" \notin xargs
  BY <1>6 DEF Stepping, Sound
<1>8. QED
  BY <1>1, <1>2, <1>3, <1>4, <1>5, <1>6, <1>7

\* What is nested stays nested when there are more activations.
LEMMA NestedLater ==
  ASSUME NEW rank, NEW n \in Nat, NEW c, Nested(rank, n, c)
  PROVE  Nested(rank, n + 1, c)
<1>1. \A i \in 2 .. Len(c) : IsActivation(n, c[i]) => IsActivation(n + 1, c[i])
  BY DEF IsActivation
<1>2. QED
  BY <1>1 DEF Nested

\* A record is popped, of a marker or of an object.
LEMMA PopRecord ==
  ASSUME NEW rank, Stepping(rank), UnwindStep
  PROVE  \E v \in Native :
           /\ v = [nat[2] EXCEPT !.obj = Last(ods).obj]
           /\ v.saved = nat[2].saved
           /\ UnwindOf(rank, acts, v, fs, Front(ods))
           /\ [nat EXCEPT ![Len(nat)].obj = Last(ods).obj] \in Seq(Native)
           /\ Len([nat EXCEPT ![Len(nat)].obj = Last(ods).obj]) = 2
           /\ [nat EXCEPT ![Len(nat)].obj = Last(ods).obj][1] = nat[1]
           /\ [nat EXCEPT ![Len(nat)].obj = Last(ods).obj][2] = v
<1>1. /\ nat \in Seq(Native) /\ Len(nat) = 2 /\ Last(nat) = nat[2]
      /\ nat[2] \in Native /\ nat[2].saved \in Reg
      /\ UnwindOf(rank, acts, nat[2], fs, ods)
  BY InUnwinding DEF UnwindStep
<1>2. ods # <<>> /\ ~(nat[2].p # NullObj /\ nat[2].obj = nat[2].p)
  BY <1>1 DEF UnwindStep, UnwindStops
<1>3. fs \in Seq(Frame) /\ ods \in Seq(Entry)
  BY Typed DEF Stepping
<1>4. PICK o \in Int : o = Last(ods).obj
  <2>1. Last(ods) \in Entry
    BY <1>2, <1>3, LastFacts
  <2>2. QED
    BY <2>1 DEF Entry
<1>5. PICK v \in Native :
        /\ v = [nat[2] EXCEPT !.obj = o] /\ v.obj = o
        /\ v.p = nat[2].p /\ v.after = nat[2].after /\ v.h = nat[2].h
        /\ v.act = nat[2].act /\ v.saved = nat[2].saved
        /\ v.k = nat[2].k /\ v.depth = nat[2].depth
  <2>1. PICK u \in Native : u = nat[2]
    BY <1>1
  <2> DEFINE v == [u EXCEPT !.obj = o]
  <2>2. v \in Native
    BY DEF Native
  <2>3. /\ v.obj = o /\ v.p = u.p /\ v.after = u.after /\ v.h = u.h
        /\ v.act = u.act /\ v.saved = u.saved /\ v.k = u.k /\ v.depth = u.depth
    BY DEF Native
  <2> HIDE DEF v
  <2>4. v = [nat[2] EXCEPT !.obj = o]
    BY <2>1 DEF v
  <2>5. QED
    BY <2>1, <2>2, <2>3, <2>4, Zenon
<1>6. PICK c \in Seq(Frame) : c = Frames(fs, nat[2].saved)
  BY <1>1, <1>3, FramesShape
<1>7. Owned(c, Front(ods)) /\ Target(c, Front(ods), v)
  BY <1>1, <1>2, <1>3, <1>4, <1>5, <1>6, PopScope, Zenon DEF UnwindOf
<1>8. UnwindOf(rank, acts, v, fs, Front(ods))
  BY <1>1, <1>5, <1>6, <1>7 DEF UnwindOf
<1>9. PICK n \in Seq(Native) :
        n = [nat EXCEPT ![Len(nat)].obj = o] /\ Len(n) = 2 /\ n[1] = nat[1]
        /\ n[2] = v
  <2>1. [nat EXCEPT ![Len(nat)].obj = o] = [nat EXCEPT ![2] = v]
    BY <1>1, <1>5
  <2>2. PICK n : n = [nat EXCEPT ![2] = v]
    BY Zenon
  <2>3. n \in Seq(Native) /\ Len(n) = 2 /\ n[1] = nat[1] /\ n[2] = v
    <3>1. 2 \in 1 .. Len(nat)
      BY <1>1
    <3>2. /\ n \in Seq(Native) /\ Len(n) = Len(nat)
          /\ \A j \in 1 .. Len(nat) : n[j] = IF j = 2 THEN v ELSE nat[j]
      <4>1. nat \in Seq(Native)
        BY <1>1
      <4>2. /\ [nat EXCEPT ![2] = v] \in Seq(Native)
            /\ Len([nat EXCEPT ![2] = v]) = Len(nat)
            /\ \A j \in 1 .. Len(nat) :
                 [nat EXCEPT ![2] = v][j] = IF j = 2 THEN v ELSE nat[j]
        BY <3>1, <4>1, ExceptSeq
      <4>3. QED
        BY <2>2, <4>2
    <3>3. QED
      BY <1>1, <3>2
  <2>4. QED
    BY <2>1, <2>2, <2>3, Zenon
<1>10. QED
  BY <1>4, <1>5, <1>8, <1>9, Zenon

\* What was pushed last is on top.
LEMMA FrontAppend ==
  ASSUME NEW S, NEW s \in Seq(S), NEW e \in S
  PROVE  /\ Append(s, e) # <<>> /\ Front(Append(s, e)) = s
         /\ Last(Append(s, e)) = e
<1> DEFINE q == Append(s, e)
<1>1. /\ q \in Seq(S) /\ Len(q) = Len(s) + 1 /\ Len(s) \in Nat
      /\ \A i \in 1 .. Len(s) : q[i] = s[i]
      /\ q[Len(s) + 1] = e
  BY AppendProperties, LenProperties
<1> HIDE DEF q
<1>2. q # <<>>
  BY <1>1, EmptySeq
<1>3. /\ Front(q) \in Seq(S) /\ Len(Front(q)) = Len(q) - 1
      /\ \A i \in 1 .. Len(q) - 1 : Front(q)[i] = q[i]
  BY <1>1, <1>2, FrontFacts, Zenon
<1>4. Last(q) = q[Len(q)]
  BY <1>1, <1>2, LastFacts
<1>5. Len(Front(q)) = Len(s) /\ \A i \in 1 .. Len(Front(q)) : Front(q)[i] = s[i]
  BY <1>1, <1>3
<1>6. Front(q) = s
  BY <1>3, <1>5, SeqEqual
<1>7. QED
  BY <1>1, <1>2, <1>4, <1>6 DEF q

\* The record of a marker is popped, and do_unwind() goes on.
LEMMA PopMarkerSound ==
  ASSUME NEW rank, Stepping(rank), UnwindStep, Last(ods).try # NoFun
  PROVE  Sound(rank)'
<1>1. /\ nat \in Seq(Native) /\ Len(nat) = 2 /\ nat[2] \in Native
      /\ Outermost(nat[1]) /\ SameBut(reg, nat[2].saved)
      /\ mode = "run" /\ resume = Resume0 /\ "outside" \notin xargs
  BY InUnwinding DEF UnwindStep
<1>2. PICK v \in Native :
        /\ v.saved = nat[2].saved
        /\ UnwindOf(rank, acts, v, fs, Front(ods))
        /\ Len([nat EXCEPT ![Len(nat)].obj = Last(ods).obj]) = 2
        /\ [nat EXCEPT ![Len(nat)].obj = Last(ods).obj][1] = nat[1]
        /\ [nat EXCEPT ![Len(nat)].obj = Last(ods).obj][2] = v
  BY PopRecord
<1>3. PICK n : n = [nat EXCEPT ![Len(nat)].obj = Last(ods).obj]
  BY Zenon
<1>4. /\ nat' = n /\ reg' = [reg EXCEPT !.op = Last(ods).obj]
      /\ UNCHANGED <<fs, resume, mode, acts, xargs>> /\ ods' = Front(ods)
  BY <1>3 DEF UnwindStep
<1>5. Len(n) = 2 /\ n[1] = nat[1] /\ n[2] = v
  BY <1>2, <1>3, Zenon
<1>6. SameBut(reg', v.saved)
  <2>1. reg \in Reg
    BY Typed DEF Stepping
  <2>2. /\ reg'.fb = reg.fb /\ reg'.pc = reg.pc /\ reg'.bp = reg.bp
        /\ reg'.sp = reg.sp
    BY <1>4, <2>1 DEF Reg
  <2>3. QED
    BY <1>1, <1>2, <2>2 DEF SameBut
<1>7. InUnwind(rank)'
  BY <1>1, <1>2, <1>4, <1>5, <1>6 DEF InUnwind
<1>8. QED
  BY <1>1, <1>4, <1>7 DEF Sound

\* The record of an object is popped, and its destructor is executed.
LEMMA PopObjectSound ==
  ASSUME NEW rank, Stepping(rank), UnwindStep, ~(Last(ods).try # NoFun)
  PROVE  Sound(rank)'
<1>1. /\ nat \in Seq(Native) /\ Len(nat) = 2 /\ nat[2] \in Native
      /\ nat[2].saved \in Reg
      /\ Outermost(nat[1]) /\ SameBut(reg, nat[2].saved)
      /\ mode = "run" /\ resume = Resume0 /\ "outside" \notin xargs
  BY InUnwinding DEF UnwindStep
<1>2. PICK v \in Native :
        /\ v.saved = nat[2].saved
        /\ UnwindOf(rank, acts, v, fs, Front(ods))
        /\ [nat EXCEPT ![Len(nat)].obj = Last(ods).obj] \in Seq(Native)
        /\ Len([nat EXCEPT ![Len(nat)].obj = Last(ods).obj]) = 2
        /\ [nat EXCEPT ![Len(nat)].obj = Last(ods).obj][1] = nat[1]
        /\ [nat EXCEPT ![Len(nat)].obj = Last(ods).obj][2] = v
  BY PopRecord
<1>3. PICK n \in Seq(Native) :
        /\ n = [nat EXCEPT ![Len(nat)].obj = Last(ods).obj]
        /\ Len(n) = 2 /\ n[1] = nat[1] /\ n[2] = v
  BY <1>2, Zenon
<1>4. /\ reg \in Reg /\ fs \in Seq(Frame) /\ ods \in Seq(Entry) /\ acts \in Nat
      /\ TypeOK /\ ~Paused /\ reg' \in Reg /\ fs' \in Seq(Frame)
      /\ WellBehaved(rank) /\ ods # <<>>
  <2>1. ods # <<>>
    BY DEF UnwindStep, UnwindStops
  <2>2. QED
    BY <1>1, <2>1, Typed, NotPaused DEF Stepping, IInv, TypeOK
<1>5. PICK r0 \in Reg :
        /\ r0 = [reg EXCEPT !.op = Last(ods).obj]
        /\ r0.fb = reg.fb /\ r0.pc = reg.pc /\ r0.bp = reg.bp /\ r0.sp = reg.sp
  <2>1. Last(ods) \in Entry
    BY <1>4, LastFacts
  <2>2. PICK o \in Int : o = Last(ods).obj
    BY <2>1 DEF Entry
  <2>3. [reg EXCEPT !.op = o] \in Reg
    BY <1>4, RegUpdate, Zenon
  <2>4. PICK r0 \in Reg : r0 = [reg EXCEPT !.op = o]
    BY <2>3
  <2>5. r0.fb = reg.fb /\ r0.pc = reg.pc /\ r0.bp = reg.bp /\ r0.sp = reg.sp
    BY <1>4, <2>4 DEF Reg
  <2>6. QED
    BY <2>2, <2>4, <2>5, Zenon
<1>6. PICK r \in Reg :
        /\ r = Restart(r0) /\ r.fb = Start /\ r.pc = NullIp
        /\ r.bp = reg.bp /\ r.sp = reg.sp
  <2>1. Restart(r0) \in Reg
    BY Constants, RegUpdate, Zenon DEF Restart
  <2>2. PICK r \in Reg : r = Restart(r0)
    BY <2>1
  <2>3. r.fb = Start /\ r.pc = NullIp /\ r.bp = r0.bp /\ r.sp = r0.sp
    BY <2>2 DEF Restart, Reg
  <2>4. QED
    BY <1>5, <2>2, <2>3, SMTT(40)
<1>7. /\ Enter(Dtor, Append(n, Exec(r0, {})), r0, fs)
      /\ ods' = Front(ods) /\ xargs' = xargs
  BY <1>3, <1>5 DEF UnwindStep
<1>8. nat' = Append(n, Exec(r0, {})) /\ StartFunction(Dtor, r, fs)
  BY <1>6, <1>7 DEF Enter
<1>9. /\ fs' = Append(fs, Triple(r)) /\ acts' = acts + 1
      /\ resume' = resume /\ mode' = "run"
      /\ reg'.fb = Dtor /\ reg'.bp = r.sp /\ reg'.sp = r.sp + NLocal[Dtor]
      /\ reg'.pc = [act |-> acts + 1, in |-> {}]
  <2>1. Dtor \in Fun /\ Dtor \notin Undefined
    BY <1>4, FunAssumption DEF WellBehaved
  <2>2. Len(fs) < MaxFrames /\ reg'.sp <= MaxStack
    BY DEF Stepping, Roomy
  <2>3. QED
    BY <1>4, <1>8, <2>1, <2>2, FunctionStarts, Zenon
<1>10. PICK e \in Native :
         e = Exec(r0, {}) /\ e.k = "exec" /\ e.flags = {} /\ e.own = {} /\ e.saved = r0
  <2>1. Exec(r0, {}) \in Native
    BY ExecType DEF Flags
  <2>2. QED
    BY <2>1 DEF Exec
<1>11. Len(nat') = 3 /\ nat'[1] = nat[1] /\ nat'[2] = v /\ nat'[3] = e
  <2>1. /\ Len(Append(n, e)) = Len(n) + 1
        /\ \A i \in 1 .. Len(n) : Append(n, e)[i] = n[i]
        /\ Append(n, e)[Len(n) + 1] = e
    BY AppendProperties
  <2>2. QED
    <3>1. nat' = Append(n, e)
      BY <1>8, <1>10
    <3>2. 1 \in 1 .. Len(n) /\ 2 \in 1 .. Len(n) /\ Len(n) + 1 = 3
      <4>1. Len(n) = 2
        BY <1>3, Zenon
      <4>2. QED
        BY <4>1
    <3>3. n[1] = nat[1] /\ n[2] = v
      BY <1>3, Zenon
    <3>4. QED
      BY <2>1, <3>1, <3>2, <3>3
<1>12. fs' # <<>> /\ Front(fs') = fs /\ Last(fs') = Triple(r)
  <2>1. Triple(r) \in Frame
    BY RegFields
  <2>2. /\ Append(fs, Triple(r)) # <<>>
        /\ Front(Append(fs, Triple(r))) = fs /\ Last(Append(fs, Triple(r))) = Triple(r)
    BY <1>4, <2>1, FrontAppend
  <2>3. QED
    BY <1>9, <2>2
<1>13. Triple(r) = [pc |-> NullIp, fb |-> Start, bp |-> v.saved.bp]
  BY <1>1, <1>2, <1>6 DEF Triple, SameBut
<1>14. UnwindOf(rank, acts + 1, v, fs, Front(ods))
  BY <1>2, <1>4, NestedLater DEF UnwindOf
<1>15. SameBut(nat'[3].saved, v.saved)
  BY <1>1, <1>2, <1>5, <1>10, <1>11, ZenonT(60) DEF SameBut
<1>16. /\ reg'.fb = Dtor /\ reg'.pc.in = {} /\ reg'.pc # EndIp
       /\ reg'.bp >= v.saved.sp /\ reg'.bp + NLocal[Dtor] <= reg'.sp
  <2>1. reg'.bp = reg.sp /\ v.saved.sp = reg.sp
    BY <1>1, <1>2, <1>6, <1>9 DEF SameBut
  <2>2. reg.sp \in Int /\ NLocal[Dtor] \in Nat
    BY <1>4, RegFields, Sizes, FunAssumption
  <2>3. reg'.pc # EndIp
    BY <1>4, <1>9 DEF EndIp
  <2>4. QED
    BY <1>6, <1>9, <2>1, <2>2, <2>3
<1>17. InExecute'
  BY <1>1, <1>9, <1>10, <1>11, <1>15 DEF InExecute
<1>18. InDestructor(rank)'
  BY <1>7, <1>9, <1>11, <1>12, <1>13, <1>14, <1>16, <1>17 DEF InDestructor
<1>19. QED
  BY <1>1, <1>7, <1>9, <1>18 DEF Sound

\* do_unwind() pops a record.
LEMMA UnwindStepSound ==
  ASSUME NEW rank, Stepping(rank), UnwindStep
  PROVE  Sound(rank)'
BY PopMarkerSound, PopObjectSound

\* A scope is left.
LEMMA LeftScopeSound ==
  ASSUME NEW rank, Stepping(rank), LeftScope
  PROVE  Sound(rank)'
<1>1. /\ Last(nat) = nat[2] /\ nat[2] \in Native
      /\ nat[2].saved \in Reg /\ Outermost(nat[1])
      /\ UnwindOf(rank, acts, nat[2], fs, ods)
      /\ Len(Front(nat)) = 1 /\ Front(nat)[1] = nat[1]
      /\ mode = "run" /\ resume = Resume0 /\ "outside" \notin xargs
  BY InUnwinding DEF LeftScope, UnwindEnds
<1>2. /\ fs \in Seq(Frame) /\ ods \in Seq(Entry) /\ acts \in Nat /\ reg' \in Reg
      /\ WellBehaved(rank)
  BY Typed DEF Stepping, IInv, TypeOK
<1>3. PICK u \in Native : u = nat[2] /\ u.saved \in Reg /\ u.p \in Int
  BY <1>1 DEF Native
<1>4. u.after = "next" /\ UnwindStops(u)
  BY <1>1, <1>3 DEF LeftScope, UnwindEnds
<1> DEFINE r  == u.saved
           in == {s \in r.pc.in : r.bp + s < u.p}
<1>5. /\ reg' = [r EXCEPT !.pc.in = in] /\ nat' = Front(nat)
      /\ UNCHANGED <<ods, fs, resume, xargs, mode, acts>>
  BY <1>1, <1>3 DEF LeftScope, dataVars
<1>6. r.pc.in \in SUBSET Slot /\ r.bp \in Int /\ r.sp \in Int
  BY <1>3, RegFields DEF Ip
<1>7. in \in SUBSET Slot
  BY <1>6
<1> HIDE DEF in
<1>8. /\ reg'.fb = r.fb /\ reg'.bp = r.bp /\ reg'.sp = r.sp
      /\ reg'.pc.act = r.pc.act /\ reg'.pc.in = in
  BY <1>3, <1>5, <1>7, ScopesChanged
<1>9. PICK c \in Seq(Frame), d \in Seq(Frame), m \in Nat :
        /\ c = Frames(fs, r) /\ d = Frames(fs, reg') /\ m = Len(c)
        /\ CutAt(d, c, m)
        /\ c[m].fb = r.fb /\ c[m].bp = r.bp /\ c[m].pc = r.pc
        /\ d[m].pc = reg'.pc /\ d[m].fb = reg'.fb
  <2>1. PICK q \in Reg, z \in Reg : q = reg' /\ z = r
    BY <1>2, <1>3
  <2>2. Rescoped(q, z)
    BY <1>8, <2>1 DEF Rescoped
  <2>3. fs \in Seq(Frame)
    BY <1>2
  <2>4. \E c, d \in Seq(Frame) : \E m \in Nat : TwoFrames(c, d, m, fs, z, q)
    BY <2>2, <2>3, SameFrames
  <2>5. QED
    BY <2>1, <2>4, Zenon DEF TwoFrames
<1>10. /\ Nested(rank, acts, c) /\ Owned(c, ods) /\ Target(c, ods, u)
       /\ r.bp + NLocal[r.fb] <= r.sp
  BY <1>1, <1>3, <1>9 DEF UnwindOf
<1>11. PICK s0 \in r.pc.in : u.p >= Base /\ u.p = r.bp + s0
  BY <1>4, <1>10 DEF Target
<1>12. u.p # NullObj
  BY <1>11 DEF Base, NullObj
<1>13. KeptBelow(c, ods, u.p) /\ \A k \in 1 .. Len(ods) : ods[k].obj < u.p
  BY <1>2, <1>4, <1>10, <1>12, UnwoundToTarget DEF UnwindStops
<1>14. m \in 2 .. Len(c)
  <2>1. Len(c) > 1
    BY <1>10 DEF Nested
  <2>2. QED
    BY <1>9, <2>1
<1>15. s0 \in c[m].pc.in /\ u.p = c[m].bp + s0
  BY <1>9, <1>11
<1>16. d[m].pc.in = {s \in c[m].pc.in : s < s0}
  <2>1. \A s \in Slot : s \in Int
    BY DEF Slot, Outer, Marker, Inner
  <2>2. \A s \in r.pc.in : (r.bp + s < r.bp + s0) <=> s < s0
    BY <1>6, <2>1
  <2>3. in = {s \in r.pc.in : s < s0}
    BY <1>11, <2>2 DEF in
  <2>4. QED
    BY <1>8, <1>9, <2>3
<1>17. CutsScopes(c, ods, u.p, m, s0, d)
  BY <1>9, <1>13, <1>15, <1>16 DEF CutsScopes
<1>18. Nested(rank, acts, d) /\ Owned(d, ods) /\ Kept(d, ods)
  BY <1>2, <1>3, <1>10, <1>14, <1>17, CutScopes, SMTT(40)
<1>19. InFunction(rank)'
  BY <1>1, <1>5, <1>8, <1>9, <1>10, <1>18 DEF InFunction
<1>20. QED
  BY <1>1, <1>5, <1>19 DEF Sound

-----------------------------------------------------------------------------
(* do_unwind() is done                                                     *)

\* The scopes that are open in a catch block are those that are open around
\* the try block.
LEMMA CatchScopes ==
  ASSUME NEW n \in Nat, NEW a \in Frame, IsActivation(n, a), Marker \in a.pc.in
  PROVE  /\ CatchIp(a.fb, a.pc.act).act = a.pc.act
         /\ CatchIp(a.fb, a.pc.act).in = {s \in a.pc.in : s < Marker}
         /\ CatchIp(a.fb, a.pc.act) \in Ip
<1>1. a.pc.in \in SUBSET Slot /\ a.pc.act \in Int
  BY DEF Frame, Ip
<1>2. ScopesNest(a) /\ a.fb \in Fun
  BY DEF IsActivation
<1>3. Objects[a.fb] \intersect {Outer} = a.pc.in \intersect {Outer}
  BY <1>2 DEF ScopesNest, Outer, Marker
<1>4. {s \in a.pc.in : s < Marker} = a.pc.in \intersect {Outer}
  BY <1>1 DEF Slot, Outer, Marker, Inner
<1>5. CatchIp(a.fb, a.pc.act) = [act |-> a.pc.act, in |-> a.pc.in \intersect {Outer}]
  BY <1>3 DEF CatchIp
<1>6. a.pc.in \intersect {Outer} \in SUBSET Slot
  BY <1>1
<1>7. QED
  BY <1>1, <1>4, <1>5, <1>6 DEF Ip

\* With the registers q, the catch block runs in the activation i of c, whose
\* try block pushed the marker that do_unwind() unwound to.
Lands(d, c, i, r, q, frames) ==
  /\ d = Frames(frames, q) /\ CutAt(d, c, i)
  /\ d[i].pc.in = {s \in c[i].pc.in : s < Marker}
  /\ q.fb = c[i].fb /\ q.bp = c[i].bp /\ q.sp = r.sp
  /\ q.pc.act = c[i].pc.act

\* The catch block is in the function that runs.
LEMMA CatchHere ==
  ASSUME NEW frames \in Seq(Frame), NEW r \in Reg, NEW c \in Seq(Frame),
         c = Frames(frames, r), NEW i, i = Len(c),
         NEW n \in Nat, i > 1, IsActivation(n, c[i]), Marker \in c[i].pc.in,
         NEW q \in Reg, q = [r EXCEPT !.pc = CatchIp(r.fb, r.pc.act)]
  PROVE  \E d \in Seq(Frame) : Lands(d, c, i, r, q, frames)
<1>1. PICK z \in Seq(Frame), m \in Nat : FramesOf(z, m, frames, r)
  BY FramesAre
<1>2. /\ i = m + 1 /\ i \in 1 .. Len(c) /\ z = c
      /\ c[i].fb = r.fb /\ c[i].pc = r.pc /\ c[i].bp = r.bp
  BY <1>1 DEF FramesOf
<1>3. c[i] \in Frame
  BY <1>2, ElementOfSeq, Zenon
<1>4. /\ CatchIp(r.fb, r.pc.act).act = r.pc.act
      /\ CatchIp(r.fb, r.pc.act).in = {s \in r.pc.in : s < Marker}
      /\ CatchIp(r.fb, r.pc.act) \in Ip
  <2>1. PICK a \in Frame : a = c[i]
    BY <1>3
  <2>2. /\ CatchIp(a.fb, a.pc.act).act = a.pc.act
        /\ CatchIp(a.fb, a.pc.act).in = {s \in a.pc.in : s < Marker}
        /\ CatchIp(a.fb, a.pc.act) \in Ip
    BY <2>1, CatchScopes
  <2>3. QED
    BY <1>2, <2>1, <2>2
<1>5. /\ q.fb = r.fb /\ q.bp = r.bp /\ q.sp = r.sp
      /\ q.pc = CatchIp(r.fb, r.pc.act)
  BY DEF Reg
<1>6. q.pc.act = r.pc.act
  BY <1>4, <1>5
<1>7. PICK x \in Seq(Frame), d \in Seq(Frame), k \in Nat :
         TwoFrames(x, d, k, frames, r, q)
  <2>1. Rescoped(q, r)
    BY <1>5, <1>6 DEF Rescoped
  <2>2. QED
    BY <2>1, SameFrames, Zenon
<1>8. d = Frames(frames, q) /\ CutAt(d, c, i) /\ d[i].pc = q.pc
  BY <1>7 DEF TwoFrames
<1>9. d[i].pc.in = {s \in c[i].pc.in : s < Marker}
  BY <1>2, <1>4, <1>5, <1>8
<1>10. Lands(d, c, i, r, q, frames)
  BY <1>2, <1>5, <1>6, <1>8, <1>9, Zenon DEF Lands
<1>11. QED
  BY <1>10

\* The catch block is in a function that called, directly or not, the one
\* that runs.
LEMMA CatchBelow ==
  ASSUME NEW frames \in Seq(Frame), NEW r \in Reg, NEW c \in Seq(Frame),
         c = Frames(frames, r), NEW i \in 2 .. Len(frames),
         NEW n \in Nat, IsActivation(n, c[i]), Marker \in c[i].pc.in,
         NEW q \in Reg, NEW frames1 \in Seq(Frame),
         frames1 = SubSeq(frames, 1, i - 1),
         q = [r EXCEPT !.fb = frames[i].fb, !.bp = frames[i].bp,
                       !.pc = CatchIp(frames[i].fb, frames[i].pc.act)]
  PROVE  \E d \in Seq(Frame) : Lands(d, c, i, r, q, frames1)
<1>1. PICK z \in Seq(Frame), m \in Nat : FramesOf(z, m, frames, r)
  BY FramesAre, Zenon
<1>2. c[i] = frames[i] /\ i \in 1 .. Len(frames) /\ Len(frames) = m
      /\ \A j \in 1 .. i - 1 : c[j] = frames[j]
  BY <1>1 DEF FramesOf
<1>3. PICK a \in Frame : a = c[i] /\ a = frames[i]
  BY <1>2, ElementOfSeq
<1>4. /\ CatchIp(a.fb, a.pc.act).act = a.pc.act
      /\ CatchIp(a.fb, a.pc.act).in = {s \in a.pc.in : s < Marker}
      /\ CatchIp(a.fb, a.pc.act) \in Ip
  BY <1>3, CatchScopes, Zenon
<1>5. q = [r EXCEPT !.fb = a.fb, !.bp = a.bp, !.pc = CatchIp(a.fb, a.pc.act)]
  BY <1>3
<1>6. /\ q.fb = a.fb /\ q.bp = a.bp /\ q.sp = r.sp
      /\ q.pc = CatchIp(a.fb, a.pc.act)
  BY <1>5, Zenon DEF Reg
<1>7. Len(frames1) = i - 1 /\ \A j \in 1 .. i - 1 : frames1[j] = frames[j]
  BY <1>2, SMTT(40)
<1>8. PICK d \in Seq(Frame), k \in Nat : FramesOf(d, k, frames1, q)
  BY FramesAre, Zenon
<1>9. k = i - 1 /\ k + 1 = i
  BY <1>7, <1>8, SMTT(40) DEF FramesOf
<1>10. /\ d = Frames(frames1, q) /\ Len(d) = i
       /\ \A j \in 1 .. i - 1 : d[j] = frames1[j]
       /\ d[i].fb = q.fb /\ d[i].pc = q.pc /\ d[i].bp = q.bp
  BY <1>8, <1>9, Zenon DEF FramesOf
<1>11. \A j \in 1 .. i - 1 : d[j] = c[j]
  BY <1>2, <1>7, <1>10, ZenonT(60)
<1>12. CutAt(d, c, i)
  BY <1>3, <1>4, <1>6, <1>10, <1>11, SMTT(40) DEF CutAt
<1>13. Lands(d, c, i, r, q, frames1)
  BY <1>3, <1>4, <1>6, <1>10, <1>12, Zenon DEF Lands
<1>14. QED
  BY <1>13

\* There is room for the frames below the innermost one.
LEMMA RoomBelow ==
  ASSUME NEW rank, NEW n \in Nat, NEW c \in Seq(Frame), Nested(rank, n, c),
         NEW m \in 2 .. Len(c), m = Len(c), NEW i \in 2 .. Len(c), NEW h \in Int,
         c[m].bp + NLocal[c[m].fb] <= h
  PROVE  c[i].bp + NLocal[c[i].fb] <= h
<1>1. CASE i = m
  BY <1>1
<1>2. CASE i # m
  <2>1. Above(rank, c[i], c[m]) /\ IsActivation(n, c[i]) /\ IsActivation(n, c[m])
    <3>1. i < m
      BY <1>2
    <3>2. QED
      BY <3>1 DEF Nested
  <2>2. i \in 1 .. Len(c) /\ m \in 1 .. Len(c)
    OBVIOUS
  <2>3. PICK a \in Int, b \in Int : a = c[i].bp /\ b = c[m].bp
    BY <2>2, FrameFields, Zenon
  <2>4. PICK x \in Nat, y \in Nat, z \in Nat :
          x = NLocal[c[i].fb] /\ y = NLocal[c[m].fb] /\ z = NArgs[c[m].fb]
    BY <2>1, Sizes, Zenon DEF IsActivation
  <2>5. a + x <= b - z
    BY <2>1, <2>3, <2>4 DEF Above
  <2>6. b + y <= h
    BY <2>3, <2>4
  <2>7. a + x <= h
    BY <2>5, <2>6
  <2>8. QED
    BY <2>3, <2>4, <2>7
<1>3. QED
  BY <1>1, <1>2

\* What end_function() ends until the function of the handler is reached.
LEMMA CatchLands ==
  ASSUME NEW rank, Stepping(rank), NEW u \in Native, Catch(u), mode' = "run",
         UnwindOf(rank, acts, u, fs, ods), NEW c \in Seq(Frame),
         c = Frames(fs, u.saved), NEW i \in 2 .. Len(c),
         Marker \in c[i].pc.in, u.h = c[i].fb
  PROVE  \E d \in Seq(Frame) : Lands(d, c, i, u.saved, reg', fs')
<1>1. /\ fs \in Seq(Frame) /\ ods \in Seq(Entry) /\ acts \in Nat /\ reg' \in Reg
      /\ WellBehaved(rank) /\ fs' \in Seq(Frame) /\ u.saved \in Reg
  BY Typed DEF Stepping, IInv, TypeOK, Native
<1>2. PICK z \in Seq(Frame), m \in Nat : FramesOf(z, m, fs, u.saved)
  BY <1>1, FramesAre, Zenon
<1>3. /\ m = Len(fs) /\ Len(c) = m + 1 /\ \A j \in 1 .. m : c[j] = fs[j]
      /\ c[m + 1].fb = u.saved.fb /\ c[m + 1].pc = u.saved.pc
  BY <1>2 DEF FramesOf
<1>4. Nested(rank, acts, c)
  BY DEF UnwindOf
<1>5. IsActivation(acts, c[i]) /\ i \in 1 .. Len(c) /\ c[i].fb \in Fun
  BY <1>3, <1>4 DEF Nested, IsActivation
<1>6. Handles[c[i].fb] # {}
  BY <1>1, <1>5, ScopeInFrame, Zenon
<1>7. \A j \in 2 .. Len(c) : c[j].fb = u.h => j = i
  BY <1>1, <1>4, <1>6, HandlerOnce, Zenon
<1>8. CASE u.saved.fb = u.h
  <2>1. m + 1 \in 2 .. Len(c)
    BY <1>3, <1>4 DEF Nested
  <2>2. i = Len(c) /\ i > 1
    BY <1>3, <1>7, <1>8, <2>1
  <2>3. /\ reg' = [u.saved EXCEPT !.pc = CatchIp(u.saved.fb, u.saved.pc.act)]
        /\ fs' = fs
    BY <1>8 DEF Catch
  <2>4. \E d \in Seq(Frame) : Lands(d, c, i, u.saved, reg', fs)
    BY <1>1, <1>5, <2>2, <2>3, CatchHere, Zenon
  <2>5. QED
    BY <2>3, <2>4
<1>9. CASE u.saved.fb # u.h
  <2> DEFINE above == {j \in DOMAIN fs : fs[j].fb = u.h
                              /\ \A k \in j + 1 .. Len(fs) : fs[k].fb # Start}
             b == Max(above)
  <2>1. /\ above # {} /\ fs' = SubSeq(fs, 1, b - 1)
        /\ reg' = [u.saved EXCEPT !.fb = u.h, !.bp = fs[b].bp,
                                  !.pc = CatchIp(u.h, fs[b].pc.act)]
    BY <1>9, Zenon DEF Catch
  <2>2. above \in SUBSET (0 .. m) /\ \A j \in above : j \in 1 .. m /\ fs[j].fb = u.h
    BY <1>1, <1>3, LenProperties, SMTT(40)
  <2> HIDE DEF above
  <2>3. b \in above
    BY <2>1, <2>2, MaxElement
  <2> HIDE DEF b
  <2>4. b \in 1 .. m /\ fs[b].fb = u.h /\ c[b] = fs[b]
    BY <1>3, <2>2, <2>3
  <2>5. b # 1
    <3>1. c[1].fb = Start
      BY <1>4 DEF Nested
    <3>2. u.h # Start
      BY <1>5, FunAssumption
    <3>3. QED
      BY <2>4, <3>1, <3>2
  <2>6. b \in 2 .. Len(c) /\ b \in 2 .. Len(fs)
    BY <1>3, <2>4, <2>5
  <2>7. b = i
    BY <1>7, <2>4, <2>6
  <2>8. /\ fs' = SubSeq(fs, 1, i - 1) /\ i \in 2 .. Len(fs)
        /\ reg' = [u.saved EXCEPT !.fb = fs[i].fb, !.bp = fs[i].bp,
                                  !.pc = CatchIp(fs[i].fb, fs[i].pc.act)]
    BY <2>1, <2>4, <2>6, <2>7, Zenon
  <2>9. QED
    BY <1>1, <1>5, <2>8, CatchBelow, Zenon
<1>10. QED
  BY <1>8, <1>9

\* The catch block runs.
LEMMA CatchSound ==
  ASSUME NEW rank, Stepping(rank), NEW after \in {"catch", "resume"},
         UnwindEnds(after), Catch(Last(nat)), mode' = "run",
         Len(nat') = 1, Outermost(nat'[1]), resume' = Resume0,
         UNCHANGED <<ods, xargs, acts>>
  PROVE  Sound(rank)' /\ reg'.pc.act = Last(nat).act
<1>1. /\ Last(nat) = nat[2] /\ nat[2] \in Native
      /\ nat[2].saved \in Reg
      /\ UnwindOf(rank, acts, nat[2], fs, ods)
      /\ resume = Resume0 /\ "outside" \notin xargs
  BY InUnwinding DEF UnwindEnds
<1>2. /\ fs \in Seq(Frame) /\ ods \in Seq(Entry) /\ acts \in Nat /\ reg' \in Reg
      /\ WellBehaved(rank) /\ fs' \in Seq(Frame)
  BY Typed DEF Stepping, IInv, TypeOK
<1>3. PICK u \in Native : u = nat[2] /\ u.saved \in Reg /\ u.p \in Int
  BY <1>1 DEF Native
<1>4. u.after = after /\ UnwindStops(u) /\ Catch(u)
  BY <1>1, <1>3 DEF UnwindEnds
<1>5. PICK c \in Seq(Frame), m \in Nat : FramesOf(c, m, fs, u.saved)
  BY <1>2, <1>3, FramesAre, Zenon
<1>6. /\ c = Frames(fs, u.saved) /\ Len(c) = m + 1
      /\ c[m + 1].fb = u.saved.fb /\ c[m + 1].bp = u.saved.bp
  BY <1>5 DEF FramesOf
<1>7. /\ Nested(rank, acts, c) /\ Owned(c, ods) /\ Target(c, ods, u)
      /\ u.saved.bp + NLocal[u.saved.fb] <= u.saved.sp
      /\ UnwindOf(rank, acts, u, fs, ods)
  BY <1>1, <1>3, <1>6 DEF UnwindOf
<1>8. PICK i \in 2 .. Len(c) :
        /\ Marker \in c[i].pc.in /\ u.p = c[i].bp + Marker
        /\ u.h = c[i].fb /\ u.act = c[i].pc.act /\ u.p >= Base
  BY <1>4, <1>7 DEF Target
<1>9. u.p # NullObj
  BY <1>8 DEF Base, NullObj
<1>10. KeptBelow(c, ods, u.p) /\ \A k \in 1 .. Len(ods) : ods[k].obj < u.p
  BY <1>2, <1>4, <1>7, <1>9, UnwoundToTarget DEF UnwindStops
<1>11. PICK d \in Seq(Frame) : Lands(d, c, i, u.saved, reg', fs')
  BY <1>4, <1>6, <1>7, <1>8, CatchLands
<1>12. CutsScopes(c, ods, u.p, i, Marker, d)
  BY <1>8, <1>10, <1>11 DEF CutsScopes, Lands
<1>13. Nested(rank, acts, d) /\ Owned(d, ods) /\ Kept(d, ods)
  BY <1>2, <1>3, <1>7, <1>12, CutScopes
<1>14. /\ d = Frames(fs', reg') /\ reg'.fb = c[i].fb /\ reg'.bp = c[i].bp
       /\ reg'.sp = u.saved.sp /\ reg'.pc.act = c[i].pc.act
  BY <1>11 DEF Lands
<1>15. c[i].bp + NLocal[c[i].fb] <= u.saved.sp
  <2>1. PICK k \in 2 .. Len(c) : k = Len(c) /\ k = m + 1
    BY <1>6, <1>7 DEF Nested
  <2>2. PICK h \in Int : h = u.saved.sp
    BY <1>3, RegFields
  <2>3. k = Len(c) /\ c[k].bp + NLocal[c[k].fb] <= h
    BY <1>6, <1>7, <2>1, <2>2
  <2>4. acts \in Nat /\ Nested(rank, acts, c)
    BY <1>2, <1>7
  <2>5. c[i].bp + NLocal[c[i].fb] <= h
    BY <2>3, <2>4, RoomBelow
  <2>6. QED
    BY <2>2, <2>5
<1>16. InFunction(rank)'
  BY <1>13, <1>14, <1>15 DEF InFunction
<1>17. QED
  BY <1>1, <1>3, <1>8, <1>14, <1>16 DEF Sound

\* THROW_EX goes on in the catch block.
LEMMA CaughtSound ==
  ASSUME NEW rank, Stepping(rank), Caught, mode' = "run"
  PROVE  Sound(rank)' /\ reg'.pc.act = Last(nat).act
<1>1. /\ Outermost(nat[1]) /\ Len(Front(nat)) = 1 /\ Front(nat)[1] = nat[1]
      /\ resume = Resume0
  BY InUnwinding DEF Caught, UnwindEnds
<1>2. /\ UnwindEnds("catch") /\ Catch(Last(nat)) /\ nat' = Front(nat)
      /\ UNCHANGED <<ods, xargs, acts, resume>>
  BY DEF Caught, dataVars
<1>3. QED
  BY <1>1, <1>2, CatchSound

\* execute() resumes itself in the catch block.
LEMMA CaughtNativeSound ==
  ASSUME NEW rank, Stepping(rank), CaughtNative, mode' = "run"
  PROVE  Sound(rank)' /\ reg'.pc.act = Last(nat).act
<1>1. /\ nat \in Seq(Native) /\ nat # <<>> /\ Outermost(nat[1])
      /\ Len(Front(nat)) = 1 /\ Front(nat)[1] = nat[1]
      /\ resume = Resume0
  BY InUnwinding DEF CaughtNative, UnwindEnds
<1>2. PICK n \in Seq(Native) : n = Front(nat) /\ Len(n) = 1 /\ n[1] = nat[1]
  BY <1>1, FrontFacts
<1>3. PICK flags \in Flags : flags = IF xargs = NoArgs THEN {} ELSE xargs
  <2>1. xargs \in Flags \union {NoArgs}
    BY DEF Stepping, IInv, TypeOK
  <2>2. {} \in Flags
    BY DEF Flags
  <2>3. QED
    BY <2>1, <2>2
<1>4. /\ UnwindEnds("resume") /\ Catch(Last(nat))
      /\ nat' = [n EXCEPT ![Len(n)].flags = flags]
      /\ UNCHANGED <<ods, xargs, acts>> /\ resume' = Resume0
  BY <1>2, <1>3 DEF CaughtNative, dataVars
<1>5. PICK e \in Native :
        /\ nat' = [n EXCEPT ![1] = e] /\ e.k = nat[1].k /\ e.own = nat[1].own
        /\ e.saved = nat[1].saved /\ e.flags = flags
  <2>1. PICK z \in Native : z = nat[1]
    BY <1>1, <1>2, ElementOfSeq
  <2> DEFINE e == [z EXCEPT !.flags = flags]
  <2>2. e \in Native
    BY Zenon DEF Native
  <2>3. e.k = z.k /\ e.own = z.own /\ e.saved = z.saved /\ e.flags = flags
    BY DEF Native
  <2>4. nat' = [n EXCEPT ![1] = e]
    BY <1>2, <1>4, <2>1, Zenon
  <2> HIDE DEF e
  <2>5. QED
    BY <2>1, <2>2, <2>3, <2>4, Zenon
<1>6. Len(nat') = 1 /\ nat'[1] = e
  <2>1. 1 \in 1 .. Len(n)
    BY <1>2
  <2>2. /\ Len([n EXCEPT ![1] = e]) = Len(n)
        /\ \A j \in 1 .. Len(n) : [n EXCEPT ![1] = e][j] = IF j = 1 THEN e ELSE n[j]
    BY <2>1, ExceptSeq
  <2>3. QED
    BY <1>2, <1>5, <2>1, <2>2
<1>7. nat'[1].flags = nat'[1].own
  <2>1. nat' \in Seq(Native)
    BY DEF Stepping, IInv, TypeOK
  <2>2. 1 \in DOMAIN nat'
    BY <1>6, <2>1, LenProperties
  <2>3. nat'[1].k = "exec"
    BY <1>1, <1>5, <1>6 DEF Outermost
  <2>4. QED
    BY <2>2, <2>3 DEF Stepping, FlagsKept
<1>8. Outermost(nat'[1])
  BY <1>1, <1>5, <1>6, <1>7 DEF Outermost
<1>9. QED
  BY <1>4, <1>6, <1>8, CatchSound

\* No handler was found: a native Exception is thrown.
LEMMA UncaughtSound ==
  ASSUME NEW rank, Stepping(rank), Uncaught
  PROVE  Sound(rank)'
<1>1. /\ Last(nat) = nat[2] /\ nat[2] \in Native /\ Outermost(nat[1])
      /\ UnwindOf(rank, acts, nat[2], fs, ods)
      /\ Len(Front(nat)) = 1 /\ Front(nat)[1] = nat[1]
      /\ resume = Resume0 /\ "outside" \notin xargs
  BY InUnwinding DEF Uncaught, UnwindEnds
<1>2. /\ reg' = nat[2].saved /\ mode' = "raise" /\ nat' = Front(nat)
      /\ UNCHANGED <<ods, fs, resume, xargs, acts>>
      /\ nat[2].after = "uncaught" /\ UnwindStops(nat[2])
  BY <1>1 DEF Uncaught, UnwindEnds, dataVars
<1>3. nat[2].p = NullObj
  BY <1>1, <1>2 DEF UnwindOf, Target
<1>4. ods = <<>>
  BY <1>2, <1>3 DEF UnwindStops
<1>5. InRaise(rank)'
  BY <1>1, <1>2, <1>4 DEF InRaise, UnwindOf
<1>6. QED
  BY <1>1, <1>2, <1>5 DEF Sound

\* The exception is reported, and execute() returns to the console.
LEMMA CrashSound ==
  ASSUME NEW rank, Stepping(rank), Crash
  PROVE  Sound(rank)'
<1>1. /\ nat \in Seq(Native) /\ nat # <<>>
      /\ Last(nat) = nat[2] /\ nat[2] \in Native
      /\ nat[2].saved \in Reg
      /\ UnwindOf(rank, acts, nat[2], fs, ods)
      /\ Len(Front(nat)) = 1
      /\ resume = Resume0 /\ "outside" \notin xargs
  BY InUnwinding DEF Crash, UnwindEnds
<1>2. fs \in Seq(Frame) /\ ods \in Seq(Entry) /\ acts \in Nat
  BY Typed DEF Stepping
<1>3. nat[2].after = "crash" /\ UnwindStops(nat[2])
  BY <1>1 DEF Crash, UnwindEnds
<1>4. nat[2].p = NullObj
  BY <1>1, <1>3 DEF UnwindOf, Target
<1>5. ods = <<>>
  BY <1>3, <1>4 DEF UnwindStops
<1>6. Front(Front(nat)) = <<>>
  <2>1. PICK n \in Seq(Native) : n = Front(nat) /\ Len(n) = 1
    BY <1>1, FrontFacts
  <2>2. n # <<>>
    BY <2>1, EmptySeq
  <2>3. Front(n) \in Seq(Native) /\ Len(Front(n)) = 0
    BY <2>1, <2>2, FrontFacts
  <2>4. QED
    BY <2>1, <2>3, EmptySeq
<1>7. PICK r \in Reg : r = nat[2].saved
  BY <1>1
<1>8. /\ r.fb \in Fun /\ r.bp >= Base /\ r.bp + NLocal[r.fb] <= r.sp
  BY <1>1, <1>2, <1>7, InnerFrame, Zenon DEF UnwindOf
<1>9. r.sp >= Base
  BY <1>7, <1>8, RegFields, Sizes DEF Base
<1>10. r.fb # Start
  BY <1>8, FunAssumption
<1>11. PICK m : m = ExecMessage(r, fs, ods)
  BY SMTT(40)
<1>12. /\ m.fs = <<>> /\ m.ods = <<>> /\ m.rs = Resume0
       /\ m.reg.sp \in {Base, r.sp}
  BY <1>5, <1>7, <1>10, <1>11, Zenon DEF ExecMessage, Reg
<1>13. ReturnTo(<<>>, m.reg, m.fs, m.ods, m.rs, TRUE) /\ xargs' = xargs
  BY <1>1, <1>6, <1>7, <1>11, Zenon DEF Crash
<1>14. /\ nat' = <<>> /\ mode' = "run" /\ reg' = m.reg /\ fs' = m.fs
       /\ ods' = m.ods /\ resume' = m.rs
  BY <1>13 DEF ReturnTo
<1>15. AtPrompt'
  BY <1>9, <1>12, <1>14 DEF AtPrompt, Base
<1>16. QED
  BY <1>1, <1>12, <1>13, <1>14, <1>15 DEF Sound

-----------------------------------------------------------------------------
(* Every step                                                              *)

\* Without breakpoints and callbacks nothing halts, and nothing calls back.
LEMMA NeverHalts ==
  ASSUME NEW rank, Stepping(rank)
  PROVE  /\ ~Halt /\ ~Resume /\ \A i \in 0 .. Len(fs) : ~SelectFrame(i)
         /\ \A g \in Fun : ~CallNative(g)
<1>1. ~Halt
  BY DEF Halt, Stepping, WellBehaved
<1>2. Idle => ~Paused
  BY NotPaused DEF Stepping, Idle
<1>3. ~Resume /\ \A i \in 0 .. Len(fs) : ~SelectFrame(i)
  BY <1>2 DEF Resume, SelectFrame
<1>4. \A g \in Fun : ~CallNative(g)
  BY DEF CallNative, Running, Stepping, WellBehaved
<1>5. QED
  BY <1>1, <1>3, <1>4

\* A step that changes nothing.
LEMMA StutterSound ==
  ASSUME NEW rank, Stepping(rank), UNCHANGED vars
  PROVE  Sound(rank)'
BY DEF Stepping, vars, Sound, AtPrompt, InFunction, InRaise, AtEnd,
   InUnwind, InDestructor, DestructorDone, InExecute

\* Every step goes from phase to phase.
LEMMA NextSound ==
  ASSUME NEW rank, Stepping(rank), [Next]_vars
  PROVE  Sound(rank)'
<1>1. CASE UNCHANGED vars
  BY <1>1, StutterSound
<1>2. CASE User
  BY <1>2, NeverHalts, ConsoleSound DEF User
<1>3. CASE Interpret
  <2>1. ASSUME NEW f \in Fun, Call(f) \/ CallNative(f)
        PROVE  Sound(rank)'
    BY <2>1, NeverHalts, CallSound
  <2>2. ASSUME NEW slot \in {Outer, Inner}, Construct(slot)
        PROVE  Sound(rank)'
    BY <2>2, ConstructSound
  <2>3. ASSUME NEW slot \in Slot, LeaveScope(slot)
        PROVE  Sound(rank)'
    BY <2>3, LeaveScopeSound
  <2>4. ASSUME NEW t \in Type, Throw(t)
        PROVE  Sound(rank)'
    BY <2>4, ThrowSound
  <2>5. QED
    BY <1>3, <2>1, <2>2, <2>3, <2>4, NeverHalts, CallLeafSound, EnterTrySound,
       ReturnSound, ExecEndSound, RethrowSound, CheckFailsSound, TrapSound
       DEF Interpret
<1>4. CASE HandleRaise
  BY <1>4, HandleRaiseSound
<1>5. CASE Unwinds
  <2>1. ASSUME Caught \/ CaughtNative
        PROVE  Sound(rank)'
    <3>1. Catch(Last(nat))
      BY <2>1 DEF Caught, CaughtNative
    <3>2. mode' \in {"run", "wild"}
      BY <3>1, Zenon DEF Catch
    <3>3. CASE mode' = "run"
      BY <2>1, <3>3, CaughtSound, CaughtNativeSound
    <3>4. CASE mode' = "wild"
      BY <3>4 DEF Sound
    <3>5. QED
      BY <3>2, <3>3, <3>4
  <2>2. QED
    BY <1>5, <2>1, UnwindStepSound, LeftScopeSound, UncaughtSound, CrashSound
       DEF Unwinds
<1>6. QED
  BY <1>1, <1>2, <1>3, <1>4, <1>5 DEF Next

\* The console starts at the prompt.
LEMMA InitSound ==
  ASSUME NEW rank, Init
  PROVE  Sound(rank)
<1>1. AtPrompt
  BY DEF Init, AtPrompt, Reg0, Base
<1>2. resume = Resume0 /\ "outside" \notin xargs
  BY DEF Init, NoArgs
<1>3. QED
  BY <1>1, <1>2 DEF Sound

\* What the phases of a statement say holds in every state of every program
\* that behaves well, as long as neither stack overflows.
THEOREM StatementsHavePhases ==
  ASSUME NEW rank, WellBehaved(rank)
  PROVE  Spec /\ []Roomy /\ []FlagsKept => []Sound(rank)
<1>1. Init => Sound(rank)
  BY InitSound
<1>2. /\ IInv /\ IInv' /\ Sound(rank) /\ Roomy /\ Roomy' /\ FlagsKept'
      /\ [Next]_vars
      => Sound(rank)'
  BY NextSound DEF Stepping
<1>3. QED
  BY <1>1, <1>2, Invariance, PTL DEF Spec

-----------------------------------------------------------------------------
(* What the phases imply                                                   *)

\* The live activations are those of the functions that run.
LEMMA LiveFrames ==
  ASSUME NEW rank, IInv, ~Paused, nat # <<>>, NEW c, c = Frames(fs, reg),
         Nested(rank, acts, c)
  PROVE  /\ c \in Seq(Frame) /\ Len(c) \in Nat /\ Nested(rank, acts, c)
         /\ \A a \in Live : \E i \in 2 .. Len(c) : a.fb = c[i].fb /\ a.pc = c[i].pc
         /\ \A i \in 2 .. Len(c) : \E a \in Live : a.fb = c[i].fb /\ a.pc = c[i].pc
<1>1. fs \in Seq(Frame) /\ reg \in Reg /\ acts \in Nat
  BY Typed
<1>2. PICK z \in Seq(Frame), m \in Nat : FramesOf(z, m, fs, reg)
  BY <1>1, FramesAre
<1>3. /\ c \in Seq(Frame) /\ m = Len(fs) /\ Len(c) = m + 1
      /\ \A i \in 1 .. m : c[i] = fs[i]
      /\ c[m + 1].fb = reg.fb /\ c[m + 1].pc = reg.pc
  BY <1>2 DEF FramesOf
<1>4. Nested(rank, acts, c)
  OBVIOUS
<1>5. nat # <<>>
  OBVIOUS
<1>6. DOMAIN fs = 1 .. m
  BY <1>1, <1>3, LenProperties
<1>7. Activations = {[fb |-> fs[i].fb, pc |-> fs[i].pc] : i \in 1 .. m}
                    \union {[fb |-> reg.fb, pc |-> reg.pc]}
  BY <1>5, <1>6 DEF Activations
<1>8. ASSUME NEW a \in Live
      PROVE  \E i \in 2 .. Len(c) : a.fb = c[i].fb /\ a.pc = c[i].pc
  <2>1. a.fb \in Fun /\ a \in Activations
    BY DEF Live
  <2>2. CASE a = [fb |-> reg.fb, pc |-> reg.pc]
    <3>1. m + 1 \in 2 .. Len(c)
      BY <1>3, <1>4 DEF Nested
    <3>2. a.fb = c[m + 1].fb /\ a.pc = c[m + 1].pc
      BY <1>3, <2>2
    <3>3. QED
      BY <3>1, <3>2
  <2>3. CASE \E i \in 1 .. m : a = [fb |-> fs[i].fb, pc |-> fs[i].pc]
    <3>1. PICK i \in 1 .. m : a = [fb |-> fs[i].fb, pc |-> fs[i].pc]
      BY <2>3
    <3>2. a.fb = c[i].fb /\ a.pc = c[i].pc
      BY <1>3, <3>1
    <3>3. i # 1
      BY <1>4, <2>1, <3>2, FunAssumption DEF Nested
    <3>4. i \in 2 .. Len(c)
      BY <1>3, <3>3
    <3>5. QED
      BY <3>2, <3>4
  <2>4. QED
    BY <1>7, <2>1, <2>2, <2>3
<1>9. ASSUME NEW i \in 2 .. Len(c)
      PROVE  \E a \in Live : a.fb = c[i].fb /\ a.pc = c[i].pc
  <2> DEFINE a == [fb |-> c[i].fb, pc |-> c[i].pc]
  <2>1. a \in Activations
    <3>1. CASE i = m + 1
      BY <1>3, <1>7, <3>1
    <3>2. CASE i # m + 1
      <4>1. i \in 1 .. m
        BY <1>3, <3>2
      <4>2. QED
        BY <1>3, <1>7, <4>1
    <3>3. QED
      BY <3>1, <3>2
  <2>2. c[i].fb \in Fun /\ c[i].pc.act > 0
    BY <1>1, <1>4, SMTT(40) DEF Nested, IsActivation
  <2>3. a \in Live
    BY <2>1, <2>2 DEF Live
  <2>4. QED
    BY <2>3
<1>10. QED
  BY <1>3, <1>4, <1>8, <1>9

\* Activations are different.
LEMMA OneActivation ==
  ASSUME NEW rank, NEW n \in Nat, NEW c \in Seq(Frame), Nested(rank, n, c),
         NEW i \in 2 .. Len(c), NEW j \in 2 .. Len(c),
         c[i].pc.act <= c[j].pc.act
  PROVE  i <= j
<1>1. Len(c) \in Nat
  BY LenProperties
<1>2. c[i].pc.act \in Int /\ c[j].pc.act \in Int
  BY DEF Nested, IsActivation
<1>3. j < i => c[j].pc.act < c[i].pc.act
  BY DEF Nested, Above
<1>4. QED
  BY <1>1, <1>2, <1>3

\* The entry of an open scope.
LEMMA ScopeHasEntry ==
  ASSUME NEW rank, WellBehaved(rank), NEW n \in Nat, NEW c \in Seq(Frame),
         Nested(rank, n, c), NEW o \in Seq(Entry), Owned(c, o), Kept(c, o),
         NEW i \in 2 .. Len(c), NEW s \in c[i].pc.in
  PROVE  \E k \in 1 .. Len(o) : BelongsTo(o[k], c[i]) /\ o[k].slot = s
<1>1. PICK k \in 1 .. Len(o) : o[k].obj = c[i].bp + s
  BY DEF Kept
<1>2. PICK j \in 2 .. Len(c) : BelongsTo(o[k], c[j])
  BY DEF Owned
<1>3. PICK t \in c[j].pc.in : o[k].slot = t /\ o[k].obj = c[j].bp + t
  BY <1>2 DEF BelongsTo
<1>4. c[i].bp + s = c[j].bp + t
  BY <1>1, <1>3
<1>5. i \in 1 .. Len(c) /\ j \in 1 .. Len(c) /\ Len(c) \in Nat
  BY LenProperties
<1>6. IsActivation(n, c[i]) /\ IsActivation(n, c[j])
  BY DEF Nested
<1>7. PICK a \in Int, b \in Int : a = c[i].bp /\ b = c[j].bp
  BY <1>5, FrameFields, Zenon
<1>8. s \in 0 .. 2 /\ t \in 0 .. 2
  BY <1>5, <1>6, ScopeInFrame
<1>9. c[i].bp + s <= c[j].bp + t /\ c[j].bp + t <= c[i].bp + s
  BY <1>4, <1>7, <1>8
<1>10. i <= j /\ j <= i /\ (i = j => s <= t) /\ (j = i => t <= s)
  BY <1>9, OnePlace
<1>11. i = j /\ s = t
  BY <1>8, <1>10
<1>12. QED
  BY <1>2, <1>3, <1>11

\* The ODS is what the open scopes of the live activations need.
LEMMA SoundScopes ==
  ASSUME NEW rank, WellBehaved(rank), IInv, Sound(rank)
  PROVE  OdsMatchesScopes
<1>1. SUFFICES ASSUME mode = "run", \A i \in DOMAIN nat : nat[i].k = "exec"
               PROVE
      /\ \A a \in Live :
           {ods[i].slot : i \in {j \in DOMAIN ods : ods[j].act = a.pc.act}}
             = a.pc.in
      /\ \A i \in DOMAIN ods : \E a \in Live : a.pc.act = ods[i].act
      /\ \A i, j \in DOMAIN ods : i < j => ods[i].obj < ods[j].obj
  BY DEF OdsMatchesScopes
<1>2. ~Paused
  BY <1>1, NotPaused
<1>3. nat \in Seq(Native) /\ ods \in Seq(Entry) /\ DOMAIN nat = 1 .. Len(nat)
      /\ DOMAIN ods = 1 .. Len(ods) /\ Len(ods) \in Nat
  BY Typed, LenProperties
<1>4. AtPrompt \/ InFunction(rank) \/ AtEnd
  <2>1. ~InRaise(rank)
    BY <1>1 DEF InRaise
  <2>2. ~InUnwind(rank) /\ ~InDestructor(rank) /\ ~DestructorDone(rank)
    BY <1>1, <1>3 DEF InUnwind, InDestructor, DestructorDone, UnwindOf, InExecute
  <2>3. QED
    BY <1>1, <2>1, <2>2 DEF Sound
<1>5. CASE AtPrompt \/ AtEnd
  <2>1. fs = <<>> /\ ods = <<>> /\ (nat = <<>> \/ reg.fb = Start)
    BY <1>5 DEF AtPrompt, AtEnd
  <2>2. DOMAIN fs = {} /\ DOMAIN ods = {}
    BY <2>1
  <2>3. Live = {}
    BY <1>2, <2>1, <2>2, FunAssumption DEF Live, Activations
  <2>4. QED
    BY <2>2, <2>3
<1>6. CASE InFunction(rank)
  <2>1. PICK c : c = Frames(fs, reg)
    OBVIOUS
  <2>2. /\ c \in Seq(Frame) /\ Len(c) \in Nat /\ Nested(rank, acts, c)
        /\ \A a \in Live : \E i \in 2 .. Len(c) : a.fb = c[i].fb /\ a.pc = c[i].pc
        /\ \A i \in 2 .. Len(c) : \E a \in Live : a.fb = c[i].fb /\ a.pc = c[i].pc
    <3>1. nat # <<>> /\ Nested(rank, acts, c)
      BY <1>6, <2>1, LastNative DEF InFunction
    <3>2. QED
      BY <1>2, <2>1, <3>1, LiveFrames
  <2>3. Owned(c, ods) /\ Kept(c, ods) /\ acts \in Nat
    BY <1>6, <2>1, Typed DEF InFunction
  <2>4. ASSUME NEW a \in Live
        PROVE  {ods[i].slot : i \in {j \in DOMAIN ods : ods[j].act = a.pc.act}}
                 = a.pc.in
    <3>1. PICK i \in 2 .. Len(c) : a.pc = c[i].pc
      BY <2>2
    <3>2. ASSUME NEW k \in 1 .. Len(ods), ods[k].act = a.pc.act
          PROVE  ods[k].slot \in a.pc.in
      <4>1. PICK j \in 2 .. Len(c) : BelongsTo(ods[k], c[j])
        BY <2>3 DEF Owned
      <4>2. c[j].pc.act = c[i].pc.act /\ ods[k].slot \in c[j].pc.in
        BY <3>1, <3>2, <4>1 DEF BelongsTo
      <4>3. c[j].pc.act \in Int
        BY <2>2, SMTT(40) DEF Nested, IsActivation
      <4>4. c[j].pc.act <= c[i].pc.act /\ c[i].pc.act <= c[j].pc.act
        BY <4>2, <4>3
      <4>5. j <= i /\ i <= j
        BY <2>2, <2>3, <4>4, OneActivation, Zenon
      <4>6. i = j
        BY <4>5
      <4>7. QED
        BY <3>1, <4>2, <4>6
    <3>3. ASSUME NEW s \in a.pc.in
          PROVE  \E k \in 1 .. Len(ods) : ods[k].act = a.pc.act /\ ods[k].slot = s
      <4>1. s \in c[i].pc.in
        BY <3>1
      <4>2. PICK k \in 1 .. Len(ods) : BelongsTo(ods[k], c[i]) /\ ods[k].slot = s
        BY <1>3, <2>2, <2>3, <4>1, ScopeHasEntry, Zenon
      <4>3. ods[k].act = a.pc.act
        BY <3>1, <4>2 DEF BelongsTo
      <4>4. QED
        BY <4>2, <4>3
    <3>4. QED
      BY <1>3, <3>2, <3>3, SMTT(40)
  <2>5. ASSUME NEW k \in 1 .. Len(ods)
        PROVE  \E a \in Live : a.pc.act = ods[k].act
    <3>1. PICK j \in 2 .. Len(c) : BelongsTo(ods[k], c[j])
      BY <2>3 DEF Owned
    <3>2. PICK a \in Live : a.pc = c[j].pc
      BY <2>2
    <3>3. QED
      BY <3>1, <3>2 DEF BelongsTo
  <2>6. QED
    BY <1>3, <2>3, <2>4, <2>5, Zenon DEF Owned
<1>7. QED
  BY <1>4, <1>5, <1>6

\* Nothing is left at the prompt.
LEMMA SoundPrompt ==
  ASSUME NEW rank, IInv, Sound(rank)
  PROVE  CleanPrompt
BY IdlePhase DEF CleanPrompt, AtPrompt

\* Frames that are nested are in order.
LEMMA FramesInOrder ==
  ASSUME NEW rank, NEW n \in Nat, NEW c \in Seq(Frame), Nested(rank, n, c),
         NEW i \in 2 .. Len(c), NEW j \in 2 .. Len(c), i < j
  PROVE  c[i].bp <= c[j].bp
<1>1. Len(c) \in Nat
  BY LenProperties
<1>2. IsActivation(n, c[i]) /\ IsActivation(n, c[j]) /\ Above(rank, c[i], c[j])
  BY DEF Nested
<1>3. PICK a \in Int, b \in Int : a = c[i].bp /\ b = c[j].bp
  BY <1>1, FrameFields
<1>4. PICK x \in Nat, z \in Nat : x = NLocal[c[i].fb] /\ z = NArgs[c[j].fb]
  BY <1>2, Sizes, Zenon DEF IsActivation
<1>5. a + x <= b - z
  BY <1>2, <1>3, <1>4 DEF Above
<1>6. a <= b
  BY <1>5
<1>7. QED
  BY <1>3, <1>6

\* The frames of functions are in order, and below the one that runs.
InOrder(frames, r) ==
  /\ \A i, j \in 1 .. Len(frames) :
       i < j /\ frames[i].fb # Start /\ frames[j].fb # Start
         => frames[i].bp <= frames[j].bp
  /\ \A i \in 1 .. Len(frames) : frames[i].fb # Start => frames[i].bp <= r.bp

\* The callers of what runs are in order.
LEMMA CallersInOrder ==
  ASSUME NEW rank, NEW n \in Nat, NEW frames \in Seq(Frame), NEW r \in Reg,
         Nested(rank, n, Frames(frames, r))
  PROVE  InOrder(frames, r)
<1>1. PICK c \in Seq(Frame), m \in Nat : FramesOf(c, m, frames, r)
  BY FramesAre
<1>2. /\ c = Frames(frames, r) /\ m = Len(frames) /\ Len(c) = m + 1
      /\ \A i \in 1 .. m : c[i] = frames[i]
      /\ c[m + 1].bp = r.bp
  BY <1>1 DEF FramesOf
<1>3. Nested(rank, n, c)
  BY <1>2
<1>4. ASSUME NEW i \in 1 .. m, frames[i].fb # Start
      PROVE  i \in 2 .. Len(c) /\ c[i] = frames[i]
  <2>1. c[i] = frames[i]
    BY <1>2
  <2>2. i # 1
    BY <1>3, <1>4, <2>1 DEF Nested
  <2>3. QED
    BY <1>2, <2>1, <2>2
<1>5. m + 1 \in 2 .. Len(c)
  BY <1>2, <1>3 DEF Nested
<1>6. ASSUME NEW i \in 1 .. m, NEW j \in 1 .. m, i < j,
             frames[i].fb # Start, frames[j].fb # Start
      PROVE  frames[i].bp <= frames[j].bp
  <2>1. /\ i \in 2 .. Len(c) /\ c[i] = frames[i]
        /\ j \in 2 .. Len(c) /\ c[j] = frames[j]
    BY <1>4, <1>6
  <2>2. c[i].bp <= c[j].bp
    BY <1>3, <1>6, <2>1, FramesInOrder
  <2>3. QED
    BY <2>1, <2>2
<1>7. ASSUME NEW i \in 1 .. m, frames[i].fb # Start
      PROVE  frames[i].bp <= r.bp
  <2>1. i \in 2 .. Len(c) /\ c[i] = frames[i] /\ i < m + 1
    BY <1>4, <1>7
  <2>2. c[i].bp <= c[m + 1].bp
    BY <1>3, <1>5, <2>1, FramesInOrder
  <2>3. QED
    BY <1>2, <2>1, <2>2
<1>8. QED
  BY <1>2, <1>6, <1>7 DEF InOrder

\* So they are in a destructor, above a false bottom.
LEMMA DestructorInOrder ==
  ASSUME NEW rank, IInv, InDestructor(rank), mode = "run", nat # <<>>
  PROVE  InOrder(fs, reg)
<1>1. /\ fs \in Seq(Frame) /\ reg \in Reg /\ acts \in Nat
      /\ Len(nat) \in Nat /\ fs # <<>> /\ Len(nat) = 3 /\ nat[2] \in Native
      /\ Len(fs) \in Nat
  BY Typed, LastNative, LenProperties DEF InDestructor, InExecute
<1>2. PICK r \in Reg : r = nat[2].saved
  BY <1>1 DEF Native
<1>3. PICK g \in Seq(Frame) :
        /\ g = Front(fs) /\ Len(g) = Len(fs) - 1
        /\ \A i \in 1 .. Len(fs) - 1 : g[i] = fs[i]
  <2>1. /\ Front(fs) \in Seq(Frame) /\ Len(Front(fs)) = Len(fs) - 1
        /\ \A i \in 1 .. Len(fs) - 1 : Front(fs)[i] = fs[i]
    BY <1>1, FrontFacts
  <2>2. QED
    BY <2>1
<1>4. /\ Nested(rank, acts, Frames(g, r)) /\ r.bp + NLocal[r.fb] <= r.sp
      /\ reg.bp >= r.sp
      /\ Last(fs).fb = Start
  BY <1>2, <1>3 DEF InDestructor, UnwindOf
<1>5. InOrder(g, r)
  BY <1>1, <1>4, CallersInOrder
<1>6. r.fb \in Fun
  BY <1>1, <1>4, InnerFrame, Zenon
<1>7. r.bp <= reg.bp
  <2>1. PICK a \in Int, b \in Int, h \in Int, l \in Nat :
          a = r.bp /\ b = reg.bp /\ h = r.sp /\ l = NLocal[r.fb]
    BY <1>1, <1>6, RegFields, Sizes, Zenon
  <2>2. a + l <= h /\ b >= h
    BY <1>4, <2>1
  <2>3. a <= b
    BY <2>2
  <2>4. QED
    BY <2>1, <2>3
<1>8. Last(fs) = fs[Len(fs)]
  BY <1>1, LastFacts
<1>9. ASSUME NEW i \in 1 .. Len(fs), fs[i].fb # Start
      PROVE  i \in 1 .. Len(g) /\ g[i] = fs[i]
  <2>1. i # Len(fs)
    BY <1>4, <1>8, <1>9
  <2>2. i \in 1 .. Len(fs) - 1
    BY <1>1, <2>1
  <2>3. QED
    BY <1>3, <2>2
<1>10. ASSUME NEW i \in 1 .. Len(fs), NEW j \in 1 .. Len(fs), i < j,
              fs[i].fb # Start, fs[j].fb # Start
       PROVE  fs[i].bp <= fs[j].bp
  <2>1. i \in 1 .. Len(g) /\ g[i] = fs[i] /\ j \in 1 .. Len(g) /\ g[j] = fs[j]
    BY <1>9, <1>10
  <2>2. g[i].bp <= g[j].bp
    BY <1>5, <1>10, <2>1 DEF InOrder
  <2>3. QED
    BY <2>1, <2>2
<1>11. ASSUME NEW i \in 1 .. Len(fs), fs[i].fb # Start
       PROVE  fs[i].bp <= reg.bp
  <2>1. i \in 1 .. Len(g) /\ g[i] = fs[i]
    BY <1>9, <1>11
  <2>2. g[i].bp <= r.bp
    BY <1>5, <1>11, <2>1 DEF InOrder
  <2>3. g[i].bp \in Int /\ r.bp \in Int /\ reg.bp \in Int
    BY <1>1, <2>1, FrameFields, RegFields
  <2>4. QED
    BY <1>7, <2>1, <2>2, <2>3
<1>12. QED
  BY <1>10, <1>11 DEF InOrder

\* Frames nest in every phase.
LEMMA SoundFrames ==
  ASSUME NEW rank, IInv, Sound(rank)
  PROVE  FramesNest
<1>1. SUFFICES ASSUME mode = "run", nat # <<>>
               PROVE  /\ \A i, j \in DOMAIN fs :
                           i < j /\ fs[i].fb # Start /\ fs[j].fb # Start
                             => fs[i].bp <= fs[j].bp
                      /\ \A i \in DOMAIN fs :
                           fs[i].fb # Start
                             => fs[i].bp <= reg.bp \/ Last(nat).k = "unwind"
                      /\ Running => reg.bp + NLocal[reg.fb] <= reg.sp
  BY DEF FramesNest
<1>2. /\ fs \in Seq(Frame) /\ reg \in Reg /\ acts \in Nat /\ DOMAIN fs = 1 .. Len(fs)
  BY Typed, LenProperties
<1>3. Running => reg.bp + NLocal[reg.fb] <= reg.sp
  BY RunningPhase DEF InFunction, InDestructor
<1>4. CASE InOrder(fs, reg)
  BY <1>2, <1>3, <1>4 DEF InOrder
<1>5. CASE InUnwind(rank)
  <2>1. nat[2] \in Native /\ Last(nat) = nat[2] /\ nat[2].k = "unwind"
        /\ UnwindOf(rank, acts, nat[2], fs, ods)
    BY <1>5, LastNative DEF InUnwind, UnwindOf
  <2>2. PICK r \in Reg : r = nat[2].saved
    BY <2>1 DEF Native
  <2>3. InOrder(fs, r)
    BY <1>2, <2>1, <2>2, CallersInOrder DEF UnwindOf
  <2>4. QED
    BY <1>2, <1>3, <2>1, <2>3 DEF InOrder
<1>6. CASE AtEnd
  BY <1>3, <1>6 DEF AtEnd
<1>7. CASE InFunction(rank)
  <2>1. InOrder(fs, reg)
    BY <1>2, <1>7, CallersInOrder DEF InFunction
  <2>2. QED
    BY <1>4, <2>1
<1>8. CASE InDestructor(rank)
  BY <1>1, <1>4, <1>8, DestructorInOrder
<1>9. CASE DestructorDone(rank)
  <2>1. Len(nat) = 3 /\ UnwindOf(rank, acts, nat[2], fs, ods)
        /\ reg.bp = nat[2].saved.bp
    BY <1>9 DEF DestructorDone, InExecute
  <2>2. nat[2] \in Native
    BY <2>1, LastNative
  <2>3. PICK r \in Reg : r = nat[2].saved
    BY <2>2 DEF Native
  <2>4. InOrder(fs, r)
    BY <1>2, <2>1, <2>3, CallersInOrder DEF UnwindOf
  <2>5. InOrder(fs, reg)
    BY <2>1, <2>3, <2>4 DEF InOrder
  <2>6. QED
    BY <1>4, <2>5
<1>10. QED
  BY <1>1, <1>5, <1>6, <1>7, <1>8, <1>9 DEF Sound, AtPrompt, InRaise

\* Max of a nonempty set of naturals with a bound is its greatest element.
LEMMA MaxIsMax ==
  ASSUME NEW n \in Nat, NEW S \in SUBSET (0 .. n), S # {}
  PROVE  \A i \in S : Max(S) >= i
<1> DEFINE T == {n - i : i \in S}
<1>1. T \in SUBSET Nat
  OBVIOUS
<1>2. T # {}
  BY Zenon
<1>3. \A i \in S : n - i \in T
  BY Zenon
<1> HIDE DEF T
<1>4. PICK x \in T : \A y \in T : x <= y
  BY <1>1, <1>2, LeastExists
<1>5. PICK k \in S : x = n - k
  BY Zenon DEF T
<1>6. \A i \in S : k >= i
  BY <1>3, <1>4, <1>5
<1>7. QED
  BY <1>6, Zenon DEF Max

\* Entries of the ODS are in the order of the activations they belong to.
LEMMA EntriesInOrder ==
  ASSUME NEW rank, WellBehaved(rank), NEW n \in Nat, NEW c \in Seq(Frame),
         Nested(rank, n, c), NEW o \in Seq(Entry), Owned(c, o),
         NEW l \in 1 .. Len(o), NEW k \in 1 .. Len(o), l <= k,
         NEW i \in 2 .. Len(c), NEW j \in 2 .. Len(c),
         BelongsTo(o[l], c[i]), BelongsTo(o[k], c[j])
  PROVE  c[i].pc.act <= c[j].pc.act
<1>1. Len(c) \in Nat
  BY LenProperties
<1>2. PICK x \in Slot, y \in Slot :
        /\ x \in c[i].pc.in /\ o[l].obj = c[i].bp + x
        /\ y \in c[j].pc.in /\ o[k].obj = c[j].bp + y
  BY EntryFields, Zenon DEF BelongsTo
<1>3. o[l].obj <= o[k].obj
  <2>1. PICK from \in Int, to \in Int : from = o[l].obj /\ to = o[k].obj
    BY EntryFields, Zenon
  <2>2. CASE l = k
    BY <2>1, <2>2
  <2>3. CASE l # k
    <3>1. l < k
      BY <2>3
    <3>2. o[l].obj < o[k].obj
      BY <3>1, Zenon DEF Owned
    <3>3. from <= to
      BY <2>1, <3>2
    <3>4. QED
      BY <2>1, <3>3
  <2>4. QED
    BY <2>2, <2>3
<1>4. c[i].bp + x <= c[j].bp + y
  BY <1>2, <1>3
<1>5. i <= j
  BY <1>2, <1>4, OnePlace, Zenon
<1>6. c[i].pc.act \in Int /\ c[j].pc.act \in Int
  BY DEF Nested, IsActivation
<1>7. CASE i = j
  BY <1>6, <1>7
<1>8. CASE i # j
  <2>1. i < j
    BY <1>1, <1>5, <1>8
  <2>2. QED
    BY <1>6, <2>1 DEF Nested, Above
<1>9. QED
  BY <1>7, <1>8

\* The entry that throw_exception() unwinds to is that of the innermost
\* activation with an open try block that handles the type.
LEMMA OffersInnermost ==
  ASSUME NEW rank, WellBehaved(rank), IInv, ~Paused, nat # <<>>,
         NEW c, c = Frames(fs, reg), Nested(rank, acts, c),
         Owned(c, ods), Kept(c, ods),
         NEW type, NEW again, NEW caught \in After, NEW lost \in After,
         ThrowException(type, again, caught, lost),
         NEW t, t = IF again THEN thrown[cur] ELSE type
  PROVE  Offered(t)
<1>1. /\ c \in Seq(Frame) /\ Len(c) \in Nat
      /\ \A b \in Live : \E i \in 2 .. Len(c) : b.fb = c[i].fb /\ b.pc = c[i].pc
      /\ \A i \in 2 .. Len(c) : \E b \in Live : b.fb = c[i].fb /\ b.pc = c[i].pc
  BY LiveFrames
<1>2. acts \in Nat /\ ods \in Seq(Entry) /\ nat \in Seq(Native) /\ TypeOK
  BY Typed
<1> DEFINE try  == {i \in DOMAIN ods : ods[i].try # NoFun}
           hits == {i \in try : t \in Handles[ods[i].try]}
<1>3. /\ hits \in SUBSET (0 .. Len(ods)) /\ Len(ods) \in Nat
      /\ \A i \in 1 .. Len(ods) :
           i \in hits <=> ods[i].try # NoFun /\ t \in Handles[ods[i].try]
      /\ \A i \in hits : i \in 1 .. Len(ods)
  BY <1>2, LenProperties
<1>4. hits # {} =>
        nat' = Append(nat, Unwind(ods[Max(hits)].obj, caught,
                                  ods[Max(hits)].try, ods[Max(hits)].act))
  BY Zenon DEF ThrowException
<1>5. hits = {} => nat' = Append(nat, Unwind(NullObj, lost, NoFun, 0))
  BY Zenon DEF ThrowException
<1> HIDE DEF hits, try
<1> DEFINE open == {a \in Live : Marker \in a.pc.in /\ t \in Handles[a.fb]}
\* Each open try block that handles t has an entry among those that are hit.
<1>6. ASSUME NEW b \in open
      PROVE  \E i \in 2 .. Len(c) : \E l \in hits :
               /\ b.fb = c[i].fb /\ b.pc = c[i].pc
               /\ BelongsTo(ods[l], c[i])
  <2>1. PICK i \in 2 .. Len(c) : b.fb = c[i].fb /\ b.pc = c[i].pc
    BY <1>1
  <2>2. Marker \in c[i].pc.in
    BY <2>1
  <2>3. PICK l \in 1 .. Len(ods) : BelongsTo(ods[l], c[i]) /\ ods[l].slot = Marker
    BY <1>1, <1>2, <2>2, ScopeHasEntry
  <2>4. ods[l].try = c[i].fb /\ c[i].fb \in Fun
    BY <1>1, <2>3, Zenon DEF BelongsTo, Nested, IsActivation
  <2>5. l \in hits
    BY <1>3, <2>1, <2>4, FunAssumption, Zenon
  <2>6. QED
    BY <2>1, <2>3, <2>5
<1>7. CASE hits = {}
  <2>1. PICK v \in Native : v = Unwind(NullObj, lost, NoFun, 0)
    <3>1. NullObj \in Int /\ 0 \in Int /\ NoFun \in Fun \union {NoFun}
      BY Constants
    <3>2. QED
      BY <1>2, <3>1, UnwindType, Zenon
  <2>2. Last(nat') = v
    BY <1>2, <1>5, <1>7, <2>1, FrontAppend, Zenon
  <2>3. Last(nat').h = NoFun
    BY <2>1, <2>2 DEF Unwind
  <2>4. open = {}
    BY <1>6, <1>7, Zenon
  <2>5. QED
    BY <2>3, <2>4 DEF Offered
<1>8. CASE hits # {}
  <2>1. PICK k \in 1 .. Len(ods) :
          k = Max(hits) /\ k \in hits /\ \A l \in hits : l <= k
    <3>1. Max(hits) \in hits
      BY <1>3, <1>8, MaxElement, Zenon
    <3>2. \A l \in hits : Max(hits) >= l
      BY <1>3, <1>8, MaxIsMax, Zenon
    <3>3. \A l \in hits : l <= Max(hits)
      BY <1>3, <3>1, <3>2
    <3>4. QED
      BY <1>3, <3>1, <3>3, Zenon
  <2>2. PICK j \in 2 .. Len(c) : BelongsTo(ods[k], c[j])
    BY DEF Owned
  <2>3. ods[k].try # NoFun /\ t \in Handles[ods[k].try]
    BY <1>3, <2>1
  <2>4. ods[k].slot = Marker /\ ods[k].try = c[j].fb /\ Marker \in c[j].pc.in
        /\ ods[k].act = c[j].pc.act
    BY <2>2, <2>3 DEF BelongsTo
  <2>5. PICK a \in Live : a.fb = c[j].fb /\ a.pc = c[j].pc
    BY <1>1
  <2>6. a \in open
    BY <2>3, <2>4, <2>5
  <2>7. Last(nat').h = a.fb /\ Last(nat').act = a.pc.act
    <3>1. PICK v \in Native : v = Unwind(ods[k].obj, caught, ods[k].try, ods[k].act)
      <4>1. ods[k].obj \in Int /\ ods[k].act \in Int
            /\ ods[k].try \in Fun \union {NoFun}
        BY <1>2, EntryFields
      <4>2. QED
        BY <1>2, <4>1, UnwindType, Zenon
    <3>2. nat' = Append(nat, v)
      BY <1>4, <1>8, <2>1, <3>1
    <3>3. Last(nat') = v
      BY <1>2, <3>2, FrontAppend, Zenon
    <3>4. v.h = ods[k].try /\ v.act = ods[k].act
      BY <3>1 DEF Unwind
    <3>5. QED
      BY <2>4, <2>5, <3>3, <3>4
  <2>8. ASSUME NEW b \in open
        PROVE  b.pc.act <= a.pc.act
    <3>1. PICK i \in 2 .. Len(c), l \in hits :
            b.fb = c[i].fb /\ b.pc = c[i].pc /\ BelongsTo(ods[l], c[i])
      BY <1>6, Zenon
    <3>2. l \in 1 .. Len(ods) /\ l <= k
      BY <1>3, <2>1
    <3>3. c[i].pc.act <= c[j].pc.act
      BY <1>1, <1>2, <2>2, <3>1, <3>2, EntriesInOrder
    <3>4. QED
      BY <2>5, <3>1, <3>3
  <2>9. QED
    BY <2>6, <2>7, <2>8, Zenon DEF Offered
<1>9. QED
  BY <1>7, <1>8

-----------------------------------------------------------------------------
(* The flags of execute()                                                  *)

\* Some block catches what a trap or a check throws.
Catching == \E f \in Fun : FaultType \in Handles[f]

\* An activation has the flags it was called with; one that is to be resumed
\* in a catch block is there only if some block catches a native Exception.
Keeps(u) ==
  /\ u.k = "exec" => u.flags = u.own
  /\ u.after = "resume" => Catching

\* All activations of n do, and the outermost was called with flags of all.
Keeping(all, n) ==
  /\ \A i \in 1 .. Len(n) : Keeps(n[i])
  /\ n # <<>> => n[1].own \in all
\* The native stack does, and no program is halted.
KeepsAll(all) == ~Paused /\ Keeping(all, nat)

\* Pushing an activation that keeps its flags.
LEMMA PushKeeps ==
  ASSUME NEW all, NEW n \in Seq(Native), n # <<>>, Keeping(all, n),
         NEW u \in Native, Keeps(u)
  PROVE  Keeping(all, Append(n, u))
<1>1. PICK m \in Seq(Native), k \in Nat :
        /\ m = Append(n, u) /\ k = Len(n)
        /\ Len(m) = k + 1 /\ \A i \in 1 .. k : m[i] = n[i]
        /\ m[k + 1] = u
  <2>1. Len(n) \in Nat
    BY LenProperties
  <2>2. /\ Append(n, u) \in Seq(Native) /\ Len(Append(n, u)) = Len(n) + 1
        /\ \A i \in 1 .. Len(n) : Append(n, u)[i] = n[i]
        /\ Append(n, u)[Len(n) + 1] = u
    BY AppendProperties
  <2>3. QED
    BY <2>1, <2>2, Zenon
<1>2. ASSUME NEW i \in 1 .. Len(m)
      PROVE  Keeps(m[i])
  <2>1. CASE i = k + 1
    BY <1>1, <2>1
  <2>2. CASE i # k + 1
    <3>1. i \in 1 .. k
      BY <1>1, <2>2
    <3>2. QED
      BY <1>1, <3>1 DEF Keeping
  <2>3. QED
    BY <2>1, <2>2
<1>3. m[1] = n[1] /\ n[1].own \in all
  <2>1. k > 0
    BY <1>1, EmptySeq
  <2>2. QED
    BY <1>1, <2>1 DEF Keeping
<1>4. Keeping(all, m)
  BY <1>2, <1>3 DEF Keeping
<1>5. QED
  BY <1>1, <1>4

\* Popping one.
LEMMA PopKeeps ==
  ASSUME NEW all, NEW n \in Seq(Native), n # <<>>, Keeping(all, n)
  PROVE  Keeping(all, Front(n))
<1>1. PICK m \in Seq(Native) :
        /\ m = Front(n) /\ Len(m) = Len(n) - 1 /\ Len(n) \in Nat
        /\ \A i \in 1 .. Len(n) - 1 : m[i] = n[i]
  BY FrontFacts
<1>2. ASSUME NEW i \in 1 .. Len(m)
      PROVE  Keeps(m[i])
  <2>1. i \in 1 .. Len(n) - 1 /\ i \in 1 .. Len(n)
    BY <1>1
  <2>2. QED
    BY <1>1, <2>1 DEF Keeping
<1>3. ASSUME m # <<>>
      PROVE  m[1].own \in all
  <2>1. Len(m) > 0
    BY <1>3, EmptySeq
  <2>2. QED
    BY <1>1, <2>1 DEF Keeping
<1>4. Keeping(all, m)
  BY <1>2, <1>3 DEF Keeping
<1>5. QED
  BY <1>1, <1>4

\* Changing the innermost one to one that keeps its flags, called with the
\* same.
LEMMA ChangeKeeps ==
  ASSUME NEW all, NEW n \in Seq(Native), n # <<>>, Keeping(all, n),
         NEW v \in Native, Keeps(v), v.own = Last(n).own
  PROVE  /\ [n EXCEPT ![Len(n)] = v] \in Seq(Native)
         /\ [n EXCEPT ![Len(n)] = v] # <<>>
         /\ Keeping(all, [n EXCEPT ![Len(n)] = v])
<1>1. PICK k \in Nat : k = Len(n) /\ k \in 1 .. Len(n) /\ Last(n) = n[k]
  BY EmptySeq, LastFacts
<1>2. /\ [n EXCEPT ![k] = v] \in Seq(Native)
      /\ Len([n EXCEPT ![k] = v]) = Len(n)
      /\ \A i \in 1 .. Len(n) : [n EXCEPT ![k] = v][i] = IF i = k THEN v ELSE n[i]
  BY <1>1, ExceptSeq
<1>3. PICK m \in Seq(Native) :
        /\ m = [n EXCEPT ![k] = v] /\ Len(m) = k
        /\ \A i \in 1 .. k : m[i] = IF i = k THEN v ELSE n[i]
  BY <1>1, <1>2, Zenon
<1>4. \A i \in 1 .. Len(m) : Keeps(m[i])
  BY <1>1, <1>3 DEF Keeping
<1>5. m[1].own \in all
  <2>1. n[1].own \in all /\ 1 \in 1 .. k
    BY <1>1 DEF Keeping
  <2>2. m[1] = IF 1 = k THEN v ELSE n[1]
    BY <1>3, <2>1
  <2>3. QED
    BY <1>1, <2>1, <2>2
<1>6. m # <<>> /\ Keeping(all, m)
  BY <1>1, <1>3, <1>4, <1>5, EmptySeq DEF Keeping
<1>7. QED
  BY <1>1, <1>3, <1>6

\* execute() is entered with its flags, and halts nothing.
LEMMA EnterKeeps ==
  ASSUME ~Paused, NEW f, NEW r, NEW frames, StartFunction(f, r, frames)
  PROVE  ~Paused'
BY SMTT(40) DEF StartFunction, Paused, Resume0

\* It returns to its caller, and halts nothing.
LEMMA ReturnKeeps ==
  ASSUME ~Paused, NEW n, NEW r, NEW frames, NEW o, NEW crashed,
         ReturnTo(n, r, frames, o, resume, crashed)
  PROVE  ~Paused' /\ nat' = n
BY DEF ReturnTo, ExecMessage, Paused, Resume0

\* throw_exception() calls do_unwind() for a handler or for none.
LEMMA ThrowKeeps ==
  ASSUME NEW all, IInv, KeepsAll(all), nat # <<>>,
         NEW type \in Type \union {NoType},
         NEW again \in BOOLEAN, again => cur # NoFun,
         NEW caught \in After, NEW lost \in After,
         lost # "resume", caught = "resume" => ~again /\ type = FaultType,
         ThrowException(type, again, caught, lost)
  PROVE  Keeping(all, nat')
<1>1. TypeOK /\ nat \in Seq(Native) /\ ods \in Seq(Entry)
  BY Typed
<1> DEFINE try  == {i \in DOMAIN ods : ods[i].try # NoFun}
           t    == IF again THEN thrown[cur] ELSE type
           hits == {i \in try : t \in Handles[ods[i].try]}
<1>2. /\ hits \in SUBSET (0 .. Len(ods)) /\ Len(ods) \in Nat
      /\ \A i \in hits : i \in 1 .. Len(ods) /\ ods[i].try # NoFun
                         /\ t \in Handles[ods[i].try]
  BY <1>1, LenProperties
<1>3. hits # {} =>
        nat' = Append(nat, Unwind(ods[Max(hits)].obj, caught, ods[Max(hits)].try,
                                  ods[Max(hits)].act))
  BY Zenon DEF ThrowException
<1>4. hits = {} => nat' = Append(nat, Unwind(NullObj, lost, NoFun, 0))
  BY Zenon DEF ThrowException
<1>5. ~again => t = type
  OBVIOUS
<1> HIDE DEF hits, try, t
<1>6. CASE hits # {}
  <2>1. Max(hits) \in hits
    BY <1>2, <1>6, MaxElement, Zenon
  <2>2. PICK k \in 1 .. Len(ods) : k = Max(hits) /\ k \in hits
    BY <1>2, <2>1, Zenon
  <2>3. ods[k].obj \in Int /\ ods[k].try \in Fun /\ ods[k].act \in Int
    <3>1. ods[k].try # NoFun
      BY <1>2, <2>2
    <3>2. QED
      BY <1>1, <3>1, EntryFields
  <2>4. caught = "resume" => Catching
    BY <1>2, <1>5, <2>2, <2>3 DEF Catching
  <2>5. PICK u \in Native : u = Unwind(ods[k].obj, caught, ods[k].try, ods[k].act)
    BY <1>1, <2>3, UnwindType
  <2>6. Keeps(u)
    BY <2>4, <2>5 DEF Keeps, Unwind
  <2>7. nat' = Append(nat, u)
    BY <1>3, <1>6, <2>2, <2>5
  <2>8. QED
    BY <1>1, <2>6, <2>7, PushKeeps DEF KeepsAll
<1>7. CASE hits = {}
  <2>1. NullObj \in Int /\ NoFun \in Fun \union {NoFun} /\ 0 \in Int
    BY Constants
  <2>2. PICK u \in Native : u = Unwind(NullObj, lost, NoFun, 0)
    BY <1>1, <2>1, UnwindType, Zenon
  <2>3. Keeps(u)
    BY <2>2 DEF Keeps, Unwind
  <2>4. nat' = Append(nat, u)
    BY <1>4, <1>7, <2>2
  <2>5. QED
    BY <1>1, <2>3, <2>4, PushKeeps DEF KeepsAll
<1>8. QED
  BY <1>6, <1>7

\* The console calls execute() with flags that all allows.
LEMMA ConsoleKeeps ==
  ASSUME NEW all, IInv, KeepsAll(all), NEW flags \in all, flags \in {{}, {"args"}},
         Console(flags)
  PROVE  KeepsAll(all)'
<1>1. /\ nat' = <<Exec(reg, flags)>>
      /\ StartFunction(Temp, Restart(reg), fs)
  BY DEF Console, Enter
<1>2. ~Paused'
  BY <1>1, EnterKeeps DEF KeepsAll
<1>3. PICK e : e = Exec(reg, flags)
  OBVIOUS
<1>4. Len(nat') = 1 /\ nat'[1] = e
  BY <1>1, <1>3
<1>5. Keeps(e) /\ e.own = flags
  BY <1>3 DEF Keeps, Exec
<1>6. Keeping(all, nat')
  BY <1>4, <1>5 DEF Keeping
<1>7. QED
  BY <1>2, <1>6 DEF KeepsAll

\* A native function calls the interpreter back, with new flags.
LEMMA CallNativeKeeps ==
  ASSUME NEW all, IInv, KeepsAll(all), NEW g \in Fun, CallNative(g)
  PROVE  KeepsAll(all)'
<1>1. reg \in Reg /\ nat \in Seq(Native) /\ nat # <<>>
  BY Typed DEF CallNative, Running
<1>2. PICK e \in Native :
        e = Exec(reg, {"args", "outside"}) /\ nat' = Append(nat, e)
  <2>1. Exec(reg, {"args", "outside"}) \in Native
    BY <1>1, ExecType DEF Flags
  <2>2. nat' = Append(nat, Exec(reg, {"args", "outside"}))
    BY DEF CallNative, Enter
  <2>3. QED
    BY <2>1, <2>2
<1>3. Keeps(e)
  BY <1>2 DEF Keeps, Exec
<1>4. Keeping(all, nat')
  BY <1>1, <1>2, <1>3, PushKeeps DEF KeepsAll
<1>5. ~Paused'
  BY EnterKeeps DEF CallNative, Enter, KeepsAll
<1>6. QED
  BY <1>4, <1>5 DEF KeepsAll

\* A scope is left: do_unwind() is called, if there is something to unwind.
LEMMA LeaveScopeKeeps ==
  ASSUME NEW all, IInv, KeepsAll(all), NEW slot \in Slot, LeaveScope(slot)
  PROVE  KeepsAll(all)'
<1>1. reg \in Reg /\ nat \in Seq(Native) /\ nat # <<>> /\ TypeOK
  BY Typed DEF LeaveScope, Running
<1>2. ~Paused'
  BY DEF LeaveScope, KeepsAll, Paused
<1>3. CASE nat' = nat
  BY <1>2, <1>3 DEF KeepsAll
<1>4. CASE nat' # nat
  <2>1. PICK p \in Int : p = reg.bp + slot
    BY <1>1, RegFields DEF Slot, Outer, Marker, Inner
  <2>2. nat' = Append(nat, Unwind(p, "next", NoFun, reg.pc.act))
    BY <1>4, <2>1 DEF LeaveScope
  <2>3. PICK u \in Native : u = Unwind(p, "next", NoFun, reg.pc.act)
    <3>1. reg.pc.act \in Int /\ "next" \in After
      BY <1>1, RegFields DEF Ip, After
    <3>2. QED
      BY <1>1, <3>1, UnwindType, Zenon
  <2>4. Keeps(u)
    BY <2>3 DEF Keeps, Unwind
  <2>5. Keeping(all, nat')
    BY <1>1, <2>2, <2>3, <2>4, PushKeeps DEF KeepsAll
  <2>6. QED
    BY <1>2, <2>5 DEF KeepsAll
<1>5. QED
  BY <1>3, <1>4

\* execute() is done.
LEMMA ExecEndKeeps ==
  ASSUME NEW all, IInv, KeepsAll(all), ExecEnd
  PROVE  KeepsAll(all)'
<1>1. nat \in Seq(Native) /\ nat # <<>>
  BY Typed DEF ExecEnd
<1>2. CASE UNCHANGED <<nat, resume>>
  BY <1>2 DEF KeepsAll, Paused
<1>3. CASE ~UNCHANGED <<nat, resume>>
  <2>1. PICK r, frames : ReturnTo(Front(nat), r, frames, ods, resume, FALSE)
    BY <1>3, Zenon DEF ExecEnd, GoWild
  <2>2. ~Paused' /\ nat' = Front(nat)
    BY <2>1, ReturnKeeps, Zenon DEF KeepsAll
  <2>3. QED
    BY <1>1, <2>2, PopKeeps DEF KeepsAll
<1>4. QED
  BY <1>2, <1>3

\* Interpreted code does nothing to the flags of any execute(), unless it
\* halts.
LEMMA InterpretKeeps ==
  ASSUME NEW all, IInv, KeepsAll(all), Breaks = {}, Interpret
  PROVE  KeepsAll(all)'
<1>1. ASSUME UNCHANGED <<nat, resume>> PROVE KeepsAll(all)'
  BY <1>1 DEF KeepsAll, Paused
<1>2. ASSUME NEW f \in Fun, Call(f) PROVE KeepsAll(all)'
  <2>1. nat' = nat /\ ~Paused'
    BY <1>2, EnterKeeps DEF Call, KeepsAll
  <2>2. QED
    BY <2>1 DEF KeepsAll
<1>3. ASSUME NEW t \in Type, Throw(t) PROVE KeepsAll(all)'
  <2>1. /\ ThrowException(t, FALSE, "catch", "uncaught") /\ resume' = resume
        /\ nat # <<>>
    BY <1>3, Zenon DEF Throw, Running
  <2>2. Keeping(all, nat')
    BY <2>1, ThrowKeeps, Zenon DEF After
  <2>3. QED
    BY <2>1, <2>2 DEF KeepsAll, Paused
<1>4. ASSUME Rethrow PROVE KeepsAll(all)'
  <2>1. CASE cur = NoFun
    BY <1>1, <1>4, <2>1 DEF Rethrow, GoWild
  <2>2. CASE cur # NoFun
    <3>1. /\ ThrowException(NoType, TRUE, "catch", "uncaught") /\ resume' = resume
          /\ nat # <<>>
      BY <1>4, <2>2, Zenon DEF Rethrow, Running
    <3>2. Keeping(all, nat')
      BY <2>2, <3>1, ThrowKeeps, Zenon DEF After
    <3>3. QED
      BY <3>1, <3>2 DEF KeepsAll, Paused
  <2>3. QED
    BY <2>1, <2>2
<1>5. ASSUME CallLeaf \/ EnterTry \/ CheckFails
             \/ \E slot \in {Outer, Inner} : Construct(slot)
      PROVE  KeepsAll(all)'
  BY <1>1, <1>5 DEF CallLeaf, EnterTry, CheckFails, Construct
<1>6. ASSUME Return \/ Trap PROVE KeepsAll(all)'
  BY <1>1, <1>6 DEF Return, Trap, GoWild
<1>7. ~Halt
  BY DEF Halt
<1>8. QED
  BY <1>2, <1>3, <1>4, <1>5, <1>6, <1>7, CallNativeKeeps, LeaveScopeKeeps,
     ExecEndKeeps DEF Interpret

\* execute() catches a native Exception, and looks for a handler.
LEMMA HandleRaiseKeeps ==
  ASSUME NEW all, IInv, KeepsAll(all), HandleRaise
  PROVE  KeepsAll(all)'
<1>1. /\ ThrowException(FaultType, FALSE, "resume", "crash")
      /\ resume' = resume /\ nat # <<>>
  BY Zenon DEF HandleRaise, KeepsAll, IInv, RaiseIsCaught
<1>2. FaultType \in Type /\ "resume" \in After /\ "crash" \in After
  BY FunAssumption DEF After
<1>3. Keeping(all, nat')
  BY <1>1, <1>2, ThrowKeeps, Zenon
<1>4. QED
  BY <1>1, <1>3 DEF KeepsAll, Paused

\* A record is popped; its destructor is executed with no flags.
LEMMA UnwindStepKeeps ==
  ASSUME NEW all, IInv, KeepsAll(all), UnwindStep
  PROVE  KeepsAll(all)'
<1>1. /\ reg \in Reg /\ nat \in Seq(Native) /\ nat # <<>>
      /\ ods \in Seq(Entry) /\ ods # <<>>
  BY Typed DEF UnwindStep, Unwinding, UnwindStops
<1>2. PICK o \in Int : o = Last(ods).obj
  <2>1. Last(ods) \in Entry
    BY <1>1, LastFacts
  <2>2. QED
    BY <2>1 DEF Entry
<1>3. PICK n \in Seq(Native) :
        /\ n = [nat EXCEPT ![Len(nat)].obj = o]
        /\ n # <<>> /\ Keeping(all, n)
  <2>1. PICK k \in Nat : k = Len(nat) /\ k \in 1 .. Len(nat) /\ Last(nat) = nat[k]
    BY <1>1, EmptySeq, LastFacts
  <2>2. PICK z \in Native : z = nat[k]
    BY <1>1, <2>1, ElementOfSeq
  <2> DEFINE v == [z EXCEPT !.obj = o]
  <2>3. v \in Native
    BY DEF Native
  <2>4. v.k = z.k /\ v.after = z.after /\ v.flags = z.flags /\ v.own = z.own
    BY DEF Native
  <2>5. [nat EXCEPT ![Len(nat)].obj = o] = [nat EXCEPT ![Len(nat)] = v]
    BY <2>1, <2>2
  <2> HIDE DEF v
  <2>6. Keeps(z)
    BY <2>1, <2>2 DEF KeepsAll, Keeping
  <2>7. Keeps(v) /\ v.own = Last(nat).own
    BY <2>1, <2>2, <2>4, <2>6 DEF Keeps
  <2>8. QED
    BY <1>1, <2>3, <2>5, <2>7, ChangeKeeps, Zenon DEF KeepsAll
<1>4. CASE Last(ods).try # NoFun
  <2>1. nat' = n /\ resume' = resume
    BY <1>2, <1>3, <1>4 DEF UnwindStep
  <2>2. QED
    BY <1>3, <2>1 DEF KeepsAll, Paused
<1>5. CASE ~(Last(ods).try # NoFun)
  <2>1. PICK r \in Reg : r = [reg EXCEPT !.op = o]
    BY <1>1, Zenon DEF Reg
  <2>2. Enter(Dtor, Append(n, Exec(r, {})), r, fs)
    BY <1>2, <1>3, <1>5, <2>1 DEF UnwindStep
  <2>3. PICK e \in Native : e = Exec(r, {})
    BY ExecType DEF Flags
  <2>4. Keeps(e)
    BY <2>3 DEF Keeps, Exec
  <2>5. nat' = Append(n, e) /\ ~Paused'
    BY <2>2, <2>3, EnterKeeps DEF Enter, KeepsAll
  <2>6. Keeping(all, nat')
    BY <1>3, <2>4, <2>5, PushKeeps, Zenon
  <2>7. QED
    BY <2>5, <2>6 DEF KeepsAll
<1>6. QED
  BY <1>4, <1>5

\* The report of an uncaught exception halts nothing.
LEMMA CrashKeeps ==
  ASSUME NEW all, IInv, KeepsAll(all), Crash
  PROVE  KeepsAll(all)'
<1>1. nat \in Seq(Native) /\ nat # <<>> /\ Last(nat).k = "unwind"
  BY Typed DEF Crash, UnwindEnds, Unwinding
<1>2. nat' = Front(Front(nat)) /\ resume'.fb = NoFun
  <2>1. PICK m : m = ExecMessage(Last(nat).saved, fs, ods)
    OBVIOUS
  <2>2. m.rs \in {resume, Resume0}
    BY <2>1, Zenon DEF ExecMessage
  <2>3. m.rs.fb = NoFun
    BY <2>2 DEF KeepsAll, Paused, Resume0
  <2>4. ReturnTo(Front(Front(nat)), m.reg, m.fs, m.ods, m.rs, TRUE)
    BY <2>1, Zenon DEF Crash
  <2>5. PICK q : q = ExecMessage(m.reg, m.fs, m.ods)
    OBVIOUS
  <2>6. q.rs \in {resume, Resume0}
    BY <2>5, Zenon DEF ExecMessage
  <2>7. q.rs.fb = NoFun
    BY <2>6 DEF KeepsAll, Paused, Resume0
  <2>8. nat' = Front(Front(nat)) /\ (resume' = m.rs \/ resume' = q.rs)
    BY <2>4, <2>5, Zenon DEF ReturnTo
  <2>9. QED
    BY <2>3, <2>7, <2>8
<1>3. PICK n \in Seq(Native) : n = Front(nat) /\ n # <<>> /\ Keeping(all, n)
  BY <1>1, PopNative, PopKeeps DEF KeepsAll, IInv, NatShape
<1>4. Keeping(all, Front(n))
  BY <1>3, PopKeeps
<1>5. QED
  BY <1>2, <1>3, <1>4 DEF KeepsAll, Paused

\* do_unwind() does nothing to the flags of any execute(), unless execute()
\* resumes itself in a catch block.
LEMMA UnwindsKeeps ==
  ASSUME NEW all, IInv, KeepsAll(all), Unwinds, ~CaughtNative
  PROVE  KeepsAll(all)'
<1>1. ASSUME LeftScope \/ Caught \/ Uncaught PROVE KeepsAll(all)'
  <2>1. nat \in Seq(Native) /\ nat # <<>>
    BY <1>1, Typed DEF LeftScope, Caught, Uncaught, UnwindEnds, Unwinding
  <2>2. nat' = Front(nat) /\ resume' = resume
    BY <1>1 DEF LeftScope, Caught, Uncaught
  <2>3. Keeping(all, Front(nat))
    BY <2>1, PopKeeps DEF KeepsAll
  <2>4. QED
    BY <2>2, <2>3 DEF KeepsAll, Paused
<1>2. QED
  BY <1>1, UnwindStepKeeps, CrashKeeps DEF Unwinds

\* execute() resumes itself in a catch block with the flags of the last
\* argument block, which are those it was called with.
LEMMA CaughtNativeKeeps ==
  ASSUME NEW rank, IInv, Sound(rank), NEW flags \in Flags, KeepsAll({flags}),
         xargs = NoArgs => flags = {}, xargs \in {NoArgs, flags}, CaughtNative
  PROVE  KeepsAll({flags})'
<1>1. /\ nat \in Seq(Native) /\ nat # <<>> /\ Unwinding
      /\ Len(nat) = 2 /\ Outermost(nat[1])
  <2>1. Unwinding
    BY DEF CaughtNative, UnwindEnds
  <2>2. QED
    BY <2>1, Typed, UnwindingPhase DEF InUnwind, Unwinding
<1>2. PICK n \in Seq(Native) :
        /\ n = Front(nat) /\ n # <<>> /\ Len(n) = 1 /\ n[1] = nat[1]
        /\ Keeping({flags}, n)
  <2>1. PICK n \in Seq(Native) :
          n = Front(nat) /\ Len(n) = 1 /\ n[1] = nat[1]
    <3>1. /\ Front(nat) \in Seq(Native) /\ Len(Front(nat)) = Len(nat) - 1
          /\ \A i \in 1 .. Len(nat) - 1 : Front(nat)[i] = nat[i]
      BY <1>1, FrontFacts, Zenon
    <3>2. QED
      BY <1>1, <3>1
  <2>2. n # <<>>
    BY <2>1, EmptySeq, SMTT(40)
  <2>3. QED
    BY <1>1, <2>1, <2>2, PopKeeps DEF KeepsAll
<1>3. PICK z \in Native : z = n[1] /\ z = Last(n) /\ z.own = flags /\ Keeps(z)
  <2>1. n[1] \in Native /\ Last(n) = n[1]
    BY <1>2, ElementOfSeq, LastFacts
  <2>2. n[1].own = flags /\ Keeps(n[1])
    BY <1>2 DEF Keeping
  <2>3. QED
    BY <2>1, <2>2
<1> DEFINE v == [z EXCEPT !.flags = flags]
<1>4. v \in Native
  BY DEF Native
<1>5. v.k = z.k /\ v.after = z.after /\ v.own = z.own /\ v.flags = flags
  BY DEF Native
<1>6. [n EXCEPT ![Len(n)].flags = flags] = [n EXCEPT ![Len(n)] = v]
  BY <1>2, <1>3
<1> HIDE DEF v
<1>7. Keeps(v) /\ v.own = Last(n).own
  BY <1>3, <1>5 DEF Keeps
<1>8. Keeping({flags}, [n EXCEPT ![Len(n)] = v])
  BY <1>2, <1>4, <1>7, ChangeKeeps, Zenon
<1>9. nat' = [n EXCEPT ![Len(n)].flags = flags] /\ resume' = Resume0
  <2>1. (IF xargs = NoArgs THEN {} ELSE xargs) = flags
    OBVIOUS
  <2>2. QED
    BY <1>2, <2>1, Zenon DEF CaughtNative
<1>10. QED
  BY <1>6, <1>8, <1>9 DEF KeepsAll, Paused, Resume0

\* Activations that keep their flags keep the flags of execute().
LEMMA KeptFlags ==
  ASSUME NEW all, IInv, KeepsAll(all)
  PROVE  FlagsKept
<1>1. nat \in Seq(Native)
  BY Typed
<1>2. DOMAIN nat = 1 .. Len(nat)
  BY <1>1, LenProperties
<1>3. QED
  BY <1>2 DEF FlagsKept, KeepsAll, Keeping, Keeps

-----------------------------------------------------------------------------
(* What holds of the engine                                                *)

\* No step halts a program or resumes one, and only execute() that resumes
\* itself in a catch block changes flags.
LEMMA NextKeeps ==
  ASSUME NEW all, \A flags \in {{}, {"args"}} : Console(flags) => flags \in all,
         IInv, KeepsAll(all), Breaks = {}, ~CaughtNative, [Next]_vars
  PROVE  KeepsAll(all)'
<1>1. CASE UNCHANGED vars
  BY <1>1 DEF vars, KeepsAll, Paused
<1>2. CASE User
  <2>1. ~Resume /\ \A i \in 0 .. Len(fs) : ~SelectFrame(i)
    BY DEF KeepsAll, Resume, SelectFrame
  <2>2. PICK flags \in {{}, {"args"}} : Console(flags)
    BY <1>2, <2>1 DEF User
  <2>3. flags \in all
    BY <2>2
  <2>4. QED
    BY <2>2, <2>3, ConsoleKeeps
<1>3. QED
  BY <1>1, <1>2, InterpretKeeps, HandleRaiseKeeps, UnwindsKeeps DEF Next

\* Only the console gives the engine an argument block, when nothing runs.
LEMMA ArgumentsStay ==
  ASSUME IInv, \A g \in Fun : CallsBack[g] = {}, ~Resume, [Next]_vars
  PROVE  \/ xargs' = xargs /\ (nat = <<>> => nat' = <<>>)
         \/ \E flags \in {{}, {"args"}} :
              Console(flags) /\ xargs' = IF flags = {} THEN xargs ELSE flags
<1>1. CASE UNCHANGED vars
  BY <1>1 DEF vars
<1>2. CASE User
  BY <1>2 DEF User, Console, SelectFrame
<1>3. CASE Interpret
  <2>1. nat # <<>>
    BY <1>3, Zenon DEF Interpret, Running, Call, CallNative, CallLeaf, Construct, EnterTry,
       LeaveScope, Return, ExecEnd, Halt, Throw, Rethrow, CheckFails, Trap
  <2>2. \A g \in Fun : ~CallNative(g)
    BY SMTT(40) DEF CallNative, Running
  <2>3. xargs' = xargs
    BY <1>3, <2>2, Zenon DEF Interpret, Call, CallLeaf, Construct, EnterTry,
       LeaveScope, Return, ExecEnd, Halt, Throw, Rethrow, CheckFails, Trap, GoWild
  <2>4. QED
    BY <2>1, <2>3, SMTT(40)
<1>4. CASE HandleRaise
  BY <1>4 DEF HandleRaise, IInv, RaiseIsCaught
<1>5. CASE Unwinds
  BY <1>5, Zenon DEF Unwinds, UnwindStep, LeftScope, Caught, Uncaught, CaughtNative, Crash,
     UnwindEnds, Unwinding
<1>6. QED
  BY <1>1, <1>2, <1>3, <1>4, <1>5 DEF Next

\* The console calls execute() with these flags only: it runs the program, or
\* it evaluates statements.
ConsoleCalls(flags) ==
  \A other \in {{}, {"args"}} : Console(other) => other = flags

\* The last argument block is that of the running execute().
ArgsKnown(flags) ==
  /\ xargs \in {NoArgs, flags}
  /\ nat # <<>> /\ xargs = NoArgs => flags = {}

\* What a step does to flags and argument block.
LEMMA NextKnows ==
  ASSUME NEW rank, WellBehaved(rank), NEW flags \in {{}, {"args"}},
         IInv, Sound(rank), KeepsAll({flags}), ArgsKnown(flags),
         [Next]_vars, [ConsoleCalls(flags)]_vars
  PROVE  KeepsAll({flags})' /\ ArgsKnown(flags)'
<1>1. \A other \in {{}, {"args"}} : Console(other) => other = flags
  <2>1. CASE UNCHANGED vars
    <3>1. ASSUME NEW other, Console(other) PROVE FALSE
      <4>1. nat = <<>> /\ nat' = <<Exec(reg, other)>>
        BY <3>1 DEF Console, Enter, Idle
      <4>2. nat' = nat
        BY <2>1 DEF vars
      <4>3. <<Exec(reg, other)>> # <<>>
        OBVIOUS
      <4>4. QED
        BY <4>1, <4>2, <4>3
    <3>2. QED
      BY <3>1
  <2>2. QED
    BY <2>1 DEF ConsoleCalls
<1>2. ~Resume
  BY DEF KeepsAll, Resume
<1>3. KeepsAll({flags})'
  <2>1. CASE CaughtNative
    <3>1. nat # <<>> /\ flags \in Flags
      BY <2>1 DEF CaughtNative, UnwindEnds, Unwinding, Flags
    <3>2. QED
      BY <2>1, <3>1, CaughtNativeKeeps DEF ArgsKnown
  <2>2. CASE ~CaughtNative
    BY <1>1, <2>2, NextKeeps DEF WellBehaved
  <2>3. QED
    BY <2>1, <2>2
<1>4. ArgsKnown(flags)'
  <2>1. CASE xargs' = xargs /\ (nat = <<>> => nat' = <<>>)
    BY <2>1 DEF ArgsKnown
  <2>2. ASSUME NEW other \in {{}, {"args"}}, Console(other),
               xargs' = IF other = {} THEN xargs ELSE other
        PROVE  ArgsKnown(flags)'
    BY <1>1, <2>2, Zenon DEF ArgsKnown, NoArgs
  <2>3. QED
    BY <1>2, <2>1, <2>2, ArgumentsStay DEF WellBehaved
<1>5. QED
  BY <1>3, <1>4

\* execute() keeps the flags it was called with (engine.cpp:1606) when it
\* resumes itself in catch blocks, as long as the console only runs programs,
\* or only evaluates statements: they are those of the last argument block.
THEOREM FlagsAreKept ==
  ASSUME NEW rank, WellBehaved(rank), NEW flags \in {{}, {"args"}}
  PROVE  Spec /\ [][ConsoleCalls(flags)]_vars /\ []Roomy => []FlagsKept
<1> DEFINE Known == KeepsAll({flags}) /\ ArgsKnown(flags)
<1>1. Init => Sound(rank) /\ Known /\ IInv
  <2>1. Init => KeepsAll({flags}) /\ ArgsKnown(flags)
    BY EmptySeq DEF Init, KeepsAll, Keeping, Paused, Resume0, ArgsKnown
  <2>2. QED
    BY <2>1, InitSound, InitInv
<1>2. IInv /\ Sound(rank) /\ Known /\ [Next]_vars /\ [ConsoleCalls(flags)]_vars
      => Known'
  BY NextKnows, Zenon
<1>3. IInv /\ Known => FlagsKept
  BY KeptFlags
<1>4. /\ IInv /\ IInv' /\ Sound(rank) /\ Roomy /\ Roomy' /\ FlagsKept'
      /\ [Next]_vars
      => Sound(rank)'
  BY NextSound DEF Stepping
<1> HIDE DEF Known
<1>5. QED
  BY <1>1, <1>2, <1>3, <1>4, Invariance, PTL DEF Spec

\* They are kept in every program that does not halt and in which no block
\* catches what traps and checks throw, callbacks included.
THEOREM FlagsAreKeptUncaught ==
  ASSUME ~Catching, Breaks = {}
  PROVE  Spec => []FlagsKept
<1> DEFINE all == {{}, {"args"}}
<1>1. Init => KeepsAll(all)
  BY EmptySeq DEF Init, KeepsAll, Keeping, Paused, Resume0
<1>2. IInv /\ IInv' /\ KeepsAll(all) /\ [Next]_vars => KeepsAll(all)'
  <2>1. SUFFICES ASSUME IInv, KeepsAll(all), [Next]_vars
                 PROVE  KeepsAll(all)'
    OBVIOUS
  <2>2. ~CaughtNative
    <3>1. SUFFICES ASSUME CaughtNative PROVE FALSE
      OBVIOUS
    <3>2. nat \in Seq(Native) /\ nat # <<>> /\ Last(nat).after = "resume"
      BY <2>1, <3>1, Typed DEF CaughtNative, UnwindEnds, Unwinding
    <3>3. PICK k \in Nat : k = Len(nat) /\ k \in 1 .. Len(nat) /\ Last(nat) = nat[k]
      BY <3>2, EmptySeq, LastFacts
    <3>4. Keeps(nat[k])
      BY <2>1, <3>3 DEF KeepsAll, Keeping
    <3>5. QED
      BY <3>2, <3>3, <3>4 DEF Keeps
  <2>3. QED
    BY <2>1, <2>2, NextKeeps
<1>3. IInv /\ KeepsAll(all) => FlagsKept
  BY KeptFlags
<1> HIDE DEF all
<1>4. QED
  BY <1>1, <1>2, <1>3, Invariance, PTL DEF Spec

\* The object destructor stack holds the open scopes of what runs (TOSD and
\* do_unwind(), engine.cpp:1257, 506): no object of a well-behaved program is
\* destroyed twice, early or never.
THEOREM ObjectsMatchScopes ==
  ASSUME NEW rank, WellBehaved(rank)
  PROVE  Spec /\ []Roomy /\ []FlagsKept => []OdsMatchesScopes
<1>1. IInv /\ Sound(rank) => OdsMatchesScopes
  BY SoundScopes
<1>2. QED
  BY <1>1, Invariance, StatementsHavePhases, PTL

\* Whatever was thrown, caught or reported: nothing is left at the prompt.
THEOREM PromptIsClean ==
  ASSUME NEW rank, WellBehaved(rank)
  PROVE  Spec /\ []Roomy /\ []FlagsKept => []CleanPrompt
<1>1. IInv /\ Sound(rank) => CleanPrompt
  BY SoundPrompt
<1>2. QED
  BY <1>1, Invariance, StatementsHavePhases, PTL

\* The frames of callers lie below those of what they call, and below the top
\* of the execution stack.
THEOREM FramesAreNested ==
  ASSUME NEW rank, WellBehaved(rank)
  PROVE  Spec /\ []Roomy /\ []FlagsKept => []FramesNest
<1>1. IInv /\ Sound(rank) => FramesNest
  BY SoundFrames
<1>2. QED
  BY <1>1, Invariance, StatementsHavePhases, PTL

\* A catch block runs in the activation whose try block pushed the marker that
\* throw_exception() found (engine.cpp:1688), through any number of calls.
THEOREM CatchesLandHome ==
  ASSUME NEW rank, WellBehaved(rank)
  PROVE  Spec /\ []Roomy /\ []FlagsKept => CatchLandsHome
<1>1. ASSUME Stepping(rank), Caught \/ CaughtNative, mode' = "run"
      PROVE  reg'.pc.act = Last(nat).act
  BY <1>1, CaughtSound, CaughtNativeSound
<1>2. /\ IInv /\ IInv' /\ Sound(rank) /\ Roomy /\ Roomy' /\ FlagsKept'
      => [(Caught \/ CaughtNative) /\ mode' = "run"
            => reg'.pc.act = Last(nat).act]_vars
  BY <1>1 DEF Stepping
<1>3. QED
  BY <1>2, Invariance, StatementsHavePhases, PTL DEF CatchLandsHome

\* What a function throws, and what its catch block throws on.
LEMMA FunctionOffers ==
  ASSUME NEW rank, Stepping(rank), Running,
         Throws[reg.fb] # {} \/ reg.fb \in Rethrows,
         NEW type, NEW again, NEW t, t = IF again THEN thrown[cur] ELSE type,
         ThrowException(type, again, "catch", "uncaught")
  PROVE  Offered(t)
<1>1. InFunction(rank) /\ ~Paused /\ nat # <<>>
  BY RunningPhase, DestructorIsPlain, NotPaused DEF Stepping, Running
<1>2. PICK c : c = Frames(fs, reg)
  OBVIOUS
<1>3. Nested(rank, acts, c) /\ Owned(c, ods) /\ Kept(c, ods)
  BY <1>1, <1>2 DEF InFunction
<1>4. WellBehaved(rank) /\ IInv /\ "catch" \in After /\ "uncaught" \in After
  BY DEF Stepping, After
<1>5. QED
  BY <1>1, <1>2, <1>3, <1>4, OffersInnermost

\* What a check or a trap throws.
LEMMA RaiseOffers ==
  ASSUME NEW rank, Stepping(rank), HandleRaise, ~Paused, ods # <<>>
  PROVE  Offered(FaultType)
<1>1. mode = "raise" /\ ThrowException(FaultType, FALSE, "resume", "crash")
  BY Zenon DEF HandleRaise
<1>2. InRaise(rank)
  BY <1>1, RaisePhase DEF Stepping
<1>3. nat # <<>>
  BY <1>2, LastNative DEF InRaise, Stepping
<1>4. PICK c : c = Frames(fs, reg)
  OBVIOUS
<1>5. Nested(rank, acts, c) /\ Owned(c, ods) /\ Kept(c, ods)
  BY <1>2, <1>4 DEF InRaise
<1>6. WellBehaved(rank) /\ IInv /\ "resume" \in After /\ "crash" \in After
  BY DEF Stepping, After
<1>7. PICK t : t = FaultType /\ t = IF FALSE THEN thrown[cur] ELSE FaultType
  OBVIOUS
<1>8. Offered(t)
  BY <1>1, <1>3, <1>4, <1>5, <1>6, <1>7, OffersInnermost, Zenon
<1>9. QED
  BY <1>7, <1>8

\* throw_exception() (engine.cpp:605) hands what a function throws, what a
\* catch block throws on, and what a check or a trap throws to the innermost
\* activation whose open try block handles it, and to none only if there is
\* none, in programs in which no function with a try block recurs.
THEOREM InnermostIsFirst ==
  ASSUME NEW rank, WellBehaved(rank)
  PROVE  Spec /\ []Roomy /\ []FlagsKept => InnermostFirst
<1> DEFINE First ==
      /\ \A t \in Type : Throw(t) => Offered(t)
      /\ Rethrow /\ mode' = "run" => Offered(thrown[cur])
      /\ HandleRaise /\ ~Paused /\ ods # <<>> => Offered(FaultType)
<1>1. ASSUME Stepping(rank) PROVE First
  <2>1. ASSUME NEW t \in Type, Throw(t) PROVE Offered(t)
    <3>1. Running /\ t \in Throws[reg.fb]
          /\ ThrowException(t, FALSE, "catch", "uncaught")
      BY <2>1, Zenon DEF Throw
    <3>2. Throws[reg.fb] # {} /\ t = IF FALSE THEN thrown[cur] ELSE t
      BY <3>1
    <3>3. QED
      BY <1>1, <3>1, <3>2, FunctionOffers, Zenon
  <2>2. ASSUME Rethrow, mode' = "run" PROVE Offered(thrown[cur])
    <3>1. Running /\ reg.fb \in Rethrows
      BY <2>2, Zenon DEF Rethrow
    <3>2. ThrowException(NoType, TRUE, "catch", "uncaught")
      BY <2>2, Zenon DEF Rethrow, GoWild
    <3>3. PICK t : t = thrown[cur] /\ t = IF TRUE THEN thrown[cur] ELSE NoType
      OBVIOUS
    <3>4. Offered(t)
      BY <1>1, <3>1, <3>2, <3>3, FunctionOffers, Zenon
    <3>5. QED
      BY <3>3, <3>4
  <2>3. HandleRaise /\ ~Paused /\ ods # <<>> => Offered(FaultType)
    BY <1>1, RaiseOffers
  <2>4. QED
    BY <2>1, <2>2, <2>3
<1>2. /\ IInv /\ IInv' /\ Sound(rank) /\ Roomy /\ Roomy' /\ FlagsKept'
      => [First]_vars
  BY <1>1 DEF Stepping
<1> HIDE DEF First
<1>3. Spec /\ []Roomy /\ []FlagsKept => [][First]_vars
  BY <1>2, Invariance, StatementsHavePhases, PTL
<1>4. QED
  BY <1>3 DEF First, InnermostFirst

-----------------------------------------------------------------------------
(***************************************************************************)
(* Destructors that misbehave: in every program without breakpoints        *)
(* do_unwind() goes on with the frames it left, or with none after a       *)
(* report that reset the stacks.                                           *)
(*                                                                         *)
(* The inductive invariant, Floors, gives every native activation the      *)
(* number of frames that were there when it was called.  Above the floor   *)
(* of an execute() lies its false bottom, and then nothing but callers:    *)
(* no return and no catch gets below it.  A report of an exception empties *)
(* the function stack, and with it the floors of all that goes on below.   *)
(***************************************************************************)

\* A frame to which a function returns: its code goes on.
Caller(t) == t.fb \in Fun /\ t.pc.act > 0
\* e is an execute() called from outside, which pushes a triple of its own.
Outside(e) == "outside" \in e.own
\* The index of the false bottom of an execute() whose floor is c.
Bottom(e, c) == c + (IF Outside(e) THEN 2 ELSE 1)

\* The frames of the execute() e, from its floor c up to top: its false bottom,
\* and callers. A report that reset the stacks leaves callers only.
Standing(e, c, top, frames) ==
  /\ Bottom(e, c) <= top
  /\ frames[Bottom(e, c)].fb = Start /\ frames[Bottom(e, c)].pc = NullIp
  /\ \A j \in c + 1 .. top : j # Bottom(e, c) => Caller(frames[j])
Lost(c, top, frames) == c = 0 /\ \A j \in 1 .. top : Caller(frames[j])
Placed(e, c, top, frames) ==
  Standing(e, c, top, frames) \/ Lost(c, top, frames)

\* The registers when an exception is thrown over c frames: of running code,
\* of a function that is not defined, or at a bottom without frames.
Threw(r, c) ==
  \/ r.fb \in Fun /\ r.pc.act > 0
  \/ r.pc = NullIp /\ (r.fb \in Undefined \/ (r.fb = Start /\ c = 0))
\* The do_unwind() u goes on over c frames.
UnwindsOver(u, c) ==
  /\ c = 0 \/ c = u.depth
  /\ Threw(u.saved, c)
  /\ u.after = "next" => u.saved.pc.act > 0
  /\ u.after \in {"catch", "resume"} => u.h \in Fun /\ Handles[u.h] # {}

\* a, with floor c, called b, with floor d.
Suspended(a, b, c, d, frames) ==
  /\ a.k = "exec" => Placed(a, c, d, frames)
  /\ a.k = "exec" /\ b.k = "exec" => Outside(b)
  /\ a.k = "unwind" => UnwindsOver(a, c) /\ d = c /\ b.k = "exec" /\ ~Outside(b)
\* The activations n stand on the floors fl of the function stack.
Rising(fl) == \A i, j \in 1 .. Len(fl) : i <= j => fl[i] <= fl[j]
Stacked(n, fl, frames) ==
  /\ n \in Seq(Native) /\ fl \in Seq(Nat) /\ Len(fl) = Len(n) /\ Rising(fl)
  /\ \A i \in 1 .. Len(n) - 1 :
       Suspended(n[i], n[i + 1], fl[i], fl[i + 1], frames)

\* The execute() e, with floor c, is about to return.
Done(e, c, frames) ==
  \/ /\ Len(frames) = Bottom(e, c) - 1
     /\ Outside(e) => Caller(frames[Len(frames)])
  \/ c = 0 /\ frames = <<>>
\* e, with floor c, is the innermost activation.
Innermost(e, c, frames, r, m) ==
  IF e.k = "unwind" THEN UnwindsOver(e, c) /\ Len(frames) = c
  ELSE IF m = "raise"
  THEN Placed(e, c, Len(frames), frames) /\ Threw(r, Len(frames))
  ELSE \/ r.pc.act > 0 /\ Placed(e, c, Len(frames), frames)
       \/ r.pc = EndIp /\ Done(e, c, frames)

OnFloors(n, fl, frames, r, m) ==
  /\ Stacked(n, fl, frames)
  /\ n # <<>> => Innermost(Last(n), Last(fl), frames, r, m)
Floors == mode # "wild" => \E fl \in Seq(Nat) : OnFloors(nat, fl, fs, reg, mode)

-----------------------------------------------------------------------------
\* Frames that agree up to top place the same execute().
LEMMA PlacedSame ==
  ASSUME NEW e, NEW c \in Nat, NEW top \in Nat, NEW s, NEW q,
         Placed(e, c, top, s), \A j \in 1 .. top : q[j] = s[j]
  PROVE  Placed(e, c, top, q)
<1>1. CASE Standing(e, c, top, s)
  <2>1. Bottom(e, c) \in 1 .. top
    BY <1>1 DEF Standing, Bottom
  <2>2. \A j \in c + 1 .. top : j \in 1 .. top
    OBVIOUS
  <2>3. Standing(e, c, top, q)
    BY <1>1, <2>1, <2>2 DEF Standing
  <2>4. QED
    BY <2>3 DEF Placed
<1>2. CASE Lost(c, top, s)
  BY <1>2 DEF Lost, Placed
<1>3. QED
  BY <1>1, <1>2 DEF Placed

\* The floor of an execute() lies within the frames it is placed in.
LEMMA PlacedAbove ==
  ASSUME NEW e, NEW c \in Nat, NEW top \in Nat, NEW s, Placed(e, c, top, s)
  PROVE  c <= top
<1>1. CASE Standing(e, c, top, s)
  BY <1>1 DEF Standing, Bottom
<1>2. QED
  BY <1>1 DEF Placed, Lost

\* A call pushes a caller.
LEMMA PlacedCall ==
  ASSUME NEW e, NEW c \in Nat, NEW s \in Seq(Frame), NEW t \in Frame,
         Placed(e, c, Len(s), s), Caller(t)
  PROVE  Placed(e, c, Len(Append(s, t)), Append(s, t))
<1> DEFINE q == Append(s, t)
           m == Len(s)
<1>1. /\ Len(q) = m + 1 /\ q[m + 1] = t /\ m \in Nat
      /\ \A j \in 1 .. m : q[j] = s[j]
  BY AppendProperties, LenProperties
<1> HIDE DEF q, m
<1>2. Placed(e, c, m, q)
  BY <1>1, PlacedSame DEF m
<1>3. CASE Standing(e, c, m, q)
  <2>1. Bottom(e, c) \in 1 .. m
    BY <1>1, <1>3 DEF Standing, Bottom
  <2>2. ASSUME NEW j \in c + 1 .. m + 1, j # Bottom(e, c)
        PROVE  Caller(q[j])
    <3>1. CASE j = m + 1
      BY <1>1, <3>1
    <3>2. CASE j # m + 1
      <4>1. j \in c + 1 .. m
        BY <1>1, <3>2
      <4>2. QED
        BY <1>3, <2>2, <4>1 DEF Standing
    <3>3. QED
      BY <3>1, <3>2
  <2>3. Standing(e, c, m + 1, q)
    BY <1>1, <1>3, <2>1, <2>2 DEF Standing
  <2>4. QED
    BY <1>1, <2>3 DEF Placed, q
<1>4. CASE Lost(c, m, q)
  <2>1. ASSUME NEW j \in 1 .. m + 1
        PROVE  Caller(q[j])
    <3>1. CASE j = m + 1
      BY <1>1, <3>1
    <3>2. CASE j # m + 1
      <4>1. j \in 1 .. m
        BY <1>1, <3>2
      <4>2. QED
        BY <1>4, <4>1 DEF Lost
    <3>3. QED
      BY <3>1, <3>2
  <2>2. Lost(c, m + 1, q)
    BY <1>4, <2>1 DEF Lost
  <2>3. QED
    BY <1>1, <2>2 DEF Placed, q
<1>5. QED
  BY <1>2, <1>3, <1>4 DEF Placed

\* execute() pushes its false bottom.
LEMMA PlacedBottom ==
  ASSUME NEW e, NEW s \in Seq(Frame), NEW t \in Frame, NEW c \in Nat,
         t.fb = Start, t.pc = NullIp,
         Len(s) = Bottom(e, c) - 1,
         Outside(e) => Caller(s[Len(s)])
  PROVE  Placed(e, c, Len(Append(s, t)), Append(s, t))
<1> DEFINE q == Append(s, t)
           m == Len(s)
<1>1. /\ Len(q) = m + 1 /\ q[m + 1] = t /\ m \in Nat
      /\ \A j \in 1 .. m : q[j] = s[j]
      /\ m + 1 = Bottom(e, c)
  BY AppendProperties, LenProperties DEF Bottom
<1> HIDE DEF q
<1>2. ASSUME NEW j \in c + 1 .. m + 1, j # Bottom(e, c)
      PROVE  Caller(q[j])
  <2>1. j = m /\ Outside(e) /\ m >= 1
    BY <1>1, <1>2 DEF Bottom
  <2>2. QED
    BY <1>1, <2>1
<1> HIDE DEF m
<1>3. Standing(e, c, m + 1, q)
  BY <1>1, <1>2 DEF Standing
<1>4. QED
  BY <1>1, <1>3 DEF Placed, q
\* A function in the middle of the frames of e is returned to.
LEMMA PlacedBelow ==
  ASSUME NEW e, NEW c \in Nat, NEW top \in Nat, NEW m \in Nat, NEW s,
         Placed(e, c, top, s), m <= top,
         Standing(e, c, top, s) => Bottom(e, c) <= m
  PROVE  Placed(e, c, m, s)
<1>1. CASE Standing(e, c, top, s)
  <2>1. \A j \in c + 1 .. m : j \in c + 1 .. top
    OBVIOUS
  <2>2. Standing(e, c, m, s)
    BY <1>1, <2>1 DEF Standing
  <2>3. QED
    BY <2>2 DEF Placed
<1>2. CASE Lost(c, top, s)
  <2>1. \A j \in 1 .. m : j \in 1 .. top
    OBVIOUS
  <2>2. QED
    BY <1>2, <2>1 DEF Lost, Placed
<1>3. QED
  BY <1>1, <1>2 DEF Placed

\* The frame on top is a caller, or the false bottom of e, below which e is
\* done.
LEMMA PlacedTop ==
  ASSUME NEW e, NEW c \in Nat, NEW s \in Seq(Frame), s # <<>>,
         Placed(e, c, Len(s), s)
  PROVE  \/ Caller(Last(s)) /\ Placed(e, c, Len(Front(s)), Front(s))
         \/ Last(s).pc = NullIp /\ Done(e, c, Front(s))
<1> DEFINE q == Front(s)
           m == Len(s)
<1>1. /\ q \in Seq(Frame) /\ Len(q) = m - 1 /\ m \in Nat \ {0}
      /\ \A j \in 1 .. m - 1 : q[j] = s[j]
      /\ Last(s) = s[m]
  BY FrontFacts, LastFacts
<1> HIDE DEF q, m
<1>2. Placed(e, c, m, s)
  BY DEF m
<1>3. CASE Standing(e, c, m, s) /\ Bottom(e, c) = m
  <2>1. Last(s).pc = NullIp /\ Len(q) = Bottom(e, c) - 1
    BY <1>1, <1>3 DEF Standing
  <2>2. ASSUME Outside(e)
        PROVE  Caller(q[Len(q)])
    <3>1. /\ m - 1 \in c + 1 .. m /\ m - 1 # Bottom(e, c) /\ m - 1 \in 1 .. m - 1
          /\ Len(q) = m - 1
      BY <1>1, <1>3, <2>2 DEF Bottom
    <3>2. QED
      BY <1>1, <1>3, <3>1 DEF Standing
  <2>3. QED
    BY <2>1, <2>2 DEF Done, q
<1>4. CASE Standing(e, c, m, s) => Bottom(e, c) # m
  <2>1. Caller(s[m])
    <3>1. CASE Standing(e, c, m, s)
      <4>1. m \in c + 1 .. m
        BY <1>1, <3>1 DEF Standing, Bottom
      <4>2. QED
        BY <1>4, <3>1, <4>1 DEF Standing
    <3>2. CASE Lost(c, m, s)
      BY <1>1, <3>2 DEF Lost
    <3>3. QED
      BY <1>2, <3>1, <3>2 DEF Placed
  <2>2. PICK w \in Nat : w = m - 1
    BY <1>1
  <2>3. Standing(e, c, m, s) => Bottom(e, c) <= w
    BY <1>1, <1>4, <2>2 DEF Standing, Bottom
  <2>4. w <= m /\ m \in Nat
    BY <1>1, <2>2
  <2>5. Placed(e, c, w, s)
    BY <1>2, <2>3, <2>4, PlacedBelow
  <2>6. \A j \in 1 .. w : q[j] = s[j]
    BY <1>1, <2>2
  <2>7. Placed(e, c, w, q)
    BY <2>5, <2>6, PlacedSame
  <2>8. QED
    BY <1>1, <2>1, <2>2, <2>7 DEF q
<1>5. QED
  BY <1>3, <1>4

\* The frames of e that are not its false bottom are callers.
LEMMA PlacedFrame ==
  ASSUME NEW e, NEW c \in Nat, NEW top \in Nat, NEW s,
         Placed(e, c, top, s), NEW i \in 1 .. top,
         s[i].fb # Start,
         \A j \in i + 1 .. top : s[j].fb # Start
  PROVE  Caller(s[i]) /\ Placed(e, c, i - 1, s)
<1>1. PICK w \in Nat : w = i - 1 /\ w <= top
  OBVIOUS
<1>2. CASE Standing(e, c, top, s)
  <2>1. Bottom(e, c) \in 1 .. top /\ s[Bottom(e, c)].fb = Start
    BY <1>2 DEF Standing, Bottom
  <2>2. Bottom(e, c) < i
    <3>1. Bottom(e, c) # i /\ ~ (Bottom(e, c) \in i + 1 .. top)
      BY <2>1
    <3>2. QED
      BY <2>1, <3>1
  <2>3. i \in c + 1 .. top /\ i # Bottom(e, c) /\ Bottom(e, c) <= w
    BY <1>1, <2>1, <2>2 DEF Bottom
  <2>4. Caller(s[i])
    BY <1>2, <2>3 DEF Standing
  <2>5. Placed(e, c, w, s)
    BY <1>1, <2>3, PlacedBelow
  <2>6. QED
    BY <1>1, <2>4, <2>5
<1>3. CASE ~ Standing(e, c, top, s)
  <2>1. Caller(s[i])
    BY <1>3 DEF Placed, Lost
  <2>2. Placed(e, c, w, s)
    BY <1>1, <1>3, PlacedBelow
  <2>3. QED
    BY <1>1, <2>1, <2>2
<1>4. QED
  BY <1>2, <1>3

-----------------------------------------------------------------------------
\* What is suspended depends on the frames below the floor of what it called.
LEMMA SuspendedSame ==
  ASSUME NEW a, NEW b, NEW c \in Nat, NEW d \in Nat, NEW s, NEW q,
         Suspended(a, b, c, d, s), \A j \in 1 .. d : q[j] = s[j]
  PROVE  Suspended(a, b, c, d, q)
BY PlacedSame DEF Suspended

LEMMA FloorsFacts ==
  ASSUME NEW n, NEW fl, NEW s, Stacked(n, fl, s)
  PROVE  /\ n \in Seq(Native) /\ fl \in Seq(Nat)
         /\ Len(n) \in Nat /\ Len(fl) = Len(n)
         /\ \A i \in 1 .. Len(n) : fl[i] \in Nat
         /\ n # <<>> => /\ fl # <<>> /\ Last(fl) = fl[Len(n)] /\ Last(fl) \in Nat
                        /\ Last(n) = n[Len(n)] /\ Len(n) >= 1
BY LenProperties, ElementOfSeq, LastFacts, EmptySeq DEF Stacked

LEMMA StackedSame ==
  ASSUME NEW n, NEW fl, NEW s, NEW q, Stacked(n, fl, s), n # <<>>,
         \A j \in 1 .. Last(fl) : q[j] = s[j]
  PROVE  Stacked(n, fl, q)
<1>1. /\ n \in Seq(Native) /\ fl \in Seq(Nat) /\ Len(n) \in Nat \ {0}
      /\ Len(fl) = Len(n) /\ \A i \in 1 .. Len(n) : fl[i] \in Nat
      /\ Last(fl) = fl[Len(n)]
  BY FloorsFacts, EmptySeq
<1>2. ASSUME NEW i \in 1 .. Len(n) - 1
      PROVE  Suspended(n[i], n[i + 1], fl[i], fl[i + 1], q)
  <2>1. Suspended(n[i], n[i + 1], fl[i], fl[i + 1], s)
    BY DEF Stacked
  <2>2. /\ fl[i] \in Nat /\ fl[i + 1] \in Nat /\ fl[i + 1] <= fl[Len(n)]
        /\ fl[Len(n)] \in Nat
    <3>1. /\ i \in 1 .. Len(n) /\ i + 1 \in 1 .. Len(n) /\ Len(n) \in 1 .. Len(n)
          /\ i + 1 <= Len(n)
      BY <1>1
    <3>2. Rising(fl)
      BY DEF Stacked
    <3>3. \A j \in 1 .. Len(n) : j <= Len(n) => fl[j] <= fl[Len(n)]
      BY <1>1, <3>1, <3>2 DEF Rising
    <3>4. QED
      BY <1>1, <3>1, <3>3
  <2>3. \A j \in 1 .. fl[i + 1] : j \in 1 .. Last(fl)
    BY <1>1, <2>2
  <2>4. QED
    BY <2>1, <2>2, <2>3, SuspendedSame
<1>3. QED
  BY <1>2 DEF Stacked

\* The activation e is called, over d frames.
LEMMA StackedPush ==
  ASSUME NEW n, NEW fl, NEW s, Stacked(n, fl, s), NEW e \in Native, NEW d \in Nat,
         n # <<>> => Last(fl) <= d /\ Suspended(Last(n), e, Last(fl), d, s)
  PROVE  Stacked(Append(n, e), Append(fl, d), s)
<1> DEFINE m == Append(n, e)
           gl == Append(fl, d)
<1>1. /\ n \in Seq(Native) /\ fl \in Seq(Nat) /\ Len(n) \in Nat
      /\ Len(fl) = Len(n) /\ \A i \in 1 .. Len(n) : fl[i] \in Nat
      /\ n # <<>> => Last(fl) = fl[Len(n)] /\ Last(n) = n[Len(n)]
  BY FloorsFacts
<1>2. /\ m \in Seq(Native) /\ gl \in Seq(Nat)
      /\ Len(m) = Len(n) + 1 /\ Len(gl) = Len(n) + 1
      /\ \A i \in 1 .. Len(n) : m[i] = n[i] /\ gl[i] = fl[i]
      /\ m[Len(n) + 1] = e /\ gl[Len(n) + 1] = d
  BY <1>1, AppendProperties
<1>3. \A i, j \in 1 .. Len(n) : i <= j => fl[i] <= fl[j]
  BY <1>1 DEF Stacked, Rising
<1>4. \A i \in 1 .. Len(n) - 1 :
        Suspended(n[i], n[i + 1], fl[i], fl[i + 1], s)
  BY DEF Stacked
<1> HIDE DEF m, gl
<1>5. ASSUME NEW i \in 1 .. Len(n)
      PROVE  fl[i] <= d
  <2>1. n # <<>> /\ Len(n) \in 1 .. Len(n)
    BY <1>1, EmptySeq
  <2>2. fl[i] <= fl[Len(n)] /\ fl[Len(n)] <= d /\ fl[i] \in Nat /\ fl[Len(n)] \in Nat
    BY <1>1, <1>3, <2>1
  <2>3. QED
    BY <2>2
<1>6. Rising(gl)
  <2>1. SUFFICES ASSUME NEW i \in 1 .. Len(n) + 1, NEW j \in 1 .. Len(n) + 1, i <= j
                 PROVE  gl[i] <= gl[j]
    BY <1>2 DEF Rising
  <2>2. CASE j = Len(n) + 1
    BY <1>2, <1>5, <2>2
  <2>3. CASE j # Len(n) + 1
    <3>1. i \in 1 .. Len(n) /\ j \in 1 .. Len(n)
      BY <1>1, <2>1, <2>3
    <3>2. QED
      BY <1>2, <1>3, <2>1, <3>1
  <2>4. QED
    BY <2>2, <2>3
<1>7. ASSUME NEW i \in 1 .. Len(m) - 1
      PROVE  Suspended(m[i], m[i + 1], gl[i], gl[i + 1], s)
  <2>1. CASE i = Len(n)
    <3>1. n # <<>>
      BY <1>1, <2>1, EmptySeq
    <3>2. Suspended(n[Len(n)], e, fl[Len(n)], d, s)
      BY <1>1, <3>1
    <3>3. Len(n) \in 1 .. Len(n)
      BY <1>1, <1>7, <2>1
    <3>4. m[i] = n[Len(n)] /\ m[i + 1] = e /\ gl[i] = fl[Len(n)] /\ gl[i + 1] = d
      BY <1>2, <2>1, <3>3
    <3>5. QED
      BY <3>2, <3>4
  <2>2. CASE i # Len(n)
    <3>1. i \in 1 .. Len(n) - 1 /\ i \in 1 .. Len(n) /\ i + 1 \in 1 .. Len(n)
      BY <1>1, <1>2, <2>2
    <3>2. QED
      BY <1>2, <1>4, <3>1
  <2>3. QED
    BY <2>1, <2>2
<1>8. QED
  BY <1>2, <1>6, <1>7 DEF Stacked, m, gl

\* The innermost activation returns.
LEMMA StackedPop ==
  ASSUME NEW n, NEW fl, NEW s, Stacked(n, fl, s), n # <<>>
  PROVE  /\ Stacked(Front(n), Front(fl), s)
         /\ Front(n) # <<>> =>
              /\ Suspended(Last(Front(n)), Last(n), Last(Front(fl)), Last(fl), s)
              /\ Last(Front(fl)) <= Last(fl)
              /\ Last(Front(n)) = n[Len(n) - 1] /\ Len(n) > 1
<1> DEFINE m == Front(n)
           gl == Front(fl)
<1>1. /\ n \in Seq(Native) /\ fl \in Seq(Nat) /\ Len(n) \in Nat \ {0}
      /\ Len(fl) = Len(n) /\ \A i \in 1 .. Len(n) : fl[i] \in Nat
      /\ Last(fl) = fl[Len(n)] /\ Last(n) = n[Len(n)] /\ fl # <<>>
  BY FloorsFacts, EmptySeq
<1>2. /\ m \in Seq(Native) /\ gl \in Seq(Nat)
      /\ Len(m) = Len(n) - 1 /\ Len(gl) = Len(n) - 1
      /\ \A i \in 1 .. Len(n) - 1 : m[i] = n[i] /\ gl[i] = fl[i]
  BY <1>1, FrontFacts
<1>3. \A i, j \in 1 .. Len(n) : i <= j => fl[i] <= fl[j]
  BY <1>1 DEF Stacked, Rising
<1>4. \A i \in 1 .. Len(n) - 1 :
        Suspended(n[i], n[i + 1], fl[i], fl[i + 1], s)
  BY DEF Stacked
<1> HIDE DEF m, gl
<1>5. Rising(gl)
  <2>1. SUFFICES ASSUME NEW i \in 1 .. Len(n) - 1, NEW j \in 1 .. Len(n) - 1, i <= j
                 PROVE  gl[i] <= gl[j]
    BY <1>2 DEF Rising
  <2>2. i \in 1 .. Len(n) /\ j \in 1 .. Len(n)
    BY <1>1
  <2>3. QED
    BY <1>2, <1>3, <2>1, <2>2
<1>6. ASSUME NEW i \in 1 .. Len(m) - 1
      PROVE  Suspended(m[i], m[i + 1], gl[i], gl[i + 1], s)
  <2>1. i \in 1 .. Len(n) - 1 /\ i + 1 \in 1 .. Len(n) - 1
    BY <1>1, <1>2
  <2>2. QED
    BY <1>2, <1>4, <2>1
<1>7. ASSUME m # <<>>
      PROVE  /\ Suspended(Last(m), Last(n), Last(gl), Last(fl), s)
             /\ Last(gl) <= Last(fl)
             /\ Last(m) = n[Len(n) - 1] /\ Len(n) > 1
  <2> DEFINE k == Len(n) - 1
  <2>1. k \in 1 .. Len(n) - 1 /\ gl # <<>> /\ Len(m) = k /\ Len(gl) = k
    BY <1>1, <1>2, <1>7, EmptySeq, LenProperties
  <2>2. Last(m) = m[k] /\ Last(gl) = gl[k]
    BY <1>2, <1>7, <2>1, LastFacts
  <2>3. Last(m) = n[k] /\ Last(gl) = fl[k]
    BY <1>2, <2>1, <2>2
  <2>4. k + 1 = Len(n) /\ k \in 1 .. Len(n) /\ k <= Len(n) /\ Len(n) \in 1 .. Len(n)
    BY <1>1, <2>1
  <2>5. Suspended(n[k], n[Len(n)], fl[k], fl[Len(n)], s)
    BY <1>4, <2>1, <2>4
  <2>6. fl[k] <= fl[Len(n)]
    BY <1>3, <2>4
  <2>7. QED
    BY <1>1, <2>1, <2>3, <2>5, <2>6
<1>8. Stacked(m, gl, s)
  BY <1>2, <1>5, <1>6 DEF Stacked
<1>9. QED
  BY <1>7, <1>8 DEF m, gl

\* Fields of the innermost activation change that do not matter below.
LEMMA StackedTop ==
  ASSUME NEW n, NEW fl, NEW s, Stacked(n, fl, s), n # <<>>,
         NEW e \in Native, e.k = Last(n).k, e.own = Last(n).own
  PROVE  /\ Stacked([n EXCEPT ![Len(n)] = e], fl, s)
         /\ [n EXCEPT ![Len(n)] = e] # <<>>
         /\ Last([n EXCEPT ![Len(n)] = e]) = e
<1> DEFINE m == [n EXCEPT ![Len(n)] = e]
<1>1. /\ n \in Seq(Native) /\ Len(n) \in Nat \ {0} /\ Last(n) = n[Len(n)]
  BY FloorsFacts, EmptySeq
<1>2. /\ m \in Seq(Native) /\ Len(m) = Len(n)
      /\ \A i \in 1 .. Len(n) : m[i] = IF i = Len(n) THEN e ELSE n[i]
  BY <1>1, ExceptSeq
<1> HIDE DEF m
<1>3. ASSUME NEW i \in 1 .. Len(m) - 1
      PROVE  Suspended(m[i], m[i + 1], fl[i], fl[i + 1], s)
  <2>1. /\ Suspended(n[i], n[i + 1], fl[i], fl[i + 1], s)
        /\ i \in 1 .. Len(n) /\ i + 1 \in 1 .. Len(n) /\ i # Len(n)
    BY <1>1, <1>2 DEF Stacked
  <2>2. m[i] = n[i] /\ m[i + 1].k = n[i + 1].k /\ m[i + 1].own = n[i + 1].own
    BY <1>1, <1>2, <2>1
  <2>3. QED
    BY <2>1, <2>2 DEF Suspended, Outside
<1>4. Stacked(m, fl, s)
  BY <1>2, <1>3 DEF Stacked
<1>5. m # <<>> /\ Last(m) = e
  <2>1. m # <<>>
    BY <1>1, <1>2, EmptySeq
  <2>2. QED
    BY <1>1, <1>2, <2>1, LastFacts
<1>6. QED
  BY <1>4, <1>5 DEF m

\* A report reset the stacks: every activation goes on without frames.
NoFloors(n) == [i \in 1 .. Len(n) |-> 0]

LEMMA StackedLost ==
  ASSUME NEW n, NEW fl, NEW s, Stacked(n, fl, s)
  PROVE  /\ Stacked(n, NoFloors(n), <<>>)
         /\ n # <<>> => Last(NoFloors(n)) = 0
<1> DEFINE gl == NoFloors(n)
<1>1. /\ n \in Seq(Native) /\ Len(n) \in Nat /\ Len(fl) = Len(n)
      /\ \A i \in 1 .. Len(n) : fl[i] \in Nat
  BY FloorsFacts
<1>2. gl \in Seq(Nat) /\ Len(gl) = Len(n) /\ \A i \in 1 .. Len(n) : gl[i] = 0
  BY <1>1, IsASeq DEF NoFloors
<1> HIDE DEF gl
<1>3. Rising(gl)
  BY <1>2 DEF Rising
<1>4. ASSUME NEW i \in 1 .. Len(n) - 1
      PROVE  Suspended(n[i], n[i + 1], gl[i], gl[i + 1], <<>>)
  <2>1. /\ Suspended(n[i], n[i + 1], fl[i], fl[i + 1], s)
        /\ gl[i] = 0 /\ gl[i + 1] = 0
    BY <1>1, <1>2 DEF Stacked
  <2>2. Placed(n[i], 0, 0, <<>>)
    BY DEF Placed, Lost
  <2>3. UnwindsOver(n[i], fl[i]) => UnwindsOver(n[i], 0)
    BY DEF UnwindsOver, Threw
  <2>4. QED
    BY <2>1, <2>2, <2>3 DEF Suspended
<1>5. n # <<>> => Last(gl) = 0
  <2>1. SUFFICES ASSUME n # <<>> PROVE Last(gl) = 0
    OBVIOUS
  <2>2. Len(n) \in 1 .. Len(n) /\ gl # <<>>
    BY <1>1, <1>2, <2>1, EmptySeq
  <2>3. QED
    BY <1>2, <2>2, LastFacts
<1>6. QED
  BY <1>1, <1>2, <1>3, <1>4, <1>5 DEF Stacked, gl

-----------------------------------------------------------------------------
(* The innermost activation                                                *)

\* Interpreted code runs: it is placed on the floors of its callers.
LEMMA RunningOn ==
  ASSUME IInv, Floors, Running
  PROVE  \E fl \in Seq(Nat) :
           /\ Stacked(nat, fl, fs)
           /\ Placed(Last(nat), Last(fl), Len(fs), fs)
           /\ Last(fl) \in Nat /\ Last(fl) <= Len(fs)
           /\ reg.fb \in Fun /\ reg.pc.act > 0
<1>1. /\ mode = "run" /\ nat # <<>> /\ Last(nat).k = "exec" /\ fs \in Seq(Frame)
      /\ Len(fs) \in Nat /\ reg.fb \in Fun /\ reg.pc # EndIp
  BY LenProperties DEF Running, IInv, TypeOK
<1>2. PICK fl \in Seq(Nat) : OnFloors(nat, fl, fs, reg, mode)
  BY <1>1 DEF Floors
<1>3. Stacked(nat, fl, fs) /\ Last(fl) \in Nat
  BY <1>1, <1>2, FloorsFacts DEF OnFloors
<1>4. Placed(Last(nat), Last(fl), Len(fs), fs) /\ reg.pc.act > 0
  BY <1>1, <1>2 DEF OnFloors, Innermost
<1>5. Last(fl) <= Len(fs)
  BY <1>1, <1>3, <1>4, PlacedAbove
<1>6. QED
  BY <1>1, <1>3, <1>4, <1>5

\* An exception is in flight over the frames of the execute() it was thrown in.
LEMMA RaisedOn ==
  ASSUME IInv, Floors, mode = "raise"
  PROVE  \E fl \in Seq(Nat) :
           /\ Stacked(nat, fl, fs)
           /\ Placed(Last(nat), Last(fl), Len(fs), fs)
           /\ Last(fl) \in Nat /\ Last(fl) <= Len(fs)
           /\ Threw(reg, Len(fs))
<1>1. /\ nat # <<>> /\ Last(nat).k = "exec" /\ fs \in Seq(Frame)
      /\ Len(fs) \in Nat
  BY LenProperties DEF IInv, TypeOK, RaiseIsCaught
<1>2. PICK fl \in Seq(Nat) : OnFloors(nat, fl, fs, reg, mode)
  BY DEF Floors
<1>3. Stacked(nat, fl, fs) /\ Last(fl) \in Nat
  BY <1>1, <1>2, FloorsFacts DEF OnFloors
<1>4. Placed(Last(nat), Last(fl), Len(fs), fs) /\ Threw(reg, Len(fs))
  BY <1>1, <1>2 DEF OnFloors, Innermost
<1>5. Last(fl) <= Len(fs)
  BY <1>1, <1>3, <1>4, PlacedAbove
<1>6. QED
  BY <1>1, <1>3, <1>4, <1>5

\* do_unwind() goes on over the frames of the execute() that called it.
LEMMA UnwindingOn ==
  ASSUME IInv, Floors, Unwinding
  PROVE  \E fl, gl \in Seq(Nat) :
           /\ Stacked(nat, fl, fs) /\ Last(fl) = Len(fs)
           /\ UnwindsOver(Last(nat), Len(fs))
           /\ Stacked(Front(nat), gl, fs)
           /\ Placed(Last(Front(nat)), Last(gl), Len(fs), fs)
           /\ Last(gl) \in Nat /\ Last(gl) <= Len(fs)
<1>1. /\ mode = "run" /\ nat # <<>> /\ Last(nat).k = "unwind" /\ fs \in Seq(Frame)
      /\ Len(fs) \in Nat /\ Front(nat) # <<>> /\ Last(Front(nat)).k = "exec"
  BY UnwindingFacts, LenProperties DEF TypeOK
<1>2. PICK fl \in Seq(Nat) : OnFloors(nat, fl, fs, reg, mode)
  BY <1>1 DEF Floors
<1>3. Stacked(nat, fl, fs)
  BY <1>2 DEF OnFloors
<1>4. UnwindsOver(Last(nat), Len(fs)) /\ Last(fl) = Len(fs)
  BY <1>1, <1>2 DEF OnFloors, Innermost
<1>5. PICK gl : gl = Front(fl)
  OBVIOUS
<1>6. /\ Stacked(Front(nat), gl, fs)
      /\ Suspended(Last(Front(nat)), Last(nat), Last(gl), Last(fl), fs)
      /\ Last(gl) <= Last(fl)
  BY <1>1, <1>3, <1>5, StackedPop
<1>7. gl \in Seq(Nat) /\ Last(gl) \in Nat
  BY <1>1, <1>6, FloorsFacts
<1>8. Placed(Last(Front(nat)), Last(gl), Len(fs), fs)
  BY <1>1, <1>4, <1>6 DEF Suspended
<1>9. QED
  BY <1>3, <1>4, <1>6, <1>7, <1>8

-----------------------------------------------------------------------------
(* The steps                                                               *)

\* Interpreted code goes on in the same function, or throws.
LEMMA StaysFloors ==
  ASSUME IInv, Floors, Running, nat' = nat, fs' = fs,
         reg'.fb = reg.fb, reg'.pc.act = reg.pc.act, mode' \in {"run", "raise"}
  PROVE  Floors'
<1>1. PICK fl \in Seq(Nat) :
        /\ Stacked(nat, fl, fs)
        /\ Placed(Last(nat), Last(fl), Len(fs), fs)
        /\ reg.fb \in Fun /\ reg.pc.act > 0
  BY RunningOn
<1>2. Last(nat).k = "exec"
  BY DEF Running
<1>3. Innermost(Last(nat), Last(fl), fs, reg', mode')
  BY <1>1, <1>2 DEF Innermost, Threw
<1>4. QED
  BY <1>1, <1>3 DEF Floors, OnFloors

\* do_unwind() is called.
LEMMA UnwindFloors ==
  ASSUME IInv, NEW fl \in Seq(Nat), Stacked(nat, fl, fs),
         nat # <<>>, Last(nat).k = "exec",
         Placed(Last(nat), Last(fl), Len(fs), fs),
         Last(fl) \in Nat, Last(fl) <= Len(fs),
         NEW u \in Native, u.k = "unwind", UnwindsOver(u, Len(fs)),
         nat' = Append(nat, u), fs' = fs
  PROVE  Floors'
<1>1. PICK d \in Nat : d = Len(fs)
  BY LenProperties DEF IInv, TypeOK
<1>2. Suspended(Last(nat), u, Last(fl), d, fs)
  BY <1>1 DEF Suspended
<1>3. PICK gl : gl = Append(fl, d)
  OBVIOUS
<1>4. Stacked(nat', gl, fs)
  BY <1>1, <1>2, <1>3, StackedPush
<1>5. nat \in Seq(Native)
  BY DEF IInv, TypeOK
<1>6. gl \in Seq(Nat) /\ Last(gl) = d /\ Last(nat') = u
  BY <1>3, <1>5, AppendProperties, FrontAppend
<1>7. Innermost(Last(nat'), Last(gl), fs, reg', mode')
  BY <1>1, <1>6 DEF Innermost
<1>8. QED
  BY <1>4, <1>6, <1>7 DEF Floors, OnFloors

\* What start_function() does to the frames, and how it fails.
LEMMA Starts ==
  ASSUME TypeOK, ~Paused, NEW f \in Fun, NEW r \in Reg,
         NEW frames \in Seq(Frame), StartFunction(f, r, frames)
  PROVE  \/ mode' = "wild"
         \/ mode' = "raise" /\ fs' = <<>> /\ reg'.fb = r.fb /\ reg'.pc = r.pc
         \/ /\ mode' \in {"run", "raise"} /\ fs' = Append(frames, Triple(r))
            /\ \/ reg'.fb = f /\ reg'.pc.act > 0
               \/ /\ mode' = "raise" /\ reg'.fb = f /\ f \in Undefined
                  /\ reg'.pc = NullIp
<1>1. CASE Len(frames) >= MaxFrames
  <2>1. /\ mode' \in {"raise", "wild"} /\ fs' = <<>>
        /\ reg' = [r EXCEPT !.sp = Base]
    BY <1>1 DEF StartFunction
  <2>2. reg'.fb = r.fb /\ reg'.pc = r.pc
    BY <2>1 DEF Reg
  <2>3. QED
    BY <2>1, <2>2
<1>2. CASE ~ (Len(frames) >= MaxFrames)
  <2> DEFINE sp == r.sp + NLocal[f]
             ip == [act |-> acts + 1, in |-> {}]
  <2>1. /\ fs' = Append(frames, Triple(r))
        /\ IF f \in Undefined
           THEN reg' = [r EXCEPT !.fb = f, !.pc = NullIp] /\ mode' = "raise"
           ELSE /\ reg' = [r EXCEPT !.fb = f, !.bp = r.sp, !.sp = sp, !.pc = ip]
                /\ mode' = IF sp > MaxStack THEN "raise" ELSE "run"
    BY <1>2 DEF StartFunction
  <2>2. ip.act > 0
    BY DEF TypeOK
  <2> HIDE DEF sp, ip
  <2>3. CASE f \in Undefined
    <3>1. reg'.fb = f /\ reg'.pc = NullIp
      BY <2>1, <2>3 DEF Reg
    <3>2. QED
      BY <2>1, <2>3, <3>1
  <2>4. CASE f \notin Undefined
    <3>1. reg'.fb = f /\ reg'.pc = ip
      BY <2>1, <2>4 DEF Reg
    <3>2. QED
      BY <2>1, <2>2, <2>4, <3>1
  <2>5. QED
    BY <2>3, <2>4
<1>3. QED
  BY <1>1, <1>2

\* All frames are gone: n goes on without.
LEMMA LostFloors ==
  ASSUME NEW n, NEW fl, NEW s, Stacked(n, fl, s), nat' = n, fs' = <<>>,
         n # <<>> => Innermost(Last(n), 0, <<>>, reg', mode')
  PROVE  Floors'
<1>1. PICK gl : gl = NoFloors(n)
  OBVIOUS
<1>2. Stacked(n, gl, <<>>) /\ (n # <<>> => Last(gl) = 0)
  BY <1>1, StackedLost
<1>3. gl \in Seq(Nat)
  BY <1>2 DEF Stacked
<1>4. OnFloors(nat', gl, fs', reg', mode')
  BY <1>2 DEF OnFloors
<1>5. QED
  BY <1>3, <1>4 DEF Floors

\* execute() is called over the frames s, which stay below its floor.
LEMMA EnterFloors ==
  ASSUME IInv, ~Paused, NEW n, NEW fl, Stacked(n, fl, fs),
         NEW f \in Fun, NEW r \in Reg, NEW e \in Native, e.k = "exec",
         NEW frames \in Seq(Frame), Enter(f, Append(n, e), r, frames),
         Len(frames) = Bottom(e, Len(fs)) - 1,
         Outside(e) => Caller(frames[Len(frames)]),
         \A j \in 1 .. Len(fs) : frames[j] = fs[j],
         n # <<>> => Last(fl) <= Len(fs)
                     /\ Suspended(Last(n), e, Last(fl), Len(fs), fs)
  PROVE  Floors'
<1>1. PICK d \in Nat : d = Len(fs)
  BY LenProperties DEF IInv, TypeOK
<1>2. PICK gl, m : gl = Append(fl, d) /\ m = Append(n, e)
  OBVIOUS
<1>3. Stacked(m, gl, fs)
  BY <1>1, <1>2, StackedPush
<1>4. /\ n \in Seq(Native) /\ fl \in Seq(Nat)
  BY FloorsFacts
<1>5. m # <<>> /\ Last(m) = e /\ Last(gl) = d /\ gl \in Seq(Nat)
  BY <1>2, <1>4, FrontAppend, AppendProperties
<1>6. PICK q \in Reg : q = Restart(r)
  BY Constants, RegUpdate DEF Restart
<1>7. StartFunction(f, q, frames) /\ nat' = m
  BY <1>2, <1>6 DEF Enter
<1>8. q.fb = Start /\ q.pc = NullIp
  BY <1>6 DEF Restart, Reg
<1>9. CASE mode' = "wild"
  BY <1>9 DEF Floors
<1>10. CASE mode' = "raise" /\ fs' = <<>> /\ reg'.fb = q.fb /\ reg'.pc = q.pc
  <2>1. Threw(reg', 0)
    BY <1>8, <1>10 DEF Threw
  <2>2. Placed(e, 0, 0, <<>>)
    BY DEF Placed, Lost
  <2>3. Innermost(Last(m), 0, <<>>, reg', mode')
    BY <1>5, <1>10, <2>1, <2>2 DEF Innermost
  <2>4. QED
    BY <1>3, <1>7, <1>10, <2>3, LostFloors
<1>11. CASE /\ mode' \in {"run", "raise"} /\ fs' = Append(frames, Triple(q))
            /\ \/ reg'.fb = f /\ reg'.pc.act > 0
               \/ /\ mode' = "raise" /\ reg'.fb = f /\ f \in Undefined
                  /\ reg'.pc = NullIp
  <2>1. PICK t \in Frame : t = Triple(q) /\ t.fb = Start /\ t.pc = NullIp
    BY <1>8, RegFields DEF Triple
  <2>2. Placed(e, d, Len(fs'), fs')
    BY <1>1, <1>11, <2>1, PlacedBottom
  <2>3. \A j \in 1 .. d : fs'[j] = fs[j]
    <3>1. /\ \A j \in 1 .. Len(frames) : Append(frames, t)[j] = frames[j]
          /\ Len(frames) \in Nat
      BY AppendProperties, LenProperties
    <3>2. d <= Len(frames)
      BY <1>1 DEF Bottom
    <3>3. QED
      BY <1>1, <1>11, <2>1, <3>1, <3>2
  <2>4. Stacked(m, gl, fs')
    BY <1>3, <1>5, <2>3, StackedSame
  <2>5. Innermost(Last(m), Last(gl), fs', reg', mode')
    BY <1>5, <1>11, <2>2 DEF Innermost, Threw
  <2>6. QED
    BY <1>5, <1>7, <2>4, <2>5 DEF Floors, OnFloors
<1>12. QED
  BY <1>7, <1>9, <1>10, <1>11, Starts DEF IInv

\* The console executes the immediate code.
LEMMA ConsoleFloors ==
  ASSUME IInv, ~Paused, NEW flags \in {{}, {"args"}}, Console(flags)
  PROVE  Floors'
<1>1. PICK e \in Native : e = Exec(reg, flags) /\ e.k = "exec" /\ ~Outside(e)
  <2>1. flags \in Flags /\ reg \in Reg
    BY DEF Flags, IInv, TypeOK
  <2>2. PICK e : e = Exec(reg, flags)
    OBVIOUS
  <2>3. e \in Native /\ e.k = "exec"
    BY <2>1, <2>2, ExecType
  <2>4. e.own = flags
    BY <2>2 DEF Exec
  <2>5. QED
    BY <2>2, <2>3, <2>4 DEF Outside
<1>2. Stacked(<<>>, <<>>, fs)
  BY EmptySeq DEF Stacked, Rising
<1>3. <<e>> = Append(<<>>, e)
  OBVIOUS
<1>4. Enter(Temp, Append(<<>>, e), reg, fs)
  BY <1>1, <1>3 DEF Console
<1>5. /\ Temp \in Fun /\ reg \in Reg /\ fs \in Seq(Frame) /\ Len(fs) \in Nat
  BY FunAssumption, LenProperties DEF IInv, TypeOK
<1>6. Len(fs) = Bottom(e, Len(fs)) - 1
  BY <1>1, <1>5 DEF Bottom
<1>7. QED
  BY <1>1, <1>2, <1>4, <1>5, <1>6, EnterFloors

\* A call.
LEMMA CallFloors ==
  ASSUME IInv, ~Paused, Floors, NEW f \in Fun, Call(f)
  PROVE  Floors'
<1> DEFINE method == f \in Methods
           r == [reg EXCEPT !.sp = @ + NArgs[f],
                            !.op = IF method THEN reg.bp + Outer ELSE @]
<1>1. /\ Running /\ StartFunction(f, r, fs) /\ nat' = nat
  BY DEF Call
<1>2. PICK fl \in Seq(Nat) :
        /\ Stacked(nat, fl, fs)
        /\ Placed(Last(nat), Last(fl), Len(fs), fs)
        /\ Last(fl) \in Nat /\ Last(fl) <= Len(fs)
        /\ reg.fb \in Fun /\ reg.pc.act > 0
  BY <1>1, RunningOn
<1>3. PICK q \in Reg : q = r /\ q.fb = reg.fb /\ q.pc = reg.pc
  <2>1. reg \in Reg /\ reg.sp \in Int /\ reg.bp \in Int /\ reg.op \in Int
        /\ NArgs[f] \in Int
    BY RegFields, ProgramAssumption DEF IInv, TypeOK
  <2>2. PICK sp \in Int, op \in Int :
          sp = reg.sp + NArgs[f] /\ op = IF method THEN reg.bp + Outer ELSE reg.op
    BY <2>1 DEF Outer
  <2>3. r = [reg EXCEPT !.sp = sp, !.op = op]
    BY <2>2
  <2>4. r \in Reg
    BY <2>1, <2>3, RegUpdate
  <2>5. [reg EXCEPT !.sp = sp, !.op = op].fb = reg.fb
        /\ [reg EXCEPT !.sp = sp, !.op = op].pc = reg.pc
    BY <2>1 DEF Reg
  <2>6. QED
    BY <2>3, <2>4, <2>5, Zenon
<1> HIDE DEF r
<1>4. /\ nat # <<>> /\ Last(nat).k = "exec" /\ fs \in Seq(Frame) /\ TypeOK
  BY <1>1 DEF Running, IInv, TypeOK
<1>5. CASE mode' = "wild"
  BY <1>5 DEF Floors
<1>6. CASE mode' = "raise" /\ fs' = <<>> /\ reg'.fb = q.fb /\ reg'.pc = q.pc
  <2>1. Threw(reg', 0)
    BY <1>2, <1>3, <1>6 DEF Threw
  <2>2. Placed(Last(nat), 0, 0, <<>>)
    BY DEF Placed, Lost
  <2>3. Innermost(Last(nat), 0, <<>>, reg', mode')
    BY <1>4, <1>6, <2>1, <2>2 DEF Innermost
  <2>4. QED
    BY <1>1, <1>2, <1>6, <2>3, LostFloors
<1>7. CASE /\ mode' \in {"run", "raise"} /\ fs' = Append(fs, Triple(q))
           /\ \/ reg'.fb = f /\ reg'.pc.act > 0
              \/ /\ mode' = "raise" /\ reg'.fb = f /\ f \in Undefined
                 /\ reg'.pc = NullIp
  <2>1. PICK t \in Frame : t = Triple(q) /\ Caller(t)
    BY <1>2, <1>3, RegFields DEF Triple, Caller
  <2>2. Placed(Last(nat), Last(fl), Len(fs'), fs')
    BY <1>2, <1>4, <1>7, <2>1, PlacedCall
  <2>3. \A j \in 1 .. Last(fl) : fs'[j] = fs[j]
    <3>1. /\ \A j \in 1 .. Len(fs) : Append(fs, t)[j] = fs[j]
          /\ Len(fs) \in Nat
      BY <1>4, AppendProperties, LenProperties
    <3>2. QED
      BY <1>2, <1>7, <2>1, <3>1
  <2>4. Stacked(nat, fl, fs')
    BY <1>2, <1>4, <2>3, StackedSame
  <2>5. Innermost(Last(nat), Last(fl), fs', reg', mode')
    BY <1>4, <1>7, <2>2 DEF Innermost, Threw
  <2>6. QED
    BY <1>1, <2>4, <2>5 DEF Floors, OnFloors
<1>8. QED
  BY <1>1, <1>3, <1>4, <1>5, <1>6, <1>7, Starts

\* A native function calls the interpreter back.
LEMMA CallNativeFloors ==
  ASSUME IInv, ~Paused, Floors, NEW g \in Fun, CallNative(g)
  PROVE  Floors'
<1> DEFINE r == [reg EXCEPT !.sp = @ + NatArgs[reg.fb] + NArgs[g]]
           e == Exec(reg, {"args", "outside"})
           t == [Triple(r) EXCEPT !.bp = r.sp]
<1>1. Running /\ Enter(g, Append(nat, e), r, Append(fs, t))
  BY DEF CallNative
<1>2. PICK fl \in Seq(Nat) :
        /\ Stacked(nat, fl, fs)
        /\ Placed(Last(nat), Last(fl), Len(fs), fs)
        /\ Last(fl) \in Nat /\ Last(fl) <= Len(fs)
        /\ reg.fb \in Fun /\ reg.pc.act > 0
  BY <1>1, RunningOn
<1>3. PICK q \in Reg : q = r /\ q.fb = reg.fb /\ q.pc = reg.pc
  <2>1. reg \in Reg /\ reg.sp + NatArgs[reg.fb] + NArgs[g] \in Int
    <3>1. reg \in Reg /\ reg.sp \in Int
      BY RegFields DEF IInv, TypeOK
    <3>2. NatArgs[reg.fb] \in Int /\ NArgs[g] \in Int
      BY <1>2, ProgramAssumption
    <3>3. QED
      BY <3>1, <3>2
  <2>2. PICK sp \in Int : sp = reg.sp + NatArgs[reg.fb] + NArgs[g]
    BY <2>1
  <2>3. r = [reg EXCEPT !.sp = sp]
    BY <2>2
  <2>4. r \in Reg
    BY <2>1, <2>3, RegUpdate
  <2>5. [reg EXCEPT !.sp = sp].fb = reg.fb /\ [reg EXCEPT !.sp = sp].pc = reg.pc
    BY <2>1 DEF Reg
  <2>6. QED
    BY <2>3, <2>4, <2>5, Zenon
<1> HIDE DEF r
<1>4. PICK w \in Frame : w = t /\ Caller(w)
  <2>1. Triple(q) \in Frame /\ Triple(q).fb = q.fb /\ Triple(q).pc = q.pc /\ q.sp \in Int
    BY RegFields DEF Triple
  <2>2. /\ [Triple(q) EXCEPT !.bp = q.sp] \in Frame
        /\ [Triple(q) EXCEPT !.bp = q.sp].fb = q.fb
        /\ [Triple(q) EXCEPT !.bp = q.sp].pc = q.pc
    BY <2>1 DEF Frame
  <2>3. QED
    BY <1>2, <1>3, <2>2 DEF Caller
<1>5. PICK v \in Native : v = e /\ v.k = "exec" /\ Outside(v)
  <2>1. {"args", "outside"} \in Flags /\ reg \in Reg
    BY DEF Flags, IInv, TypeOK
  <2>2. e \in Native /\ e.k = "exec"
    BY <2>1, ExecType
  <2>3. e.own = {"args", "outside"}
    BY DEF Exec
  <2>4. QED
    BY <2>2, <2>3 DEF Outside
<1> HIDE DEF e, t
<1>6. /\ nat # <<>> /\ Last(nat).k = "exec" /\ fs \in Seq(Frame) /\ Len(fs) \in Nat
  BY <1>1, LenProperties DEF Running, IInv, TypeOK
<1>7. PICK frames \in Seq(Frame) :
        /\ frames = Append(fs, w) /\ Len(frames) = Len(fs) + 1
        /\ frames[Len(frames)] = w
        /\ \A j \in 1 .. Len(fs) : frames[j] = fs[j]
  <2>1. /\ Append(fs, w) \in Seq(Frame) /\ Len(Append(fs, w)) = Len(fs) + 1
        /\ Append(fs, w)[Len(fs) + 1] = w
        /\ \A j \in 1 .. Len(fs) : Append(fs, w)[j] = fs[j]
    BY <1>6, AppendProperties
  <2>2. QED
    BY <2>1
<1>8. Suspended(Last(nat), v, Last(fl), Len(fs), fs)
  BY <1>2, <1>5, <1>6 DEF Suspended
<1>9. Len(frames) = Bottom(v, Len(fs)) - 1
  BY <1>5, <1>6, <1>7 DEF Bottom
<1>10. Enter(g, Append(nat, v), q, frames)
  BY <1>1, <1>3, <1>4, <1>5, <1>7
<1>11. QED
  BY <1>2, <1>4, <1>5, <1>7, <1>8, <1>9, <1>10, EnterFloors

\* A return to the caller, or to the false bottom.
LEMMA ReturnFloors ==
  ASSUME IInv, Floors, Return
  PROVE  Floors'
<1>1. CASE GoWild
  BY <1>1 DEF GoWild, Floors
<1>2. CASE ~ GoWild
  <2>1. /\ Running /\ fs # <<>> /\ fs' = Front(fs) /\ nat' = nat /\ mode' = mode
        /\ reg'.pc = IF Last(fs).pc = NullIp THEN EndIp ELSE Last(fs).pc
    BY <1>2 DEF Return
  <2>2. PICK fl \in Seq(Nat) :
          /\ Stacked(nat, fl, fs)
          /\ Placed(Last(nat), Last(fl), Len(fs), fs)
          /\ Last(fl) \in Nat /\ Last(fl) <= Len(fs)
    BY <2>1, RunningOn
  <2>3. /\ nat # <<>> /\ Last(nat).k = "exec" /\ fs \in Seq(Frame) /\ mode = "run"
    BY <2>1 DEF Running, IInv, TypeOK
  <2>4. /\ fs' \in Seq(Frame) /\ Len(fs') = Len(fs) - 1 /\ Len(fs) \in Nat \ {0}
        /\ \A j \in 1 .. Len(fs) - 1 : fs'[j] = fs[j]
    BY <2>1, <2>3, FrontFacts
  <2>5. \/ Caller(Last(fs)) /\ Placed(Last(nat), Last(fl), Len(fs'), fs')
        \/ Last(fs).pc = NullIp /\ Done(Last(nat), Last(fl), fs')
    BY <2>1, <2>2, <2>3, PlacedTop
  <2>6. CASE Caller(Last(fs)) /\ Placed(Last(nat), Last(fl), Len(fs'), fs')
    <3>1. reg'.pc.act > 0
      BY <2>1, <2>6 DEF Caller, NullIp
    <3>2. Last(fl) <= Len(fs')
      BY <2>2, <2>4, <2>6, PlacedAbove
    <3>3. Stacked(nat, fl, fs')
      BY <2>2, <2>3, <2>4, <3>2, StackedSame
    <3>4. Innermost(Last(nat), Last(fl), fs', reg', mode')
      BY <2>1, <2>3, <2>6, <3>1 DEF Innermost
    <3>5. QED
      BY <2>1, <3>3, <3>4 DEF Floors, OnFloors
  <2>7. CASE Last(fs).pc = NullIp /\ Done(Last(nat), Last(fl), fs')
    <3>1. reg'.pc = EndIp
      BY <2>1, <2>7
    <3>2. Last(fl) <= Len(fs')
      BY <2>2, <2>4, <2>7, EmptySeq DEF Done, Bottom
    <3>3. Stacked(nat, fl, fs')
      BY <2>2, <2>3, <2>4, <3>2, StackedSame
    <3>4. Innermost(Last(nat), Last(fl), fs', reg', mode')
      BY <2>1, <2>3, <2>7, <3>1 DEF Innermost
    <3>5. QED
      BY <2>1, <3>3, <3>4 DEF Floors, OnFloors
  <2>8. QED
    BY <2>5, <2>6, <2>7
<1>3. QED
  BY <1>1, <1>2

\* execute() returns to the native function or the do_unwind() that called it,
\* with the frames it found.
LEMMA ExecEndFloors ==
  ASSUME IInv, Floors, FlagsKept, ExecEnd
  PROVE  Floors'
<1>1. CASE GoWild
  BY <1>1 DEF GoWild, Floors
<1>2. CASE ~ GoWild
  <2> DEFINE e       == Last(nat)
             outside == "outside" \in e.flags
             old     == IF outside /\ fs # <<>>
                        THEN [e.saved EXCEPT !.fb = Last(fs).fb,
                                !.pc = Last(fs).pc, !.sp = Last(fs).bp]
                        ELSE e.saved
             sp      == IF "args" \in e.flags THEN reg.sp - 1 ELSE old.sp
             r       == [reg EXCEPT !.fb = old.fb, !.pc = old.pc, !.sp = sp]
             frames  == IF outside THEN Front(fs) ELSE fs
  <2>1. /\ nat # <<>> /\ mode = "run" /\ e.k = "exec" /\ reg.pc = EndIp
        /\ (outside => fs # <<>>)
        /\ ReturnTo(Front(nat), r, frames, ods, resume, FALSE)
    BY <1>2 DEF ExecEnd
  <2>2. /\ nat \in Seq(Native) /\ fs \in Seq(Frame) /\ Len(fs) \in Nat /\ reg \in Reg
    BY LenProperties DEF IInv, TypeOK
  <2>3. outside <=> Outside(e)
    <3>1. DOMAIN nat = 1 .. Len(nat) /\ Len(nat) \in 1 .. Len(nat) /\ e = nat[Len(nat)]
      BY <2>1, <2>2, LastFacts, LenProperties
    <3>2. e.flags = e.own
      BY <2>1, <3>1 DEF FlagsKept
    <3>3. QED
      BY <3>2 DEF Outside
  <2>4. PICK fl \in Seq(Nat) : OnFloors(nat, fl, fs, reg, mode)
    BY <2>1 DEF Floors
  <2>5. Stacked(nat, fl, fs) /\ Last(fl) \in Nat /\ fl # <<>>
    BY <2>1, <2>4, FloorsFacts DEF OnFloors
  <2>6. Done(e, Last(fl), fs)
    <3>1. ~ (reg.pc.act > 0)
      BY <2>1 DEF EndIp
    <3>2. QED
      BY <2>1, <2>4, <3>1 DEF OnFloors, Innermost
  <2>7. /\ nat' = Front(nat) /\ mode' = "run" /\ fs' = frames
        /\ reg' = IF nat' # <<>> /\ Last(nat').k = "exec" THEN AfterNative(r) ELSE r
    BY <2>1 DEF ReturnTo
  <2>8. PICK gl : gl = Front(fl)
    OBVIOUS
  <2>9. /\ Stacked(nat', gl, fs)
        /\ nat' # <<>> => /\ Suspended(Last(nat'), e, Last(gl), Last(fl), fs)
                          /\ Last(gl) <= Last(fl)
    BY <2>1, <2>5, <2>7, <2>8, StackedPop
  <2>10. gl \in Seq(Nat) /\ (nat' # <<>> => Last(gl) \in Nat)
    BY <2>9, FloorsFacts
  <2> HIDE DEF e, frames, r, outside
  <2>11. CASE nat' = <<>>
    <3>1. Stacked(nat', gl, fs')
      BY <2>9, <2>11, EmptySeq DEF Stacked
    <3>2. QED
      BY <2>10, <2>11, <3>1 DEF Floors, OnFloors
  <2>12. CASE nat' # <<>> /\ Last(nat').k = "exec"
    <3>1. Outside(e) /\ Placed(Last(nat'), Last(gl), Last(fl), fs)
      BY <2>1, <2>9, <2>12 DEF Suspended
    <3>2. /\ Len(fs) = Last(fl) + 1 /\ Caller(Last(fs)) /\ fs # <<>>
      BY <2>1, <2>2, <2>3, <2>5, <2>6, <3>1, LastFacts, EmptySeq DEF Done, Bottom
    <3>3. /\ fs' = Front(fs) /\ Len(fs') = Last(fl)
          /\ \A j \in 1 .. Last(fl) : fs'[j] = fs[j]
      <4>1. fs' = Front(fs)
        BY <2>3, <2>7, <3>1 DEF frames
      <4>2. /\ Len(Front(fs)) = Len(fs) - 1
            /\ \A j \in 1 .. Len(fs) - 1 : Front(fs)[j] = fs[j]
        BY <2>2, <3>2, FrontFacts
      <4>3. Len(fs) - 1 = Last(fl)
        BY <2>5, <3>2
      <4>4. QED
        BY <4>1, <4>2, <4>3
    <3>4. Placed(Last(nat'), Last(gl), Len(fs'), fs')
      BY <2>5, <2>10, <2>12, <3>1, <3>3, PlacedSame
    <3>5. Stacked(nat', gl, fs')
      BY <2>5, <2>9, <2>10, <2>12, <3>3, StackedSame
    <3>6. reg'.pc.act > 0
      <4>1. e \in Native
        BY <2>1, <2>2, LastFacts DEF e
      <4>2. e.saved \in Reg
        BY <4>1 DEF Native
      <4>3. old.pc = Last(fs).pc
        BY <2>3, <3>1, <3>2, <4>2 DEF Reg
      <4> HIDE DEF old
      <4>4. r.pc = Last(fs).pc
        BY <2>2, <4>3 DEF r, Reg
      <4>5. r.pc.act > 0 /\ r.pc # NullIp
        BY <3>2, <4>4 DEF Caller, NullIp
      <4>6. AfterNative(r).pc = r.pc
        BY <2>2, <4>5 DEF AfterNative, r, Reg
      <4>7. QED
        BY <2>7, <2>12, <4>5, <4>6
    <3>7. Innermost(Last(nat'), Last(gl), fs', reg', mode')
      BY <2>7, <2>12, <3>4, <3>6 DEF Innermost
    <3>8. QED
      BY <2>10, <3>5, <3>7 DEF Floors, OnFloors
  <2>13. CASE nat' # <<>> /\ Last(nat').k = "unwind"
    <3>1. ~Outside(e) /\ Last(fl) = Last(gl) /\ UnwindsOver(Last(nat'), Last(gl))
      BY <2>9, <2>13 DEF Suspended
    <3>2. Len(fs) = Last(gl) /\ fs' = fs
      BY <2>2, <2>3, <2>5, <2>6, <2>7, <3>1, EmptySeq DEF Done, Bottom, frames
    <3>3. Innermost(Last(nat'), Last(gl), fs', reg', mode')
      BY <2>13, <3>1, <3>2 DEF Innermost
    <3>4. QED
      BY <2>9, <2>10, <3>2, <3>3 DEF Floors, OnFloors
  <2>14. nat' # <<>> => Last(nat').k \in {"exec", "unwind"}
    <3>1. nat' \in Seq(Native)
      BY <2>9 DEF Stacked
    <3>2. nat' # <<>> => Last(nat') \in Native
      BY <3>1, LastFacts
    <3>3. QED
      BY <3>2 DEF Native
  <2>15. QED
    BY <2>11, <2>12, <2>13, <2>14
<1>3. QED
  BY <1>1, <1>2

\* throw_exception() calls do_unwind() for a handler of the type, or for none.
LEMMA ThrowUnwinds ==
  ASSUME IInv, NEW type \in Type \union {NoType},
         NEW again \in BOOLEAN, again => cur # NoFun,
         NEW caught \in After, NEW lost \in After,
         ThrowException(type, again, caught, lost)
  PROVE  \E u \in Native :
           /\ nat' = Append(nat, u) /\ u.k = "unwind" /\ u.saved = reg
           /\ u.depth = Len(fs)
           /\ \/ u.after = lost
              \/ u.after = caught /\ u.h \in Fun /\ Handles[u.h] # {}
<1>1. TypeOK /\ ods \in Seq(Entry)
  BY Typed
<1> DEFINE try  == {i \in DOMAIN ods : ods[i].try # NoFun}
           t    == IF again THEN thrown[cur] ELSE type
           hits == {i \in try : t \in Handles[ods[i].try]}
<1>2. /\ hits \in SUBSET (0 .. Len(ods)) /\ Len(ods) \in Nat
      /\ \A i \in hits : i \in 1 .. Len(ods) /\ ods[i].try # NoFun
                         /\ t \in Handles[ods[i].try]
  BY <1>1, LenProperties
<1>3. hits # {} =>
        nat' = Append(nat, Unwind(ods[Max(hits)].obj, caught, ods[Max(hits)].try,
                                  ods[Max(hits)].act))
  BY Zenon DEF ThrowException
<1>4. hits = {} => nat' = Append(nat, Unwind(NullObj, lost, NoFun, 0))
  BY Zenon DEF ThrowException
<1> HIDE DEF hits, try, t
<1>5. CASE hits # {}
  <2>1. Max(hits) \in hits
    BY <1>2, <1>5, MaxElement, Zenon
  <2>2. PICK k \in 1 .. Len(ods) : k = Max(hits) /\ k \in hits
    BY <1>2, <2>1, Zenon
  <2>3. ods[k].obj \in Int /\ ods[k].try \in Fun /\ ods[k].act \in Int
    <3>1. ods[k].try # NoFun
      BY <1>2, <2>2
    <3>2. QED
      BY <1>1, <3>1, EntryFields
  <2>4. PICK u \in Native : u = Unwind(ods[k].obj, caught, ods[k].try, ods[k].act)
    BY <1>1, <2>3, UnwindType
  <2>5. /\ u.k = "unwind" /\ u.saved = reg /\ u.depth = Len(fs)
        /\ u.after = caught /\ u.h = ods[k].try
    BY <2>4 DEF Unwind
  <2>6. Handles[u.h] # {}
    BY <1>2, <2>2, <2>5
  <2>7. nat' = Append(nat, u)
    BY <1>3, <1>5, <2>2, <2>4
  <2>8. QED
    BY <2>3, <2>5, <2>6, <2>7
<1>6. CASE hits = {}
  <2>1. NullObj \in Int /\ NoFun \in Fun \union {NoFun} /\ 0 \in Int
    BY Constants
  <2>2. PICK u \in Native : u = Unwind(NullObj, lost, NoFun, 0)
    BY <1>1, <2>1, UnwindType, Zenon
  <2>3. u.k = "unwind" /\ u.saved = reg /\ u.depth = Len(fs) /\ u.after = lost
    BY <2>2 DEF Unwind
  <2>4. nat' = Append(nat, u)
    BY <1>4, <1>6, <2>2
  <2>5. QED
    BY <2>3, <2>4
<1>7. QED
  BY <1>5, <1>6

\* A throw statement, with a type or bare.
LEMMA ThrowingFloors ==
  ASSUME IInv, Floors, Running,
         NEW type \in Type \union {NoType}, NEW again \in BOOLEAN,
         again => cur # NoFun,
         ThrowException(type, again, "catch", "uncaught"), fs' = fs
  PROVE  Floors'
<1>1. PICK u \in Native :
        /\ nat' = Append(nat, u) /\ u.k = "unwind" /\ u.saved = reg
        /\ u.depth = Len(fs)
        /\ \/ u.after = "uncaught"
           \/ u.after = "catch" /\ u.h \in Fun /\ Handles[u.h] # {}
  BY ThrowUnwinds DEF After
<1>2. PICK fl \in Seq(Nat) :
        /\ Stacked(nat, fl, fs)
        /\ Placed(Last(nat), Last(fl), Len(fs), fs)
        /\ Last(fl) \in Nat /\ Last(fl) <= Len(fs)
        /\ reg.fb \in Fun /\ reg.pc.act > 0
  BY RunningOn
<1>3. UnwindsOver(u, Len(fs))
  BY <1>1, <1>2 DEF UnwindsOver, Threw
<1>4. nat # <<>> /\ Last(nat).k = "exec"
  BY DEF Running
<1>5. QED
  BY <1>1, <1>2, <1>3, <1>4, UnwindFloors

\* execute() catches a native Exception.
LEMMA HandleRaiseFloors ==
  ASSUME IInv, ~Paused, Floors, HandleRaise
  PROVE  Floors'
<1>1. /\ mode = "raise" /\ fs' = fs
      /\ ThrowException(FaultType, FALSE, "resume", "crash")
  BY DEF HandleRaise
<1>2. PICK u \in Native :
        /\ nat' = Append(nat, u) /\ u.k = "unwind" /\ u.saved = reg
        /\ u.depth = Len(fs)
        /\ \/ u.after = "crash"
           \/ u.after = "resume" /\ u.h \in Fun /\ Handles[u.h] # {}
  BY <1>1, FunAssumption, ThrowUnwinds DEF After
<1>3. PICK fl \in Seq(Nat) :
        /\ Stacked(nat, fl, fs)
        /\ Placed(Last(nat), Last(fl), Len(fs), fs)
        /\ Last(fl) \in Nat /\ Last(fl) <= Len(fs)
        /\ Threw(reg, Len(fs))
  BY <1>1, RaisedOn
<1>4. UnwindsOver(u, Len(fs))
  BY <1>2, <1>3 DEF UnwindsOver
<1>5. nat # <<>> /\ Last(nat).k = "exec"
  BY <1>1 DEF IInv, RaiseIsCaught
<1>6. QED
  BY <1>1, <1>2, <1>3, <1>4, <1>5, UnwindFloors

\* A scope is left.
LEMMA LeaveScopeFloors ==
  ASSUME IInv, Floors, NEW slot \in Slot, LeaveScope(slot)
  PROVE  Floors'
<1>1. Running /\ fs' = fs /\ mode' = mode
  BY DEF LeaveScope
<1>2. reg \in Reg /\ nat # <<>> /\ Last(nat).k = "exec" /\ TypeOK /\ mode = "run"
  BY <1>1, Typed DEF Running
<1>3. CASE nat' = Append(nat, Unwind(reg.bp + slot, "next", NoFun, reg.pc.act))
  <2>1. PICK fl \in Seq(Nat) :
          /\ Stacked(nat, fl, fs)
          /\ Placed(Last(nat), Last(fl), Len(fs), fs)
          /\ Last(fl) \in Nat /\ Last(fl) <= Len(fs)
          /\ reg.fb \in Fun /\ reg.pc.act > 0
    BY <1>1, RunningOn
  <2>2. PICK p \in Int : p = reg.bp + slot
    BY <1>2, RegFields DEF Slot, Outer, Marker, Inner
  <2>3. PICK u \in Native : u = Unwind(p, "next", NoFun, reg.pc.act)
    <3>1. reg.pc.act \in Int /\ "next" \in After
      BY <1>2, RegFields DEF Ip, After
    <3>2. QED
      BY <1>2, <3>1, UnwindType, Zenon
  <2>4. u.k = "unwind" /\ u.saved = reg /\ u.depth = Len(fs) /\ u.after = "next"
    BY <2>3 DEF Unwind
  <2>5. UnwindsOver(u, Len(fs))
    BY <2>1, <2>4 DEF UnwindsOver, Threw
  <2>6. nat' = Append(nat, u)
    BY <1>3, <2>2, <2>3
  <2>7. QED
    BY <1>1, <1>2, <2>1, <2>4, <2>5, <2>6, UnwindFloors
<1>4. CASE nat' = nat /\ reg' = [reg EXCEPT !.pc.in = {s \in @ : s < slot}]
  <2>1. reg'.fb = reg.fb /\ reg'.pc.act = reg.pc.act
    BY <1>2, <1>4 DEF Reg, Ip
  <2>2. QED
    BY <1>1, <1>2, <1>4, <2>1, StaysFloors
<1>5. QED
  BY <1>3, <1>4 DEF LeaveScope

\* do_unwind() returns; the code goes on or a native Exception is thrown.
LEMMA UnwoundFloors ==
  ASSUME IInv, Floors, Unwinding, nat' = Front(nat), fs' = fs,
         \/ mode' = "run" /\ reg'.pc.act > 0
         \/ mode' = "raise" /\ reg' = Last(nat).saved
  PROVE  Floors'
<1>1. PICK gl \in Seq(Nat) :
        /\ UnwindsOver(Last(nat), Len(fs))
        /\ Stacked(Front(nat), gl, fs)
        /\ Placed(Last(Front(nat)), Last(gl), Len(fs), fs)
  BY UnwindingOn
<1>2. Last(Front(nat)).k = "exec"
  BY UnwindingFacts
<1>3. Innermost(Last(Front(nat)), Last(gl), fs, reg', mode')
  BY <1>1, <1>2 DEF Innermost, UnwindsOver
<1>4. QED
  BY <1>1, <1>3 DEF Floors, OnFloors

LEMMA LeftScopeFloors ==
  ASSUME IInv, Floors, LeftScope
  PROVE  Floors'
<1>1. /\ Unwinding /\ nat' = Front(nat) /\ fs' = fs /\ mode' = "run"
      /\ Last(nat).after = "next"
  BY DEF LeftScope, UnwindEnds, Unwinding
<1>2. UnwindsOver(Last(nat), Len(fs)) /\ Last(nat).saved \in Reg
  BY <1>1, UnwindingOn, UnwindingFacts
<1>3. Last(nat).saved.pc.act > 0
  BY <1>1, <1>2 DEF UnwindsOver
<1>4. reg'.pc.act = Last(nat).saved.pc.act
  BY <1>2 DEF LeftScope, Reg, Ip
<1>5. QED
  BY <1>1, <1>3, <1>4, UnwoundFloors

LEMMA UncaughtFloors ==
  ASSUME IInv, Floors, Uncaught
  PROVE  Floors'
BY UnwoundFloors DEF Uncaught, UnwindEnds

\* A catch block runs in a caller of the same execute().
LEMMA CatchPlaces ==
  ASSUME IInv, NEW e, NEW c \in Nat, Placed(e, c, Len(fs), fs),
         NEW u \in Native, UnwindsOver(u, Len(fs)),
         u.h \in Fun, Handles[u.h] # {}, Catch(u)
  PROVE  \/ mode' = "wild"
         \/ /\ mode' = "run" /\ reg'.pc.act > 0
            /\ Placed(e, c, Len(fs'), fs')
            /\ \A j \in 1 .. Len(fs') : fs'[j] = fs[j]
<1> DEFINE r     == u.saved
           above == {i \in DOMAIN fs : fs[i].fb = u.h
                                  /\ \A j \in i + 1 .. Len(fs) : fs[j].fb # Start}
<1>1. /\ fs \in Seq(Frame) /\ Len(fs) \in Nat /\ DOMAIN fs = 1 .. Len(fs)
      /\ r \in Reg
  BY LenProperties DEF IInv, TypeOK, Native
<1>2. \A a : CatchIp(u.h, a).act = a
  BY DEF CatchIp
<1>3. CASE r.fb = u.h
  <2>1. reg' = [r EXCEPT !.pc = CatchIp(u.h, r.pc.act)] /\ mode' = "run"
        /\ fs' = fs
    BY <1>3 DEF Catch
  <2>2. reg'.pc.act = r.pc.act
    BY <1>1, <1>2, <2>1 DEF Reg
  <2>3. r.pc.act > 0
    <3>1. u.h \notin Undefined /\ u.h # Start
      BY UndefinedAssumption, FunAssumption
    <3>2. QED
      BY <1>3, <3>1 DEF UnwindsOver, Threw
  <2>4. QED
    BY <2>1, <2>2, <2>3
<1>4. CASE r.fb # u.h /\ r.fb # Start /\ above # {}
  <2> DEFINE i == Max(above)
  <2>1. /\ reg' = [r EXCEPT !.fb = u.h, !.bp = fs[i].bp,
                            !.pc = CatchIp(u.h, fs[i].pc.act)]
        /\ fs' = SubSeq(fs, 1, i - 1) /\ mode' = "run"
    BY <1>4, Zenon DEF Catch
  <2>2. above \in SUBSET (0 .. Len(fs)) /\ above \subseteq 1 .. Len(fs)
    BY <1>1
  <2>3. \A k \in above : fs[k].fb = u.h /\ \A j \in k + 1 .. Len(fs) : fs[j].fb # Start
    OBVIOUS
  <2> HIDE DEF above
  <2>4. i \in above
    BY <1>1, <1>4, <2>2, MaxElement
  <2>5. /\ i \in 1 .. Len(fs) /\ fs[i].fb = u.h
        /\ \A j \in i + 1 .. Len(fs) : fs[j].fb # Start
    BY <2>2, <2>3, <2>4
  <2> HIDE DEF i
  <2>6. Caller(fs[i]) /\ Placed(e, c, i - 1, fs)
    BY <1>1, <2>5, FunAssumption, PlacedFrame
  <2>7. PICK m \in Nat : m = i - 1 /\ m < Len(fs)
    BY <1>1, <2>5
  <2>8. /\ fs' = SubSeq(fs, 1, m) /\ Len(fs') = m
        /\ \A j \in 1 .. m : fs'[j] = fs[j]
    <3>1. \A j \in 1 .. m : fs[j] \in Frame
      BY <1>1, <2>7, ElementOfSeq
    <3>2. fs' = SubSeq(fs, 1, m)
      BY <2>1, <2>7
    <3>3. /\ Len(SubSeq(fs, 1, m)) = IF 1 <= m THEN m - 1 + 1 ELSE 0
          /\ \A j \in 1 .. m - 1 + 1 : SubSeq(fs, 1, m)[j] = fs[1 + j - 1]
      BY <3>1, SubSeqProperties
    <3>4. QED
      BY <3>2, <3>3
  <2>9. Placed(e, c, m, fs')
    BY <2>6, <2>7, <2>8, PlacedSame
  <2>10. reg'.pc.act > 0
    <3>1. reg'.pc = CatchIp(u.h, fs[i].pc.act)
      BY <1>1, <2>1 DEF Reg
    <3>2. QED
      BY <1>2, <2>6, <3>1 DEF Caller
  <2>11. QED
    BY <2>1, <2>8, <2>9, <2>10
<1>5. CASE r.fb # u.h /\ ~ (r.fb # Start /\ above # {})
  BY <1>5, Zenon DEF Catch
<1>6. QED
  BY <1>3, <1>4, <1>5

\* The exception goes on in a catch block.
LEMMA CaughtFloors ==
  ASSUME IInv, Floors, Unwinding, Catch(Last(nat)),
         Last(nat).after \in {"catch", "resume"},
         NEW gl \in Seq(Nat), Stacked(nat', gl, fs),
         nat' # <<>>, Last(nat').k = "exec",
         Placed(Last(nat'), Last(gl), Len(fs), fs), Last(gl) \in Nat
  PROVE  Floors'
<1>1. UnwindsOver(Last(nat), Len(fs)) /\ Last(nat) \in Native
  BY UnwindingOn, UnwindingFacts
<1>2. Last(nat).h \in Fun /\ Handles[Last(nat).h] # {}
  BY <1>1 DEF UnwindsOver
<1>3. CASE mode' = "wild"
  BY <1>3 DEF Floors
<1>4. CASE /\ mode' = "run" /\ reg'.pc.act > 0
           /\ Placed(Last(nat'), Last(gl), Len(fs'), fs')
           /\ \A j \in 1 .. Len(fs') : fs'[j] = fs[j]
  <2>1. Len(fs') \in Nat
    <3>1. fs' \in Seq(Frame)
      BY <1>1, CatchInv DEF IInv
    <3>2. QED
      BY <3>1, LenProperties
  <2>2. Last(gl) <= Len(fs')
    BY <1>4, <2>1, PlacedAbove
  <2>3. Stacked(nat', gl, fs')
    BY <1>4, <2>1, <2>2, StackedSame
  <2>4. Innermost(Last(nat'), Last(gl), fs', reg', mode')
    BY <1>4 DEF Innermost
  <2>5. QED
    BY <2>3, <2>4 DEF Floors, OnFloors
<1>5. QED
  BY <1>1, <1>2, <1>3, <1>4, CatchPlaces

\* In THROW_EX.
LEMMA CaughtThrowFloors ==
  ASSUME IInv, Floors, Caught
  PROVE  Floors'
<1>1. /\ Unwinding /\ Catch(Last(nat)) /\ nat' = Front(nat)
      /\ Last(nat).after = "catch"
  BY DEF Caught, UnwindEnds
<1>2. PICK gl \in Seq(Nat) :
        /\ Stacked(Front(nat), gl, fs)
        /\ Placed(Last(Front(nat)), Last(gl), Len(fs), fs)
        /\ Last(gl) \in Nat
  BY <1>1, UnwindingOn
<1>3. Front(nat) # <<>> /\ Last(Front(nat)).k = "exec"
  BY <1>1, UnwindingFacts
<1>4. QED
  BY <1>1, <1>2, <1>3, CaughtFloors

\* In execute().
LEMMA CaughtNativeFloors ==
  ASSUME IInv, Floors, CaughtNative
  PROVE  Floors'
<1> DEFINE flags == IF xargs = NoArgs THEN {} ELSE xargs
<1>1. PICK n : n = Front(nat)
  OBVIOUS
<1>2. /\ Unwinding /\ Catch(Last(nat)) /\ Last(nat).after = "resume"
      /\ nat' = [n EXCEPT ![Len(n)].flags = flags]
  BY <1>1 DEF CaughtNative, UnwindEnds
<1>3. flags \in Flags
  BY DEF IInv, TypeOK, Flags
<1> HIDE DEF flags
<1>4. PICK gl \in Seq(Nat) :
        /\ Stacked(n, gl, fs)
        /\ Placed(Last(n), Last(gl), Len(fs), fs)
        /\ Last(gl) \in Nat
  BY <1>1, <1>2, UnwindingOn
<1>5. n \in Seq(Native) /\ n # <<>> /\ Last(n).k = "exec"
  BY <1>1, <1>2, UnwindingFacts
<1>6. PICK z \in Native : z = Last(n) /\ z = n[Len(n)]
  BY <1>5, LastFacts
<1>7. PICK v : v = [z EXCEPT !.flags = flags]
  OBVIOUS
<1>8. v \in Native /\ v.k = z.k /\ v.own = z.own
  BY <1>3, <1>7 DEF Native
<1>9. nat' = [n EXCEPT ![Len(n)] = v]
  BY <1>2, <1>6, <1>7
<1>10. /\ Stacked(nat', gl, fs) /\ nat' # <<>> /\ Last(nat') = v
  BY <1>4, <1>5, <1>6, <1>8, <1>9, StackedTop
<1>11. Placed(v, Last(gl), Len(fs), fs)
  BY <1>4, <1>6, <1>8 DEF Placed, Standing, Bottom, Outside
<1>12. QED
  BY <1>2, <1>4, <1>5, <1>6, <1>8, <1>10, <1>11, CaughtFloors

\* do_unwind() pops a record, and executes the destructor of an object.
LEMMA UnwindStepFloors ==
  ASSUME IInv, ~Paused, Floors, UnwindStep
  PROVE  Floors'
<1>1. /\ reg \in Reg /\ nat \in Seq(Native) /\ nat # <<>> /\ Last(nat).k = "unwind"
      /\ ods \in Seq(Entry) /\ ods # <<>> /\ fs \in Seq(Frame) /\ Len(fs) \in Nat
      /\ Unwinding /\ mode = "run"
  BY Typed, LenProperties DEF UnwindStep, Unwinding, UnwindStops, TypeOK
<1>2. PICK o \in Int : o = Last(ods).obj
  <2>1. Last(ods) \in Entry
    BY <1>1, LastFacts
  <2>2. QED
    BY <2>1 DEF Entry
<1>3. PICK fl \in Seq(Nat) :
        /\ Stacked(nat, fl, fs) /\ Last(fl) = Len(fs)
        /\ UnwindsOver(Last(nat), Len(fs))
  BY <1>1, UnwindingOn
<1>4. PICK n, v :
        /\ n = [nat EXCEPT ![Len(nat)].obj = o]
        /\ Stacked(n, fl, fs) /\ n # <<>> /\ Last(n) = v
        /\ v.k = "unwind" /\ UnwindsOver(v, Len(fs))
  <2>1. PICK z \in Native : z = Last(nat) /\ z = nat[Len(nat)]
    BY <1>1, LastFacts
  <2>2. PICK v : v = [z EXCEPT !.obj = o]
    OBVIOUS
  <2>3. /\ v \in Native /\ v.k = z.k /\ v.own = z.own /\ v.depth = z.depth
        /\ v.saved = z.saved /\ v.after = z.after /\ v.h = z.h
    BY <2>2 DEF Native
  <2>4. [nat EXCEPT ![Len(nat)].obj = o] = [nat EXCEPT ![Len(nat)] = v]
    BY <2>1, <2>2
  <2>5. /\ Stacked([nat EXCEPT ![Len(nat)] = v], fl, fs)
        /\ [nat EXCEPT ![Len(nat)] = v] # <<>>
        /\ Last([nat EXCEPT ![Len(nat)] = v]) = v
    BY <1>1, <1>3, <2>1, <2>3, StackedTop
  <2>6. v.k = "unwind" /\ UnwindsOver(v, Len(fs))
    BY <1>1, <1>3, <2>1, <2>3 DEF UnwindsOver
  <2>7. QED
    BY <2>4, <2>5, <2>6
<1>5. CASE Last(ods).try # NoFun
  <2>1. nat' = n /\ fs' = fs /\ mode' = "run"
    BY <1>1, <1>2, <1>4, <1>5 DEF UnwindStep
  <2>2. Innermost(Last(n), Last(fl), fs, reg', mode')
    BY <1>3, <1>4 DEF Innermost
  <2>3. QED
    BY <1>4, <2>1, <2>2 DEF Floors, OnFloors
<1>6. CASE ~(Last(ods).try # NoFun)
  <2>1. PICK r \in Reg : r = [reg EXCEPT !.op = o]
    BY <1>1, Zenon DEF Reg
  <2>2. Enter(Dtor, Append(n, Exec(r, {})), r, fs)
    BY <1>2, <1>4, <1>6, <2>1 DEF UnwindStep
  <2>3. PICK e \in Native : e = Exec(r, {}) /\ e.k = "exec" /\ ~Outside(e)
    <3>1. Exec(r, {}) \in Native /\ Exec(r, {}).k = "exec"
      BY ExecType DEF Flags
    <3>2. Exec(r, {}).own = {}
      BY DEF Exec
    <3>3. QED
      BY <3>1, <3>2 DEF Outside
  <2>4. Suspended(Last(n), e, Last(fl), Len(fs), fs)
    BY <1>3, <1>4, <2>3 DEF Suspended
  <2>5. Len(fs) = Bottom(e, Len(fs)) - 1
    BY <1>1, <2>3 DEF Bottom
  <2>6. Dtor \in Fun /\ Last(fl) <= Len(fs)
    BY <1>1, <1>3, FunAssumption
  <2>7. QED
    BY <1>1, <1>4, <2>1, <2>2, <2>3, <2>4, <2>5, <2>6, EnterFloors
<1>7. QED
  BY <1>5, <1>6

\* The report of an exception resets the stacks, and leaves registers that
\* point to a caller or nowhere.
LEMMA ReportLoses ==
  ASSUME NEW e, NEW c \in Nat, NEW s \in Seq(Frame), Placed(e, c, Len(s), s),
         NEW r \in Reg, Threw(r, Len(s)), NEW o,
         NEW m, m = ExecMessage(r, s, o)
  PROVE  m.fs = <<>> /\ (m.reg.pc.act > 0 \/ m.reg.pc = NullIp)
<1>1. Len(s) \in Nat /\ DOMAIN s = 1 .. Len(s)
  BY LenProperties
<1>2. r.pc.act > 0 \/ r.pc = NullIp
  BY DEF Threw
<1>3. CASE r.fb = Start
  <2>1. m.reg = r /\ m.fs = s
    BY <1>3 DEF ExecMessage
  <2>2. Len(s) = 0
    <3>1. Start \notin Fun /\ Start \notin Undefined
      BY FunAssumption, UndefinedAssumption
    <3>2. QED
      BY <1>3, <3>1 DEF Threw
  <2>3. QED
    BY <1>2, <2>1, <2>2, EmptySeq
<1>4. CASE r.fb # Start
  <2> DEFINE S == {0} \union {i \in DOMAIN s : s[i].fb = Start}
             bottom == Max(S)
             all  == IF bottom = 0 THEN Len(s) ELSE Len(s) - bottom + 1
             pops == IF all > MaxTrace + 1 THEN MaxTrace + 1 ELSE all
             left == Len(s) - pops
             t    == IF pops = 0 THEN Triple(r) ELSE s[left + 1]
  <2>1. m.fs = <<>> /\ \E sp : m.reg = [r EXCEPT !.pc = t.pc, !.fb = t.fb, !.bp = t.bp, !.sp = sp]
    <3>1. PICK sp : sp = IF left > 0 THEN Base ELSE r.sp
      OBVIOUS
    <3>2. /\ m.fs = <<>>
          /\ m.reg = [r EXCEPT !.pc = t.pc, !.fb = t.fb, !.bp = t.bp, !.sp = sp]
      BY <1>4, <3>1 DEF ExecMessage
    <3>3. QED
      BY <3>2
  <2>2. S \in SUBSET (0 .. Len(s)) /\ S # {}
    BY <1>1
  <2>3. Bottom(e, c) \in 1 .. Len(s) /\ s[Bottom(e, c)].fb = Start => Bottom(e, c) \in S
    BY <1>1
  <2> HIDE DEF S
  <2>4. bottom \in 0 .. Len(s) /\ (Bottom(e, c) \in S => Bottom(e, c) <= bottom)
    BY <1>1, <2>2, MaxElement, MaxIsMax
  <2> HIDE DEF bottom
  <2>5. all \in 0 .. Len(s) /\ (bottom # 0 => all = Len(s) - bottom + 1)
    BY <1>1, <2>4
  <2> HIDE DEF all
  <2>6. /\ pops \in 0 .. Len(s) /\ pops <= all
        /\ pops # 0 => left + 1 \in 1 .. Len(s)
    BY <1>1, <2>5, BoundAssumption
  <2>7. left + 1 >= bottom
    BY <1>1, <2>4, <2>5, <2>6
  <2> HIDE DEF pops
  <2>8. PICK k : k = left + 1
    OBVIOUS
  <2>9. pops # 0 => k \in 1 .. Len(s) /\ k >= bottom
    BY <2>6, <2>7, <2>8
  <2>10. t = IF pops = 0 THEN Triple(r) ELSE s[k]
    BY <2>8
  <2> HIDE DEF left, t
  <2>11. pops # 0 => Caller(s[k]) \/ s[k].pc = NullIp
    <3>1. SUFFICES ASSUME pops # 0 PROVE Caller(s[k]) \/ s[k].pc = NullIp
      OBVIOUS
    <3>2. CASE Standing(e, c, Len(s), s)
      <4>1. Bottom(e, c) \in 1 .. Len(s) /\ s[Bottom(e, c)].fb = Start
        BY <1>1, <3>2 DEF Standing, Bottom
      <4>2. k \in c + 1 .. Len(s)
        BY <2>3, <2>4, <2>9, <3>1, <4>1 DEF Bottom
      <4>3. QED
        BY <3>2, <4>2 DEF Standing
    <3>3. CASE Lost(c, Len(s), s)
      BY <2>9, <3>1, <3>3 DEF Lost
    <3>4. QED
      BY <3>2, <3>3 DEF Placed
  <2>12. t.pc.act > 0 \/ t.pc = NullIp
    <3>1. CASE pops = 0
      BY <1>2, <2>10, <3>1 DEF Triple
    <3>2. CASE pops # 0
      BY <2>10, <2>11, <3>2 DEF Caller
    <3>3. QED
      BY <3>1, <3>2
  <2>13. m.reg.pc = t.pc
    BY <2>1 DEF Reg
  <2>14. QED
    BY <2>1, <2>12, <2>13
<1>5. QED
  BY <1>3, <1>4

\* execute() reports an exception that nobody caught, and returns.
LEMMA CrashFloors ==
  ASSUME IInv, Floors, Crash
  PROVE  Floors'
<1>1. PICK m : m = ExecMessage(Last(nat).saved, fs, ods)
  OBVIOUS
<1>2. Unwinding /\ ReturnTo(Front(Front(nat)), m.reg, m.fs, m.ods, m.rs, TRUE)
  BY <1>1, Zenon DEF Crash, UnwindEnds
<1>3. PICK gl \in Seq(Nat) :
        /\ UnwindsOver(Last(nat), Len(fs))
        /\ Stacked(Front(nat), gl, fs)
        /\ Placed(Last(Front(nat)), Last(gl), Len(fs), fs)
        /\ Last(gl) \in Nat
  BY <1>2, UnwindingOn
<1>4. fs \in Seq(Frame) /\ Last(nat).saved \in Reg /\ Front(nat) # <<>>
  BY <1>2, UnwindingFacts DEF IInv, TypeOK
<1>5. m.fs = <<>> /\ (m.reg.pc.act > 0 \/ m.reg.pc = NullIp)
  <2>1. Threw(Last(nat).saved, Len(fs))
    BY <1>3 DEF UnwindsOver
  <2>2. QED
    BY <1>1, <1>3, <1>4, <2>1, ReportLoses
<1>6. m.reg \in Reg /\ m.ods \in Seq(Entry)
  BY <1>1, <1>4, Typed, ExecMessageType
<1>7. PICK n : n = Front(Front(nat))
  OBVIOUS
<1>8. nat' = n /\ mode' = "run"
  BY <1>2, <1>7 DEF ReturnTo
<1>9. /\ Stacked(n, Front(gl), fs)
      /\ n # <<>> => Suspended(Last(n), Last(Front(nat)), Last(Front(gl)), Last(gl), fs)
  BY <1>3, <1>4, <1>7, StackedPop
<1>10. n \in Seq(Native) /\ (n # <<>> => Last(n) \in Native)
  <2>1. n \in Seq(Native)
    BY <1>9 DEF Stacked
  <2>2. QED
    BY <2>1, LastFacts
<1>11. CASE n # <<>> /\ Last(n).k = "unwind"
  <2>1. PICK q : q = ExecMessage(m.reg, m.fs, m.ods)
    OBVIOUS
  <2>2. fs' = q.fs
    BY <1>2, <1>7, <1>11, <2>1, Zenon DEF ReturnTo
  <2>3. q.fs = <<>>
    BY <1>5, <2>1, Zenon DEF ExecMessage
  <2>4. UnwindsOver(Last(n), 0)
    BY <1>9, <1>11 DEF Suspended, UnwindsOver, Threw
  <2>5. Innermost(Last(n), 0, <<>>, reg', mode')
    BY <1>11, <2>4, EmptySeq DEF Innermost
  <2>6. QED
    BY <1>8, <1>9, <2>2, <2>3, <2>5, LostFloors
<1>12. CASE n # <<>> /\ Last(n).k = "exec"
  <2>1. fs' = <<>> /\ reg' = AfterNative(m.reg)
    BY <1>2, <1>5, <1>7, <1>12 DEF ReturnTo
  <2>2. reg'.pc = IF m.reg.pc = NullIp THEN EndIp ELSE m.reg.pc
    BY <1>6, <2>1 DEF AfterNative, Reg
  <2>3. reg'.pc.act > 0 \/ reg'.pc = EndIp
    BY <1>5, <2>2
  <2>4. Placed(Last(n), 0, 0, <<>>) /\ Done(Last(n), 0, <<>>)
    BY DEF Placed, Lost, Done
  <2>5. Innermost(Last(n), 0, <<>>, reg', mode')
    BY <1>8, <1>12, <2>3, <2>4, EmptySeq DEF Innermost
  <2>6. QED
    BY <1>8, <1>9, <2>1, <2>5, LostFloors
<1>13. CASE n = <<>>
  <2>1. fs' = <<>>
    BY <1>2, <1>5, <1>7, <1>13 DEF ReturnTo
  <2>2. QED
    BY <1>8, <1>9, <1>13, <2>1, LostFloors
<1>14. QED
  BY <1>10, <1>11, <1>12, <1>13 DEF Native

-----------------------------------------------------------------------------
(* The invariant and what it says                                          *)

\* Without breakpoints no step halts the program.
LEMMA NeverPauses ==
  ASSUME IInv, ~Paused, Breaks = {}, [Next]_vars
  PROVE  ~Paused'
<1>1. CASE UNCHANGED vars
  BY <1>1 DEF vars, Paused
<1>2. CASE User
  <2>1. ~Resume /\ \A i \in 0 .. Len(fs) : ~SelectFrame(i)
    BY DEF Resume, SelectFrame
  <2>2. PICK flags \in {{}, {"args"}} : Console(flags)
    BY <1>2, <2>1 DEF User
  <2>3. QED
    BY <2>2, EnterKeeps DEF Console, Enter
<1>3. CASE Interpret
  <2>1. ASSUME NEW f \in Fun, Call(f) PROVE ~Paused'
    BY <2>1, EnterKeeps DEF Call
  <2>2. ASSUME NEW g \in Fun, CallNative(g) PROVE ~Paused'
    BY <2>2, EnterKeeps, Zenon DEF CallNative, Enter
  <2>3. ASSUME CallLeaf PROVE ~Paused'
    BY <2>3 DEF CallLeaf, Paused
  <2>4. ASSUME NEW slot \in Slot,
               Construct(slot) \/ EnterTry \/ LeaveScope(slot)
        PROVE  ~Paused'
    BY <2>4 DEF Construct, EnterTry, LeaveScope, Paused
  <2>5. ASSUME Return \/ CheckFails \/ Trap PROVE ~Paused'
    BY <2>5 DEF Return, CheckFails, Trap, GoWild, Paused
  <2>6. ASSUME ExecEnd PROVE ~Paused'
    <3>1. CASE GoWild
      BY <3>1 DEF GoWild, Paused
    <3>2. CASE ~GoWild
      <4>1. \E n, r, frames : ReturnTo(n, r, frames, ods, resume, FALSE)
        BY <2>6, <3>2, Zenon DEF ExecEnd
      <4>2. QED
        BY <4>1, ReturnKeeps
    <3>3. QED
      BY <3>1, <3>2
  <2>7. ~Halt
    BY DEF Halt
  <2>8. ASSUME Rethrow \/ \E t \in Type : Throw(t) PROVE ~Paused'
    BY <2>8 DEF Throw, Rethrow, GoWild, Paused
  <2>9. QED
    BY <1>3, <2>1, <2>2, <2>3, <2>4, <2>5, <2>6, <2>7, <2>8
       DEF Interpret, Slot
<1>4. CASE HandleRaise
  BY <1>4 DEF HandleRaise, Paused
<1>5. CASE Unwinds
  <2>1. ASSUME UnwindStep PROVE ~Paused'
    <3>1. \/ resume' = resume
          \/ \E n, r : Enter(Dtor, n, r, fs)
      BY <2>1, Zenon DEF UnwindStep
    <3>2. QED
      BY <3>1, EnterKeeps DEF Enter, Paused
  <2>2. ASSUME LeftScope \/ Caught \/ Uncaught \/ CaughtNative PROVE ~Paused'
    BY <2>2 DEF LeftScope, Caught, Uncaught, CaughtNative, Paused, Resume0
  <2>3. ASSUME Crash PROVE ~Paused'
    <3>1. PICK m : m = ExecMessage(Last(nat).saved, fs, ods)
      OBVIOUS
    <3>2. m.rs \in {resume, Resume0}
      BY <3>1, Zenon DEF ExecMessage
    <3>3. ReturnTo(Front(Front(nat)), m.reg, m.fs, m.ods, m.rs, TRUE)
      BY <2>3, <3>1, Zenon DEF Crash
    <3>4. PICK q : q = ExecMessage(m.reg, m.fs, m.ods)
      OBVIOUS
    <3>5. q.rs \in {resume, Resume0}
      BY <3>4, Zenon DEF ExecMessage
    <3>6. resume' = m.rs \/ resume' = q.rs
      BY <3>3, <3>4, Zenon DEF ReturnTo
    <3>7. QED
      BY <3>2, <3>5, <3>6 DEF Paused, Resume0
  <2>4. QED
    BY <1>5, <2>1, <2>2, <2>3 DEF Unwinds
<1>6. QED
  BY <1>1, <1>2, <1>3, <1>4, <1>5 DEF Next

\* Every step leaves the frames on their floors.
LEMMA NextFloors ==
  ASSUME IInv, ~Paused, Floors, FlagsKept, Breaks = {}, [Next]_vars
  PROVE  Floors'
<1>1. CASE UNCHANGED vars
  BY <1>1 DEF vars, Floors
<1>2. CASE User
  <2>1. ~Resume /\ \A i \in 0 .. Len(fs) : ~SelectFrame(i)
    BY DEF Resume, SelectFrame
  <2>2. QED
    BY <1>2, <2>1, ConsoleFloors DEF User
<1>3. CASE Interpret
  <2>1. ASSUME CallLeaf PROVE Floors'
    BY <2>1, StaysFloors DEF CallLeaf, Running
  <2>2. ASSUME NEW slot \in Slot, Construct(slot) PROVE Floors'
    <3>1. reg \in Reg /\ reg' = [reg EXCEPT !.pc.in = @ \union {slot}]
      BY <2>2, Typed DEF Construct
    <3>2. reg'.fb = reg.fb /\ reg'.pc.act = reg.pc.act
      BY <3>1 DEF Reg, Ip
    <3>3. QED
      BY <2>2, <3>2, StaysFloors DEF Construct, Running
  <2>3. ASSUME EnterTry PROVE Floors'
    <3>1. reg \in Reg /\ reg' = [reg EXCEPT !.pc.in = @ \union {Marker}]
      BY <2>3, Typed DEF EnterTry
    <3>2. reg'.fb = reg.fb /\ reg'.pc.act = reg.pc.act
      BY <3>1 DEF Reg, Ip
    <3>3. QED
      BY <2>3, <3>2, StaysFloors DEF EnterTry, Running
  <2>4. ASSUME GoWild PROVE Floors'
    BY <2>4 DEF GoWild, Floors
  <2>5. ASSUME CheckFails \/ Trap PROVE Floors'
    BY <2>4, <2>5, StaysFloors DEF CheckFails, Trap
  <2>6. ASSUME NEW t \in Type, Throw(t) PROVE Floors'
    BY <2>6, ThrowingFloors DEF Throw
  <2>7. ASSUME Rethrow PROVE Floors'
    BY <2>4, <2>7, ThrowingFloors DEF Rethrow
  <2>8. ~Halt
    BY DEF Halt
  <2>9. {Outer, Inner} \subseteq Slot
    BY DEF Slot
  <2>10. QED
    BY <1>3, <2>1, <2>2, <2>3, <2>5, <2>6, <2>7, <2>8, <2>9, CallFloors,
       CallNativeFloors, LeaveScopeFloors, ReturnFloors, ExecEndFloors
       DEF Interpret
<1>4. CASE HandleRaise
  BY <1>4, HandleRaiseFloors
<1>5. CASE Unwinds
  BY <1>5, UnwindStepFloors, LeftScopeFloors, CaughtThrowFloors, UncaughtFloors,
     CaughtNativeFloors, CrashFloors DEF Unwinds
<1>6. QED
  BY <1>1, <1>2, <1>3, <1>4, <1>5 DEF Next

LEMMA InitFloors == Init => ~Paused /\ Floors
<1> SUFFICES ASSUME Init PROVE ~Paused /\ Floors
  OBVIOUS
<1>1. ~Paused
  BY DEF Init, Paused, Resume0
<1>2. nat = <<>>
  BY DEF Init
<1>3. OnFloors(nat, <<>>, fs, reg, mode) /\ <<>> \in Seq(Nat)
  BY <1>2, EmptySeq DEF OnFloors, Stacked, Rising
<1>4. QED
  BY <1>1, <1>3 DEF Floors

LEMMA FloorsTransparent ==
  ASSUME IInv, Floors
  PROVE  UnwindTransparent
<1>1. SUFFICES ASSUME mode = "run", nat # <<>>, Last(nat).k = "unwind"
               PROVE  Len(fs) = Last(nat).depth \/ fs = <<>>
  BY DEF UnwindTransparent
<1>2. UnwindsOver(Last(nat), Len(fs)) /\ fs \in Seq(Frame)
  BY <1>1, Typed, UnwindingOn DEF Unwinding
<1>3. QED
  BY <1>2, EmptySeq DEF UnwindsOver

\* Whatever its destructors do, do_unwind() finds the frames it left: they may
\* throw, fail a check, trap, recur, call undefined functions and overflow both
\* stacks, in callbacks too, at any depth (engine.cpp:506). A program without
\* breakpoints needs of the rest only that execute() keeps its flags.
THEOREM UnwindingIsTransparent ==
  ASSUME Breaks = {}
  PROVE  Spec /\ []FlagsKept => []UnwindTransparent
<1>1. IInv /\ ~Paused /\ Floors /\ FlagsKept /\ [Next]_vars => (~Paused /\ Floors)'
  BY NeverPauses, NextFloors
<1>2. IInv /\ Floors => UnwindTransparent
  BY FloorsTransparent
<1>3. QED
  BY <1>1, <1>2, InitFloors, Invariance, PTL DEF Spec

\* The flags are kept where no try block catches a native Exception: there the
\* destructors leave do_unwind() its frames in every program.
THEOREM UncaughtUnwindingIsTransparent ==
  ASSUME Breaks = {}, ~Catching
  PROVE  Spec => []UnwindTransparent
<1>1. Spec => []FlagsKept
  BY FlagsAreKeptUncaught
<1>2. Spec /\ []FlagsKept => []UnwindTransparent
  BY UnwindingIsTransparent
<1>3. QED
  BY <1>1, <1>2, PTL
=============================================================================
