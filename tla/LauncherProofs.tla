--------------------------- MODULE LauncherProofs ---------------------------
(***************************************************************************)
(* The persistent shell of venv keeps the promise of ShellSession, and a   *)
(* snapshot is what the shell's variables are, for every configuration,    *)
(* any number of calls, commands of every kind, pipes of every capacity,   *)
(* and reads of an even number of tokens: a line of a dump is one token    *)
(* and its newline, so that no read parts a marker from its newline.       *)
(***************************************************************************)
EXTENDS Launcher, SequenceTheorems, TLAPS

(* Reads of an even number of tokens take lines and newlines together (see *)
(* ReadDump).                                                              *)
Even(n) == \E k \in 0..n : n = 2 * k
WholeLines == Even(Chunk)

Value == Seq(Fragments)
LineKind == Kinds \cup {"", "set", "pre", "app"}
InputLine == [op: {"cmd", "probe", "begin", "env", "end"}, n: Nat,
              kind: LineKind, env: Value]
OutputToken == [is: {"status", "nl", "BEGIN", "env", "END"}, code: Nat, env: Value]

(* What a dump was parsed to plays no part here.                           *)
CallType == [op: {"none", "command", "edit", "snapshot", "compare", "close"},
             left: Seq(InputLine), got: Seq(OutputToken), code: Nat, ok: BOOLEAN,
             env: {call.env}]

TypeOK ==
  /\ at \in {"config", "child", "write", "status", "dump", "reap", "return", "over"}
  /\ call \in CallType
  /\ handle \in [open: BOOLEAN, reaped: BOOLEAN, inFd: BOOLEAN]
  /\ sh \in [state: {"none", "start", "runs", "swallows", "zombie"}, last: Nat, status: Nat,
             env: Value, ate: BOOLEAN]
  /\ stdin \in Seq(InputLine) /\ fd3 \in Seq(OutputToken)
  /\ asked \in Nat /\ ran \in Seq(Nat) /\ answers \in Seq(Nat)
  /\ cfg \in [env: Value, rooted: BOOLEAN]

Commanding == call.op \in {"command", "edit"}
Dumping == call.op \in {"snapshot", "compare"}
Unreaped == handle.open /\ ~handle.reaped
HasRun == \E i \in DOMAIN ran : ran[i] = asked

(* What venv has to say that the shell has not taken in yet.               *)
Sent == stdin \o call.left

(* The handle and the process.                                             *)
Handles ==
  /\ handle.reaped => handle.open
  /\ Alive => Unreaped
  /\ Unreaped => sh.state # "none"
  /\ Unreaped /\ call.op # "close" => handle.inFd

(* The call and where venv is in it.                                       *)
Stages ==
  /\ at \in {"config", "child", "over"} <=> call.op = "none"
  /\ at = "over" => ~handle.open
  /\ call.op # "none" => handle.open
  /\ at \in {"write", "status", "dump", "reap"} => ~handle.reaped
  /\ at = "write" => (Commanding \/ Dumping) /\ call.left # <<>> /\ call.ok
  /\ at = "status" => Commanding /\ call.left = <<>> /\ call.ok
  /\ at = "dump" => Dumping /\ call.left = <<>> /\ call.ok
  /\ at = "reap" => call.op = "close" \/ ~Alive
  /\ at = "return" /\ call.op = "close" => handle.reaped

Counted ==
  /\ asked = IF Commanding THEN Len(answers) + 1 ELSE Len(answers)
  /\ \A i \in DOMAIN ran : ran[i] <= asked

(* A command on its way: not run yet; run, the probe not taken in; its     *)
(* status reported; or the probe swallowed, and nothing more to come.      *)
ToRun ==
  /\ Len(Sent) = 2 /\ Sent[1].op = "cmd" /\ Sent[1].n = asked /\ Sent[2] = Line("probe")
  /\ fd3 = <<>> /\ ~HasRun
ToReport ==
  /\ Sent = <<Line("probe")>> /\ fd3 = <<>> /\ HasRun
  /\ Alive => sh.last = Own(asked)
Reported == Sent = <<>> /\ fd3 = <<StatusToken(Own(asked)), Newline>> /\ HasRun
Swallowed == Sent = <<>> /\ fd3 = <<>> /\ HasRun

CommandSent ==
  Commanding /\ at \in {"write", "status"} => ToRun \/ ToReport \/ Reported \/ Swallowed

(* A dump on its way: END is the last line, and has not been read.         *)
DumpSent ==
  Dumping /\ at \in {"write", "dump"} =>
    /\ Sent \in {<<Line("begin"), Line("env"), Line("end")>>, <<Line("env"), Line("end")>>,
                 <<Line("end")>>, <<>>}
    /\ Even(Len(fd3))
    /\ Sent = <<>> => Len(fd3) > 1 /\ fd3[Len(fd3) - 1] = Token("END")
    /\ \A i \in 1..Len(fd3) : fd3[i] = Token("END") => Sent = <<>> /\ i = Len(fd3) - 1
    /\ Token("END") \notin Range(call.got)

(* Between calls, and when the shell is to end, the pipes are empty.       *)
Resting ==
  Unreaped /\ (at \in {"config", "child", "return"} \/ call.op = "close") =>
    stdin = <<>> /\ fd3 = <<>>

(* A shell that has ended did so by a failure or by the command that waits.*)
Dying ==
  Unreaped /\ call.op # "close" /\ sh.state = "zombie" =>
    \/ sh.status \in {EXEC_FAILED, KILLED}
    \/ /\ Commanding /\ HasRun /\ sh.status = Own(asked)
       /\ at = "reap" \/ (at \in {"write", "status"} /\ fd3 = <<>>)

Swallowing ==
  sh.state = "swallows" => Commanding /\ at \in {"write", "status"} /\ HasRun /\ fd3 = <<>>

Answering ==
  at = "return" /\ Commanding =>
    IF handle.reaped
    THEN call.ok => \/ call.code \in {EXEC_FAILED, KILLED}
                    \/ call.code = Own(asked) /\ HasRun
    ELSE call.ok /\ call.code = Own(asked) /\ HasRun

IInv ==
  /\ TypeOK /\ Handles /\ Stages /\ Counted
  /\ CommandSent /\ DumpSent /\ Resting /\ Dying /\ Swallowing /\ Answering

---------------------------------------------------------------------------
(* Lines on their way                                                      *)

(* Writing a line moves it, and nothing else changes.                      *)
LEMMA Moves ==
  ASSUME NEW S, NEW in \in Seq(S), NEW left \in Seq(S), left # <<>>
  PROVE  Append(in, Head(left)) \o Tail(left) = in \o left
<1> DEFINE x == Append(in, Head(left))
           y == Tail(left)
<1>1. /\ Head(left) \in S /\ y \in Seq(S) /\ Len(y) = Len(left) - 1
      /\ \A i \in 1..Len(y) : y[i] = left[i + 1]
      /\ Len(left) \in Nat \ {0} /\ Head(left) = left[1] /\ Len(in) \in Nat
  BY HeadTailProperties, EmptySeq, LenProperties
<1>2. /\ x \in Seq(S) /\ Len(x) = Len(in) + 1
      /\ \A i \in 1..Len(in) : x[i] = in[i]
      /\ x[Len(in) + 1] = left[1]
  BY <1>1, AppendProperties
<1> HIDE DEF x, y
<1>3. /\ x \o y \in Seq(S) /\ Len(x \o y) = Len(x) + Len(y)
      /\ \A i \in 1..Len(x) + Len(y) : (x \o y)[i] = IF i <= Len(x) THEN x[i] ELSE y[i - Len(x)]
  BY <1>1, <1>2, ConcatProperties
<1>4. /\ in \o left \in Seq(S) /\ Len(in \o left) = Len(in) + Len(left)
      /\ \A i \in 1..Len(in) + Len(left) :
           (in \o left)[i] = IF i <= Len(in) THEN in[i] ELSE left[i - Len(in)]
  BY ConcatProperties
<1>5. Len(x \o y) = Len(in \o left)
  BY <1>1, <1>2, <1>3, <1>4
<1>6. ASSUME NEW i \in 1..Len(x \o y) PROVE (x \o y)[i] = (in \o left)[i]
  <2>1. CASE i <= Len(in)
    BY <1>1, <1>2, <1>3, <1>4, <1>5, <2>1
  <2>2. CASE i = Len(in) + 1
    BY <1>1, <1>2, <1>3, <1>4, <1>5, <2>2
  <2>3. CASE i > Len(in) + 1
    <3>1. i - Len(x) \in 1..Len(y) /\ i - Len(x) + 1 = i - Len(in)
      BY <1>1, <1>2, <1>3, <2>3
    <3>2. (x \o y)[i] = y[i - Len(x)]
      BY <1>2, <1>3, <2>3
    <3>3. y[i - Len(x)] = left[i - Len(in)]
      BY <1>1, <3>1
    <3>4. QED
      BY <1>1, <1>4, <1>5, <2>3, <3>2, <3>3
  <2>4. i \in Nat
    BY <1>1, <1>2, <1>3
  <2>5. i <= Len(in) \/ i = Len(in) + 1 \/ i > Len(in) + 1
    BY <1>1, <2>4
  <2>6. QED
    BY <2>1, <2>2, <2>3, <2>5
<1>7. x \o y = in \o left
  BY <1>3, <1>4, <1>5, <1>6, SeqEqual
<1>8. QED
  BY <1>7 DEF x, y

(* Taking in a line takes the first.                                       *)
LEMMA Consumes ==
  ASSUME NEW S, NEW in \in Seq(S), NEW left \in Seq(S), in # <<>>
  PROVE  /\ in \o left # <<>>
         /\ Head(in \o left) = Head(in)
         /\ Tail(in \o left) = Tail(in) \o left
<1> DEFINE z == in \o left
           y == Tail(in)
           t == Tail(z)
<1>1. /\ Len(in) \in Nat \ {0} /\ Len(left) \in Nat
      /\ y \in Seq(S) /\ Len(y) = Len(in) - 1
      /\ \A i \in 1..Len(y) : y[i] = in[i + 1]
  BY HeadTailProperties, EmptySeq, LenProperties
<1>2. /\ z \in Seq(S) /\ Len(z) = Len(in) + Len(left)
      /\ \A i \in 1..Len(in) + Len(left) : z[i] = IF i <= Len(in) THEN in[i] ELSE left[i - Len(in)]
  BY ConcatProperties
<1> HIDE DEF z, y
<1>3. z # <<>>
  BY <1>1, <1>2, EmptySeq
<1>4. /\ t \in Seq(S) /\ Len(t) = Len(z) - 1
      /\ \A i \in 1..Len(t) : t[i] = z[i + 1]
  BY <1>2, <1>3, HeadTailProperties
<1> HIDE DEF t
<1>5. /\ y \o left \in Seq(S) /\ Len(y \o left) = Len(y) + Len(left)
      /\ \A i \in 1..Len(y) + Len(left) : (y \o left)[i] = IF i <= Len(y) THEN y[i] ELSE left[i - Len(y)]
  BY <1>1, ConcatProperties
<1>6. Len(t) = Len(y \o left)
  BY <1>1, <1>2, <1>4, <1>5
<1>7. ASSUME NEW i \in 1..Len(t) PROVE t[i] = (y \o left)[i]
  <2>1. t[i] = z[i + 1] /\ i \in Nat /\ i >= 1
    BY <1>4, <1>2, <1>1
  <2>2. CASE i <= Len(y)
    BY <1>1, <1>2, <1>4, <1>5, <1>6, <2>1, <2>2
  <2>3. CASE i > Len(y)
    <3>1. z[i + 1] = left[i + 1 - Len(in)]
      BY <1>1, <1>2, <1>4, <2>1, <2>3
    <3>2. (y \o left)[i] = left[i - Len(y)]
      BY <1>1, <1>5, <1>6, <2>1, <2>3
    <3>3. i + 1 - Len(in) = i - Len(y)
      BY <1>1, <2>1
    <3>4. QED
      BY <2>1, <3>1, <3>2, <3>3
  <2>4. Len(y) \in Nat
    BY <1>1
  <2>5. i <= Len(y) \/ i > Len(y)
    BY <2>1, <2>4
  <2>6. QED
    BY <2>2, <2>3, <2>5
<1>8. t = y \o left
  BY <1>4, <1>5, <1>6, <1>7, SeqEqual
<1>9. Head(z) = Head(in)
  BY <1>1, <1>2, <1>3
<1>10. QED
  BY <1>3, <1>8, <1>9 DEF z, y, t

---------------------------------------------------------------------------
(* The invariant, one step for each kind of action                         *)

(* What the bridge does without the shell.                                 *)
LEMMA BridgeStep ==
  ASSUME IInv, UNCHANGED <<call, handle, sh, stdin, fd3, asked, ran, answers>>,
         cfg' \in [env: Value, rooted: BOOLEAN],
         \/ at' = at
         \/ at \in {"config", "child"} /\ at' \in {"config", "child"}
         \/ at = "config" /\ at' = "over" /\ ~handle.open
  PROVE  IInv'
<1>1. TypeOK' /\ Handles' /\ Counted'
  BY DEF IInv, TypeOK, CallType, Handles, Counted, Alive, Unreaped, Commanding
<1>2. Stages'
  BY DEF IInv, Stages, Alive, Commanding, Dumping
<1>3. CommandSent' /\ DumpSent'
  BY DEF IInv, CommandSent, DumpSent, ToRun, ToReport, Reported, Swallowed, Sent, HasRun,
         Commanding, Dumping, Alive
<1>4. Resting' /\ Dying' /\ Swallowing' /\ Answering'
  BY DEF IInv, Resting, Dying, Swallowing, Answering, HasRun, Commanding, Unreaped
<1>5. QED
  BY <1>1, <1>2, <1>3, <1>4 DEF IInv

(* The shell ends by itself: it could not be executed, was killed, or is   *)
(* being closed.                                                           *)
LEMMA EndStep ==
  ASSUME IInv, Alive, UNCHANGED <<at, call, handle, stdin, fd3, asked, ran, answers, cfg>>,
         NEW status \in Nat, sh' = [sh EXCEPT !.state = "zombie", !.status = status],
         status \in {EXEC_FAILED, KILLED} \/ call.op = "close"
  PROVE  IInv'
<1>1. TypeOK' /\ sh'.state = "zombie" /\ sh'.status = status
  BY DEF IInv, TypeOK, CallType
<1>2. ~Alive'
  BY <1>1 DEF Alive
<1>3. Handles' /\ Counted'
  BY <1>1, <1>2 DEF IInv, Handles, Counted, Unreaped, Commanding
<1>4. Stages'
  BY <1>2 DEF IInv, Stages, Commanding, Dumping
<1>5. CommandSent' /\ DumpSent'
  BY <1>2 DEF IInv, CommandSent, DumpSent, ToRun, ToReport, Reported, Swallowed, Sent, HasRun,
              Commanding, Dumping
<1>6. Resting' /\ Dying' /\ Swallowing' /\ Answering'
  BY <1>1 DEF IInv, Resting, Dying, Swallowing, Answering, HasRun, Commanding, Unreaped
<1>7. QED
  BY <1>1, <1>3, <1>4, <1>5, <1>6 DEF IInv

(* A shell is started.                                                     *)
LEMMA StartStep ==
  ASSUME IInv, at = "config", ~handle.open, ShellOpen(cfg.env), UNCHANGED cfg
  PROVE  IInv'
<1>1. /\ handle' = [open |-> TRUE, reaped |-> FALSE, inFd |-> TRUE]
      /\ sh'.state = "start" /\ stdin' = <<>> /\ fd3' = <<>>
      /\ UNCHANGED <<at, call, asked, ran, answers>>
  BY DEF ShellOpen, NoShell, history
<1>2. TypeOK'
  <2>1. sh' \in [state: {"none", "start", "runs", "swallows", "zombie"}, last: Nat, status: Nat,
                 env: Value, ate: BOOLEAN]
    BY DEF ShellOpen, NoShell, IInv, TypeOK
  <2>2. QED
    BY <1>1, <2>1, EmptySeq DEF IInv, TypeOK, CallType
<1>3. call.op = "none" /\ ~Commanding' /\ ~Dumping'
  BY <1>1 DEF IInv, Stages, Commanding, Dumping
<1>4. Handles' /\ Counted' /\ Stages'
  BY <1>1, <1>3 DEF IInv, Handles, Stages, Counted, Alive, Unreaped, Commanding
<1>5. CommandSent' /\ DumpSent' /\ Resting' /\ Dying' /\ Swallowing' /\ Answering'
  BY <1>1, <1>3 DEF CommandSent, DumpSent, Resting, Dying, Swallowing, Answering
<1>6. QED
  BY <1>2, <1>4, <1>5 DEF IInv

(* A call that finds the shell ended returns at once.                      *)
LEMMA BeginReaped ==
  ASSUME IInv, at = "config", handle.open, handle.reaped,
         NEW op \in {"command", "edit", "snapshot", "compare"},
         NEW lines, Begin(op, lines),
         asked' = IF op \in {"command", "edit"} THEN asked + 1 ELSE asked,
         UNCHANGED <<handle, sh, stdin, fd3, ran, answers, cfg>>
  PROVE  IInv'
<1>1. at' = "return" /\ call' = [Idle EXCEPT !.op = op, !.ok = FALSE]
  BY DEF Begin
<1>2. /\ call'.op = op /\ ~call'.ok /\ call' \in CallType'
  BY <1>1, EmptySeq DEF Idle, CallType, Value
<1>3. /\ TypeOK' /\ ~Alive /\ ~Alive' /\ call.op = "none" /\ ~Commanding /\ sh.state # "swallows"
      /\ asked \in Nat /\ ran \in Seq(Nat)
  BY <1>1, <1>2 DEF IInv, TypeOK, Handles, Stages, Alive, Unreaped, Commanding
<1>4. Handles' /\ Stages'
  BY <1>1, <1>2, <1>3 DEF IInv, Handles, Stages, Unreaped
<1>5. Counted'
  <2>1. \A i \in DOMAIN ran : ran[i] \in Nat /\ ran[i] <= asked
    BY <1>3, LenProperties, ElementOfSeq DEF IInv, Counted
  <2>2. Len(answers) = asked /\ Len(answers') = asked
    BY <1>3 DEF IInv, Counted
  <2>3. Commanding' <=> op \in {"command", "edit"}
    BY <1>2 DEF Commanding
  <2>4. asked' >= asked /\ (asked' = IF Commanding' THEN asked + 1 ELSE asked)
    BY <1>3, <2>3
  <2>5. QED
    BY <1>3, <2>1, <2>2, <2>4 DEF Counted
<1>6. CommandSent' /\ DumpSent' /\ Resting' /\ Dying' /\ Swallowing' /\ Answering'
  BY <1>1, <1>2, <1>3 DEF CommandSent, DumpSent, Resting, Dying, Swallowing, Answering, Unreaped
<1>7. QED
  BY <1>3, <1>4, <1>5, <1>6 DEF IInv

(* What a call that finds the shell there begins with.                     *)
LEMMA BeginsAtRest ==
  ASSUME IInv, at = "config", handle.open, ~handle.reaped,
         NEW op \in {"command", "edit", "snapshot", "compare"},
         NEW lines \in Seq(InputLine), lines # <<>>, Begin(op, lines),
         UNCHANGED <<handle, sh, stdin, fd3, ran, answers, cfg>>,
         asked' \in Nat
  PROVE  /\ at' = "write" /\ call'.op = op /\ call'.left = lines /\ call'.got = <<>> /\ call'.ok
         /\ stdin' = <<>> /\ fd3' = <<>> /\ Sent' = lines
         /\ TypeOK' /\ Handles' /\ Stages' /\ Resting' /\ Dying' /\ Swallowing' /\ Answering'
         /\ ~Commanding /\ asked = Len(answers)
<1>1. at' = "write" /\ call' = [Idle EXCEPT !.op = op, !.left = lines]
  BY DEF Begin
<1>2. /\ call'.op = op /\ call'.left = lines /\ call'.got = <<>> /\ call'.ok
      /\ call' \in CallType'
  BY <1>1, EmptySeq DEF Idle, CallType, Value
<1>3. /\ Unreaped /\ call.op = "none" /\ ~Commanding /\ sh.state # "swallows" /\ sh.state # "none"
      /\ stdin = <<>> /\ fd3 = <<>>
  BY DEF IInv, Resting, Unreaped, Stages, Swallowing, Commanding, Handles
<1>4. Sent' = lines
  BY <1>2, <1>3, ConcatEmptySeq DEF Sent
<1>5. TypeOK'
  BY <1>1, <1>2 DEF IInv, TypeOK
<1>6. Handles' /\ Stages'
  BY <1>1, <1>2, <1>3 DEF IInv, Handles, Stages, Unreaped, Alive, Commanding, Dumping
<1>7. Resting' /\ Swallowing' /\ Answering'
  BY <1>1, <1>2, <1>3 DEF Resting, Swallowing, Answering
<1>8. Dying'
  BY <1>1, <1>2, <1>3 DEF IInv, Dying, Unreaped, Commanding
<1>9. asked = Len(answers)
  BY <1>3 DEF IInv, Counted
<1>10. QED
  BY <1>1, <1>2, <1>3, <1>4, <1>5, <1>6, <1>7, <1>8, <1>9

(* A command is given to the shell.                                        *)
LEMMA RunStep ==
  ASSUME IInv, at = "config", handle.open, NEW op \in {"command", "edit"},
         NEW kind \in LineKind, NEW fragment \in Value,
         ShellRun(op, kind, fragment), UNCHANGED cfg
  PROVE  IInv'
<1> DEFINE c == [op |-> "cmd", n |-> asked + 1, kind |-> kind, env |-> fragment]
           lines == <<c, Line("probe")>>
<1>1. /\ asked' = asked + 1 /\ Begin(op, lines)
      /\ UNCHANGED <<handle, sh, stdin, fd3, ran, answers>>
  BY DEF ShellRun, pipeVars
<1>2. asked \in Nat /\ ran \in Seq(Nat)
  BY DEF IInv, TypeOK
<1>3. CASE handle.reaped
  BY <1>1, <1>3, BeginReaped
<1>4. CASE ~handle.reaped
  <2>1. c \in InputLine /\ Line("probe") \in InputLine /\ c.op = "cmd" /\ c.n = asked + 1
    <3>1. c \in InputLine /\ c.op = "cmd" /\ c.n = asked + 1
      BY <1>2 DEF InputLine
    <3>2. Line("probe") \in InputLine
      BY EmptySeq DEF InputLine, LineKind, Line, Value
    <3>3. QED
      BY <3>1, <3>2
  <2> HIDE DEF c
  <2>2. lines \in Seq(InputLine) /\ lines # <<>> /\ Len(lines) = 2 /\ lines[1] = c
        /\ lines[2] = Line("probe")
    <3>1. lines \in Seq(InputLine)
      BY <2>1
    <3>2. Len(lines) = 2 /\ lines[1] = c /\ lines[2] = Line("probe")
      OBVIOUS
    <3>3. lines # <<>>
      BY <3>1, <3>2, EmptySeq
    <3>4. QED
      BY <3>1, <3>2, <3>3
  <2> HIDE DEF lines
  <2>3. /\ at' = "write" /\ call'.op = op /\ fd3' = <<>> /\ Sent' = lines
        /\ TypeOK' /\ Handles' /\ Stages' /\ Resting' /\ Dying' /\ Swallowing' /\ Answering'
        /\ ~Commanding /\ asked = Len(answers)
    <3>1. op \in {"command", "edit", "snapshot", "compare"} /\ asked' \in Nat
      BY <1>1, <1>2
    <3>2. QED
      BY <1>1, <1>4, <2>2, <3>1, BeginsAtRest
  <2>4. Commanding' /\ ~Dumping'
    BY <2>3 DEF Commanding, Dumping
  <2>5. \A i \in DOMAIN ran : ran[i] \in Nat /\ ran[i] <= asked
    BY <1>2, LenProperties, ElementOfSeq DEF IInv, Counted
  <2>6. Counted'
    <3>1. asked' = Len(answers') + 1
      BY <1>1, <2>3
    <3>2. ASSUME NEW i \in DOMAIN ran' PROVE ran'[i] <= asked'
      <4>1. ran'[i] \in Nat /\ ran'[i] <= asked
        BY <1>1, <2>5
      <4>2. QED
        BY <1>1, <1>2, <4>1
    <3>3. QED
      BY <2>4, <3>1, <3>2 DEF Counted
  <2>7. ~HasRun'
    <3>1. ASSUME NEW i \in DOMAIN ran' PROVE ran'[i] # asked'
      <4>1. ran'[i] \in Nat /\ ran'[i] <= asked
        BY <1>1, <2>5
      <4>2. QED
        BY <1>1, <1>2, <4>1
    <3>2. QED
      BY <3>1 DEF HasRun
  <2>8. ToRun'
    BY <1>1, <2>1, <2>2, <2>3, <2>7 DEF ToRun
  <2>9. QED
    BY <2>3, <2>4, <2>6, <2>8 DEF IInv, CommandSent, DumpSent
<1>5. QED
  BY <1>3, <1>4

(* A dump is asked for.                                                    *)
LEMMA DumpStep ==
  ASSUME IInv, at = "config", handle.open, NEW op \in {"snapshot", "compare"},
         ShellDumpEnv(op), UNCHANGED cfg
  PROVE  IInv'
<1> DEFINE lines == <<Line("begin"), Line("env"), Line("end")>>
<1>1. Begin(op, lines) /\ UNCHANGED <<handle, sh, stdin, fd3, asked, ran, answers>>
  BY DEF ShellDumpEnv, pipeVars, history
<1>2. asked \in Nat
  BY DEF IInv, TypeOK
<1>3. CASE handle.reaped
  BY <1>1, <1>3, BeginReaped
<1>4. CASE ~handle.reaped
  <2>1. Line("begin") \in InputLine /\ Line("env") \in InputLine /\ Line("end") \in InputLine
    BY EmptySeq DEF InputLine, LineKind, Line, Value
  <2>2. lines \in Seq(InputLine) /\ lines # <<>>
    BY <2>1
  <2>3. /\ at' = "write" /\ call'.op = op /\ fd3' = <<>> /\ Sent' = lines /\ call'.got = <<>>
        /\ TypeOK' /\ Handles' /\ Stages' /\ Resting' /\ Dying' /\ Swallowing' /\ Answering'
        /\ ~Commanding /\ asked = Len(answers)
    BY <1>1, <1>2, <1>4, <2>2, BeginsAtRest
  <2>4. ~Commanding' /\ Dumping'
    BY <2>3 DEF Commanding, Dumping
  <2>5. Counted'
    BY <1>1, <2>3, <2>4 DEF IInv, Counted
  <2>6. DumpSent'
    <3>1. Even(Len(fd3')) /\ Len(fd3') = 0
      BY <2>3 DEF Even
    <3>2. Sent' # <<>> /\ Sent' = lines
      BY <2>2, <2>3
    <3>3. Token("END") \notin Range(call'.got)
      BY <2>3 DEF Range
    <3>4. QED
      BY <3>1, <3>2, <3>3 DEF DumpSent
  <2>7. QED
    BY <2>3, <2>4, <2>5, <2>6 DEF IInv, CommandSent
<1>5. QED
  BY <1>3, <1>4

(* The shell is to end.                                                    *)
LEMMA CloseStep ==
  ASSUME IInv, at = "config", handle.open, ShellClose, UNCHANGED cfg
  PROVE  IInv'
<1>1. /\ handle' = [handle EXCEPT !.inFd = FALSE]
      /\ call' = [Idle EXCEPT !.op = "close"]
      /\ at' = IF handle.reaped THEN "return" ELSE "reap"
      /\ UNCHANGED <<sh, stdin, fd3, asked, ran, answers>>
  BY DEF ShellClose, pipeVars, history
<1>2. /\ call'.op = "close" /\ call' \in CallType'
      /\ handle' \in [open: BOOLEAN, reaped: BOOLEAN, inFd: BOOLEAN]
      /\ handle'.open = handle.open /\ handle'.reaped = handle.reaped
  BY <1>1, EmptySeq DEF Idle, CallType, Value, IInv, TypeOK
<1>3. TypeOK'
  BY <1>1, <1>2 DEF IInv, TypeOK
<1>4. call.op = "none" /\ ~Commanding /\ ~Commanding' /\ ~Dumping' /\ sh.state # "swallows"
  BY <1>2 DEF IInv, Stages, Swallowing, Commanding, Dumping
<1>5. Handles' /\ Stages' /\ Counted'
  BY <1>1, <1>2, <1>4 DEF IInv, Handles, Stages, Counted, Alive, Unreaped
<1>6. CommandSent' /\ DumpSent' /\ Resting' /\ Dying' /\ Swallowing' /\ Answering'
  BY <1>1, <1>2, <1>4 DEF IInv, CommandSent, DumpSent, Resting, Dying, Swallowing, Answering,
     Unreaped
<1>7. QED
  BY <1>3, <1>5, <1>6 DEF IInv

(* venv writes a line, or finds that no one will read it.                  *)
LEMMA WriteStep ==
  ASSUME IInv, Write, UNCHANGED cfg
  PROVE  IInv'
<1>1. /\ at = "write" /\ (Commanding \/ Dumping) /\ call.left # <<>> /\ call.ok
      /\ handle.open /\ ~handle.reaped /\ Unreaped /\ call.op \notin {"none", "close"}
      /\ UNCHANGED <<handle, sh, fd3, asked, ran, answers>>
  BY DEF Write, IInv, Stages, Unreaped, Commanding, Dumping, history
<1>2. call \in CallType /\ stdin \in Seq(InputLine) /\ call.left \in Seq(InputLine)
  BY DEF IInv, TypeOK, CallType
<1>3. CASE Alive
  <2>1. /\ stdin' = Append(stdin, Head(call.left))
        /\ call' = [call EXCEPT !.left = Tail(@)]
        /\ at' = IF Len(call.left) > 1 THEN "write"
                 ELSE IF call.op \in {"snapshot", "compare"} THEN "dump" ELSE "status"
    BY <1>3 DEF Write
  <2>2. /\ Tail(call.left) \in Seq(InputLine) /\ Head(call.left) \in InputLine
        /\ Len(Tail(call.left)) = Len(call.left) - 1 /\ Len(call.left) \in Nat \ {0}
    BY <1>1, <1>2, HeadTailProperties, EmptySeq
  <2>3. /\ call' \in CallType' /\ call'.op = call.op /\ call'.ok = call.ok /\ call'.got = call.got
        /\ call'.left = Tail(call.left)
    BY <1>2, <2>1, <2>2 DEF CallType
  <2>4. stdin' \in Seq(InputLine)
    BY <1>2, <2>1, <2>2, AppendProperties
  <2>5. at' = "write" <=> call'.left # <<>>
    <3>1. Len(call.left) > 1 <=> Len(Tail(call.left)) # 0
      <4>1. \A n \in Nat \ {0} : n > 1 <=> n - 1 # 0
        OBVIOUS
      <4>2. QED
        BY <2>2, <4>1
    <3>2. Len(Tail(call.left)) # 0 <=> Tail(call.left) # <<>>
      BY <2>2, EmptySeq
    <3>3. QED
      BY <2>1, <2>3, <3>1, <3>2
  <2>6. Sent' = Sent
    BY <1>1, <1>2, <2>1, <2>3, Moves DEF Sent
  <2>7. /\ Commanding' = Commanding /\ Dumping' = Dumping
        /\ at' \in {"write", "dump", "status"}
        /\ Commanding => at' \in {"write", "status"}
        /\ Dumping => at' \in {"write", "dump"}
        /\ at' = "status" => Commanding
        /\ at' = "dump" => Dumping
    BY <1>1, <2>1, <2>3 DEF Commanding, Dumping
  <2>8. TypeOK'
    BY <1>1, <2>3, <2>4, <2>7 DEF IInv, TypeOK
  <2>9. Handles' /\ Stages'
    BY <1>1, <2>3, <2>5, <2>7 DEF IInv, Handles, Stages, Alive, Unreaped
  <2>10. Counted'
    BY <1>1, <2>7 DEF IInv, Counted
  <2>11. CommandSent'
    BY <1>1, <2>6, <2>7 DEF IInv, CommandSent, ToRun, ToReport, Reported, Swallowed, HasRun, Alive
  <2>12. DumpSent'
    BY <1>1, <2>3, <2>6, <2>7 DEF IInv, DumpSent
  <2>13. Resting' /\ Dying' /\ Answering' /\ Swallowing'
    BY <1>1, <1>3, <2>3, <2>7 DEF IInv, Resting, Dying, Answering, Swallowing, Alive, HasRun
  <2>14. QED
    BY <2>8, <2>9, <2>10, <2>11, <2>12, <2>13 DEF IInv
<1>4. CASE ~Alive
  <2>1. at' = "reap" /\ call' = [call EXCEPT !.ok = FALSE] /\ stdin' = stdin
    BY <1>4 DEF Write
  <2>2. /\ call' \in CallType' /\ call'.op = call.op
    BY <1>2, <2>1 DEF CallType
  <2>3. /\ Commanding' = Commanding /\ Dumping' = Dumping /\ ~Alive'
    BY <1>1, <1>4, <2>2 DEF Commanding, Dumping, Alive
  <2>4. TypeOK'
    BY <1>1, <2>1, <2>2 DEF IInv, TypeOK
  <2>5. Handles' /\ Stages'
    BY <1>1, <2>1, <2>2, <2>3 DEF IInv, Handles, Stages, Unreaped
  <2>6. Counted'
    BY <1>1, <2>3 DEF IInv, Counted
  <2>7. CommandSent' /\ DumpSent' /\ Resting' /\ Answering' /\ Swallowing'
    BY <1>1, <1>4, <2>1, <2>2 DEF CommandSent, DumpSent, Resting, Answering, Swallowing, Alive
  <2>8. Dying'
    BY <1>1, <2>1, <2>2, <2>3 DEF IInv, Dying, HasRun, Unreaped
  <2>9. QED
    BY <2>4, <2>5, <2>6, <2>7, <2>8 DEF IInv
<1>5. QED
  BY <1>3, <1>4

(* venv reads a status, or the end of the channel.                         *)
LEMMA ReadStatusStep ==
  ASSUME IInv, ReadStatus, UNCHANGED cfg
  PROVE  IInv'
<1>1. /\ at = "status" /\ Commanding /\ ~Dumping /\ call.left = <<>> /\ call.ok
      /\ Unreaped /\ call.op \notin {"none", "close"}
      /\ UNCHANGED <<handle, sh, stdin, asked, ran, answers>>
  BY DEF ReadStatus, IInv, Stages, Unreaped, Commanding, Dumping, history
<1>2. /\ call \in CallType /\ stdin \in Seq(InputLine) /\ fd3 \in Seq(OutputToken)
      /\ Sent = stdin /\ asked \in Nat
  BY <1>1, ConcatEmptySeq DEF IInv, TypeOK, CallType, Sent
<1>3. CASE fd3 # <<>>
  <2>1. /\ call' = [call EXCEPT !.code = Head(fd3).code]
        /\ fd3' = SubSeq(fd3, StatusLine + 1, Len(fd3)) /\ at' = "return"
    BY <1>3 DEF ReadStatus, EofOnFd3
  <2>2. Reported
    BY <1>1, <1>3 DEF IInv, CommandSent, ToRun, ToReport, Swallowed
  <2>3. Head(fd3) = StatusToken(Own(asked)) /\ Len(fd3) = 2
    BY <2>2 DEF Reported
  <2>4. StatusToken(Own(asked)).code = Own(asked) /\ StatusToken(Own(asked)).is # Newline.is
    BY DEF StatusToken, Newline, Token
  <2>5. StatusLine = 2
    BY <2>3, <2>4 DEF StatusLine
  <2>6. fd3' = <<>>
    BY <2>1, <2>3, <2>5, SubSeqEmpty
  <2>7. Own(asked) \in Nat
    BY <1>2 DEF Own
  <2>8. /\ call' \in CallType' /\ call'.op = call.op /\ call'.ok = call.ok
        /\ call'.code = Own(asked)
    BY <1>2, <2>1, <2>3, <2>4, <2>7 DEF CallType
  <2>9. Commanding' /\ ~Dumping'
    BY <1>1, <2>8 DEF Commanding, Dumping
  <2>10. TypeOK'
    BY <1>1, <2>1, <2>6, <2>8, EmptySeq DEF IInv, TypeOK
  <2>11. Handles' /\ Stages' /\ Counted'
    BY <1>1, <2>1, <2>8, <2>9 DEF IInv, Handles, Stages, Counted, Alive, Unreaped
  <2>12. Resting' /\ CommandSent' /\ DumpSent'
    BY <1>1, <1>2, <2>1, <2>2, <2>6 DEF Resting, CommandSent, DumpSent, Reported
  <2>13. Dying' /\ Swallowing'
    BY <1>1, <1>3, <2>1 DEF IInv, Dying, Swallowing, Unreaped
  <2>14. Answering'
    BY <1>1, <2>2, <2>8 DEF Answering, Reported, HasRun, Unreaped
  <2>15. QED
    BY <2>10, <2>11, <2>12, <2>13, <2>14 DEF IInv
<1>4. CASE fd3 = <<>>
  <2>1. ~Alive /\ at' = "reap" /\ UNCHANGED <<call, fd3>>
    BY <1>4 DEF ReadStatus, EofOnFd3
  <2>2. TypeOK' /\ Handles' /\ Stages' /\ Counted'
    BY <1>1, <2>1 DEF IInv, TypeOK, CallType, Handles, Stages, Counted, Alive, Unreaped,
       Commanding, Dumping
  <2>3. CommandSent' /\ DumpSent' /\ Resting' /\ Answering' /\ Swallowing'
    BY <1>1, <2>1 DEF CommandSent, DumpSent, Resting, Answering, Swallowing, Alive
  <2>4. Dying'
    BY <1>1, <2>1 DEF IInv, Dying, HasRun, Unreaped, Commanding
  <2>5. QED
    BY <2>2, <2>3, <2>4 DEF IInv
<1>5. QED
  BY <1>3, <1>4

(* venv waits for the shell to end.                                        *)
LEMMA ReapStep ==
  ASSUME IInv, Reap, UNCHANGED cfg
  PROVE  IInv'
<1>1. /\ at = "reap" /\ sh.state = "zombie" /\ handle.open /\ ~handle.reaped /\ call.op # "none"
      /\ at' = "return" /\ UNCHANGED <<stdin, fd3, asked, ran, answers>>
      /\ handle' = [handle EXCEPT !.reaped = TRUE]
      /\ sh' = [sh EXCEPT !.state = "none"]
      /\ call' = [call EXCEPT !.code = IF call.ok THEN sh.status ELSE @]
  BY DEF Reap, IInv, Stages, pipeVars, history
<1>2. /\ call \in CallType /\ sh.status \in Nat /\ asked \in Nat
      /\ handle' \in [open: BOOLEAN, reaped: BOOLEAN, inFd: BOOLEAN]
      /\ handle'.open /\ handle'.reaped /\ handle'.inFd = handle.inFd
      /\ sh'.state = "none"
      /\ sh' \in [state: {"none", "start", "runs", "swallows", "zombie"}, last: Nat, status: Nat,
                  env: Value, ate: BOOLEAN]
  BY <1>1 DEF IInv, TypeOK
<1>3. /\ call' \in CallType' /\ call'.op = call.op /\ call'.ok = call.ok
      /\ call.ok => call'.code = sh.status
  BY <1>1, <1>2 DEF CallType
<1>4. Commanding' = Commanding /\ Dumping' = Dumping
  BY <1>3 DEF Commanding, Dumping
<1>5. TypeOK'
  BY <1>1, <1>2, <1>3 DEF IInv, TypeOK
<1>6. Handles' /\ Stages' /\ Counted'
  BY <1>1, <1>2, <1>3, <1>4 DEF IInv, Handles, Stages, Counted, Alive, Unreaped
<1>7. CommandSent' /\ DumpSent' /\ Resting' /\ Dying' /\ Swallowing'
  BY <1>1, <1>2 DEF CommandSent, DumpSent, Resting, Dying, Swallowing, Unreaped
<1>8. Answering'
  <2>1. SUFFICES ASSUME Commanding, call.ok
                 PROVE  \/ call'.code \in {EXEC_FAILED, KILLED}
                        \/ call'.code = Own(asked)' /\ HasRun'
    BY <1>2, <1>3, <1>4 DEF Answering
  <2>2. \/ sh.status \in {EXEC_FAILED, KILLED}
        \/ HasRun /\ sh.status = Own(asked)
    BY <1>1, <2>1 DEF IInv, Dying, Unreaped, Commanding
  <2>3. QED
    BY <1>1, <1>3, <2>1, <2>2 DEF HasRun, Own
<1>9. QED
  BY <1>5, <1>6, <1>7, <1>8 DEF IInv

(* The spawner returns to the bridge.                                      *)
LEMMA ReturnStep ==
  ASSUME IInv, CommandReturns \/ DumpReturns
  PROVE  IInv'
<1>1. /\ at = "return" /\ call.op # "none" /\ handle.open /\ call' = Idle /\ at' = "config"
      /\ UNCHANGED <<handle, sh, stdin, fd3, asked, ran, cfg>>
      /\ call.op # "close"
  BY DEF CommandReturns, DumpReturns, ReturnOf, IInv, Stages, pipeVars, history, Answered
<1>2. call' \in CallType' /\ call'.op = "none"
  BY <1>1, EmptySeq DEF Idle, CallType, Value
<1>3. ~Commanding' /\ ~Dumping'
  BY <1>2 DEF Commanding, Dumping
<1>4. /\ asked \in Nat /\ ran \in Seq(Nat) /\ answers \in Seq(Nat) /\ call.code \in Nat
      /\ Len(answers) \in Nat
  BY LenProperties DEF IInv, TypeOK, CallType
<1>5. answers' \in Seq(Nat) /\ asked = Len(answers')
  <2>1. CASE CommandReturns
    <3>1. Commanding /\ answers' = Append(answers, Outcome)
      BY <2>1 DEF CommandReturns, ReturnOf, Answered, Commanding
    <3>2. Outcome \in Nat
      BY <1>4 DEF Outcome, FAILURE
    <3>3. answers' \in Seq(Nat) /\ Len(answers') = Len(answers) + 1
      BY <1>4, <3>1, <3>2, AppendProperties
    <3>4. QED
      BY <3>1, <3>3 DEF IInv, Counted
  <2>2. CASE DumpReturns
    BY <1>4, <2>2 DEF DumpReturns, ReturnOf, history, IInv, Counted, Commanding
  <2>3. QED
    BY <2>1, <2>2
<1>6. TypeOK'
  BY <1>1, <1>2, <1>5 DEF IInv, TypeOK
<1>7. Handles' /\ Stages'
  BY <1>1, <1>2, <1>3 DEF IInv, Handles, Stages, Alive, Unreaped
<1>8. Counted'
  BY <1>1, <1>3, <1>5 DEF IInv, Counted
<1>9. CommandSent' /\ DumpSent' /\ Resting' /\ Swallowing' /\ Answering'
  BY <1>1, <1>2, <1>3 DEF IInv, CommandSent, DumpSent, Resting, Swallowing, Answering, Unreaped
<1>10. Dying'
  BY <1>1, <1>2, <1>3 DEF IInv, Dying, Unreaped
<1>11. QED
  BY <1>6, <1>7, <1>8, <1>9, <1>10 DEF IInv

(* The handle is freed.                                                    *)
LEMMA FreeStep ==
  ASSUME IInv, CloseReturns
  PROVE  IInv'
<1>1. /\ at = "return" /\ call.op = "close" /\ call' = Idle /\ at' \in {"config", "over"}
      /\ handle' = NoHandle /\ stdin' = <<>> /\ fd3' = <<>>
      /\ UNCHANGED <<sh, asked, ran, answers, cfg>>
  BY DEF CloseReturns, ReturnOf, Closed, history
<1>2. call' \in CallType' /\ call'.op = "none"
  BY <1>1, EmptySeq DEF Idle, CallType, Value
<1>3. ~Commanding /\ ~Commanding' /\ ~Dumping' /\ ~Alive /\ ~Alive' /\ sh.state # "swallows"
  BY <1>1, <1>2 DEF IInv, Stages, Handles, Unreaped, Commanding, Dumping, Alive
<1>4. TypeOK'
  BY <1>1, <1>2, EmptySeq DEF IInv, TypeOK, NoHandle
<1>5. Handles' /\ Stages' /\ Counted'
  BY <1>1, <1>2, <1>3 DEF IInv, Handles, Stages, Counted, Unreaped, NoHandle
<1>6. CommandSent' /\ DumpSent' /\ Resting' /\ Dying' /\ Swallowing' /\ Answering'
  BY <1>1, <1>2, <1>3 DEF CommandSent, DumpSent, Resting, Dying, Swallowing, Answering, Unreaped,
     NoHandle
<1>7. QED
  BY <1>4, <1>5, <1>6 DEF IInv

(* Even numbers.                                                           *)
LEMMA EvenNumbers ==
  ASSUME NEW n \in Nat, NEW k \in Nat, Even(n), Even(k), k <= n
  PROVE  Even(n - k) /\ Even(n + 2) /\ (n - 1 <= k => k = n)
<1>1. PICK i \in 0..n : n = 2 * i
  BY DEF Even
<1>2. PICK j \in 0..k : k = 2 * j
  BY DEF Even
<1>3. Even(n - k)
  <2>1. i - j \in 0..n - k /\ n - k = 2 * (i - j)
    BY <1>1, <1>2
  <2>2. QED
    BY <2>1 DEF Even
<1>4. Even(n + 2)
  <2>1. i + 1 \in 0..n + 2 /\ n + 2 = 2 * (i + 1)
    BY <1>1
  <2>2. QED
    BY <2>1 DEF Even
<1>5. n - 1 <= k => k = n
  BY <1>1, <1>2
<1>6. QED
  BY <1>3, <1>4, <1>5

(* What a read takes and what it leaves.                                   *)
LEMMA Splits ==
  ASSUME NEW S, NEW s \in Seq(S), NEW k \in 0..Len(s)
  PROVE  /\ SubSeq(s, 1, k) \in Seq(S)
         /\ \A x : x \in Range(SubSeq(s, 1, k)) <=> \E i \in 1..k : s[i] = x
         /\ SubSeq(s, k + 1, Len(s)) \in Seq(S)
         /\ Len(SubSeq(s, k + 1, Len(s))) = Len(s) - k
         /\ \A i \in 1..Len(s) - k : SubSeq(s, k + 1, Len(s))[i] = s[k + i]
<1>1. Len(s) \in Nat /\ k \in Nat /\ k <= Len(s) /\ \A i \in 1..Len(s) : s[i] \in S
  BY LenProperties, ElementOfSeq
<1> DEFINE a == SubSeq(s, 1, k)
           b == SubSeq(s, k + 1, Len(s))
<1>2. /\ a \in Seq(S) /\ Len(a) = k
      /\ \A i \in 1..k : a[i] = s[i]
  <2>1. \A i \in 1..k : s[i] \in S
    BY <1>1
  <2>2. /\ a \in Seq(S) /\ Len(a) = IF 1 <= k THEN k - 1 + 1 ELSE 0
        /\ \A i \in 1..k - 1 + 1 : a[i] = s[1 + i - 1]
    BY <1>1, <2>1, SubSeqProperties
  <2> HIDE DEF a
  <2>3. QED
    BY <1>1, <2>2
<1>3. /\ b \in Seq(S) /\ Len(b) = Len(s) - k
      /\ \A i \in 1..Len(s) - k : b[i] = s[k + i]
  <2>1. \A i \in k + 1..Len(s) : s[i] \in S
    BY <1>1
  <2>2. /\ b \in Seq(S) /\ Len(b) = IF k + 1 <= Len(s) THEN Len(s) - (k + 1) + 1 ELSE 0
        /\ \A i \in 1..Len(s) - (k + 1) + 1 : b[i] = s[k + 1 + i - 1]
    BY <1>1, <2>1, SubSeqProperties
  <2> HIDE DEF b
  <2>3. Len(s) - (k + 1) + 1 = Len(s) - k
    BY <1>1
  <2>4. Len(b) = Len(s) - k
    BY <1>1, <2>2
  <2>5. ASSUME NEW i \in 1..Len(s) - k PROVE b[i] = s[k + i]
    <3>1. k + 1 + i - 1 = k + i
      BY <1>1
    <3>2. QED
      BY <2>2, <2>3, <3>1
  <2>6. QED
    BY <2>2, <2>4, <2>5
<1>4. ASSUME NEW x PROVE x \in Range(a) <=> \E i \in 1..k : s[i] = x
  <2>1. DOMAIN a = 1..k
    BY <1>2, LenProperties
  <2> HIDE DEF a
  <2>2. QED
    BY <1>2, <2>1 DEF Range
<1>5. QED
  BY <1>2, <1>3, <1>4

(* What two sequences contain together.                                    *)
LEMMA RangeOfConcat ==
  ASSUME NEW S, NEW s \in Seq(S), NEW t \in Seq(S), NEW x
  PROVE  x \in Range(s \o t) <=> x \in Range(s) \/ x \in Range(t)
<1> DEFINE u == s \o t
<1>1. /\ Len(s) \in Nat /\ Len(t) \in Nat /\ DOMAIN s = 1..Len(s) /\ DOMAIN t = 1..Len(t)
      /\ u \in Seq(S) /\ Len(u) = Len(s) + Len(t)
      /\ \A i \in 1..Len(s) + Len(t) : u[i] = IF i <= Len(s) THEN s[i] ELSE t[i - Len(s)]
  BY ConcatProperties, LenProperties
<1>2. DOMAIN u = 1..Len(s) + Len(t)
  BY <1>1, LenProperties
<1> HIDE DEF u
<1>3. ASSUME x \in Range(u) PROVE x \in Range(s) \/ x \in Range(t)
  <2>1. PICK i \in 1..Len(s) + Len(t) : u[i] = x
    BY <1>2, <1>3 DEF Range
  <2>2. CASE i <= Len(s)
    <3>1. i \in 1..Len(s) /\ s[i] = x
      BY <1>1, <2>1, <2>2
    <3>2. QED
      BY <1>1, <3>1 DEF Range
  <2>3. CASE ~(i <= Len(s))
    <3>1. i - Len(s) \in 1..Len(t) /\ t[i - Len(s)] = x
      BY <1>1, <2>1, <2>3
    <3>2. QED
      BY <1>1, <3>1 DEF Range
  <2>4. QED
    BY <2>2, <2>3
<1>4. ASSUME x \in Range(s) PROVE x \in Range(u)
  <2>1. PICK i \in 1..Len(s) : s[i] = x
    BY <1>1, <1>4 DEF Range
  <2>2. i \in 1..Len(s) + Len(t) /\ u[i] = x
    BY <1>1, <2>1
  <2>3. QED
    BY <1>2, <2>2 DEF Range
<1>5. ASSUME x \in Range(t) PROVE x \in Range(u)
  <2>1. PICK i \in 1..Len(t) : t[i] = x
    BY <1>1, <1>5 DEF Range
  <2>2. Len(s) + i \in 1..Len(s) + Len(t) /\ u[Len(s) + i] = x
    <3>1. Len(s) + i \in 1..Len(s) + Len(t) /\ ~(Len(s) + i <= Len(s)) /\ Len(s) + i - Len(s) = i
      BY <1>1, <2>1
    <3>2. QED
      BY <1>1, <2>1, <3>1
  <2>3. QED
    BY <1>2, <2>2 DEF Range
<1>6. x \in Range(u) <=> x \in Range(s) \/ x \in Range(t)
  BY <1>3, <1>4, <1>5
<1>7. QED
  BY <1>6 DEF u

(* venv reads a piece of a dump.  Markers and newlines come in pairs, and  *)
(* an even piece that has the closing marker has all there is.             *)
LEMMA ReadDumpStep ==
  ASSUME IInv, WholeLines, ReadDump, UNCHANGED cfg
  PROVE  IInv'
<1>1. /\ at = "dump" /\ Dumping /\ ~Commanding /\ call.left = <<>> /\ call.ok
      /\ Unreaped /\ call.op \notin {"none", "close"} /\ handle.open /\ ~handle.reaped
      /\ UNCHANGED <<handle, sh, stdin, asked, ran, answers>>
  BY DEF ReadDump, IInv, Stages, Unreaped, Commanding, Dumping, history
<1>2. /\ call \in CallType /\ stdin \in Seq(InputLine) /\ fd3 \in Seq(OutputToken)
      /\ call.got \in Seq(OutputToken) /\ Sent = stdin
  BY <1>1, ConcatEmptySeq DEF IInv, TypeOK, CallType, Sent
<1>3. CASE fd3 # <<>>
  <2> DEFINE n == Len(fd3)
             k == Fits(fd3)
             taken == SubSeq(fd3, 1, k)
             rest == SubSeq(fd3, k + 1, n)
             got == call.got \o taken
  <2>1. n \in Nat /\ n > 0
    BY <1>2, <1>3, EmptySeq
  <2>2. k \in 0..n /\ k \in Nat /\ k > 0 /\ k <= n
    BY <2>1, ChunkAssumption DEF Fits
  <2>3. Even(n) /\ Even(k)
    <3>1. Even(n)
      BY <1>1 DEF IInv, DumpSent
    <3>2. QED
      BY <3>1 DEF WholeLines, Fits
  <2>4. /\ Sent = <<>> => n > 1 /\ fd3[n - 1] = Token("END")
        /\ \A i \in 1..n : fd3[i] = Token("END") => Sent = <<>> /\ i = n - 1
        /\ Token("END") \notin Range(call.got)
    BY <1>1 DEF IInv, DumpSent
  <2> HIDE DEF n, k
  <2>5. /\ taken \in Seq(OutputToken) /\ rest \in Seq(OutputToken) /\ Len(rest) = n - k
        /\ \A i \in 1..n - k : rest[i] = fd3[k + i]
        /\ Token("END") \in Range(taken) <=> \E i \in 1..k : fd3[i] = Token("END")
    BY <1>2, <2>2, Splits DEF n
  <2> HIDE DEF taken, rest
  <2>6. /\ got \in Seq(OutputToken)
        /\ Token("END") \in Range(got) <=> \E i \in 1..k : fd3[i] = Token("END")
    BY <1>2, <2>4, <2>5, ConcatProperties, RangeOfConcat
  <2> HIDE DEF got
  <2>7. /\ fd3' = rest
        /\ IF Token("END") \in Range(got)
           THEN /\ call' = [call EXCEPT !.got = <<>>, !.env = Dumped(got)]
                /\ at' = "return"
           ELSE call' = [call EXCEPT !.got = got] /\ at' = at
    BY <1>3 DEF ReadDump, EofOnFd3, n, k, taken, rest, got
  <2>8. /\ call'.op = call.op /\ call'.ok = call.ok /\ call'.left = call.left
        /\ call' \in CallType'
    <3>1. CASE Token("END") \in Range(got)
      BY <1>2, <2>7, <3>1, EmptySeq DEF CallType
    <3>2. CASE Token("END") \notin Range(got)
      BY <1>2, <2>6, <2>7, <3>2 DEF CallType
    <3>3. QED
      BY <3>1, <3>2
  <2>9. Commanding' = Commanding /\ Dumping' = Dumping
    BY <2>8 DEF Commanding, Dumping
  <2>10. TypeOK'
    BY <1>1, <2>5, <2>7, <2>8 DEF IInv, TypeOK
  <2>11. Handles' /\ Stages' /\ Counted'
    BY <1>1, <2>7, <2>8, <2>9 DEF IInv, Handles, Stages, Counted, Alive, Unreaped
  <2>12. CommandSent' /\ Swallowing' /\ Answering' /\ Dying'
    BY <1>1, <2>8, <2>9 DEF IInv, CommandSent, Swallowing, Answering, Dying, Unreaped
  <2>13. Sent' = Sent
    BY <1>1, <2>8 DEF Sent
  <2>14. Resting' /\ DumpSent'
    <3>1. CASE Token("END") \in Range(got)
      <4>1. PICK i \in 1..k : fd3[i] = Token("END")
        BY <2>6, <3>1
      <4>2. i \in 1..n /\ i <= k
        BY <2>1, <2>2
      <4>3. Sent = <<>> /\ n - 1 <= k
        BY <2>4, <4>1, <4>2
      <4>4. k = n
        BY <2>1, <2>2, <2>3, <4>3, EvenNumbers
      <4>5. Len(rest) = 0
        BY <2>1, <2>5, <4>4
      <4>6. rest = <<>> /\ stdin = <<>>
        BY <1>2, <2>5, <4>3, <4>5, EmptySeq
      <4>7. QED
        BY <1>1, <2>7, <3>1, <4>6 DEF Resting, DumpSent
    <3>2. CASE Token("END") \notin Range(got)
      <4>1. at' = "dump" /\ call'.got = got /\ fd3' = rest /\ Len(fd3') = n - k
        BY <1>1, <1>2, <2>5, <2>7, <3>2 DEF CallType
      <4>2. Even(n - k)
        BY <2>1, <2>2, <2>3, EvenNumbers
      <4>3. ASSUME Sent = <<>> PROVE n - k > 1 /\ rest[n - k - 1] = Token("END")
        <5>1. n > 1 /\ fd3[n - 1] = Token("END")
          BY <2>4, <4>3
        <5>2. ~(n - 1 \in 1..k)
          BY <2>6, <3>2, <5>1
        <5>3. n - k > 1
          BY <2>1, <2>2, <5>1, <5>2
        <5>4. n - k - 1 \in 1..n - k /\ k + (n - k - 1) = n - 1
          BY <2>1, <2>2, <5>3
        <5>5. QED
          BY <2>5, <5>1, <5>3, <5>4
      <4>4. ASSUME NEW i \in 1..n - k, rest[i] = Token("END") PROVE Sent = <<>> /\ i = n - k - 1
        <5>1. k + i \in 1..n /\ fd3[k + i] = Token("END")
          BY <2>1, <2>2, <2>5, <4>4
        <5>2. Sent = <<>> /\ k + i = n - 1
          BY <2>4, <5>1
        <5>3. QED
          BY <2>1, <2>2, <5>2
      <4>5. Sent \in {<<Line("begin"), Line("env"), Line("end")>>, <<Line("env"), Line("end")>>,
                      <<Line("end")>>, <<>>}
        BY <1>1 DEF IInv, DumpSent
      <4>6. DumpSent'
        BY <2>13, <3>2, <4>1, <4>2, <4>3, <4>4, <4>5 DEF DumpSent
      <4>7. Resting'
        BY <1>1, <2>8, <4>1 DEF Resting
      <4>8. QED
        BY <4>6, <4>7
    <3>3. QED
      BY <3>1, <3>2
  <2>15. QED
    BY <2>10, <2>11, <2>12, <2>14 DEF IInv
<1>4. CASE fd3 = <<>>
  <2>1. ~Alive /\ at' = "reap" /\ call' = [call EXCEPT !.ok = FALSE] /\ fd3' = fd3
    BY <1>4 DEF ReadDump, EofOnFd3
  <2>2. /\ call' \in CallType' /\ call'.op = call.op
    BY <1>2, <2>1 DEF CallType
  <2>3. Commanding' = Commanding /\ Dumping' = Dumping
    BY <2>2 DEF Commanding, Dumping
  <2>4. TypeOK'
    BY <1>1, <2>1, <2>2 DEF IInv, TypeOK
  <2>5. Handles' /\ Stages' /\ Counted'
    BY <1>1, <2>1, <2>2, <2>3 DEF IInv, Handles, Stages, Counted, Alive, Unreaped
  <2>6. CommandSent' /\ DumpSent' /\ Resting' /\ Answering' /\ Swallowing' /\ Dying'
    BY <1>1, <2>1, <2>2, <2>3 DEF IInv, CommandSent, DumpSent, Resting, Answering, Swallowing,
       Alive, Dying, Unreaped
  <2>7. QED
    BY <2>4, <2>5, <2>6 DEF IInv
<1>5. QED
  BY <1>3, <1>4

(* When the shell has something to read, a call is under way, and the line *)
(* is the first of what was sent.                                          *)
LEMMA Busy ==
  ASSUME IInv, Alive, stdin # <<>>
  PROVE  /\ Unreaped /\ handle.open /\ ~handle.reaped
         /\ call.op \notin {"none", "close"}
         /\ \/ Commanding /\ at \in {"write", "status"} /\ ~Dumping
            \/ Dumping /\ at \in {"write", "dump"} /\ ~Commanding
         /\ Sent # <<>> /\ Head(Sent) = Head(stdin) /\ Tail(Sent) = Tail(stdin) \o call.left
         /\ Tail(stdin) \in Seq(InputLine) /\ Head(stdin) \in InputLine
<1>1. /\ stdin \in Seq(InputLine) /\ call.left \in Seq(InputLine)
      /\ call.op \in {"none", "command", "edit", "snapshot", "compare", "close"}
      /\ at \in {"config", "child", "write", "status", "dump", "reap", "return", "over"}
  BY DEF IInv, TypeOK, CallType
<1>2. Unreaped /\ at \notin {"config", "child", "return"} /\ call.op # "close"
  BY DEF IInv, Handles, Resting
<1>3. at \in {"write", "status", "dump"} /\ call.op # "none"
  BY <1>1, <1>2 DEF IInv, Stages, Unreaped
<1>4. \/ Commanding /\ at \in {"write", "status"} /\ ~Dumping
      \/ Dumping /\ at \in {"write", "dump"} /\ ~Commanding
  BY <1>3 DEF IInv, Stages, Commanding, Dumping
<1>5. /\ Sent # <<>> /\ Head(Sent) = Head(stdin) /\ Tail(Sent) = Tail(stdin) \o call.left
  BY <1>1, Consumes DEF Sent
<1>6. Tail(stdin) \in Seq(InputLine) /\ Head(stdin) \in InputLine
  BY <1>1, HeadTailProperties
<1>7. QED
  BY <1>2, <1>3, <1>4, <1>5, <1>6 DEF Unreaped

(* What any line the shell takes in leaves as it was.                      *)
LEMMA TakesIn ==
  ASSUME IInv, Alive, stdin # <<>>, stdin' = Tail(stdin),
         UNCHANGED <<at, call, handle, asked, answers, cfg>>,
         sh' \in [state: {"runs", "swallows", "zombie"}, last: Nat, status: Nat,
                  env: Value, ate: BOOLEAN],
         fd3' \in Seq(OutputToken), ran' \in Seq(Nat)
  PROVE  /\ TypeOK' /\ Handles' /\ Stages' /\ Resting' /\ Answering'
         /\ Sent' = Tail(Sent)
         /\ Commanding' = Commanding /\ Dumping' = Dumping
<1>1. /\ Unreaped /\ call.op \notin {"none", "close"}
      /\ at \in {"write", "status", "dump"}
      /\ Tail(Sent) = Tail(stdin) \o call.left /\ Tail(stdin) \in Seq(InputLine)
  BY Busy
<1>2. TypeOK'
  BY <1>1 DEF IInv, TypeOK, CallType
<1>3. Handles' /\ Resting' /\ Answering'
  BY <1>1 DEF IInv, Handles, Resting, Answering, Unreaped, Alive
<1>4. Stages'
  BY <1>1 DEF IInv, Stages, Commanding, Dumping
<1>5. Sent' = Tail(Sent)
  BY <1>1 DEF Sent
<1>6. QED
  BY <1>2, <1>3, <1>4, <1>5 DEF Commanding, Dumping

(* A line that waits says which stage a call is at.                        *)
LEMMA WhichLine ==
  ASSUME IInv, Alive, stdin # <<>>
  PROVE  /\ Commanding => \/ ToRun /\ Head(stdin).op = "cmd" /\ Head(stdin).n = asked
                             /\ Tail(Sent) = <<Line("probe")>>
                          \/ ToReport /\ Head(stdin).op = "probe" /\ Tail(Sent) = <<>>
         /\ Dumping => \/ Sent = <<Line("begin"), Line("env"), Line("end")>>
                          /\ Head(stdin).op = "begin" /\ Tail(Sent) = <<Line("env"), Line("end")>>
                       \/ Sent = <<Line("env"), Line("end")>>
                          /\ Head(stdin).op = "env" /\ Tail(Sent) = <<Line("end")>>
                       \/ Sent = <<Line("end")>>
                          /\ Head(stdin).op = "end" /\ Tail(Sent) = <<>>
<1>1. /\ \/ Commanding /\ at \in {"write", "status"} /\ ~Dumping
         \/ Dumping /\ at \in {"write", "dump"} /\ ~Commanding
      /\ Sent # <<>> /\ Head(Sent) = Head(stdin)
  BY Busy
<1>2. /\ Line("begin").op = "begin" /\ Line("env").op = "env" /\ Line("end").op = "end"
      /\ Line("probe").op = "probe"
  BY DEF Line
<1>3. Sent \in Seq(InputLine)
  BY ConcatProperties DEF IInv, TypeOK, CallType, Sent
<1>4. CASE Commanding
  <2>1. ToRun \/ ToReport
    BY <1>1, <1>4 DEF IInv, CommandSent, Reported, Swallowed
  <2>2. CASE ToRun
    <3>1. Len(Sent) = 2 /\ Sent[1].op = "cmd" /\ Sent[1].n = asked /\ Sent[2] = Line("probe")
      BY <2>2 DEF ToRun
    <3>2. Head(Sent) = Sent[1]
      BY <1>3, <3>1
    <3>3. Tail(Sent) = <<Line("probe")>>
      <4>1. Tail(Sent) \in Seq(InputLine) /\ Len(Tail(Sent)) = 1 /\ Tail(Sent)[1] = Sent[2]
        <5>1. /\ Tail(Sent) \in Seq(InputLine) /\ Len(Tail(Sent)) = Len(Sent) - 1
              /\ \A i \in 1..Len(Tail(Sent)) : Tail(Sent)[i] = Sent[i + 1]
          BY <1>1, <1>3, HeadTailProperties
        <5>2. Len(Tail(Sent)) = 1
          <6>1. Len(Tail(Sent)) = Len(Sent) - 1
            BY <5>1
          <6>2. Len(Sent) = 2
            BY <3>1
          <6>3. QED
            BY <6>1, <6>2
        <5>3. Tail(Sent)[1] = Sent[2]
          <6>1. 1 \in 1..1 /\ 1 + 1 = 2
            OBVIOUS
          <6>2. \A i \in 1..1 : Tail(Sent)[i] = Sent[i + 1]
            BY <5>1, <5>2
          <6>3. QED
            BY <6>1, <6>2
        <5>4. QED
          BY <5>1, <5>2, <5>3
      <4>2. Sent[2] \in InputLine
        BY <1>3, <3>1, ElementOfSeq
      <4>3. <<Sent[2]>> \in Seq(InputLine) /\ Len(<<Sent[2]>>) = 1 /\ <<Sent[2]>>[1] = Sent[2]
        BY <4>2
      <4>4. Tail(Sent) = <<Sent[2]>>
        <5> DEFINE t == Tail(Sent)
                   u == <<Sent[2]>>
        <5>1. t \in Seq(InputLine) /\ u \in Seq(InputLine) /\ Len(t) = 1 /\ Len(u) = 1
              /\ t[1] = u[1]
          BY <4>1, <4>3
        <5> HIDE DEF t, u
        <5>2. \A i \in 1..Len(t) : t[i] = u[i]
          BY <5>1
        <5>3. t = u
          BY <5>1, <5>2, SeqEqual
        <5>4. QED
          BY <5>3 DEF t, u
      <4>5. QED
        BY <3>1, <4>4
    <3>4. QED
      BY <1>1, <1>4, <2>2, <3>1, <3>2, <3>3
  <2>3. CASE ToReport
    <3>1. Sent = <<Line("probe")>>
      BY <2>3 DEF ToReport
    <3>2. Head(Sent) = Line("probe") /\ Tail(Sent) = <<>>
      BY <3>1
    <3>3. QED
      BY <1>1, <1>2, <1>4, <2>3, <3>2
  <2>4. QED
    BY <2>1, <2>2, <2>3
<1>5. CASE Dumping
  <2>1. Sent \in {<<Line("begin"), Line("env"), Line("end")>>, <<Line("env"), Line("end")>>,
                  <<Line("end")>>}
    BY <1>1, <1>5 DEF IInv, DumpSent
  <2>2. ASSUME Sent = <<Line("begin"), Line("env"), Line("end")>>
        PROVE  Head(Sent) = Line("begin") /\ Tail(Sent) = <<Line("env"), Line("end")>>
    BY <2>2
  <2>3. ASSUME Sent = <<Line("env"), Line("end")>>
        PROVE  Head(Sent) = Line("env") /\ Tail(Sent) = <<Line("end")>>
    BY <2>3
  <2>4. ASSUME Sent = <<Line("end")>>
        PROVE  Head(Sent) = Line("end") /\ Tail(Sent) = <<>>
    BY <2>4
  <2>5. QED
    BY <1>1, <1>2, <1>5, <2>1, <2>2, <2>3, <2>4
<1>6. QED
  BY <1>4, <1>5

(* A line that is not the call's own is taken for the command's input.     *)
LEMMA SwallowStep ==
  ASSUME IInv, Swallow, UNCHANGED cfg
  PROVE  IInv'
<1>1. /\ sh.state = "swallows" /\ stdin # <<>> /\ stdin' = Tail(stdin)
      /\ sh' = [sh EXCEPT !.state = "runs", !.ate = TRUE]
      /\ UNCHANGED <<at, call, handle, asked, answers, fd3, ran>>
  BY DEF Swallow, ShellUnchanged
<1>2. Alive /\ Commanding /\ at \in {"write", "status"} /\ HasRun /\ fd3 = <<>>
  BY <1>1 DEF Alive, IInv, Swallowing
<1>3. /\ sh' \in [state: {"runs", "swallows", "zombie"}, last: Nat, status: Nat,
                  env: Value, ate: BOOLEAN]
      /\ sh'.state = "runs"
      /\ fd3' \in Seq(OutputToken) /\ ran' \in Seq(Nat)
  BY <1>1 DEF IInv, TypeOK
<1>4. /\ TypeOK' /\ Handles' /\ Stages' /\ Resting' /\ Answering' /\ Sent' = Tail(Sent)
      /\ Commanding' = Commanding /\ Dumping' = Dumping
  BY <1>1, <1>2, <1>3, TakesIn
<1>5. HasRun'
  BY <1>1, <1>2 DEF HasRun
<1>6. Sent' = <<>>
  BY <1>1, <1>2, <1>4, WhichLine DEF ToRun
<1>7. CommandSent' /\ DumpSent'
  BY <1>1, <1>2, <1>4, <1>5, <1>6, Busy DEF CommandSent, Swallowed, DumpSent
<1>8. Counted' /\ Dying' /\ Swallowing'
  BY <1>1, <1>2, <1>3, <1>4 DEF IInv, Counted, Dying, Swallowing
<1>9. QED
  BY <1>4, <1>7, <1>8 DEF IInv

(* The shell runs a command.                                               *)
LEMMA RunCommandStep ==
  ASSUME IInv, sh.state = "runs", stdin # <<>>, Head(stdin).op = "cmd", RunCommand(Head(stdin)),
         UNCHANGED <<at, call, handle, asked, answers, cfg>>
  PROVE  IInv'
<1> DEFINE line == Head(stdin)
<1>1. Alive
  BY DEF Alive
<1>2. /\ line \in InputLine /\ Unreaped /\ call.op # "close"
      /\ \/ Commanding /\ at \in {"write", "status"} /\ ~Dumping
         \/ Dumping /\ at \in {"write", "dump"} /\ ~Commanding
  BY <1>1, Busy
<1>3. Commanding /\ ~Dumping /\ at \in {"write", "status"}
  BY <1>1, <1>2, WhichLine
<1>4. ToRun /\ line.n = asked /\ Tail(Sent) = <<Line("probe")>> /\ fd3 = <<>>
  BY <1>1, <1>3, WhichLine DEF ToRun
<1>5. /\ ran' = Append(ran, asked) /\ stdin' = Tail(stdin) /\ fd3' = fd3
  BY <1>4 DEF RunCommand
<1>6. /\ asked \in Nat /\ ran \in Seq(Nat) /\ Own(asked) \in Nat
      /\ sh \in [state: {"none", "start", "runs", "swallows", "zombie"}, last: Nat, status: Nat,
                 env: Value, ate: BOOLEAN]
  BY DEF IInv, TypeOK, Own
<1>7. /\ ran' \in Seq(Nat) /\ Len(ran') = Len(ran) + 1 /\ Len(ran) \in Nat
      /\ \A i \in 1..Len(ran) : ran'[i] = ran[i]
      /\ ran'[Len(ran) + 1] = asked
  BY <1>5, <1>6, AppendProperties, LenProperties
<1>8. DOMAIN ran = 1..Len(ran)
  BY <1>6, LenProperties
<1>9. DOMAIN ran' = 1..Len(ran) + 1
  <2>1. DOMAIN ran' = 1..Len(ran') /\ Len(ran') = Len(ran) + 1
    BY <1>7, LenProperties
  <2>2. QED
    BY <2>1
<1> HIDE DEF line
<1>10. /\ sh' \in [state: {"runs", "swallows", "zombie"}, last: Nat, status: Nat,
                   env: Value, ate: BOOLEAN]
       /\ sh'.state # "zombie" => sh'.last = Own(asked)
       /\ sh'.state = "zombie" => sh'.status \in {KILLED, Own(asked)}
  <2>1. CASE line.kind = "exit"
    <3>1. sh' = [sh EXCEPT !.state = "zombie", !.status = Own(asked)]
      BY <1>4, <2>1 DEF RunCommand, Exits, line
    <3>2. QED
      BY <1>6, <3>1
  <2>2. CASE line.kind = "killed"
    <3>1. sh' = [sh EXCEPT !.state = "zombie", !.status = KILLED]
      BY <2>2 DEF RunCommand, Exits, line
    <3>2. QED
      BY <1>6, <3>1 DEF KILLED
  <2>3. CASE line.kind = "reads"
    <3>1. sh' = [sh EXCEPT !.state = "swallows", !.last = Own(asked)]
      BY <1>4, <2>3 DEF RunCommand, line
    <3>2. QED
      BY <1>6, <3>1
  <2>4. CASE line.kind \in {"set", "pre", "app"}
    <3>1. sh' = [sh EXCEPT !.env = Edited(line.kind, line.env, @), !.last = Own(asked)]
      BY <1>4, <2>4 DEF RunCommand, line
    <3>2. line.env \in Seq(Fragments) /\ sh.env \in Seq(Fragments)
      BY <1>2, <1>6 DEF InputLine, Value, line
    <3>3. /\ line.env \o sh.env \in Seq(Fragments)
          /\ sh.env \o line.env \in Seq(Fragments)
      BY <3>2, ConcatProperties
    <3>4. Edited(line.kind, line.env, sh.env) \in Value
      BY <2>4, <3>2, <3>3 DEF Edited, Value
    <3>5. QED
      BY <1>6, <3>1, <3>4
  <2>5. CASE line.kind \notin {"exit", "killed", "reads", "set", "pre", "app"}
    <3>1. sh' = [sh EXCEPT !.last = Own(asked)]
      BY <1>4, <2>5 DEF RunCommand, line
    <3>2. QED
      BY <1>6, <3>1
  <2>6. QED
    BY <2>1, <2>2, <2>3, <2>4, <2>5
<1>11. /\ TypeOK' /\ Handles' /\ Stages' /\ Resting' /\ Answering' /\ Sent' = Tail(Sent)
       /\ Commanding' = Commanding /\ Dumping' = Dumping
  <2>1. fd3' \in Seq(OutputToken)
    BY <1>5 DEF IInv, TypeOK
  <2>2. QED
    BY <1>1, <1>5, <1>7, <1>10, <2>1, TakesIn
<1>12. HasRun'
  <2>1. Len(ran) + 1 \in DOMAIN ran'
    BY <1>7, <1>9
  <2>2. QED
    BY <1>7, <2>1 DEF HasRun
<1>13. ToReport'
  BY <1>4, <1>5, <1>10, <1>11, <1>12 DEF ToReport, Alive
<1>14. CommandSent' /\ DumpSent' /\ Swallowing'
  BY <1>3, <1>4, <1>5, <1>11, <1>12, <1>13 DEF CommandSent, DumpSent, Swallowing
<1>15. Dying'
  BY <1>3, <1>4, <1>5, <1>10, <1>11, <1>12 DEF Dying, KILLED
<1>16. Counted'
  <2>1. \A i \in DOMAIN ran' : i \in DOMAIN ran \/ i = Len(ran) + 1
    BY <1>7, <1>8, <1>9
  <2>2. ASSUME NEW i \in DOMAIN ran' PROVE ran'[i] <= asked
    <3>1. CASE i \in DOMAIN ran
      BY <1>7, <1>8, <3>1 DEF IInv, Counted
    <3>2. CASE i = Len(ran) + 1
      BY <1>6, <1>7, <3>2
    <3>3. QED
      BY <2>1, <3>1, <3>2
  <2>3. QED
    BY <1>11, <2>2 DEF IInv, Counted
<1>17. QED
  BY <1>11, <1>14, <1>15, <1>16 DEF IInv

(* The shell reports a status or a part of a dump.                         *)
LEMMA ReportStep ==
  ASSUME IInv, sh.state = "runs", stdin # <<>>, NEW token \in OutputToken,
         Report(<<token, Newline>>),
         Head(stdin).op # "cmd",
         Head(stdin).op = "probe" => token = StatusToken(sh.last),
         Head(stdin).op # "probe" => (token = Token("END") <=> Head(stdin).op = "end"),
         UNCHANGED <<at, call, handle, asked, answers, cfg>>
  PROVE  IInv'
<1>1. Alive /\ fd3 \in Seq(OutputToken) /\ Newline \in OutputToken
  BY EmptySeq DEF Alive, IInv, TypeOK, Newline, Token, OutputToken, Value
<1>2. /\ Unreaped /\ call.op # "close"
      /\ \/ Commanding /\ at \in {"write", "status"} /\ ~Dumping
         \/ Dumping /\ at \in {"write", "dump"} /\ ~Commanding
  BY <1>1, Busy
<1>3. /\ fd3' = fd3 \o <<token, Newline>> /\ stdin' = Tail(stdin)
      /\ sh' = [sh EXCEPT !.last = 0] /\ ran' = ran
  BY DEF Report
<1>4. /\ sh' \in [state: {"runs", "swallows", "zombie"}, last: Nat, status: Nat,
                  env: Value, ate: BOOLEAN]
      /\ sh'.state = "runs" /\ ran' \in Seq(Nat)
  BY <1>3 DEF IInv, TypeOK
<1> DEFINE pair == <<token, Newline>>
<1>5. pair \in Seq(OutputToken) /\ Len(pair) = 2 /\ pair[1] = token /\ pair[2] = Newline
  BY <1>1
<1> HIDE DEF pair
<1>6. /\ fd3' = fd3 \o pair
      /\ fd3' \in Seq(OutputToken) /\ Len(fd3') = Len(fd3) + 2 /\ Len(fd3) \in Nat
      /\ \A i \in 1..Len(fd3) : fd3'[i] = fd3[i]
      /\ fd3'[Len(fd3) + 1] = token /\ fd3'[Len(fd3) + 2] = Newline
  <2>1. fd3' = fd3 \o pair /\ Len(fd3) \in Nat
    BY <1>1, <1>3, LenProperties DEF pair
  <2>2. /\ fd3 \o pair \in Seq(OutputToken) /\ Len(fd3 \o pair) = Len(fd3) + 2
        /\ \A i \in 1..Len(fd3) + 2 :
             (fd3 \o pair)[i] = IF i <= Len(fd3) THEN fd3[i] ELSE pair[i - Len(fd3)]
    <3>1. /\ fd3 \o pair \in Seq(OutputToken) /\ Len(fd3 \o pair) = Len(fd3) + Len(pair)
          /\ \A i \in 1..Len(fd3) + Len(pair) :
               (fd3 \o pair)[i] = IF i <= Len(fd3) THEN fd3[i] ELSE pair[i - Len(fd3)]
      BY <1>1, <1>5, ConcatProperties
    <3>2. Len(pair) = 2
      BY <1>5
    <3>3. QED
      BY <3>1, <3>2
  <2>3. /\ Len(fd3) + 1 - Len(fd3) = 1 /\ Len(fd3) + 2 - Len(fd3) = 2
        /\ ~(Len(fd3) + 1 <= Len(fd3)) /\ ~(Len(fd3) + 2 <= Len(fd3))
        /\ Len(fd3) + 1 \in 1..Len(fd3) + 2 /\ Len(fd3) + 2 \in 1..Len(fd3) + 2
        /\ \A i \in 1..Len(fd3) : i \in 1..Len(fd3) + 2 /\ i <= Len(fd3)
    BY <2>1
  <2>4. QED
    BY <1>5, <2>1, <2>2, <2>3
<1>7. /\ TypeOK' /\ Handles' /\ Stages' /\ Resting' /\ Answering' /\ Sent' = Tail(Sent)
      /\ Commanding' = Commanding /\ Dumping' = Dumping
  BY <1>1, <1>3, <1>4, <1>6, TakesIn
<1>8. Counted' /\ Dying' /\ Swallowing'
  BY <1>3, <1>4, <1>7 DEF IInv, Counted, Dying, Swallowing
<1>9. CommandSent'
  <2>1. SUFFICES ASSUME Commanding, at \in {"write", "status"} PROVE Reported'
    BY <1>7 DEF CommandSent
  <2>2. ToReport /\ Head(stdin).op = "probe" /\ Tail(Sent) = <<>>
    BY <1>1, <2>1, WhichLine
  <2>3. fd3 = <<>> /\ HasRun /\ token = StatusToken(Own(asked))
    BY <1>1, <2>2 DEF ToReport
  <2>4. fd3' = <<token, Newline>>
    BY <1>3, <1>5, <2>3, ConcatEmptySeq DEF pair
  <2>5. QED
    BY <1>3, <1>7, <2>2, <2>3, <2>4 DEF Reported, HasRun, Own
<1>10. DumpSent'
  <2>1. SUFFICES ASSUME Dumping, at \in {"write", "dump"} PROVE DumpSent'
    BY <1>7 DEF DumpSent
  <2>2. /\ Sent # <<>> /\ Even(Len(fd3)) /\ Token("END") \notin Range(call.got)
        /\ \A i \in 1..Len(fd3) : fd3[i] # Token("END")
    BY <1>1, <2>1, Busy DEF IInv, DumpSent
  <2>3. Even(Len(fd3'))
    <3>1. Len(fd3) <= Len(fd3)
      BY <1>6
    <3>2. Even(Len(fd3) + 2)
      BY <1>6, <2>2, <3>1, EvenNumbers
    <3>3. QED
      BY <1>6, <3>2
  <2>4. Newline # Token("END")
    <3>1. Newline.is # Token("END").is
      BY DEF Newline, Token
    <3>2. QED
      BY <3>1
  <2>5. /\ Sent' \in {<<Line("begin"), Line("env"), Line("end")>>, <<Line("env"), Line("end")>>,
                      <<Line("end")>>, <<>>}
        /\ Sent' = <<>> <=> token = Token("END")
    <3>1. <<Line("env"), Line("end")>> # <<>> /\ <<Line("end")>> # <<>>
      OBVIOUS
    <3>2. \/ Head(stdin).op = "begin" /\ Sent' = <<Line("env"), Line("end")>>
          \/ Head(stdin).op = "env" /\ Sent' = <<Line("end")>>
          \/ Head(stdin).op = "end" /\ Sent' = <<>>
      BY <1>1, <1>7, <2>1, WhichLine
    <3>3. Head(stdin).op # "probe" /\ (Sent' = <<>> <=> Head(stdin).op = "end")
      BY <3>1, <3>2
    <3>4. token = Token("END") <=> Head(stdin).op = "end"
      BY <3>3
    <3>5. QED
      BY <3>2, <3>3, <3>4
  <2>6. Sent' = <<>> => Len(fd3') > 1 /\ fd3'[Len(fd3') - 1] = Token("END")
    <3>1. Len(fd3') - 1 = Len(fd3) + 1 /\ Len(fd3') > 1
      BY <1>6
    <3>2. QED
      BY <1>6, <2>5, <3>1
  <2>7. ASSUME NEW i \in 1..Len(fd3'), fd3'[i] = Token("END")
        PROVE  Sent' = <<>> /\ i = Len(fd3') - 1
    <3>1. i \in 1..Len(fd3) \/ i = Len(fd3) + 1 \/ i = Len(fd3) + 2
      BY <1>6
    <3>2. i = Len(fd3) + 1
      BY <1>6, <2>2, <2>4, <2>7, <3>1
    <3>3. Len(fd3') - 1 = Len(fd3) + 1
      BY <1>6
    <3>4. QED
      BY <1>6, <2>5, <2>7, <3>2, <3>3
  <2>8. QED
    BY <2>2, <2>3, <2>5, <2>6, <2>7 DEF DumpSent
<1>11. QED
  BY <1>7, <1>8, <1>9, <1>10 DEF IInv

(* The shell takes in a line.                                              *)
LEMMA ReadLineStep ==
  ASSUME IInv, ReadLine, UNCHANGED cfg
  PROVE  IInv'
<1> DEFINE line == Head(stdin)
<1>1. /\ sh.state = "runs" /\ stdin # <<>>
      /\ UNCHANGED <<at, call, handle, asked, answers>>
  BY DEF ReadLine, ShellUnchanged
<1>2. Alive
  BY <1>1 DEF Alive
<1>3. line.op \in {"cmd", "probe", "begin", "env", "end"}
  BY <1>1, <1>2, Busy DEF InputLine
<1>4. sh.last \in Nat /\ sh.env \in Value
  BY DEF IInv, TypeOK
<1>5. /\ Token("BEGIN") \in OutputToken /\ Token("END") \in OutputToken
      /\ StatusToken(sh.last) \in OutputToken /\ EnvToken(sh.env) \in OutputToken
  BY <1>4, EmptySeq DEF Token, StatusToken, EnvToken, OutputToken, Value
<1>6. Token("BEGIN") # Token("END") /\ EnvToken(sh.env) # Token("END")
  <2>1. Token("BEGIN").is = "BEGIN" /\ Token("END").is = "END" /\ EnvToken(sh.env).is = "env"
    BY DEF Token, EnvToken
  <2>2. QED
    BY <2>1
<1>7. CASE line.op = "cmd"
  <2>1. RunCommand(line)
    BY <1>7 DEF ReadLine
  <2>2. QED
    BY <1>1, <1>7, <2>1, RunCommandStep
<1>8. CASE line.op = "probe"
  <2>1. Report(<<StatusToken(sh.last), Newline>>)
    BY <1>8 DEF ReadLine
  <2>2. QED
    BY <1>1, <1>5, <1>8, <2>1, ReportStep
<1>9. CASE line.op = "begin"
  <2>1. Report(<<Token("BEGIN"), Newline>>)
    BY <1>9 DEF ReadLine
  <2>2. QED
    BY <1>1, <1>5, <1>6, <1>9, <2>1, ReportStep
<1>10. CASE line.op = "env"
  <2>1. Report(<<EnvToken(sh.env), Newline>>)
    BY <1>10 DEF ReadLine
  <2>2. QED
    BY <1>1, <1>5, <1>6, <1>10, <2>1, ReportStep
<1>11. CASE line.op = "end"
  <2>1. Report(<<Token("END"), Newline>>)
    BY <1>11 DEF ReadLine
  <2>2. QED
    BY <1>1, <1>5, <1>11, <2>1, ReportStep
<1>12. QED
  BY <1>3, <1>7, <1>8, <1>9, <1>10, <1>11

(* The end of the input: only closing the session closes it.               *)
LEMMA EndOfInputStep ==
  ASSUME IInv, EndOfInput, UNCHANGED cfg
  PROVE  IInv'
<1>1. /\ Alive /\ ~handle.inFd
      /\ sh' = [sh EXCEPT !.state = "zombie", !.status = sh.last]
      /\ UNCHANGED <<at, call, handle, stdin, fd3, asked, ran, answers>>
  BY DEF EndOfInput, EofOnStdin, Alive, Exits, ShellUnchanged, pipeVars
<1>2. call.op = "close"
  BY <1>1 DEF IInv, Handles
<1>3. sh.last \in Nat
  BY DEF IInv, TypeOK
<1>4. QED
  BY <1>1, <1>2, <1>3, EndStep

(* The shell is executed, or it is not.                                    *)
LEMMA ExecStep ==
  ASSUME IInv, Exec, UNCHANGED cfg
  PROVE  IInv'
<1>1. /\ sh.state = "start" /\ Alive
      /\ UNCHANGED <<at, call, handle, stdin, fd3, asked, ran, answers>>
  BY DEF Exec, Alive, ShellUnchanged, pipeVars
<1>2. CASE sh' = [sh EXCEPT !.state = "runs"]
  <2>1. /\ sh'.state = "runs" /\ sh'.last = sh.last /\ Alive'
        /\ sh' \in [state: {"none", "start", "runs", "swallows", "zombie"}, last: Nat, status: Nat,
                    env: Value, ate: BOOLEAN]
    BY <1>2 DEF IInv, TypeOK, Alive
  <2>2. Sent' = Sent /\ (HasRun' <=> HasRun)
    BY <1>1 DEF Sent, HasRun
  <2>3. TypeOK'
    BY <1>1, <2>1 DEF IInv, TypeOK, CallType
  <2>4. Handles' /\ Stages' /\ Counted'
    BY <1>1, <2>1 DEF IInv, Handles, Stages, Counted, Unreaped, Commanding, Dumping
  <2>5. CommandSent' /\ DumpSent'
    BY <1>1, <2>1, <2>2 DEF IInv, CommandSent, DumpSent, ToRun, ToReport, Reported, Swallowed,
       Commanding, Dumping
  <2>6. Resting' /\ Dying' /\ Swallowing' /\ Answering'
    BY <1>1, <2>1, <2>2 DEF IInv, Resting, Dying, Swallowing, Answering, Commanding, Unreaped
  <2>7. QED
    BY <2>3, <2>4, <2>5, <2>6 DEF IInv
<1>3. CASE Exits(EXEC_FAILED)
  BY <1>1, <1>3, EndStep DEF Exits, EXEC_FAILED
<1>4. QED
  BY <1>2, <1>3 DEF Exec

(* A step of the shell or of what it leaves behind.                        *)
LEMMA ShellStep ==
  ASSUME IInv, OfShell
  PROVE  IInv'
<1>1. UNCHANGED cfg
  BY DEF OfShell, bridgeVars
<1>2. CASE ShellProcess
  BY <1>1, <1>2, ExecStep, ReadLineStep, SwallowStep, EndOfInputStep DEF ShellProcess
<1>3. CASE Killed
  BY <1>1, <1>3, EndStep DEF Killed, Exits, KILLED, ShellUnchanged, pipeVars
<1>4. CASE DaemonEnds
  <2>1. cfg \in [env: Value, rooted: BOOLEAN]
    BY DEF IInv, TypeOK
  <2>2. UNCHANGED <<at, call, handle, sh, stdin, fd3, asked, ran, answers>>
    BY <1>4 DEF DaemonEnds, ShellUnchanged
  <2>3. QED
    BY <1>1, <2>1, <2>2, BridgeStep
<1>5. QED
  BY <1>2, <1>3, <1>4 DEF OfShell

(* A step of the spawner.                                                  *)
LEMMA SpawnerStep ==
  ASSUME IInv, WholeLines, OfSpawner
  PROVE  IInv'
<1>1. UNCHANGED cfg
  BY DEF OfSpawner, bridgeVars
<1>2. QED
  BY <1>1, WriteStep, ReadStatusStep, ReadDumpStep, ReapStep DEF OfSpawner

(* What an edit makes of a value.                                          *)
LEMMA EditedValue ==
  ASSUME NEW mode \in {"set", "pre", "app"}, NEW fragment \in Value, NEW env \in Value
  PROVE  Edited(mode, fragment, env) \in Value
<1>1. fragment \o env \in Value /\ env \o fragment \in Value
  BY ConcatProperties DEF Value
<1>2. QED
  BY <1>1 DEF Edited

(* The configuration starts and stops the shell, and runs commands in it.  *)
LEMMA SessionCallStep ==
  ASSUME IInv,
         StartShell \/ StopShell \/ CommandInShell \/ EditEnvInShell \/ Snapshot \/ AppCommand
  PROVE  IInv'
<1>1. UNCHANGED cfg /\ at = "config"
  BY DEF StartShell, StopShell, CommandInShell, EditEnvInShell, Snapshot, AppCommand, Calls
<1>2. cfg \in [env: Value, rooted: BOOLEAN] /\ <<>> \in Value
  BY EmptySeq DEF IInv, TypeOK, Value
<1>3. ASSUME ShellAsIs PROVE IInv'
  BY <1>1, <1>2, <1>3, BridgeStep DEF ShellAsIs, shellVars
<1>4. ASSUME NEW kind \in Kinds, InShell(kind) PROVE IInv'
  <2>1. CASE NotOpen
    BY <1>3, <2>1 DEF NotOpen
  <2>2. CASE handle.open /\ ShellRun("command", kind, <<>>)
    <3>1. kind \in LineKind
      BY DEF LineKind
    <3>2. QED
      BY <1>1, <1>2, <2>2, <3>1, RunStep
  <2>3. QED
    BY <1>4, <2>1, <2>2 DEF InShell
<1>5. CASE StartShell
  BY <1>1, <1>3, <1>5, StartStep DEF StartShell
<1>6. CASE StopShell
  BY <1>1, <1>6, CloseStep DEF StopShell
<1>7. CASE CommandInShell
  BY <1>4, <1>7 DEF CommandInShell
<1>8. CASE EditEnvInShell
  <2>1. CASE NotOpen
    BY <1>3, <2>1 DEF NotOpen
  <2>2. ASSUME handle.open, NEW mode \in {"set", "pre", "app"}, NEW f \in Fragments,
               ShellRun("edit", mode, <<f>>)
        PROVE  IInv'
    <3>1. mode \in LineKind
      BY DEF LineKind
    <3>2. <<f>> \in Value
      BY DEF Value
    <3>3. QED
      BY <1>1, <2>2, <3>1, <3>2, RunStep
  <2>3. QED
    BY <1>8, <2>1, <2>2 DEF EditEnvInShell
<1>9. CASE Snapshot
  BY <1>1, <1>3, <1>9, DumpStep DEF Snapshot
<1>10. CASE AppCommand
  <2>1. CASE handle.open
    BY <1>4, <1>10, <2>1 DEF AppCommand
  <2>2. CASE ~handle.open
    <3>1. Fork("run")
      BY <1>10, <2>2 DEF AppCommand
    <3>2. CASE at' = "child" /\ UNCHANGED <<call, handle, sh, pipeVars, history>>
      BY <1>1, <1>2, <3>2, BridgeStep DEF pipeVars, history
    <3>3. QED
      BY <1>3, <3>1, <3>2 DEF Fork
  <2>3. QED
    BY <2>1, <2>2
<1>11. QED
  BY <1>5, <1>6, <1>7, <1>8, <1>9, <1>10

(* What the configuration does besides.                                    *)
LEMMA OtherCallStep ==
  ASSUME IInv,
         Standalone \/ RootDir \/ EditEnv \/ ExecAppCommands
           \/ ChildLeavesDaemon \/ ChildEnds \/ ChildDaemonEnds
  PROVE  IInv'
<1>1. UNCHANGED <<call, handle, sh, stdin, fd3, asked, ran, answers>>
  BY DEF Standalone, Fork, RootDir, EditEnv, ExecAppCommands, ChildLeavesDaemon, ChildEnds,
         ChildDaemonEnds, ShellAsIs, shellVars, pipeVars, history
<1>2. at' = at \/ (at \in {"config", "child"} /\ at' \in {"config", "child"})
  BY DEF Standalone, Fork, RootDir, EditEnv, ExecAppCommands, ChildLeavesDaemon, ChildEnds,
         ChildDaemonEnds, ShellAsIs, shellVars, Calls
<1>3. cfg' \in [env: Value, rooted: BOOLEAN]
  <2>1. cfg \in [env: Value, rooted: BOOLEAN]
    BY DEF IInv, TypeOK
  <2>2. CASE RootDir
    BY <2>1, <2>2 DEF RootDir
  <2>3. CASE EditEnv
    <3>1. PICK mode \in {"set", "pre", "app"}, f \in Fragments :
            cfg' = [cfg EXCEPT !.env = Edited(mode, <<f>>, cfg.env)]
      BY <2>3 DEF EditEnv
    <3>2. <<f>> \in Value
      BY DEF Value
    <3>3. Edited(mode, <<f>>, cfg.env) \in Value
      BY <2>1, <3>2, EditedValue
    <3>4. QED
      BY <2>1, <3>1, <3>3
  <2>4. CASE Standalone \/ ExecAppCommands \/ ChildLeavesDaemon \/ ChildEnds \/ ChildDaemonEnds
    BY <2>1, <2>4 DEF Standalone, ExecAppCommands, ChildLeavesDaemon, ChildEnds, ChildDaemonEnds
  <2>5. QED
    BY <2>2, <2>3, <2>4
<1>4. QED
  BY <1>1, <1>2, <1>3, BridgeStep

(* Loading, running and ending.                                            *)
LEMMA MainStep ==
  ASSUME IInv, LoadSource \/ MainReturns
  PROVE  IInv'
<1>1. at = "config" /\ UNCHANGED cfg
  BY DEF LoadSource, MainReturns
<1>2. cfg \in [env: Value, rooted: BOOLEAN]
  BY DEF IInv, TypeOK
<1>3. CASE ShellAsIs
  BY <1>1, <1>2, <1>3, BridgeStep DEF ShellAsIs, shellVars
<1>4. ASSUME NEW code, Stop(code) PROVE IInv'
  <2>1. CASE handle.open
    BY <1>1, <1>4, <2>1, CloseStep DEF Stop
  <2>2. CASE ~handle.open
    BY <1>1, <1>2, <1>4, <2>2, BridgeStep DEF Stop, pipeVars, history
  <2>3. QED
    BY <2>1, <2>2
<1>5. QED
  BY <1>3, <1>4 DEF LoadSource, MainReturns

LEMMA InitInv == Init => IInv
<1> SUFFICES ASSUME Init PROVE IInv
  OBVIOUS
<1>1. /\ at = "config" /\ call.op = "none" /\ call.left = <<>>
      /\ ~handle.open /\ ~handle.reaped /\ sh.state = "none"
      /\ stdin = <<>> /\ fd3 = <<>> /\ asked = 0 /\ ran = <<>> /\ answers = <<>>
  BY DEF Init, Idle, NoHandle, NoShell
<1>2. ~Alive /\ ~Unreaped /\ ~Commanding /\ ~Dumping
  BY <1>1 DEF Alive, Unreaped, Commanding, Dumping
<1>3. call \in CallType /\ cfg \in [env: Value, rooted: BOOLEAN]
  BY EmptySeq DEF Init, Idle, CallType, Value
<1>4. sh \in [state: {"none", "start", "runs", "swallows", "zombie"}, last: Nat, status: Nat,
              env: Value, ate: BOOLEAN]
  BY EmptySeq DEF Init, NoShell, Value
<1>5. TypeOK
  BY <1>1, <1>3, <1>4, EmptySeq DEF Init, NoHandle, TypeOK
<1>6. Handles /\ Stages
  BY <1>1, <1>2 DEF Handles, Stages
<1>7. Counted
  <2>1. Len(answers) = 0 /\ DOMAIN ran = {}
    BY <1>1, EmptySeq
  <2>2. QED
    BY <1>1, <1>2, <2>1 DEF Counted
<1>8. CommandSent /\ DumpSent /\ Resting /\ Dying /\ Swallowing /\ Answering
  BY <1>1, <1>2 DEF CommandSent, DumpSent, Resting, Dying, Swallowing, Answering
<1>9. QED
  BY <1>5, <1>6, <1>7, <1>8 DEF IInv

LEMMA NextInv == WholeLines /\ IInv /\ [Next]_vars => IInv'
<1> SUFFICES ASSUME WholeLines, IInv, [Next]_vars PROVE IInv'
  OBVIOUS
<1>1. CASE UNCHANGED vars
  <2>1. cfg \in [env: Value, rooted: BOOLEAN]
    BY DEF IInv, TypeOK
  <2>2. QED
    BY <1>1, <2>1, BridgeStep DEF vars, shellVars, bridgeVars
<1>2. CASE Next
  BY <1>2, SessionCallStep, OtherCallStep, MainStep, ReturnStep, FreeStep, SpawnerStep, ShellStep
  DEF Next
<1>3. QED
  BY <1>1, <1>2

---------------------------------------------------------------------------
(* Every step is a step of the session, or none of its business            *)

SessionStep == [Session!Next]_(Session!vars)

(* A command waits for its answer exactly while venv is in its call.       *)
LEMMA WaitingForCommand ==
  ASSUME IInv
  PROVE  Session!Waiting <=> Commanding
<1>1. asked \in Nat /\ Len(answers) \in Nat
  BY LenProperties DEF IInv, TypeOK
<1>2. QED
  BY <1>1 DEF IInv, Counted, Session!Waiting

(* The shell ends with the session open.                                   *)
LEMMA ShellEnds ==
  ASSUME IInv, Alive, ~Alive', UNCHANGED <<handle, asked, ran, answers>>
  PROVE  SessionStep
<1>1. SessionUp = "open" /\ SessionUp' = "ended"
  BY DEF SessionUp, IInv, Handles, Unreaped
<1>2. QED
  BY <1>1 DEF SessionStep, Session!Next, Session!End

(* Whether there is a shell, and whether it lives, is all of `up`.         *)
LEMMA NoOneSees ==
  ASSUME handle'.open = handle.open, Alive' <=> Alive, UNCHANGED <<asked, ran, answers>>
  PROVE  SessionStep
<1>1. SessionUp' = SessionUp
  BY DEF SessionUp
<1>2. QED
  BY <1>1 DEF SessionStep, Session!vars

(* A command is given.                                                     *)
LEMMA CommandIsAsked ==
  ASSUME IInv, at = "config", handle.open, NEW op, NEW kind, NEW fragment,
         ShellRun(op, kind, fragment)
  PROVE  SessionStep
<1>1. /\ asked' = asked + 1
      /\ UNCHANGED <<handle, sh, ran, answers>>
  BY DEF ShellRun
<1>2. SessionUp' = SessionUp /\ SessionUp # "closed"
  BY <1>1 DEF SessionUp, Alive
<1>3. ~Session!Waiting
  BY WaitingForCommand DEF IInv, Stages, Commanding
<1>4. QED
  BY <1>1, <1>2, <1>3 DEF SessionStep, Session!Next, Session!Ask

(* The shell runs the command that waits, and it has not been run before.  *)
LEMMA CommandIsRun ==
  ASSUME IInv, ReadLine
  PROVE  SessionStep
<1> DEFINE line == Head(stdin)
<1>1. /\ sh.state = "runs" /\ stdin # <<>> /\ Alive
      /\ UNCHANGED <<handle, asked, answers>>
  BY DEF ReadLine, ShellUnchanged, Alive
<1>2. line.op \in {"cmd", "probe", "begin", "env", "end"}
  BY <1>1, Busy DEF InputLine
<1>3. CASE line.op = "cmd"
  <2>1. Commanding /\ ToRun /\ line.n = asked /\ Unreaped
    BY <1>1, <1>3, WhichLine, Busy
  <2>2. RunCommand(line)
    BY <1>3 DEF ReadLine
  <2>3. ran' = Append(ran, asked)
    BY <2>1, <2>2 DEF RunCommand
  <2>4. Session!Waiting /\ \A i \in DOMAIN ran : ran[i] # asked
    BY <2>1, WaitingForCommand DEF ToRun, HasRun
  <2>5. SessionUp = "open" /\ SessionUp' \in {"open", "ended"}
    BY <1>1, <2>1 DEF SessionUp, Unreaped
  <2>6. QED
    BY <1>1, <2>3, <2>4, <2>5 DEF SessionStep, Session!Next, Session!Run
<1>4. CASE line.op # "cmd"
  <2>1. PICK tokens : Report(tokens)
    BY <1>2, <1>4 DEF ReadLine
  <2>2. sh'.state = sh.state /\ ran' = ran
    BY <2>1 DEF Report, IInv, TypeOK
  <2>3. QED
    BY <1>1, <2>2, NoOneSees DEF Alive
<1>5. QED
  BY <1>3, <1>4

(* What a command is answered with.                                        *)
LEMMA CommandIsAnswered ==
  ASSUME IInv, CommandReturns
  PROVE  SessionStep
<1>1. /\ at = "return" /\ Commanding /\ handle.open
      /\ UNCHANGED <<handle, sh, asked, ran>>
      /\ answers' = Append(answers, Outcome)
  BY DEF CommandReturns, ReturnOf, Answered, Commanding, IInv, Stages
<1>2. Session!Waiting /\ asked \in Nat
  BY <1>1, WaitingForCommand DEF IInv, TypeOK
<1>3. SessionUp' = SessionUp
  BY <1>1 DEF SessionUp, Alive
<1>4. Own(asked) \notin {EXEC_FAILED, KILLED, FAILURE}
  BY <1>2 DEF Own, EXEC_FAILED, KILLED, FAILURE
<1>5. \/ Outcome = Own(asked) /\ HasRun
      \/ Outcome \in {EXEC_FAILED, KILLED, FAILURE} /\ SessionUp = "ended"
  <2>1. CASE handle.reaped
    <3>1. SessionUp = "ended"
      BY <1>1, <2>1 DEF SessionUp, IInv, Handles, Unreaped
    <3>2. QED
      BY <1>1, <2>1, <3>1 DEF IInv, Answering, Outcome
  <2>2. CASE ~handle.reaped
    BY <1>1, <2>2 DEF IInv, Answering, Outcome
  <2>3. QED
    BY <2>1, <2>2
<1>6. Session!Answer
  BY <1>1, <1>2, <1>3, <1>4, <1>5 DEF Session!Answer, HasRun
<1>7. QED
  BY <1>6 DEF SessionStep, Session!Next

(* The steps of the shell.                                                 *)
LEMMA ShellSimulates ==
  ASSUME IInv, OfShell
  PROVE  SessionStep
<1>1. CASE Exec
  <2>1. Alive /\ UNCHANGED <<handle, asked, ran, answers>>
    BY <1>1 DEF Exec, Alive, ShellUnchanged
  <2>2. QED
    BY <2>1, ShellEnds, NoOneSees
<1>2. CASE ReadLine
  BY <1>2, CommandIsRun
<1>3. CASE Swallow
  <2>1. /\ Alive /\ UNCHANGED <<handle, asked, ran, answers>>
        /\ sh' = [sh EXCEPT !.state = "runs", !.ate = TRUE]
    BY <1>3 DEF Swallow, Alive, ShellUnchanged
  <2>2. Alive'
    BY <2>1 DEF IInv, TypeOK, Alive
  <2>3. QED
    BY <2>1, <2>2, NoOneSees
<1>4. CASE EndOfInput \/ Killed
  <2>1. Alive /\ UNCHANGED <<handle, asked, ran, answers>>
    BY <1>4 DEF EndOfInput, Killed, Alive, ShellUnchanged
  <2>2. QED
    BY <2>1, ShellEnds, NoOneSees
<1>5. CASE DaemonEnds
  BY <1>5, NoOneSees DEF DaemonEnds, ShellUnchanged, Alive
<1>6. QED
  BY <1>1, <1>2, <1>3, <1>4, <1>5 DEF OfShell, ShellProcess

(* The steps of venv in a call, and its returns.                           *)
LEMMA CallSimulates ==
  ASSUME IInv, OfSpawner \/ CommandReturns \/ DumpReturns \/ CloseReturns
  PROVE  SessionStep
<1>1. CASE Write \/ ReadStatus \/ ReadDump \/ DumpReturns
  BY <1>1, NoOneSees DEF Write, ReadStatus, ReadDump, DumpReturns, history, Alive
<1>2. CASE Reap
  <2>1. /\ sh.state = "zombie" /\ sh'.state = "none" /\ handle'.open = handle.open
        /\ UNCHANGED <<asked, ran, answers>>
    BY <1>2 DEF Reap, IInv, TypeOK, history
  <2>2. QED
    BY <2>1, NoOneSees DEF Alive
<1>3. CASE CommandReturns
  BY <1>3, CommandIsAnswered
<1>4. CASE CloseReturns
  <2>1. /\ at = "return" /\ call.op = "close" /\ handle' = NoHandle
        /\ UNCHANGED <<asked, ran, answers>>
    BY <1>4 DEF CloseReturns, ReturnOf, Closed, history
  <2>2. ~Session!Waiting /\ handle.open
    BY <2>1, WaitingForCommand DEF Commanding, IInv, Stages
  <2>3. SessionUp # "closed" /\ SessionUp' = "closed"
    BY <2>1, <2>2 DEF SessionUp, NoHandle
  <2>4. QED
    BY <2>1, <2>2, <2>3 DEF SessionStep, Session!Next, Session!Close
<1>5. QED
  BY <1>1, <1>2, <1>3, <1>4 DEF OfSpawner

(* The steps of the configuration.                                         *)
LEMMA ConfigurationSimulates ==
  ASSUME IInv,
         \/ StartShell \/ StopShell \/ CommandInShell \/ EditEnvInShell \/ Snapshot \/ AppCommand
         \/ Standalone \/ RootDir \/ EditEnv \/ ExecAppCommands
         \/ ChildLeavesDaemon \/ ChildEnds \/ ChildDaemonEnds \/ LoadSource \/ MainReturns
  PROVE  SessionStep
<1>1. ASSUME UNCHANGED <<handle, sh, asked, ran, answers>> PROVE SessionStep
  BY <1>1, NoOneSees DEF Alive
<1>2. ASSUME ShellAsIs PROVE SessionStep
  BY <1>1, <1>2 DEF ShellAsIs, shellVars
<1>3. ASSUME ShellClose PROVE SessionStep
  <2>1. handle'.open = handle.open /\ UNCHANGED <<sh, asked, ran, answers>>
    BY <1>3 DEF ShellClose, history, IInv, TypeOK
  <2>2. QED
    BY <2>1, NoOneSees DEF Alive
<1>4. ASSUME NEW kind, InShell(kind), at = "config" PROVE SessionStep
  BY <1>2, <1>4, CommandIsAsked DEF InShell, NotOpen
<1>5. ASSUME NEW op, Fork(op) PROVE SessionStep
  BY <1>1, <1>2, <1>5 DEF Fork, history
<1>6. CASE StartShell
  <2>1. CASE ShellAsIs
    BY <1>2, <2>1
  <2>2. CASE ShellOpen(cfg.env)
    <3>1. at = "config" /\ ~handle.open
      BY <1>6 DEF StartShell, Calls
    <3>2. /\ handle'.open /\ sh'.state = "start" /\ UNCHANGED <<asked, ran, answers>>
      BY <2>2 DEF ShellOpen, NoShell, history
    <3>3. SessionUp = "closed" /\ SessionUp' = "open"
      BY <3>1, <3>2 DEF SessionUp, Alive
    <3>4. ~Session!Waiting
      BY <3>1, WaitingForCommand DEF IInv, Stages, Commanding
    <3>5. QED
      BY <3>2, <3>3, <3>4 DEF SessionStep, Session!Next, Session!Open
  <2>3. QED
    BY <1>6, <2>1, <2>2 DEF StartShell
<1>7. CASE StopShell \/ LoadSource \/ MainReturns
  <2>1. ASSUME NEW code, Stop(code) PROVE SessionStep
    BY <1>1, <1>3, <2>1 DEF Stop, history
  <2>2. QED
    BY <1>2, <1>3, <1>7, <2>1 DEF StopShell, LoadSource, MainReturns
<1>8. CASE CommandInShell \/ AppCommand
  BY <1>4, <1>5, <1>8 DEF CommandInShell, AppCommand, Calls
<1>9. CASE EditEnvInShell
  BY <1>2, <1>9, CommandIsAsked DEF EditEnvInShell, NotOpen, Calls
<1>10. CASE Snapshot
  BY <1>1, <1>2, <1>10 DEF Snapshot, ShellDumpEnv, history
<1>11. CASE Standalone
  BY <1>5, <1>11 DEF Standalone
<1>12. CASE RootDir \/ EditEnv \/ ExecAppCommands
  BY <1>2, <1>12 DEF RootDir, EditEnv, ExecAppCommands
<1>13. CASE ChildLeavesDaemon \/ ChildEnds \/ ChildDaemonEnds
  BY <1>1, <1>13 DEF ChildLeavesDaemon, ChildEnds, ChildDaemonEnds, history
<1>14. QED
  BY <1>6, <1>7, <1>8, <1>9, <1>10, <1>11, <1>12, <1>13

LEMMA Simulation == IInv /\ [Next]_vars => SessionStep
<1> SUFFICES ASSUME IInv, [Next]_vars PROVE SessionStep
  OBVIOUS
<1>1. CASE UNCHANGED vars
  BY <1>1, NoOneSees DEF vars, shellVars, Alive
<1>2. CASE Next
  BY <1>2, ShellSimulates, CallSimulates, ConfigurationSimulates DEF Next
<1>3. QED
  BY <1>1, <1>2

LEMMA InitSimulates == Init => Session!Init
  BY DEF Init, Session!Init, SessionUp, NoHandle

(* What venv and its shell know of each other stays consistent: IInv.      *)
THEOREM LauncherInv ==
  ASSUME WholeLines
  PROVE  Spec => []IInv
<1>1. IInv /\ [Next]_vars => IInv'
  BY NextInv
<1>2. QED
  BY <1>1, InitInv, PTL DEF Spec

(* venv_shell_run(): commands sent to the persistent shell run once, in    *)
(* order, and each is answered with its own status or the end of the shell.*)
THEOREM SessionImplemented ==
  ASSUME WholeLines
  PROVE  Spec => SessionKept
<1>1. IInv /\ [Next]_vars => [Session!Next]_(Session!vars)
  BY Simulation DEF SessionStep
<1>2. QED
  BY <1>1, InitSimulates, LauncherInv, PTL DEF Spec, SessionKept, Session!Spec

---------------------------------------------------------------------------
(* A dump that arrives is what the shell's variables are                   *)

(* All that the three lines of a dump make the shell say.                  *)
Text(env) == <<Token("BEGIN"), Newline, EnvToken(env), Newline, Token("END"), Newline>>

(* What of it has reached venv or waits in the pipe.                       *)
Told == call.got \o fd3

(* The part the shell has said is the beginning of the text, and nothing   *)
(* else is on descriptor 3; its variables are still those it has told.     *)
ListingAt ==
  \/ Sent = <<Line("begin"), Line("env"), Line("end")>> /\ Told = <<>>
  \/ Sent = <<Line("env"), Line("end")>> /\ Told = <<Token("BEGIN"), Newline>>
  \/ Sent = <<Line("end")>> /\ Told = <<Token("BEGIN"), Newline, EnvToken(sh.env), Newline>>
  \/ Sent = <<>> /\ Told = Text(sh.env)
Listing == Dumping /\ at \in {"write", "dump"} => ListingAt

(* What the call makes of it: the variables, or nothing and no shell.      *)
Failing == Dumping /\ at = "reap" => ~call.ok
Taken == Dumping /\ at = "return" => IF call.ok THEN call.env = sh.env ELSE handle.reaped

SnapType == snap \in [env: Value, differs: BOOLEAN, taken: Nat, compared: Nat]

DumpInv == IInv /\ Listing /\ Failing /\ Taken

(* The tokens of a text.                                                   *)
LEMMA Texts ==
  ASSUME NEW env
  PROVE  /\ Len(Text(env)) = 6
         /\ Text(env)[1] = Token("BEGIN") /\ Text(env)[3] = EnvToken(env) /\ Text(env)[5] = Token("END")
         /\ \A i \in 1..6 : Text(env)[i].is = "env" => i = 3
         /\ \A i \in 1..6 : Text(env)[i] = Token("END") => i = 5
         /\ EnvToken(env).env = env /\ EnvToken(env).is = "env"
<1>1. /\ Token("BEGIN").is = "BEGIN" /\ Token("END").is = "END" /\ Newline.is = "nl"
      /\ EnvToken(env).is = "env" /\ EnvToken(env).env = env
  BY DEF Token, EnvToken, Newline
<1>2. PICK t : t = Text(env)
  OBVIOUS
<1>3. /\ Len(t) = 6 /\ t[1] = Token("BEGIN") /\ t[2] = Newline /\ t[3] = EnvToken(env)
      /\ t[4] = Newline /\ t[5] = Token("END") /\ t[6] = Newline
  BY <1>2 DEF Text
<1>4. ASSUME NEW i \in 1..6 PROVE i \in {1, 2, 3, 4, 5, 6}
  OBVIOUS
<1>5. ASSUME NEW i \in 1..6, t[i].is = "env" PROVE i = 3
  BY <1>1, <1>3, <1>4, <1>5
<1>6. ASSUME NEW i \in 1..6, t[i] = Token("END") PROVE i = 5
  BY <1>1, <1>3, <1>4, <1>6
<1>. QED
  BY <1>1, <1>2, <1>3, <1>5, <1>6

(* What begins a sequence agrees with it.                                  *)
LEMMA Beginning ==
  ASSUME NEW S, NEW s \in Seq(S), NEW t \in Seq(S), NEW w, w = s \o t
  PROVE  Len(s) <= Len(w) /\ \A i \in 1..Len(s) : w[i] = s[i]
  BY ConcatProperties

(* A read parts a sequence and loses nothing.                              *)
LEMMA Parts ==
  ASSUME NEW S, NEW s \in Seq(S), NEW k \in 0..Len(s)
  PROVE  SubSeq(s, 1, k) \o SubSeq(s, k + 1, Len(s)) = s
<1>1. PICK a \in Seq(S) : a = SubSeq(s, 1, k)
  BY Splits
<1>2. PICK b \in Seq(S) : b = SubSeq(s, k + 1, Len(s))
  BY Splits
<1>3. Len(a) = k /\ \A i \in 1..k : a[i] = s[i]
  BY <1>1
<1>4. Len(b) = Len(s) - k /\ \A i \in 1..Len(s) - k : b[i] = s[k + i]
  BY <1>2, Splits
<1>5. PICK n \in Nat : n = Len(s) /\ k \in 0..n
  BY LenProperties
<1>6. PICK w : w = a \o b
  OBVIOUS
<1>7. /\ w \in Seq(S) /\ Len(w) = Len(a) + Len(b)
      /\ \A i \in 1..Len(a) + Len(b) : w[i] = IF i <= Len(a) THEN a[i] ELSE b[i - Len(a)]
  BY <1>6, ConcatProperties
<1>8. Len(a) = k /\ Len(b) = n - k /\ k + (n - k) = n
  BY <1>3, <1>4, <1>5
<1>9. Len(w) = n /\ \A i \in 1..n : w[i] = IF i <= k THEN a[i] ELSE b[i - k]
  BY <1>7, <1>8
<1>10. ASSUME NEW i \in 1..n PROVE w[i] = s[i]
  <2>1. CASE i <= k
    BY <1>3, <1>9, <2>1
  <2>2. CASE i > k
    <3>1. i - k \in 1..n - k /\ k + (i - k) = i
      BY <2>2
    <3>. QED
      BY <1>4, <1>5, <1>9, <2>2, <3>1
  <2>. QED
    BY <2>1, <2>2
<1>. QED
  BY <1>1, <1>2, <1>5, <1>6, <1>7, <1>9, <1>10, SeqEqual

(* venv_shell_dump_env(): what stands between the markers of a text is the *)
(* environment, however the text was read.                                 *)
LEMMA DumpedText ==
  ASSUME NEW env \in Value, NEW got \in Seq(OutputToken), NEW rest \in Seq(OutputToken),
         got \o rest = Text(env), Token("END") \in Range(got)
  PROVE  Dumped(got) = env
<1>1. PICK t : t = Text(env)
  OBVIOUS
<1>a. Len(got) <= Len(t) /\ \A i \in 1..Len(got) : t[i] = got[i]
  BY <1>1, Beginning
<1>b. Len(t) = 6
  BY <1>1, Texts
<1>2. Len(got) \in Nat /\ Len(got) <= 6 /\ \A i \in 1..Len(got) : t[i] = got[i]
  BY <1>a, <1>b, LenProperties
<1>3. PICK i \in 1..Len(got) : got[i] = Token("END")
  BY DEF Range
<1>4. i = 5
  BY <1>1, <1>2, <1>3, Texts
<1>5. /\ Len(got) >= 5 /\ got[1] = Token("BEGIN") /\ got[3].is = "env" /\ got[3].env = env
      /\ got[5] = Token("END")
  BY <1>1, <1>2, <1>4, Texts
<1>7. DOMAIN got = 1..Len(got)
  OBVIOUS
<1>6. ASSUME NEW j \in DOMAIN got, got[j].is = "env" PROVE j = 3
  <2>1. j \in 1..Len(got) /\ j \in 1..6
    BY <1>2, <1>7
  <2>2. Text(env)[j].is = "env"
    BY <1>1, <1>2, <1>6, <2>1
  <2>. QED
    BY <2>1, <2>2, Texts
<1>8. env \in Body(got)
  <2>1. 3 \in DOMAIN got /\ 1 \in 1..3 /\ 5 \in 3..Len(got)
    BY <1>5, <1>7
  <2>. QED
    BY <1>5, <2>1 DEF Body
<1>9. ASSUME NEW e \in Body(got) PROVE e = env
  BY <1>5, <1>6, <1>9 DEF Body
<1>. QED
  BY <1>8, <1>9 DEF Dumped

(* What is told decides whether the closing marker has been read.          *)
LEMMA MarkerAtTheEnd ==
  ASSUME NEW env \in Value, NEW got \in Seq(OutputToken), NEW rest \in Seq(OutputToken),
         \/ got \o rest = <<>>
         \/ got \o rest = <<Token("BEGIN"), Newline>>
         \/ got \o rest = <<Token("BEGIN"), Newline, EnvToken(env), Newline>>,
         Token("END") \in Range(got)
  PROVE  FALSE
<1>1. PICK t : t = got \o rest
  OBVIOUS
<1>2. PICK i \in 1..Len(got) : got[i] = Token("END")
  BY DEF Range
<1>3. i <= Len(t) /\ t[i] = Token("END")
  BY <1>1, <1>2, Beginning
<1>4. i \in Nat \ {0}
  BY LenProperties
<1>5. Token("BEGIN") # Token("END") /\ Newline # Token("END") /\ EnvToken(env) # Token("END")
  BY DEF Token, EnvToken, Newline
<1>6. CASE t = <<>>
  BY <1>3, <1>4, <1>6
<1>7. CASE t = <<Token("BEGIN"), Newline>>
  <2>1. Len(t) = 2 /\ t[1] = Token("BEGIN") /\ t[2] = Newline
    BY <1>7
  <2>. QED
    BY <1>3, <1>4, <1>5, <2>1
<1>8. CASE t = <<Token("BEGIN"), Newline, EnvToken(env), Newline>>
  <2>1. /\ Len(t) = 4 /\ t[1] = Token("BEGIN") /\ t[2] = Newline
        /\ t[3] = EnvToken(env) /\ t[4] = Newline
    BY <1>8
  <2>2. i \in {1, 2, 3, 4}
    BY <1>3, <1>4, <2>1
  <2>. QED
    BY <1>3, <1>5, <2>1, <2>2
<1>. QED
  BY <1>1, <1>6, <1>7, <1>8

---------------------------------------------------------------------------
(* Every step keeps what has been told true                                *)

(* What happens beside a dump.                                             *)
LEMMA DumpWaits ==
  ASSUME DumpInv, UNCHANGED <<at, call, handle, stdin, fd3>>, sh'.env = sh.env
  PROVE  Listing' /\ Failing' /\ Taken'
<1>1. /\ Dumping' = Dumping /\ Sent' = Sent /\ Told' = Told /\ Text(sh.env)' = Text(sh.env)
      /\ EnvToken(sh.env)' = EnvToken(sh.env)
  BY DEF Dumping, Sent, Told, Text, EnvToken, Token, Newline
<1>2. ListingAt' = ListingAt
  <2>1. PICK e : e = sh.env
    OBVIOUS
  <2>. QED
    BY <1>1 DEF ListingAt, Line, Token, Newline, EnvToken, Text
<1>. QED
  BY <1>1, <1>2 DEF DumpInv, Listing, Failing, Taken

(* What happens without a dump.                                            *)
LEMMA NoDump ==
  ASSUME ~Dumping'
  PROVE  Listing' /\ Failing' /\ Taken'
  BY DEF Listing, Failing, Taken

(* A dump is asked for.                                                    *)
LEMMA DumpAsked ==
  ASSUME DumpInv, at = "config", handle.open, NEW op \in {"snapshot", "compare"},
         ShellDumpEnv(op), UNCHANGED cfg
  PROVE  Listing' /\ Failing' /\ Taken'
<1>1. CASE handle.reaped
  <2>1. at' = "return" /\ call'.ok = FALSE /\ handle'.reaped
    BY <1>1 DEF ShellDumpEnv, Begin, Idle
  <2>. QED
    BY <2>1 DEF Listing, Failing, Taken
<1>2. CASE ~handle.reaped
  <2>1. PICK lines : lines = <<Line("begin"), Line("env"), Line("end")>>
    OBVIOUS
  <2>2. lines \in Seq(InputLine) /\ lines # <<>>
    <3>1. Line("begin") \in InputLine /\ Line("env") \in InputLine /\ Line("end") \in InputLine
      BY DEF Line, InputLine, LineKind, Value
    <3>. QED
      BY <2>1, <3>1
  <2>3. /\ Begin(op, lines) /\ UNCHANGED <<handle, sh, stdin, fd3, ran, answers, cfg>>
        /\ asked' \in Nat
    BY <2>1 DEF ShellDumpEnv, pipeVars, history, DumpInv, IInv, TypeOK
  <2>4. at' = "write" /\ call'.got = <<>> /\ fd3' = <<>> /\ Sent' = lines
    BY <1>2, <2>2, <2>3, BeginsAtRest DEF DumpInv
  <2>5. Told' = <<>>
    BY <2>4 DEF Told
  <2>6. ListingAt'
    BY <2>1, <2>4, <2>5 DEF ListingAt
  <2>. QED
    BY <2>4, <2>6 DEF Listing, Failing, Taken
<1>. QED
  BY <1>1, <1>2

(* A line of a dump is written.                                            *)
LEMMA DumpWritten ==
  ASSUME DumpInv, Write
  PROVE  Listing' /\ Failing' /\ Taken'
<1>1. at = "write" /\ call.left # <<>> /\ call \in CallType /\ stdin \in Seq(InputLine)
  BY DEF Write, DumpInv, IInv, Stages, TypeOK
<1>2. call.left \in Seq(InputLine)
  BY <1>1 DEF CallType
<1>3. CASE Alive
  <2>1. /\ stdin' = Append(stdin, Head(call.left))
        /\ call' = [call EXCEPT !.left = Tail(@)]
        /\ UNCHANGED <<handle, sh, fd3>>
        /\ at' = IF Len(call.left) > 1 THEN "write" ELSE IF Dumping THEN "dump" ELSE "status"
    BY <1>3 DEF Write, Dumping
  <2>2. call'.left = Tail(call.left) /\ call'.got = call.got /\ call'.op = call.op
    BY <1>1, <2>1 DEF CallType
  <2>3. Sent' = Sent
    BY <1>1, <1>2, <2>1, <2>2, Moves DEF Sent
  <2>4. Told' = Told /\ Dumping' = Dumping
    BY <2>1, <2>2 DEF Told, Dumping
  <2>5. ListingAt' = ListingAt
    BY <2>1, <2>3, <2>4 DEF ListingAt, Line, Token, Newline, EnvToken, Text
  <2>6. at' # "reap" /\ at' # "return"
    BY <2>1
  <2>. QED
    BY <1>1, <2>4, <2>5, <2>6 DEF DumpInv, Listing, Failing, Taken
<1>4. CASE ~Alive
  <2>1. at' = "reap" /\ call' = [call EXCEPT !.ok = FALSE]
    BY <1>4 DEF Write
  <2>2. ~call'.ok
    BY <1>1, <2>1 DEF CallType
  <2>. QED
    BY <2>1, <2>2 DEF Listing, Failing, Taken
<1>. QED
  BY <1>3, <1>4

(* A piece of a dump is read, the last one or one before.                  *)
LEMMA DumpRead ==
  ASSUME DumpInv, ReadDump
  PROVE  Listing' /\ Failing' /\ Taken'
<1>1. /\ at = "dump" /\ Dumping /\ call \in CallType /\ fd3 \in Seq(OutputToken)
      /\ UNCHANGED <<handle, sh, stdin>>
  BY DEF ReadDump, DumpInv, IInv, Stages, TypeOK
<1>2. call.got \in Seq(OutputToken) /\ sh.env \in Value
  BY <1>1 DEF CallType, DumpInv, IInv, TypeOK
<1>3. ListingAt
  BY <1>1 DEF DumpInv, Listing
<1>4. CASE EofOnFd3 /\ at' = "reap" /\ call' = [call EXCEPT !.ok = FALSE]
  <2>1. ~call'.ok
    BY <1>1, <1>4 DEF CallType
  <2>. QED
    BY <1>4, <2>1 DEF Listing, Failing, Taken
<1>5. CASE fd3 # <<>> /\ ~(at' = "reap")
  <2>1. PICK k \in 0..Len(fd3) : k = Fits(fd3)
    <3>1. Len(fd3) \in Nat /\ Chunk \in Nat
      BY <1>1, LenProperties, ChunkAssumption
    <3>. QED
      BY <3>1 DEF Fits
  <2>2. PICK piece \in Seq(OutputToken) : piece = SubSeq(fd3, 1, k)
    BY <1>1, Splits
  <2>3. PICK rest \in Seq(OutputToken) : rest = SubSeq(fd3, k + 1, Len(fd3))
    BY <1>1, Splits
  <2>4. PICK got \in Seq(OutputToken) : got = call.got \o piece
    BY <1>2, ConcatProperties
  <2>5. got \o rest = Told
    <3>1. piece \o rest = fd3
      BY <1>1, <2>2, <2>3, Parts
    <3>2. PICK g \in Seq(OutputToken) : g = call.got
      BY <1>2
    <3>3. (g \o piece) \o rest = g \o (piece \o rest)
      BY ConcatAssociative
    <3>. QED
      BY <2>4, <3>1, <3>2, <3>3 DEF Told
  <2>6. /\ fd3' = rest
        /\ IF Token("END") \in Range(got)
           THEN call' = [call EXCEPT !.got = <<>>, !.env = Dumped(got)] /\ at' = "return"
           ELSE call' = [call EXCEPT !.got = got] /\ UNCHANGED at
    BY <1>5, <2>1, <2>2, <2>3, <2>4 DEF ReadDump
  <2>7. CASE Token("END") \in Range(got)
    <3>1. call'.env = Dumped(got) /\ call'.ok = call.ok /\ at' = "return"
      BY <1>1, <2>6, <2>7 DEF CallType
    <3>2. Told = Text(sh.env)
      BY <1>2, <1>3, <2>5, <2>7, MarkerAtTheEnd DEF ListingAt
    <3>3. Dumped(got) = sh.env
      BY <1>2, <2>5, <2>7, <3>2, DumpedText
    <3>4. call.ok
      BY <1>1 DEF DumpInv, IInv, Stages
    <3>. QED
      BY <1>1, <3>1, <3>3, <3>4 DEF Listing, Failing, Taken
  <2>8. CASE Token("END") \notin Range(got)
    <3>1. call'.got = got /\ call'.left = call.left /\ call'.op = call.op /\ at' = "dump"
      BY <1>1, <2>6, <2>8 DEF CallType
    <3>2. Told' = Told /\ Sent' = Sent
      BY <1>1, <2>5, <2>6, <3>1 DEF Told, Sent
    <3>3. ListingAt'
      BY <1>1, <1>3, <3>2 DEF ListingAt, Line, Token, Newline, EnvToken, Text
    <3>. QED
      BY <3>1, <3>3 DEF Listing, Failing, Taken
  <2>. QED
    BY <2>7, <2>8
<1>. QED
  BY <1>1, <1>4, <1>5 DEF ReadDump

(* A dump whose shell has ended.                                           *)
LEMMA DumpReaped ==
  ASSUME DumpInv, Reap
  PROVE  Listing' /\ Failing' /\ Taken'
<1>1. /\ at = "reap" /\ at' = "return" /\ call \in CallType
      /\ call' = [call EXCEPT !.code = IF call.ok THEN sh.status ELSE @]
      /\ handle' = [handle EXCEPT !.reaped = TRUE]
      /\ handle \in [open: BOOLEAN, reaped: BOOLEAN, inFd: BOOLEAN]
  BY DEF Reap, DumpInv, IInv, TypeOK
<1>2. call'.ok = call.ok /\ call'.op = call.op /\ handle'.reaped
  BY <1>1 DEF CallType
<1>3. Dumping' = Dumping
  BY <1>2 DEF Dumping
<1>. QED
  BY <1>1, <1>2, <1>3 DEF DumpInv, Listing, Failing, Taken

(* The shell takes in a line of a dump, and says what belongs to it.       *)
LEMMA DumpSaid ==
  ASSUME DumpInv, sh.state = "runs", stdin # <<>>, Dumping, ReadLine
  PROVE  Listing' /\ Failing' /\ Taken'
<1>1. IInv /\ Alive /\ UNCHANGED <<at, call, handle>>
  BY DEF DumpInv, Alive, ReadLine, ShellUnchanged
<1>2. /\ at \in {"write", "dump"} /\ ~Commanding /\ Dumping'
      /\ Tail(Sent) = Tail(stdin) \o call.left
  BY <1>1, Busy DEF Dumping
<1>3. ListingAt
  BY <1>2 DEF DumpInv, Listing
<1>4. call.got \in Seq(OutputToken) /\ fd3 \in Seq(OutputToken) /\ sh.env \in Value
  BY <1>1 DEF IInv, TypeOK, CallType
<1>5. ASSUME NEW token \in OutputToken, Report(<<token, Newline>>)
      PROVE  Sent' = Tail(Sent) /\ Told' = Told \o <<token, Newline>> /\ sh'.env = sh.env
  <2>1. /\ fd3' = fd3 \o <<token, Newline>> /\ stdin' = Tail(stdin)
        /\ sh' = [sh EXCEPT !.last = 0]
    BY <1>5 DEF Report
  <2>2. Sent' = Tail(Sent)
    BY <1>1, <1>2, <2>1 DEF Sent
  <2>3. Newline \in OutputToken
    BY DEF Newline, Token, OutputToken, Value
  <2>4. <<token, Newline>> \in Seq(OutputToken)
    BY <2>3
  <2>5. call.got \o (fd3 \o <<token, Newline>>) = (call.got \o fd3) \o <<token, Newline>>
    <3>1. PICK g \in Seq(OutputToken) : g = call.got
      BY <1>4
    <3>2. PICK f \in Seq(OutputToken) : f = fd3
      BY <1>4
    <3>3. PICK u \in Seq(OutputToken) : u = <<token, Newline>>
      BY <2>4
    <3>4. (g \o f) \o u = g \o (f \o u)
      BY ConcatAssociative
    <3>. QED
      BY <3>1, <3>2, <3>3, <3>4
  <2>6. sh'.env = sh.env
    BY <1>1, <2>1 DEF IInv, TypeOK
  <2>. QED
    BY <1>1, <2>1, <2>2, <2>5, <2>6 DEF Told
<1>6. /\ Token("BEGIN") \in OutputToken /\ Token("END") \in OutputToken
      /\ EnvToken(sh.env) \in OutputToken
  <2>1. Token("BEGIN") \in OutputToken /\ Token("END") \in OutputToken
    BY DEF Token, OutputToken, Value
  <2>2. PICK e \in Value : e = sh.env
    BY <1>4
  <2>3. EnvToken(e) = [is |-> "env", code |-> 0, env |-> e]
    BY DEF EnvToken, Token
  <2>4. EnvToken(e) \in OutputToken
    BY <2>3 DEF OutputToken
  <2>. QED
    BY <2>1, <2>2, <2>4
<1>7. Line("begin").op = "begin" /\ Line("env").op = "env" /\ Line("end").op = "end"
  BY DEF Line
<1>8. CASE Sent = <<Line("begin"), Line("env"), Line("end")>>
  <2>1. Head(stdin).op = "begin" /\ Tail(Sent) = <<Line("env"), Line("end")>>
    BY <1>1, <1>7, <1>8, WhichLine
  <2>2. Report(<<Token("BEGIN"), Newline>>)
    BY <2>1 DEF ReadLine
  <2>3. Told = <<>>
    BY <1>3, <1>8 DEF ListingAt
  <2>4. Told' = <<Token("BEGIN"), Newline>>
    BY <1>5, <1>6, <2>2, <2>3
  <2>5. ListingAt'
    BY <1>5, <1>6, <2>1, <2>2, <2>4 DEF ListingAt
  <2>. QED
    BY <1>1, <1>2, <2>5 DEF Listing, Failing, Taken
<1>9. CASE Sent = <<Line("env"), Line("end")>>
  <2>1. Head(stdin).op = "env" /\ Tail(Sent) = <<Line("end")>>
    BY <1>1, <1>7, <1>9, WhichLine
  <2>2. Report(<<EnvToken(sh.env), Newline>>)
    BY <2>1 DEF ReadLine
  <2>3. Told = <<Token("BEGIN"), Newline>>
    BY <1>3, <1>9 DEF ListingAt
  <2>4. Told' = <<Token("BEGIN"), Newline, EnvToken(sh.env), Newline>> /\ sh'.env = sh.env
    BY <1>5, <1>6, <2>2, <2>3
  <2>5. EnvToken(sh.env)' = EnvToken(sh.env)
    BY <2>4 DEF EnvToken, Token
  <2>6. ListingAt'
    BY <1>5, <1>6, <2>1, <2>2, <2>4, <2>5 DEF ListingAt
  <2>. QED
    BY <1>1, <1>2, <2>6 DEF Listing, Failing, Taken
<1>10. CASE Sent = <<Line("end")>>
  <2>1. Head(stdin).op = "end" /\ Tail(Sent) = <<>>
    BY <1>1, <1>7, <1>10, WhichLine
  <2>2. Report(<<Token("END"), Newline>>)
    BY <2>1 DEF ReadLine
  <2>3. Told = <<Token("BEGIN"), Newline, EnvToken(sh.env), Newline>>
    BY <1>3, <1>10 DEF ListingAt
  <2>4. Told' = Text(sh.env) /\ sh'.env = sh.env
    BY <1>5, <1>6, <2>2, <2>3 DEF Text
  <2>5. Text(sh.env)' = Text(sh.env)
    BY <2>4 DEF Text, EnvToken, Token, Newline
  <2>6. ListingAt'
    BY <1>5, <1>6, <2>1, <2>2, <2>4, <2>5 DEF ListingAt
  <2>. QED
    BY <1>1, <1>2, <2>6 DEF Listing, Failing, Taken
<1>. QED
  BY <1>1, <1>8, <1>9, <1>10, WhichLine

(* What the shell and what it leaves behind do to a dump.                  *)
LEMMA DumpInShell ==
  ASSUME DumpInv, OfShell
  PROVE  Listing' /\ Failing' /\ Taken'
<1>1. sh \in [state: {"none", "start", "runs", "swallows", "zombie"}, last: Nat, status: Nat,
              env: Value, ate: BOOLEAN]
  BY DEF DumpInv, IInv, TypeOK
<1>2. CASE Exec
  BY <1>1, <1>2, DumpWaits DEF Exec, Exits, ShellUnchanged, pipeVars
<1>3. CASE ReadLine
  <2>1. CASE Dumping
    BY <1>3, <2>1, DumpSaid DEF ReadLine
  <2>2. CASE ~Dumping
    <3>1. ~Dumping'
      BY <1>3, <2>2 DEF ReadLine, ShellUnchanged, Dumping
    <3>. QED
      BY <3>1, NoDump
  <2>. QED
    BY <2>1, <2>2
<1>4. CASE Swallow
  <2>1. ~Dumping
    BY <1>4 DEF Swallow, DumpInv, IInv, Swallowing, Dumping, Commanding
  <2>2. ~Dumping'
    BY <1>4, <2>1 DEF Swallow, ShellUnchanged, Dumping
  <2>. QED
    BY <2>2, NoDump
<1>5. CASE EndOfInput
  BY <1>1, <1>5, DumpWaits DEF EndOfInput, Exits, ShellUnchanged, pipeVars
<1>6. CASE Killed
  BY <1>1, <1>6, DumpWaits DEF Killed, Exits, ShellUnchanged, pipeVars
<1>7. CASE DaemonEnds
  BY <1>7, DumpWaits DEF DaemonEnds, ShellUnchanged
<1>. QED
  BY <1>2, <1>3, <1>4, <1>5, <1>6, <1>7 DEF OfShell, ShellProcess

(* The configuration starts, uses and closes a shell.                      *)
LEMMA DumpInCalls ==
  ASSUME DumpInv,
         StartShell \/ StopShell \/ CommandInShell \/ EditEnvInShell \/ Snapshot \/ AppCommand
  PROVE  Listing' /\ Failing' /\ Taken'
<1>1. at = "config" /\ call.op = "none" /\ ~Dumping
  BY DEF StartShell, StopShell, CommandInShell, EditEnvInShell, Snapshot, AppCommand, Calls,
         DumpInv, IInv, Stages, Dumping
<1>2. ASSUME UNCHANGED call PROVE Listing' /\ Failing' /\ Taken'
  BY <1>1, <1>2, NoDump DEF Dumping
<1>3. ASSUME NEW op \in {"command", "edit"}, NEW kind, NEW fragment, ShellRun(op, kind, fragment)
      PROVE  Listing' /\ Failing' /\ Taken'
  <2>1. call'.op = op
    BY <1>3 DEF ShellRun, Begin, Idle
  <2>. QED
    BY <2>1, NoDump DEF Dumping
<1>4. ASSUME NEW kind, InShell(kind) PROVE Listing' /\ Failing' /\ Taken'
  <2>1. CASE NotOpen
    BY <1>2, <2>1 DEF NotOpen, ShellAsIs, shellVars
  <2>2. CASE ShellRun("command", kind, <<>>)
    BY <1>3, <2>2
  <2>. QED
    BY <1>4, <2>1, <2>2 DEF InShell
<1>5. CASE StartShell
  BY <1>2, <1>5 DEF StartShell, ShellOpen, ShellAsIs, shellVars
<1>6. CASE StopShell
  <2>1. call'.op = "close"
    BY <1>6 DEF StopShell, ShellClose, Idle
  <2>. QED
    BY <2>1, NoDump DEF Dumping
<1>7. CASE CommandInShell
  BY <1>4, <1>7 DEF CommandInShell
<1>8. CASE EditEnvInShell
  <2>1. CASE NotOpen
    BY <1>2, <2>1 DEF NotOpen, ShellAsIs, shellVars
  <2>2. CASE \E mode \in {"set", "pre", "app"}, f \in Fragments : ShellRun("edit", mode, <<f>>)
    BY <1>3, <2>2
  <2>. QED
    BY <1>8, <2>1, <2>2 DEF EditEnvInShell
<1>9. CASE Snapshot
  <2>1. CASE UNCHANGED call
    BY <1>2, <2>1
  <2>2. CASE handle.open /\ \E op \in {"snapshot", "compare"} : ShellDumpEnv(op)
    BY <1>1, <1>9, <2>2, DumpAsked DEF Snapshot
  <2>. QED
    BY <1>9, <2>1, <2>2 DEF Snapshot, ShellAsIs, shellVars
<1>10. CASE AppCommand
  <2>1. CASE Fork("run")
    BY <1>2, <2>1 DEF Fork, ShellAsIs, shellVars
  <2>. QED
    BY <1>4, <1>10, <2>1 DEF AppCommand
<1>. QED
  BY <1>5, <1>6, <1>7, <1>8, <1>9, <1>10

(* What the configuration does besides, and main().                        *)
LEMMA DumpElsewhere ==
  ASSUME DumpInv,
         Standalone \/ RootDir \/ EditEnv \/ ExecAppCommands \/ ChildLeavesDaemon \/ ChildEnds
           \/ ChildDaemonEnds \/ LoadSource \/ MainReturns
  PROVE  Listing' /\ Failing' /\ Taken'
<1>1. at \in {"config", "child"} => ~Dumping
  BY DEF DumpInv, IInv, Stages, Dumping
<1>2. ASSUME at \in {"config", "child"}, UNCHANGED call PROVE Listing' /\ Failing' /\ Taken'
  BY <1>1, <1>2, NoDump DEF Dumping
<1>3. ASSUME at \in {"config", "child"}, NEW code, Stop(code)
      PROVE  Listing' /\ Failing' /\ Taken'
  <2>1. CASE UNCHANGED call
    BY <1>2, <1>3, <2>1
  <2>2. CASE ShellClose
    <3>1. call'.op = "close"
      BY <2>2 DEF ShellClose, Idle
    <3>. QED
      BY <3>1, NoDump DEF Dumping
  <2>. QED
    BY <1>3, <2>1, <2>2 DEF Stop
<1>4. CASE Standalone
  BY <1>2, <1>4 DEF Standalone, Calls, Fork, ShellAsIs, shellVars
<1>5. CASE RootDir \/ EditEnv \/ ExecAppCommands
  BY <1>2, <1>5 DEF RootDir, EditEnv, ExecAppCommands, Calls, ShellAsIs, shellVars
<1>6. CASE ChildLeavesDaemon \/ ChildEnds
  BY <1>2, <1>6 DEF ChildLeavesDaemon, ChildEnds
<1>7. CASE ChildDaemonEnds
  BY <1>7, DumpWaits DEF ChildDaemonEnds
<1>8. CASE LoadSource
  BY <1>2, <1>3, <1>8 DEF LoadSource, ShellAsIs, shellVars
<1>9. CASE MainReturns
  BY <1>3, <1>9 DEF MainReturns
<1>. QED
  BY <1>4, <1>5, <1>6, <1>7, <1>8, <1>9

(* The steps of the spawner, and what it returns.                          *)
LEMMA DumpInSpawner ==
  ASSUME DumpInv, OfSpawner \/ CommandReturns \/ DumpReturns \/ CloseReturns
  PROVE  Listing' /\ Failing' /\ Taken'
<1>1. CASE Write
  BY <1>1, DumpWritten
<1>2. CASE ReadDump
  BY <1>2, DumpRead
<1>3. CASE Reap
  BY <1>3, DumpReaped
<1>4. CASE ReadStatus
  <2>1. ~Dumping /\ call \in CallType
    BY <1>4 DEF ReadStatus, DumpInv, IInv, Stages, Dumping, Commanding, TypeOK
  <2>2. call'.op = call.op
    BY <1>4, <2>1 DEF ReadStatus, CallType
  <2>. QED
    BY <2>1, <2>2, NoDump DEF Dumping
<1>5. CASE CommandReturns \/ DumpReturns \/ CloseReturns
  <2>1. call'.op = "none"
    BY <1>5 DEF CommandReturns, DumpReturns, CloseReturns, ReturnOf, Idle
  <2>. QED
    BY <2>1, NoDump DEF Dumping
<1>. QED
  BY <1>1, <1>2, <1>3, <1>4, <1>5 DEF OfSpawner

LEMMA InitDump == Init => DumpInv
<1>1. Init => ~Dumping
  BY DEF Init, Idle, Dumping
<1>. QED
  BY <1>1, InitInv DEF DumpInv, Listing, Failing, Taken

LEMMA NextDump == WholeLines /\ DumpInv /\ [Next]_vars => DumpInv'
<1>. SUFFICES ASSUME WholeLines, DumpInv, [Next]_vars PROVE DumpInv'
  OBVIOUS
<1>1. IInv'
  BY NextInv DEF DumpInv
<1>2. Listing' /\ Failing' /\ Taken'
  <2>1. CASE UNCHANGED vars
    BY <2>1, DumpWaits DEF vars, shellVars
  <2>2. CASE OfShell
    BY <2>2, DumpInShell
  <2>. QED
    BY <2>1, <2>2, DumpInCalls, DumpElsewhere, DumpInSpawner DEF Next
<1>. QED
  BY <1>1, <1>2 DEF DumpInv

---------------------------------------------------------------------------
(* What a snapshot records is what the next command would see              *)

(* do_snapshot() and do_snapshot_compare() on a value.                     *)
LEMMA Recorded ==
  ASSUME SnapType, NEW op, NEW env \in Value
  PROVE  /\ Record(op, env) \in [env: Value, differs: BOOLEAN, taken: Nat, compared: Nat]
         /\ Record(op, env).taken # snap.taken => Record(op, env).env = env
         /\ Record(op, env).compared # snap.compared => Record(op, env).differs = (snap.env # env)
<1>1. CASE op = "snapshot"
  <2>1. Record(op, env) = [snap EXCEPT !.taken = @ + 1, !.env = env]
    BY <1>1 DEF Record
  <2>2. Record(op, env) =
          [env |-> env, differs |-> snap.differs, taken |-> snap.taken + 1, compared |-> snap.compared]
    BY <2>1 DEF SnapType
  <2>3. /\ snap.differs \in BOOLEAN /\ snap.taken + 1 \in Nat /\ snap.compared \in Nat
    BY DEF SnapType
  <2>. QED
    BY <2>2, <2>3
<1>2. CASE op # "snapshot" /\ snap.taken = 0
  <2>1. Record(op, env) = snap
    BY <1>2 DEF Record
  <2>. QED
    BY <2>1 DEF SnapType
<1>3. CASE op # "snapshot" /\ snap.taken # 0
  <2>1. Record(op, env) = [snap EXCEPT !.compared = @ + 1, !.differs = snap.env # env]
    BY <1>3 DEF Record
  <2>2. PICK d \in BOOLEAN : d = (snap.env # env)
    OBVIOUS
  <2>3. Record(op, env) =
          [env |-> snap.env, differs |-> d, taken |-> snap.taken, compared |-> snap.compared + 1]
    BY <2>1, <2>2 DEF SnapType
  <2>4. snap.env \in Value /\ snap.taken \in Nat /\ snap.compared + 1 \in Nat
    BY DEF SnapType
  <2>. QED
    BY <2>2, <2>3, <2>4
<1>. QED
  BY <1>1, <1>2, <1>3

(* A step of the property.                                                 *)
LiveStep ==
  /\ snap'.taken # snap.taken => snap'.env = LiveEnv
  /\ snap'.compared # snap.compared => snap'.differs = (snap.env # LiveEnv)

(* A snapshot of a shell: what was dumped, or the table when it has ended. *)
LEMMA DumpedIsLive ==
  ASSUME DumpInv, DumpReturns
  PROVE  Captured([on |-> call.ok, env |-> call.env]) = LiveEnv /\ LiveEnv \in Value
<1>1. /\ at = "return" /\ Dumping /\ handle.open /\ sh.env \in Value /\ cfg.env \in Value
      /\ call.ok \in BOOLEAN
  BY DEF DumpReturns, ReturnOf, Dumping, DumpInv, IInv, Stages, TypeOK, CallType
<1>2. CASE call.ok
  <2>1. LiveEnv = sh.env
    BY <1>1, <1>2 DEF LiveEnv
  <2>2. Captured([on |-> call.ok, env |-> call.env]) = call.env
    BY <1>2 DEF Captured
  <2>. QED
    BY <1>1, <1>2, <2>1, <2>2 DEF DumpInv, Taken
<1>3. CASE ~call.ok
  <2>1. handle.reaped
    BY <1>1, <1>3 DEF DumpInv, Taken
  <2>2. ~Alive
    BY <2>1 DEF DumpInv, IInv, Handles, Unreaped
  <2>3. LiveEnv = cfg.env
    BY <1>3, <2>2 DEF LiveEnv
  <2>4. Captured([on |-> call.ok, env |-> call.env]) = cfg.env
    BY <1>3 DEF Captured
  <2>. QED
    BY <1>1, <2>3, <2>4
<1>. QED
  BY <1>2, <1>3

(* Only two steps record anything.                                         *)
LEMMA RecordsLive ==
  ASSUME DumpInv, SnapType, [Next]_vars
  PROVE  SnapType' /\ LiveStep
<1>1. CASE UNCHANGED snap
  BY <1>1 DEF SnapType, LiveStep
<1>2. ASSUME NEW op, NEW env \in Value, env = LiveEnv, snap' = Record(op, env)
      PROVE  SnapType' /\ LiveStep
  BY <1>2, Recorded DEF SnapType, LiveStep
<1>3. CASE Snapshot
  <2>1. CASE handle.open
    BY <1>1, <1>3, <2>1 DEF Snapshot
  <2>2. CASE ~handle.open
    <3>1. PICK op \in {"snapshot", "compare"} : snap' = Record(op, Captured(Off))
      BY <1>3, <2>2 DEF Snapshot
    <3>2. Captured(Off) = cfg.env /\ LiveEnv = cfg.env /\ cfg.env \in Value
      BY <2>2 DEF Captured, Off, LiveEnv, DumpInv, IInv, TypeOK
    <3>. QED
      BY <1>2, <3>1, <3>2
  <2>. QED
    BY <2>1, <2>2
<1>4. CASE DumpReturns
  BY <1>2, <1>4, DumpedIsLive DEF DumpReturns
<1>5. CASE StartShell \/ StopShell \/ CommandInShell \/ Standalone \/ RootDir \/ EditEnv
             \/ EditEnvInShell \/ ExecAppCommands \/ AppCommand
  BY <1>1, <1>5 DEF StartShell, StopShell, CommandInShell, Standalone, RootDir, EditEnv,
                    EditEnvInShell, ExecAppCommands, AppCommand
<1>6. CASE ChildLeavesDaemon \/ ChildEnds \/ ChildDaemonEnds \/ OfSpawner \/ OfShell
  BY <1>1, <1>6 DEF ChildLeavesDaemon, ChildEnds, ChildDaemonEnds, OfSpawner, OfShell, bridgeVars
<1>7. CASE CommandReturns \/ CloseReturns \/ LoadSource \/ MainReturns
  BY <1>1, <1>7 DEF CommandReturns, CloseReturns, LoadSource, MainReturns
<1>8. CASE UNCHANGED vars
  BY <1>1, <1>8 DEF vars, bridgeVars
<1>. QED
  BY <1>3, <1>4, <1>5, <1>6, <1>7, <1>8 DEF Next

(* venv_uc_snapshot_env() and its comparison look at what the shell's      *)
(* variables are when they are called, and at the table of the             *)
(* configuration only without a shell or when it has ended.                *)
THEOREM SnapshotsAreLive ==
  ASSUME WholeLines
  PROVE  Spec => SnapshotIsLive
<1>1. Init => DumpInv /\ SnapType
  BY InitDump DEF Init, SnapType, Value
<1>2. DumpInv /\ SnapType /\ [Next]_vars => (DumpInv /\ SnapType)' /\ [LiveStep]_vars
  BY NextDump, RecordsLive
<1>. QED
  BY <1>1, <1>2, PTL DEF Spec, SnapshotIsLive, LiveStep
=============================================================================
