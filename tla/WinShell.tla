------------------------------ MODULE WinShell ------------------------------
(***************************************************************************)
(* The persistent shell of venv on Windows (venv/src/process_spawner.c).   *)
(* cmd.exe has no spare descriptor: statuses and environment dumps travel  *)
(* through its standard output, marked, between what the commands print.   *)
(* venv forwards the one to the terminal and filters out the other.        *)
(*                                                                         *)
(* Output is a sequence of tokens.  The shell writes them one at a time,   *)
(* and venv reads what is there, so that a status line arrives in pieces:  *)
(* the marker is "M1" "M2", followed by digits, "cr" and "nl"; "pct" is    *)
(* the text %ERRORLEVEL% in a probe that the shell repeats.                *)
(***************************************************************************)
EXTENDS Naturals, Sequences, SequencesExt

CONSTANTS
  Kinds,      \* what a command may do
  Capacity,   \* tokens that fit into the pipe from the shell
  Values,     \* the values of the variable, and what `set` prints for them
  MaxCalls    \* bound: calls

Digit == {"0", "1", "2", "3", "4", "5", "6", "7", "8", "9"}
Words == {"text", "pct", "M1", "M2", "BEGIN", "END", "cr", "nl"}
Output == Words \cup Digit \cup Values

ASSUME CapacityAssumption == Capacity \in Nat \ {0}
ASSUME CallsAssumption == MaxCalls \in Nat
\* The values are tokens, and commands, of their own.
ASSUME ValuesAssumption ==
  /\ Values # {}
  /\ Values \cap (Words \cup Digit \cup {"added", "", "exit", "reads", "echo", "prints", "open"}) = {}

VARIABLES
  at,         \* what venv is doing
  call,       \* the call it is in: operation, lines to write, dump, outcome
  handle,     \* venv_shell: open, dead, pending output, stdin_write open
  sh,         \* the shell: state, %ERRORLEVEL%, exit code, echo, variable, tokens to write;
              \*   how many of these are not output, what it swallowed (history)
  stdin, out, \* the pipes
  daemon,     \* a process left behind holds the shell's ends of both
  term,       \* what venv has written to the terminal
  calls, wrote, asked, ran, answers  \* bound and history

vars == <<at, call, handle, sh, stdin, out, daemon, term, calls, wrote, asked, ran, answers>>
history == <<calls, wrote, asked, ran, answers>>

-----------------------------------------------------------------------------
\* Two digits, which tell a command from the 89 before it.
Own(n) == 10 + (n % 90)
KILLED == 1
FAILURE == 2

Digits == <<"0", "1", "2", "3", "4", "5", "6", "7", "8", "9">>
Decimal(code) == IF code < 10 THEN <<Digits[code + 1]>>
                 ELSE <<Digits[(code \div 10) + 1], Digits[(code % 10) + 1]>>
DigitValue(d) == CHOOSE v \in 0 .. 9 : Digits[v + 1] = d
ValueOf(digits) == IF Len(digits) = 1 THEN DigitValue(digits[1])
                   ELSE 10 * DigitValue(digits[1]) + DigitValue(digits[2])

Marker == <<"M1", "M2">>
EndOfLine == <<"cr", "nl">>

Idle == [op |-> "none", left |-> <<>>, got |-> <<>>, inBlock |-> FALSE, code |-> 0, ok |-> TRUE]
NoShell == [state |-> "none", last |-> 0, code |-> 0, echo |-> FALSE, ate |-> FALSE,
            noisy |-> FALSE, hidden |-> 0, env |-> CHOOSE v \in Values : TRUE, writing |-> <<>>]
NoHandle == [open |-> FALSE, dead |-> FALSE, in |-> FALSE, pending |-> <<>>]

Alive == sh.state \in {"runs", "swallows"}
Line(op) == [op |-> op, n |-> 0, kind |-> ""]

Init ==
  /\ at = "config" /\ call = Idle /\ handle = NoHandle /\ sh = NoShell
  /\ stdin = <<>> /\ out = <<>> /\ daemon = FALSE /\ term = <<>>
  /\ calls = MaxCalls /\ wrote = <<>> /\ asked = 0 /\ ran = <<>> /\ answers = <<>>

-----------------------------------------------------------------------------
(* What venv makes of the output. *)

MarkerAt(s, i) == i < Len(s) /\ s[i] = "M1" /\ s[i + 1] = "M2"

\* The first token after the digits that follow the marker at i.
NumberEnd(s, i) ==
  LET past == {j \in i + 2 .. Len(s) : s[j] \notin Digit} \cup {Len(s) + 1}
  IN CHOOSE j \in past : \A k \in past : j <= k

LineEnd(s, i) ==
  LET j == NumberEnd(s, i) IN IF j <= Len(s) /\ s[j] = "cr" THEN j + 1 ELSE j

\* A marker, a number and the end of the line, or of what has arrived.
StatusAt(s, i) ==
  /\ MarkerAt(s, i)
  /\ NumberEnd(s, i) > i + 2
  /\ LineEnd(s, i) <= Len(s) => s[LineEnd(s, i)] = "nl"

First(S) == CHOOSE i \in S : \A j \in S : i <= j

FindStatus_Early(s) ==
  LET S == {i \in DOMAIN s : StatusAt(s, i)} IN IF S = {} THEN 0 ELSE First(S)
FindStatus_OnItsOwnLine(s) ==
  LET S == {i \in DOMAIN s : StatusAt(s, i) /\ LineEnd(s, i) <= Len(s)
                              /\ (i = 1 \/ s[i - 1] = "nl")}
  IN IF S = {} THEN 0 ELSE First(S)
\* shell_find_status(): 0, or the place of a status line that is complete.
FindStatus(s) ==
  LET S == {i \in DOMAIN s : StatusAt(s, i)}
  IN IF S = {} THEN 0 ELSE IF LineEnd(s, First(S)) > Len(s) THEN 0 ELSE First(S)

LastNewline_Everything(s) == Len(s)
\* shell_last_newline()
LastNewline(s) == LET N == {i \in DOMAIN s : s[i] = "nl"}
                  IN IF N = {} THEN 0 ELSE CHOOSE i \in N : \A j \in N : j <= i

\* shell_marker_line_end(): the end of the line that has the marker, or 0.
MarkerLineEnd(s, marker) ==
  LET M == {i \in DOMAIN s : s[i] = marker}
      N == {i \in DOMAIN s : s[i] = "nl" /\ \E m \in M : m < i}
  IN IF N = {} THEN 0 ELSE First(N)

Upto(s, n) == SubSeq(s, 1, n)
Past(s, n) == SubSeq(s, n + 1, Len(s))

\* shell_end_line(): a line that the output leaves open is ended.
EndLine(t) == IF t = <<>> THEN t
              ELSE IF Last(t) \in {"nl", "added"} THEN t ELSE Append(t, "added")

-----------------------------------------------------------------------------
(* venv *)

Send(op, lines) ==
  IF handle.dead
  THEN at' = "return" /\ call' = [Idle EXCEPT !.op = op, !.ok = FALSE]
  ELSE at' = "write" /\ call' = [Idle EXCEPT !.op = op, !.left = lines]

\* venv_shell_open(): echo is turned off, and a probe of its own ends the banner.
\* Only cmd.exe is started with /Q.
Open ==
  /\ at = "config" /\ ~handle.open /\ calls > 0
  /\ calls' = calls - 1
  /\ handle' = [NoHandle EXCEPT !.open = TRUE, !.in = TRUE]
  /\ \E echo \in BOOLEAN :
       sh' = [NoShell EXCEPT !.state = "runs", !.echo = echo, !.noisy = sh.noisy,
                             !.writing = <<"text">>]
  /\ at' = "write"
  /\ call' = [Idle EXCEPT !.op = "open", !.left = <<Line("off"), Line("probe")>>]
  /\ stdin' = <<>> /\ out' = <<>> /\ daemon' = FALSE
  /\ UNCHANGED <<term, wrote, asked, ran, answers>>

\* venv_shell_run()
Run(kind) ==
  /\ at = "config" /\ handle.open /\ calls > 0
  /\ calls' = calls - 1
  /\ asked' = asked + 1
  /\ Send("run", <<[op |-> "cmd", n |-> asked + 1, kind |-> kind], Line("probe")>>)
  /\ UNCHANGED <<handle, sh, stdin, out, daemon, term, wrote, ran, answers>>

\* venv_shell_dump_env()
DumpEnv ==
  /\ at = "config" /\ handle.open /\ calls > 0
  /\ calls' = calls - 1
  /\ Send("dump", <<Line("begin"), Line("set"), Line("end")>>)
  /\ UNCHANGED <<handle, sh, stdin, out, daemon, term, wrote, asked, ran, answers>>

\* shell_write(): fails when no one is left to read.
Write ==
  /\ at = "write"
  /\ IF Alive \/ daemon
     THEN /\ stdin' = Append(stdin, Head(call.left))
          /\ call' = [call EXCEPT !.left = Tail(@)]
          /\ at' = IF Len(call.left) > 1 THEN "write"
                   ELSE IF call.op = "dump" THEN "dump" ELSE "status"
          /\ UNCHANGED handle
     ELSE /\ call' = [call EXCEPT !.ok = FALSE]
          /\ handle' = [handle EXCEPT !.dead = TRUE]
          /\ at' = "return"
          /\ UNCHANGED stdin
  /\ UNCHANGED <<sh, out, daemon, term, history>>

EofOnOut == out = <<>> /\ ~Alive /\ ~daemon

\* shell_fill(), after `done` tokens of what was pending were dealt with.
Fill(done) ==
  /\ out # <<>>
  /\ handle' = [handle EXCEPT !.pending = Past(@, done) \o out]
  /\ out' = <<>>

\* The shell closed its output: its exit code becomes the command's.
ShellGone ==
  /\ EofOnOut
  /\ term' = EndLine(term \o handle.pending)
  /\ handle' = [handle EXCEPT !.dead = TRUE, !.pending = <<>>]
  /\ call' = [call EXCEPT !.code = sh.code, !.ok = call.op # "open"]
  /\ at' = "return"
  /\ UNCHANGED out

\* shell_wait_status(): everything the command wrote, then the status line;
\* while it is outstanding, every line that is complete.
WaitStatus ==
  /\ at = "status"
  /\ LET s == handle.pending
         i == FindStatus(s)
     IN \/ /\ i # 0
           /\ term' = EndLine(term \o Upto(s, i - 1))
           /\ handle' = [handle EXCEPT !.pending = Past(s, LineEnd(s, i))]
           /\ call' = [call EXCEPT !.code = ValueOf(SubSeq(s, i + 2, NumberEnd(s, i) - 1))]
           /\ at' = "return"
           /\ UNCHANGED out
        \/ /\ i = 0
           /\ Fill(LastNewline(s))
           /\ term' = term \o Upto(s, LastNewline(s))
           /\ UNCHANGED <<at, call>>
        \/ i = 0 /\ ShellGone
  /\ UNCHANGED <<sh, stdin, daemon, history>>

Collected_Last(got, piece) == piece
Collected(got, piece) == got \o piece

\* venv_shell_dump_env(), waiting for the block,
FindBlock ==
  /\ at = "dump" /\ ~call.inBlock
  /\ LET s == handle.pending
         e == MarkerLineEnd(s, "BEGIN")
     IN \/ /\ e # 0
           /\ term' = term \o Upto(s, First({i \in DOMAIN s : s[i] = "BEGIN"}) - 1)
           /\ handle' = [handle EXCEPT !.pending = Past(s, e)]
           /\ call' = [call EXCEPT !.inBlock = TRUE]
           /\ UNCHANGED out
        \/ e = 0 /\ Fill(0) /\ UNCHANGED <<term, call>>
  /\ UNCHANGED <<at, sh, stdin, daemon, history>>

\* and in it; all that is complete belongs to it.
ReadBlock ==
  /\ at = "dump" /\ call.inBlock
  /\ LET s == handle.pending
         e == MarkerLineEnd(s, "END")
     IN \/ /\ e # 0
           /\ call' = [call EXCEPT !.got = Collected(@, Upto(s, First({i \in DOMAIN s : s[i] = "END"}) - 1))]
           /\ handle' = [handle EXCEPT !.pending = Past(s, e)]
           /\ at' = "return"
           /\ UNCHANGED out
        \/ /\ e = 0
           /\ Fill(LastNewline(s))
           /\ call' = [call EXCEPT !.got = Collected(@, Upto(s, LastNewline(s)))]
           /\ UNCHANGED at
  /\ UNCHANGED <<term, sh, stdin, daemon, history>>

DumpFails ==
  /\ at = "dump" /\ EofOnOut
  /\ MarkerLineEnd(handle.pending, IF call.inBlock THEN "END" ELSE "BEGIN") = 0
  /\ handle' = [handle EXCEPT !.dead = TRUE,
                  !.pending = IF call.inBlock THEN Past(@, LastNewline(@)) ELSE @]
  /\ call' = [call EXCEPT !.ok = FALSE]
  /\ at' = "return"
  /\ UNCHANGED <<sh, stdin, out, daemon, term, history>>

\* venv_shell_close(): the end of the input, then what the shell still has to say.
Close ==
  /\ at = "config" /\ handle.open
  /\ handle' = [handle EXCEPT !.in = FALSE]
  /\ call' = [Idle EXCEPT !.op = "close"]
  /\ at' = "drain"
  /\ UNCHANGED <<sh, stdin, out, daemon, term, history>>

Drain ==
  /\ at = "drain"
  /\ \/ /\ Fill(LastNewline(handle.pending))
        /\ term' = term \o Upto(handle.pending, LastNewline(handle.pending))
        /\ UNCHANGED at
     \/ /\ EofOnOut
        /\ term' = EndLine(term \o handle.pending)
        /\ handle' = NoHandle
        /\ at' = "return"
        /\ UNCHANGED out
  /\ UNCHANGED <<call, sh, stdin, daemon, history>>

Outcome == IF call.ok THEN call.code ELSE FAILURE

Return ==
  /\ at = "return"
  /\ answers' = IF call.op = "run" THEN Append(answers, Outcome) ELSE answers
  \* A shell that ended while starting is closed again.
  /\ IF call.op = "open" /\ ~call.ok
     THEN handle' = [handle EXCEPT !.in = FALSE] /\ at' = "drain" /\ call' = [Idle EXCEPT !.op = "close"]
     ELSE UNCHANGED handle /\ at' = "config" /\ call' = Idle
  /\ UNCHANGED <<sh, stdin, out, daemon, term, calls, wrote, asked, ran>>

-----------------------------------------------------------------------------
(* The shell *)

ShellOnly == UNCHANGED <<at, call, handle, term, calls, asked, answers>>

\* What is written for a probe or a dump is not output of a command.
WriteToken ==
  /\ Alive /\ sh.writing # <<>> /\ Len(out) < Capacity
  /\ out' = Append(out, Head(sh.writing))
  /\ sh' = [sh EXCEPT !.writing = Tail(@)]
  /\ wrote' = IF Len(sh.writing) > sh.hidden THEN Append(wrote, Head(sh.writing)) ELSE wrote
  /\ ShellOnly /\ UNCHANGED <<stdin, daemon, ran>>

Dies(code) == [sh EXCEPT !.state = "gone", !.code = code, !.writing = <<>>]

\* With echo on the shell repeats a line before it runs it.
Repeated(line) ==
  IF ~sh.echo THEN <<>>
  ELSE CASE line.op = "probe" -> <<"text">> \o Marker \o <<"pct", "nl">>
         [] line.op = "begin" -> <<"text", "BEGIN", "nl">>
         [] line.op = "end" -> <<"text", "END", "nl">>
         [] OTHER -> <<"text", "nl">>

Says(line) ==
  CASE line.op = "probe" -> Marker \o Decimal(sh.last) \o EndOfLine
    [] line.op = "begin" -> <<"BEGIN">> \o EndOfLine
    [] line.op = "end" -> <<"END">> \o EndOfLine
    [] line.op = "set" -> <<sh.env>> \o EndOfLine
    [] line.kind = "prints" -> <<"text", "nl">>
    [] line.kind = "open" -> <<"text">>
    [] OTHER -> <<>>

Obeyed(line) ==
  CASE line.kind = "exit" -> Dies(Own(line.n))
    [] line.kind = "reads" -> [sh EXCEPT !.state = "swallows", !.last = Own(line.n)]
    [] line.kind = "echo" -> [sh EXCEPT !.echo = TRUE, !.last = Own(line.n)]
    [] line.kind \in Values -> [sh EXCEPT !.env = line.kind, !.last = Own(line.n)]
    [] OTHER -> [sh EXCEPT !.last = Own(line.n)]

Executed(line) ==
  CASE line.op = "cmd" -> Obeyed(line)
    [] line.op = "off" -> [sh EXCEPT !.echo = FALSE]
    [] OTHER -> sh

Hidden(line) ==
  CASE line.op = "probe" -> Len(Says(line))
    [] line.op \in {"begin", "set", "end"} -> Len(Repeated(line) \o Says(line))
    [] OTHER -> 0

ReadLine ==
  /\ sh.state = "runs" /\ sh.writing = <<>> /\ stdin # <<>>
  /\ LET line == Head(stdin)
     IN /\ sh' = [Executed(line) EXCEPT
                    !.writing = IF line.kind = "exit" THEN <<>> ELSE Repeated(line) \o Says(line),
                    !.hidden = Hidden(line),
                    !.noisy = @ \/ (sh.echo /\ line.op = "begin")]
        /\ ran' = IF line.op = "cmd" THEN Append(ran, line.n) ELSE ran
        /\ daemon' = (daemon \/ line.kind = "daemon")
  /\ stdin' = Tail(stdin)
  /\ ShellOnly /\ UNCHANGED <<out, wrote>>

Swallow ==
  /\ sh.state = "swallows" /\ sh.writing = <<>> /\ stdin # <<>>
  /\ stdin' = Tail(stdin)
  /\ sh' = [sh EXCEPT !.state = "runs", !.ate = TRUE]
  /\ ShellOnly /\ UNCHANGED <<out, daemon, wrote, ran>>

EndOfInput ==
  /\ Alive /\ sh.writing = <<>> /\ stdin = <<>> /\ ~handle.in
  /\ sh' = Dies(sh.last)
  /\ ShellOnly /\ UNCHANGED <<stdin, out, daemon, wrote, ran>>

Killed ==
  /\ "killed" \in Kinds /\ Alive
  /\ sh' = [Dies(KILLED) EXCEPT !.noisy = TRUE]
  /\ ShellOnly /\ UNCHANGED <<stdin, out, daemon, wrote, ran>>

DaemonEnds ==
  /\ daemon
  /\ daemon' = FALSE
  /\ ShellOnly /\ UNCHANGED <<sh, stdin, out, wrote, ran>>

-----------------------------------------------------------------------------
Venv == Write \/ WaitStatus \/ FindBlock \/ ReadBlock \/ DumpFails \/ Drain \/ Return
Shell == WriteToken \/ ReadLine \/ Swallow \/ EndOfInput

Next ==
  \/ Open \/ (\E kind \in Kinds \cup Values : Run(kind)) \/ DumpEnv \/ Close
  \/ Venv \/ Shell \/ Killed \/ DaemonEnds

Spec == Init /\ [][Next]_vars

\* venv runs until it waits, and the shell as long as it has something to do.
FairSpec == Spec /\ WF_vars(Venv) /\ WF_vars(Shell)

-----------------------------------------------------------------------------
(* Properties *)

SessionUp == IF ~handle.open THEN "closed" ELSE IF Alive THEN "open" ELSE "ended"

Session == INSTANCE ShellSession WITH
  Own <- Own, Failures <- {KILLED, FAILURE}, up <- SessionUp

\* Filtering statuses out of the output keeps the promise of the header: each
\* command is answered with its own status, or with the end of the shell,
\* however the output was cut into pieces and whatever the shell repeats.
SessionKept == Session!Spec

\* What reached the terminal, without the ends of line that venv added.
Shown(t) ==
  LET upto[i \in 0 .. Len(t)] ==
        IF i = 0 THEN <<>>
        ELSE IF t[i] \in Output THEN Append(upto[i - 1], t[i]) ELSE upto[i - 1]
  IN upto[Len(t)]

\* What the commands print, and nothing else, reaches the terminal, in order,
\* and all of it before the command is answered.  (A dump taken with echo on
\* leaves pieces of the repeated lines there, and a shell that is killed may leave
\* a piece of a status or a dump.)
OutputShown ==
  ~sh.noisy =>
    /\ IsPrefix(Shown(term), wrote)
    /\ at = "config" => Shown(term) = wrote

\* venv_shell_dump_env() returns the shell's variables, with echo on or off.
DumpIsLive ==
  at = "return" /\ call.op = "dump" /\ call.ok =>
    \E i \in DOMAIN call.got :
      /\ call.got[i] = sh.env
      /\ \A j \in DOMAIN call.got \ {i} : call.got[j] \notin Values

Excused == sh.ate \/ sh.state = "swallows" \/ daemon

\* Every call returns, unless a command took the probe for its own input or a
\* process left behind holds the shell's output.
CallsReturn == at # "config" ~> (at = "config" \/ Excused)
=============================================================================
