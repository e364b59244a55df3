----------------------------- MODULE PosixShell -----------------------------
(***************************************************************************)
(* The persistent shell of venv on POSIX (venv/src/process_spawner.c):     *)
(* venv writes commands, each followed by a probe, into the standard input *)
(* of a shell and reads statuses and environment dumps from its file       *)
(* descriptor 3.  The shell, the commands it runs and the processes they   *)
(* leave behind are the environment: they read the pipe at their own pace, *)
(* swallow input, exit, are killed, and keep the ends of the pipes.        *)
(*                                                                         *)
(* The pipes hold lines and tokens instead of bytes; a newline on          *)
(* descriptor 3 is a token of its own.  The environment is one variable,   *)
(* whose value is a sequence of fragments.                                 *)
(***************************************************************************)
EXTENDS Naturals, Sequences, FiniteSets, SequencesExt

CONSTANTS
  Kinds,       \* what a command may do besides editing the variable
  Capacity,    \* lines that fit into the pipe to the shell
  Chunk        \* tokens one read() of an environment dump returns at most

ASSUME CapacityAssumption == Capacity \in Nat \ {0}
ASSUME ChunkAssumption == Chunk \in Nat \ {0}

VARIABLES
  at,          \* what venv is doing
  call,        \* the call it is in: operation, lines left to write, bytes read, outcome
  handle,      \* venv_shell: is there one, `reaped`, is in_fd open
  sh,          \* the shell process: state, `$?`, exit status, the variable,
               \*   and whether a command took a line of input that was not for it (history)
  stdin, fd3,  \* the pipes
  keepIn,      \* processes besides venv that hold the write end of stdin,
  keepFd3,     \*   and besides the shell that of descriptor 3
  asked, ran, answers     \* history: see ShellSession

pipeVars == <<stdin, fd3, keepIn, keepFd3>>
history == <<asked, ran, answers>>
shellVars == <<at, call, handle, sh, stdin, fd3, keepIn, keepFd3, asked, ran, answers>>

-----------------------------------------------------------------------------
(* Statuses: 200 and more are those of the commands. *)

Own(n) == 200 + n
EXEC_FAILED == 127
KILLED == 137
FAILURE == 1

Idle == [op |-> "none", left |-> <<>>, got |-> <<>>, code |-> 0, ok |-> TRUE, env |-> <<>>]
NoShell == [state |-> "none", last |-> 0, status |-> 0, env |-> <<>>, ate |-> FALSE]
NoHandle == [open |-> FALSE, reaped |-> FALSE, inFd |-> FALSE]

Alive == sh.state \in {"start", "runs", "swallows"}
EofOnStdin == stdin = <<>> /\ ~handle.inFd /\ keepIn = {}
EofOnFd3 == fd3 = <<>> /\ ~Alive /\ keepFd3 = {}

Line(op) == [op |-> op, n |-> 0, kind |-> "", env |-> <<>>]
Token(is) == [is |-> is, code |-> 0, env |-> <<>>]
StatusToken(code) == [Token("status") EXCEPT !.code = code]
EnvToken(env) == [Token("env") EXCEPT !.env = env]
Newline == Token("nl")

\* venvSetEnv, venvPreEnv and venvAppEnv, in the table and in the shell's syntax.
Edited(mode, fragment, env) ==
  CASE mode = "set" -> fragment
    [] mode = "pre" -> fragment \o env
    [] mode = "app" -> env \o fragment

-----------------------------------------------------------------------------
(* venv *)

\* The shell gets its pipes, the configured root and environment.
ShellOpen(env) ==
  /\ handle' = [open |-> TRUE, reaped |-> FALSE, inFd |-> TRUE]
  /\ sh' = [NoShell EXCEPT !.state = "start", !.env = env]
  /\ stdin' = <<>> /\ fd3' = <<>> /\ keepIn' = {} /\ keepFd3' = {}
  /\ UNCHANGED <<at, call, history>>

Begin_Reaped(op, lines) ==
  /\ at' = "write"
  /\ call' = [Idle EXCEPT !.op = op, !.left = lines]
Begin(op, lines) ==
  IF handle.reaped
  THEN /\ at' = "return"
       /\ call' = [Idle EXCEPT !.op = op, !.ok = FALSE]
  ELSE /\ at' = "write"
       /\ call' = [Idle EXCEPT !.op = op, !.left = lines]

\* venv_shell_run(): the command, then the probe that reports its status.
ShellRun(op, kind, fragment) ==
  /\ asked' = asked + 1
  /\ Begin(op, <<[op |-> "cmd", n |-> asked + 1, kind |-> kind, env |-> fragment], Line("probe")>>)
  /\ UNCHANGED <<handle, sh, pipeVars, ran, answers>>

ShellDumpEnv(op) ==
  /\ Begin(op, <<Line("begin"), Line("env"), Line("end")>>)
  /\ UNCHANGED <<handle, sh, pipeVars, history>>

ShellClose ==
  /\ handle' = [handle EXCEPT !.inFd = FALSE]
  /\ call' = [Idle EXCEPT !.op = "close"]
  /\ at' = IF handle.reaped THEN "return" ELSE "reap"
  /\ UNCHANGED <<sh, pipeVars, history>>

\* write_all(): a full pipe blocks; without a reader it fails.
Write ==
  /\ at = "write"
  /\ IF Alive
     THEN /\ Len(stdin) < Capacity
          /\ stdin' = Append(stdin, Head(call.left))
          /\ call' = [call EXCEPT !.left = Tail(@)]
          /\ at' = IF Len(call.left) > 1 THEN "write"
                   ELSE IF call.op \in {"snapshot", "compare"} THEN "dump" ELSE "status"
     ELSE /\ at' = "reap"
          /\ call' = [call EXCEPT !.ok = FALSE]
          /\ UNCHANGED stdin
  /\ UNCHANGED <<handle, sh, fd3, keepIn, keepFd3, history>>

StatusLine_KeepsNewline == 1
\* strtol() makes 0 of an empty line.
StatusLine == IF Head(fd3) = Newline THEN 1 ELSE 2

\* read_status(): one line; at the end of the channel the shell has ended.
ReadStatus ==
  /\ at = "status"
  /\ \/ /\ fd3 # <<>>
        /\ call' = [call EXCEPT !.code = Head(fd3).code]
        /\ fd3' = SubSeq(fd3, StatusLine + 1, Len(fd3))
        /\ at' = "return"
     \/ /\ EofOnFd3
        /\ at' = "reap"
        /\ UNCHANGED <<call, fd3>>
  /\ UNCHANGED <<handle, sh, stdin, keepIn, keepFd3, history>>

\* What stands between the markers.
Body(tokens) ==
  {tokens[i].env : i \in {j \in DOMAIN tokens :
     /\ tokens[j].is = "env"
     /\ \E b \in 1 .. j : tokens[b] = Token("BEGIN")
     /\ \E e \in j .. Len(tokens) : tokens[e] = Token("END")}}
Dumped(tokens) == IF Body(tokens) = {} THEN <<>> ELSE CHOOSE env \in Body(tokens) : TRUE

Fits(tokens) == IF Len(tokens) < Chunk THEN Len(tokens) ELSE Chunk

\* venv_shell_dump_env(): reads until the closing marker shows up.
ReadDump ==
  /\ at = "dump"
  /\ \/ /\ fd3 # <<>>
        /\ LET got == call.got \o SubSeq(fd3, 1, Fits(fd3))
           IN IF Token("END") \in Range(got)
              THEN /\ call' = [call EXCEPT !.got = <<>>, !.env = Dumped(got)]
                   /\ at' = "return"
              ELSE /\ call' = [call EXCEPT !.got = got]
                   /\ UNCHANGED at
        /\ fd3' = SubSeq(fd3, Fits(fd3) + 1, Len(fd3))
     \/ /\ EofOnFd3
        /\ at' = "reap"
        /\ call' = [call EXCEPT !.ok = FALSE]
        /\ UNCHANGED fd3
  /\ UNCHANGED <<handle, sh, stdin, keepIn, keepFd3, history>>

\* shell_reap(): waits for the shell; what remains is its exit status.
Reap ==
  /\ at = "reap"
  /\ sh.state = "zombie"
  /\ sh' = [sh EXCEPT !.state = "none"]
  /\ handle' = [handle EXCEPT !.reaped = TRUE]
  /\ call' = [call EXCEPT !.code = IF call.ok THEN sh.status ELSE @]
  /\ at' = "return"
  /\ UNCHANGED <<pipeVars, history>>

\* venv_shell_close() frees the handle; status_fd is closed with it.
Closed == handle' = NoHandle /\ stdin' = <<>> /\ fd3' = <<>> /\ keepIn' = {} /\ keepFd3' = {}

Answered(status) == answers' = Append(answers, status) /\ UNCHANGED <<asked, ran>>

-----------------------------------------------------------------------------
(* The shell and what it runs *)

ShellUnchanged == UNCHANGED <<at, call, handle, asked, answers>>

Exits(status) == sh' = [sh EXCEPT !.state = "zombie", !.status = status]

Exec ==
  /\ sh.state = "start"
  /\ \/ sh' = [sh EXCEPT !.state = "runs"]
     \/ Exits(EXEC_FAILED)
  /\ ShellUnchanged /\ UNCHANGED <<pipeVars, ran>>

\* A command is a line of input; what it reads, it takes from the lines after it.
RunCommand(line) ==
  /\ ran' = Append(ran, line.n)
  /\ stdin' = Tail(stdin)
  /\ CASE line.kind = "exit" -> Exits(Own(line.n))
       [] line.kind = "killed" -> Exits(KILLED)
       [] line.kind = "reads" -> sh' = [sh EXCEPT !.state = "swallows", !.last = Own(line.n)]
       [] line.kind \in {"set", "pre", "app"} ->
            sh' = [sh EXCEPT !.env = Edited(line.kind, line.env, @), !.last = Own(line.n)]
       [] OTHER -> sh' = [sh EXCEPT !.last = Own(line.n)]
  /\ keepFd3' = IF line.kind = "daemon" THEN keepFd3 \cup {line.n} ELSE keepFd3
  /\ UNCHANGED <<fd3, keepIn>>

Report(tokens) ==
  /\ fd3' = fd3 \o tokens
  /\ stdin' = Tail(stdin)
  /\ sh' = [sh EXCEPT !.last = 0]
  /\ UNCHANGED <<keepIn, keepFd3, ran>>

ReadLine ==
  /\ sh.state = "runs" /\ stdin # <<>>
  /\ LET line == Head(stdin)
     IN CASE line.op = "cmd" -> RunCommand(line)
          [] line.op = "probe" -> Report(<<StatusToken(sh.last), Newline>>)
          [] line.op = "begin" -> Report(<<Token("BEGIN"), Newline>>)
          [] line.op = "env" -> Report(<<EnvToken(sh.env), Newline>>)
          [] line.op = "end" -> Report(<<Token("END"), Newline>>)
  /\ ShellUnchanged

Swallow ==
  /\ sh.state = "swallows" /\ stdin # <<>>
  /\ stdin' = Tail(stdin)
  /\ sh' = [sh EXCEPT !.state = "runs", !.ate = TRUE]
  /\ ShellUnchanged /\ UNCHANGED <<fd3, keepIn, keepFd3, ran>>

EndOfInput ==
  /\ sh.state \in {"runs", "swallows"} /\ EofOnStdin
  /\ Exits(sh.last)
  /\ ShellUnchanged /\ UNCHANGED <<pipeVars, ran>>

\* Something kills the shell from outside.
Killed ==
  /\ "killed" \in Kinds /\ Alive
  /\ Exits(KILLED)
  /\ ShellUnchanged /\ UNCHANGED <<pipeVars, ran>>

DaemonEnds ==
  /\ \E d \in keepIn \cup keepFd3 : keepIn' = keepIn \ {d} /\ keepFd3' = keepFd3 \ {d}
  /\ ShellUnchanged /\ UNCHANGED <<sh, stdin, fd3, ran>>

ShellProcess == Exec \/ ReadLine \/ Swallow \/ EndOfInput

-----------------------------------------------------------------------------
(* The session this implements. *)

SessionUp == IF ~handle.open THEN "closed" ELSE IF Alive THEN "open" ELSE "ended"

Session == INSTANCE ShellSession WITH
  Own <- Own, Failures <- {EXEC_FAILED, KILLED, FAILURE}, up <- SessionUp
=============================================================================
