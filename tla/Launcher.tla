------------------------------ MODULE Launcher ------------------------------
(***************************************************************************)
(* The venv launcher (venv/src/underc_bridge.cpp, main.c, config.c) on the *)
(* persistent shell of PosixShell: it loads sources and runs a             *)
(* configuration whose calls edit the environment, start and stop a shell, *)
(* run commands in it or as children of their own, capture their output,   *)
(* and take and compare snapshots of the environment.                      *)
(***************************************************************************)
EXTENDS PosixShell

CONSTANTS
  Fragments,   \* what the configuration sets, prepends and appends
  Sources,     \* how many files are loaded before main() runs
  AppCommands, \* how many -ac commands there are
  Privileged,  \* may this user chroot()?
  MaxCalls,    \* bound: calls of the configuration
  MaxEnv       \* bound: fragments in a value

VARIABLES
  phase,       \* "loading", "running", "stopping" or "over"
  todo,        \* sources to load, -ac commands to run, calls the bound allows
  last,        \* g_last_exit_code
  cfg,         \* the environment table, and root_dir_defaulted
  own,         \* venv's own environment
  child,       \* a standalone or captured command
  override,    \* g_env_override
  snap,        \* the snapshot, what the last comparison found, how many of each (history)
  exit         \* exit code of venv

bridgeVars == <<phase, todo, last, cfg, own, child, override, snap, exit>>
vars == <<shellVars, bridgeVars>>

NoChild == [op |-> "none", daemon |-> FALSE]
Off == [on |-> FALSE, env |-> <<>>]

Init ==
  /\ at = "config" /\ call = Idle /\ handle = NoHandle /\ sh = NoShell
  /\ stdin = <<>> /\ fd3 = <<>> /\ keepIn = {} /\ keepFd3 = {}
  /\ asked = 0 /\ ran = <<>> /\ answers = <<>>
  /\ phase = "loading"
  /\ todo = [sources |-> Sources, apps |-> 0, calls |-> MaxCalls]
  /\ last = 0
  /\ cfg = [env |-> <<>>, rooted |-> FALSE] /\ own = <<>>
  /\ child = NoChild /\ override = Off
  /\ snap = [env |-> <<>>, differs |-> FALSE, taken |-> 0, compared |-> 0]
  /\ exit = 0

-----------------------------------------------------------------------------
(* Calls of the configuration.  Files that are being loaded may call, too. *)

MayRun == Privileged \/ ~cfg.rooted     \* check_chroot_privileges()

Calls ==
  /\ at = "config" /\ phase \in {"loading", "running"}
  /\ todo.apps = 0 /\ todo.calls > 0
  /\ todo' = [todo EXCEPT !.calls = @ - 1]

ShellAsIs == UNCHANGED shellVars

\* venv_uc_start_shell(); pipe() and fork() may fail.
StartShell ==
  /\ Calls
  /\ ~handle.open
  /\ \/ MayRun /\ ShellOpen(cfg.env) /\ UNCHANGED last
     \/ last' = FAILURE /\ ShellAsIs
  /\ UNCHANGED <<phase, cfg, own, child, override, snap, exit>>

StopShell ==
  /\ Calls
  /\ handle.open
  /\ ShellClose
  /\ UNCHANGED <<phase, last, cfg, own, child, override, snap, exit>>

NotOpen == ~handle.open /\ last' = FAILURE /\ ShellAsIs

\* run_in_shell()
InShell(kind) ==
  \/ NotOpen
  \/ /\ handle.open
     /\ ShellRun("command", kind, <<>>)
     /\ UNCHANGED last

CommandInShell ==
  /\ Calls
  /\ \E kind \in Kinds : InShell(kind)
  /\ UNCHANGED <<phase, cfg, own, child, override, snap, exit>>

\* run_standalone() and exec_command_capture(): fork() may fail.
Fork(op) ==
  \/ /\ MayRun
     /\ child' = [NoChild EXCEPT !.op = op]
     /\ at' = "child"
     /\ UNCHANGED <<call, handle, sh, pipeVars, history, last>>
  \/ last' = FAILURE /\ ShellAsIs /\ UNCHANGED child

Standalone ==
  /\ Calls
  /\ \E op \in {"run", "capture"} : Fork(op)
  /\ UNCHANGED <<phase, cfg, own, override, snap, exit>>

\* The child inherits the pipe to the shell, and so does what it leaves behind.
ChildLeavesDaemon ==
  /\ at = "child" /\ "daemon" \in Kinds /\ ~child.daemon
  /\ child' = [child EXCEPT !.daemon = TRUE]
  /\ keepIn' = IF handle.open THEN keepIn \cup {0} ELSE keepIn
  /\ UNCHANGED <<at, call, handle, sh, stdin, fd3, keepFd3, history>>
  /\ UNCHANGED <<phase, todo, last, cfg, own, override, snap, exit>>

\* waitpid(); a captured command is first read until no one can write any more.
ChildEnds ==
  /\ at = "child"
  /\ child.op = "capture" => ~child.daemon
  /\ last' \in {0, FAILURE, EXEC_FAILED, KILLED}
  /\ child' = [child EXCEPT !.op = "none"]
  /\ at' = "config"
  /\ UNCHANGED <<call, handle, sh, pipeVars, history>>
  /\ UNCHANGED <<phase, todo, cfg, own, override, snap, exit>>

ChildDaemonEnds ==
  /\ child.daemon
  /\ child' = [child EXCEPT !.daemon = FALSE]
  /\ keepIn' = keepIn \ {0}
  /\ UNCHANGED <<at, call, handle, sh, stdin, fd3, keepFd3, history>>
  /\ UNCHANGED <<phase, todo, last, cfg, own, override, snap, exit>>

RootDir ==
  /\ Calls
  /\ \/ cfg' = [cfg EXCEPT !.rooted = TRUE] /\ UNCHANGED last
     \/ last' = FAILURE /\ UNCHANGED cfg
  /\ ShellAsIs
  /\ UNCHANGED <<phase, own, child, override, snap, exit>>

\* env_edit(): the table and venv's own environment.
EditEnv ==
  /\ Calls
  /\ \E mode \in {"set", "pre", "app"}, f \in Fragments :
       LET env == Edited(mode, <<f>>, cfg.env)
       IN Len(env) <= MaxEnv /\ cfg' = [cfg EXCEPT !.env = env] /\ own' = env
  /\ ShellAsIs
  /\ UNCHANGED <<phase, last, child, override, snap, exit>>

\* env_edit_in_shell()
EditEnvInShell ==
  /\ Calls
  /\ \/ NotOpen
     \/ /\ handle.open
        /\ \E mode \in {"set", "pre", "app"}, f \in Fragments :
             /\ Len(Edited(mode, <<f>>, sh.env)) <= MaxEnv
             /\ ShellRun("edit", mode, <<f>>)
        /\ UNCHANGED last
  /\ UNCHANGED <<phase, cfg, own, child, override, snap, exit>>

Captured_Table(over) == cfg.env
\* env_capture()
Captured(over) == IF over.on THEN over.env ELSE cfg.env

\* do_snapshot() and do_snapshot_compare()
Record(op, env) ==
  IF op = "snapshot" THEN [snap EXCEPT !.taken = @ + 1, !.env = env]
  ELSE IF snap.taken = 0 THEN snap
  ELSE [snap EXCEPT !.compared = @ + 1, !.differs = snap.env # env]

\* refresh_snapshot_source() drops the last override; with a shell it asks for a dump.
Snapshot ==
  /\ Calls
  /\ \E op \in {"snapshot", "compare"} :
       IF handle.open
       THEN override' = Off /\ ShellDumpEnv(op) /\ UNCHANGED snap
       ELSE override' = Off /\ snap' = Record(op, Captured(Off)) /\ ShellAsIs
  /\ UNCHANGED <<phase, last, cfg, own, child, exit>>

\* venv_uc_exec_app_commands(): each in the shell when there is one.
ExecAppCommands ==
  /\ at = "config" /\ phase \in {"loading", "running"}
  /\ todo.apps = 0 /\ todo.calls > 0
  /\ todo' = [todo EXCEPT !.calls = @ - 1, !.apps = AppCommands]
  /\ ShellAsIs
  /\ UNCHANGED <<phase, last, cfg, own, child, override, snap, exit>>

AppCommand ==
  /\ at = "config" /\ todo.apps > 0
  /\ todo' = [todo EXCEPT !.apps = @ - 1]
  /\ IF handle.open
     THEN (\E kind \in Kinds : InShell(kind)) /\ UNCHANGED child
     ELSE Fork("run")
  /\ UNCHANGED <<phase, cfg, own, override, snap, exit>>

-----------------------------------------------------------------------------
(* The spawner returns to the bridge. *)

\* The answer to a command, as run_in_shell() reports it.
Outcome == IF call.ok THEN call.code ELSE FAILURE

ReturnOf(ops) == at = "return" /\ call.op \in ops /\ call' = Idle /\ UNCHANGED todo

CommandReturns ==
  /\ ReturnOf({"command", "edit"})
  /\ at' = "config"
  /\ last' = IF call.op = "command" \/ ~call.ok THEN Outcome ELSE last
  /\ Answered(Outcome)
  /\ UNCHANGED <<handle, sh, pipeVars, phase, cfg, own, child, override, snap, exit>>

\* Without a dump a snapshot sees what it would see without a shell.
DumpReturns ==
  /\ ReturnOf({"snapshot", "compare"})
  /\ at' = "config"
  /\ snap' = Record(call.op, Captured([on |-> call.ok, env |-> call.env]))
  /\ override' = Off
  /\ UNCHANGED <<handle, sh, pipeVars, history, phase, last, cfg, own, child, exit>>

CloseReturns ==
  /\ ReturnOf({"close"})
  /\ Closed
  /\ IF phase = "stopping" THEN at' = "over" /\ phase' = "over" ELSE at' = "config" /\ UNCHANGED phase
  /\ UNCHANGED <<sh, history, last, cfg, own, child, override, snap, exit>>

-----------------------------------------------------------------------------
(* main() *)

\* The shell the configuration forgot is closed, by run_main() or by shutdown().
Stop(code) ==
  /\ exit' = code
  /\ IF handle.open
     THEN phase' = "stopping" /\ ShellClose
     ELSE phase' = "over" /\ at' = "over" /\ UNCHANGED <<call, handle, sh, pipeVars, history>>

\* venv_underc_load_source(), for each source in turn; the first failure ends venv.
LoadSource ==
  /\ at = "config" /\ phase = "loading" /\ todo.apps = 0
  /\ \/ /\ todo.sources > 0
        /\ todo' = [todo EXCEPT !.sources = @ - 1]
        /\ UNCHANGED <<phase, last, exit>> /\ ShellAsIs
     \/ /\ todo.sources > 0
        /\ Stop(FAILURE)
        /\ UNCHANGED <<todo, last>>
     \/ /\ todo.sources = 0
        /\ phase' = "running" /\ last' = 0
        /\ UNCHANGED <<todo, exit>> /\ ShellAsIs
  /\ UNCHANGED <<cfg, own, child, override, snap>>

\* venv_underc_run_main(): main() returns, or does not end well.
MainReturns ==
  /\ at = "config" /\ phase = "running" /\ todo.apps = 0
  /\ Stop(last) \/ Stop(FAILURE)
  /\ UNCHANGED <<todo, last, cfg, own, child, override, snap>>

-----------------------------------------------------------------------------
OfShell == (ShellProcess \/ Killed \/ DaemonEnds) /\ UNCHANGED bridgeVars
OfSpawner == (Write \/ ReadStatus \/ ReadDump \/ Reap) /\ UNCHANGED bridgeVars

Next ==
  \/ StartShell \/ StopShell \/ CommandInShell \/ Standalone \/ RootDir
  \/ EditEnv \/ EditEnvInShell \/ Snapshot \/ ExecAppCommands \/ AppCommand
  \/ ChildLeavesDaemon \/ ChildEnds \/ ChildDaemonEnds
  \/ OfSpawner \/ CommandReturns \/ DumpReturns \/ CloseReturns
  \/ LoadSource \/ MainReturns
  \/ OfShell

Spec == Init /\ [][Next]_vars

\* venv runs until it waits, the shell as long as it has something to read, and
\* a child of venv ends; what a command leaves behind need not.
Fairness ==
  /\ WF_vars(OfSpawner) /\ WF_vars(CommandReturns \/ DumpReturns \/ CloseReturns)
  /\ WF_vars(ChildEnds)
  /\ WF_vars(ShellProcess /\ UNCHANGED bridgeVars)

FairSpec == Spec /\ Fairness

-----------------------------------------------------------------------------
(* Properties *)

\* The pipes, the probe and the reaping of venv_shell_run() add up to what the
\* header promises of a session: commands run once, in order, each answered
\* with its own status, or with the end of the shell.
SessionKept == Session!Spec

\* The environment that the next command of the session would see.
LiveEnv == IF handle.open /\ (Alive \/ (call.ok /\ at = "return")) THEN sh.env ELSE cfg.env

\* venv_uc_snapshot_env(): with a shell open a snapshot is what the shell's
\* variables are at that moment, whatever was dumped or edited before, and so
\* is what a comparison looks at; it is the table of the configuration only
\* without a shell, or when it has ended.
SnapshotIsLive ==
  [][ /\ snap'.taken # snap.taken => snap'.env = LiveEnv
      /\ snap'.compared # snap.compared => snap'.differs = (snap.env # LiveEnv) ]_vars

\* What keeps venv waiting: a command that took the probe for its own input,
\* or a process left behind that holds an end of a pipe.
Excused == sh.ate \/ sh.state = "swallows" \/ keepIn # {} \/ keepFd3 # {} \/ child.daemon

\* Every call of the configuration returns, and every shell is reaped, unless
\* there is an excuse.
CallsReturn == at \notin {"config", "over"} ~> at \in {"config", "over"} \/ Excused
=============================================================================
