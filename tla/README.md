# UnderC: a verification project

TLA+ models of UnderC, the interactive C++ interpreter, with the TLC runs that
check them on small instances and the proofs that TLAPS checks for every value
of the constants. Paths below are those of the repository.

## 1. The system

UnderC compiles C++ statements, one at a time, into the code of a stack machine
and executes them at once. The prompt is both the shell and the debugger: a
program that hits a breakpoint stays on the stacks while the user evaluates
further statements in its frames.

| Component | Code | State | Operations | Talks to |
|---|---|---|---|---|
| Stack engine | `src/engine.cpp`, `include/engine.h`, `include/stack.h`, `src/hard_except.cpp` | registers `fb`, `ppcode`, `mSP`, `baseSP`, `mOP`; execution stack, function stack `fs`, object stack `ostack`, object destructor stack `mODS`; `resume_state` | `execute()`, `start_exec()`, `start_function()`, `end_function()`, `do_unwind()`, `throw_exception()`, `exec_message()`, `reset_stacks()`, `set_frame()` | the console calls it; it calls native functions, which call it back; destructors run in nested calls of `execute()` |
| Native interface | `src/directcall.cpp`, `src/imports.cpp`, `src/sysv_abi_x86_64.S`, `src/mangle.cpp` | table of allocations, callback thunks, loaded libraries | `callfn()`, `ffi_callback()`, heap registration, pointer checks | engine |
| Code generator | `src/code.cpp`, `src/expressions.cpp`, `src/common.cpp`, `src/function.cpp` | current context, code buffer, label and loop stacks, first destructible object of each scope | statements, scopes, try blocks, `return`/`break`, TOSD and UNWIND | parser above, engine below |
| Bytecode optimizer | `src/bytecode_optimizer.cpp` | none between functions | peephole rewriting of finished code | code generator |
| Breakpoints and modules | `src/breakpoints.cpp` | list of breakpoints, the instruction each replaced, modules with reference counts and dependencies | set, move, group, remove; module creation, rebuilding | engine (HALT), debugger commands |
| Program lists | `src/program.cpp` | lists of module initialisers and finalisers | run initialisers, `main`, finalisers | engine, modules |
| Program thread (Windows) | `src/program.cpp`, `src/threads.cpp` | events, thread | start, pause, resume, stop | GUI and engine |
| Types and symbols | `src/types.cpp`, `src/table.cpp`, `src/class.cpp`, `src/function_match.cpp`, `src/templates.cpp`, `src/subst.cpp`, `src/operators.cpp` | tables, classes with virtual tables, overload sets, template instances | declare, look up, match overloads, instantiate | code generator |
| Lexer and preprocessor | `src/lexer.cpp`, `src/tokens.cpp`, `src/uc_tokens.cpp`, `src/input.cpp`, `src/keywords.cpp` | input stack, macro table, conditional stack | include, define, conditionals, tokens | parser |
| Parser | `src/build/parser.y`, `src/gen/` | LALR stacks | reductions call the code generator | generated |
| Errors | `src/errors.cpp` | messages, halt state | report, count | all |
| Reflection and embedding | `src/ucri.cpp`, `src/dll_entry.cpp`, `cli/`, `embed/` | handles to functions, classes and snapshots of code | `uc_init`, `uc_exec`, `uc_eval_*`, UCRI lookups | hosts |
| Console | `src/main.cpp` | command table, options | REPL, `#` commands, batch runs | parser, engine, breakpoints |
| Run-time library | `src/iostrm.cpp`, `src/mstring.cpp`, `src/os.cpp`, `src/utils.cpp`, `src/xt_int.cpp`, `lib/` | streams, strings | library calls | interpreted programs |
| Windows GUI | `src/twl.cpp`, `src/wcon.cpp`, `src/uc_graphics.cpp`, ... | windows | messages | operating system |
| venv launcher | `venv/src/*.c`, `venv/src/underc_bridge.cpp` | prefix, environment, child shell with a status channel | resolve the environment, run sources, run a persistent shell | child processes, embedding |

What is hard:

- The engine keeps its registers in globals and calls itself through native
  code, destructors and the debugger prompt, so that an exception, a crash or a
  breakpoint can arrive in the middle of any of them; several values (`nargs`,
  `curr_except`, `here_in_execute`, `m_xargs`) are static and are read after
  such a call.
- Loading a file is spread over hooks of the token stream: a command arms them,
  the next file that is opened fires one, the next return to the console the
  other, whatever happened in between.
- The optimizer rewrites finished code, to which jumps, breakpoints and line
  maps point, and evaluates at compile time what the engine evaluates at run time.
- The launcher talks to a shell it does not control, over pipes that cut its
  words anywhere, fill up, and are held open by processes it never heard of.

`PROJECT.json` lists each of these hazards at its line.

## 2. The modules

| Module | What it is |
|---|---|
| `Engine` | the stack engine: calls, exceptions, destructors, native callbacks, halting (`src/engine.cpp`) |
| `MCEngine` | small programs for `Engine` |
| `EngineProofs` | theorems about `Engine` for every program, about exceptions for programs that behave well, and about destructors that do not |
| `Scopes` | the compilation of control statements and scopes, and the execution of the code that comes out (`src/common.cpp`, `src/function.cpp`, `src/code.cpp`) |
| `MCScopes` | instance of `Scopes` |
| `ScopesLemmas` | lemmas about the operators of `Scopes` and the actions of the parser: what each does to the code, the labels and the parser's stacks |
| `ScopesProofs` | theorems about `Scopes`: its invariant, and where every jump leads |
| `Breakpoints` | breakpoints in one function (`src/breakpoints.cpp`) |
| `MCBreakpoints` | a function of eight instructions and its lines |
| `BreakpointsProofs` | theorems about `Breakpoints` |
| `StackMachine` | the instructions that expressions of `int` are compiled to, and a machine that runs them (`src/engine.cpp`) |
| `Optimizer` | the compilation of expressions and statements and the five passes of `src/bytecode_optimizer.cpp`, composed with `StackMachine` |
| `MCOptimizer` | fragments of the language for `Optimizer` |
| `Preprocessor` | the stack of open files, macros and conditional compilation (`src/tokens.cpp`) |
| `Session` | loading files, modules, saved namespaces, initialisers, running, on top of `Preprocessor` (`src/uc_tokens.cpp`, `src/breakpoints.cpp`, `src/program.cpp`, `src/main.cpp`) |
| `MCSession` | three files with their texts for `Session` |
| `SessionProofs` | theorems about `Session` |
| `ShellSession` | what a persistent shell promises; the abstract specification of the next two |
| `PosixShell` | the shell behind two pipes (`venv/src/process_spawner.c`, POSIX) |
| `Launcher` | the calls of a configuration and the life of venv, on top of `PosixShell` (`venv/src/underc_bridge.cpp`, `main.c`, `config.c`) |
| `WinShell` | the shell whose statuses travel in its output (`venv/src/process_spawner.c`, Windows) |
| `MCLauncher`, `MCWinShell` | instances of the two |
| `LauncherProofs` | theorems about `Launcher` on `PosixShell` |
| `WinShellProofs` | theorems about `WinShell` |
| `NaturalSets` | lemmas about `Min` and `Max` of sets of naturals, for the proof modules |

There are six families, which share no variables. `Engine`, `Scopes`,
`Breakpoints` and `Optimizer` describe one machine from four sides: `Engine`
takes for granted what the compiler emits for scopes (every TOSD has its
UNWIND); `Scopes` is about whether the compiler does, and takes for granted
that a call returns or raises; `Breakpoints` looks at the instructions
themselves, which the first two never change; `Optimizer` is about what
instructions compute. `Session` is what happens between statements: which file
the compiler reads, and what a program is made of. The launcher is a program of
its own, with the interpreter in it.

### 2.1 Engine

| State | Code |
|---|---|
| `reg` (`pc`, `fb`, `sp`, `bp`, `op`) | `ppcode`, `fb`, `mSP`, `baseSP`, `mOP` |
| `fs`, `os`, `ods` | function stack, `ostack`, `mODS` |
| `nat` | the native activations: `execute()`, `do_unwind()`, a native function that may call back; each with the locals it keeps |
| `resume`, `xargs`, `nargs`, `cur`, `thrown`, `jmp` | the statics `resume_state`, `m_xargs`, `nargs`, `curr_except` with its handlers' objects, `here_in_execute` |
| `blocked` | the signal mask after `longjmp()` out of the handler |
| `mode` | "run"; "raise": a native exception is on its way to an `execute()`; "wild": undefined behaviour, where the model stops |
| `acts`, `halt`, and the fields `own`, `act`, `depth` | history |

`Console`, `SelectFrame` and `Resume` are what the prompt does; `Call`,
`CallNative`, `CallLeaf`, `Construct`, `EnterTry`, `LeaveScope`, `Return`,
`Halt`, `Throw`, `Rethrow`, `CheckFails`, `Trap` are instructions of the
running function; `UnwindStep`, `LeftScope`, `Caught`, `Uncaught` and
`CaughtNative` the stages of `throw_exception()` and `do_unwind()`, which run
destructors in an `execute()` of their own; `HandleRaise` and `Crash` the
`catch` of `execute()`, with `exec_message()`; `ExecEnd` its return.

A program is given by constants: who calls whom, who has objects to destroy,
throws, handles, fails checks, traps, halts. Within these any function does any
of it in any order. Two slots of a frame may hold objects and one function has
at most one try block open. Values, expressions and argument contents are left
out; the height of the execution stack is kept, since it is what an exception
or a callback can get wrong. Constructors do not fail; callbacks return one
word; `function_trace` has its default.

### 2.2 Scopes

`cg` is the compiler: code buffer, labels, and the stacks of `ParserState` and
of the contexts. `open` is the stack of statements the parser is in, `n` bounds
the statements, `status` says whether the function is being compiled, runs, or
is done. `ip` and `ods` belong to the execution. The compile actions are the
reductions of the grammar (`src/build/parser.y`) with everything the actions
there call: `OpenBlock`, `If`, `While`, `Break`, `EndFunction` and so on. The
run actions execute TOSD (`RunConstruct`), UNWIND, jumps, calls and RET, and
`Raise` throws. Each block, label and instruction carries in history fields the
scope the *source* puts it in, and the properties compare the two.

Which conditions hold is a free choice of the execution, and so is whether a
call raises. Functions are void, and have one label for `goto`, whose jumps are
legal C++: not past a declaration, not into a try block or a handler. Not
modelled: temporaries of expressions, declarations as the body of a statement or directly in a switch,
case labels in inner blocks. `catch (...)` does what `catch (T)` does.

Four constants of form single out what the compiler is known to get wrong
(section 5): with `nested` a jump may be in a block of its own, with `bare` the
body of a loop may be a statement that is not a block, with `trailing` the
function may end in a jump that `FunctionContext::finalize()` removes, with `far`
a `goto` may leave other objects than those of its own scope, or none where it is
not the first of a label that follows in that scope.

### 2.3 Breakpoints

`code` is the function; an instruction is itself, a HALT with the id of a
breakpoint, or garbage. `lines` is the line map of the present compilation,
`bkpt` the table, `ip` and `resume` the program. `freed` says that the code a
breakpoint points to was freed, `arrived` and `hit` are history. Actions:
`Toggle` (#b, #gt), `RemoveAll`, `Group` (#bs), `Recompile`, `Call`, `Resume`
at the prompt; `Step` and `Halt` in the engine. `Flow` gives the successors of
each instruction, return being 0; what other functions do while this one waits
does not touch its code. Where the code runs into undefined behaviour (id past
the table, freed code, garbage executed), `wild` is set and nothing more
happens.

### 2.4 Shell session and launcher

`ShellSession` has four variables: `up`, and the histories `asked`, `ran` and
`answers`. A command runs at most once, in order, while it waits; it is
answered with its own status only if it ran, and with something else only if
the shell has ended. `PosixShell` and `WinShell` implement it with
`up <- SessionUp`, which is read off the handle and the process.

`PosixShell`: `stdin` and `fd3` are the pipes; `keepIn` and `keepFd3` the
processes besides the two parties that hold an end of them; `handle` is
`venv_shell`, `call` the call venv is in, `at` where in it, `sh` the shell.
venv's side is one action per blocking step: `Write` (`write_all()`),
`ReadStatus`, `ReadDump`, `Reap`. The shell's side is external and free: it
executes or fails to, reads a line when it likes (`ReadLine`), and a command may
exit, swallow the next line, leave a process behind, or the shell may be killed
at any moment. Lines and tokens stand for bytes; a newline on descriptor 3 is a
token of its own since a read can end before it. A pipe is a sequence with a
capacity on the way in; what comes back is short and never fills one. The
statuses of commands are numbers that no failure has.

`Launcher` adds the calls of a configuration, each with its early returns
(`StartShell`, `CommandInShell`, `Standalone`, `EditEnv`, `EditEnvInShell`,
`Snapshot`, `ExecAppCommands`, ...), the return of the spawner into the bridge
(`CommandReturns`, `DumpReturns`, `CloseReturns`), the loading of sources and
the end of `main()`. The environment is one variable whose value is a sequence
of fragments, so that setting, prepending and appending differ and commute as
they do in the code. A configuration is any sequence of calls.

`WinShell` replaces the second pipe by markers in the output, cut into tokens:
the marker is two tokens, each digit of a status is one, lines end in `cr` `nl`.
The statuses of commands have two digits, so that they come in pieces too.
`FindStatus`, `LastNewline` and `MarkerLineEnd` are the filters; `term` is what
venv forwards to the terminal; `wrote` is what the commands printed, whose
comparison with `term` is the property. A shell that is not `cmd.exe` may echo
its input.

### 2.5 Preprocessor and Session

`frames`, `skip`, `sstack`, `defined` are the token stream: `m_skip` and the
stack it is saved on are shared by all open files, and each file notes the
depth it found. A text is a sequence of lines that are directives, declarations,
global objects, `using` directives or errors. `Session` adds `modules` (time,
flags, dependencies, macros), the hooks (`openHook`, `pending`), the mode
(`isCpp`, `strict`, `using`, `saved`), the program (`code`, `moduleOdl`,
`globalOdl`, `entries`) and the `disk`, whose files the user saves between any two
lines. `Load` is #l and #lc, with `needs_rebuilding()` as `Visits`;
`CloseFile` and `SyntaxError` close files and fire the hook as
`BackAtConsole`; `Run`, `MainReturns`, `Resume` and `Quit` are the program.
`compiled`, `cut` and `load` are history. `m_visited`, which the constructor of
`Module` leaves uninitialised, is a free choice.

### 2.6 StackMachine and Optimizer

`Optimizer` compiles every function of a fragment of the language, one
reduction per action, from a list of `goals`; the five passes follow as actions
on the finished code, each folding its reduction over the positions. `source` is
the same function without the optimizer and without inlining, and the
properties run both on `StackMachine`. A `VMInt` has `IntBits` bits and a
stack word twice as many, as 32 and 64 do; the data segment is a sequence of
`VMInt`, and what lies behind its last cell is a free choice (`Heap`), since the
folding of constants reads a whole word there. `starts` are the instructions a
breakpoint may be set at.

The optimizer does things that cannot be right, and `blame` names those that
happened to a function: a jump leads into a reduced sequence (`label`), an
operand is a variable (`memory`), a result does not fit a `VMInt` or an operator
looks at the half of a word that was not pushed (`width`), a callee with a frame
of its own was inlined (`inline`). The properties are claims about the rest; each
of the four is needed (section 5).

## 3. What TLC checks

Deadlock is checked in `session`. The others come to rest on purpose: the
prompt is idle and `MaxActs` is used up, the function has returned, undefined
behaviour was met, the launcher waits for a shell that waits for it.

| Run | Instance | Shows |
|---|---|---|
| `engine_throw` | main -> f -> g, objects in all three, two types and the native exception of failed checks, two handlers, a rethrow | exceptions destroy the objects of the scopes they leave, in order and once (`OdsMatchesScopes`), are offered to the innermost handler that is open, and to none only if there is none (`InnermostFirst`), land in its own activation (`CatchLandsHome`), frames nest (`FramesNest`), and the prompt is left clean (`CleanPrompt`) |
| `engine_debug` | main -> f with a breakpoint, methods with an object stack; statements evaluated and frames selected while halted | resuming continues exactly what was halted (`ResumeExact`), with the flags of its own argument block although statements came between (`FlagsKept`), and stacks are as they were afterwards (`StackRestored`, `OdsMatchesScopes`) |
| `engine_native` | interpreted code under a native function under interpreted code, twice; failing checks and traps | callbacks are invisible to the code that made the native call (`NativeCallTransparent`), a resumed `execute()` keeps its flags (`FlagsKept`) |
| `engine_limits` | unbounded recursion, direct and through native callbacks; 5 frames, 17 words, trace-back of 2; a destructor that throws, overflows the stacks and calls an undefined function | overflow of either stack, while unwinding too, is reported and leads back to a clean prompt (`RaiseIsCaught`, `CleanPrompt`); an unwinding goes on with the frames it had, or with none after a report (`UnwindTransparent`); with `FairSpec`, `ConsoleReturns` |
| `scopes_all` | every function of 5 statements of any kind but calls, and any form but `far` | however wrong the other jumps: no object in scope is destroyed (`LiveNotDestroyed`), every compiler stack is balanced and every jump patched (`LeavesNothingOpen`) |
| `scopes_strict` | every function of 5 statements, `Forms = {}` | on every path the object destructor stack is what the source's scopes say (`OdsIsScoped`), every jump leads where the source says (`JumpsLeadHome`), into the code (`StaysInCode`), and a handler belongs to a try block that is open (`CatchIsEnclosing`) |
| `breakpoints_spread` | 8 instructions with two loops, 4 lines in 2 compilations, 3 breakpoints | no instruction is lost (`CodeIntact`), every arrival at a breakpoint halts (`BreaksWhereSet`), resuming gets past it (`HaltsOnce`) |
| `launcher` | every configuration of 4 calls; commands that exit, are killed, swallow input or leave a process behind | the pipes, the probe and the reaping implement `ShellSession` (`SessionKept`), a snapshot is what the shell's environment is at that moment (`SnapshotIsLive`), every call returns (`CallsReturn`) |
| `winshell` | 3 calls, the same commands and those that print, leave a line open, turn echo on; output in pieces of any size up to 4 tokens | the filters implement `ShellSession` (`SessionKept`), hide nothing that commands print and show nothing else (`OutputShown`), find the environment (`DumpIsLive`); `CallsReturn` |
| `session` | a program with a header and a nested header, texts with swapped and missing conditionals and an error; 3 commands, 2 edits | a command gives back a prompt that listens (`PromptListens`), what #l says is loaded is what is on disk (`LoadIsCurrent`), objects are constructed and destroyed once (`ObjectsOnce`), a program leaves the user's namespaces alone (`UsingsKept`) |
| `optimizer` | all functions of three fragments: constant expressions with jumps; variables and inlined calls; loops, `goto`, chains of jumps | a function means what it meant (`SameMeaning`), and comes by its statements as before (`StopsKept`), at -O3, which takes every pass in turn |

The run that expects a violation, `optimizer_literals`, is in section 5.

Bounds. `MaxFrames`, `MaxStack`, `MaxTrace` and `MAX_BREAKPOINTS` are the
capacities of the code (8000 frames, 100000 words, 50 lines, 20 ids) made small
enough to be reached; except in `engine_limits` the stacks are never full.
`MaxActs` bounds the activations ever begun, destructors included: `engine_throw`
needs 7 for the longest path of its program, and whatever a shorter one leaves
behind meets a second statement. `engine_limits` needs 8 to fill the function
stack, unwind, fill it again from a destructor, and see the unwinding go on; it
reaches a callback at a full stack, an exception out of a destructor in an
unwinding in an unwinding, and a report that resets the stacks under one. Five statements in `Scopes` are what it takes
to have an object in a loop in a try block with a jump under a condition. Three
breakpoints are one more than the interaction of two; the model of the function
has a jump back to before each breakpoint and one out of it.

`Capacity` is smaller than what one call writes, so that both parties block on
it; `Chunk` is smaller than a dump. Four calls of a configuration are: start
a shell, two that interfere, and one that notices; `WinShell` does it in three
since its shell needs no snapshot to compare. `MaxEnv = 2` fragments tell
prepending from appending. Three commands of a `Session` are two loads and what
comes after; two edits change a file and a file it includes. Three bits make a
`VMInt` with which sums and products overflow, a quotient is negative, and
comparisons see the high half; nine instructions are a loop around a condition
around a jump, which is the shortest that has chains of jumps; the passes
before the last of -O3 leave what -O1 and -O2 leave, and are checked as well.

Fairness. `FairSpec` of `Engine`: weak fairness of the actions of the
interpreter, which is one thread that never waits. The user at the prompt
owes nothing. `ConsoleReturns` is not promised to programs that loop: the
bound on activations ends the recursion, and loops within a function are not in
the model. `FairSpec` of `Launcher` and `WinShell`: venv is one thread and runs
until it waits; the shell is a process of the operating system that runs as
long as it has input to read or output to write; a child that venv waits for
ends. A process left behind owes nothing, nor does the user. `CallsReturn`
excuses the two cases in which venv rightly waits: a command read the probe as
its own input, and a process left behind holds an end of a pipe. Nothing is
excused that ends: both are lifted when the process does.

## 4. What is proved

All of it for every value of the constants, from the assumptions named in the
modules (`FunAssumption`, `ProgramAssumption`, `UndefinedAssumption`, `BoundAssumption`; `KindsAssumption`;
`CodeAssumption`, `FlowAssumption`, `LineAssumption`, `TableAssumption`,
`UserAssumption`; `ProgramsAssumption`, `TextsAssumption`; `CapacityAssumption`,
`ChunkAssumption`; `CallsAssumption`, `ValuesAssumption`), which say what kind of thing a program, a function or a
table is and nothing about what it does.

`EngineProofs`. `TypeCorrect` and `RaisesAreCaught`, for every program,
undefined behaviour included. The invariant is
`TypeOK /\ NatShape /\ RaiseIsCaught`. `NatShape` is the
shape of the native stack: every `do_unwind()` was called by an `execute()`. It
is what makes `RaiseIsCaught` inductive: when a destructor's `execute()` ends,
the `do_unwind()` that goes on is not at the bottom of anything.

Its second part is about exceptions. What they do depends on the program: section 5 has
programs that are thrown into the wrong activation. The theorems are about the
programs that are `WellBehaved(rank)`:

- `NoHandlerRecurs`: `rank` falls wherever a function with a try block is called,
  so that none is active twice. Other functions may recur;
- `PlainDestructor`: the shared destructor only returns. `LocalsHaveRoom`:
  objects and markers lie in the locals of their function, where the compiler
  puts them;
- no breakpoint, no native function that calls back, no function that is called
  and not defined; the immediate code takes no arguments.

Throwing, throwing on, catching, failing checks, traps and exceptions that
nobody catches are free. The program of `engine_throw` is one of these: ranks
that fall along its calls are 3, 2, 1, 0. Two hypotheses are about the run: `[]Roomy`, neither
stack is full (what happens then is `engine_limits`'s question), and
`[]FlagsKept`, without which an `execute()` that resumed itself may drop a word
from the stack that it never got. `FlagsAreKept` discharges the second for a
console that only runs programs, or only evaluates statements; section 5 shows
that it is false when it does both. `FlagsAreKeptUncaught` does for programs
that catch no native exception.

- `StatementsHavePhases` is the invariant, `Sound`. A state is one of seven
  phases: `AtPrompt`; a function runs (`InFunction`); a native exception is in
  flight (`InRaise`); `do_unwind()` pops records (`InUnwind`), one of its
  destructors runs (`InDestructor`) or is done (`DestructorDone`); the statement is
  done (`AtEnd`). Returns, crashes and catch blocks are steps from phase to phase.
- `Nested`: the callers and what runs, one above the other on the execution
  stack with their locals apart, under one false bottom. It must say this of
  all pairs, since a catch drops any number of frames at once.
- `Owned`, `Kept`: every entry of the ODS is for an open scope of one of them,
  in the order of their addresses, and every open scope has one. Addresses are
  what `do_unwind()` compares, so that what it leaves alone is what lies below.
- `Target`: what an unwinding is to stop at is still on the ODS, or was popped
  last, and everything below it is there. `KeptBelow` is `Kept` for a stack that
  is only half unwound.
- With these, `CatchLands` shows that the frame at which `throw_exception()` stops
  is the one whose marker was found: `HandlerOnce` leaves no other.

From it follow `ObjectsMatchScopes`, `PromptIsClean`, `FramesAreNested`,
`CatchesLandHome` and `InnermostIsFirst`. The last is about what a function
throws, what a catch block throws on, and what checks and traps throw. An
exception that nobody catches empties the ODS before it becomes a native one:
the handlers of that are then no longer there, and the property does not count it.

Its third part is `UnwindingIsTransparent`, and it is about the destructors that
the second excludes: those that throw, crash, overflow either stack, recur, call
back, or are not defined. The program may be any one without breakpoints, and
the stacks of any size; of the run only `[]FlagsKept` is assumed, since an
`execute()` that lost its flags pops frames it did not push.
`UncaughtUnwindingIsTransparent` does without it for programs that catch no
native exception. The invariant, `Floors`, gives every native activation a floor, the
number of frames that were there when it was called:

- `Rising`: floors rise from the outermost activation to the innermost, and the
  frames end at or above the last;
- `Standing`: between the floor of an `execute()` and what it called lie its false
  bottom, after one more frame if it was called from outside, and then callers
  only. So a catch that drops frames meets the false bottom before the floor;
- `Lost`: after a report has reset the stacks, every floor is 0. An `execute()` that
  runs on has no false bottom any more, only callers, if any;
- `UnwindsOver`: a `do_unwind()` stands on the frames it began with, or on none.

A destructor's `execute()` that returns leaves the stack at its floor, however it
ended; that floor is the `do_unwind()`'s.

The proof corrected `FramesNest`: the false bottom that the console pushes has
the base pointer of whatever ran before, which after a trace-back of more than
`MaxTrace` lines is one of the frames that were given up. The property is about
the frames of functions.

`BreakpointsProofs`. `TypeCorrect` holds whatever the user does; its invariant
adds that a paused breakpoint is not at the first instruction and one that is
not paused not at the last, so that moving the HALT by one stays in the code.
`CodeKept`, `BreaksKept` and `HaltsOnceEach` are proved under `Disciplined`:

- `Spaced`: the lines begin at instructions at least two apart;
- `Straight`: the instruction a line begins at goes on to the next one;
- `~Nested`, `~Moves`: the function is not called while a program is halted in
  it, and #bs keeps breakpoints of present code where they are.

Each of these is needed: section 5 has what the code does without it. The
invariant `IInv` says of each breakpoint of the present code where its HALT is
and that it has saved the instruction of that place (`InPlace`), that no two
have the same line (`Apart`), that every place without its own instruction
belongs to one of them (`Owned`), and where a program is while a breakpoint is
paused: halted at its place, resumed there, or arrived at the next instruction
(`PausedHere`, `HitPaused`). `Separate` derives from it that HALTs never meet;
then one lemma per action. TLC checks `IInv` on the instance of
`breakpoints_spread`, which satisfies `Disciplined`, as well.

`ScopesProofs`, with `ScopesLemmas`. `TypeCorrect`, `NothingLeftOpen`,
`CodeIsNotLeft` (`StaysInCode`) and `JumpsGoHome` (`JumpsLeadHome`), for functions
of any size, nesting and number of objects, all statements and all forms
(`KindsAssumption`, `BoundAssumption`); `CodeIsNotLeft` for
`"trailing" \notin Forms`, since section 5 has a function that is left past its
end, and `JumpsGoHome` for `"bare" \notin Forms`, since it has one whose `break`
leaves the wrong loop. `Inv` has a half for the compiler and one for the execution.

- `CodeOK(c, X)` holds after every operator of the compiler. `Linked`: a jump
  without a target is noted in the references of a label that is still to be
  put. `Held`: such a label is held by somebody who will put it: a stack, the
  function, the gotos, or the action in progress (`X`). `RefsClean`: what a
  label refers to are jumps. `Within`: nothing leads further than the next
  instruction. `Switched`: a SWITCH and its table are where switches are noted.
- `Standing` is why the stacks are right although nobody checks them. The
  grammar alone decides who pops what: `if` pops `label_stack`, a loop three
  stacks, a block five, a try block all of these in another order. A tower of
  heights, one step for each open statement, says what part of each of seven
  stacks is whose; at the closing brace only the function's own part is left.
- `Apart`, `Handlers`: the labels of a try block are nobody else's, and the jump
  before `EndTry` that is taken out again has a reference to take back. `GotoOK`:
  the label for `goto` is known to the function until it is put.
- `Finished` is what `EndFunction` makes of it: every jump and switch is set, all
  stacks are empty, and what leads to an instruction leads into the code.
- `RunInv`: `Finished` stays, `ip` is in the code, and the ODS holds objects
  of the function within its capacity.

The taking out of a last jump is where this is delicate: an instruction goes
away to which labels may point. It happens at the end of a try block, where the
grammar has put nothing between, and at the end of the function, where an `if`
may have; the second is where `"trailing"` comes in.

`JumpsGoHome` says which label it is that a jump was given, which no stack records:
they hold numbers. The invariant `Leading` supplies what they leave out: there
are purposes `P` and places `E` such that

- `Homing`: every `break` and `continue` has the place of its goal for a target,
  or waits for labels of that goal only. A goal is the end of a loop or switch,
  or of the block that is a loop's statement; `E` has the place of each
  that is behind the compiler, and it is the one the history notes (`Tied`).
- `AtHome`: in the tower, the part of `break_stack` and `continue_stack` that
  is a statement's holds labels whose purpose is that statement's goals. A loop
  has none of its own: `init_block()` makes them when its block opens, and this is
  where `"bare"` comes in, for then the labels on top are those of a loop around it.
- `Order`: statements are numbered in the order they were begun, so that the one
  begun last is the innermost (`LatestIs`), and no goal of an open one is behind the
  compiler; a loop's body ends before the loop does.
- `Nowhere`, `LastJump`: the labels of the function, of the gotos and of the try
  blocks are no goals, so that a jump that is taken out is neither `break` nor
  `continue`, and the labels that are put a place earlier for its sake are not theirs.
  A try block's label is dead when the block has ended (`Buried`): nobody puts it
  again, and it still refers to the place of the jump that was taken out, where
  another instruction now may stand.

Each action is shown to move from one `P` and `E` to the next: a statement that
opens gives new labels their purpose, one that ends gives goals their place.
At the closing brace every jump has a target (`Finished`), so that none waits
any more, and what is left of `Homing` is the property (`SettledLeads`).

`SessionProofs`. `PromptHeard`, `NamespacesKept` and `ObjectsBalance`, for any
files and texts (`ProgramsAssumption`: what is loaded is there;
`TextsAssumption`: texts are sequences of lines, and what they include is
there), sessions of any length, errors in any place, and files nested in any
way, themselves included. The invariant `IInv` has four ideas besides the
shape of the state:

- `SkipShape`: an empty skip stack means "not skipping", and the bottom of one
  that is not empty is "not skipping", to which an `#endif` returns. With
  `LoadNoted`, the level that the outermost file notes, the end of that file
  either finds the stack empty or is warned about.
- `HooksPaired`: whoever armed `module_open()`, or had it fire, is owed a call
  of `module_close()`; the hook is armed only at the console.
- `PutAside`: while a program that #l or #lc named is read, strict mode is on
  and what is put aside is what the command found.
- `ListShape`, `Balance`: the destructor list of a module is the reverse of the
  constructions in its code, so that both count the same (`MirrorsCount`), and
  what is alive is what the phase of the program says.

The proof showed that the prompt listens after a *command*, and no more: a file
that leaves levels open makes the user's own `#endif` bring skipping back, which
is why `PromptListens` speaks of the step that returns to the console.

`LauncherProofs`. `SessionImplemented`: `Launcher` implements `ShellSession`, for
pipes of any capacity, commands of every kind, any number of calls, sources
and `-ac` commands. It is a refinement: the initial state maps to the initial
state of a session, and every step to a step of a session or a stutter
(`Simulation`). What carries it is an invariant about both ends of the pipes:

- `CommandSent`: what was sent and has not been taken in, in the pipe or still
  to be written, is one of four: command and probe, before the command ran; the
  probe alone, after; nothing, with the status in descriptor 3; nothing, the
  probe having been swallowed. So a command runs at most once, and the status
  that is read is that of the command that waits.
- `DumpSent`: the same for a dump; the closing marker is the last line but its
  newline, and venv has not read it.
- `Resting`: between calls both pipes are empty. This is what a call may rely on
  and what the one before must leave behind, and it needs the hypothesis
  `WholeLines`: `Chunk` is even. Lines of a dump are two tokens, one of them the
  newline, so that no read parts a marker from its newline; an odd `Chunk` may do
  without harm, but need not: section 5 has the run that
  shows it (`Chunk = 3`).
- `Dying`: a shell that has ended by itself could not be executed, was killed, or
  ran the command that waits; so an answer that is not the command's own status
  comes from an ended shell.

`SnapshotsAreLive`, on top of it: a snapshot, or a comparison, that goes through a
shell sees the shell's variables of that moment, and the table of the configuration
exactly without a shell or when it has ended. What venv has read of a dump and what
waits in descriptor 3 (`Told`) is the beginning of the one text the three lines make
the shell say, as far as the lines that are left tell (`Listing`); no read loses any
of it (`Parts`), so wherever the one that brings the closing marker is cut,
what stands between the markers is the variable (`DumpedText`). A call that got no
dump has reaped the shell before it returns (`Failing`, `Taken`); that is why falling
back to the table is right.

`WinShellProofs`. `SessionImplemented`: `WinShell` implements `ShellSession` too.
`OutputIsShown` and `DumpsAreLive`: what the filters let through is what the
commands printed, and what they keep of a dump is the variable. For commands of
every kind (whatever `Kinds` is), any number of calls, a pipe of any capacity,
and however the output is cut. There is no hypothesis about the run. Everything
rests on one sequence, `Stream`: what is pending in venv, what is in the pipe and
what the shell is still to write, which a step of either side only moves along.

- `Lines`: as in `CommandSent`, the lines that have not been read are the rest of
  those of the call under way. A shell that swallows has the probe before it.
- `Streams`: while a status is awaited the stream is `Quiet` (no digits, no
  `BEGIN`), or quiet up to a place from which it spells the status of the last
  command (`StatusAfter`), completely if the shell lives. During a dump it is quiet
  and then spells `Block` (`DumpAfter`), or it is the rest of the block (`InDump`);
  how far it has come is read off the lines that are left (`Said`). With echo on
  the block contains the lines the shell repeats, markers included.
- `StatusPlace`, `StatusFound`, `StatusComplete` and `StatusValue` are what
  `shell_find_status()` then does: there is one place at which it can stop, it does
  when the line is complete and not before, and reads the number that was
  written. `StatusPending`: until then the lines that are forwarded come before
  it. `BlockBegins`, `BlockEnds` and `BlockGoesOn` are the same for
  `shell_marker_line_end()`.
- `Showing`: what is shown and what is in the stream, without the part that is a
  status or a block, is what the commands printed.
- `Ended`: as `Dying`.

The output is assumed to hold no number after a marker but the status:
what commands print are tokens that are neither. The proof made `OutputShown`
stronger than it was: everything has reached the terminal before the next call
also when the shell has ended.

Only model-checked: liveness; what halting and calling back do in `Engine`
(`ResumeExact`, `NativeCallTransparent`, and `StackRestored`), which
is false of some programs (section 5) and would be proved under restrictions of
its own;
`LoadIsCurrent`, which rests on `Visits`, a closure computed by recursion;
`OdsIsScoped`, `LiveNotDestroyed` and `CatchIsEnclosing` of `Scopes`, which compare
what the code does with what the source says along every path through it, and
are false of some forms of it (section 5); all of `Optimizer`.

## 5. Where the code and its own statements disagree

One run expects a violation: `optimizer_literals`, `FoldingIsExact`. At -O2 the
comparison of two literals is folded with 64 bits of the data segment where
PUSHI takes 32, so that `1 == 1` is decided by whatever lies behind the literals
(`src/bytecode_optimizer.cpp`, `integer_constant()`); `cli/README.md:167` calls
it integer constant folding.

The same models show the following with other constants, from the configuration
named; there is no run of their own for them.

Engine and native interface:

| To see it | Property | What happens |
|---|---|---|
| `engine_throw` with `Calls <- RecurseCalls`, `Objects <- None`, `Handles <- RecurseHandles`, `Throws <- RecurseThrows`, `Rethrows = Checks = {}`, `MaxActs = 5` | `CatchLandsHome` | `throw_exception()` drops frames until the *function* of the handler is on top. If that function is active twice, its catch block runs in the wrong activation, on the wrong locals |
| `engine_native` with `NatArgs <- OddNatArgs`, `Objects <- None`, `Handles <- None`, `Checks = Traps = {}`, `MaxActs = 5` | `NativeCallTransparent` | `nargs` of `start_exec()` is static: after a callback that calls a native function with another number of arguments, the wrong number of words is dropped |
| `engine_throw`, invariant `FlagsKept` | `FlagsKept` | `m_xargs` is only written by calls with arguments: a statement that resumes in a catch block takes the flags of an earlier program run |
| `engine_throw` with `Calls <- TrapCalls`, `Objects <- TrapObjects`, `Handles <- TrapHandles`, `Throws <- None`, `Checks = {}`, `Traps = {main}` | `TrapsAreRaised` | a trap after a destructor ran jumps to an `execute()` that has returned; a second trap finds its signal blocked |
| `engine_throw` with `Handles <- None`, `Objects <- None` | `StackRestored` | after a crash report the execution stack keeps the frames of the crashed program: `reset_stacks()` finds the function stack empty and does nothing |
| `engine_debug` with `Statements = {main}`, `MaxActs = 4` | `StackRestored` | a statement that halted and was resumed leaves the stack as high as it was at the breakpoint |
| `engine_native` with `Breaks = {f}` | `HaltStops` | a breakpoint in a callback: `stub_execute()` answers OK for HALTED in the main thread (`src/engine.cpp:1589`), and the native caller runs on while the prompt has the program for halted |
| `engine_throw` with `Breaks = {dtor}` | `HaltStops` | a breakpoint in a destructor: `do_unwind()` looks for CRASHED only, and unwinds on |

Compiler and breakpoints:

| To see it | Property | What happens |
|---|---|---|
| `scopes_strict` with `Kinds = {"object", "block", "if", "while", "return"}`, `Forms = {"nested"}`, `MaxStatements = MaxNesting = 6` | `OdsIsScoped` | `{ A b; if (c) return; }` does not destroy `b` when `c` is false: the `return` cleared the scope's first object |
| the same with "break" for "return" | `OdsIsScoped` | a `break` in a block of its own unwinds nothing of the loop's block |
| the same with "continue" | `OdsIsScoped` | a `continue` in a nested scope skips that scope's UNWIND |
| `scopes_strict` with `Kinds = {"call", "if", "switch", "break", "return"}`, `Forms = {"trailing"}`, `MaxObjects = 1` | `StaysInCode` | `void f(int c) { if (c) return; }`: taking the last jump out leaves the label of the `if` one instruction too far, past RET |
| `Kinds = {"block", "if", "while", "break"}`, `Forms = {"nested", "bare"}` | `JumpsLeadHome` | the body of a loop is not a block: `break` leaves an enclosing loop, or only the `if` it is in |
| `Kinds = {"call", "if", "try", "return"}`, `Forms = {"nested"}` | `CatchIsEnclosing` | a `return` in a try block leaves its handler in force on the path that goes on |
| `Kinds = {"object", "if", "goto", "label"}`, `Forms = {"far"}`, `MaxStatements = 4` | `OdsIsScoped`, `LiveNotDestroyed` | `A a; L: f(); if (c) goto L;` destroys `a`, which is still in scope: the context of a label that comes first is never noted, so that do_goto() takes it to be elsewhere; `src/common.cpp:906` says that it unwinds "only ... if the actual label was outside our context". Of two jumps forward in one scope only the first has its UNWIND taken back, and a jump out of two scopes unwinds the inner one |
| `breakpoints_spread` with `LineMaps <- Shared` | `CodeIntact` | two lines with the same first instruction: the second breakpoint saves nothing, and deleting it writes what it did not save |
| `breakpoints_spread` with `Nested = TRUE` | `BreaksWhereSet` | calling the function while it is halted uses up the HALT that was to set the breakpoint again |
| `breakpoints_spread` with `Moves = TRUE` | `CodeIntact` | #bs moves a breakpoint and leaves its HALT where it was |
| lines at successive instructions | `CodeIntact`, `BreaksWhereSet` | a paused breakpoint's HALT is saved, or overwritten, by its neighbour |

Optimizer; drop the member of `blame` from the definition named and run
`optimizer`:

| Without | Property | What happens |
|---|---|---|
| `label` (`Doubts`) | `SameMeaning` | `(x ? 1 : 2) + 3` is 1 when `x` is true: the jump from the first branch lands behind the folded sum (`HISTORY.md:803` promises that branches are preserved) |
| `memory` (`Doubts`) | `SameMeaning` | a global `int` is folded with the value it has when the function is compiled |
| `width` (`Width`) | `SameMeaning` | `(2147483647 + 1) / 2`: a result wider than a `VMInt` is cut where the engine would have kept it; and the case of `optimizer_literals` |
| `inline` (`EmitInstruction`) | `SameMeaning` | `int id(int v) { return v; }`, inlined, reads the caller's frame and leaves its argument on the stack; `void f() {}`, inlined, returns from the caller; `src/code.cpp:353` says that single-instruction functions can be safely inlined |
| the restriction of `starts` (`Statement`) | `StopsKept` | a statement that is one jump is jumped over by threading, and its breakpoint is never hit |

Session and launcher:

| To see it | Property | What happens |
|---|---|---|
| `session`, invariant `HeaderIsCurrent` | `HeaderIsCurrent` | a header that a program used to include and no longer does is visited with the program's dependencies, and its time noted, without being read; #l of the header then answers that it is unchanged |
| `session`, `UsingsKept` without `load.file \in Programs` | `UsingsKept` | a namespace that was put aside for an earlier program is put back after a header, and what the user did since is lost |
| `session`, invariant `HaltedKeepsObjects` | `HaltedKeepsObjects` | a program halted in `main()` has its global objects destroyed at once, and goes on without them when it is resumed |
| `session`, `PromptListens` without `load.depth = 0` | `PromptListens` | `close()` ends skipping and leaves the levels on the stack: a file with `#endif` and `#ifdef` in the wrong order, loaded twice, makes the prompt deaf |
| `session`, `LoadIsCurrent` without `cut` | `LoadIsCurrent` | a file with an error is not read again until it is saved |
| `launcher` with `Kinds = {"plain"}`, `Chunk = 3`, `Fragments = {f}`, `Sources = AppCommands = 0`, `MaxCalls = 3`, `MaxEnv = 1` | `SessionKept` | a dump whose last newline does not fit the read leaves it in the channel, and the next command is answered with 0 (`venv/src/process_spawner.c:587`; `process_spawner.h:61` promises the command's own status) |

The scope, breakpoint and optimizer cases agree with what the interpreter does
when such programs are run.

## 6. Not modelled

`PROJECT.json` lists every component with its status. Left out for good are the
generated parser, the Win32 GUI, the run-time library that interpreted
programs call, and what is only text (messages, listings, the disassembler).
Left out of the modules above: types of expressions and values that are not
`int`; vector construction, single stepping and tracing in the engine; failing
or halting statements at the prompt of a halted program; temporaries in the
compiler; expansion of macros, anonymous namespaces and
typedefs in a session; initialisers that fail; the resolution of prefixes and
paths, quoting and Windows job objects in the launcher. What is in neither list
is in the plan.

## 7. Plan

Done: `Engine`, `Scopes`, `Breakpoints`, `Optimizer`, `Preprocessor` with
`Session` (program lists and modules), `ShellSession` with both shells and the
launcher. Next, in the order of what matters most to the system:

1. `Engine`: what halts inside callbacks and destructors, and statements that fail
   while a program is halted, leave of it; vectors of objects; theorems for
   programs that halt, and for callbacks.
2. `Scopes`: temporaries; a theorem that an UNWIND counts the TOSDs of its scope
   (`OdsIsScoped`) for functions without jumps.
3. `FunctionMatch` and `Classes`: overload resolution
   (`src/function_match.cpp`) and virtual tables (`src/class.cpp`), pure
   algorithms against reference definitions.
4. `ProgramThread`: start, pause, release and stop with the Windows events of
   `src/threads.cpp`; a start event that is lost, deadlock.
5. `Embedding`: handles and error state of `src/dll_entry.cpp` and
   `src/ucri.cpp`; `Heap`: the table of allocations of `src/directcall.cpp`.
