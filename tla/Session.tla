------------------------------ MODULE Session ------------------------------
(***************************************************************************)
(* A session of the console interpreter: the commands that load files      *)
(* (#l, #lc, #bl, #include), the modules they keep up to date, the         *)
(* namespaces they save, and the program they build and run.               *)
(*                                                                         *)
(* module_open() and module_close() are hooks of the token stream          *)
(* (uc_tokens.cpp): #l arms them, the first file opened after that fires   *)
(* the one, and the next return to the console fires the other.            *)
(***************************************************************************)
EXTENDS Preprocessor, FiniteSets

CONSTANTS
    Files,        \* the files on disk; their names without path and
                  \*   extension differ
    Programs,     \* those among them with extension .c, .cpp or .cxx
    Texts,        \* Texts[f]: the texts f may have
    Loadable,     \* the files the user names in #l and #lc
    Objects,      \* the global objects with a destructor
    Namespaces,   \* the namespaces a using directive names
    MaxCommands,  \* bound: commands typed in a session
    MaxEdits      \* bound: times a file is saved

ASSUME ProgramsAssumption == Programs \subseteq Files /\ Loadable \subseteq Files

(* A line of a text; the files it includes are there.                      *)
Line == {l \in STRING \X STRING : /\ l[1] = "include" => l[2] \in Files
                                  /\ l[1] = "object"  => l[2] \in Objects}

ASSUME TextsAssumption ==
    /\ CON \notin Files
    /\ \A f \in Files : Texts[f] \in Seq(Seq(Line)) /\ Texts[f] # <<>>

VARIABLES
    disk,        \* disk[f]: [time, text], text an index into Texts[f]
    modules,     \* mg_module_list as a function: name -> module
    openHook,    \* m_openfn is module_open
    pending,     \* armed calls of module_close (m_restore and s_restore_fn)
    isCpp,       \* s_is_cpp_source, and debug.compile_program with it
    strict,      \* debug.strict
    lastStrict,  \* s_last_strict_mode
    using,       \* the namespaces injected into the global one
    saved,       \* the InjectState that clean_namespaces() put aside; a trivial
                 \*   one, {}, is not kept (InjectState::clone() gives NULL)
    code,        \* objects constructed by the code emitted so far
    moduleOdl,   \* s_module_odl, which is NULL just when isCpp does not hold
    globalOdl,   \* s_global_odl
    entries,     \* s_module_list: [file, code, odl]
    alive,       \* alive[o]: constructions of o less destructions
    phase,       \* "idle", "main", "halted", "resumed" or "over"
    commands, edits,     \* what MaxCommands and MaxEdits count
    compiled,    \* history: compiled[f] is the time of the text whose
                 \*   declarations were compiled last
    cut,         \* history: files whose reading was cut short, and whose
                 \*   declarations have not been compiled since
    load         \* history: the last file command, and what it found:
                 \*   [kind, file, disk, using, depth of the skip stack,
                 \*   dependencies of the file]

loaderVars  == <<modules, openHook, pending>>
modeVars    == <<isCpp, strict, lastStrict, using, saved>>
programVars == <<code, moduleOdl, globalOdl, entries, alive>>
historyVars == <<compiled, cut, load>>
countVars   == <<disk, commands, edits>>
vars == <<ppVars, loaderVars, modeVars, programVars, phase, countVars, historyVars>>

Init ==
    /\ PPInit
    /\ disk = [f \in Files |-> [time |-> 1, text |-> 1]]
    /\ modules = <<>>
    /\ openHook = FALSE /\ pending = 0
    /\ isCpp = FALSE /\ strict = FALSE /\ lastStrict = FALSE
    /\ using = {} /\ saved = {}
    /\ code = <<>> /\ moduleOdl = <<>> /\ globalOdl = <<>> /\ entries = <<>>
    /\ alive = [o \in Objects |-> 0]
    /\ phase = "idle"
    /\ commands = 0 /\ edits = 0
    /\ compiled = [f \in Files |-> 0] /\ cut = {}
    /\ load = [kind |-> "none", file |-> CON, disk |-> disk, using |-> {}, depth |-> 0,
               deps |-> {}]

Text(f) == Texts[f][disk[f].text]

---------------------------------------------------------------------------
(* Modules (breakpoints.cpp).                                              *)

(* Module::create(): the time is the file's; m_visited is not initialised. *)
NewModule(f, visited) ==
    [time |-> disk[f].time, modified |-> FALSE, visited |-> visited,
     deps |-> {}, macros |-> {}]

Dropped(mods, fs) == UNION {mods[f].macros : f \in fs \cap DOMAIN mods}

(* clean_macros_and_typedefs() of the modules fs, macros only.             *)
Cleaned(mods, fs) ==
    [f \in DOMAIN mods |-> IF f \in fs THEN [mods[f] EXCEPT !.macros = {}]
                           ELSE mods[f]]

(* reset_modify_flags().                                                   *)
FlagsReset(mods) ==
    [f \in DOMAIN mods |-> [mods[f] EXCEPT !.modified = FALSE, !.visited = FALSE]]

(* The modules that needs_rebuilding() visits from f: it turns back at one *)
(* it has seen, and goes through all the dependencies of the others.       *)
Visits_StopsAtChanged(mods, f) ==
    LET Fresh(S) == {g \in S : ~mods[g].visited}
    IN  IF disk[f].time > mods[f].time THEN Fresh({f})
        ELSE Fresh({f} \cup mods[f].deps)
Visits(mods, f) ==
    LET Fresh(S) == {g \in S : ~mods[g].visited}
        reach[n \in Nat] ==
            IF n = 0 THEN Fresh({f})
            ELSE reach[n - 1] \cup Fresh(UNION {mods[g].deps : g \in reach[n - 1]})
    IN reach[Cardinality(DOMAIN mods)]

Newer(mods, f) == ~mods[f].modified /\ disk[f].time > mods[f].time

(* is_modified(), called on every module visited: its side effects are why *)
(* the dependencies are gone through even when the answer is known.        *)
Stale(mods, S) == {g \in S : Newer(mods, g)}

Visited(mods, S) ==
    [g \in DOMAIN mods |->
        IF g \notin S THEN mods[g]
        ELSE IF g \in Stale(mods, S)
        THEN [mods[g] EXCEPT !.visited = TRUE, !.modified = TRUE,
                             !.time = disk[g].time, !.macros = {}]
        ELSE [mods[g] EXCEPT !.visited = TRUE]]

Changed(mods, S) == \E g \in S : mods[g].modified \/ Newer(mods, g)

---------------------------------------------------------------------------
(* Opening and closing, with the hooks.                                    *)

(* module_open(): the file just opened sets the mode; clean_namespaces()   *)
(* empties the global namespace in strict mode only.                       *)
ModuleOpen(f) ==
    /\ isCpp' = (f \in Programs)
    /\ lastStrict' = strict
    /\ strict' = (f \in Programs)
    /\ saved' = IF strict' THEN using ELSE saved
    /\ using' = IF strict' THEN {} ELSE using
    /\ moduleOdl' = <<>>

(* open() of a file that is there: on_open() makes it the current module,  *)
(* and a dependency of the file it was opened from, and fires the hook.    *)
(* mods and defs are the modules and macros as the command left them.      *)
Open(stack, f, mods, defs, hook) ==
    \E visited \in BOOLEAN :
        LET from    == stack[Len(stack)].file
            added   == IF f \in DOMAIN mods THEN mods
                       ELSE [g \in DOMAIN mods \cup {f} |->
                                IF g = f THEN NewModule(f, visited) ELSE mods[g]]
            linked  == IF from = CON THEN added
                       ELSE [added EXCEPT ![from].deps = @ \cup {f}]
        IN  /\ f \in DOMAIN mods => visited    \* one successor, not two alike
            /\ frames' = Opened(stack, f, Text(f), disk[f].time)
            /\ openHook' = FALSE
            /\ IF hook
               THEN /\ ModuleOpen(f)
                    /\ modules' = Cleaned(linked, {f})
                    /\ defined' = defs \ Dropped(linked, {f})
               ELSE /\ modules' = linked
                    /\ defined' = defs
                    /\ UNCHANGED <<modeVars, moduleOdl>>

(* finish_module(): the init function of a file that is loaded again gets  *)
(* the new code, and its entry the new list; without code nothing changes. *)
Finished_KeepsList(f) ==
    LET at == {i \in DOMAIN entries : entries[i].file = f}
    IN  IF code = <<>> THEN entries
        ELSE IF at = {} THEN Append(entries, [file |-> f, code |-> code, odl |-> moduleOdl])
        ELSE [i \in DOMAIN entries |->
                IF i \in at THEN [entries[i] EXCEPT !.code = code] ELSE entries[i]]
Finished(f) ==
    LET at == {i \in DOMAIN entries : entries[i].file = f}
        entry == [file |-> f, code |-> code, odl |-> moduleOdl]
    IN  IF code = <<>> THEN entries
        ELSE IF at = {} THEN Append(entries, entry)
        ELSE [i \in DOMAIN entries |-> IF i \in at THEN entry ELSE entries[i]]

(* restore_namespaces(): what was put aside comes back, whatever this      *)
(* load did with the global namespace.                                     *)
Restored_NotCleaned == IF saved # {} THEN saved ELSE using
Restored == IF saved # {} THEN saved ELSE IF strict THEN {} ELSE using

(* on_restore() at the console: module_close(), if one is armed.           *)
(* program is the file module_open() was fired for.                        *)
BackAtConsole(program) ==
    IF pending = 0 THEN UNCHANGED <<pending, modeVars, code, moduleOdl, entries>>
    ELSE /\ pending' = pending - 1
         /\ IF isCpp
            THEN /\ entries' = Finished(program)
                 /\ code' = <<>>
                 /\ moduleOdl' = <<>>
            ELSE UNCHANGED <<entries, code, moduleOdl>>
         /\ isCpp' = FALSE
         /\ using' = Restored
         /\ strict' = lastStrict
         /\ UNCHANGED <<lastStrict, saved>>

(* The end of a file: close() and on_restore().                            *)
CloseFile ==
    /\ ~AtConsole
    /\ Top.rest = <<>>
    /\ frames' = Front
    /\ skip' = SkipClosed
    /\ cut' = IF Mismatched \/ skip # NO_SKIP THEN cut \cup OpenFiles ELSE cut
    /\ IF Len(frames) = 2 THEN BackAtConsole(Top.file)
       ELSE UNCHANGED <<pending, modeVars, code, moduleOdl, entries>>
    /\ UNCHANGED <<sstack, defined, modules, openHook, globalOdl, alive,
                   phase, countVars, compiled, load>>

(* A syntax error: Input::clear() closes every file.  The macros of the    *)
(* files it was included from are forgotten, its own are not.              *)
SyntaxError ==
    /\ Reading({"bad"})
    /\ skip = NO_SKIP
    /\ LET includers == {frames[i].file : i \in 2..Len(frames) - 1}
       IN  /\ modules' = Cleaned(modules, includers)
           /\ defined' = defined \ Dropped(modules, includers)
    /\ frames' = SubSeq(frames, 1, 1)
    /\ sstack' = <<>>
    /\ skip' = NO_SKIP
    /\ cut' = cut \cup OpenFiles
    /\ BackAtConsole(frames[2].file)
    /\ UNCHANGED <<openHook, globalOdl, alive, phase, countVars, compiled, load>>

---------------------------------------------------------------------------
(* The lines of a file that reach beyond the preprocessor.                 *)

Take(ops) == Reading(ops) /\ skip = NO_SKIP

Include ==
    /\ Take({"include"})
    /\ Open(Taken, Arg, modules, defined, openHook)
    /\ UNCHANGED <<skip, sstack, pending, code, globalOdl, entries, alive,
                   phase, countVars, historyVars>>

(* #define: on_add_macro() credits the macro to the current module.        *)
Define ==
    /\ Take({"define"})
    /\ defined' = defined \cup {Arg}
    /\ modules' = [modules EXCEPT ![Top.file].macros = @ \cup {Arg}]
    /\ frames' = Taken
    /\ UNCHANGED <<skip, sstack, openHook, pending, modeVars, programVars,
                   phase, countVars, historyVars>>

Declaration ==
    /\ Take({"decl"})
    /\ compiled' = [compiled EXCEPT ![Top.file] = Top.time]
    /\ cut' = cut \ {Top.file}
    /\ frames' = Taken
    /\ UNCHANGED <<skip, sstack, defined, loaderVars, modeVars, programVars,
                   phase, countVars, load>>

UsingDirective ==
    /\ Take({"using"})
    /\ using' = using \cup {Arg}
    /\ frames' = Taken
    /\ UNCHANGED <<skip, sstack, defined, loaderVars, isCpp, strict, lastStrict,
                   saved, programVars, phase, countVars, historyVars>>

(* A global object: in a program its construction is code of the module,   *)
(* elsewhere statement_end() executes it at once.  ODL_add() notes the     *)
(* destructor either way.                                                  *)
GlobalObject ==
    /\ Take({"object"})
    /\ IF isCpp
       THEN /\ code' = Append(code, Arg)
            /\ moduleOdl' = <<Arg>> \o moduleOdl
            /\ UNCHANGED <<alive, globalOdl>>
       ELSE /\ alive' = [alive EXCEPT ![Arg] = @ + 1]
            /\ globalOdl' = <<Arg>> \o globalOdl
            /\ UNCHANGED <<code, moduleOdl>>
    /\ frames' = Taken
    /\ UNCHANGED <<skip, sstack, defined, loaderVars, modeVars, entries,
                   phase, countVars, historyVars>>

PreprocessorLine ==
    /\ Directive
    /\ UNCHANGED <<loaderVars, modeVars, programVars, phase, countVars, historyVars>>

---------------------------------------------------------------------------
(* The commands of the user, heard at the console unless it is skipping.   *)

Heard ==
    /\ AtConsole
    /\ phase \in {"idle", "halted"}
    /\ skip = NO_SKIP
    /\ commands < MaxCommands
    /\ commands' = commands + 1
    /\ UNCHANGED <<disk, edits>>

Noted(kind, f) ==
    load' = [kind |-> kind, file |-> f, disk |-> disk, using |-> using,
             depth |-> Len(sstack),
             deps |-> IF f \in DOMAIN modules THEN modules[f].deps ELSE {}]

(* compile_module() once the file is to be read.                           *)
Compile(f, mods, defs) ==
    /\ pending' = pending + 1
    /\ Open(frames, f, mods, defs, TRUE)

(* #l and #lc: a file that is known is read again only if it, or a file    *)
(* it depends on, is newer; #l forgets what earlier commands found out.    *)
Load(f, kind) ==
    /\ Heard
    /\ Noted(kind, f)
    /\ LET mods == IF kind = "l" THEN FlagsReset(modules) ELSE modules
           seen == Visits(mods, f)
       IN  IF f \notin DOMAIN modules THEN Compile(f, modules, defined)
           ELSE IF Changed(mods, seen)
           THEN Compile(f, Visited(mods, seen), defined \ Dropped(mods, Stale(mods, seen)))
           ELSE /\ modules' = Visited(mods, seen)
                /\ UNCHANGED <<frames, defined, openHook, pending, modeVars, moduleOdl>>
    /\ UNCHANGED <<skip, sstack, code, globalOdl, entries, alive, phase, compiled, cut>>

(* #l of a file that cannot be opened: the hooks stay armed.               *)
LoadMissing ==
    /\ Heard
    /\ openHook' = TRUE
    /\ pending' = pending + 1
    /\ UNCHANGED <<ppVars, modules, modeVars, programVars, phase, historyVars>>

(* #bl, before a series of #lc.                                            *)
BeginLoads ==
    /\ Heard
    /\ modules' = FlagsReset(modules)
    /\ UNCHANGED <<ppVars, openHook, pending, modeVars, programVars, phase, historyVars>>

TypeInclude(f) ==
    /\ Heard
    /\ Noted("include", f)
    /\ Open(frames, f, modules, defined, openHook)
    /\ UNCHANGED <<skip, sstack, pending, code, globalOdl, entries, alive,
                   phase, compiled, cut>>

TypeUsing(ns) ==
    /\ Heard
    /\ ns \notin using
    /\ using' = using \cup {ns}
    /\ UNCHANGED <<ppVars, loaderVars, isCpp, strict, lastStrict, saved,
                   programVars, phase, historyVars>>

EndIfTyped ==
    /\ TypeEndIf
    /\ phase \in {"idle", "halted"}
    /\ UNCHANGED <<loaderVars, modeVars, programVars, phase, countVars, historyVars>>

---------------------------------------------------------------------------
(* Running the program (program.cpp).                                      *)

Occurs(seq, o) == Cardinality({i \in DOMAIN seq : seq[i] = o})

OccursIn(seqs, o) ==
    Cardinality({p \in UNION {{i} \X DOMAIN seqs[i] : i \in DOMAIN seqs} : seqs[p[1]][p[2]] = o})

Constructs(o) == OccursIn([i \in DOMAIN entries |-> entries[i].code], o)
Destroys(o)   == OccursIn([i \in DOMAIN entries |-> entries[i].odl], o)

(* run_program_finalization().                                             *)
Finalize == alive' = [o \in Objects |-> alive[o] - Destroys(o)]

NoLoad == UNCHANGED <<ppVars, loaderVars, modeVars, code, moduleOdl, globalOdl,
                      entries, disk, edits, historyVars>>

(* #r with nothing halted: run_program_initialization(), then main().      *)
Run ==
    /\ Heard
    /\ phase = "idle"
    /\ \E f \in Programs : compiled[f] # 0         \* main() is defined
    /\ alive' = [o \in Objects |-> alive[o] + Constructs(o)]
    /\ phase' = "main"
    /\ NoLoad

(* execute() returns: main() ended, or a breakpoint halted it.  The        *)
(* finalisation does not ask which.                                        *)
MainReturns ==
    /\ phase = "main"
    /\ Finalize
    /\ phase' \in {"idle", "halted"}
    /\ NoLoad
    /\ UNCHANGED commands

(* #r with the program halted resumes the engine itself.                   *)
Resume ==
    /\ Heard
    /\ phase = "halted"
    /\ phase' = "resumed"
    /\ NoLoad
    /\ UNCHANGED alive

ResumedReturns ==
    /\ phase = "resumed"
    /\ phase' \in {"idle", "halted"}
    /\ NoLoad
    /\ UNCHANGED <<alive, commands>>

(* #q: run_global_finalization().                                          *)
Quit ==
    /\ AtConsole
    /\ phase \in {"idle", "halted"}
    /\ skip = NO_SKIP
    /\ alive' = [o \in Objects |-> alive[o] - Occurs(globalOdl, o)]
    /\ phase' = "over"
    /\ NoLoad
    /\ UNCHANGED commands

(* The user saves a file, at any time.                                     *)
Edit(f) ==
    /\ edits < MaxEdits
    /\ phase # "over"
    /\ edits' = edits + 1
    /\ \E t \in DOMAIN Texts[f] : disk' = [disk EXCEPT ![f] = [time |-> @.time + 1, text |-> t]]
    /\ UNCHANGED <<ppVars, loaderVars, modeVars, programVars, phase, commands, historyVars>>

Over == phase = "over" /\ UNCHANGED vars

Next ==
    \/ PreprocessorLine \/ Include \/ Define \/ Declaration
    \/ UsingDirective \/ GlobalObject \/ SyntaxError \/ CloseFile
    \/ \E f \in Loadable, kind \in {"l", "lc"} : Load(f, kind)
    \/ \E f \in Loadable : TypeInclude(f)
    \/ LoadMissing \/ BeginLoads \/ EndIfTyped
    \/ \E ns \in Namespaces : TypeUsing(ns)
    \/ Run \/ MainReturns \/ Resume \/ ResumedReturns \/ Quit
    \/ \E f \in Files : Edit(f)
    \/ Over

Spec == Init /\ [][Next]_vars
---------------------------------------------------------------------------
(* Whatever a file leaves open, and however it ends, a command that began  *)
(* with a level skip stack gives back a console that listens: a skipping   *)
(* one would ignore every command, #q included.  (TokenStream::close() and *)
(* clear().)                                                               *)
PromptListens == [][~AtConsole /\ AtConsole' /\ load.depth = 0 => skip' = NO_SKIP]_vars

(* After an #l that began with a level skip stack, what was on disk when   *)
(* it was typed has been compiled: the file itself, and every file that it *)
(* includes and has included before, but for those an error cut short.     *)
(* The answer "unchanged" is a claim of the same.                          *)
IncludedBy(f, text) ==
    {Texts[f][text][i][2] : i \in {j \in DOMAIN Texts[f][text] : Texts[f][text][j][1] = "include"}}

Current(f) == compiled[f] >= load.disk[f].time \/ f \in cut

FileLoaded == AtConsole /\ load.kind = "l" /\ load.depth = 0 /\ load.file \notin cut

LoadIsCurrent ==
    FileLoaded /\ load.file \in Programs =>
        \A f \in {load.file} \cup (load.deps \cap IncludedBy(load.file, load.disk[load.file].text)) :
            Current(f)

(* The same of a header that is loaded by itself.                          *)
HeaderIsCurrent == FileLoaded => Current(load.file)

(* Loading a program leaves the user's using directives as they were: the  *)
(* program does not see them, and its own do not leak.                     *)
UsingsKept ==
    [][ /\ ~AtConsole /\ AtConsole'
        /\ load.kind \in {"l", "lc"} /\ load.file \in Programs
        => using' = load.using ]_vars

(* However often modules are loaded, edited and loaded again, main() runs  *)
(* with each object of the program constructed once, no object of the      *)
(* program outlives it, and nothing is left at the end of the session.     *)
ObjectsOnce ==
    \A o \in Objects :
        /\ phase = "main" => alive[o] = Occurs(globalOdl, o) + Constructs(o)
        /\ phase = "idle" => alive[o] = Occurs(globalOdl, o)
        /\ phase = "over" => alive[o] = 0

(* main.cpp and program.cpp destroy the program's objects "at the end of   *)
(* main()": a program halted in main() still has them.                     *)
HaltedKeepsObjects ==
    phase \in {"halted", "resumed"} =>
        \A o \in Objects : alive[o] >= Constructs(o)
=============================================================================
