----------------------------- MODULE Breakpoints -----------------------------
(***************************************************************************)
(* Breakpoints in the code of one function (src/src/breakpoints.cpp) and   *)
(* the engine's HALT instruction (src/src/engine.cpp).                     *)
(*                                                                         *)
(* A breakpoint is a HALT written over an instruction, which it saves.  To *)
(* run that instruction the breakpoint puts it back, and, when it is to    *)
(* stay, moves its HALT to the next instruction meanwhile; arriving there  *)
(* moves it back.  The user sets, moves and deletes breakpoints at the     *)
(* prompt, before and while the program is halted, and may compile the     *)
(* function again.                                                         *)
(*                                                                         *)
(* Positions count from 1; Flow says where the program may go from each of *)
(* them, 0 standing for its return.                                        *)
(***************************************************************************)
EXTENDS Integers, FiniteSetsExt

CONSTANTS
  N,               \* number of instructions of the function
  Flow,            \* the places each instruction may be followed by
  Faults,          \* places of instructions that may raise an exception
  Lines,           \* line numbers the user may name
  LineMaps,        \* compilations: each maps a line to the place that
                   \* LineNumbers::lookup_ip() finds for it, or 0 when the
                   \* function does not contain the line
  MAX_BREAKPOINTS, \* capacity of the table of breakpoints
  Nested,          \* may the function be called while it is halted?
  Moves            \* may #bs move a breakpoint within the same code?

Addr == 1..N
Ids  == 0..MAX_BREAKPOINTS - 1
Lost == N + 1  \* an address in code that was freed

ASSUME CodeAssumption == N \in Nat /\ N >= 2
ASSUME FlowAssumption == Flow \in [Addr -> SUBSET (0..N)] /\ Faults \subseteq Addr
ASSUME LineAssumption ==
  /\ Lines \subseteq Nat
  /\ LineMaps \subseteq [Lines -> 0..N] /\ LineMaps # {}
ASSUME TableAssumption == MAX_BREAKPOINTS \in Nat \ {0}
ASSUME UserAssumption == Nested \in BOOLEAN /\ Moves \in BOOLEAN

VARIABLES
  code,      \* the function's instructions, traps included
  lines,     \* the line map of this compilation
  bkpt,      \* mg_bkpr_arr: the breakpoints by id
  ip,        \* the running program's next instruction, 0 at the prompt
  resume,    \* where the halted program goes on, 0 if none is halted
  wild,      \* undefined behaviour: the model stops here
  arrived,   \* history: control came to ip from another instruction
  hit        \* history: the breakpoint that halted, or will, at this place

vars == <<code, lines, bkpt, ip, resume, wild, arrived, hit>>

-----------------------------------------------------------------------------
Orig(a)  == [op |-> "code", data |-> a]
Trap(id) == [op |-> "HALT", data |-> id]
Garbage  == [op |-> "garbage", data |-> 0]
Instruction == {Orig(a) : a \in Addr} \union {Trap(i) : i \in Ids}
               \union {Garbage}

Breakpoint ==
  [line : Lines, persistent : BOOLEAN, paused : BOOLEAN, pi : Addr,
   saved : Instruction, freed : BOOLEAN]  \* freed: pi points to freed code

Live   == DOMAIN bkpt
AtPrompt == ip = 0 /\ ~wild
NoId == -1

\* Never the last instruction: it needs a successor.  A line that is not
\* found is taken to be at the first one.
ip_at_line(map, l) ==
  CASE map[l] = 0 -> 1 [] map[l] = N -> N - 1 [] OTHER -> map[l]

GoWild ==
  /\ wild' = TRUE
  /\ UNCHANGED <<code, lines, bkpt, ip, resume, arrived, hit>>

Write(c, a, w) == [c EXCEPT ![a] = w]

-----------------------------------------------------------------------------
(* What the user does at the prompt.                                       *)

\* Breakpoint::exists_at(): the first breakpoint with this very line.
ExistsAt(l) ==
  IF lines[l] = 0 THEN NoId
  ELSE LET ids == {i \in Live : bkpt[i].line = l}
       IN  IF ids = {} THEN NoId ELSE Min(ids)

\* The constructor: set_line() leaves an address that is a trap as it is, and
\* then the new breakpoint has saved nothing.
Create(i, l, persist) ==
  LET a   == ip_at_line(lines, l)
      set == code[a].op # "HALT"
  IN  /\ bkpt' = [j \in Live \union {i} |->
                    IF j = i
                    THEN [line |-> l, persistent |-> persist,
                          paused |-> FALSE, pi |-> a, freed |-> FALSE,
                          saved |-> IF set THEN code[a] ELSE Garbage]
                    ELSE bkpt[j]]
      /\ code' = IF set THEN Write(code, a, Trap(i)) ELSE code

\* Mutated: the destructor only retires the id.
Delete_KeepsTrap(i) ==
  IF bkpt[i].freed THEN GoWild
  ELSE /\ bkpt' = [j \in Live \ {i} |-> bkpt[j]]
       /\ hit' = IF hit = i THEN NoId ELSE hit
       /\ UNCHANGED <<code, lines, ip, resume, wild, arrived>>

\* The destructor puts the saved instruction back.
Delete(i) ==
  IF bkpt[i].freed THEN GoWild
  ELSE /\ code' = Write(code, bkpt[i].pi, bkpt[i].saved)
       /\ bkpt' = [j \in Live \ {i} |-> bkpt[j]]
       /\ hit' = IF hit = i THEN NoId ELSE hit
       /\ UNCHANGED <<lines, ip, resume, wild, arrived>>

\* Mutated: a full table is not noticed.
Toggle_PastTheEnd(l, persist) ==
  /\ AtPrompt
  /\ LET i    == ExistsAt(l)
         free == 0..MAX_BREAKPOINTS \ Live
     IN  CASE i # NoId /\ persist -> Delete(i)
           [] i # NoId /\ ~persist -> UNCHANGED vars
           [] i = NoId /\ lines[l] = 0 ->
                IF persist THEN UNCHANGED vars ELSE GoWild
           [] i = NoId /\ lines[l] # 0 ->
                /\ Create(Min(free), l, persist)
                /\ UNCHANGED <<lines, ip, resume, wild, arrived, hit>>

\* #b (persist) and #gt: Breakpoint::toggle().
Toggle(l, persist) ==
  /\ AtPrompt
  /\ LET i    == ExistsAt(l)
         free == Ids \ Live
     IN  CASE i # NoId /\ persist -> Delete(i)
           [] i # NoId /\ ~persist -> UNCHANGED vars
           [] i = NoId /\ lines[l] = 0 ->
                IF persist THEN UNCHANGED vars ELSE GoWild
           [] i = NoId /\ lines[l] # 0 ->
                IF free = {} THEN GoWild  \* past the end of the table
                ELSE /\ Create(Min(free), l, persist)
                     /\ UNCHANGED <<lines, ip, resume, wild, arrived, hit>>

\* The destructors run in the order of the ids: the last one to write wins.
RemoveAll ==
  /\ AtPrompt
  /\ IF \E i \in Live : bkpt[i].freed THEN GoWild
     ELSE /\ code' = [a \in Addr |->
                        LET at == {i \in Live : bkpt[i].pi = a}
                        IN  IF at = {} THEN code[a] ELSE bkpt[Max(at)].saved]
          /\ bkpt' = [i \in {} |-> bkpt[i]]
          /\ hit' = NoId
          /\ UNCHANGED <<lines, ip, resume, wild, arrived>>

\* #bs: the breakpoints of the file, in the order of their lines, get new
\* ones by set_line(), except those that are paused.  The first to come to a
\* place without a trap sets its own there.
Before(i, j) == \/ bkpt[i].line < bkpt[j].line
                \/ bkpt[i].line = bkpt[j].line /\ i < j
\* What #bs is for: breakpoints get their places in code that is new.
Keeps(to) ==
  /\ \A i \in Live : ~bkpt[i].freed \/ bkpt[i].paused => to[i] = bkpt[i].line
  /\ \A i \in Live : ~bkpt[i].paused => lines[to[i]] # 0
  /\ \A i, j \in Live : to[i] = to[j] => i = j
Group(to) ==
  /\ AtPrompt
  /\ ~Moves => Keeps(to)
  /\ LET moved == {i \in Live : ~bkpt[i].paused}
         new(i) == ip_at_line(lines, to[i])
         sets(i) == /\ code[new(i)].op # "HALT"
                    /\ \A j \in moved : Before(j, i) => new(j) # new(i)
     IN  /\ bkpt' = [i \in Live |->
              IF i \in moved
              THEN [bkpt[i] EXCEPT !.line = to[i], !.pi = new(i),
                      !.freed = FALSE,
                      !.saved = IF sets(i) THEN code[new(i)] ELSE @]
              ELSE bkpt[i]]
         /\ code' = [a \in Addr |->
              IF \E i \in moved : sets(i) /\ new(i) = a
              THEN Trap(CHOOSE i \in moved : sets(i) /\ new(i) = a)
              ELSE code[a]]
  /\ UNCHANGED <<lines, ip, resume, wild, arrived, hit>>

\* The function is compiled again: its old code is freed.
Recompile(map) ==
  /\ AtPrompt
  /\ code' = [a \in Addr |-> Orig(a)] /\ lines' = map
  /\ bkpt' = [i \in Live |-> [bkpt[i] EXCEPT !.freed = TRUE]]
  /\ resume' = IF resume = 0 THEN 0 ELSE Lost
  /\ UNCHANGED <<ip, wild, arrived, hit>>

Call ==
  /\ AtPrompt
  /\ resume # 0 => Nested
  /\ ip' = 1 /\ arrived' = TRUE /\ hit' = NoId
  /\ UNCHANGED <<code, lines, bkpt, resume, wild>>

Resume ==
  /\ AtPrompt /\ resume # 0
  /\ IF resume = Lost THEN GoWild
     ELSE /\ ip' = resume /\ resume' = 0 /\ arrived' = FALSE
          /\ UNCHANGED <<code, lines, bkpt, wild, hit>>

-----------------------------------------------------------------------------
(* What the engine does.                                                   *)
Running == ip # 0 /\ ~wild

\* An instruction of the program goes on, or raises an exception that nobody
\* handles.
Step ==
  /\ Running /\ code[ip].op # "HALT"
  /\ IF code[ip] = Garbage THEN GoWild
     ELSE /\ \E to \in Flow[ip] \union (IF ip \in Faults THEN {0} ELSE {}) :
               ip' = to /\ arrived' = (to # 0)
          /\ hit' = NoId
          /\ UNCHANGED <<code, lines, bkpt, resume, wild>>

HaltHere == ip' = 0 /\ resume' = ip /\ arrived' = FALSE

\* Mutated: m_paused is not cleared.
MoveTrap_StaysPaused(i, k) ==
  LET b == bkpt[i]
      c == Write(code, b.pi, b.saved)
  IN  /\ code' = Write(c, b.pi + k, Trap(i))
      /\ bkpt' = [bkpt EXCEPT ![i].pi = b.pi + k, ![i].saved = c[b.pi + k],
                              ![i].paused = TRUE]

\* Put the saved instruction back, and the HALT at the k-th place from here.
MoveTrap(i, k) ==
  LET b == bkpt[i]
      c == Write(code, b.pi, b.saved)
  IN  /\ code' = Write(c, b.pi + k, Trap(i))
      /\ bkpt' = [bkpt EXCEPT ![i].pi = b.pi + k, ![i].saved = c[b.pi + k],
                              ![i].paused = ~@]

\* Mutated: a breakpoint that is to stay halts where it is.
Execute_InPlace(i) ==
  /\ UNCHANGED <<lines, wild>>
  /\ IF bkpt[i].persistent
     THEN UNCHANGED <<code, bkpt>> /\ HaltHere /\ hit' = i
     ELSE /\ code' = Write(code, bkpt[i].pi, bkpt[i].saved)
          /\ bkpt' = [j \in Live \ {i} |-> bkpt[j]]
          /\ HaltHere /\ hit' = NoId

\* Breakpoint::execute(): a breakpoint that is to stay waits at the next
\* instruction to come back, and then lets the engine go on; one that is
\* not deletes itself.
Execute(i) ==
  /\ UNCHANGED <<lines, wild>>
  /\ CASE bkpt[i].persistent /\ ~bkpt[i].paused ->
            MoveTrap(i, 1) /\ HaltHere /\ hit' = i
       [] bkpt[i].persistent /\ bkpt[i].paused ->
            MoveTrap(i, -1) /\ UNCHANGED <<ip, resume, arrived, hit>>
       [] ~bkpt[i].persistent ->
            /\ code' = Write(code, bkpt[i].pi, bkpt[i].saved)
            /\ bkpt' = [j \in Live \ {i} |-> bkpt[j]]
            /\ HaltHere /\ hit' = NoId

\* HALT, whose breakpoint may be gone.
Halt ==
  /\ Running /\ code[ip].op = "HALT"
  /\ LET i == code[ip].data
     IN  IF i \notin Live \/ bkpt[i].freed THEN GoWild ELSE Execute(i)

Init ==
  /\ code = [a \in Addr |-> Orig(a)] /\ lines \in LineMaps
  /\ bkpt = [i \in {} |-> Garbage]
  /\ ip = 0 /\ resume = 0 /\ wild = FALSE
  /\ arrived = FALSE /\ hit = NoId

User ==
  \/ \E l \in Lines, persist \in BOOLEAN : Toggle(l, persist)
  \/ RemoveAll
  \/ \E to \in [Live -> Lines] : Group(to)
  \/ \E map \in LineMaps : Recompile(map)
  \/ Call \/ Resume
Engine == Step \/ Halt
Next == User \/ Engine
Spec == Init /\ [][Next]_vars

-----------------------------------------------------------------------------
(* Properties.                                                             *)

\* The shape of the state; a breakpoint is always within the code.
TypeOK ==
  /\ code \in [Addr -> Instruction] /\ lines \in LineMaps
  /\ Live \subseteq Ids /\ bkpt \in [Live -> Breakpoint]
  /\ ip \in 0..N /\ resume \in 0..Lost /\ wild \in BOOLEAN
  /\ arrived \in BOOLEAN /\ hit \in Ids \union {NoId}

\* Breakpoint i holds the instruction at a, itself or through another one.
HoldsOrig(i, a) ==
  /\ ~bkpt[i].freed /\ bkpt[i].pi = a
  /\ \/ bkpt[i].saved = Orig(a)
     \/ \E j \in Live \ {i} : /\ bkpt[i].saved = Trap(j) /\ ~bkpt[j].freed
                              /\ bkpt[j].pi = a /\ bkpt[j].saved = Orig(a)

\* No instruction of the program is ever lost: whatever breakpoints were set,
\* hit, moved and deleted, each place of the code holds its instruction, or
\* the HALT of a breakpoint in the table that can put it back.
CodeIntact ==
  ~wild =>
    \A a \in Addr :
      code[a] # Orig(a) =>
        \E i \in Live : code[a] = Trap(i) /\ HoldsOrig(i, a)

\* A program that comes to the line of a breakpoint halts there, each time:
\* a breakpoint that is to stay is back at its place when the program is.
BreaksWhereSet ==
  Running /\ arrived =>
    \A i \in Live :
      ~bkpt[i].freed /\ ip_at_line(lines, bkpt[i].line) = ip =>
        code[ip] = Trap(i) /\ ~bkpt[i].paused

\* A program that is resumed executes the instruction at which a breakpoint
\* halted it before the same breakpoint can halt it again.
HaltsOnce ==
  [][Running /\ ip' = 0 /\ resume' = ip /\ hit # NoId => hit' # hit]_vars
=============================================================================
