-------------------------- MODULE BreakpointsProofs --------------------------
(***************************************************************************)
(* What holds of breakpoints in every function, with every table size and  *)
(* every number of lines, if the user keeps to the rules of Disciplined.   *)
(* The invariant says where each breakpoint has its HALT, that nothing     *)
(* else was written over, and where a program is while a breakpoint is     *)
(* paused.                                                                 *)
(***************************************************************************)
EXTENDS Breakpoints, NaturalSets

\* Lines do not share an instruction, nor do they begin at successive ones.
Spaced ==
  \A map \in LineMaps : \A l, m \in Lines :
    l # m /\ map[l] # 0 /\ map[m] # 0 =>
      \/ ip_at_line(map, l) + 1 < ip_at_line(map, m)
      \/ ip_at_line(map, m) + 1 < ip_at_line(map, l)

\* The instruction at the place of a breakpoint goes on to the next one.
Straight ==
  \A map \in LineMaps : \A l \in Lines :
    map[l] # 0 => /\ Flow[ip_at_line(map, l)] = {ip_at_line(map, l) + 1}
                  /\ ip_at_line(map, l) \notin Faults

Disciplined == Spaced /\ Straight /\ ~Nested /\ ~Moves

Current == {i \in Live : ~bkpt[i].freed}
Home(i) == ip_at_line(lines, bkpt[i].line)

InPlace ==
  \A i \in Current :
    /\ lines[bkpt[i].line] # 0
    /\ bkpt[i].pi = IF bkpt[i].paused THEN Home(i) + 1 ELSE Home(i)
    /\ bkpt[i].saved = Orig(bkpt[i].pi)
    /\ code[bkpt[i].pi] = Trap(i)
Apart == \A i, j \in Current : i # j => bkpt[i].line # bkpt[j].line
Owned ==
  \A a \in Addr :
    code[a] # Orig(a) =>
      \E i \in Current : bkpt[i].pi = a /\ code[a] = Trap(i)
PausedHere ==
  \A i \in Current :
    bkpt[i].paused =>
      \/ ip = 0 /\ resume = Home(i)
      \/ ip = Home(i) /\ ~arrived
      \/ ip = Home(i) + 1 /\ arrived
HitPaused == hit # NoId => ~arrived /\ hit \in Live /\ bkpt[hit].paused

Sound == InPlace /\ Apart /\ Owned /\ PausedHere /\ HitPaused

-----------------------------------------------------------------------------
(* Facts                                                                   *)

\* Every line is taken to be at an instruction that has a successor.
LEMMA HomeRange ==
  ASSUME NEW map \in LineMaps, NEW l \in Lines
  PROVE  ip_at_line(map, l) \in 1 .. N - 1
<1>1. map[l] \in 0 .. N
  BY LineAssumption
<1>2. QED
  BY <1>1, CodeAssumption DEF ip_at_line

\* The kinds of instruction are told apart by op, traps by data.
LEMMA Instructions ==
  ASSUME NEW a \in Addr, NEW i \in Ids
  PROVE  /\ Orig(a) # Trap(i) /\ Orig(a) # Garbage /\ Trap(i) # Garbage
         /\ Orig(a).op = "code" /\ Trap(i).op = "HALT" /\ Trap(i).data = i
         /\ Garbage.op # "HALT"
         /\ Orig(a) \in Instruction /\ Trap(i) \in Instruction
         /\ Garbage \in Instruction
BY DEF Orig, Trap, Garbage, Instruction

\* What TypeOK says of one breakpoint.
LEMMA Fields ==
  ASSUME TypeOK, NEW i \in Live
  PROVE  /\ i \in Ids /\ bkpt[i] \in Breakpoint
         /\ bkpt[i].line \in Lines /\ bkpt[i].pi \in Addr
         /\ bkpt[i].saved \in Instruction
         /\ bkpt[i].paused \in BOOLEAN /\ bkpt[i].freed \in BOOLEAN
         /\ bkpt[i].persistent \in BOOLEAN
BY DEF TypeOK, Breakpoint

\* The HALTs of two breakpoints are never at the same place, and none is at
\* the place of another, or next to it.
LEMMA Separate ==
  ASSUME TypeOK, Sound, Spaced
  PROVE  /\ \A i \in Current : Home(i) \in 1 .. N - 1
         /\ \A i, j \in Current :
              i # j => /\ bkpt[i].pi # bkpt[j].pi
                       /\ bkpt[i].pi # Home(j) /\ bkpt[i].pi # Home(j) + 1
<1>1. \A i \in Current :
        /\ bkpt[i].line \in Lines /\ lines[bkpt[i].line] # 0
        /\ Home(i) \in 1 .. N - 1
        /\ bkpt[i].pi = Home(i) \/ bkpt[i].pi = Home(i) + 1
  BY Fields, HomeRange DEF Sound, InPlace, Current, Home, TypeOK
<1>2. \A i, j \in Current :
        i # j => Home(i) + 1 < Home(j) \/ Home(j) + 1 < Home(i)
  BY <1>1 DEF Sound, Apart, Spaced, Home, TypeOK
<1>3. N \in Nat
  BY CodeAssumption
<1> HIDE DEF Home
<1>4. QED
  BY <1>1, <1>2, <1>3

\* A HALT that the engine meets is that of a breakpoint of this code.
LEMMA TrapOwner ==
  ASSUME TypeOK, Sound, NEW a \in Addr, code[a].op = "HALT"
  PROVE  /\ code[a].data \in Current
         /\ bkpt[code[a].data].pi = a
<1>1. code[a] # Orig(a)
  BY DEF Orig
<1>2. PICK i \in Current : bkpt[i].pi = a /\ code[a] = Trap(i)
  BY <1>1 DEF Sound, Owned
<1>3. QED
  BY <1>2 DEF Trap

-----------------------------------------------------------------------------
(* Types, whatever the user does.                                          *)

\* There is an instruction after that of a breakpoint in its place, and one
\* before that of a breakpoint that waits for its return.
InRange == \A i \in Live : IF bkpt[i].paused THEN bkpt[i].pi > 1
                                             ELSE bkpt[i].pi < N
TInv == TypeOK /\ InRange

\* Ids are numbers.
LEMMA IdNumbers ==
  ASSUME TypeOK
  PROVE  /\ Live \in SUBSET Ids /\ MAX_BREAKPOINTS - 1 \in Nat
         /\ \A i \in Ids : i \in Nat /\ i >= 0
BY TableAssumption DEF TypeOK, Ids

\* A breakpoint that is set gets an id that is free.
LEMMA FreeId ==
  ASSUME TypeOK, Ids \ Live # {}
  PROVE  Min(Ids \ Live) \in Ids /\ Min(Ids \ Live) \notin Live
<1>1. Ids \ Live \in SUBSET Nat
  BY TableAssumption DEF Ids
<1>2. Min(Ids \ Live) \in Ids \ Live
  BY <1>1, MinElement
<1>3. QED
  BY <1>2

\* A breakpoint that is found is one of the table, with that line.
LEMMA Found ==
  ASSUME TypeOK, NEW l \in Lines, ExistsAt(l) # NoId
  PROVE  /\ ExistsAt(l) \in Live /\ bkpt[ExistsAt(l)].line = l
<1> DEFINE S == {i \in Live : bkpt[i].line = l}
<1>1. S # {} /\ ExistsAt(l) = Min(S)
  BY DEF ExistsAt
<1>2. S \in SUBSET Nat
  <2>1. S \in SUBSET Live
    OBVIOUS
  <2>2. QED
    BY <2>1, IdNumbers
<1> HIDE DEF S
<1>3. Min(S) \in S
  BY <1>1, <1>2, MinElement
<1>4. QED
  BY <1>1, <1>3 DEF S

\* One that is not found is not there.
LEMMA NotFound ==
  ASSUME TypeOK, NEW l \in Lines, lines[l] # 0, ExistsAt(l) = NoId
  PROVE  \A i \in Live : bkpt[i].line # l
<1> DEFINE S == {i \in Live : bkpt[i].line = l}
<1>1. SUFFICES ASSUME S # {}
               PROVE  FALSE
  OBVIOUS
<1>2. S \in SUBSET Nat /\ \A i \in S : i >= 0
  <2>1. S \in SUBSET Live
    OBVIOUS
  <2>2. QED
    BY <2>1, IdNumbers
<1> HIDE DEF S
<1>3. Min(S) \in S
  BY <1>1, <1>2, MinElement
<1>4. ExistsAt(l) = Min(S)
  BY <1>1 DEF ExistsAt, S
<1>5. QED
  BY <1>2, <1>3, <1>4 DEF NoId

\* The last breakpoint at a place that has one is at that place.
LEMMA LastAt ==
  ASSUME TypeOK, NEW a \in Addr, {i \in Live : bkpt[i].pi = a} # {}
  PROVE  Max({i \in Live : bkpt[i].pi = a}) \in {i \in Live : bkpt[i].pi = a}
<1> DEFINE S == {i \in Live : bkpt[i].pi = a}
<1>1. S \in SUBSET (0 .. MAX_BREAKPOINTS - 1) /\ MAX_BREAKPOINTS - 1 \in Nat
  <2>1. S \in SUBSET Live
    OBVIOUS
  <2>2. QED
    BY <2>1, IdNumbers DEF Ids
<1> HIDE DEF S
<1>2. S # {}
  BY DEF S
<1>3. Max(S) \in S
  BY <1>1, <1>2, MaxElement
<1>4. QED
  BY <1>3 DEF S

\* After undefined behaviour only the types matter.
LEMMA GoWildStep ==
  ASSUME TInv, GoWild
  PROVE  TInv' /\ wild'
BY DEF TInv, InRange, TypeOK, GoWild, Live

\* The three ways a breakpoint changes the code.
LEMMA CreateTypes ==
  ASSUME TInv, NEW i \in Ids, i \notin Live, NEW l \in Lines,
         NEW persist \in BOOLEAN, Create(i, l, persist),
         UNCHANGED <<lines, ip, resume, wild, arrived, hit>>
  PROVE  TInv'
<1> DEFINE a == ip_at_line(lines, l)
<1>1. a \in 1 .. N - 1 /\ a \in Addr
  BY HomeRange, CodeAssumption DEF TInv, TypeOK, Addr
<1> HIDE DEF a
<1>2. code' \in [Addr -> Instruction]
  BY <1>1, Instructions DEF Create, a, TInv, TypeOK, Write
<1>3. Live' = Live \union {i}
  BY DEF Create, Live
<1>4. \A j \in Live : bkpt'[j] = bkpt[j]
  BY DEF Create
<1>5. /\ bkpt'[i] \in Breakpoint /\ bkpt'[i].pi = a
      /\ bkpt'[i].paused = FALSE
  BY <1>1, Instructions DEF Create, a, Breakpoint, TInv, TypeOK
<1>6. bkpt' \in [Live' -> Breakpoint]
  <2>1. \A j \in Live' : bkpt'[j] \in Breakpoint
    BY <1>3, <1>4, <1>5, Fields DEF TInv
  <2>2. \E f : bkpt' = [j \in Live' |-> f[j]]
    <3>1. bkpt' = [j \in Live' |-> bkpt'[j]]
      BY <1>3 DEF Create
    <3>2. QED
      BY <3>1
  <2>3. QED
    BY <2>1, <2>2
<1>7. InRange'
  <2>1. ASSUME NEW j \in Live'
        PROVE  IF bkpt'[j].paused THEN bkpt'[j].pi > 1 ELSE bkpt'[j].pi < N
    BY <1>1, <1>3, <1>4, <1>5, CodeAssumption DEF TInv, InRange
  <2>2. QED
    BY <2>1 DEF InRange
<1>8. QED
  BY <1>2, <1>3, <1>6, <1>7 DEF TInv, TypeOK

LEMMA DeleteTypes ==
  ASSUME TInv, NEW i \in Live, Delete(i)
  PROVE  TInv'
<1>1. CASE bkpt[i].freed
  BY <1>1, GoWildStep DEF Delete
<1>2. CASE ~bkpt[i].freed
  <2>1. code' \in [Addr -> Instruction]
    BY <1>2, Fields DEF Delete, TInv, TypeOK, Write
  <2>2. Live' = Live \ {i} /\ \A j \in Live' : bkpt'[j] = bkpt[j]
    BY <1>2 DEF Delete, Live
  <2>3. bkpt' \in [Live' -> Breakpoint]
    BY <1>2, <2>2, Fields DEF Delete, TInv
  <2>4. hit' \in Ids \union {NoId}
    BY <1>2 DEF Delete, TInv, TypeOK
  <2>5. QED
    BY <1>2, <2>1, <2>2, <2>3, <2>4 DEF Delete, TInv, TypeOK, InRange
<1>3. QED
  BY <1>1, <1>2

LEMMA RemoveAllTypes ==
  ASSUME TInv, RemoveAll
  PROVE  TInv'
<1>1. CASE \E i \in Live : bkpt[i].freed
  BY <1>1, GoWildStep DEF RemoveAll
<1>2. CASE ~ \E i \in Live : bkpt[i].freed
  <2>1. ASSUME NEW a \in Addr
        PROVE  code'[a] \in Instruction
    <3> DEFINE S == {i \in Live : bkpt[i].pi = a}
    <3>1. code'[a] = IF S = {} THEN code[a] ELSE bkpt[Max(S)].saved
      BY <1>2 DEF RemoveAll
    <3>2. S # {} => Max(S) \in Live
      BY LastAt DEF TInv
    <3>3. QED
      BY <3>1, <3>2, Fields DEF TInv, TypeOK
  <2>2. code' \in [Addr -> Instruction]
    <3>1. code' = [a \in Addr |-> code'[a]]
      BY <1>2 DEF RemoveAll
    <3>2. QED
      BY <2>1, <3>1
  <2>3. Live' = {} /\ bkpt' \in [Live' -> Breakpoint]
    BY <1>2 DEF RemoveAll, Live
  <2>4. QED
    BY <1>2, <2>2, <2>3 DEF RemoveAll, TInv, TypeOK, InRange
<1>3. QED
  BY <1>1, <1>2

LEMMA GroupTypes ==
  ASSUME TInv, NEW to \in [Live -> Lines], Group(to)
  PROVE  TInv'
<1> DEFINE moved == {i \in Live : ~bkpt[i].paused}
           new(i) == ip_at_line(lines, to[i])
           sets(i) == /\ code[new(i)].op # "HALT"
                      /\ \A j \in moved : Before(j, i) => new(j) # new(i)
<1>1. \A i \in Live : new(i) \in 1 .. N - 1 /\ new(i) \in Addr
  BY HomeRange, CodeAssumption DEF TInv, TypeOK, Addr
<1>2. /\ bkpt' = [i \in Live |->
              IF i \in moved
              THEN [bkpt[i] EXCEPT !.line = to[i], !.pi = new(i),
                      !.freed = FALSE,
                      !.saved = IF sets(i) THEN code[new(i)] ELSE @]
              ELSE bkpt[i]]
      /\ code' = [a \in Addr |->
              IF \E i \in moved : sets(i) /\ new(i) = a
              THEN Trap(CHOOSE i \in moved : sets(i) /\ new(i) = a)
              ELSE code[a]]
      /\ UNCHANGED <<lines, ip, resume, wild, arrived, hit>>
  BY DEF Group
<1>3. \A i \in moved : i \in Live /\ i \in Ids
  BY DEF TInv, TypeOK
<1>4. \A i \in Live : i \notin moved => bkpt[i].paused
  OBVIOUS
<1>5. \A i \in moved : ~bkpt[i].paused
  OBVIOUS
<1> HIDE DEF new, sets, moved
<1>6. code' \in [Addr -> Instruction]
  <2>1. ASSUME NEW a \in Addr
        PROVE  code'[a] \in Instruction
    BY <1>2, <1>3, Instructions DEF TInv, TypeOK
  <2>2. QED
    BY <1>2, <2>1
<1>7. Live' = Live
  BY <1>2 DEF Live
<1>8. ASSUME NEW i \in Live
      PROVE  /\ bkpt'[i] \in Breakpoint
             /\ IF bkpt'[i].paused THEN bkpt'[i].pi > 1 ELSE bkpt'[i].pi < N
  <2>1. CASE i \notin moved
    <3>1. bkpt'[i] = bkpt[i]
      BY <1>2, <2>1
    <3>2. QED
      BY <3>1, Fields DEF TInv, InRange
  <2>2. CASE i \in moved
    <3> DEFINE s == IF sets(i) THEN code[new(i)] ELSE bkpt[i].saved
    <3>1. bkpt'[i] = [bkpt[i] EXCEPT !.line = to[i], !.pi = new(i),
                         !.freed = FALSE, !.saved = s]
      BY <1>2, <2>2
    <3>2. s \in Instruction /\ to[i] \in Lines
      BY <1>1, Fields DEF TInv, TypeOK
    <3> HIDE DEF s
    <3>3. bkpt'[i] \in Breakpoint
      BY <1>1, <3>1, <3>2, Fields DEF TInv, Breakpoint
    <3>4. ~bkpt'[i].paused /\ bkpt'[i].pi = new(i)
      BY <1>5, <2>2, <3>1, Fields DEF TInv, Breakpoint
    <3>5. QED
      BY <1>1, <3>3, <3>4, CodeAssumption
  <2>3. QED
    BY <2>1, <2>2
<1>9. bkpt' \in [Live' -> Breakpoint]
  BY <1>2, <1>7, <1>8
<1>10. QED
  BY <1>2, <1>6, <1>7, <1>8, <1>9 DEF TInv, TypeOK, InRange

LEMMA RecompileTypes ==
  ASSUME TInv, NEW map \in LineMaps, Recompile(map)
  PROVE  TInv'
<1>1. Live' = Live
  BY DEF Recompile, Live
<1>2. ASSUME NEW i \in Live
      PROVE  /\ bkpt'[i] \in Breakpoint
             /\ bkpt'[i].paused = bkpt[i].paused /\ bkpt'[i].pi = bkpt[i].pi
  <2>1. bkpt'[i] = [bkpt[i] EXCEPT !.freed = TRUE]
    BY DEF Recompile
  <2>2. QED
    BY <2>1, Fields DEF TInv, Breakpoint
<1>3. bkpt' \in [Live' -> Breakpoint]
  BY <1>1, <1>2 DEF Recompile
<1>4. code' \in [Addr -> Instruction]
  BY DEF Recompile, Instruction
<1>5. resume' \in 0 .. Lost
  BY CodeAssumption DEF Recompile, TInv, TypeOK, Lost
<1>6. QED
  BY <1>1, <1>2, <1>3, <1>4, <1>5 DEF Recompile, TInv, TypeOK, InRange

\* Putting back what a breakpoint saved and moving its HALT by one.
LEMMA MoveTypes ==
  ASSUME TInv, NEW i \in Live, NEW k \in {1, -1},
         k = IF bkpt[i].paused THEN -1 ELSE 1,
         MoveTrap(i, k)
  PROVE  /\ bkpt[i].pi + k \in Addr
         /\ code' \in [Addr -> Instruction] /\ Live' = Live
         /\ bkpt' \in [Live -> Breakpoint] /\ InRange'
<1> DEFINE to == bkpt[i].pi + k
           c == Write(code, bkpt[i].pi, bkpt[i].saved)
<1>1. to \in Addr /\ to > 0
  BY Fields, CodeAssumption DEF TInv, InRange, Addr
<1>2. c \in [Addr -> Instruction]
  BY Fields DEF Write, TInv, TypeOK
<1> HIDE DEF c, to
<1>3. code' \in [Addr -> Instruction]
  BY <1>1, <1>2, Instructions, Fields DEF MoveTrap, c, to, Write, TInv
<1>4. bkpt' = [bkpt EXCEPT ![i].pi = to, ![i].saved = c[to],
                           ![i].paused = ~@]
  BY DEF MoveTrap, c, to
<1>5. \A j \in Live \ {i} : bkpt'[j] = bkpt[j]
  BY <1>4 DEF TInv, TypeOK
<1>6. bkpt'[i] = [bkpt[i] EXCEPT !.pi = to, !.saved = c[to], !.paused = ~@]
  BY <1>4 DEF TInv, TypeOK
<1>7. /\ bkpt'[i] \in Breakpoint /\ bkpt'[i].pi = to
      /\ bkpt'[i].paused = ~bkpt[i].paused
  BY <1>1, <1>2, <1>6, Fields DEF TInv, Breakpoint
<1>8. Live' = Live /\ bkpt' \in [Live -> Breakpoint]
  BY <1>4, <1>5, <1>7, Fields DEF TInv, TypeOK, Live
<1>9. IF bkpt'[i].paused THEN bkpt'[i].pi > 1 ELSE bkpt'[i].pi < N
  <2>1. bkpt[i].pi \in 1 .. N /\ N \in Nat
    BY Fields, CodeAssumption DEF TInv, Addr
  <2>2. CASE bkpt[i].paused
    <3>1. k = -1 /\ ~bkpt'[i].paused
      BY <1>7, <2>2
    <3>2. QED
      BY <1>7, <2>1, <3>1 DEF to
  <2>3. CASE ~bkpt[i].paused
    <3>1. k = 1 /\ bkpt'[i].paused
      BY <1>7, <2>3
    <3>2. QED
      BY <1>7, <2>1, <3>1 DEF to
  <2>4. QED
    BY <2>2, <2>3
<1>10. InRange'
  BY <1>5, <1>8, <1>9 DEF TInv, InRange
<1>11. QED
  BY <1>1, <1>3, <1>8, <1>10 DEF to

LEMMA HaltTypes ==
  ASSUME ip \in Addr, HaltHere
  PROVE  ip' \in 0 .. N /\ resume' \in 0 .. Lost /\ arrived' \in BOOLEAN
<1>1. N \in Nat /\ ip \in 0 .. N + 1 /\ 0 \in 0 .. N
  BY CodeAssumption DEF Addr
<1>2. QED
  BY <1>1 DEF HaltHere, Lost

LEMMA ExecuteTypes ==
  ASSUME TInv, ip \in Addr, NEW i \in Live, Execute(i)
  PROVE  TInv'
<1>1. CASE bkpt[i].persistent /\ ~bkpt[i].paused
  <2>1. MoveTrap(i, 1) /\ HaltHere /\ hit' = i
    BY <1>1 DEF Execute
  <2>2. /\ code' \in [Addr -> Instruction] /\ Live' = Live
        /\ bkpt' \in [Live -> Breakpoint] /\ InRange'
    BY <1>1, <2>1, MoveTypes
  <2>3. ip' \in 0 .. N /\ resume' \in 0 .. Lost /\ arrived' \in BOOLEAN
    BY <2>1, HaltTypes
  <2>4. QED
    BY <2>1, <2>2, <2>3 DEF Execute, TInv, TypeOK
<1>2. CASE bkpt[i].persistent /\ bkpt[i].paused
  <2>1. MoveTrap(i, -1) /\ UNCHANGED <<ip, resume, arrived, hit>>
    BY <1>2 DEF Execute
  <2>2. /\ code' \in [Addr -> Instruction] /\ Live' = Live
        /\ bkpt' \in [Live -> Breakpoint] /\ InRange'
    BY <1>2, <2>1, MoveTypes
  <2>3. QED
    BY <2>1, <2>2 DEF Execute, TInv, TypeOK
<1>3. CASE ~bkpt[i].persistent
  <2>1. /\ code' = Write(code, bkpt[i].pi, bkpt[i].saved)
        /\ bkpt' = [j \in Live \ {i} |-> bkpt[j]]
        /\ HaltHere /\ hit' = NoId
    BY <1>3 DEF Execute
  <2>2. code' \in [Addr -> Instruction]
    BY <2>1, Fields DEF TInv, TypeOK, Write
  <2>3. Live' = Live \ {i} /\ \A j \in Live' : bkpt'[j] = bkpt[j]
    BY <2>1 DEF Live
  <2>4. bkpt' \in [Live' -> Breakpoint]
    BY <2>1, <2>3, Fields DEF TInv
  <2>5. ip' \in 0 .. N /\ resume' \in 0 .. Lost /\ arrived' \in BOOLEAN
    BY <2>1, HaltTypes
  <2>6. QED
    BY <2>1, <2>2, <2>3, <2>4, <2>5 DEF Execute, TInv, TypeOK, InRange
<1>4. QED
  BY <1>1, <1>2, <1>3, Fields DEF TInv

LEMMA TypesInit ==
  ASSUME Init
  PROVE  TInv
<1>1. Live = {} /\ bkpt \in [Live -> Breakpoint]
  BY DEF Init, Live
<1>2. code \in [Addr -> Instruction]
  BY DEF Init, Instruction
<1>3. 0 \in 0 .. N /\ 0 \in 0 .. Lost
  BY CodeAssumption DEF Lost
<1>4. QED
  BY <1>1, <1>2, <1>3 DEF Init, TInv, TypeOK, InRange

LEMMA TypesStep ==
  ASSUME TInv, [Next]_vars
  PROVE  TInv'
<1>1. ASSUME NEW l \in Lines, NEW persist \in BOOLEAN, Toggle(l, persist)
      PROVE  TInv'
  <2> DEFINE i == ExistsAt(l)
             free == Ids \ Live
  <2>1. CASE i # NoId /\ persist
    <3>1. Delete(i) /\ i \in Live
      BY <1>1, <2>1, Found DEF Toggle, TInv
    <3>2. QED
      BY <3>1, DeleteTypes
  <2>2. CASE UNCHANGED vars
    BY <2>2 DEF TInv, TypeOK, InRange, vars, Live
  <2>3. CASE GoWild
    BY <2>3, GoWildStep
  <2>4. CASE /\ free # {} /\ Create(Min(free), l, persist)
             /\ UNCHANGED <<lines, ip, resume, wild, arrived, hit>>
    <3> DEFINE k == Min(free)
    <3>1. k \in Ids /\ k \notin Live
      BY <2>4, FreeId DEF TInv
    <3> HIDE DEF k
    <3>2. Create(k, l, persist)
      BY <2>4 DEF k
    <3>3. QED
      BY <2>4, <3>1, <3>2, CreateTypes
  <2>5. QED
    BY <1>1, <2>1, <2>2, <2>3, <2>4 DEF Toggle
<1>2. ASSUME NEW to \in [Live -> Lines], Group(to)
      PROVE  TInv'
  BY <1>2, GroupTypes
<1>3. ASSUME NEW map \in LineMaps, Recompile(map)
      PROVE  TInv'
  BY <1>3, RecompileTypes
<1>4. CASE Call
  <2>1. 1 \in 0 .. N
    BY CodeAssumption
  <2>2. QED
    BY <1>4, <2>1 DEF Call, TInv, TypeOK, InRange, Live
<1>5. CASE Resume
  <2>1. CASE resume = Lost
    BY <1>5, <2>1, GoWildStep DEF Resume
  <2>2. CASE resume # Lost
    <3>1. resume \in 0 .. N /\ 0 \in 0 .. Lost
      BY <2>2, CodeAssumption DEF TInv, TypeOK, Lost
    <3>2. QED
      BY <1>5, <2>2, <3>1 DEF Resume, TInv, TypeOK, InRange, Live
  <2>3. QED
    BY <2>1, <2>2
<1>6. CASE Step
  <2>1. CASE GoWild
    BY <2>1, GoWildStep
  <2>2. CASE ~GoWild
    <3>1. PICK to \in Flow[ip] \union (IF ip \in Faults THEN {0} ELSE {}) :
            ip' = to /\ arrived' = (to # 0)
      BY <1>6, <2>2 DEF Step
    <3>2. ip \in Addr
      BY <1>6 DEF Step, Running, TInv, TypeOK, Addr
    <3>3. to \in 0 .. N
      BY <3>1, <3>2, FlowAssumption, CodeAssumption
    <3>4. QED
      BY <1>6, <2>2, <3>1, <3>3 DEF Step, TInv, TypeOK, InRange, Live
  <2>3. QED
    BY <2>1, <2>2
<1>7. CASE Halt
  <2> DEFINE i == code[ip].data
  <2>1. CASE GoWild
    BY <2>1, GoWildStep
  <2>2. CASE ~GoWild
    <3>1. i \in Live /\ Execute(i)
      BY <1>7, <2>2 DEF Halt
    <3>2. ip \in Addr
      BY <1>7 DEF Halt, Running, TInv, TypeOK, Addr
    <3>3. QED
      BY <3>1, <3>2, ExecuteTypes
  <2>3. QED
    BY <2>1, <2>2
<1>8. CASE UNCHANGED vars
  BY <1>8 DEF TInv, TypeOK, InRange, vars, Live
<1>9. QED
  BY <1>1, <1>2, <1>3, <1>4, <1>5, <1>6, <1>7, <1>8, RemoveAllTypes
  DEF Next, User, Engine

\* Whatever the user does, a breakpoint is within the code, the table within
\* its capacity, and nothing but instructions, HALTs and garbage in the code.
THEOREM TypeCorrect == Spec => []TypeOK
<1>1. TInv => TypeOK
  BY DEF TInv
<1>2. QED
  BY <1>1, TypesInit, TypesStep, PTL DEF Spec

-----------------------------------------------------------------------------
(* Where the HALTs are, for a user who keeps to the rules.                 *)

IInv == TInv /\ (~wild => Sound)

\* The place of a line with no breakpoint of this code holds its instruction.
LEMMA FreePlace ==
  ASSUME TypeOK, Sound, Spaced, NEW l \in Lines, lines[l] # 0,
         \A i \in Current : bkpt[i].line # l
  PROVE  LET a == ip_at_line(lines, l)
         IN  /\ a \in Addr /\ code[a] = Orig(a)
             /\ \A i \in Current : bkpt[i].pi # a
<1> DEFINE a == ip_at_line(lines, l)
<1>1. a \in 1 .. N - 1 /\ a \in Addr
  BY HomeRange, CodeAssumption DEF TypeOK, Addr
<1>2. ASSUME NEW i \in Current
      PROVE  bkpt[i].pi # a
  <2>1. /\ bkpt[i].line \in Lines /\ lines[bkpt[i].line] # 0
        /\ bkpt[i].pi = Home(i) \/ bkpt[i].pi = Home(i) + 1
    BY Fields DEF Sound, InPlace, Current
  <2>2. Home(i) \in 1 .. N - 1
    BY <2>1, HomeRange DEF Home, TypeOK
  <2>3. Home(i) + 1 < a \/ a + 1 < Home(i)
    BY <2>1 DEF Spaced, Home, TypeOK
  <2> HIDE DEF Home, a
  <2>4. QED
    BY <1>1, <2>1, <2>2, <2>3, CodeAssumption
<1>3. code[a] = Orig(a)
  BY <1>1, <1>2 DEF Sound, Owned
<1>4. QED
  BY <1>1, <1>2, <1>3

LEMMA CreateSound ==
  ASSUME TInv, Sound, Spaced, ip = 0,
         NEW i \in Ids, i \notin Live, NEW l \in Lines, lines[l] # 0,
         \A j \in Live : bkpt[j].line # l,
         NEW persist \in BOOLEAN, Create(i, l, persist),
         UNCHANGED <<lines, ip, resume, wild, arrived, hit>>
  PROVE  Sound'
<1> DEFINE a == ip_at_line(lines, l)
<1>1. /\ a \in Addr /\ code[a] = Orig(a)
      /\ \A j \in Current : bkpt[j].pi # a
  BY FreePlace DEF TInv, Current
<1>2. /\ bkpt'[i] = [line |-> l, persistent |-> persist, paused |-> FALSE,
                     pi |-> a, freed |-> FALSE, saved |-> Orig(a)]
      /\ code' = Write(code, a, Trap(i))
  BY <1>1, Instructions DEF Create
<1>3. /\ Live' = Live \union {i} /\ i \notin Current
      /\ \A j \in Live : bkpt'[j] = bkpt[j]
  BY DEF Create, Live, Current
<1> HIDE DEF a
<1>4. Current' = Current \union {i}
  BY <1>2, <1>3 DEF Current
<1>5. \A j \in Current : bkpt'[j] = bkpt[j] /\ j \in Live /\ j # i
  BY <1>3 DEF Current
<1>6. code'[a] = Trap(i) /\ \A b \in Addr \ {a} : code'[b] = code[b]
  BY <1>1, <1>2 DEF Write, TInv, TypeOK
<1>7. InPlace'
  <2>1. ASSUME NEW j \in Current
        PROVE  code'[bkpt[j].pi] = code[bkpt[j].pi]
    BY <1>1, <1>5, <1>6, Fields DEF TInv
  <2>2. QED
    BY <1>2, <1>4, <1>5, <1>6, <2>1 DEF Sound, InPlace, Home, a
<1>8. Apart'
  BY <1>2, <1>4, <1>5 DEF Sound, Apart
<1>9. Owned'
  <2>1. ASSUME NEW b \in Addr, code'[b] # Orig(b)
        PROVE  \E j \in Current' : bkpt'[j].pi = b /\ code'[b] = Trap(j)
    <3>1. CASE b = a
      BY <1>2, <1>4, <1>6, <3>1
    <3>2. CASE b # a
      <4>1. PICK j \in Current : bkpt[j].pi = b /\ code[b] = Trap(j)
        BY <1>6, <2>1, <3>2 DEF Sound, Owned
      <4>2. QED
        BY <1>4, <1>5, <1>6, <3>2, <4>1
    <3>3. QED
      BY <3>1, <3>2
  <2>2. QED
    BY <2>1 DEF Owned
<1>10. PausedHere'
  BY <1>2, <1>4, <1>5 DEF Sound, PausedHere, Home
<1>11. HitPaused'
  BY <1>3 DEF Sound, HitPaused
<1>12. QED
  BY <1>7, <1>8, <1>9, <1>10, <1>11 DEF Sound

\* A breakpoint goes away, and the instruction it saved is back.
LEMMA RemoveSound ==
  ASSUME TInv, Sound, Spaced, NEW i \in Current,
         code' = Write(code, bkpt[i].pi, bkpt[i].saved),
         bkpt' = [j \in Live \ {i} |-> bkpt[j]],
         lines' = lines
  PROVE  /\ InPlace' /\ Apart' /\ Owned'
         /\ Live' = Live \ {i} /\ Current' = Current \ {i}
         /\ \A j \in Live' : bkpt'[j] = bkpt[j]
<1> DEFINE a == bkpt[i].pi
<1>1. a \in Addr /\ bkpt[i].saved = Orig(a)
  BY Fields DEF Current, TInv, Sound, InPlace
<1>2. Live' = Live \ {i} /\ \A j \in Live' : bkpt'[j] = bkpt[j]
  BY DEF Live
<1>3. Current' = Current \ {i}
  BY <1>2 DEF Current
<1>4. \A j \in Current' : bkpt'[j] = bkpt[j] /\ j \in Current
  BY <1>2, <1>3 DEF Current
<1>5. \A j \in Current' : bkpt[j].pi # a /\ bkpt[j].pi \in Addr
  BY <1>3, Separate, Fields DEF TInv, Current
<1>6. code'[a] = Orig(a) /\ \A b \in Addr \ {a} : code'[b] = code[b]
  BY <1>1 DEF Write, TInv, TypeOK
<1> HIDE DEF a
<1>7. InPlace'
  <2>1. ASSUME NEW j \in Current'
        PROVE  /\ code'[bkpt[j].pi] = code[bkpt[j].pi] /\ Home(j)' = Home(j)
               /\ bkpt'[j] = bkpt[j] /\ j \in Current
    BY <1>4, <1>5, <1>6 DEF Home
  <2> HIDE DEF Home
  <2>2. QED
    BY <2>1 DEF Sound, InPlace
<1>8. Apart'
  BY <1>4 DEF Sound, Apart
<1>9. Owned'
  <2>1. ASSUME NEW b \in Addr, code'[b] # Orig(b)
        PROVE  \E j \in Current' : bkpt'[j].pi = b /\ code'[b] = Trap(j)
    <3>1. b # a /\ code[b] # Orig(b) /\ code'[b] = code[b]
      BY <1>6, <2>1
    <3>2. PICK j \in Current : bkpt[j].pi = b /\ code[b] = Trap(j)
      BY <3>1 DEF Sound, Owned
    <3>3. j # i
      BY <3>1, <3>2 DEF a
    <3>4. QED
      BY <1>3, <1>4, <3>1, <3>2, <3>3
  <2>2. QED
    BY <2>1 DEF Owned
<1>10. QED
  BY <1>2, <1>3, <1>7, <1>8, <1>9

LEMMA DeleteSound ==
  ASSUME TInv, Sound, Spaced, NEW i \in Current, Delete(i)
  PROVE  Sound'
<1>1. ~bkpt[i].freed /\ i \in Live
  BY DEF Current
<1>2. /\ code' = Write(code, bkpt[i].pi, bkpt[i].saved)
      /\ bkpt' = [j \in Live \ {i} |-> bkpt[j]]
      /\ hit' = IF hit = i THEN NoId ELSE hit
      /\ UNCHANGED <<lines, ip, resume, wild, arrived>>
  BY <1>1 DEF Delete
<1>3. /\ InPlace' /\ Apart' /\ Owned'
      /\ Live' = Live \ {i} /\ Current' = Current \ {i}
      /\ \A j \in Live' : bkpt'[j] = bkpt[j]
  BY <1>2, RemoveSound
<1>4. PausedHere'
  <2>1. \A j \in Current' : bkpt'[j] = bkpt[j] /\ j \in Current
    BY <1>3 DEF Current
  <2>2. QED
    BY <1>2, <2>1 DEF Sound, PausedHere, Home
<1>5. HitPaused'
  BY <1>2, <1>3 DEF Sound, HitPaused
<1>6. QED
  BY <1>3, <1>4, <1>5 DEF Sound

LEMMA RemoveAllSound ==
  ASSUME TInv, Sound, Spaced, RemoveAll, ~wild'
  PROVE  Sound'
<1>1. ~ \E i \in Live : bkpt[i].freed
  BY DEF RemoveAll, GoWild
<1>2. Live' = {} /\ Current' = {} /\ hit' = NoId
  BY <1>1 DEF RemoveAll, Live, Current
<1>3. ASSUME NEW a \in Addr
      PROVE  code'[a] = Orig(a)
  <2> DEFINE S == {i \in Live : bkpt[i].pi = a}
  <2>1. code'[a] = IF S = {} THEN code[a] ELSE bkpt[Max(S)].saved
    BY <1>1 DEF RemoveAll
  <2>2. CASE S = {}
    <3>1. \A i \in Current : bkpt[i].pi # a
      BY <2>2 DEF Current
    <3>2. QED
      BY <2>1, <2>2, <3>1 DEF Sound, Owned
  <2>3. CASE S # {}
    <3>1. Max(S) \in S
      BY <2>3, LastAt DEF TInv
    <3> DEFINE m == Max(S)
    <3>2. m \in Current /\ bkpt[m].pi = a
      BY <1>1, <3>1 DEF Current
    <3> HIDE DEF m
    <3>3. bkpt[m].saved = Orig(a)
      BY <3>2 DEF Sound, InPlace
    <3>4. QED
      BY <2>1, <2>3, <3>3 DEF m
  <2>4. QED
    BY <2>2, <2>3
<1>4. QED
  BY <1>2, <1>3 DEF Sound, InPlace, Apart, Owned, PausedHere, HitPaused

LEMMA RecompileSound ==
  ASSUME TInv, Sound, NEW map \in LineMaps, Recompile(map)
  PROVE  Sound'
<1>1. Live' = Live
  BY DEF Recompile, Live
<1>2. \A i \in Live : bkpt'[i].freed /\ bkpt'[i].paused = bkpt[i].paused
  <2>1. ASSUME NEW i \in Live
        PROVE  bkpt'[i].freed = TRUE /\ bkpt'[i].paused = bkpt[i].paused
    <3>1. bkpt'[i] = [bkpt[i] EXCEPT !.freed = TRUE]
      BY DEF Recompile
    <3>2. QED
      BY <3>1, Fields DEF TInv, Breakpoint
  <2>2. QED
    BY <2>1
<1>3. Current' = {}
  BY <1>1, <1>2 DEF Current
<1>4. \A a \in Addr : code'[a] = Orig(a)
  BY DEF Recompile
<1>5. InPlace' /\ Apart' /\ Owned' /\ PausedHere'
  BY <1>3, <1>4 DEF InPlace, Apart, Owned, PausedHere
<1>6. HitPaused'
  BY <1>1, <1>2 DEF Recompile, Sound, HitPaused
<1>7. QED
  BY <1>5, <1>6 DEF Sound

\* Steps that leave code and breakpoints alone disturb the last two parts.
LEMMA OnlyControl ==
  ASSUME TInv, Sound, UNCHANGED <<code, bkpt, lines>>,
         PausedHere', HitPaused'
  PROVE  Sound'
<1>1. Live' = Live /\ Current' = Current
  BY DEF Live, Current
<1>2. \A i \in Current : Home(i)' = Home(i)
  BY DEF Home
<1> HIDE DEF Home
<1>3. InPlace' /\ Apart' /\ Owned'
  BY <1>1, <1>2 DEF Sound, InPlace, Apart, Owned
<1>4. QED
  BY <1>3 DEF Sound

LEMMA CallSound ==
  ASSUME TInv, Sound, ~Nested, Call
  PROVE  Sound'
<1>1. ip = 0 /\ resume = 0
  BY DEF Call, AtPrompt
<1>2. \A i \in Current : ~bkpt[i].paused
  <2>1. \A i \in Current : Home(i) \in 1 .. N - 1
    BY HomeRange, Fields DEF TInv, TypeOK, Current, Home
  <2> HIDE DEF Home
  <2>2. QED
    BY <1>1, <2>1, CodeAssumption DEF Sound, PausedHere
<1>3. Current' = Current /\ bkpt' = bkpt
  BY DEF Call, Live, Current
<1>4. PausedHere' /\ HitPaused'
  BY <1>2, <1>3 DEF Call, PausedHere, HitPaused
<1>5. QED
  BY <1>4, OnlyControl DEF Call

LEMMA ResumeSound ==
  ASSUME TInv, Sound, Resume, ~wild'
  PROVE  Sound'
<1>1. /\ ip = 0 /\ resume # 0 /\ ip' = resume /\ arrived' = FALSE
      /\ UNCHANGED <<code, lines, bkpt, wild, hit>>
  BY DEF Resume, AtPrompt, GoWild
<1>2. Current' = Current /\ Live' = Live /\ \A i \in Current : Home(i)' = Home(i)
  BY <1>1 DEF Live, Current, Home
<1>3. \A i \in Current : Home(i) \in 1 .. N - 1
  BY HomeRange, Fields DEF TInv, TypeOK, Current, Home
<1> HIDE DEF Home
<1>4. PausedHere'
  BY <1>1, <1>2, <1>3, CodeAssumption DEF Sound, PausedHere
<1>5. HitPaused'
  BY <1>1, <1>2 DEF Sound, HitPaused
<1>6. QED
  BY <1>1, <1>4, <1>5, OnlyControl

LEMMA StepSound ==
  ASSUME TInv, Sound, Straight, Step, ~wild'
  PROVE  Sound'
<1>1. /\ ip # 0 /\ code[ip].op # "HALT" /\ hit' = NoId
      /\ UNCHANGED <<code, lines, bkpt, resume, wild>>
      /\ \E to \in Flow[ip] \union (IF ip \in Faults THEN {0} ELSE {}) :
           ip' = to /\ arrived' = (to # 0)
  BY DEF Step, Running, GoWild
<1>2. Current' = Current /\ \A i \in Current : Home(i)' = Home(i)
  BY <1>1 DEF Live, Current, Home
<1>3. ASSUME NEW i \in Current, bkpt[i].paused
      PROVE  ip' = Home(i) + 1 /\ arrived'
  <2>1. /\ bkpt[i].pi = Home(i) + 1 /\ code[bkpt[i].pi] = Trap(i)
        /\ bkpt[i].line \in Lines /\ lines[bkpt[i].line] # 0
    BY <1>3, Fields DEF Sound, InPlace, TInv, Current
  <2>2. ip # Home(i) + 1
    <3>1. Trap(i).op = "HALT"
      BY DEF Trap
    <3>2. QED
      BY <1>1, <2>1, <3>1
  <2>3. ip = Home(i)
    BY <1>1, <1>3, <2>2 DEF Sound, PausedHere
  <2>4. Flow[ip] = {ip + 1} /\ ip \notin Faults
    BY <2>1, <2>3 DEF Straight, Home, TInv, TypeOK
  <2>5. Home(i) \in 1 .. N - 1
    BY <2>1, HomeRange DEF TInv, TypeOK, Home
  <2> HIDE DEF Home
  <2>6. ip' = ip + 1 /\ arrived' = (ip + 1 # 0)
    BY <1>1, <2>4
  <2>7. ip + 1 # 0
    BY <2>3, <2>5, CodeAssumption
  <2>8. QED
    BY <2>3, <2>6, <2>7
<1> HIDE DEF Home
<1>4. PausedHere'
  BY <1>1, <1>2, <1>3 DEF PausedHere
<1>5. HitPaused'
  BY <1>1 DEF HitPaused
<1>6. QED
  BY <1>1, <1>4, <1>5, OnlyControl

\* The engine is at the HALT of breakpoint i: no other one is paused.
LEMMA OthersArmed ==
  ASSUME TInv, Sound, Spaced, ip # 0, NEW i \in Current, bkpt[i].pi = ip
  PROVE  /\ \A j \in Current : j # i => ~bkpt[j].paused
         /\ ~bkpt[i].paused => ip = Home(i)
         /\ bkpt[i].paused => ip = Home(i) + 1 /\ arrived
<1>1. /\ \A j \in Current : Home(j) \in 1 .. N - 1
      /\ \A j \in Current :
           j # i => ip # Home(j) /\ ip # Home(j) + 1
  BY Separate DEF TInv
<1>2. bkpt[i].pi = IF bkpt[i].paused THEN Home(i) + 1 ELSE Home(i)
  BY DEF Sound, InPlace
<1> HIDE DEF Home
<1>3. bkpt[i].paused => ip = Home(i) + 1 /\ arrived
  BY <1>1, <1>2, CodeAssumption DEF Sound, PausedHere
<1>4. QED
  BY <1>1, <1>2, <1>3 DEF Sound, PausedHere

\* A breakpoint moves its HALT between its place and the next one.
LEMMA MoveSound ==
  ASSUME TInv, Sound, Spaced, NEW i \in Current, NEW k \in {1, -1},
         k = IF bkpt[i].paused THEN -1 ELSE 1,
         MoveTrap(i, k), lines' = lines
  PROVE  /\ InPlace' /\ Apart' /\ Owned' /\ Current' = Current
         /\ Live' = Live /\ bkpt'[i].paused = ~bkpt[i].paused
         /\ \A j \in Current : /\ Home(j)' = Home(j)
                               /\ j # i => bkpt'[j] = bkpt[j]
<1> DEFINE a == bkpt[i].pi
           to == bkpt[i].pi + k
           c == Write(code, bkpt[i].pi, bkpt[i].saved)
<1>1. i \in Live /\ a \in Addr /\ bkpt[i].saved = Orig(a)
      /\ a = IF bkpt[i].paused THEN Home(i) + 1 ELSE Home(i)
  BY Fields DEF TInv, Current, Sound, InPlace
<1>2. to \in Addr
  BY <1>1, MoveTypes
<1>3. Home(i) \in 1 .. N - 1
      /\ \A j \in Current :
           j # i => bkpt[j].pi # Home(i) /\ bkpt[j].pi # Home(i) + 1
  BY Separate DEF TInv
<1> HIDE DEF Home
<1>4. /\ to = IF bkpt[i].paused THEN Home(i) ELSE Home(i) + 1
      /\ to # a
  BY <1>1, <1>3, CodeAssumption
<1>5. \A j \in Current : j # i => bkpt[j].pi # a /\ bkpt[j].pi # to
  BY <1>1, <1>3, <1>4
<1>6. code[to] = Orig(to)
  BY <1>2, <1>4, <1>5 DEF Sound, Owned
<1>7. /\ code' = Write(c, to, Trap(i))
      /\ bkpt' = [bkpt EXCEPT ![i].pi = to, ![i].saved = c[to],
                              ![i].paused = ~@]
  BY DEF MoveTrap
<1> HIDE DEF to, a
<1>8. c[to] = Orig(to) /\ c[a] = Orig(a) /\ c \in [Addr -> Instruction]
      /\ \A b \in Addr \ {a} : c[b] = code[b]
  BY <1>1, <1>2, <1>4, <1>6, Instructions DEF Write, TInv, TypeOK, a
<1> HIDE DEF c
<1>9. /\ code'[to] = Trap(i)
      /\ \A b \in Addr \ {to} : code'[b] = c[b]
  BY <1>2, <1>7, <1>8 DEF Write
<1>10. /\ bkpt'[i] = [bkpt[i] EXCEPT !.pi = to, !.saved = Orig(to),
                                     !.paused = ~@]
       /\ \A j \in Live : j # i => bkpt'[j] = bkpt[j]
       /\ Live' = Live
  BY <1>1, <1>7, <1>8 DEF TInv, TypeOK, Live
<1>11. /\ bkpt'[i].line = bkpt[i].line /\ bkpt'[i].freed = bkpt[i].freed
       /\ bkpt'[i].pi = to /\ bkpt'[i].saved = Orig(to)
       /\ bkpt'[i].paused = ~bkpt[i].paused
  BY <1>1, <1>10, Fields DEF TInv, Breakpoint
<1>12. Current' = Current
  BY <1>10, <1>11 DEF Current
<1>13. \A j \in Current : /\ Home(j)' = Home(j) /\ j \in Live
                          /\ j # i => bkpt'[j] = bkpt[j]
  BY <1>10, <1>11 DEF Home, Current
<1>14. InPlace'
  <2>1. ASSUME NEW j \in Current, j # i
        PROVE  code'[bkpt[j].pi] = code[bkpt[j].pi]
    BY <1>5, <1>8, <1>9, <1>13, <2>1, Fields DEF TInv
  <2>2. ASSUME NEW j \in Current', j # i
        PROVE  /\ lines'[bkpt'[j].line] # 0
               /\ bkpt'[j].pi = IF bkpt'[j].paused THEN Home(j)' + 1
                                                   ELSE Home(j)'
               /\ bkpt'[j].saved = Orig(bkpt'[j].pi)
               /\ code'[bkpt'[j].pi] = Trap(j)
    BY <1>12, <1>13, <2>1, <2>2 DEF Sound, InPlace
  <2>3. /\ lines'[bkpt'[i].line] # 0
        /\ bkpt'[i].pi = IF bkpt'[i].paused THEN Home(i)' + 1 ELSE Home(i)'
        /\ bkpt'[i].saved = Orig(bkpt'[i].pi)
        /\ code'[bkpt'[i].pi] = Trap(i)
    BY <1>4, <1>9, <1>11, <1>13 DEF Sound, InPlace
  <2>4. QED
    BY <2>2, <2>3 DEF InPlace
<1>15. Apart'
  BY <1>11, <1>12, <1>13 DEF Sound, Apart
<1>16. Owned'
  <2>1. ASSUME NEW b \in Addr, code'[b] # Orig(b)
        PROVE  \E j \in Current' : bkpt'[j].pi = b /\ code'[b] = Trap(j)
    <3>1. CASE b = to
      BY <1>9, <1>11, <1>12, <3>1
    <3>2. CASE b # to
      <4>1. b # a /\ code'[b] = code[b] /\ code[b] # Orig(b)
        BY <1>8, <1>9, <2>1, <3>2
      <4>2. PICK j \in Current : bkpt[j].pi = b /\ code[b] = Trap(j)
        BY <4>1 DEF Sound, Owned
      <4>3. j # i
        BY <4>1, <4>2 DEF a
      <4>4. QED
        BY <1>12, <1>13, <4>1, <4>2, <4>3
    <3>3. QED
      BY <3>1, <3>2
  <2>2. QED
    BY <2>1 DEF Owned
<1>17. QED
  BY <1>10, <1>11, <1>12, <1>13, <1>14, <1>15, <1>16

LEMMA ExecuteSound ==
  ASSUME TInv, Sound, Spaced, ip # 0, NEW i \in Current, bkpt[i].pi = ip,
         Execute(i)
  PROVE  Sound'
<1>1. /\ \A j \in Current : j # i => ~bkpt[j].paused
      /\ ~bkpt[i].paused => ip = Home(i)
      /\ bkpt[i].paused => ip = Home(i) + 1 /\ arrived
  BY OthersArmed
<1>2. i \in Live /\ bkpt[i].paused \in BOOLEAN /\ lines' = lines
  BY Fields DEF Current, TInv, Execute
<1> HIDE DEF Home
<1>3. CASE bkpt[i].persistent /\ ~bkpt[i].paused
  <2>1. MoveTrap(i, 1) /\ HaltHere /\ hit' = i
    BY <1>3 DEF Execute
  <2>2. /\ InPlace' /\ Apart' /\ Owned' /\ Current' = Current
        /\ Live' = Live /\ bkpt'[i].paused = ~bkpt[i].paused
        /\ \A j \in Current : /\ Home(j)' = Home(j)
                              /\ j # i => bkpt'[j] = bkpt[j]
    BY <1>2, <1>3, <2>1, MoveSound
  <2>3. PausedHere'
    BY <1>1, <1>3, <2>1, <2>2 DEF PausedHere, HaltHere
  <2>4. HitPaused'
    BY <1>2, <1>3, <2>1, <2>2 DEF HitPaused, HaltHere
  <2>5. QED
    BY <2>2, <2>3, <2>4 DEF Sound
<1>4. CASE bkpt[i].persistent /\ bkpt[i].paused
  <2>1. MoveTrap(i, -1) /\ UNCHANGED <<ip, resume, arrived, hit>>
    BY <1>4 DEF Execute
  <2>2. /\ InPlace' /\ Apart' /\ Owned' /\ Current' = Current
        /\ Live' = Live /\ bkpt'[i].paused = ~bkpt[i].paused
        /\ \A j \in Current : /\ Home(j)' = Home(j)
                              /\ j # i => bkpt'[j] = bkpt[j]
    BY <1>2, <1>4, <2>1, MoveSound
  <2>3. PausedHere'
    BY <1>1, <1>4, <2>2 DEF PausedHere
  <2>4. HitPaused'
    BY <1>1, <1>4, <2>1 DEF Sound, HitPaused
  <2>5. QED
    BY <2>2, <2>3, <2>4 DEF Sound
<1>5. CASE ~bkpt[i].persistent
  <2>1. /\ code' = Write(code, bkpt[i].pi, bkpt[i].saved)
        /\ bkpt' = [j \in Live \ {i} |-> bkpt[j]]
        /\ HaltHere /\ hit' = NoId
    BY <1>5 DEF Execute
  <2>2. /\ InPlace' /\ Apart' /\ Owned'
        /\ Live' = Live \ {i} /\ Current' = Current \ {i}
        /\ \A j \in Live' : bkpt'[j] = bkpt[j]
    BY <1>2, <2>1, RemoveSound
  <2>3. \A j \in Current' : ~bkpt'[j].paused
    BY <1>1, <2>2 DEF Current
  <2>4. PausedHere' /\ HitPaused'
    BY <2>1, <2>3 DEF PausedHere, HitPaused
  <2>5. QED
    BY <2>2, <2>4 DEF Sound
<1>6. QED
  BY <1>3, <1>4, <1>5, Fields DEF TInv, Current

LEMMA HaltSound ==
  ASSUME TInv, Sound, Spaced, Halt, ~wild'
  PROVE  Sound'
<1> DEFINE i == code[ip].data
<1>1. ip \in Addr /\ ip # 0
  BY DEF Halt, Running, TInv, TypeOK, Addr
<1>2. i \in Current /\ bkpt[i].pi = ip
  BY <1>1, TrapOwner DEF Halt, TInv
<1>3. Execute(i)
  BY DEF Halt, GoWild
<1> HIDE DEF i
<1>4. QED
  BY <1>1, <1>2, <1>3, ExecuteSound

\* Breakpoints of this code keep their places, and each of those that are of
\* code that is gone has a place of its own.
LEMMA GroupSound ==
  ASSUME TInv, Sound, Spaced, ~Moves, NEW to \in [Live -> Lines], Group(to)
  PROVE  Sound'
<1> DEFINE moved == {i \in Live : ~bkpt[i].paused}
           new(i) == ip_at_line(lines, to[i])
           sets(i) == /\ code[new(i)].op # "HALT"
                      /\ \A j \in moved : Before(j, i) => new(j) # new(i)
<1>1. /\ bkpt' = [i \in Live |->
              IF i \in moved
              THEN [bkpt[i] EXCEPT !.line = to[i], !.pi = new(i),
                      !.freed = FALSE,
                      !.saved = IF sets(i) THEN code[new(i)] ELSE @]
              ELSE bkpt[i]]
      /\ code' = [a \in Addr |->
              IF \E i \in moved : sets(i) /\ new(i) = a
              THEN Trap(CHOOSE i \in moved : sets(i) /\ new(i) = a)
              ELSE code[a]]
      /\ UNCHANGED <<lines, ip, resume, wild, arrived, hit>>
  BY DEF Group
<1>2. /\ \A i \in Live : ~bkpt[i].freed \/ bkpt[i].paused =>
                           to[i] = bkpt[i].line
      /\ \A i \in moved : lines[to[i]] # 0
      /\ \A i, j \in Live : i # j => to[i] # to[j]
  BY DEF Group, Keeps
<1>3. /\ moved \subseteq Live /\ Current \subseteq Live
      /\ \A i \in Live : i \in moved <=> ~bkpt[i].paused
      /\ \A i \in Live : i \in Current <=> ~bkpt[i].freed
  BY DEF Current
<1>4. \A i \in moved, j \in Live :
        i # j /\ lines[to[j]] # 0 => new(i) # new(j)
  <2>1. \A i \in Live : new(i) \in 1 .. N - 1
    BY HomeRange DEF TInv, TypeOK
  <2>2. ASSUME NEW i \in moved, NEW j \in Live, i # j, lines[to[j]] # 0
        PROVE  new(i) + 1 < new(j) \/ new(j) + 1 < new(i)
    BY <1>2, <1>3, <2>2 DEF Spaced, TInv, TypeOK
  <2> HIDE DEF new
  <2>3. QED
    BY <1>3, <2>1, <2>2, CodeAssumption
<1>5. ASSUME NEW i \in moved, ~bkpt[i].freed
      PROVE  /\ new(i) = bkpt[i].pi /\ to[i] = bkpt[i].line
             /\ code[new(i)] = Trap(i) /\ ~sets(i)
  <2>1. i \in Current /\ ~bkpt[i].paused /\ to[i] = bkpt[i].line
    BY <1>2, <1>3, <1>5
  <2>2. new(i) = bkpt[i].pi /\ code[new(i)] = Trap(i)
    BY <2>1 DEF Sound, InPlace, Home
  <2>3. Trap(i).op = "HALT"
    BY DEF Trap
  <2>4. QED
    BY <2>1, <2>2, <2>3
<1>6. ASSUME NEW i \in moved, bkpt[i].freed
      PROVE  /\ new(i) \in Addr /\ code[new(i)] = Orig(new(i)) /\ sets(i)
             /\ \A j \in Current : bkpt[j].pi # new(i)
  <2>1. \A j \in Current : bkpt[j].line # to[i]
    BY <1>2, <1>3, <1>6
  <2>2. to[i] \in Lines /\ lines[to[i]] # 0
    BY <1>2, <1>3
  <2>3. /\ new(i) \in Addr /\ code[new(i)] = Orig(new(i))
        /\ \A j \in Current : bkpt[j].pi # new(i)
    BY <2>1, <2>2, FreePlace DEF TInv
  <2>4. code[new(i)].op # "HALT"
    BY <2>3 DEF Orig
  <2>5. \A j \in moved : Before(j, i) => new(j) # new(i)
    <3>1. ~Before(i, i)
      <4>1. bkpt[i].line \in Nat /\ i \in Nat
        BY <1>3, Fields, IdNumbers, LineAssumption DEF TInv
      <4>2. QED
        BY <4>1 DEF Before
    <3> HIDE DEF new
    <3>2. QED
      BY <1>3, <1>4, <2>2, <3>1
  <2>6. QED
    BY <2>3, <2>4, <2>5
<1> HIDE DEF new, sets, moved
<1>7. ASSUME NEW i \in moved, bkpt[i].freed
      PROVE  code'[new(i)] = Trap(i)
  <2>1. \A j \in moved : sets(j) /\ new(j) = new(i) => j = i
    BY <1>2, <1>3, <1>4
  <2>2. i \in moved /\ sets(i) /\ new(i) = new(i)
    BY <1>6, <1>7
  <2>3. (CHOOSE j \in moved : sets(j) /\ new(j) = new(i)) = i
    BY <2>1, <2>2
  <2>4. new(i) \in Addr
    BY <1>6, <1>7
  <2>5. QED
    BY <1>1, <2>2, <2>3, <2>4
<1>8. ASSUME NEW a \in Addr, ~ \E i \in moved : bkpt[i].freed /\ new(i) = a
      PROVE  code'[a] = code[a]
  <2>1. ~ \E i \in moved : sets(i) /\ new(i) = a
    BY <1>5, <1>8
  <2>2. QED
    BY <1>1, <2>1
<1>9. Live' = Live
  BY <1>1 DEF Live
<1>10. \A i \in Live : i \notin moved => bkpt'[i] = bkpt[i]
  BY <1>1
<1>11. ASSUME NEW i \in moved
       PROVE  /\ bkpt'[i].line = to[i] /\ bkpt'[i].pi = new(i)
              /\ bkpt'[i].freed = FALSE /\ bkpt'[i].paused = FALSE
              /\ bkpt'[i].saved = IF bkpt[i].freed THEN Orig(new(i))
                                                   ELSE bkpt[i].saved
  <2> DEFINE s == IF sets(i) THEN code[new(i)] ELSE bkpt[i].saved
  <2>1. bkpt'[i] = [bkpt[i] EXCEPT !.line = to[i], !.pi = new(i),
                       !.freed = FALSE, !.saved = s]
    BY <1>1, <1>3
  <2>2. bkpt[i].paused = FALSE
    BY <1>3, Fields DEF TInv
  <2>3. s = IF bkpt[i].freed THEN Orig(new(i)) ELSE bkpt[i].saved
    BY <1>5, <1>6
  <2> HIDE DEF s
  <2>4. QED
    BY <1>3, <2>1, <2>2, <2>3, Fields DEF TInv, Breakpoint
<1>12. /\ Current' = moved \union Current
       /\ \A i \in Current' : bkpt'[i].line = to[i] /\ i \in Live
  <2>1. ASSUME NEW i \in Live
        PROVE  i \in Current' <=> i \in moved \union Current
    BY <1>3, <1>9, <1>10, <1>11 DEF Current
  <2>2. Current' \subseteq Live
    BY <1>9 DEF Current
  <2>3. QED
    BY <1>2, <1>3, <1>10, <1>11, <2>1, <2>2
<1>13. ASSUME NEW i \in Current
       PROVE  /\ bkpt'[i].pi = bkpt[i].pi /\ bkpt'[i].saved = bkpt[i].saved
              /\ bkpt'[i].line = bkpt[i].line
              /\ (bkpt'[i].paused <=> bkpt[i].paused)
              /\ code'[bkpt[i].pi] = Trap(i)
  <2>1. code'[bkpt[i].pi] = Trap(i)
    BY <1>3, <1>6, <1>8, Fields DEF TInv, Sound, InPlace
  <2>2. CASE i \in moved
    BY <1>3, <1>5, <1>11, <2>1, <2>2
  <2>3. CASE i \notin moved
    BY <1>3, <1>10, <2>1, <2>3
  <2>4. QED
    BY <2>2, <2>3
<1>14. ASSUME NEW i \in moved, bkpt[i].freed
       PROVE  /\ lines'[bkpt'[i].line] # 0 /\ ~bkpt'[i].paused
              /\ Home(i)' = bkpt'[i].pi /\ bkpt'[i].saved = Orig(bkpt'[i].pi)
              /\ code'[bkpt'[i].pi] = Trap(i)
  <2>1. /\ bkpt'[i].line = to[i] /\ bkpt'[i].pi = new(i)
        /\ bkpt'[i].paused = FALSE /\ bkpt'[i].saved = Orig(new(i))
        /\ lines' = lines
    BY <1>1, <1>11, <1>14
  <2>2. Home(i)' = new(i)
    BY <2>1 DEF Home, new
  <2>3. code'[new(i)] = Trap(i) /\ lines[to[i]] # 0
    BY <1>2, <1>7, <1>14
  <2> HIDE DEF Home
  <2>4. QED
    BY <2>1, <2>2, <2>3
<1>15. InPlace'
  <2>1. ASSUME NEW i \in Current
        PROVE  Home(i)' = Home(i)
    BY <1>1, <1>13 DEF Home
  <2> HIDE DEF Home
  <2>2. ASSUME NEW i \in Current
        PROVE  /\ lines'[bkpt'[i].line] # 0
               /\ bkpt'[i].pi = IF bkpt'[i].paused THEN Home(i)' + 1
                                                   ELSE Home(i)'
               /\ bkpt'[i].saved = Orig(bkpt'[i].pi)
               /\ code'[bkpt'[i].pi] = Trap(i)
    <3>1. /\ lines[bkpt[i].line] # 0
          /\ bkpt[i].pi = IF bkpt[i].paused THEN Home(i) + 1 ELSE Home(i)
          /\ bkpt[i].saved = Orig(bkpt[i].pi)
      BY DEF Sound, InPlace
    <3>2. lines' = lines
      BY <1>1
    <3>3. QED
      BY <1>13, <2>1, <3>1, <3>2
  <2>3. \A i \in moved \ Current : bkpt[i].freed
    BY <1>3
  <2>4. QED
    BY <1>12, <1>14, <2>2, <2>3 DEF InPlace
<1>16. Apart'
  BY <1>2, <1>12 DEF Apart
<1>17. Owned'
  <2>1. ASSUME NEW b \in Addr, code'[b] # Orig(b)
        PROVE  \E j \in Current' : bkpt'[j].pi = b /\ code'[b] = Trap(j)
    <3>1. CASE \E i \in moved : bkpt[i].freed /\ new(i) = b
      <4>1. PICK i \in moved : bkpt[i].freed /\ new(i) = b
        BY <3>1
      <4>2. i \in Current' /\ bkpt'[i].pi = b /\ code'[b] = Trap(i)
        BY <1>7, <1>11, <1>12, <4>1
      <4>3. QED
        BY <4>2
    <3>2. CASE ~ \E i \in moved : bkpt[i].freed /\ new(i) = b
      <4>1. code'[b] = code[b]
        BY <1>8, <3>2
      <4>2. PICK j \in Current : bkpt[j].pi = b /\ code[b] = Trap(j)
        BY <2>1, <4>1 DEF Sound, Owned
      <4>3. QED
        BY <1>12, <1>13, <4>1, <4>2
    <3>3. QED
      BY <3>1, <3>2
  <2>2. QED
    BY <2>1 DEF Owned
<1>18. PausedHere'
  <2>1. ASSUME NEW i \in Current', bkpt'[i].paused
        PROVE  /\ i \in Current /\ bkpt[i].paused /\ Home(i)' = Home(i)
    <3>1. i \notin moved
      BY <1>11, <2>1
    <3>2. QED
      BY <1>1, <1>12, <1>13, <2>1, <3>1 DEF Home
  <2> HIDE DEF Home
  <2>2. QED
    BY <1>1, <2>1 DEF Sound, PausedHere
<1>19. HitPaused'
  BY <1>1, <1>3, <1>9, <1>10 DEF Sound, HitPaused
<1>20. QED
  BY <1>15, <1>16, <1>17, <1>18, <1>19 DEF Sound

LEMMA SoundInit ==
  ASSUME Init
  PROVE  Sound
<1>1. Live = {} /\ Current = {}
  BY DEF Init, Live, Current
<1>2. \A a \in Addr : code[a] = Orig(a)
  BY DEF Init
<1>3. QED
  BY <1>1, <1>2
  DEF Init, Sound, InPlace, Apart, Owned, PausedHere, HitPaused

LEMMA SoundStep ==
  ASSUME Disciplined, TInv, Sound, ~wild, [Next]_vars, ~wild'
  PROVE  Sound'
<1>1. ASSUME NEW l \in Lines, NEW persist \in BOOLEAN, Toggle(l, persist)
      PROVE  Sound'
  <2> DEFINE i == ExistsAt(l)
             free == Ids \ Live
  <2>1. CASE i # NoId /\ persist
    <3>1. Delete(i) /\ i \in Live
      BY <1>1, <2>1, Found DEF Toggle, TInv
    <3>2. i \in Current
      BY <3>1 DEF Delete, GoWild, Current
    <3> HIDE DEF i
    <3>3. QED
      BY <3>1, <3>2, DeleteSound DEF Disciplined
  <2>2. CASE UNCHANGED vars
    BY <2>2 DEF vars, Sound, InPlace, Apart, Owned, PausedHere, HitPaused,
                Home, Current, Live
  <2>3. CASE GoWild
    BY <2>3 DEF GoWild
  <2>4. CASE /\ free # {} /\ Create(Min(free), l, persist)
             /\ i = NoId /\ lines[l] # 0
             /\ UNCHANGED <<lines, ip, resume, wild, arrived, hit>>
    <3> DEFINE k == Min(free)
    <3>1. k \in Ids /\ k \notin Live
      BY <2>4, FreeId DEF TInv
    <3> HIDE DEF k
    <3>2. Create(k, l, persist)
      BY <2>4 DEF k
    <3>3. \A j \in Live : bkpt[j].line # l
      BY <2>4, NotFound DEF TInv
    <3>4. ip = 0
      BY <1>1 DEF Toggle, AtPrompt
    <3>5. QED
      BY <2>4, <3>1, <3>2, <3>3, <3>4, CreateSound DEF Disciplined
  <2>5. QED
    BY <1>1, <2>1, <2>2, <2>3, <2>4 DEF Toggle
<1>2. CASE UNCHANGED vars
  BY <1>2 DEF vars, Sound, InPlace, Apart, Owned, PausedHere, HitPaused,
              Home, Current, Live
<1>3. QED
  BY <1>1, <1>2, RemoveAllSound, GroupSound, RecompileSound, CallSound,
     ResumeSound, StepSound, HaltSound
  DEF Next, User, Engine, Disciplined

LEMMA Invariance ==
  ASSUME Disciplined
  PROVE  Spec => []IInv
<1>1. Init => IInv
  BY TypesInit, SoundInit DEF IInv
<1>2. IInv /\ [Next]_vars => IInv'
  <2>1. SUFFICES ASSUME IInv, [Next]_vars
                 PROVE  IInv'
    OBVIOUS
  <2>2. wild => wild'
    BY <2>1 DEF Next, User, Engine, Toggle, RemoveAll, Group, Recompile, Call,
                Resume, Step, Halt, AtPrompt, Running, vars
  <2>3. TInv'
    BY <2>1, TypesStep DEF IInv
  <2>4. ~wild' => Sound'
    BY <2>1, <2>2, SoundStep DEF IInv
  <2>5. QED
    BY <2>3, <2>4 DEF IInv
<1>3. QED
  BY <1>1, <1>2, PTL DEF Spec

\* No instruction of the program is ever lost, if every line that is named
\* begins at an instruction of its own that is followed by the next one.
THEOREM CodeKept == Disciplined => (Spec => []CodeIntact)
<1> SUFFICES ASSUME Disciplined
             PROVE  Spec => []CodeIntact
  OBVIOUS
<1>1. IInv => CodeIntact
  <2>1. SUFFICES ASSUME Sound, NEW a \in Addr, code[a] # Orig(a)
                 PROVE  \E i \in Live : code[a] = Trap(i) /\ HoldsOrig(i, a)
    BY DEF IInv, CodeIntact
  <2>2. PICK i \in Current : bkpt[i].pi = a /\ code[a] = Trap(i)
    BY <2>1 DEF Sound, Owned
  <2>3. i \in Live /\ HoldsOrig(i, a)
    BY <2>1, <2>2 DEF Sound, InPlace, Current, HoldsOrig
  <2>4. QED
    BY <2>2, <2>3
<1>2. Spec => []IInv
  BY Invariance
<1>3. QED
  BY <1>1, <1>2, PTL

\* And the program halts each time it comes to the place of a breakpoint.
THEOREM BreaksKept == Disciplined => (Spec => []BreaksWhereSet)
<1> SUFFICES ASSUME Disciplined
             PROVE  Spec => []BreaksWhereSet
  OBVIOUS
<1>1. IInv => BreaksWhereSet
  <2>1. SUFFICES ASSUME TInv, Sound, ip # 0, arrived, NEW i \in Current,
                        Home(i) = ip
                 PROVE  code[ip] = Trap(i) /\ ~bkpt[i].paused
    BY DEF IInv, BreaksWhereSet, Running, Current, Home
  <2>2. Home(i) \in 1 .. N - 1
    BY <2>1, HomeRange, Fields DEF TInv, TypeOK, Current, Home
  <2> HIDE DEF Home
  <2>3. ~bkpt[i].paused
    BY <2>1, <2>2, CodeAssumption DEF Sound, PausedHere
  <2>4. QED
    BY <2>1, <2>3 DEF Sound, InPlace
<1>2. Spec => []IInv
  BY Invariance
<1>3. QED
  BY <1>1, <1>2, PTL

\* And a program that is resumed gets past the breakpoint that halted it.
THEOREM HaltsOnceEach == Disciplined => (Spec => HaltsOnce)
<1> SUFFICES ASSUME Disciplined
             PROVE  Spec => HaltsOnce
  OBVIOUS
<1>1. IInv /\ [Next]_vars =>
        [Running /\ ip' = 0 /\ resume' = ip /\ hit # NoId => hit' # hit]_vars
  <2>1. SUFFICES ASSUME TInv, Sound, Next, ip # 0, ip' = 0, resume' = ip,
                        hit # NoId, ~wild
                 PROVE  hit' # hit
    BY DEF IInv, Running
  <2>2. Step \/ Halt
    BY <2>1 DEF Next, User, Engine, Toggle, RemoveAll, Group, Recompile, Call,
                Resume, AtPrompt
  <2>3. CASE Step
    BY <2>1, <2>3 DEF Step, GoWild
  <2>4. CASE Halt
    <3> DEFINE i == code[ip].data
    <3>1. ip \in Addr
      BY <2>1 DEF TInv, TypeOK, Addr
    <3>2. i \in Current /\ bkpt[i].pi = ip
      BY <2>1, <2>4, <3>1, TrapOwner DEF Halt, TInv
    <3>3. Execute(i)
      BY <2>1, <2>4 DEF Halt, GoWild
    <3> HIDE DEF i
    <3>4. CASE bkpt[i].persistent /\ ~bkpt[i].paused
      BY <2>1, <3>3, <3>4 DEF Execute, Sound, HitPaused
    <3>5. CASE bkpt[i].persistent /\ bkpt[i].paused
      BY <2>1, <3>3, <3>5 DEF Execute
    <3>6. CASE ~bkpt[i].persistent
      BY <2>1, <3>3, <3>6 DEF Execute
    <3>7. QED
      BY <3>2, <3>4, <3>5, <3>6, Fields DEF TInv, Current
  <2>5. QED
    BY <2>2, <2>3, <2>4
<1>2. Spec => []IInv
  BY Invariance
<1>3. QED
  BY <1>1, <1>2, PTL DEF Spec, HaltsOnce
=============================================================================
