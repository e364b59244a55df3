--------------------------- MODULE SessionProofs ---------------------------
(***************************************************************************)
(* What holds of a session for all files, texts, objects and namespaces,   *)
(* and for sessions of any length.                                         *)
(***************************************************************************)
EXTENDS Session, SequenceTheorems, FiniteSetTheorems, TLAPS

(* What a frame of the stack may be called.                                *)
Names == Files \cup {CON}

Frame == [file: Names, rest: Seq(Line), level: Nat, time: Nat]
Console == [file |-> CON, rest |-> <<>>, level |-> 0, time |-> 0]

IsStack(s) ==
    /\ s \in Seq(Frame)
    /\ Len(s) >= 1
    /\ s[1] = Console
    /\ \A i \in 2..Len(s) : s[i].file \in Files

(* The odl of a module is the reverse of the constructions in its code.    *)
Mirror(s, t) ==
    /\ Len(t) = Len(s)
    /\ \A i \in 1..Len(s) : t[i] = s[Len(s) + 1 - i]

Entry == [file: Names, code: Seq(Objects), odl: Seq(Objects)]

FrameShape == IsStack(frames)

DiskShape ==
    /\ disk \in [Files -> [time: Nat, text: Nat]]
    /\ \A f \in Files : disk[f].text \in DOMAIN Texts[f]

SkipShape ==
    /\ skip \in 0..3
    /\ sstack \in Seq(0..3)
    /\ sstack = <<>> => skip = NO_SKIP
    /\ sstack # <<>> => sstack[1] = NO_SKIP

(* The file that was opened from the console is the one the last command   *)
(* named.                                                                  *)
LoadNoted ==
    Len(frames) > 1 => frames[2].level = load.depth /\ frames[2].file = load.file

(* The hooks: whoever armed module_open(), or had it fire, is owed a call  *)
(* of module_close().                                                      *)
HooksPaired ==
    /\ pending \in Nat
    /\ openHook \in BOOLEAN /\ isCpp \in BOOLEAN
    /\ openHook => ~(Len(frames) > 1) /\ pending > 0
    /\ isCpp => Len(frames) > 1 /\ pending > 0

(* While a program is loaded the namespaces of the command are put aside.  *)
PutAside ==
    Len(frames) > 1 /\ load.kind \in {"l", "lc"} =>
        /\ pending > 0
        /\ load.file \in Programs => strict = TRUE /\ saved = load.using

ListShape ==
    /\ code \in Seq(Objects) /\ moduleOdl \in Seq(Objects) /\ globalOdl \in Seq(Objects)
    /\ isCpp => Mirror(code, moduleOdl)
    /\ ~isCpp => code = <<>>
    /\ entries \in Seq(Entry)
    /\ \A i \in DOMAIN entries : Mirror(entries[i].code, entries[i].odl)

Balance ==
    /\ phase \in {"idle", "main", "halted", "resumed", "over"}
    /\ phase \in {"main", "resumed", "over"} => Len(frames) = 1
    /\ alive \in [Objects -> Int]
    /\ \A o \in Objects :
         alive[o] = CASE phase = "main" -> Occurs(globalOdl, o) + Constructs(o)
                      [] phase = "over" -> 0
                      [] OTHER          -> Occurs(globalOdl, o)

IInv ==
    /\ FrameShape /\ DiskShape /\ SkipShape /\ LoadNoted
    /\ HooksPaired /\ PutAside /\ ListShape /\ Balance

---------------------------------------------------------------------------
(* Stacks of files                                                         *)

(* A number that is neither 0 nor 1 is greater.                            *)
LEMMA AboveOne == ASSUME NEW n \in Nat, n >= 1, n # 1 PROVE n > 1 /\ n \in 2..n
OBVIOUS

(* A number that is not 0 has a predecessor.                               *)
LEMMA Predecessor == ASSUME NEW n \in Nat, n # 0 PROVE n - 1 \in Nat
OBVIOUS

(* A file on top of a stack makes a stack.                                 *)
LEMMA Pushed ==
    ASSUME NEW s, IsStack(s), NEW f \in Files, NEW text \in Seq(Line), NEW t \in Nat,
           sstack \in Seq(0..3)
    PROVE  LET n == Opened(s, f, text, t)
           IN  /\ IsStack(n)
               /\ Len(n) = Len(s) + 1
               /\ \A i \in 1..Len(s) : n[i] = s[i]
               /\ n[Len(n)].file = f /\ n[Len(n)].level = Len(sstack)
<1> DEFINE frame == [file |-> f, rest |-> text, level |-> Len(sstack), time |-> t]
           n == Append(s, frame)
<1>1. s \in Seq(Frame) /\ Len(s) \in Nat /\ Len(s) >= 1
  BY LenProperties DEF IsStack
<1>2. Len(sstack) \in Nat
  BY LenProperties
<1>3. frame \in Frame
  BY <1>2, TextsAssumption DEF Frame, Names
<1>4. /\ n \in Seq(Frame) /\ Len(n) = Len(s) + 1
      /\ \A i \in 1..Len(s) : n[i] = s[i]
      /\ n[Len(s) + 1] = frame
  BY <1>1, <1>3, AppendProperties
<1>5. n[1] = Console
  BY <1>1, <1>4 DEF IsStack
<1>6. ASSUME NEW i \in 2..Len(n) PROVE n[i].file \in Files
  BY <1>1, <1>4 DEF IsStack
<1>7. IsStack(n)
  BY <1>1, <1>4, <1>5, <1>6 DEF IsStack
<1>8. Opened(s, f, text, t) = n
  BY DEF Opened
<1>9. QED
  BY <1>1, <1>4, <1>7, <1>8

(* Closing a file leaves the files below it as they are.                   *)
LEMMA Popped ==
    ASSUME IsStack(frames), Len(frames) > 1
    PROVE  /\ IsStack(Front)
           /\ Len(Front) = Len(frames) - 1
           /\ \A i \in 1..Len(frames) - 1 : Front[i] = frames[i]
<1> DEFINE m == Len(frames) - 1
<1>1. frames \in Seq(Frame) /\ Len(frames) \in Nat /\ m \in Int /\ m >= 1
  BY LenProperties DEF IsStack
<1>2. \A i \in 1..m : frames[i] \in Frame
  BY <1>1, ElementOfSeq
<1> HIDE DEF m
<1>3. /\ SubSeq(frames, 1, m) \in Seq(Frame)
      /\ Len(SubSeq(frames, 1, m)) = IF 1 <= m THEN m - 1 + 1 ELSE 0
      /\ \A i \in 1..m - 1 + 1 : SubSeq(frames, 1, m)[i] = frames[1 + i - 1]
  BY <1>1, <1>2, SubSeqProperties
<1>4. /\ Front \in Seq(Frame) /\ Len(Front) = m
      /\ \A i \in 1..m : Front[i] = frames[i]
  BY <1>1, <1>3 DEF Front, m
<1>5. m = Len(frames) - 1
  BY DEF m
<1>6. QED
  BY <1>1, <1>4, <1>5 DEF IsStack

(* Only files have lines to read.                                          *)
LEMMA ReadsFile ==
    ASSUME FrameShape, NEW ops, Reading(ops)
    PROVE  /\ Len(frames) > 1 /\ ~AtConsole
           /\ Head(Top.rest) \in Line /\ Head(Top.rest)[1] \in ops
           /\ Tail(Top.rest) \in Seq(Line)
           /\ Top \in Frame /\ Top.file \in Files
<1>1. frames \in Seq(Frame) /\ Len(frames) \in Nat /\ Len(frames) >= 1
  BY LenProperties DEF FrameShape, IsStack
<1>2. Top \in Frame
  BY <1>1, ElementOfSeq DEF Top
<1>3. Top.rest \in Seq(Line) /\ Top.rest # <<>>
  BY <1>2 DEF Frame, Reading
<1>4. Len(frames) # 1
  BY <1>1, <1>3 DEF Top, FrameShape, IsStack, Console
<1>5. Head(Top.rest) \in Line /\ Tail(Top.rest) \in Seq(Line)
  BY <1>3, HeadTailProperties
<1>6. Top.file \in Files
  <2>1. Len(frames) \in 2..Len(frames)
    BY <1>1, <1>4, AboveOne
  <2>2. frames[Len(frames)].file \in Files
    BY <2>1 DEF FrameShape, IsStack
  <2>3. QED
    BY <2>2 DEF Top
<1>7. Head(Top.rest)[1] \in ops
  BY DEF Reading
<1>8. Len(frames) > 1 /\ ~AtConsole
  BY <1>1, <1>4, AboveOne DEF AtConsole
<1>9. QED
  BY <1>2, <1>5, <1>6, <1>7, <1>8

(* Taking a line changes nothing but what is left to read.                 *)
LEMMA TakesLine ==
    ASSUME FrameShape, NEW ops, Reading(ops)
    PROVE  /\ IsStack(Taken)
           /\ Len(Taken) = Len(frames)
           /\ \A i \in 1..Len(frames) : /\ Taken[i].file = frames[i].file
                                        /\ Taken[i].level = frames[i].level
           /\ Taken[Len(Taken)].file = Top.file
<1> DEFINE top == [Top EXCEPT !.rest = Tail(@)]
<1>1. /\ Len(frames) > 1 /\ Len(frames) \in Nat /\ frames \in Seq(Frame)
      /\ Top \in Frame /\ Top.file \in Files /\ Tail(Top.rest) \in Seq(Line)
  BY ReadsFile, LenProperties DEF FrameShape, IsStack
<1>2. top \in Frame /\ top.file = Top.file /\ top.level = Top.level
  BY <1>1 DEF Frame
<1>3. /\ IsStack(Front) /\ Len(Front) = Len(frames) - 1
      /\ \A i \in 1..Len(frames) - 1 : Front[i] = frames[i]
  BY <1>1, Popped DEF FrameShape
<1>4. /\ Append(Front, top) \in Seq(Frame)
      /\ Len(Append(Front, top)) = Len(frames)
      /\ \A i \in 1..Len(frames) - 1 : Append(Front, top)[i] = frames[i]
      /\ Append(Front, top)[Len(frames)] = top
  <2>1. Front \in Seq(Frame) /\ Len(Front) \in Nat
    BY <1>1, <1>3 DEF IsStack
  <2>2. QED
    BY <1>1, <1>2, <1>3, <2>1, AppendProperties
<1>5. Taken = Append(Front, top)
  BY DEF Taken
<1>6. Top = frames[Len(frames)]
  BY DEF Top
<1> HIDE DEF top
<1>7. IsStack(Taken)
  <2>1. Taken[1] = Console
    BY <1>1, <1>4, <1>5 DEF FrameShape, IsStack
  <2>2. ASSUME NEW i \in 2..Len(Taken) PROVE Taken[i].file \in Files
    BY <1>1, <1>2, <1>4, <1>5 DEF FrameShape, IsStack
  <2>3. QED
    BY <1>1, <1>4, <1>5, <2>1, <2>2 DEF IsStack
<1>8. ASSUME NEW i \in 1..Len(frames)
      PROVE Taken[i].file = frames[i].file /\ Taken[i].level = frames[i].level
  BY <1>1, <1>2, <1>4, <1>5, <1>6
<1>9. QED
  BY <1>2, <1>4, <1>5, <1>7, <1>8

(* Opening a file puts it on the stack and fires the hook if it is armed.  *)
LEMMA Opens ==
    ASSUME NEW stack, IsStack(stack), NEW f \in Files, NEW mods, NEW defs,
           NEW hook \in BOOLEAN, DiskShape, sstack \in Seq(0..3),
           Open(stack, f, mods, defs, hook)
    PROVE  /\ IsStack(frames')
           /\ Len(frames') = Len(stack) + 1
           /\ \A i \in 1..Len(stack) : frames'[i] = stack[i]
           /\ frames'[Len(frames')].file = f /\ frames'[Len(frames')].level = Len(sstack)
           /\ openHook' = FALSE
           /\ hook => ModuleOpen(f)
           /\ ~hook => UNCHANGED <<modeVars, moduleOdl>>
<1>1. /\ frames' = Opened(stack, f, Text(f), disk[f].time)
      /\ openHook' = FALSE
      /\ hook => ModuleOpen(f)
      /\ ~hook => UNCHANGED <<modeVars, moduleOdl>>
  BY DEF Open
<1>2. Text(f) \in Seq(Line) /\ disk[f].time \in Nat
  <2>1. disk[f].text \in DOMAIN Texts[f] /\ disk[f].time \in Nat
    BY DEF DiskShape
  <2>2. Texts[f] \in Seq(Seq(Line))
    BY TextsAssumption
  <2>3. DOMAIN Texts[f] = 1..Len(Texts[f])
    BY <2>2, LenProperties
  <2>4. QED
    BY <2>1, <2>2, <2>3, ElementOfSeq DEF Text
<1>3. QED
  BY <1>1, <1>2, Pushed

(* What entries count depends on entries only.                             *)
LEMMA SameEntries ==
    ASSUME entries' = entries, NEW o
    PROVE  Constructs(o)' = Constructs(o)
BY DEF Constructs

---------------------------------------------------------------------------
(* Counting objects                                                        *)

(* One more in front of a sequence is one occurrence more.                 *)
LEMMA OccursFirst ==
    ASSUME NEW s \in Seq(Objects), NEW x \in Objects, NEW o
    PROVE  /\ Occurs(s, o) \in Nat
           /\ Occurs(<<x>> \o s, o) = IF x = o THEN Occurs(s, o) + 1 ELSE Occurs(s, o)
<1> DEFINE A == {i \in DOMAIN s : s[i] = o}
           t == <<x>> \o s
           B == {i \in DOMAIN t : t[i] = o}
           C == {i + 1 : i \in A}
           shift == [i \in A |-> i + 1]
<1>1. Len(s) \in Nat /\ DOMAIN s = 1..Len(s)
  BY LenProperties
<1>2. IsFiniteSet(A)
  <2>1. IsFiniteSet(1..Len(s))
    BY <1>1, FS_Interval
  <2>2. A \in SUBSET (1..Len(s))
    BY <1>1
  <2>3. QED
    BY <2>1, <2>2, FS_Subset
<1>3. shift \in Bijection(A, C)
  <2>1. A \subseteq Nat
    BY <1>1
  <2>2. shift \in [A -> C]
    OBVIOUS
  <2>3. \A a, b \in A : shift[a] = shift[b] => a = b
    BY <2>1
  <2>4. \A c \in C : \E a \in A : shift[a] = c
    OBVIOUS
  <2>5. QED
    BY <2>2, <2>3, <2>4 DEF Bijection, Injection, Surjection, IsInjective
<1>4. IsFiniteSet(C) /\ Cardinality(C) = Cardinality(A)
  <2>1. ExistsBijection(A, C)
    BY <1>3 DEF ExistsBijection
  <2>2. QED
    BY <1>2, <2>1, FS_Bijection
<1>5. /\ DOMAIN t = 1..Len(s) + 1
      /\ t[1] = x
      /\ \A i \in 1..Len(s) : t[i + 1] = s[i]
  <2>1. <<x>> \in Seq(Objects) /\ Len(<<x>>) = 1 /\ <<x>>[1] = x
    OBVIOUS
  <2>2. /\ t \in Seq(Objects) /\ Len(t) = 1 + Len(s)
        /\ \A i \in 1..1 + Len(s) : t[i] = IF i <= 1 THEN <<x>>[i] ELSE s[i - 1]
    BY <2>1, ConcatProperties
  <2>3. DOMAIN t = 1..1 + Len(s)
    BY <2>2, LenProperties
  <2> HIDE DEF t
  <2>4. QED
    BY <1>1, <2>1, <2>2, <2>3
<1>6. B = IF x = o THEN C \cup {1} ELSE C
  <2> HIDE DEF t
  <2>1. ASSUME NEW i \in B PROVE i \in C \/ (x = o /\ i = 1)
    <3>1. i \in 1..Len(s) + 1 /\ t[i] = o
      BY <1>5
    <3>2. CASE i = 1
      BY <1>5, <3>1, <3>2
    <3>3. CASE i # 1
      <4>1. i - 1 \in 1..Len(s) /\ i = (i - 1) + 1
        BY <1>1, <3>1, <3>3
      <4>2. i - 1 \in A
        BY <1>1, <1>5, <3>1, <4>1
      <4>3. QED
        BY <4>1, <4>2
    <3>4. QED
      BY <3>2, <3>3
  <2>2. ASSUME NEW c \in C PROVE c \in B
    <3>1. PICK i \in A : c = i + 1
      OBVIOUS
    <3>2. i \in 1..Len(s) /\ s[i] = o
      BY <1>1
    <3>3. QED
      BY <1>1, <1>5, <3>1, <3>2
  <2>3. x = o => 1 \in B
    BY <1>1, <1>5
  <2>4. QED
    BY <2>1, <2>2, <2>3
<1>7. 1 \notin C
  BY <1>1
<1>8. Cardinality(A) \in Nat
  BY <1>2, FS_CardinalityType
<1>9. Occurs(s, o) = Cardinality(A) /\ Occurs(t, o) = Cardinality(B)
  BY DEF Occurs
<1>10. Cardinality(C \cup {1}) = Cardinality(C) + 1
  BY <1>4, <1>7, FS_AddElement
<1> HIDE DEF A, B, C, t
<1>11. Occurs(t, o) = IF x = o THEN Occurs(s, o) + 1 ELSE Occurs(s, o)
  BY <1>4, <1>6, <1>9, <1>10
<1>12. QED
  BY <1>8, <1>9, <1>11 DEF t

(* What the entries destroy is what they construct.                        *)
LEMMA MirrorsCount ==
    ASSUME ListShape, NEW o
    PROVE  Constructs(o) = Destroys(o) /\ Constructs(o) \in Nat
<1> DEFINE made == [i \in DOMAIN entries |-> entries[i].code]
           odl  == [i \in DOMAIN entries |-> entries[i].odl]
           Places(seqs) == UNION {{i} \X DOMAIN seqs[i] : i \in DOMAIN seqs}
           C == {p \in Places(made) : made[p[1]][p[2]] = o}
           D == {p \in Places(odl) : odl[p[1]][p[2]] = o}
           other(p) == <<p[1], Len(made[p[1]]) + 1 - p[2]>>
           turn == [p \in C |-> other(p)]
<1>1. ASSUME NEW i \in DOMAIN entries
      PROVE  /\ Len(made[i]) \in Nat /\ DOMAIN made[i] = 1..Len(made[i])
             /\ DOMAIN odl[i] = 1..Len(made[i])
             /\ \A j \in 1..Len(made[i]) : odl[i][j] = made[i][Len(made[i]) + 1 - j]
  <2>1. entries[i] \in Entry
    BY LenProperties, ElementOfSeq DEF ListShape
  <2>2. /\ entries[i].code \in Seq(Objects) /\ entries[i].odl \in Seq(Objects)
        /\ Mirror(entries[i].code, entries[i].odl)
    BY <2>1 DEF ListShape, Entry
  <2>3. QED
    BY <2>2, LenProperties DEF Mirror
<1>2. DOMAIN made = DOMAIN entries /\ DOMAIN odl = DOMAIN entries
  OBVIOUS
<1>3. IsFiniteSet(C)
  <2> DEFINE T == {{i} \X DOMAIN made[i] : i \in DOMAIN made}
             g == [i \in DOMAIN entries |-> {i} \X DOMAIN made[i]]
  <2>1. IsFiniteSet(DOMAIN entries)
    <3>1. DOMAIN entries = 1..Len(entries) /\ Len(entries) \in Int
      BY LenProperties DEF ListShape
    <3>2. IsFiniteSet(1..Len(entries))
      BY <3>1, FS_Interval
    <3>3. QED
      BY <3>1, <3>2
  <2>2. g \in Surjection(DOMAIN entries, T)
    BY <1>2 DEF Surjection
  <2>3. IsFiniteSet(T)
    BY <2>1, <2>2, FS_Surjection
  <2>4. ASSUME NEW S \in T PROVE IsFiniteSet(S)
    <3>1. PICK i \in DOMAIN entries : S = {i} \X DOMAIN made[i]
      BY <1>2
    <3>2. IsFiniteSet(DOMAIN made[i])
      BY <1>1, FS_Interval
    <3>3. IsFiniteSet({i})
      BY FS_Singleton
    <3>4. QED
      BY <3>1, <3>2, <3>3, FS_Product
  <2>5. IsFiniteSet(UNION T)
    BY <2>3, <2>4, FS_UNION
  <2>6. C \in SUBSET UNION T
    OBVIOUS
  <2>7. QED
    BY <2>5, <2>6, FS_Subset
<1>4. ASSUME NEW p
      PROVE  /\ p \in C <=> \E i \in DOMAIN entries : \E j \in 1..Len(made[i]) :
                              p = <<i, j>> /\ made[i][j] = o
             /\ p \in D <=> \E i \in DOMAIN entries : \E j \in 1..Len(made[i]) :
                              p = <<i, j>> /\ odl[i][j] = o
  BY <1>1, <1>2
<1> HIDE DEF made, odl, C, D
<1>5. ASSUME NEW p \in C PROVE other(p) \in D /\ other(other(p)) = p
  <2>0. PICK i \in DOMAIN entries : \E j \in 1..Len(made[i]) : p = <<i, j>> /\ made[i][j] = o
    BY <1>4
  <2>1. PICK j \in 1..Len(made[i]) : p = <<i, j>> /\ made[i][j] = o
    BY <2>0
  <2>2. /\ Len(made[i]) + 1 - j \in 1..Len(made[i])
        /\ Len(made[i]) + 1 - (Len(made[i]) + 1 - j) = j
    BY <1>1, <2>1
  <2>3. odl[i][Len(made[i]) + 1 - j] = o
    BY <1>1, <2>1, <2>2
  <2>4. other(p) = <<i, Len(made[i]) + 1 - j>>
    BY <2>1
  <2>5. QED
    BY <1>4, <2>1, <2>2, <2>3, <2>4
<1>6. ASSUME NEW q \in D PROVE other(q) \in C /\ other(other(q)) = q
  <2>0. PICK i \in DOMAIN entries : \E j \in 1..Len(made[i]) : q = <<i, j>> /\ odl[i][j] = o
    BY <1>4
  <2>1. PICK j \in 1..Len(made[i]) : q = <<i, j>> /\ odl[i][j] = o
    BY <2>0
  <2>2. /\ Len(made[i]) + 1 - j \in 1..Len(made[i])
        /\ Len(made[i]) + 1 - (Len(made[i]) + 1 - j) = j
    BY <1>1, <2>1
  <2>3. made[i][Len(made[i]) + 1 - j] = o
    BY <1>1, <2>1
  <2>4. other(q) = <<i, Len(made[i]) + 1 - j>>
    BY <2>1
  <2>5. QED
    BY <1>4, <2>1, <2>2, <2>3, <2>4
<1> HIDE DEF other
<1>7. turn \in Bijection(C, D)
  <2>1. turn \in [C -> D]
    BY <1>5
  <2>2. \A p, q \in C : turn[p] = turn[q] => p = q
    BY <1>5
  <2>3. \A q \in D : \E p \in C : turn[p] = q
    BY <1>6
  <2>4. QED
    BY <2>1, <2>2, <2>3 DEF Bijection, Injection, Surjection, IsInjective
<1>8. Cardinality(D) = Cardinality(C) /\ Cardinality(C) \in Nat
  <2>1. ExistsBijection(C, D)
    BY <1>7 DEF ExistsBijection
  <2>2. QED
    BY <1>3, <2>1, FS_Bijection, FS_CardinalityType
<1>9. Constructs(o) = Cardinality(C) /\ Destroys(o) = Cardinality(D)
  BY DEF Constructs, Destroys, OccursIn, C, D, made, odl
<1>10. QED
  BY <1>8, <1>9

---------------------------------------------------------------------------
(* The invariant, one step for each kind of action                         *)

(* While a file is read the program does not run.                          *)
LEMMA NotRunning ==
    ASSUME Balance, Len(frames) > 1
    PROVE  phase \in {"idle", "halted"}
<1>1. ~(Len(frames) = 1)
  OBVIOUS
<1>2. QED
  BY <1>1 DEF Balance

(* What is not a list or a count does not matter to either.                *)
LEMMA ListsKept ==
    ASSUME IInv, Len(frames) > 1,
           UNCHANGED <<code, moduleOdl, globalOdl, entries, isCpp, alive, phase>>
    PROVE  ListShape' /\ Balance'
<1>1. ListShape'
  BY DEF ListShape, IInv
<1>2. phase \in {"idle", "halted"}
  BY DEF Balance, IInv
<1>3. Balance'
  BY <1>2 DEF Balance, IInv
<1>4. QED
  BY <1>1, <1>3

(* A step that takes a line leaves the files and the hooks as they are.    *)
LEMMA TakenKeeps ==
    ASSUME IInv, NEW ops, Reading(ops), frames' = Taken,
           UNCHANGED <<openHook, pending, isCpp, strict, saved, load, disk>>
    PROVE  /\ FrameShape' /\ DiskShape' /\ LoadNoted' /\ HooksPaired' /\ PutAside'
           /\ Len(frames) > 1
<1>1. /\ IsStack(frames') /\ Len(frames') = Len(frames)
      /\ \A i \in 1..Len(frames) : /\ frames'[i].file = frames[i].file
                                   /\ frames'[i].level = frames[i].level
      /\ Len(frames) > 1 /\ Len(frames) \in Nat
  BY TakesLine, ReadsFile, LenProperties DEF IInv, FrameShape, IsStack
<1>2. FrameShape' /\ DiskShape'
  BY <1>1 DEF FrameShape, IInv, DiskShape
<1>3. LoadNoted'
  <2>1. 2 \in 1..Len(frames)
    BY <1>1
  <2>2. QED
    BY <1>1, <2>1 DEF LoadNoted, IInv
<1>4. HooksPaired' /\ PutAside'
  BY <1>1 DEF HooksPaired, PutAside, IInv
<1>5. QED
  BY <1>1, <1>2, <1>3, <1>4

(* An #if saves the present state; the first saved is "not skipping".      *)
LEMMA PushesSkip ==
    ASSUME SkipShape, sstack' = Append(sstack, skip), skip' \in 0..3
    PROVE  SkipShape'
<1>1. sstack \in Seq(0..3) /\ skip \in 0..3 /\ Len(sstack) \in Nat
  BY LenProperties DEF SkipShape
<1>2. /\ sstack' \in Seq(0..3) /\ Len(sstack') = Len(sstack) + 1
      /\ \A i \in 1..Len(sstack) : sstack'[i] = sstack[i]
      /\ sstack'[Len(sstack) + 1] = skip
  BY <1>1, AppendProperties
<1>3. sstack'[1] = NO_SKIP
  <2>1. CASE sstack = <<>>
    <3>1. Len(sstack) = 0
      BY <2>1
    <3>2. QED
      BY <1>2, <2>1, <3>1 DEF SkipShape
  <2>2. CASE sstack # <<>>
    <3>1. Len(sstack) \in Nat \ {0}
      BY <1>1, <2>2, EmptySeq
    <3>2. 1 \in 1..Len(sstack)
      BY <3>1
    <3>3. QED
      BY <1>2, <2>2, <3>2 DEF SkipShape
  <2>3. QED
    BY <2>1, <2>2
<1>4. sstack' # <<>>
  <2>1. Len(sstack') # 0
    BY <1>1, <1>2
  <2>2. QED
    BY <2>1
<1>5. QED
  BY <1>2, <1>3, <1>4 DEF SkipShape

(* An #endif goes back to what was saved last.                             *)
LEMMA PopsSkip ==
    ASSUME SkipShape, PopSkip
    PROVE  SkipShape'
<1>1. sstack \in Seq(0..3) /\ skip \in 0..3 /\ Len(sstack) \in Nat
  BY LenProperties DEF SkipShape
<1>2. CASE sstack = <<>>
  BY <1>2 DEF PopSkip, SkipShape
<1>3. CASE sstack # <<>>
  <2> DEFINE n == Len(sstack)
             m == n - 1
  <2>1. n \in Nat /\ n >= 1 /\ m \in Int /\ m >= 0
    <3>1. Len(sstack) \in Nat \ {0}
      BY <1>1, <1>3, EmptySeq
    <3>2. QED
      BY <3>1
  <2>2. \A i \in 1..n : sstack[i] \in 0..3
    BY <1>1, ElementOfSeq
  <2>3. skip' = sstack[n] /\ sstack' = SubSeq(sstack, 1, m)
    BY <1>3 DEF PopSkip
  <2>4. sstack[1] = NO_SKIP
    BY <1>3 DEF SkipShape
  <2> HIDE DEF n
  <2>5. m < n /\ n = m + 1
    BY <2>1
  <2> HIDE DEF m
  <2>6. \A i \in 1..m : sstack[i] \in 0..3
    BY <2>1, <2>2, <2>5
  <2>7. /\ sstack' \in Seq(0..3)
        /\ Len(sstack') = IF 1 <= m THEN m - 1 + 1 ELSE 0
        /\ \A i \in 1..m - 1 + 1 : sstack'[i] = sstack[1 + i - 1]
    BY <2>1, <2>3, <2>6, SubSeqProperties
  <2>8. skip' \in 0..3
    BY <2>1, <2>2, <2>3
  <2>9. sstack' = <<>> => skip' = NO_SKIP
    <3>1. sstack' = <<>> => Len(sstack') = 0
      OBVIOUS
    <3>2. sstack' = <<>> => m = 0
      BY <2>1, <2>7, <3>1
    <3>3. QED
      BY <2>3, <2>4, <2>5, <3>2
  <2>10. sstack' # <<>> => sstack'[1] = NO_SKIP
    <3>1. sstack' # <<>> => Len(sstack') \in Nat \ {0}
      BY <2>7, EmptySeq
    <3>2. sstack' # <<>> => 1 \in 1..m - 1 + 1
      BY <2>1, <2>7, <3>1
    <3>3. QED
      BY <2>4, <2>7, <3>2
  <2>11. QED
    BY <2>7, <2>8, <2>9, <2>10 DEF SkipShape
<1>4. QED
  BY <1>2, <1>3

(* Conditional compilation, #undef, and lines that are passed over.        *)
LEMMA PreprocessorLineStep ==
    ASSUME IInv, PreprocessorLine
    PROVE  IInv'
<1> DEFINE Rest == UNCHANGED <<openHook, pending, isCpp, strict, saved, load, disk,
                               code, moduleOdl, globalOdl, entries, alive, phase>>
<1>1. Rest
  BY DEF PreprocessorLine, loaderVars, modeVars, programVars, countVars, historyVars
<1>2. PICK ops : Reading(ops) /\ frames' = Taken
  BY DEF PreprocessorLine, Directive, IfDefined, If, Elif, Else, EndIf, Undef, PassOver
<1>3. SkipShape /\ skip \in 0..3
  BY DEF IInv, SkipShape
<1>4. SkipShape'
  <2>1. CASE IfDefined
    BY <1>3, <2>1, PushesSkip DEF IfDefined, NESTED_SKIP, NO_SKIP, SKIP
  <2>2. CASE If
    BY <1>3, <2>2, PushesSkip DEF If, NESTED_SKIP, NO_SKIP, SKIP
  <2>3. ElseSkip \in 0..3
    BY <1>3 DEF ElseSkip, BLOCK_SKIP, NO_SKIP, SKIP
  <2>4. CASE Elif
    BY <1>3, <2>3, <2>4 DEF Elif, SkipShape, NO_SKIP, SKIP
  <2>5. CASE Else
    BY <1>3, <2>3, <2>5 DEF Else, SkipShape
  <2>6. CASE EndIf
    BY <1>3, <2>6, PopsSkip DEF EndIf
  <2>7. CASE Undef \/ PassOver
    BY <1>3, <2>7 DEF Undef, PassOver, SkipShape
  <2>8. QED
    BY <2>1, <2>2, <2>4, <2>5, <2>6, <2>7 DEF PreprocessorLine, Directive
<1>5. QED
  BY <1>1, <1>2, <1>4, TakenKeeps, ListsKept DEF IInv

(* Macros, declarations and using directives.                              *)
LEMMA LineStep ==
    ASSUME IInv, Define \/ Declaration \/ UsingDirective
    PROVE  IInv'
<1>1. UNCHANGED <<openHook, pending, isCpp, strict, saved, load, disk,
                  code, moduleOdl, globalOdl, entries, alive, phase>>
  BY DEF Define, Declaration, UsingDirective, loaderVars, modeVars, programVars,
         countVars, historyVars
<1>2. PICK ops : Reading(ops) /\ frames' = Taken
  BY DEF Define, Declaration, UsingDirective, Take
<1>3. SkipShape'
  BY DEF Define, Declaration, UsingDirective, SkipShape, IInv
<1>4. QED
  BY <1>1, <1>2, <1>3, TakenKeeps, ListsKept DEF IInv

(* The code of a module grows at its end, its odl in front.                *)
LEMMA MirrorGrows ==
    ASSUME NEW s \in Seq(Objects), NEW t \in Seq(Objects), Mirror(s, t), NEW x \in Objects
    PROVE  /\ Append(s, x) \in Seq(Objects) /\ <<x>> \o t \in Seq(Objects)
           /\ Mirror(Append(s, x), <<x>> \o t)
<1> DEFINE n == Len(s)
           u == Append(s, x)
           v == <<x>> \o t
<1>1. n \in Nat /\ Len(t) = n /\ \A i \in 1..n : t[i] = s[n + 1 - i]
  BY LenProperties DEF Mirror
<1>2. /\ u \in Seq(Objects) /\ Len(u) = n + 1
      /\ \A i \in 1..n : u[i] = s[i]
      /\ u[n + 1] = x
  BY <1>1, AppendProperties
<1>3. /\ v \in Seq(Objects) /\ Len(v) = n + 1
      /\ v[1] = x
      /\ \A i \in 2..n + 1 : v[i] = t[i - 1]
  <2>1. <<x>> \in Seq(Objects) /\ Len(<<x>>) = 1 /\ <<x>>[1] = x
    OBVIOUS
  <2>2. /\ v \in Seq(Objects) /\ Len(v) = 1 + Len(t)
        /\ \A i \in 1..1 + Len(t) : v[i] = IF i <= 1 THEN <<x>>[i] ELSE t[i - 1]
    BY <2>1, ConcatProperties
  <2> HIDE DEF v, n
  <2>3. QED
    BY <1>1, <2>1, <2>2
<1> HIDE DEF n, u, v
<1>4. ASSUME NEW i \in 1..n + 1 PROVE v[i] = u[n + 1 + 1 - i]
  <2>1. CASE i = 1
    <3>1. n + 1 + 1 - i = n + 1
      BY <1>1, <2>1
    <3>2. QED
      BY <1>2, <1>3, <2>1, <3>1
  <2>2. CASE i # 1
    <3>1. /\ i \in 2..n + 1 /\ i - 1 \in 1..n /\ n + 1 + 1 - i \in 1..n
          /\ n + 1 - (i - 1) = n + 1 + 1 - i
      BY <1>1, <2>2
    <3>2. v[i] = t[i - 1] /\ t[i - 1] = s[n + 1 - (i - 1)]
      BY <1>1, <1>3, <3>1
    <3>3. QED
      BY <1>2, <3>1, <3>2
  <2>3. QED
    BY <2>1, <2>2
<1>5. Mirror(u, v)
  BY <1>2, <1>3, <1>4 DEF Mirror
<1>6. QED
  BY <1>2, <1>3, <1>5 DEF u, v

LEMMA GlobalObjectStep ==
    ASSUME IInv, GlobalObject
    PROVE  IInv'
<1>1. Reading({"object"}) /\ frames' = Taken
  BY DEF GlobalObject, Take
<1>2. UNCHANGED <<openHook, pending, isCpp, strict, saved, load, disk, skip, sstack, entries, phase>>
  BY DEF GlobalObject, loaderVars, modeVars, countVars, historyVars
<1>3. /\ FrameShape' /\ DiskShape' /\ LoadNoted' /\ HooksPaired' /\ PutAside'
      /\ Len(frames) > 1
  BY <1>1, <1>2, TakenKeeps
<1>4. SkipShape'
  BY <1>2 DEF SkipShape, IInv
<1>5. Arg \in Objects
  <2>1. Head(Top.rest) \in Line /\ Head(Top.rest)[1] \in {"object"}
    BY <1>1, ReadsFile DEF IInv
  <2>2. QED
    BY <2>1 DEF Arg, Line
<1>6. phase \in {"idle", "halted"} /\ isCpp \in BOOLEAN
  <2>1. phase \in {"idle", "halted"}
    <3>1. Len(frames) > 1
      BY <1>3
    <3>2. QED
      BY <3>1, NotRunning DEF IInv
  <2>2. isCpp \in BOOLEAN
    BY DEF HooksPaired, IInv
  <2>3. QED
    BY <2>1, <2>2
<1>7. CASE isCpp
  <2>1. code' = Append(code, Arg) /\ moduleOdl' = <<Arg>> \o moduleOdl
        /\ alive' = alive /\ globalOdl' = globalOdl
    BY <1>7 DEF GlobalObject
  <2>2. /\ code' \in Seq(Objects) /\ moduleOdl' \in Seq(Objects) /\ Mirror(code', moduleOdl')
    BY <1>5, <1>7, <2>1, MirrorGrows DEF ListShape, IInv
  <2>3. ListShape'
    BY <1>2, <1>7, <2>1, <2>2 DEF ListShape, IInv
  <2>4. Balance'
    BY <1>2, <1>6, <2>1 DEF Balance, IInv
  <2>5. QED
    BY <1>3, <1>4, <2>3, <2>4 DEF IInv
<1>8. CASE ~isCpp
  <2>1. /\ alive' = [alive EXCEPT ![Arg] = @ + 1] /\ globalOdl' = <<Arg>> \o globalOdl
        /\ code' = code /\ moduleOdl' = moduleOdl
    BY <1>8 DEF GlobalObject
  <2>2. globalOdl \in Seq(Objects) /\ alive \in [Objects -> Int]
    BY DEF ListShape, Balance, IInv
  <2>3. globalOdl' \in Seq(Objects)
    BY <1>5, <2>1, <2>2, ConcatProperties
  <2>4. ListShape'
    BY <1>2, <1>8, <2>1, <2>3 DEF ListShape, IInv
  <2>5. ASSUME NEW o \in Objects PROVE alive'[o] = Occurs(globalOdl', o)
    <3>1. /\ Occurs(globalOdl, o) \in Nat
          /\ Occurs(globalOdl', o) = IF Arg = o THEN Occurs(globalOdl, o) + 1
                                               ELSE Occurs(globalOdl, o)
      BY <1>5, <2>1, <2>2, OccursFirst
    <3>2. alive[o] = Occurs(globalOdl, o)
      BY <1>6 DEF Balance, IInv
    <3>3. QED
      BY <1>5, <2>1, <2>2, <3>1, <3>2
  <2>6. alive' \in [Objects -> Int]
    BY <1>5, <2>1, <2>2
  <2>7. Balance'
    BY <1>2, <1>6, <2>5, <2>6 DEF Balance
  <2>8. QED
    BY <1>3, <1>4, <2>4, <2>7 DEF IInv
<1>9. QED
  BY <1>6, <1>7, <1>8

(* finish_module() keeps every entry's odl the reverse of its code.        *)
LEMMA FinishesModule ==
    ASSUME ListShape, isCpp = TRUE, NEW p \in Names
    PROVE  /\ Finished(p) \in Seq(Entry)
           /\ \A i \in DOMAIN Finished(p) : Mirror(Finished(p)[i].code, Finished(p)[i].odl)
<1> DEFINE entry == [file |-> p, code |-> code, odl |-> moduleOdl]
           at == {i \in DOMAIN entries : entries[i].file = p}
           new == [i \in DOMAIN entries |-> IF i \in at THEN entry ELSE entries[i]]
<1>1. entry \in Entry /\ Mirror(entry.code, entry.odl)
  BY DEF ListShape, Entry
<1>2. /\ entries \in Seq(Entry) /\ Len(entries) \in Nat /\ DOMAIN entries = 1..Len(entries)
      /\ \A i \in DOMAIN entries : entries[i] \in Entry /\ Mirror(entries[i].code, entries[i].odl)
  BY LenProperties, ElementOfSeq DEF ListShape
<1> HIDE DEF entry
<1>3. CASE code = <<>>
  BY <1>2, <1>3 DEF Finished
<1>4. CASE code # <<>> /\ at = {}
  <2>1. Finished(p) = Append(entries, entry)
    BY <1>4 DEF Finished, entry
  <2>2. /\ Append(entries, entry) \in Seq(Entry)
        /\ Len(Append(entries, entry)) = Len(entries) + 1
        /\ \A i \in 1..Len(entries) : Append(entries, entry)[i] = entries[i]
        /\ Append(entries, entry)[Len(entries) + 1] = entry
    BY <1>1, <1>2, AppendProperties
  <2>3. DOMAIN Append(entries, entry) = 1..Len(entries) + 1
    BY <2>2, LenProperties
  <2>4. \A i \in 1..Len(entries) + 1 : i \in 1..Len(entries) \/ i = Len(entries) + 1
    BY <1>2
  <2>5. QED
    BY <1>1, <1>2, <2>1, <2>2, <2>3, <2>4
<1>5. CASE code # <<>> /\ at # {}
  <2>1. Finished(p) = new
    BY <1>5 DEF Finished, entry
  <2>2. new \in [1..Len(entries) -> Entry]
    BY <1>1, <1>2
  <2>3. new \in Seq(Entry)
    BY <1>2, <2>2, SeqDef
  <2>4. \A i \in DOMAIN new : Mirror(new[i].code, new[i].odl)
    BY <1>1, <1>2
  <2>5. QED
    BY <2>1, <2>3, <2>4
<1>6. QED
  BY <1>3, <1>4, <1>5

(* Back at the console no module is open any more.                         *)
LEMMA ClosesModule ==
    ASSUME IInv, NEW p \in Names, Len(frames) > 1, Len(frames') = 1, BackAtConsole(p),
           UNCHANGED <<openHook, globalOdl, alive, phase>>
    PROVE  /\ HooksPaired' /\ ListShape' /\ Balance'
           /\ openHook' = FALSE
<1>1. /\ pending \in Nat /\ isCpp \in BOOLEAN
      /\ openHook = FALSE /\ (isCpp => pending > 0)
  BY DEF HooksPaired, IInv
<1>2. phase \in {"idle", "halted"}
  BY NotRunning DEF IInv
<1>3. Balance'
  BY <1>2 DEF Balance, IInv
<1>4. CASE pending = 0
  <2>1. ~isCpp /\ UNCHANGED <<pending, isCpp, code, moduleOdl, entries>>
    BY <1>1, <1>4 DEF BackAtConsole, modeVars
  <2>2. QED
    BY <1>1, <1>3, <1>4, <2>1, ListsKept DEF HooksPaired
<1>5. CASE pending # 0
  <2>1. pending' = pending - 1 /\ isCpp' = FALSE
    BY <1>5 DEF BackAtConsole
  <2>2. HooksPaired'
    BY <1>1, <1>5, <2>1, Predecessor DEF HooksPaired
  <2>3. CASE isCpp = TRUE
    <3>1. entries' = Finished(p) /\ code' = <<>> /\ moduleOdl' = <<>>
      BY <1>5, <2>3 DEF BackAtConsole
    <3>2. ListShape
      BY DEF IInv
    <3>3. ListShape'
      BY <2>1, <2>3, <3>1, <3>2, FinishesModule DEF ListShape
    <3>4. QED
      BY <1>1, <1>3, <2>2, <3>3
  <2>4. CASE isCpp = FALSE
    <3>1. UNCHANGED <<entries, code, moduleOdl>>
      BY <1>5, <2>4 DEF BackAtConsole
    <3>2. ListShape'
      BY <2>1, <2>4, <3>1 DEF ListShape, IInv
    <3>3. QED
      BY <1>1, <1>3, <2>2, <3>2
  <2>5. QED
    BY <1>1, <2>3, <2>4
<1>6. QED
  BY <1>4, <1>5

(* The end of a file, the last one open or one that another includes.      *)
LEMMA CloseFileStep ==
    ASSUME IInv, CloseFile
    PROVE  IInv'
<1>1. /\ IsStack(frames) /\ frames \in Seq(Frame) /\ Len(frames) \in Nat /\ Len(frames) >= 1
      /\ ~(Len(frames) = 1)
  BY LenProperties DEF CloseFile, AtConsole, IInv, FrameShape, IsStack
<1>2. Len(frames) > 1
  BY <1>1, AboveOne
<1>3. /\ frames' = Front /\ IsStack(frames') /\ Len(frames') = Len(frames) - 1
      /\ \A i \in 1..Len(frames) - 1 : frames'[i] = frames[i]
  BY <1>1, <1>2, Popped DEF CloseFile
<1>4. FrameShape' /\ DiskShape'
  BY <1>3 DEF CloseFile, FrameShape, DiskShape, IInv, countVars
<1>5. SkipShape'
  BY DEF CloseFile, SkipClosed, SkipShape, IInv, NO_SKIP
<1>6. CASE Len(frames) = 2
  <2>1. Len(frames') = 1
    BY <1>3, <1>6
  <2>2. Top.file \in Names
    <3>1. Len(frames) \in 1..Len(frames)
      BY <1>1, <1>2
    <3>2. frames[Len(frames)] \in Frame
      BY <1>1, <3>1, ElementOfSeq
    <3>3. QED
      BY <3>2 DEF Top, Frame
  <2>3. BackAtConsole(Top.file) /\ UNCHANGED <<openHook, globalOdl, alive, phase>>
    BY <1>6 DEF CloseFile
  <2>4. HooksPaired' /\ ListShape' /\ Balance'
    BY <1>2, <2>1, <2>2, <2>3, ClosesModule
  <2>5. LoadNoted' /\ PutAside'
    BY <2>1 DEF LoadNoted, PutAside
  <2>6. QED
    BY <1>4, <1>5, <2>4, <2>5 DEF IInv
<1>7. CASE Len(frames) # 2
  <2>1. UNCHANGED <<openHook, pending, isCpp, strict, saved, load, code, moduleOdl, entries,
                    globalOdl, alive, phase>>
    BY <1>7 DEF CloseFile, modeVars
  <2>2. Len(frames') > 1 /\ 2 \in 1..Len(frames) - 1
    BY <1>1, <1>2, <1>3, <1>7, AboveOne
  <2>3. LoadNoted'
    BY <1>2, <1>3, <2>1, <2>2 DEF LoadNoted, IInv
  <2>4. HooksPaired' /\ PutAside'
    BY <1>2, <2>1, <2>2 DEF HooksPaired, PutAside, IInv
  <2>5. ListShape' /\ Balance'
    BY <1>2, <2>1, ListsKept
  <2>6. QED
    BY <1>4, <1>5, <2>3, <2>4, <2>5 DEF IInv
<1>8. QED
  BY <1>6, <1>7

(* A syntax error.                                                         *)
LEMMA SyntaxErrorStep ==
    ASSUME IInv, SyntaxError
    PROVE  IInv'
<1>1. Reading({"bad"})
  BY DEF SyntaxError
<1>2. /\ Len(frames) > 1 /\ Len(frames) \in Nat /\ frames \in Seq(Frame)
      /\ frames[1] = Console /\ frames[1] \in Frame /\ frames[2] \in Frame
  <2>1. Len(frames) > 1 /\ Len(frames) \in Nat /\ frames \in Seq(Frame)
    BY <1>1, ReadsFile, LenProperties DEF IInv, FrameShape, IsStack
  <2>2. 1 \in 1..Len(frames) /\ 2 \in 1..Len(frames)
    BY <2>1
  <2>3. QED
    BY <2>1, <2>2, ElementOfSeq DEF IInv, FrameShape, IsStack
<1>3. frames' = SubSeq(frames, 1, 1)
  BY DEF SyntaxError
<1>4. /\ frames' \in Seq(Frame) /\ Len(frames') = 1 /\ frames'[1] = Console
  <2>1. \A i \in 1..1 : frames[i] \in Frame
    BY <1>2
  <2>2. /\ SubSeq(frames, 1, 1) \in Seq(Frame)
        /\ Len(SubSeq(frames, 1, 1)) = IF 1 <= 1 THEN 1 - 1 + 1 ELSE 0
        /\ \A i \in 1..1 - 1 + 1 : SubSeq(frames, 1, 1)[i] = frames[1 + i - 1]
    BY <2>1, SubSeqProperties
  <2>3. QED
    BY <1>2, <1>3, <2>2
<1>5. FrameShape'
  BY <1>4 DEF FrameShape, IsStack
<1>6. SkipShape'
  BY EmptySeq DEF SyntaxError, SkipShape, NO_SKIP
<1>7. DiskShape'
  BY DEF SyntaxError, countVars, DiskShape, IInv
<1>8. /\ BackAtConsole(frames[2].file) /\ frames[2].file \in Names
      /\ UNCHANGED <<openHook, globalOdl, alive, phase>>
  BY <1>2 DEF SyntaxError, Frame
<1>9. HooksPaired' /\ ListShape' /\ Balance'
  BY <1>2, <1>4, <1>8, ClosesModule
<1>10. LoadNoted' /\ PutAside'
  BY <1>4 DEF LoadNoted, PutAside
<1>11. QED
  BY <1>5, <1>6, <1>7, <1>9, <1>10 DEF IInv

(* An included file is read in the mode of the file that includes it.      *)
LEMMA IncludeStep ==
    ASSUME IInv, Include
    PROVE  IInv'
<1>1. /\ Reading({"include"}) /\ Open(Taken, Arg, modules, defined, openHook)
      /\ UNCHANGED <<skip, sstack, pending, code, globalOdl, entries, alive, phase, disk, load>>
  BY DEF Include, Take, countVars, historyVars
<1>2. /\ Len(frames) > 1 /\ Len(frames) \in Nat
      /\ Head(Top.rest) \in Line /\ Head(Top.rest)[1] \in {"include"}
  BY <1>1, ReadsFile, LenProperties DEF IInv, FrameShape, IsStack
<1>3. Arg \in Files
  BY <1>2 DEF Arg, Line
<1>4. openHook = FALSE
  BY <1>2 DEF HooksPaired, IInv
<1>5. /\ IsStack(Taken) /\ Len(Taken) = Len(frames)
      /\ \A i \in 1..Len(frames) : /\ Taken[i].file = frames[i].file
                                   /\ Taken[i].level = frames[i].level
  BY <1>1, TakesLine DEF IInv
<1>6. /\ IsStack(frames') /\ Len(frames') = Len(frames) + 1
      /\ \A i \in 1..Len(frames) : frames'[i] = Taken[i]
      /\ openHook' = FALSE
      /\ UNCHANGED <<isCpp, strict, lastStrict, using, saved, moduleOdl>>
  <2>1. sstack \in Seq(0..3) /\ DiskShape /\ openHook \in BOOLEAN
    BY <1>4 DEF SkipShape, IInv
  <2>2. QED
    BY <1>1, <1>3, <1>4, <1>5, <2>1, Opens DEF modeVars
<1>7. FrameShape' /\ DiskShape' /\ SkipShape'
  BY <1>1, <1>6 DEF FrameShape, DiskShape, SkipShape, IInv
<1>8. LoadNoted'
  <2>1. 2 \in 1..Len(frames)
    BY <1>2
  <2>2. frames'[2].level = frames[2].level /\ frames'[2].file = frames[2].file
    BY <1>5, <1>6, <2>1
  <2>3. QED
    BY <1>1, <1>2, <2>2 DEF LoadNoted, IInv
<1>9. Len(frames') > 1
  BY <1>2, <1>6
<1>10. HooksPaired'
  BY <1>1, <1>2, <1>4, <1>6, <1>9 DEF HooksPaired, IInv
<1>11. PutAside'
  BY <1>1, <1>2, <1>6 DEF PutAside, IInv
<1>12. ListShape' /\ Balance'
  BY <1>1, <1>2, <1>6, ListsKept
<1>13. QED
  BY <1>7, <1>8, <1>10, <1>11, <1>12 DEF IInv

(* At the console the lists of objects are those of the user, and what a   *)
(* command changes besides does not count.                                 *)
LEMMA AtPrompt ==
    ASSUME IInv, Len(frames) = 1
    PROVE  /\ frames \in Seq(Frame) /\ IsStack(frames)
           /\ ~(Len(frames) > 1)
           /\ isCpp = FALSE /\ code = <<>>
BY DEF HooksPaired, ListShape, IInv, FrameShape, IsStack

(* A step that opens a file from the console.                              *)
LEMMA OpenStep ==
    ASSUME IInv, Heard, NEW kind, NEW f \in Files, Noted(kind, f),
           NEW mods, NEW defs, NEW hook \in BOOLEAN, Open(frames, f, mods, defs, hook),
           hook => pending' > 0, kind \in {"l", "lc"} => hook /\ pending' > 0,
           pending' \in Nat,
           UNCHANGED <<skip, sstack, code, globalOdl, entries, alive, phase>>
    PROVE  IInv'
<1>1. Len(frames) = 1 /\ disk' = disk /\ phase \in {"idle", "halted"}
  BY DEF Heard, AtConsole
<1>2. IsStack(frames) /\ isCpp = FALSE /\ code = <<>>
  BY <1>1, AtPrompt
<1>3. /\ IsStack(frames') /\ Len(frames') = Len(frames) + 1
      /\ frames'[Len(frames')].file = f /\ frames'[Len(frames')].level = Len(sstack)
      /\ openHook' = FALSE
      /\ hook => ModuleOpen(f)
      /\ ~hook => UNCHANGED <<modeVars, moduleOdl>>
  <2>1. sstack \in Seq(0..3) /\ DiskShape
    BY DEF SkipShape, IInv
  <2>2. CASE hook = TRUE
    BY <1>2, <2>1, <2>2, Opens
  <2>3. CASE hook = FALSE
    BY <1>2, <2>1, <2>3, Opens
  <2>4. QED
    BY <2>2, <2>3
<1>4. Len(frames') = 2 /\ Len(frames') > 1
  BY <1>1, <1>3
<1>5. /\ load'.kind = kind /\ load'.file = f /\ load'.using = using
      /\ load'.depth = Len(sstack)
  BY DEF Noted
<1>6. FrameShape' /\ DiskShape' /\ SkipShape'
  BY <1>1, <1>3 DEF FrameShape, DiskShape, SkipShape, IInv
<1>7. LoadNoted'
  BY <1>3, <1>4, <1>5 DEF LoadNoted
<1>8. /\ isCpp' \in BOOLEAN
      /\ isCpp' => pending' > 0
      /\ moduleOdl' \in Seq(Objects)
      /\ isCpp' => moduleOdl' = <<>>
  <2>1. CASE hook = TRUE
    <3>1. isCpp' = (f \in Programs) /\ moduleOdl' = <<>>
      BY <1>3, <2>1 DEF ModuleOpen
    <3>2. QED
      BY <2>1, <3>1, EmptySeq
  <2>2. CASE hook = FALSE
    <3>1. isCpp' = isCpp /\ moduleOdl' = moduleOdl
      BY <1>3, <2>2 DEF modeVars
    <3>2. QED
      BY <1>2, <3>1 DEF ListShape, IInv
  <2>3. QED
    BY <2>1, <2>2
<1>9. HooksPaired'
  BY <1>3, <1>4, <1>8 DEF HooksPaired
<1>10. PutAside'
  <2>1. ASSUME kind \in {"l", "lc"}, f \in Programs PROVE strict' = TRUE /\ saved' = using
    BY <1>3, <2>1 DEF ModuleOpen
  <2>2. QED
    BY <1>5, <2>1 DEF PutAside
<1>11. ListShape'
  <2>1. Mirror(<<>>, <<>>)
    BY DEF Mirror
  <2>2. QED
    BY <1>2, <1>8, <2>1 DEF ListShape, IInv
<1>12. Balance'
  BY <1>1 DEF Balance, IInv
<1>13. QED
  BY <1>6, <1>7, <1>9, <1>10, <1>11, <1>12 DEF IInv

(* A step at the console that opens nothing and runs nothing.              *)
LEMMA PromptStep ==
    ASSUME IInv, Len(frames) = 1, DiskShape', SkipShape', pending' \in Nat,
           openHook' \in BOOLEAN, openHook' => pending' > 0,
           UNCHANGED <<frames, isCpp, code, moduleOdl, globalOdl, entries, alive, phase>>
    PROVE  IInv'
<1>1. ~(Len(frames) > 1) /\ isCpp = FALSE
  BY AtPrompt
<1>2. FrameShape' /\ LoadNoted' /\ HooksPaired' /\ PutAside'
  BY <1>1 DEF FrameShape, LoadNoted, HooksPaired, PutAside, IInv
<1>3. ListShape'
  BY DEF ListShape, IInv
<1>4. Balance'
  BY SameEntries DEF Balance, IInv
<1>5. QED
  BY <1>2, <1>3, <1>4 DEF IInv

(* #l and #lc.                                                             *)
LEMMA LoadStep ==
    ASSUME IInv, NEW f \in Loadable, NEW kind \in {"l", "lc"}, Load(f, kind)
    PROVE  IInv'
<1>1. /\ Heard /\ Noted(kind, f)
      /\ UNCHANGED <<skip, sstack, code, globalOdl, entries, alive, phase, compiled, cut>>
  BY DEF Load
<1>2. f \in Files
  BY ProgramsAssumption
<1>3. Len(frames) = 1 /\ disk' = disk
  BY <1>1 DEF Heard, AtConsole
<1>4. DiskShape' /\ SkipShape'
  BY <1>1, <1>3 DEF DiskShape, SkipShape, IInv
<1>5. pending \in Nat /\ openHook \in BOOLEAN /\ (openHook => pending > 0)
  BY DEF HooksPaired, IInv
<1>6. ASSUME NEW mods, NEW defs, Compile(f, mods, defs) PROVE IInv'
  <2>1. pending' = pending + 1 /\ Open(frames, f, mods, defs, TRUE)
    BY <1>6 DEF Compile
  <2>2. pending' \in Nat /\ pending' > 0
    BY <1>5, <2>1
  <2>3. QED
    BY <1>1, <1>2, <2>1, <2>2, OpenStep
<1>7. ASSUME UNCHANGED <<frames, defined, openHook, pending, modeVars, moduleOdl>> PROVE IInv'
  <2>1. UNCHANGED <<frames, isCpp, moduleOdl, openHook, pending>>
    BY <1>7 DEF modeVars
  <2>2. QED
    BY <1>1, <1>3, <1>4, <1>5, <2>1, PromptStep
<1>8. \/ \E mods, defs : Compile(f, mods, defs)
      \/ UNCHANGED <<frames, defined, openHook, pending, modeVars, moduleOdl>>
  BY DEF Load
<1>9. QED
  BY <1>6, <1>7, <1>8

(* An #include that is typed.                                              *)
LEMMA TypeIncludeStep ==
    ASSUME IInv, NEW f \in Loadable, TypeInclude(f)
    PROVE  IInv'
<1>1. /\ Heard /\ Noted("include", f) /\ Open(frames, f, modules, defined, openHook)
      /\ UNCHANGED <<skip, sstack, pending, code, globalOdl, entries, alive, phase>>
  BY DEF TypeInclude
<1>2. f \in Files
  BY ProgramsAssumption
<1>3. pending' \in Nat /\ openHook \in BOOLEAN /\ (openHook => pending' > 0)
  BY <1>1 DEF HooksPaired, IInv
<1>4. ~("include" \in {"l", "lc"})
  OBVIOUS
<1>5. QED
  BY <1>1, <1>2, <1>3, <1>4, OpenStep

(* The commands that leave files, lists and counts alone.                  *)
LEMMA OtherCommandStep ==
    ASSUME IInv, LoadMissing \/ BeginLoads \/ EndIfTyped \/ \E ns \in Namespaces : TypeUsing(ns)
    PROVE  IInv'
<1>1. Len(frames) = 1
  BY DEF LoadMissing, BeginLoads, EndIfTyped, TypeUsing, Heard, TypeEndIf, AtConsole
<1>2. UNCHANGED <<frames, isCpp, code, moduleOdl, globalOdl, entries, alive, phase, disk>>
  BY DEF LoadMissing, BeginLoads, EndIfTyped, TypeUsing, Heard, TypeEndIf, ppVars, modeVars,
         loaderVars, programVars, countVars
<1>3. pending \in Nat /\ openHook \in BOOLEAN /\ (openHook => pending > 0)
  BY DEF HooksPaired, IInv
<1>4. pending' \in Nat /\ openHook' \in BOOLEAN /\ (openHook' => pending' > 0)
  <2>1. CASE LoadMissing
    <3>1. pending' = pending + 1 /\ openHook' = TRUE
      BY <2>1 DEF LoadMissing
    <3>2. QED
      BY <1>3, <3>1
  <2>2. CASE ~LoadMissing
    <3>1. UNCHANGED <<pending, openHook>>
      BY <2>2 DEF BeginLoads, EndIfTyped, TypeUsing, loaderVars
    <3>2. QED
      BY <1>3, <3>1
  <2>3. QED
    BY <2>1, <2>2
<1>5. SkipShape'
  <2>1. CASE EndIfTyped
    <3>1. SkipShape /\ PopSkip
      BY <2>1 DEF IInv, EndIfTyped, TypeEndIf
    <3>2. QED
      BY <3>1, PopsSkip
  <2>2. CASE ~EndIfTyped
    <3>1. UNCHANGED <<skip, sstack>>
      BY <2>2 DEF LoadMissing, BeginLoads, TypeUsing, ppVars
    <3>2. QED
      BY <3>1 DEF SkipShape, IInv
  <2>3. QED
    BY <2>1, <2>2
<1>6. DiskShape'
  BY <1>2 DEF DiskShape, IInv
<1>7. QED
  BY <1>1, <1>2, <1>4, <1>5, <1>6, PromptStep

(* Running the program changes phases and counts only.                     *)
LEMMA RunStep ==
    ASSUME IInv, Run \/ MainReturns \/ Resume \/ ResumedReturns \/ Quit
    PROVE  IInv'
<1>1. NoLoad
  BY DEF Run, MainReturns, Resume, ResumedReturns, Quit
<1>2. UNCHANGED <<frames, skip, sstack, openHook, pending, isCpp, strict, saved, code, moduleOdl,
                  globalOdl, entries, disk, load>>
  BY <1>1 DEF NoLoad, ppVars, loaderVars, modeVars, historyVars
<1>3. Len(frames) = 1
  BY DEF Run, MainReturns, Resume, ResumedReturns, Quit, Heard, AtConsole, Balance, IInv
<1>4. /\ FrameShape' /\ DiskShape' /\ SkipShape' /\ LoadNoted' /\ HooksPaired' /\ PutAside'
      /\ ListShape'
  BY <1>2 DEF FrameShape, DiskShape, SkipShape, LoadNoted, HooksPaired, PutAside, ListShape, IInv
<1>5. alive \in [Objects -> Int]
  BY DEF Balance, IInv
<1>6. ASSUME NEW o \in Objects
      PROVE  /\ Constructs(o)' = Constructs(o) /\ Constructs(o) \in Nat
             /\ Destroys(o) = Constructs(o)
             /\ Occurs(globalOdl, o) \in Nat
  <2>1. ListShape /\ globalOdl \in Seq(Objects)
    BY DEF ListShape, IInv
  <2>2. QED
    BY <1>2, <2>1, SameEntries, MirrorsCount, OccursFirst
<1>7. CASE Run
  <2>1. /\ phase = "idle" /\ phase' = "main"
        /\ alive' = [o \in Objects |-> alive[o] + Constructs(o)]
    BY <1>7 DEF Run
  <2>2. ASSUME NEW o \in Objects
        PROVE  alive'[o] \in Int /\ alive'[o] = Occurs(globalOdl, o) + Constructs(o)
    <3>1. alive[o] = Occurs(globalOdl, o)
      BY <2>1 DEF Balance, IInv
    <3>2. QED
      BY <1>6, <2>1, <3>1
  <2>3. alive' \in [Objects -> Int]
    BY <2>1, <2>2
  <2>4. Balance'
    BY <1>2, <1>3, <1>6, <2>1, <2>2, <2>3 DEF Balance
  <2>5. QED
    BY <1>4, <2>4 DEF IInv
<1>8. CASE MainReturns
  <2>1. /\ phase = "main" /\ phase' \in {"idle", "halted"}
        /\ alive' = [o \in Objects |-> alive[o] - Destroys(o)]
    BY <1>8 DEF MainReturns, Finalize
  <2>2. ASSUME NEW o \in Objects
        PROVE  alive'[o] \in Int /\ alive'[o] = Occurs(globalOdl, o)
    <3>1. alive[o] = Occurs(globalOdl, o) + Constructs(o)
      BY <2>1 DEF Balance, IInv
    <3>2. QED
      BY <1>6, <2>1, <3>1
  <2>3. alive' \in [Objects -> Int]
    BY <2>1, <2>2
  <2>4. Balance'
    BY <1>2, <2>1, <2>2, <2>3 DEF Balance
  <2>5. QED
    BY <1>4, <2>4 DEF IInv
<1>9. CASE Resume \/ ResumedReturns
  <2>1. /\ phase \in {"halted", "resumed"} /\ phase' \in {"idle", "halted", "resumed"}
        /\ alive' = alive
    BY <1>9 DEF Resume, ResumedReturns
  <2>2. Balance'
    BY <1>2, <1>3, <2>1 DEF Balance, IInv
  <2>3. QED
    BY <1>4, <2>2 DEF IInv
<1>10. CASE Quit
  <2>1. /\ phase \in {"idle", "halted"} /\ phase' = "over"
        /\ alive' = [o \in Objects |-> alive[o] - Occurs(globalOdl, o)]
    BY <1>10 DEF Quit
  <2>2. ASSUME NEW o \in Objects
        PROVE  alive'[o] = 0
    <3>1. alive[o] = Occurs(globalOdl, o)
      BY <2>1 DEF Balance, IInv
    <3>2. QED
      BY <1>6, <2>1, <3>1
  <2>3. alive' \in [Objects -> Int]
    BY <2>1, <2>2
  <2>4. Balance'
    BY <1>2, <1>3, <2>1, <2>2, <2>3 DEF Balance
  <2>5. QED
    BY <1>4, <2>4 DEF IInv
<1>11. QED
  BY <1>7, <1>8, <1>9, <1>10

(* Saving a file.                                                          *)
LEMMA EditStep ==
    ASSUME IInv, NEW f \in Files, Edit(f)
    PROVE  IInv'
<1>1. PICK t \in DOMAIN Texts[f] : disk' = [disk EXCEPT ![f] = [time |-> @.time + 1, text |-> t]]
  BY DEF Edit
<1>2. UNCHANGED <<frames, skip, sstack, openHook, pending, isCpp, strict, saved, code, moduleOdl,
                  globalOdl, entries, alive, phase, load>>
  BY DEF Edit, ppVars, loaderVars, modeVars, programVars, historyVars
<1>3. t \in Nat
  <2>1. Texts[f] \in Seq(Seq(Line))
    BY TextsAssumption
  <2>2. DOMAIN Texts[f] = 1..Len(Texts[f]) /\ Len(Texts[f]) \in Nat
    BY <2>1, LenProperties
  <2>3. QED
    BY <2>2
<1>4. DiskShape'
  BY <1>1, <1>3 DEF DiskShape, IInv
<1>5. /\ FrameShape' /\ SkipShape' /\ LoadNoted' /\ HooksPaired' /\ PutAside'
      /\ ListShape'
  BY <1>2 DEF FrameShape, SkipShape, LoadNoted, HooksPaired, PutAside, ListShape, IInv
<1>6. Balance'
  BY <1>2, SameEntries DEF Balance, IInv
<1>7. QED
  BY <1>4, <1>5, <1>6 DEF IInv

(* At the start of a session.                                              *)
LEMMA InitInv == Init => IInv
<1> SUFFICES ASSUME Init PROVE IInv
  OBVIOUS
<1>1. FrameShape
  <2>1. frames = <<Console>>
    BY DEF Init, PPInit, Console
  <2>2. Console \in Frame
    <3>1. <<>> \in Seq(Line)
      BY EmptySeq
    <3>2. CON \in Names
      BY DEF Names
    <3>3. QED
      BY <3>1, <3>2 DEF Console, Frame
  <2>3. QED
    BY <2>1, <2>2 DEF FrameShape, IsStack
<1>2. ~(Len(frames) > 1) /\ Len(frames) = 1
  BY DEF Init, PPInit
<1>3. DiskShape
  <2>1. ASSUME NEW f \in Files PROVE 1 \in DOMAIN Texts[f]
    <3>1. Texts[f] \in Seq(Seq(Line)) /\ Texts[f] # <<>>
      BY TextsAssumption
    <3>2. Len(Texts[f]) \in Nat \ {0} /\ DOMAIN Texts[f] = 1..Len(Texts[f])
      BY <3>1, EmptySeq, LenProperties
    <3>3. QED
      BY <3>2
  <2>2. QED
    BY <2>1 DEF Init, DiskShape
<1>4. SkipShape
  BY EmptySeq DEF Init, PPInit, SkipShape, NO_SKIP
<1>5. LoadNoted /\ HooksPaired /\ PutAside
  BY <1>2 DEF Init, LoadNoted, HooksPaired, PutAside
<1>6. ListShape
  BY EmptySeq DEF Init, ListShape
<1>7. Balance
  <2>1. ASSUME NEW o PROVE Occurs(<<>>, o) = 0
    <3>1. {i \in DOMAIN <<>> : <<>>[i] = o} = {}
      OBVIOUS
    <3>2. QED
      BY <3>1, FS_EmptySet DEF Occurs
  <2>2. globalOdl = <<>> /\ phase = "idle" /\ alive = [o \in Objects |-> 0]
    BY DEF Init
  <2>3. QED
    BY <1>2, <2>1, <2>2 DEF Balance
<1>8. QED
  BY <1>1, <1>3, <1>4, <1>5, <1>6, <1>7 DEF IInv

(* Every step keeps the invariant.                                         *)
LEMMA NextInv == IInv /\ [Next]_vars => IInv'
<1> SUFFICES ASSUME IInv, [Next]_vars PROVE IInv'
  OBVIOUS
<1>1. CASE UNCHANGED vars
  <2>1. UNCHANGED <<frames, skip, sstack, openHook, pending, isCpp, strict, saved, code,
                    moduleOdl, globalOdl, entries, alive, phase, disk, load>>
    BY <1>1 DEF vars, ppVars, loaderVars, modeVars, programVars, countVars, historyVars
  <2>2. /\ FrameShape' /\ DiskShape' /\ SkipShape' /\ LoadNoted' /\ HooksPaired' /\ PutAside'
        /\ ListShape'
    BY <2>1 DEF FrameShape, DiskShape, SkipShape, LoadNoted, HooksPaired, PutAside,
                ListShape, IInv
  <2>3. Balance'
    BY <2>1, SameEntries DEF Balance, IInv
  <2>4. QED
    BY <2>2, <2>3 DEF IInv
<1>2. CASE PreprocessorLine \/ Include \/ Define \/ Declaration \/ UsingDirective \/ GlobalObject
  BY <1>2, PreprocessorLineStep, IncludeStep, LineStep, GlobalObjectStep
<1>3. CASE SyntaxError \/ CloseFile
  BY <1>3, SyntaxErrorStep, CloseFileStep
<1>4. CASE \E f \in Loadable, kind \in {"l", "lc"} : Load(f, kind)
  BY <1>4, LoadStep
<1>5. CASE \E f \in Loadable : TypeInclude(f)
  BY <1>5, TypeIncludeStep
<1>6. CASE LoadMissing \/ BeginLoads \/ EndIfTyped \/ \E ns \in Namespaces : TypeUsing(ns)
  BY <1>6, OtherCommandStep
<1>7. CASE Run \/ MainReturns \/ Resume \/ ResumedReturns \/ Quit
  BY <1>7, RunStep
<1>8. CASE \E f \in Files : Edit(f)
  BY <1>8, EditStep
<1>9. CASE Over
  BY <1>1, <1>9 DEF Over
<1>10. QED
  BY <1>1, <1>2, <1>3, <1>4, <1>5, <1>6, <1>7, <1>8, <1>9 DEF Next

(* The invariant holds of every reachable state of a session.              *)
THEOREM SessionInv == Spec => []IInv
<1>1. QED
  BY InitInv, NextInv, PTL DEF Spec

---------------------------------------------------------------------------
(* What the user relies on                                                 *)

(* Only the end of a file and a syntax error lead back to the console.     *)
LEMMA ComesBack ==
    ASSUME IInv, [Next]_vars, ~AtConsole, AtConsole'
    PROVE  SyntaxError \/ (CloseFile /\ Len(frames) = 2)
<1>1. Len(frames) # 1 /\ Len(frames') = 1
  BY DEF AtConsole
<1>2. ASSUME NEW ops, Reading(ops) PROVE Len(Taken) = Len(frames)
  BY <1>2, TakesLine DEF IInv
<1>3. ~PreprocessorLine
  BY <1>1, <1>2 DEF PreprocessorLine, Directive, IfDefined, If, Elif, Else, EndIf, Undef, PassOver
<1>4. ~Define /\ ~Declaration /\ ~UsingDirective /\ ~GlobalObject
  BY <1>1, <1>2 DEF Define, Declaration, UsingDirective, GlobalObject, Take
<1>5. ~Include
  <2>1. SUFFICES ASSUME Include PROVE FALSE
    OBVIOUS
  <2>2. Reading({"include"}) /\ frames' = Opened(Taken, Arg, Text(Arg), disk[Arg].time)
    BY <2>1 DEF Include, Take, Open
  <2>3. Len(Taken) = Len(frames) /\ IsStack(Taken)
    BY <2>2, TakesLine DEF IInv
  <2>4. Taken \in Seq(Frame) /\ Len(Taken) \in Nat /\ Len(Taken) >= 1
    BY <2>3, LenProperties DEF IsStack
  <2>5. Len(frames') = Len(Taken) + 1
    BY <2>2, <2>4, AppendProperties DEF Opened
  <2>6. QED
    BY <1>1, <2>4, <2>5
<1>6. ~(\E f \in Loadable, kind \in {"l", "lc"} : Load(f, kind)) /\ ~(\E f \in Loadable : TypeInclude(f))
  BY DEF Load, TypeInclude, Heard
<1>7. /\ ~LoadMissing /\ ~BeginLoads /\ ~EndIfTyped /\ ~(\E ns \in Namespaces : TypeUsing(ns))
      /\ ~Run /\ ~Resume /\ ~Quit
  BY DEF LoadMissing, BeginLoads, EndIfTyped, TypeEndIf, TypeUsing, Run, Resume, Quit, Heard
<1>8. /\ ~MainReturns /\ ~ResumedReturns /\ ~(\E f \in Files : Edit(f))
      /\ ~Over /\ ~(UNCHANGED vars)
  BY <1>1 DEF MainReturns, ResumedReturns, Edit, Over, vars, NoLoad, ppVars
<1>9. ASSUME CloseFile PROVE Len(frames) = 2
  <2>1. Len(frames) \in Nat /\ Len(frames) >= 1
    BY LenProperties DEF IInv, FrameShape, IsStack
  <2>2. Len(frames) > 1
    BY <1>1, <2>1, AboveOne
  <2>3. Len(frames') = Len(frames) - 1
    BY <1>9, <2>2, Popped DEF CloseFile, IInv, FrameShape
  <2>4. \A n \in Nat : 1 = n - 1 => n = 2
    OBVIOUS
  <2>5. QED
    BY <1>1, <2>1, <2>3, <2>4
<1>10. QED
  BY <1>3, <1>4, <1>5, <1>6, <1>7, <1>8, <1>9 DEF Next

(* A command that began with a level skip stack gives back a console that  *)
(* listens, however the files it reads are nested and however they end: an *)
(* error resets skipping, and the last file to close either left the skip  *)
(* stack as it found it, empty, with "not skipping" restored from its      *)
(* bottom, or is warned about, and close() resets it.                      *)
THEOREM PromptHeard == Spec => PromptListens
<1>1. IInv /\ [Next]_vars => [~AtConsole /\ AtConsole' /\ load.depth = 0 => skip' = NO_SKIP]_vars
  <2> SUFFICES ASSUME IInv, [Next]_vars, ~AtConsole, AtConsole', load.depth = 0
               PROVE  skip' = NO_SKIP
    OBVIOUS
  <2>1. SyntaxError \/ (CloseFile /\ Len(frames) = 2)
    BY ComesBack
  <2>2. CASE SyntaxError
    BY <2>2 DEF SyntaxError
  <2>3. CASE CloseFile /\ Len(frames) = 2
    <3>1. Top.level = 0
      BY <2>3 DEF Top, LoadNoted, IInv
    <3>2. sstack \in Seq(0..3) /\ (sstack = <<>> => skip = NO_SKIP)
      BY DEF SkipShape, IInv
    <3>3. Len(sstack) = 0 => skip = NO_SKIP
      BY <3>2, EmptySeq
    <3>4. skip' = IF Len(sstack) # 0 THEN NO_SKIP ELSE skip
      BY <2>3, <3>1 DEF CloseFile, SkipClosed, Mismatched
    <3>5. QED
      BY <3>3, <3>4
  <2>4. QED
    BY <2>1, <2>2, <2>3
<1>2. QED
  BY <1>1, SessionInv, PTL DEF Spec, PromptListens

(* Loading a program, with #l or with #lc, leaves the user's using         *)
(* directives as they were: module_close() is owed when the console comes  *)
(* back, and what clean_namespaces() put aside is what the command found.  *)
THEOREM NamespacesKept == Spec => UsingsKept
<1> DEFINE Kept == /\ ~AtConsole /\ AtConsole'
                   /\ load.kind \in {"l", "lc"} /\ load.file \in Programs
                   => using' = load.using
<1>1. IInv /\ [Next]_vars => [Kept]_vars
  <2> SUFFICES ASSUME IInv, [Next]_vars, ~AtConsole, AtConsole',
                      load.kind \in {"l", "lc"}, load.file \in Programs
               PROVE  using' = load.using
    OBVIOUS
  <2>1. Len(frames) > 1
    BY AboveOne, LenProperties DEF AtConsole, IInv, FrameShape, IsStack
  <2>2. pending \in Nat /\ pending > 0 /\ strict = TRUE /\ saved = load.using
    BY <2>1 DEF PutAside, HooksPaired, IInv
  <2>3. \E p : BackAtConsole(p)
    BY ComesBack DEF SyntaxError, CloseFile
  <2>4. using' = Restored
    BY <2>2, <2>3 DEF BackAtConsole
  <2>5. QED
    BY <2>2, <2>4 DEF Restored
<1>2. QED
  BY <1>1, SessionInv, PTL DEF Spec, UsingsKept

(* However often modules are loaded, edited and loaded again, main() runs  *)
(* with each object of the program constructed once, none outlives it, and *)
(* none is left at the end: an entry's odl is the reverse of its code.     *)
THEOREM ObjectsBalance == Spec => []ObjectsOnce
<1>1. IInv => ObjectsOnce
  BY DEF IInv, Balance, ObjectsOnce
<1>2. QED
  BY <1>1, SessionInv, PTL
=============================================================================
