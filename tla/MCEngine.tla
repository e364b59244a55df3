------------------------------ MODULE MCEngine ------------------------------
(***************************************************************************)
(* Small interpreted programs for Engine: each run gives the constants one *)
(* of the programs below.                                                  *)
(***************************************************************************)
EXTENDS Engine

CONSTANTS Main, F, G, Num, Str

\* A table with the given entries, and d for the other functions.
Table(entries, d) ==
  [f \in Fun |-> IF f \in DOMAIN entries THEN entries[f] ELSE d]
None == [f \in Fun |-> {}]
Zero == [f \in Fun |-> 0]
OneArg == Table(F :> 1 @@ G :> 1, 0)
\* Locals hold the slots of objects and markers; temp has more than all.
Locals == Table(Temp :> 4 @@ Dtor :> 0, 3)

\* main -> f -> g: g throws numbers and strings and fails checks, f handles
\* numbers and failed checks and throws on what it caught, main handles all;
\* all three have objects to destroy.
ThrowCalls   == Table(Temp :> {Main} @@ Main :> {F} @@ F :> {G}, {})
ThrowObjects == Table(F :> {Inner} @@ G :> {Outer} @@ Main :> {Outer}, {})
ThrowHandles == Table(F :> {Num, FaultType} @@ Main :> {Num, Str, FaultType}, {})
ThrowThrows  == Table(F :> {Str} @@ G :> {Num, Str}, {})

\* main -> f, which halts and calls the method g on an object of its own;
\* the statements evaluated at the prompt call g too.
DebugCalls   == Table(Temp :> {Main} @@ Main :> {F} @@ F :> {G}, {})
DebugObjects == Table(F :> {Outer} @@ Main :> {Outer}, {})

\* main calls a native function that calls f back; f has objects, and calls g,
\* which fails a check or traps; f handles that.
NativeCalls   == Table(Temp :> {Main} @@ F :> {G}, {})
NativeBack    == Table(Main :> {F} @@ F :> {G}, {})
NativeNArgs   == Table(F :> 1 @@ G :> 2, 0)
NativeNatArgs == [f \in Fun |-> 2]
NativeObjects == Table(F :> {Outer, Inner}, {})
NativeHandles == Table(F :> {FaultType}, {})
\* The same, but the native functions take different numbers of arguments.
OddNatArgs    == Table(Main :> 2 @@ F :> 1, 0)

\* Unbounded recursion of f, by calls and by callbacks, with an object in each
\* activation and a call of a function that is not defined; the destructor
\* calls that function too, and throws.
LimitCalls   == Table(Temp :> {Main} @@ Main :> {F} @@ F :> {F, G} @@ Dtor :> {G}, {})
LimitBack    == Table(F :> {F}, {})
LimitObjects == Table(F :> {Outer}, {})
LimitThrows  == Table(Dtor :> {Num}, {})
\* A recursion that ends in an exception that f handles.
RecurseCalls   == Table(Temp :> {Main} @@ Main :> {F} @@ F :> {F}, {})
RecurseHandles == Table(F :> {Num}, {})
RecurseThrows  == Table(F :> {Num}, {})

\* main traps, and handles it; it calls f, which has an object.
TrapCalls   == Table(Temp :> {Main} @@ Main :> {F}, {})
TrapObjects == Table(F :> {Outer}, {})
TrapHandles == Table(Main :> {FaultType}, {})
=============================================================================
