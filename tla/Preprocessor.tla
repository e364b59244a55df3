---------------------------- MODULE Preprocessor ----------------------------
(***************************************************************************)
(* The token stream's view of the files being read (tokens.cpp): a stack   *)
(* of open files over the console, the table of macros, and the state of   *)
(* conditional compilation, which is one variable, m_skip, saved at every  *)
(* #if on a stack that all the open files share.                           *)
(*                                                                         *)
(* A file's text is a sequence of lines <<op, argument>>; what a line does *)
(* to the rest of the interpreter is Session's business.                   *)
(***************************************************************************)
EXTENDS Naturals, Sequences

NO_SKIP     == 0      \* not skipping
SKIP        == 1      \* skipping until a branch of this #if is taken
BLOCK_SKIP  == 2      \* a branch has been taken: skip the others
NESTED_SKIP == 3      \* inside a block that is skipped

CON == "CON"          \* the console, always at the bottom of the stack

VARIABLES
    frames,     \* open files, innermost last: [file, rest, level, time];
                \*   level is the entry of mOldSkip that close() compares
    skip,       \* m_skip
    sstack,     \* sstack: the values of m_skip to return to
    defined     \* mMacroTable: the macros defined now

ppVars == <<frames, skip, sstack, defined>>

PPInit ==
    /\ frames = <<[file |-> CON, rest |-> <<>>, level |-> 0, time |-> 0]>>
    /\ skip = NO_SKIP
    /\ sstack = <<>>
    /\ defined = {}

Top      == frames[Len(frames)]
Front    == SubSeq(frames, 1, Len(frames) - 1)
OpenFiles == {frames[i].file : i \in 2..Len(frames)}
AtConsole == Len(frames) = 1

(* The line about to be processed, and the stack once it has been taken.   *)
Reading(ops) == /\ Top.rest # <<>>
                /\ Head(Top.rest)[1] \in ops
Arg  == Head(Top.rest)[2]
Taken == Append(Front, [Top EXCEPT !.rest = Tail(@)])

(* insert_stream(): the level of the skip stack is noted with the file.    *)
Opened(stack, file, text, time) ==
    Append(stack, [file |-> file, rest |-> text, level |-> Len(sstack), time |-> time])

(* close(): a file that does not leave the skip stack as deep as it found  *)
(* it is warned about, and skipping ends; the stack is not put right.      *)
Mismatched == Top.level # Len(sstack)

SkipClosed_NotReset == skip
SkipClosed == IF Mismatched THEN NO_SKIP ELSE skip

(* An #elif or #else that has an #if to belong to.                         *)
ElseSkip == CASE skip = NO_SKIP -> BLOCK_SKIP
              [] skip = SKIP    -> NO_SKIP
              [] OTHER          -> skip

---------------------------------------------------------------------------
(* The directives of do_prepro_directive() that stay inside the            *)
(* preprocessor.  A misplaced #else, #elif or #endif is a fatal error,     *)
(* which fetch_line() catches in interactive mode: the line has no effect. *)

(* #ifdef, #ifndef: a block opened inside a skipped one is nested in it.   *)
IfDefined ==
    /\ Reading({"ifdef", "ifndef"})
    /\ sstack' = Append(sstack, skip)
    /\ skip' = IF skip # NO_SKIP THEN NESTED_SKIP
               ELSE IF (Arg \in defined) = (Head(Top.rest)[1] = "ifdef")
                    THEN NO_SKIP ELSE SKIP
    /\ frames' = Taken
    /\ UNCHANGED defined

(* #if with a constant expression that is "0" or "1".                      *)
If ==
    /\ Reading({"if"})
    /\ sstack' = Append(sstack, skip)
    /\ skip' = IF skip # NO_SKIP THEN NESTED_SKIP
               ELSE IF Arg = "1" THEN NO_SKIP ELSE SKIP
    /\ frames' = Taken
    /\ UNCHANGED defined

Elif ==
    /\ Reading({"elif"})
    /\ skip' = IF sstack = <<>> THEN skip
               ELSE IF ElseSkip # NO_SKIP THEN ElseSkip
               ELSE IF Arg = "1" THEN NO_SKIP ELSE SKIP
    /\ frames' = Taken
    /\ UNCHANGED <<sstack, defined>>

Else ==
    /\ Reading({"else"})
    /\ skip' = IF sstack = <<>> THEN skip ELSE ElseSkip
    /\ frames' = Taken
    /\ UNCHANGED <<sstack, defined>>

PopSkip ==
    IF sstack = <<>> THEN UNCHANGED <<skip, sstack>>
    ELSE /\ skip' = sstack[Len(sstack)]
         /\ sstack' = SubSeq(sstack, 1, Len(sstack) - 1)

EndIf ==
    /\ Reading({"endif"})
    /\ PopSkip
    /\ frames' = Taken
    /\ UNCHANGED defined

Undef ==
    /\ Reading({"undef"})
    /\ defined' = IF skip = NO_SKIP THEN defined \ {Arg} ELSE defined
    /\ frames' = Taken
    /\ UNCHANGED <<skip, sstack>>

(* Every other line is passed over while skipping.                         *)
PassOver ==
    /\ Reading({"include", "define", "decl", "object", "using", "bad"})
    /\ skip # NO_SKIP
    /\ frames' = Taken
    /\ UNCHANGED <<skip, sstack, defined>>

(* The console user's own #endif, the only line a skipping console hears.  *)
TypeEndIf ==
    /\ AtConsole
    /\ sstack # <<>>
    /\ PopSkip
    /\ UNCHANGED <<frames, defined>>

Directive == IfDefined \/ If \/ Elif \/ Else \/ EndIf \/ Undef \/ PassOver
=============================================================================
