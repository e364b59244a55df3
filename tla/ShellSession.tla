---------------------------- MODULE ShellSession ----------------------------
(***************************************************************************)
(* What a persistent shell session promises (venv/src/process_spawner.h    *)
(* and venv/README.md, "The persistent shell"): every command is sent to   *)
(* one shell, runs there at most once and in the order given, and is       *)
(* answered after it ran and before the next one is sent, with its own     *)
(* status; once the shell has ended, a command is answered with the status *)
(* of the shell or with an error.  Commands are numbered in the order in   *)
(* which they are given.                                                   *)
(***************************************************************************)
EXTENDS Naturals, Sequences

CONSTANTS
  Own(_),     \* the status of a command
  Failures    \* what is answered when the shell has ended

VARIABLES
  up,        \* "closed", "open", or "ended": the shell is gone, the session is not closed
  asked,     \* how many commands were given
  ran,       \* the commands the shell has run
  answers    \* what was answered to each

vars == <<up, asked, ran, answers>>

Waiting == Len(answers) < asked

Init == up = "closed" /\ asked = 0 /\ ran = <<>> /\ answers = <<>>

Open == /\ up = "closed" /\ ~Waiting
        /\ up' = "open"
        /\ UNCHANGED <<asked, ran, answers>>

Ask == /\ up # "closed" /\ ~Waiting
       /\ asked' = asked + 1
       /\ UNCHANGED <<up, ran, answers>>

\* The shell runs the command that waits for its answer; `exit` ends it.
Run == /\ up = "open" /\ Waiting
       /\ \A i \in DOMAIN ran : ran[i] # asked
       /\ ran' = Append(ran, asked)
       /\ up' \in {"open", "ended"}
       /\ UNCHANGED <<asked, answers>>

End == /\ up = "open"
       /\ up' = "ended"
       /\ UNCHANGED <<asked, ran, answers>>

Answer == /\ Waiting
          /\ \E status \in {Own(asked)} \cup Failures :
               /\ status = Own(asked) => \E i \in DOMAIN ran : ran[i] = asked
               /\ status # Own(asked) => up = "ended"
               /\ answers' = Append(answers, status)
          /\ UNCHANGED <<up, asked, ran>>

Close == /\ up # "closed" /\ ~Waiting
         /\ up' = "closed"
         /\ UNCHANGED <<asked, ran, answers>>

Next == Open \/ Ask \/ Run \/ End \/ Answer \/ Close

Spec == Init /\ [][Next]_vars
=============================================================================
