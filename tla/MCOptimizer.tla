---------------------------- MODULE MCOptimizer ----------------------------
EXTENDS Optimizer

\* Expressions of constants and the argument, with jumps in them.
Expressions == [
  literals |-> {0, 1, 3}, leaves |-> {"argument"},
  operators |-> {"SUB", "DIV"}, flows |-> {"if"},
  kinds |-> {}, body |-> 0, size |-> 8]

\* Variables that change between compilation and run, and calls that can be inlined.
Calling == [
  literals |-> {1}, leaves |-> {"argument", "global", "one", "same", "nothing"},
  operators |-> {"MUL", "NOT"}, flows |-> {"comma"},
  kinds |-> {"expr"}, body |-> 1, size |-> 6]

\* Statements: jumps to jumps, loops that end and loops that do not.
Jumping == [
  literals |-> {}, leaves |-> {"argument"},
  operators |-> {}, flows |-> {"if", "or"},
  kinds |-> {"expr", "empty", "if", "ifelse", "while", "do", "goto", "return"},
  body |-> 2, size |-> 9]

Three == {Expressions, Calling, Jumping}

\* Comparisons of literals.
Comparisons == {[
  literals |-> {0, 1, 2}, leaves |-> {}, operators |-> {"EQ"}, flows |-> {},
  kinds |-> {}, body |-> 0, size |-> 4]}
=============================================================================
