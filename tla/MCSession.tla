----------------------------- MODULE MCSession -----------------------------
EXTENDS Session

(* A program of two headers, each guarded; a.h may include b.h first.      *)
MCFiles    == {"a.h", "b.h", "m.cpp"}
MCPrograms == {"m.cpp"}

Guarded(m, lines) == <<<<"ifndef", m>>, <<"define", m>>>> \o lines \o <<<<"endif", "">>>>

MCTexts == [
    f \in MCFiles |->
      CASE f = "a.h" -> <<
              Guarded("A", <<<<"decl", "">>>>),
              Guarded("A", <<<<"include", "b.h">>, <<"decl", "">>>>),
              <<<<"endif", "">>, <<"ifdef", "A">>, <<"decl", "">>>> >>
        [] f = "b.h" -> <<
              Guarded("B", <<<<"using", "std">>, <<"decl", "">>>>),
              Guarded("B", <<<<"bad", "">>, <<"decl", "">>>>) >>
        [] f = "m.cpp" -> <<
              << <<"include", "a.h">>, <<"include", "b.h">>, <<"object", "p">>, <<"decl", "">> >>,
              << <<"include", "b.h">>, <<"if", "0">>, <<"object", "p">>,
                 <<"elif", "1">>, <<"object", "q">>, <<"else", "">>, <<"undef", "B">>,
                 <<"endif", "">>, <<"undef", "A">>, <<"decl", "">> >> >> ]
=============================================================================
