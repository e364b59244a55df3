----------------------------- MODULE MCWinShell -----------------------------
(* Sessions of a few calls with every kind of command. *)
EXTENDS WinShell
=============================================================================
