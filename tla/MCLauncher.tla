----------------------------- MODULE MCLauncher -----------------------------
(* A configuration of a few calls, with every kind of command. *)
EXTENDS Launcher
=============================================================================
