------------------------------ MODULE MCScopes ------------------------------
(***************************************************************************)
(* Small functions for Scopes: the bounds and the kinds of statement are   *)
(* in the .cfg files.                                                      *)
(***************************************************************************)
EXTENDS Scopes
=============================================================================
