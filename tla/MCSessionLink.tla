---------------------------- MODULE MCSessionLink ----------------------------
(***************************************************************************)
(* TLC instance of SessionLink on its own.                                 *)
(***************************************************************************)
EXTENDS SessionLink

=============================================================================
