------------------------------ MODULE MCEvalRun ------------------------------
(***************************************************************************)
(* TLC instance of EvalRun on its own.                                     *)
(***************************************************************************)
EXTENDS EvalRun

=============================================================================
