--------------------------- MODULE MCManualDelivery ---------------------------
(***************************************************************************)
(* TLC instance of ManualDelivery.                                         *)
(***************************************************************************)
EXTENDS ManualDelivery, TLC

\* The commands are interchangeable.
Symmetry == Permutations(Commands)

===============================================================================
