------------------------------ MODULE MCSaves ------------------------------
(***************************************************************************)
(* Saves for TLC, with a board of LastSquare + 1 squares.                  *)
(***************************************************************************)
EXTENDS Saves
=============================================================================
