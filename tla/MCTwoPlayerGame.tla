-------------------------- MODULE MCTwoPlayerGame --------------------------
(***************************************************************************)
(* TwoPlayerGame for TLC; the configurations choose the squares players    *)
(* touch, how often, and whether they wait for the screen.                 *)
(***************************************************************************)
EXTENDS TwoPlayerGame
=============================================================================
