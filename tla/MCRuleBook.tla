----------------------------- MODULE MCRuleBook -----------------------------
(***************************************************************************)
(* Games, and the engine against the rules on each of their positions: a   *)
(* bishop, a knight and a pawn of each side come out, meet, and reach the  *)
(* kings.                                                                  *)
(***************************************************************************)
EXTENDS RuleBook
=============================================================================
