----------------------------- MODULE MCScreens -----------------------------
(* Model-checking instance of Screens.                                     *)
EXTENDS Screens
=============================================================================
