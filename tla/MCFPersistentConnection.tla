---------------------- MODULE MCFPersistentConnection ----------------------
(* Model-checking instance of FPersistentConnection.                       *)
EXTENDS FPersistentConnection
=============================================================================
