------------------------------- MODULE MCDacp -------------------------------
(* Model-checking instances of Dacp.                                         *)
EXTENDS Dacp
=============================================================================
