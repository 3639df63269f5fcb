----------------------------- MODULE MCService ------------------------------
(* Model-checking instances of Service.                                      *)
EXTENDS Service
=============================================================================
