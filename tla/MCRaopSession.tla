--------------------------- MODULE MCRaopSession ---------------------------
(* Model-checking instances of RaopSession: one source whose SETUPs can     *)
(* fail, one whose connections can break, and two that share the raop.      *)
EXTENDS RaopSession

OneSource == [sources |-> {"phone"}, setups |-> 2, failures |-> 1, errors |-> 0]
OneBroken == [sources |-> {"phone"}, setups |-> 1, failures |-> 0, errors |-> 1]
TwoSources == [sources |-> {"phone", "tablet"}, setups |-> 1, failures |-> 0,
               errors |-> 0]
OneOrTwo == {OneSource, OneBroken, TwoSources}
Failing == {OneSource}
=============================================================================
