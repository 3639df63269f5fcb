------------------------------ MODULE MCVolume ------------------------------
(* Model-checking instances of Volume: a short slider around the center the *)
(* code uses.                                                               *)
EXTENDS Volume

CenterVolume == -15
NarrowMin == -17
NarrowMax == -13
\* A sink that sets its volume twice while the user turns the slider once, and
\* a user that turns it more often while the mode is switched.
BothBudgets == {<<1, 2, 0>>, <<1, 1, 1>>, <<2, 0, 1>>}

\* The sink alone.
SettingOnly == {<<0, 2, 0>>}
=============================================================================
