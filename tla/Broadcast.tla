------------------------------ MODULE Broadcast ------------------------------
(***************************************************************************)
(* What the audio output promises those who listen, without packets, lists *)
(* or a mutex: a buffer is for everybody who listens when it begins, each  *)
(* of them hears it once, and the next one does not begin before.  Nobody  *)
(* is dropped but by failing or leaving, and who leaves hears one buffer   *)
(* more at most.  Module AudioOutput implements it.                        *)
(***************************************************************************)
CONSTANTS Writers

VARIABLES
  listening,   \* the writers that take the audio
  behind,      \* those of them that have not heard the buffer yet
  leaving,     \* the writers that have asked to be left out
  extra,       \* those of them that have heard a buffer after that
  dropped      \* the writers that have failed or been left out

vars == <<listening, behind, leaving, extra, dropped>>

Init ==
  /\ listening = {} /\ behind = {} /\ leaving = {} /\ extra = {} /\ dropped = {}

\* Nobody joins while a buffer is being heard, or comes back.
Join(w) ==
  /\ behind = {} /\ w \notin listening \union dropped
  /\ listening' = listening \union {w}
  /\ UNCHANGED <<behind, leaving, extra, dropped>>

\* The buffer before has been heard by everybody there is.
Begin ==
  /\ behind = {}
  /\ behind' = listening
  /\ UNCHANGED <<listening, leaving, extra, dropped>>

Hear(w) ==
  /\ w \in behind \ extra
  /\ behind' = behind \ {w}
  /\ extra' = extra \union ({w} \intersect leaving)
  /\ UNCHANGED <<listening, leaving, dropped>>

\* Write fails, or the writer has left.
Drop(w) ==
  /\ w \in behind
  /\ listening' = listening \ {w} /\ behind' = behind \ {w}
  /\ dropped' = dropped \union {w}
  /\ UNCHANGED <<leaving, extra>>

Leave(w) ==
  /\ w \in listening \ leaving
  /\ leaving' = leaving \union {w}
  /\ UNCHANGED <<listening, behind, extra, dropped>>

Next ==
  \/ Begin
  \/ \E w \in Writers : Join(w) \/ Hear(w) \/ Drop(w) \/ Leave(w)

Spec == Init /\ [][Next]_vars
=============================================================================
