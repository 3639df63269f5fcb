------------------------------ MODULE Playout -------------------------------
(***************************************************************************)
(* What the sequencer promises the audio output, without sequence numbers, *)
(* retries or goroutines: of a stream of packets each one is played in its *)
(* turn, early ones wait, and a turn is passed over only to reach the      *)
(* first packet that is waiting.  Module Sequencer implements it.          *)
(*                                                                         *)
(* The promise is kept until a gap is removed while packets before it are  *)
(* waiting (sequencer.remove); from then to the next restart it is off.    *)
(***************************************************************************)
EXTENDS Integers

VARIABLES
  started,   \* a packet has been played since the last restart
  next,      \* the position whose turn it is
  ahead,     \* the positions that wait for their turn
  played,    \* the position played last, -1 at first
  broken     \* a gap behind a waiting packet has been removed

vars == <<started, next, ahead, played, broken>>

Init ==
  /\ started = FALSE /\ next = 0
  /\ ahead = {}
  /\ played = -1
  /\ broken = FALSE

\* The first packet of a stream is played at once, wherever the stream is.
Start ==
  /\ ~started
  /\ started' = TRUE
  /\ played' \in Nat /\ next' = played' + 1
  /\ UNCHANGED <<ahead, broken>>

\* The packet whose turn it is arrives, or has been waiting.
Play ==
  /\ started
  /\ played' = next /\ next' = next + 1
  /\ ahead' = ahead \ {next}
  /\ UNCHANGED <<started, broken>>

\* A packet arrives before its turn.
Wait(i) ==
  /\ started /\ i > next
  /\ ahead' = ahead \union {i}
  /\ UNCHANGED <<started, next, played, broken>>

\* What is missing before the first packet that waits is given up.
Skip(i) ==
  /\ started /\ i > next
  /\ i \in ahead /\ \A j \in ahead : j >= i
  /\ next' = i
  /\ UNCHANGED <<started, ahead, played, broken>>

\* What is missing behind some packet that waits is given up: the turns are
\* no longer right.
Break ==
  /\ started
  /\ broken' = TRUE
  /\ next' \in Nat
  /\ UNCHANGED <<started, ahead, played>>

Disorder ==
  /\ started /\ broken
  /\ next' \in Nat /\ played' \in Int /\ ahead' \subseteq Nat
  /\ UNCHANGED <<started, broken>>

\* flush() begins a new stream.
Restart ==
  /\ started' = FALSE /\ next' = 0
  /\ ahead' = {}
  /\ broken' = FALSE
  /\ UNCHANGED played

Next ==
  \/ Start \/ Play
  \/ \E i \in ahead' : Wait(i)
  \/ \E i \in ahead : Skip(i)
  \/ Break \/ Disorder \/ Restart

Spec == Init /\ [][Next]_vars
=============================================================================
