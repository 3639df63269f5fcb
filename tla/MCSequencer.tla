---------------------------- MODULE MCSequencer ----------------------------
(* Model-checking instances of Sequencer: the seqno wraps after 16.          *)
EXTENDS Sequencer
=============================================================================
