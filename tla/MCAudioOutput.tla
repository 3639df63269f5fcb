--------------------------- MODULE MCAudioOutput ---------------------------
(* Model-checking instances of AudioOutput: two sessions, packets that are   *)
(* missing and come again, one stream, and two streams that come and go      *)
(* while a buffer is written.                                                *)
EXTENDS AudioOutput

Sizes == {[writers |-> {}, sessions |-> 2, positions |-> 1],
          [writers |-> {}, sessions |-> 1, positions |-> 3],
          [writers |-> {"speaker"}, sessions |-> 1, positions |-> 2],
          [writers |-> {"speaker", "file"}, sessions |-> 1, positions |-> 1]}
=============================================================================
