------------------------------ MODULE MCControl ------------------------------
(***************************************************************************)
(* Instances of Control: sources, songs and sinks.                         *)
(***************************************************************************)
EXTENDS Control

Of(kind) == [kind |-> kind, says |-> "all", body |-> FALSE]
With(kind) == [kind |-> kind, says |-> "all", body |-> TRUE]
Bad(kind) == [kind |-> kind, says |-> "wrong", body |-> ReadsBody(Of(kind))]
Announcing(what) == [With("ANNOUNCE") EXCEPT !.says = what]

NoCalls == [callback \in Callbacks |-> <<>>]
Leaf(tag, content) == <<[depth |-> 1, tag |-> tag, content |-> content]>>
Node(entries) ==
  LET inner == FlattenSeq(entries)
  IN  Leaf("mlit", <<>>) \o [i \in DOMAIN inner |-> [inner[i] EXCEPT !.depth = @ + 1]]
Title == Leaf("minm", <<1, 0>>)
Quoted == Leaf("minm", <<1, 2>>)
Angled == Leaf("minm", <<3>>)
Count == Leaf("astn", <<1, 0, 1>>)
Tracks == {Node(<<>>), Node(<<Title>>), Node(<<Title, Node(<<>>), Count>>),
           Node(<<Node(<<Count, Title>>), Leaf("asda", <<1>>)>>), Leaf("zzzz", <<0>>),
           Node(<<Quoted, Leaf("aeCs", <<0>>), Leaf("apro", <<1>>), Leaf("aeCS", <<1>>)>>),
           Node(<<Angled, Leaf("aeCD", <<1, 0>>)>>), Node(<<Title, Leaf(Odd, <<1>>)>>)}
Song(tree) == [tree |-> tree, data |-> Data[tree]]
Cut == [Song(Node(<<Title>>)) EXCEPT !.data = SubSeq(@, 1, 3)]

Quiet == [script |-> [c \in Connections |-> <<>>], pipelined |-> FALSE, calls |-> NoCalls,
          app |-> <<>>, failures |-> 0, sockets |-> 0, art |-> FALSE, format |-> "",
          song |-> Song(Node(<<>>))]

\* One source and a sink that sends commands and sets the volume when told to play
\* and to stop.
Leader == CHOOSE c \in Connections : TRUE
One(script) == [c \in Connections |-> IF c = Leader THEN script ELSE <<>>]

Session ==
  {[Quiet EXCEPT
     !.script = One(<<Of("OPTIONS"), With("ANNOUNCE"), Of("SETUP"), With("volume"),
                      With("progress"), Of("RECORD"), With("image"), Of("TEARDOWN"),
                      With("ANNOUNCE"), Of("SETUP"), Of("FLUSH"), Of("PAUSE"),
                      Of("TEARDOWN")>>),
     !.calls = [NoCalls EXCEPT !["Play"] = <<"Volume", "Command">>, !["Stopped"] = <<"Command">>,
                               !["SetProgress"] = <<"VolumeMode">>],
     !.failures = 1, !.art = art] : art \in BOOLEAN}

\* All shapes of a song.
Songs ==
  {[Quiet EXCEPT !.script = One(<<With("dmap"), Of("OPTIONS"), With("dmap")>>),
                 !.format = format, !.song = song]
     : format \in {"", "text", "xml", "json"}, song \in {Song(tree) : tree \in Tracks} \union {Cut}}

\* Two sources, and a sink that sends commands from SetVolume: reports fill their
\* channel, and settings of the sink theirs.
Both(first, second) == [c \in Connections |-> IF c = Leader THEN first ELSE second]

Two ==
  LET tells == [Quiet EXCEPT !.calls = [NoCalls EXCEPT !["SetVolume"] = <<"Command">>,
                                                       !["Play"] = <<"VolumeMode">>]]
  IN  {[tells EXCEPT !.script = Both(<<With("volume"), With("volume")>>, <<With("volume")>>),
                     !.failures = 1],
       [tells EXCEPT !.script = Both(<<With("volume")>>, <<Of("RECORD")>>),
                     !.app = <<"Volume", "Volume", "Command">>, !.failures = 1]}

\* What is left out of the properties: a sink that calls from Connected and from
\* SetVolume, sources that pipeline, that send bodies nobody reads, or errors.
Others ==
  {[Quiet EXCEPT !.script = One(<<With("volume"), Of("OPTIONS")>>), !.app = <<"Command">>,
                 !.calls = [NoCalls EXCEPT !["Connected"] = <<"VolumeMode">>,
                                           !["SetVolume"] = <<"VolumeMode">>]],
   [Quiet EXCEPT !.script = One(<<Of("OPTIONS"), With("volume"), Of("RECORD")>>),
                 !.pipelined = TRUE],
   [Quiet EXCEPT !.script = One(<<Of("GET_PARAMETER"), Of("FLUSH")>>), !.pipelined = TRUE],
   [Quiet EXCEPT !.script = One(<<With("other"), Of("PAUSE"), Of("GET_PARAMETER")>>)],
   [Quiet EXCEPT !.script = One(<<Of("TEARDOWN")>>)]}

Errors ==
  {[Quiet EXCEPT !.script = One(<<Bad("OPTIONS"), Bad("SETUP"), Of("UNKNOWN"), Bad("volume"),
                                  With("GET_PARAMETER"), Of("FLUSH")>>)]}

\* Connections that cannot be opened, and announcements that cannot be used.
Unopened ==
  {[Quiet EXCEPT !.script = One(<<With("ANNOUNCE"), Of("SETUP"), Of("TEARDOWN"), Of("SETUP"),
                                  Of("SETUP"), Of("TEARDOWN")>>), !.sockets = 2]}
Announcements ==
  {[Quiet EXCEPT !.script = One(<<Announcing(first), With("progress"), Announcing(second),
                                  With("progress")>>)]
     : first, second \in {"all", "wrong", "keys", "no key"}}

AllLoads ==
  Session \union Songs \union Two \union Others \union Errors \union Unopened
    \union Announcements
=============================================================================
