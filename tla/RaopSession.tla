---------------------------- MODULE RaopSession ----------------------------
(***************************************************************************)
(* What SETUP and TEARDOWN start and stop (raop.go, rtp.go, rtsp.go): the  *)
(* sequencer goroutine, the three UDP connections of a session, a receiver *)
(* goroutine for each of them and a transmitter for the control connection.*)
(* A receiver ends, and closes its connection, with the first error of its *)
(* Read: when the connection has been closed, and when the network says so *)
(* in the middle of a session.                                             *)
(* They share the channels seqchan and rrchan, which live as long as the   *)
(* raop, as does the sequencer.                                            *)
(*                                                                         *)
(* The sequencer's packet ordering is the subject of module Sequencer;     *)
(* here it only takes packets, writes audio, asks for packets and obeys    *)
(* its control channel.  Every SETUP that opens connections has a number,  *)
(* which stands for its connections and its packets.                       *)
(***************************************************************************)
EXTENDS Integers, FiniteSets, Sequences

CONSTANTS
  Sources,       \* RTSP connections
  DataCap,       \* capacity of seqchan: 256
  RequestCap,    \* capacity of rrchan: 128
  MaxSetups,     \* bound: how often connections are opened
  Loads          \* bounds: which sources connect, how often they open
                 \* connections, how often opening one fails and how often
                 \* Read fails on an open connection

ASSUME RaopSessionAssumption ==
  /\ DataCap \in Nat \ {0} /\ RequestCap \in Nat \ {0}
  /\ MaxSetups \in Nat
  /\ Loads \subseteq [sources : SUBSET Sources, setups : 0 .. MaxSetups, failures : Nat,
                 errors : Nat]

None == 0
Setups == 1 .. MaxSetups
Kinds == {"data", "control", "timing"}

VARIABLES
  rtsp,          \* what each RTSP goroutine does: idle, control, data, timing,
                 \* answer, close, flush, teardown; crashed once the program has
  playing,       \* the sources whose SETUP has been answered with 200
  sequencer,     \* the goroutine: none, select, output, request or stopped
  seqchan,       \* the data channel: numbers of the packets' sessions
  rrchan,        \* the request channel: how many requests wait in it
  conn,          \* the fields control, data and timing of raop
  open,          \* <<kind, n>> for the connections that are open
  receiver,      \* receiver[kind][n]: none, read, deliver, flush or ended
  transmitters,  \* sessions whose control transmitter runs
  number,        \* the setup that an RTSP goroutine is opening connections for
  setups, failures,
  broken,        \* the connections that were open when their Read failed
  load           \* which of the loads this is

vars == <<rtsp, playing, sequencer, seqchan, rrchan, conn, open, receiver,
          transmitters, number, setups, failures, broken, load>>

Init ==
  /\ rtsp = [s \in Sources |-> "idle"]
  /\ playing = {}
  /\ sequencer = "none"
  /\ seqchan = <<>> /\ rrchan = 0
  /\ conn = [k \in Kinds |-> None]
  /\ open = {}
  /\ receiver = [k \in Kinds |-> [n \in Setups |-> "none"]]
  /\ transmitters = {}
  /\ number = [s \in Sources |-> None]
  /\ setups = 0 /\ failures = 0 /\ broken = {}
  /\ load \in Loads

AllOpened == \A kind \in Kinds : conn[kind] # None

\* Using a connection that is nil panics, and nothing recovers: the program ends.
Panics ==
  /\ ~AllOpened
  /\ rtsp' = [s \in Sources |-> "crashed"]
  /\ sequencer' = "stopped"
  /\ open' = {} /\ transmitters' = {}
  /\ receiver' = [k \in Kinds |-> [n \in Setups |->
                    IF receiver[k][n] = "none" THEN "none" ELSE "ended"]]
  /\ UNCHANGED <<seqchan, rrchan, conn, number, setups, failures, broken, load>>

Goes(s, pc) == rtsp' = [rtsp EXCEPT ![s] = pc]

streams == <<seqchan, rrchan>>
sockets == <<conn, open, receiver, transmitters, number, setups, failures, broken,
             load>>

-----------------------------------------------------------------------------
\* Mutant of Setup: opens the connections until all three are there.
SetupReopens(s) ==
  /\ rtsp[s] = "idle" /\ s \in load.sources \ playing
  /\ sequencer' = IF sequencer = "none" THEN "select" ELSE sequencer
  /\ IF AllOpened \/ setups = load.setups
     THEN Goes(s, "answer") /\ UNCHANGED <<number, setups>>
     ELSE /\ setups' = setups + 1 /\ number' = [number EXCEPT ![s] = setups']
          /\ Goes(s, "control")
  /\ UNCHANGED <<playing, streams, conn, open, receiver, transmitters, failures,
                 broken, load>>

\* SETUP: startRtp makes the channels and the sequencer once, and opens
\* connections unless there is a control connection.
Setup(s) ==
  /\ rtsp[s] = "idle" /\ s \in load.sources \ playing
  /\ sequencer' = IF sequencer = "none" THEN "select" ELSE sequencer
  /\ \/ /\ conn["control"] = None /\ setups < load.setups
        /\ setups' = setups + 1 /\ number' = [number EXCEPT ![s] = setups']
        /\ Goes(s, "control")
     \/ /\ conn["control"] # None
        /\ Goes(s, "answer")
        /\ UNCHANGED <<number, setups>>
  /\ UNCHANGED <<playing, streams, conn, open, receiver, transmitters, failures,
                 broken, load>>

\* startRtp(f, raddr): listen or dial, then start the goroutines.
After(kind) == [control |-> "data", data |-> "timing", timing |-> "answer"][kind]

Opened(s, kind) ==
  /\ rtsp[s] = kind
  /\ conn' = [conn EXCEPT ![kind] = number[s]]
  /\ open' = open \union {<<kind, number[s]>>}
  /\ receiver' = [receiver EXCEPT ![kind][number[s]] = "read"]
  /\ transmitters' = IF kind = "control" THEN transmitters \union {number[s]}
                     ELSE transmitters
  /\ Goes(s, After(kind))
  /\ UNCHANGED <<playing, sequencer, streams, number, setups, failures, broken,
                 load>>

NotOpened(s, kind) ==
  /\ rtsp[s] = kind /\ failures < load.failures
  /\ failures' = failures + 1
  /\ conn' = [conn EXCEPT ![kind] = None]
  /\ Goes(s, "close")
  /\ UNCHANGED <<playing, sequencer, streams, open, receiver, transmitters,
                 number, setups, broken, load>>

\* sequencer.close() of a SETUP that failed, which is then answered with 500.
SetupFails(s) ==
  /\ rtsp[s] = "close" /\ sequencer = "select"
  /\ sequencer' = "stopped"
  /\ Goes(s, "idle")
  /\ UNCHANGED <<playing, streams, sockets>>

\* The answer names the ports of all three connections.
SetupAnswered(s) ==
  /\ rtsp[s] = "answer"
  /\ \/ /\ AllOpened
        /\ playing' = playing \union {s}
        /\ Goes(s, "idle")
        /\ UNCHANGED <<sequencer, streams, sockets>>
     \/ Panics /\ UNCHANGED playing

\* TEARDOWN, from a source whose SETUP has succeeded, begins with
\* sequencer.flush().
Teardown(s) ==
  /\ rtsp[s] = "idle" /\ s \in playing
  /\ playing' = playing \ {s}
  /\ Goes(s, "flush")
  /\ UNCHANGED <<sequencer, streams, sockets>>

\* Mutant of TeardownFlushed: TEARDOWN uses close() for flush().
TeardownStops(s) ==
  /\ rtsp[s] = "flush" /\ sequencer = "select"
  /\ sequencer' = "stopped"
  /\ Goes(s, "teardown")
  /\ UNCHANGED <<playing, streams, sockets>>

\* Command 0: the sequencer has emptied its cache.  Its channel keeps what is
\* in it.
TeardownFlushed(s) ==
  /\ rtsp[s] = "flush" /\ sequencer = "select"
  /\ Goes(s, "teardown")
  /\ UNCHANGED <<playing, sequencer, streams, sockets>>

\* Mutant of TeardownCloses: the control connection is closed but not forgotten.
TeardownKeeps(s) ==
  /\ rtsp[s] = "teardown"
  /\ \/ /\ AllOpened
        /\ open' = open \ {<<k, conn[k]>> : k \in Kinds}
        /\ Goes(s, "idle")
        /\ UNCHANGED <<sequencer, streams, conn, receiver, transmitters, number, setups,
                       failures, broken, load>>
     \/ Panics
  /\ UNCHANGED playing

\* The connections are closed, and SETUP is to open new ones.
TeardownCloses(s) ==
  /\ rtsp[s] = "teardown"
  /\ \/ /\ AllOpened
        /\ open' = open \ {<<k, conn[k]>> : k \in Kinds}
        /\ conn' = [conn EXCEPT !["control"] = None]
        /\ Goes(s, "idle")
        /\ UNCHANGED <<sequencer, streams, receiver, transmitters, number, setups,
                       failures, broken, load>>
     \/ Panics
  /\ UNCHANGED playing

-----------------------------------------------------------------------------
Becomes(kind, n, pc) == receiver' = [receiver EXCEPT ![kind][n] = pc]

\* The receiver of the data connection delivers each packet.  The one of the
\* control connection delivers the answers to requests, and flushes the
\* sequencer when the source says it cannot answer; the timing receiver drops
\* what it gets, and all other packets change nothing.
Receive(kind, n) ==
  /\ kind # "timing"
  /\ receiver[kind][n] = "read" /\ <<kind, n>> \in open
  /\ \/ Becomes(kind, n, "deliver")
     \/ kind = "control" /\ Becomes(kind, n, "flush")
  /\ UNCHANGED <<rtsp, playing, sequencer, streams, conn, open, transmitters,
                 number, setups, failures, broken, load>>

\* Mutant of Deliver: the channel has no bound.
DeliverAlways(kind, n) ==
  /\ receiver[kind][n] = "deliver"
  /\ seqchan' = Append(seqchan, n)
  /\ Becomes(kind, n, "read")
  /\ UNCHANGED <<rtsp, playing, sequencer, rrchan, conn,
                 open, transmitters, number, setups, failures, broken, load>>

\* A send on a full channel waits.
Deliver(kind, n) ==
  /\ receiver[kind][n] = "deliver" /\ Len(seqchan) < DataCap
  /\ seqchan' = Append(seqchan, n)
  /\ Becomes(kind, n, "read")
  /\ UNCHANGED <<rtsp, playing, sequencer, rrchan, conn,
                 open, transmitters, number, setups, failures, broken, load>>

ReceiverFlushed(n) ==
  /\ receiver["control"][n] = "flush" /\ sequencer = "select"
  /\ Becomes("control", n, "read")
  /\ UNCHANGED <<rtsp, playing, sequencer, streams, conn, open, transmitters,
                 number, setups, failures, broken, load>>

\* Read fails on an open connection: the source refuses what is sent to its
\* control or timing port, say.  The receiver returns, and its deferred Close
\* closes the connection, which stays in its field of raop.
ReadFails(kind, n) ==
  /\ receiver[kind][n] = "read" /\ <<kind, n>> \in open
  /\ Cardinality(broken) < load.errors
  /\ broken' = broken \union {<<kind, n>>}
  /\ open' = open \ {<<kind, n>>}
  /\ Becomes(kind, n, "ended")
  /\ UNCHANGED <<rtsp, playing, sequencer, streams, conn, transmitters, number,
                 setups, failures, load>>

\* Read fails once the connection has been closed by TEARDOWN.
ReceiverEnds(kind, n) ==
  /\ receiver[kind][n] = "read" /\ <<kind, n>> \notin open
  /\ Becomes(kind, n, "ended")
  /\ UNCHANGED <<rtsp, playing, sequencer, streams, conn, open, transmitters,
                 number, setups, failures, broken, load>>

\* Mutant of Transmit: the transmitter ends with its connection.
TransmitOpen(n) ==
  /\ n \in transmitters /\ rrchan > 0 /\ <<"control", n>> \in open
  /\ rrchan' = rrchan - 1
  /\ UNCHANGED <<rtsp, playing, sequencer, seqchan, sockets>>

\* The transmitter of session n takes a request.  It writes it to its own
\* connection, and never ends.
Transmit(n) ==
  /\ n \in transmitters /\ rrchan > 0
  /\ rrchan' = rrchan - 1
  /\ UNCHANGED <<rtsp, playing, sequencer, seqchan, sockets>>

-----------------------------------------------------------------------------
\* The sequencer takes a packet: it writes it, or it caches or drops it.
Take ==
  /\ sequencer = "select" /\ seqchan # <<>>
  /\ seqchan' = Tail(seqchan)
  /\ sequencer' \in {"output", "select"}
  /\ UNCHANGED <<rtsp, playing, rrchan, sockets>>

\* outf has written the audio.
OutputDone ==
  /\ sequencer = "output"
  /\ sequencer' = "select"
  /\ UNCHANGED <<rtsp, playing, streams, sockets>>

\* The timer has expired with a gap in the cache that is to be asked for.
Expire ==
  /\ sequencer = "select"
  /\ sequencer' = "request"
  /\ UNCHANGED <<rtsp, playing, streams, sockets>>

RequestSent ==
  /\ sequencer = "request" /\ rrchan < RequestCap
  /\ rrchan' = rrchan + 1
  /\ sequencer' = "select"
  /\ UNCHANGED <<rtsp, playing, seqchan, sockets>>

SetupStep(s) ==
  \/ \E kind \in Kinds : Opened(s, kind) \/ NotOpened(s, kind)
  \/ SetupAnswered(s)
RtspStep(s) == SetupStep(s) \/ TeardownFlushed(s) \/ TeardownCloses(s)
ReceiverStep(kind, n) ==
  \/ Deliver(kind, n) \/ ReceiverEnds(kind, n)
  \/ kind = "control" /\ ReceiverFlushed(n)

Next ==
  \/ \E s \in Sources : \/ Setup(s) \/ SetupStep(s) \/ SetupFails(s)
                         \/ Teardown(s) \/ TeardownFlushed(s) \/ TeardownCloses(s)
  \/ \E kind \in Kinds, n \in Setups :
       \/ Receive(kind, n) \/ Deliver(kind, n)
       \/ ReadFails(kind, n) \/ ReceiverEnds(kind, n)
  \/ \E n \in Setups : ReceiverFlushed(n) \/ Transmit(n)
  \/ Take \/ OutputDone \/ Expire \/ RequestSent

(***************************************************************************)
(* Goroutines that can go on do.  Those that wait for a channel get their  *)
(* turn if the other end comes round often enough: select chooses among    *)
(* its ready cases at random, and a channel serves its waiters in order.   *)
(* The writers of the audio streams return.                                *)
(***************************************************************************)
Fairness ==
  /\ SF_vars(Take) /\ WF_vars(OutputDone \/ RequestSent)
  /\ \A s \in Sources : SF_vars(RtspStep(s))
  /\ \A n \in Setups : /\ WF_vars(Transmit(n))
                       /\ WF_vars(ReceiverEnds("timing", n))
                       /\ \A kind \in {"data", "control"} :
                            SF_vars(ReceiverStep(kind, n))

Spec == Init /\ [][Next]_vars /\ Fairness

-----------------------------------------------------------------------------
TypeOK ==
  /\ rtsp \in [Sources -> Kinds \union {"idle", "answer", "close", "flush", "teardown",
                                      "crashed"}]
  /\ playing \subseteq Sources
  /\ sequencer \in {"none", "select", "output", "request", "stopped"}
  /\ seqchan \in Seq(Setups) /\ Len(seqchan) <= DataCap
  /\ rrchan \in 0 .. RequestCap
  /\ conn \in [Kinds -> Setups \union {None}]
  /\ open \subseteq Kinds \X Setups
  /\ receiver \in [Kinds -> [Setups -> {"none", "read", "deliver", "flush", "ended"}]]
  /\ transmitters \subseteq Setups
  /\ number \in [Sources -> Setups \union {None}]
  /\ broken \subseteq Kinds \X Setups

\* flush() restarts the sequencer ("Restart the sequencer. Empty all internal
\* caches"): TEARDOWN and the control receiver get past it, whatever the
\* sequencer is doing and however full the channels are.
FlushRestarts ==
  /\ \A s \in Sources : rtsp[s] = "flush" ~> rtsp[s] # "flush"
  /\ \A n \in Setups : receiver["control"][n] = "flush" ~> receiver["control"][n] # "flush"

\* As long as no SETUP has failed, they do.
FlushGetsThrough ==
  /\ \A s \in Sources : []<>(rtsp[s] # "flush" \/ failures > 0)
  /\ \A n \in Setups : []<>(receiver["control"][n] # "flush" \/ failures > 0)

\* As long as no SETUP has failed, the receivers of a session end with its
\* connections: none of them stays blocked on a full channel or on the
\* sequencer, until nothing is left of a connection that is closed.
ReceiversEnd ==
  []<>(failures = 0 => \A kind \in Kinds, n \in Setups :
         receiver[kind][n] \in {"read", "deliver", "flush"} => <<kind, n>> \in open)

Alone == \E s \in Sources : load.sources = {s}

\* However the SETUPs of a source fail, every connection that is open is one
\* that a field of raop holds; and as long as none has failed, nothing is open
\* but from SETUP to TEARDOWN.  (After one that failed half way connections do
\* stay open: TEARDOWN blocks in flush.  Two sources that send SETUP at once
\* overwrite each other's fields.)
NothingLeaks ==
  Alone => /\ \A c \in open : conn[c[1]] = c[2]
           /\ failures = 0 => \A s \in load.sources \ playing :
                                rtsp[s] = "idle" => open = {}

\* As long as no SETUP has failed, a source that is alone and playing has a
\* complete session: a sequencer that has not stopped, and three connections,
\* each open and with a receiver that is alive unless its own Read has failed:
\* an error on one connection closes that one and neither of the others.  (Of
\* two sources the first to send TEARDOWN closes the connections of both.)
PlayingIsComplete ==
  Alone /\ failures = 0 => \A s \in playing : rtsp[s] = "idle" =>
    /\ sequencer \notin {"none", "stopped"}
    /\ \A kind \in Kinds :
         LET c == <<kind, conn[kind]>> IN
           /\ c \in open <=> c \notin broken
           /\ receiver[kind][conn[kind]] # "none"
           /\ receiver[kind][conn[kind]] = "ended" <=> c \in broken
=============================================================================
