----------------------------- MODULE Sequencer -----------------------------
(***************************************************************************)
(* The goroutine that puts the audio packets of a stream back into order   *)
(* (sequencer.go).  It takes packets from the data channel, hands those    *)
(* that are in sequence to outf, keeps the ones that are early, asks the   *)
(* source to resend what is missing and gives up on what never comes.      *)
(*                                                                         *)
(* A packet is its position in the stream the source sends: position i     *)
(* carries the seqno SeqnoAt(i).  The code only ever sees the seqno; the   *)
(* position is what the listener hears.                                    *)
(*                                                                         *)
(* The goroutine blocks, and another goroutine can run, only in a select,  *)
(* in outf (it writes audio) and on the request channel.  One action goes  *)
(* from one such point to the next.                                        *)
(***************************************************************************)
EXTENDS SeqNo, Sequences, FiniteSets, FiniteSetsExt

CONSTANTS
  RequestAt,     \* retry counts at which a gap is requested: {3, 11, 23}
  GiveUpAt,      \* retry count at which a gap is given up: 37
  PrintLimit,    \* length of a gap from which on printState is called: 20000
  RequestCap,    \* capacity of the request channel: 128
  Window,        \* how far from low a packet can be when it arrives
  Reorder,       \* how many positions late a data packet can arrive
  StreamStart,   \* the positions at which the stream can begin
  StreamLength   \* bound: positions run below StreamLength

ASSUME SequencerAssumption ==
  /\ RequestAt \subseteq Nat \ {0}
  /\ GiveUpAt \in Nat \ {0}
  /\ \A t \in RequestAt : t < GiveUpAt
  /\ PrintLimit \in Nat
  /\ RequestCap \in Nat \ {0}
  /\ Window \in Nat /\ Window < Guard
  /\ Reorder \in Nat
  /\ StreamLength \in Nat
  /\ StreamStart \subseteq Nat

Absent == -1                       \* no packet under this key of the map
Positions == 0 .. (StreamLength - 1)

VARIABLES
  lowd,      \* low has been set since the last restart
  low,       \* seqno of the next packet to output
  retries,   \* seqno -> how often the timer found it missing
  packets,   \* seqno -> the early packet cached under it, or Absent
  pc,        \* where the goroutine is: select, flush, scan or stopped
  cursor,    \* sn of flushCached and ii of sendReRequests
  entries,   \* cached packets sendReRequests has not passed yet
  requests   \* the request channel

VARIABLES
  sent,      \* the source has sent the positions below this one
  quiet      \* nothing arrives any more

VARIABLES    \* history
  pos,       \* stream position low stands for
  played,    \* position of the last packet handed to outf, or Absent
  asked,     \* <<p, t>>: position p was requested at retry count t
  jumped     \* remove has moved low past a cached packet

code == <<lowd, low, retries, packets, pc, cursor, entries, requests>>
history == <<pos, played, asked, jumped>>
vars == <<code, sent, quiet, history>>

Init ==
  /\ lowd = FALSE
  /\ low = 0
  /\ retries = [sn \in SeqNos |-> 0]
  /\ packets = [sn \in SeqNos |-> Absent]
  /\ pc = "select"
  /\ cursor = 0
  /\ entries = 0
  /\ requests = <<>>
  /\ sent \in StreamStart
  /\ quiet = FALSE
  /\ pos = 0
  /\ played = Absent
  /\ asked = {}
  /\ jumped = FALSE

Held == {sn \in SeqNos : packets[sn] # Absent}
Missing == SeqNos \ Held
InRecovery == Held # {}

\* The seqnos from++ goes through before it reaches to.
Span(from, to) == {x \in SeqNos : Dist(from, x) < Dist(from, to)}

-----------------------------------------------------------------------------
\* Recovery packets are ignored until a data packet has set low.
AcceptsAll(recovery) == TRUE                    \* mutant: takes them at once
Accepts(recovery) == lowd \/ ~recovery

\* delete(s.retries, sn)
Unforgotten(sn) == retries                      \* mutant: keeps the count
Forgotten(sn) == [retries EXCEPT ![sn] = 0]

(***************************************************************************)
(* handle(pkt), in either select.  An old packet is dropped, the awaited   *)
(* one is output and starts flushCached(sn+1), an early one is cached.     *)
(* Without a low the packet's own seqno becomes low, unless it is an       *)
(* answer to a request: those are ignored until a data packet has come.    *)
(***************************************************************************)
Handle(i, recovery) ==
  LET sn == SeqnoAt(i)
      base == IF lowd THEN low ELSE sn
  IN /\ pc = "select"
     /\ Accepts(recovery)
     /\ lowd' = TRUE
     /\ low' = base
     /\ pos' = IF lowd THEN pos ELSE i
     /\ retries' = Forgotten(sn)
     /\ \/ /\ sn = base
           /\ played' = i
           /\ pc' = "flush"
           /\ cursor' = Plus(sn, 1)
           /\ UNCHANGED packets
        \/ /\ SeqnoDelta(sn, base) < 0
           /\ UNCHANGED <<played, pc, cursor, packets>>
        \/ /\ sn # base /\ SeqnoDelta(sn, base) >= 0
           /\ packets' = [packets EXCEPT ![sn] = i]
           /\ UNCHANGED <<played, pc, cursor>>
     /\ UNCHANGED <<entries, requests, quiet, asked, jumped>>

Near(i) == lowd => pos - Window <= i /\ i <= pos + Window

\* A packet of the data connection: the next one, a later one if some are
\* lost, or one that was overtaken or is a duplicate.
DataPacket ==
  \E i \in Positions :
    /\ ~quiet
    /\ i >= sent - Reorder /\ Near(i)
    /\ sent' = IF i >= sent THEN i + 1 ELSE sent
    /\ Handle(i, FALSE)

\* A packet of the control connection: any packet that has been sent, again.
RecoveryPacket ==
  \E i \in Positions :
    /\ ~quiet
    /\ i < sent /\ Near(i)
    /\ UNCHANGED sent
    /\ Handle(i, TRUE)

(***************************************************************************)
(* flushCached: output the packets cached from the cursor on, each with a  *)
(* call of outf, and set low to the first seqno that is not cached.        *)
(***************************************************************************)
FlushPacket ==
  /\ pc = "flush" /\ cursor \in Held
  /\ played' = packets[cursor]
  /\ packets' = [packets EXCEPT ![cursor] = Absent]
  /\ cursor' = Plus(cursor, 1)
  /\ UNCHANGED <<lowd, low, retries, pc, entries, requests, sent, quiet, pos,
                 asked, jumped>>

FlushEndStay ==                                 \* mutant: leaves low behind
  /\ pc = "flush" /\ cursor \notin Held
  /\ pc' = "select"
  /\ UNCHANGED <<lowd, low, retries, packets, cursor, entries, requests, sent,
                 quiet, history>>

FlushEndPast ==                                 \* mutant: low behind the gap
  /\ pc = "flush" /\ cursor \notin Held
  /\ low' = Plus(cursor, 1)
  /\ pos' = pos + Dist(low, low')
  /\ pc' = "select"
  /\ UNCHANGED <<lowd, retries, packets, cursor, entries, requests, sent,
                 quiet, played, asked, jumped>>

FlushEnd ==
  /\ pc = "flush" /\ cursor \notin Held
  /\ low' = cursor
  /\ pos' = pos + Dist(low, cursor)
  /\ asked' = {a \in asked : a[1] >= pos'}
  /\ pc' = "select"
  /\ UNCHANGED <<lowd, retries, packets, cursor, entries, requests, sent,
                 quiet, played, jumped>>

-----------------------------------------------------------------------------
(***************************************************************************)
(* sendReRequests, when the timer has expired with packets in the cache.   *)
(* It walks from low to the last cached packet, gap by gap.                *)
(***************************************************************************)
Timeout ==
  /\ pc = "select" /\ InRecovery
  /\ pc' = "scan"
  /\ cursor' = low
  /\ entries' = Cardinality(Held)
  /\ UNCHANGED <<lowd, low, retries, packets, requests, sent, quiet, history>>

(***************************************************************************)
(* One more retry.  Counts above GiveUpAt are all treated alike by the     *)
(* code, so they are kept at GiveUpAt + 1: the ints of the map go on.      *)
(***************************************************************************)
Bump(n) == IF n > GiveUpAt THEN n ELSE n + 1

Counted(gap) ==
  [x \in SeqNos |-> IF x \in gap THEN Bump(retries[x]) ELSE retries[x]]

\* printState counts a retry for all that is missing below the last packet.
PrintState(r) ==
  [x \in SeqNos |->
     IF x \in Missing /\ \E h \in Held : x \in Span(low, h)
     THEN Bump(r[x]) ELSE r[x]]

\* The retries after the gap has been counted, and printed if it is long.
RetriesAfter(gap) ==
  IF Cardinality(gap) > PrintLimit THEN PrintState(Counted(gap)) ELSE Counted(gap)

\* The smallest count of the gap, as the switch sees it.
Retry(gap) == Bump(Min({retries[x] : x \in gap}))

PositionOf(x) == pos + Dist(low, x)

\* The walk passes cached packets, and then the gap from start up to end.
NextGap(start, end) ==
  /\ pc = "scan"
  /\ start \in Missing /\ Span(cursor, start) \subseteq Held
  /\ end \in Held /\ Span(start, end) \subseteq Missing
  /\ Dist(cursor, start) < entries
  /\ entries' = entries - Dist(cursor, start) - 1
  /\ cursor' = Plus(end, 1)
  /\ UNCHANGED <<lowd, pc, sent, quiet, played>>

RequestForMore(start, end) ==                   \* mutant: asks for one too many
  [first |-> start, count |-> Dist(start, end) + 1]

RequestFor(start, end) == [first |-> start, count |-> Dist(start, end)]

\* 30, 110 and 230 ms: ask for the whole gap; blocks when the channel is full.
RequestGap(start, end) ==
  LET gap == Span(start, end)
  IN /\ NextGap(start, end)
     /\ Retry(gap) \in RequestAt
     /\ Len(requests) < RequestCap
     /\ requests' = Append(requests, RequestFor(start, end))
     /\ retries' = RetriesAfter(gap)
     /\ asked' = asked \union {<<PositionOf(x), Retry(gap)>> : x \in gap}
     /\ UNCHANGED <<low, packets, pos, jumped>>

\* 370 ms: remove(start, count), which leaves low behind the gap.
GiveUpGap(start, end) ==
  LET gap == Span(start, end)
      after == RetriesAfter(gap)
  IN /\ NextGap(start, end)
     /\ Retry(gap) = GiveUpAt
     /\ packets' = [x \in SeqNos |-> IF x \in gap THEN Absent ELSE packets[x]]
     /\ retries' = [x \in SeqNos |-> IF x \in gap THEN 0 ELSE after[x]]
     /\ low' = Plus(start, Dist(start, end))
     /\ pos' = pos + Dist(low, end)
     /\ asked' = {a \in asked : a[1] >= pos'}
     /\ jumped' = (jumped \/ \E h \in Held : h \in Span(low, end))
     /\ UNCHANGED requests

CountGap(start, end) ==
  LET gap == Span(start, end)
  IN /\ NextGap(start, end)
     /\ Retry(gap) \notin RequestAt \union {GiveUpAt}
     /\ retries' = RetriesAfter(gap)
     /\ UNCHANGED <<low, packets, requests, pos, asked, jumped>>

ScanEndOnly ==                                  \* mutant: no flushCached(low)
  /\ pc = "scan"
  /\ {x \in SeqNos : Dist(cursor, x) < entries} \subseteq Held
  /\ pc' = "select"
  /\ entries' = 0
  /\ UNCHANGED <<lowd, low, retries, packets, cursor, requests, sent, quiet, history>>

\* All cached packets passed; the timer branch goes on with flushCached(low).
ScanEnd ==
  /\ pc = "scan"
  /\ {x \in SeqNos : Dist(cursor, x) < entries} \subseteq Held
  /\ pc' = "flush"
  /\ cursor' = low
  /\ entries' = 0
  /\ UNCHANGED <<lowd, low, retries, packets, requests, sent, quiet, history>>

-----------------------------------------------------------------------------
RestartHalf ==                                  \* mutant: keeps the retries
  /\ pc = "select"
  /\ lowd' = FALSE
  /\ low' = 0
  /\ packets' = [sn \in SeqNos |-> Absent]
  /\ pos' = 0
  /\ asked' = {}
  /\ jumped' = FALSE
  /\ UNCHANGED <<retries, pc, cursor, entries, requests, sent, quiet, played>>

\* Command 0 on the control channel, sent by flush().
Restart ==
  /\ pc = "select"
  /\ lowd' = FALSE
  /\ low' = 0
  /\ retries' = [sn \in SeqNos |-> 0]
  /\ packets' = [sn \in SeqNos |-> Absent]
  /\ pos' = 0
  /\ asked' = {}
  /\ jumped' = FALSE
  /\ UNCHANGED <<pc, cursor, entries, requests, sent, quiet, played>>

\* Command 1, sent by close(): the goroutine returns.
Shutdown ==
  /\ pc = "select"
  /\ pc' = "stopped"
  /\ UNCHANGED <<lowd, low, retries, packets, cursor, entries, requests, sent,
                 quiet, history>>

\* The transmitter of the control connection takes a request.
Transmit ==
  /\ requests # <<>>
  /\ requests' = Tail(requests)
  /\ UNCHANGED <<lowd, low, retries, packets, pc, cursor, entries, sent, quiet,
                 history>>

\* The source and the network fall silent.
Silence ==
  /\ ~quiet
  /\ quiet' = TRUE
  /\ UNCHANGED <<code, sent, history>>

Flush == FlushPacket \/ FlushEnd
Scan ==
  \/ ScanEnd
  \/ \E start \in Missing, end \in Held :
       RequestGap(start, end) \/ GiveUpGap(start, end) \/ CountGap(start, end)

Next ==
  \/ DataPacket \/ RecoveryPacket
  \/ Timeout
  \/ Flush
  \/ Scan
  \/ Restart \/ Shutdown
  \/ Transmit
  \/ Silence

(***************************************************************************)
(* The goroutine and the transmitter keep running.  The timer is restarted *)
(* by every packet, so it is only certain to expire when none arrives.     *)
(***************************************************************************)
Fairness ==
  /\ WF_vars(Flush)
  /\ WF_vars(Scan)
  /\ WF_vars(Transmit)
  /\ WF_vars(quiet /\ Timeout)

Spec == Init /\ [][Next]_vars /\ Fairness

-----------------------------------------------------------------------------
Request == [first : SeqNos, count : 1 .. Modulus]

\* Every variable has the type its declaration in sequencer.go gives it.
TypeOK ==
  /\ lowd \in BOOLEAN
  /\ low \in SeqNos
  /\ retries \in [SeqNos -> Nat]
  /\ packets \in [SeqNos -> Nat \union {Absent}]
  /\ pc \in {"select", "flush", "scan", "stopped"}
  /\ cursor \in SeqNos
  /\ entries \in Nat
  /\ requests \in Seq(Request)
  /\ sent \in Nat
  /\ quiet \in BOOLEAN
  /\ pos \in Nat
  /\ played \in Nat \union {Absent}
  /\ asked \subseteq Nat \X Nat
  /\ jumped \in BOOLEAN

\* Nothing that could be played is kept back: when the goroutine waits for
\* its next event, low is the first gap of the cache ("set low to first gap
\* in the cache", flushCached), whatever mix of arrivals, time-outs and
\* restarts has led there.
NothingHeldBack == pc = "select" => low \notin Held

\* A retry is counted for a missing packet only: a packet that has arrived,
\* in whatever order, has no retries left that could trigger a request for
\* it, or for its seqno one lap of the sequence numbers later.
RetriesOnlyForMissing == \A sn \in Held : retries[sn] = 0

\* Packets come out in the order of the stream until the sequencer is
\* restarted, however they arrive and wherever the seqno wraps: the promise
\* of handle and flushCached.  The one exception is named: remove has jumped
\* over a cached packet.
InOrder == [][played' # played => \/ played' > played
                                  \/ ~lowd
                                  \/ jumped]_vars

\* The sequencer goes back in the stream, after a restart, no further than the
\* network has held up a data packet: answers to old requests that come in
\* then are ignored ("Ignore recovery packets if the sequencer has been
\* restarted", handle).  Where the network keeps the order nothing is played
\* twice.
NeverRewinds == [][played' < played => jumped \/ played' >= sent - Reorder]_vars

\* A cached packet is the one its seqno stands for at this point of the
\* stream: it is ahead of low, less than the guard zone away, and never a
\* packet from the lap before.
CacheMatchesStream ==
  lowd /\ ~jumped /\ pc = "select" =>
    \A sn \in Held : packets[sn] > pos /\ packets[sn] = PositionOf(sn)

\* A position is skipped only after it has been asked for at every one of the
\* retry counts of sendReRequests, however its gap has been split, shrunk or
\* started by packets that arrived in between.
GiveUpOnlyAfterAsking ==
  [][pc = "scan" /\ pos' # pos /\ ~jumped' =>
       (pos .. pos' - 1) \X RequestAt \subseteq asked]_vars

\* A request, however late its gap was walked and whatever has been given up
\* in the same walk, names only packets that the source has sent and that
\* have not arrived.
Requested(r) == {x \in SeqNos : Dist(r.first, x) < r.count}

RequestsOnlyMissing ==
  [][\A n \in DOMAIN requests' \ DOMAIN requests :
       \A x \in Requested(requests'[n]) :
         x \in Missing /\ (jumped' \/ PositionOf(x) < sent)]_vars

\* Once nothing arrives any more, the cache drains: every packet in it is
\* played, by giving up on the gaps before it.  The exception is named again: a
\* packet that low has passed stays.
Drains == quiet /\ InRecovery ~> ~InRecovery \/ pc = "stopped" \/ jumped

\* The position whose turn it is, while flushCached goes on too.
Turn == IF pc = "flush" THEN PositionOf(cursor) ELSE pos

\* The sequencer implements the abstract playout: each packet is played in its
\* turn or given up to reach the first one that waits, and no cached packet is
\* lost or played twice.
Playing == INSTANCE Playout WITH
  started <- lowd, next <- Turn, ahead <- {packets[sn] : sn \in Held},
  broken <- jumped
PlaysInTurn == Playing!Spec

\* The order of handle holds without exception: the cache never holds a
\* packet that low has already passed ("When 150ms has been reached for a gap
\* it will just be skipped", "If too old just drop it").
NeverJumps == ~jumped
=============================================================================
