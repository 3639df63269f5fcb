----------------------------- MODULE AudioOutput -----------------------------
(***************************************************************************)
(* The way of a packet from the socket to the writers of the sink: pooled  *)
(* packet objects (pool.go) are filled by the receivers (rtp.go), put in   *)
(* turn by the sequencer, decrypted, decoded and reclaimed, and the audio  *)
(* is written to every stream (audio.go).  ANNOUNCE sets the keys and the  *)
(* decoder from the RTSP goroutine (rtsp.go) while the sequencer may be    *)
(* decoding, and the sink's own goroutines add streams and cancel them.    *)
(*                                                                         *)
(* How the sequencer orders packets is the subject of module Sequencer;    *)
(* here a packet that is early waits until its turn, or until its turn is  *)
(* given up.  A packet is <<session, position>>; keys, initial vector and  *)
(* decoder are the number of the ANNOUNCE they come from.                  *)
(***************************************************************************)
EXTENDS Integers, Sequences, FiniteSets

CONSTANTS
  Objects,       \* bound: how many packet objects there are at a time
  Writers,       \* the writers the sink makes streams for
  DataCap,       \* capacity of seqchan: 256
  MaxSessions,   \* bound: how often a source sends ANNOUNCE
  MaxPosition,   \* bound: packets of a session
  Loads          \* the instances to look at: writers, sessions and positions of each

ASSUME AudioOutputAssumption ==
  /\ Objects \subseteq Nat \ {0} /\ IsFiniteSet(Objects)
  /\ DataCap \in Nat \ {0}
  /\ MaxSessions \in Nat /\ MaxPosition \in Nat
  /\ Loads \subseteq [writers : SUBSET Writers, sessions : 0 .. MaxSessions,
                      positions : 0 .. MaxPosition]

None == 0
Sessions == 1 .. MaxSessions
Positions == 1 .. MaxPosition
Kinds == {"data", "control"}

VARIABLES
  pool,        \* how often each object is in the pool
  packet,      \* the fields of each object; via: the connection it came by
  receiver,    \* the object that a receiver <<kind, session>> is delivering
  seqchan,     \* objects on the data channel
  open,        \* the session whose connections are open
  sent         \* positions of its session the source has sent

VARIABLES
  pc,          \* the sequencer: select, decrypt, decode, lock, walk, write; or
               \* crashed, and the program with it
  turn,        \* low, 0 while it is not set
  cache,       \* the objects of early packets, by position
  current,     \* the object in handleAudioPacket
  used,        \* the aeskey and aesiv it has been decrypted with
  audioBuffer  \* what has been decoded, and the decoder

VARIABLES
  streams, ii, jj,
  locked,      \* streamsMutex
  caller,      \* NewAudioStream for each writer: out, calls, in, gone
  cancelled    \* the context is done

VARIABLES
  load,        \* which of the instances this is
  rtsp,        \* the source: idle, key, iv, alac, announced, playing, flush, close
  session,     \* the ANNOUNCE it is at
  aeskey, aesiv, alac

VARIABLES      \* history
  due,         \* the packet the sequencer has last given to handleAudioPacket
  owed,        \* buffers begun since the stream was added that it has not taken
  late         \* buffers it has taken after it was cancelled

transport == <<pool, packet, receiver, seqchan, open, sent>>
sequencer == <<pc, turn, cache, current, used, audioBuffer, due>>
walk == <<streams, ii, jj, locked>>
sink == <<caller, cancelled, owed, late>>
source == <<load, rtsp, session, aeskey, aesiv, alac>>
vars == <<transport, sequencer, walk, sink, source>>

NoPacket == [session |-> None, sn |-> 0, recovery |-> FALSE, via |-> "data"]
NoBuffer == [session |-> None, sn |-> 0, alac |-> None]
NoCache == [i \in Positions |-> None]

Init ==
  /\ load \in Loads
  /\ pool = [o \in Objects |-> 0]
  /\ packet = [o \in Objects |-> NoPacket]
  /\ receiver = [r \in Kinds \X Sessions |-> None]
  /\ seqchan = <<>> /\ open = None /\ sent = 0
  /\ pc = "select" /\ turn = 0 /\ cache = NoCache /\ current = None
  /\ used = <<None, None>>
  /\ audioBuffer = NoBuffer
  /\ streams = <<>> /\ ii = 0 /\ jj = 0 /\ locked = FALSE
  /\ caller = [w \in Writers |-> "out"] /\ cancelled = [w \in Writers |-> FALSE]
  /\ rtsp = "idle" /\ session = 0
  /\ aeskey = None /\ aesiv = None /\ alac = None
  /\ due = <<None, 0>>
  /\ owed = [w \in Writers |-> 0] /\ late = [w \in Writers |-> 0]

-----------------------------------------------------------------------------
(***************************************************************************)
(* Whoever is going to use an object.  While a cached packet is output the *)
(* cache still names its object, and forgets it afterwards.                *)
(***************************************************************************)
Cached(o) == {i \in Positions : cache[i] = o}
InUse(o) ==
  {r \in Kinds \X Sessions : receiver[r] = o}
    \union {<<"seqchan", n>> : n \in {m \in DOMAIN seqchan : seqchan[m] = o}}
    \union {<<"cache", i>> : i \in Cached(o) \ (IF current = o THEN {turn} ELSE {})}
    \union (IF current = o /\ pc \in {"decrypt", "decode"} THEN {<<"outf", o>>} ELSE {})

Garbage == {o \in Objects : pool[o] = 0 /\ InUse(o) = {} /\ Cached(o) = {}}

\* makeRtpPacket: an object of the pool, or a new one.
Get(o) ==
  \/ pool[o] > 0 /\ pool' = [pool EXCEPT ![o] = @ - 1]
  \/ o \in Garbage /\ (\A g \in Garbage : o <= g) /\ UNCHANGED pool

Put(o) == pool' = [pool EXCEPT ![o] = @ + 1]

\* Mutant of Reads: the data handler leaves the recovery flag as it was.
ReadsData(kind, n, i) ==
  /\ open = n /\ receiver[<<kind, n>>] = None
  /\ \E o \in Objects :
       /\ Get(o)
       /\ packet' = [packet EXCEPT ![o] =
                       [session |-> n, sn |-> i, via |-> kind,
                        recovery |-> kind = "control" \/ packet[o].recovery]]
       /\ receiver' = [receiver EXCEPT ![<<kind, n>>] = o]
  /\ UNCHANGED <<seqchan, open, sequencer, walk, sink, source>>

(***************************************************************************)
(* A receiver takes an object and reads a packet into it; its handler sets *)
(* the fields.  The object is the receiver's own from Get to the end of    *)
(* Read, so both are one step.  Packets that are reclaimed at once only    *)
(* leave their bytes in the pool.                                          *)
(***************************************************************************)
Reads(kind, n, i) ==
  /\ open = n /\ receiver[<<kind, n>>] = None
  /\ \E o \in Objects :
       /\ Get(o)
       /\ packet' = [packet EXCEPT ![o] =
                       [session |-> n, sn |-> i, via |-> kind,
                        recovery |-> kind = "control"]]
       /\ receiver' = [receiver EXCEPT ![<<kind, n>>] = o]
  /\ UNCHANGED <<seqchan, open, sequencer, walk, sink, source>>

\* The data connection: the next packet, or a later one if some are lost.
ReadData == \E n \in Sessions, i \in 1 .. load.positions :
              i > sent /\ sent' = i /\ Reads("data", n, i)

\* The control connection: a packet that has been sent, again.
ReadControl == \E n \in Sessions, i \in Positions :
                 i <= sent /\ UNCHANGED sent /\ Reads("control", n, i)

\* Mutant of Deliver: the channel has no limit.
DeliverAlways ==
  \E r \in Kinds \X Sessions :
    /\ receiver[r] # None
    /\ seqchan' = Append(seqchan, receiver[r])
    /\ receiver' = [receiver EXCEPT ![r] = None]
    /\ UNCHANGED <<pool, packet, open, sent, sequencer, walk, sink, source>>

\* A send on a full channel waits, also while the connections are closed.
Deliver ==
  \E r \in Kinds \X Sessions :
    /\ receiver[r] # None /\ Len(seqchan) < DataCap
    /\ seqchan' = Append(seqchan, receiver[r])
    /\ receiver' = [receiver EXCEPT ![r] = None]
    /\ UNCHANGED <<pool, packet, open, sent, sequencer, walk, sink, source>>

-----------------------------------------------------------------------------
\* outf(pkt)
Outputs(o, i) ==
  /\ current' = o /\ turn' = i
  /\ due' = <<packet[o].session, i>>
  /\ pc' = "decrypt"

\* handle(pkt): what is old, and a recovery packet when low is not set, is
\* dropped and left to the garbage collector.
Handle(o) ==
  LET p == packet[o]
      old == p.sn < turn \/ (turn = 0 /\ p.recovery)
      now == p.sn = turn \/ (turn = 0 /\ ~p.recovery)
  IN  \/ old /\ UNCHANGED <<cache, current, turn, due, pc>>
      \/ ~old /\ now /\ Outputs(o, p.sn) /\ UNCHANGED cache
      \/ /\ ~old /\ ~now
         /\ cache' = [cache EXCEPT ![p.sn] = o]
         /\ UNCHANGED <<current, turn, due, pc>>

\* Mutant of Take: handle reclaims every packet when it returns.
TakeReclaims ==
  /\ pc = "select" /\ seqchan # <<>>
  /\ seqchan' = Tail(seqchan)
  /\ Handle(Head(seqchan))
  /\ IF pc' = "select" THEN Put(Head(seqchan)) ELSE UNCHANGED pool
  /\ UNCHANGED <<packet, receiver, open, sent, used, audioBuffer, walk, sink, source>>

Take ==
  /\ pc = "select" /\ seqchan # <<>>
  /\ seqchan' = Tail(seqchan)
  /\ Handle(Head(seqchan))
  /\ UNCHANGED <<pool, packet, receiver, open, sent, used, audioBuffer, walk, sink,
                 source>>

\* The turns before the first cached packet are given up.
GiveUp ==
  /\ pc = "select"
  /\ \E i \in Positions :
       /\ cache[i] # None /\ \A j \in 1 .. i - 1 : cache[j] = None
       /\ Outputs(cache[i], i)
  /\ UNCHANGED <<cache, used, audioBuffer, transport, walk, sink, source>>

Restarted ==
  /\ pc = "select"
  /\ turn' = 0 /\ cache' = NoCache
  /\ UNCHANGED <<pc, current, used, audioBuffer, due>>

\* flush(), from the control receiver: the source has nothing to resend.
ControlFlush ==
  /\ open # None /\ receiver[<<"control", open>>] = None
  /\ Restarted
  /\ UNCHANGED <<transport, walk, sink, source>>

\* handleAudioPacket decrypts in place; without a key it panics.
Decrypt ==
  /\ pc = "decrypt"
  /\ used' = <<aeskey, aesiv>>
  /\ pc' = IF aeskey = None THEN "crashed" ELSE "decode"
  /\ UNCHANGED <<turn, cache, current, audioBuffer, due, transport, walk, sink, source>>

\* It decodes into a buffer of its own and reclaims the packet.
Decode ==
  /\ pc = "decode"
  /\ audioBuffer' = [session |-> packet[current].session, sn |-> packet[current].sn,
                     alac |-> alac]
  /\ pc' = IF alac = None THEN "crashed" ELSE "lock"
  /\ Put(current)
  /\ UNCHANGED <<packet, receiver, seqchan, open, sent, turn, cache, current, used,
                 due, walk, sink, source>>

\* writeToStreams
Lock ==
  /\ pc = "lock" /\ ~locked
  /\ locked' = TRUE
  /\ ii' = 1 /\ jj' = 0
  /\ owed' = [w \in Writers |-> owed[w] + IF caller[w] = "in" THEN 1 ELSE 0]
  /\ pc' = "walk"
  /\ UNCHANGED <<streams, turn, cache, current, used, audioBuffer, due, transport,
                 caller, cancelled, late, source>>

Walks == UNCHANGED <<turn, cache, current, used, audioBuffer, due, locked, transport,
                     cancelled, source>>
Takes(w) ==
  /\ owed' = [owed EXCEPT ![w] = @ - 1]
  /\ late' = [late EXCEPT ![w] = @ + IF cancelled[w] THEN 1 ELSE 0]

\* A stream whose context is done is left out; to the others Write is called.
Visit ==
  /\ pc = "walk" /\ ii <= Len(streams)
  /\ \/ /\ cancelled[streams[ii]]
        /\ caller' = [caller EXCEPT ![streams[ii]] = "gone"]
        /\ ii' = ii + 1
        /\ UNCHANGED pc
     \/ /\ ~cancelled[streams[ii]]
        /\ pc' = "write"
        /\ UNCHANGED <<ii, caller>>
  /\ UNCHANGED <<streams, jj, owed, late>> /\ Walks

\* Mutant of Written: the stream is kept, but not moved up.
WrittenInPlace ==
  /\ pc = "write"
  /\ Takes(streams[ii])
  /\ ii' = ii + 1 /\ jj' = jj + 1
  /\ pc' = "walk"
  /\ UNCHANGED <<streams, caller>> /\ Walks

Written ==
  /\ pc = "write"
  /\ Takes(streams[ii])
  /\ streams' = [streams EXCEPT ![jj + 1] = streams[ii]]
  /\ ii' = ii + 1 /\ jj' = jj + 1
  /\ pc' = "walk"
  /\ UNCHANGED caller /\ Walks

WriteFails ==
  /\ pc = "write"
  /\ caller' = [caller EXCEPT ![streams[ii]] = "gone"]
  /\ ii' = ii + 1
  /\ pc' = "walk"
  /\ UNCHANGED <<streams, jj, owed, late>> /\ Walks

\* writeToStreams and handleAudioPacket return, and flushCached goes on.
Returns ==
  /\ used' = <<None, None>> /\ audioBuffer' = NoBuffer
  /\ ii' = 0 /\ jj' = 0
  /\ cache' = [cache EXCEPT ![turn] = None]
  /\ IF turn < MaxPosition /\ cache[turn + 1] # None
     THEN Outputs(cache[turn + 1], turn + 1)
     ELSE pc' = "select" /\ turn' = turn + 1 /\ current' = None /\ due' = <<None, 0>>
  /\ UNCHANGED <<transport, sink, source>>

\* Mutant of WalkEnd: the mutex stays locked when no stream is left.
WalkEndLocked ==
  /\ pc = "walk" /\ ii > Len(streams)
  /\ streams' = SubSeq(streams, 1, jj)
  /\ locked' = (jj = 0)
  /\ Returns

\* The streams that were kept are the list.
WalkEnd ==
  /\ pc = "walk" /\ ii > Len(streams)
  /\ streams' = SubSeq(streams, 1, jj)
  /\ locked' = FALSE
  /\ Returns

-----------------------------------------------------------------------------
\* NewAudioStream: newStream waits for the mutex.
Call(w) ==
  /\ caller[w] = "out" /\ w \in load.writers
  /\ caller' = [caller EXCEPT ![w] = "calls"]
  /\ UNCHANGED <<cancelled, owed, late, transport, sequencer, walk, source>>

NewStream(w) ==
  /\ caller[w] = "calls" /\ ~locked
  /\ streams' = Append(streams, w)
  /\ caller' = [caller EXCEPT ![w] = "in"]
  /\ UNCHANGED <<ii, jj, locked, cancelled, owed, late, transport, sequencer, source>>

Cancel(w) ==
  /\ caller[w] = "in" /\ ~cancelled[w]
  /\ cancelled' = [cancelled EXCEPT ![w] = TRUE]
  /\ UNCHANGED <<caller, owed, late, transport, sequencer, walk, source>>

-----------------------------------------------------------------------------
Steps(pc1) == rtsp' = pc1 /\ UNCHANGED <<transport, sequencer, walk, sink>>

\* ANNOUNCE; its answer can be 400 before anything is set.
Announce ==
  /\ rtsp = "idle" /\ session < load.sessions
  /\ session' = session + 1
  /\ (Steps("key") \/ Steps("idle"))
  /\ UNCHANGED <<load, aeskey, aesiv, alac>>

\* aes.NewCipher can fail, which is noticed when both fields are set.
SetKey ==
  /\ rtsp = "key"
  /\ aeskey' \in {session, None}
  /\ Steps("iv")
  /\ UNCHANGED <<load, session, aesiv, alac>>

SetIv ==
  /\ rtsp = "iv"
  /\ aesiv' = session
  /\ Steps(IF aeskey = None THEN "idle" ELSE "alac")
  /\ UNCHANGED <<load, session, aeskey, alac>>

\* setRemote can fail, and initAlac.
SetAlac ==
  /\ rtsp = "alac"
  /\ \/ alac' = session /\ Steps("announced")
     \/ alac' \in {alac, None} /\ Steps("idle")
  /\ UNCHANGED <<load, session, aeskey, aesiv>>

Setup ==
  /\ rtsp = "announced"
  /\ rtsp' = "playing"
  /\ open' = session /\ sent' = 0
  /\ UNCHANGED <<pool, packet, receiver, seqchan, sequencer, walk, sink, load, session,
                 aeskey, aesiv, alac>>

\* TEARDOWN: flush() and then the connections are closed.
Teardown == rtsp = "playing" /\ Steps("flush") /\ UNCHANGED <<load, session, aeskey, aesiv, alac>>

TeardownFlush ==
  /\ rtsp = "flush" /\ rtsp' = "close"
  /\ Restarted
  /\ UNCHANGED <<transport, walk, sink, load, session, aeskey, aesiv, alac>>

TeardownClose ==
  /\ rtsp = "close" /\ rtsp' = "idle"
  /\ open' = None
  /\ UNCHANGED <<pool, packet, receiver, seqchan, sent, sequencer, walk, sink, load, session,
                 aeskey, aesiv, alac>>

Sequence ==
  Take \/ GiveUp \/ Decrypt \/ Decode \/ Lock \/ Visit \/ Written \/ WriteFails \/ WalkEnd

Next ==
  /\ pc # "crashed"
  /\ \/ ReadData \/ ReadControl \/ Deliver
     \/ ControlFlush
     \/ Take \/ GiveUp
     \/ Decrypt \/ Decode
     \/ Lock \/ Visit \/ Written \/ WriteFails \/ WalkEnd
     \/ \E w \in Writers : Call(w) \/ NewStream(w) \/ Cancel(w)
     \/ Announce \/ SetKey \/ SetIv \/ SetAlac
     \/ Setup \/ Teardown \/ TeardownFlush \/ TeardownClose

(***************************************************************************)
(* The sequencer runs and Write returns.  A goroutine that waits for the   *)
(* mutex gets it if it is free again and again: sync.Mutex hands it over   *)
(* to whoever has waited for 1 ms.                                         *)
(***************************************************************************)
Fairness ==
  /\ WF_vars(pc # "crashed" /\ Sequence)
  /\ \A w \in Writers : SF_vars(pc # "crashed" /\ NewStream(w))

Spec == Init /\ [][Next]_vars /\ Fairness

-----------------------------------------------------------------------------
Fields == [session : Sessions \union {None}, sn : 0 .. MaxPosition, recovery : BOOLEAN,
           via : Kinds]

TypeOK ==
  /\ pool \in [Objects -> Nat] /\ packet \in [Objects -> Fields]
  /\ receiver \in [Kinds \X Sessions -> Objects \union {None}]
  /\ seqchan \in Seq(Objects) /\ Len(seqchan) <= DataCap
  /\ open \in Sessions \union {None} /\ sent \in 0 .. MaxPosition
  /\ pc \in {"select", "decrypt", "decode", "lock", "walk", "write", "crashed"}
  /\ turn \in 0 .. MaxPosition + 1
  /\ cache \in [Positions -> Objects \union {None}] /\ current \in Objects \union {None}
  /\ streams \in Seq(Writers) /\ jj \in 0 .. Len(streams) /\ locked \in BOOLEAN
  /\ caller \in [Writers -> {"out", "calls", "in", "gone"}]
  /\ session \in 0 .. MaxSessions
  /\ {aeskey, aesiv, alac} \subseteq Sessions \union {None}

\* An object is in one place at a time: it is in the pool, once, or exactly one
\* goroutine, channel or cache entry is going to use it ("Reclaim" comes after
\* the last use, and never twice).
Exclusive == \A o \in Objects : pool[o] + Cardinality(InUse(o)) <= 1

\* What is written is the packet whose turn it was, read in its own time: its
\* object has not been filled again, its recovery flag is not left over from
\* the packet before, and, unless it has been left behind by a session that is
\* over, it is decoded with the key, vector and decoder of its own ANNOUNCE.
DecodesItsOwn ==
  /\ pc \in {"lock", "walk", "write"} =>
       /\ <<audioBuffer.session, audioBuffer.sn>> = due
       /\ due[1] = session => used = <<session, session>> /\ audioBuffer.alac = session
  /\ \A n \in DOMAIN seqchan :
       packet[seqchan[n]].recovery <=> packet[seqchan[n]].via = "control"

\* The places of the list that are still to be kept.
Listed == IF locked THEN (1 .. jj) \union (ii .. Len(streams)) ELSE DOMAIN streams

\* Every stream gets every buffer from the moment it was added, whichever
\* other streams fail, are cancelled or are added while the list is walked and
\* compacted in place; a stream that has been cancelled gets one more at most.
EveryStreamHears ==
  \A w \in Writers :
    /\ caller[w] = "in" /\ ~cancelled[w] =>
         \E n \in Listed :
           /\ {m \in Listed : streams[m] = w} = {n}
           /\ owed[w] = IF locked /\ n >= ii THEN 1 ELSE 0
    /\ late[w] <= 1

\* The audio output implements the abstract broadcast: a buffer is over when every
\* stream there was at its start has taken it, once, or is gone for good, and who is
\* added while it is written waits for the next.
Hearing == INSTANCE Broadcast WITH
  listening <- {w \in Writers : caller[w] = "in"},
  behind <- {w \in Writers : caller[w] = "in" /\ owed[w] # 0},
  leaving <- {w \in Writers : cancelled[w]},
  extra <- {w \in Writers : late[w] # 0},
  dropped <- {w \in Writers : caller[w] = "gone"}
Broadcasts == Hearing!Spec

\* NewAudioStream returns, although it has to wait while a buffer is written.
StreamIsAdded == \A w \in Writers : caller[w] = "calls" ~> (caller[w] # "calls" \/ pc = "crashed")
=============================================================================
