-------------------------- MODULE AudioOutputProofs --------------------------
(***************************************************************************)
(* Proofs that packet objects are used by one at a time, that what is      *)
(* written was decoded from the packet whose turn it is, and that every    *)
(* stream hears every buffer, for any number of objects, writers, sessions *)
(* and packets.                                                            *)
(***************************************************************************)
EXTENDS AudioOutput, SequenceTheorems, FiniteSetTheorems, TLAPS

Connections == Kinds \X Sessions

-----------------------------------------------------------------------------
\* The walk over the streams: ii is ahead of jj, and the mutex is held.
StreamTypes ==
  /\ pc \in {"select", "decrypt", "decode", "lock", "walk", "write", "crashed"}
  /\ streams \in Seq(Writers) /\ locked \in BOOLEAN
  /\ caller \in [Writers -> {"out", "calls", "in", "gone"}]
  /\ cancelled \in [Writers -> BOOLEAN]
  /\ owed \in [Writers -> Int] /\ late \in [Writers -> 0 .. 1]

Walking ==
  /\ locked <=> pc \in {"walk", "write"}
  /\ locked => ii \in 1 .. Len(streams) + 1 /\ jj \in 0 .. ii - 1
  /\ ~locked => ii = 0 /\ jj = 0
  /\ pc = "write" => ii <= Len(streams)

\* The places that are kept are those of the streams there are.
Kept ==
  /\ \A m \in Listed : caller[streams[m]] = "in"
  /\ \A m, n \in Listed : streams[m] = streams[n] => m = n
  /\ \A w \in Writers : caller[w] = "in" => \E n \in Listed : streams[n] = w

\* What is owed is the buffer that is being written, behind the walk.
Owing ==
  /\ \A n \in Listed : owed[streams[n]] = IF locked /\ n >= ii THEN 1 ELSE 0
  /\ \A w \in Writers : caller[w] \in {"out", "calls"} => owed[w] = 0

\* A stream is written to after it was cancelled only if it was cancelled meanwhile.
Late ==
  /\ \A w \in Writers : ~cancelled[w] => late[w] = 0
  /\ pc = "write" => late[streams[ii]] = 0

StreamInv == StreamTypes /\ Walking /\ Kept /\ Owing /\ Late

-----------------------------------------------------------------------------
PacketTypes ==
  /\ pc \in {"select", "decrypt", "decode", "lock", "walk", "write", "crashed"}
  /\ load \in Loads
  /\ pool \in [Objects -> 0 .. 1] /\ packet \in [Objects -> Fields]
  /\ receiver \in [Connections -> Objects \union {None}]
  /\ seqchan \in Seq(Objects) /\ Len(seqchan) <= DataCap
  /\ sent \in 0 .. MaxPosition
  /\ turn \in 0 .. MaxPosition + 1
  /\ cache \in [Positions -> Objects \union {None}] /\ current \in Objects \union {None}

\* The packet that handleAudioPacket has; what it has reclaimed may be anywhere.
Output == pc \in {"decrypt", "decode"}
Outputting ==
  /\ pc = "select" <=> current = None
  /\ pc # "select" => turn \in Positions
  /\ \A i \in Positions : cache[i] = current /\ current # None => i = turn

\* No object is twice in one of the places, or in two of them.
Apart ==
  /\ \A r, q \in Connections : receiver[r] = receiver[q] /\ receiver[r] # None => r = q
  /\ \A m, n \in DOMAIN seqchan : seqchan[m] = seqchan[n] => m = n
  /\ \A i, j \in Positions : cache[i] = cache[j] /\ cache[i] # None => i = j
  /\ \A r \in Connections : receiver[r] # None =>
       /\ \A n \in DOMAIN seqchan : seqchan[n] # receiver[r]
       /\ \A i \in Positions : cache[i] = receiver[r] => current = receiver[r]
       /\ Output => receiver[r] # current
  /\ \A n \in DOMAIN seqchan :
       /\ \A i \in Positions : cache[i] = seqchan[n] => current = seqchan[n]
       /\ Output => seqchan[n] # current

\* What is in the pool is in no other place.
Pooled ==
  \A o \in Objects : pool[o] = 1 =>
    /\ \A r \in Connections : receiver[r] # o
    /\ \A n \in DOMAIN seqchan : seqchan[n] # o
    /\ \A i \in Positions : cache[i] = o => current = o
    /\ Output => current # o

\* Whoever uses an object finds a packet in it, the cache the one it is kept for.
Full(o) == packet[o].session \in Sessions /\ packet[o].sn \in Positions
Filled ==
  /\ \A r \in Connections : receiver[r] # None => Full(receiver[r])
  /\ \A n \in DOMAIN seqchan : Full(seqchan[n])
  /\ \A i \in Positions : cache[i] \notin {None, current} =>
       Full(cache[i]) /\ packet[cache[i]].sn = i
  /\ Output => due = <<packet[current].session, packet[current].sn>>
  /\ \A o \in Objects : packet[o].recovery <=> packet[o].via = "control"

PacketInv == PacketTypes /\ Outputting /\ Apart /\ Pooled /\ Filled

-----------------------------------------------------------------------------
Keyed == aeskey = session /\ aesiv = session /\ alac = session

\* The keys are set before the connections are opened, and stay until the next
\* ANNOUNCE; until then there are no packets of its session.
Announced ==
  /\ session \in 0 .. MaxSessions /\ {aeskey, aesiv, alac} \subseteq Sessions \union {None}
  /\ rtsp \in {"idle", "key", "iv", "alac", "announced", "playing", "flush", "close"}
  /\ rtsp # "idle" => session \in Sessions
  /\ rtsp = "iv" => aeskey \in {session, None}
  /\ rtsp = "alac" => aeskey = session /\ aesiv = session
  /\ rtsp \in {"announced", "playing", "flush", "close"} => Keyed
  /\ open # None => open = session /\ rtsp \in {"playing", "flush", "close"}
  /\ open \in Sessions \union {None}

\* A packet that is of the session the source is at has been sent with its keys.
OfSession(n) == n = session => Keyed /\ rtsp \in {"idle", "playing", "flush", "close"}
Sent ==
  /\ \A o \in Objects : packet[o].session # None =>
       packet[o].session <= session /\ OfSession(packet[o].session)
  /\ pc # "select" => due[1] \in 1 .. session /\ OfSession(due[1])

Decoded ==
  /\ pc \in {"decode", "lock", "walk", "write"} /\ due[1] = session =>
       used = <<session, session>>
  /\ pc \in {"lock", "walk", "write"} =>
       /\ <<audioBuffer.session, audioBuffer.sn>> = due
       /\ due[1] = session => audioBuffer.alac = session

KeyInv == Announced /\ Sent /\ Decoded

-----------------------------------------------------------------------------
\* What neither the walk nor the sink does keeps the streams.
LEMMA StreamsKeep ==
  ASSUME StreamInv, UNCHANGED <<walk, sink>>,
         \/ pc' = pc
         \/ {pc, pc'} \subseteq {"select", "decrypt", "decode", "lock", "crashed"}
  PROVE  StreamInv'
<1>1. /\ StreamTypes' /\ Walking'
      /\ pc' = "write" => pc = "write"
  BY DEF StreamInv, StreamTypes, Walking, walk, sink
<1>2. Kept' /\ Owing' /\ Late'
  BY <1>1 DEF StreamInv, Kept, Owing, Late, Listed, walk, sink
<1>. QED  BY <1>1, <1>2 DEF StreamInv

\* writeToStreams begins: everybody who is in the list is owed the buffer.
LEMMA LockKeeps == StreamInv /\ Lock => StreamInv'
<1>. SUFFICES ASSUME StreamInv, Lock
              PROVE  StreamInv'
  OBVIOUS
<1>. USE DEF StreamInv, Lock
<1>1. /\ StreamTypes' /\ Walking'
      /\ locked' /\ ii' = 1 /\ jj' = 0 /\ ~locked
      /\ UNCHANGED <<streams, caller, cancelled, late>> /\ pc' = "walk"
  BY DEF StreamTypes, Walking
<1>2. Listed' = DOMAIN streams /\ Listed = DOMAIN streams
  BY <1>1 DEF Listed, StreamTypes
<1>3. Kept'
  BY <1>1, <1>2 DEF Kept
<1>4. \A w \in Writers : owed'[w] = owed[w] + IF caller[w] = "in" THEN 1 ELSE 0
  OBVIOUS
<1>5. \A n \in DOMAIN streams : /\ streams[n] \in Writers /\ n >= 1
                                /\ owed[streams[n]] = 0 /\ caller[streams[n]] = "in"
  BY <1>1, <1>2 DEF Kept, Owing, StreamTypes
<1>6. Owing'
  BY <1>1, <1>2, <1>4, <1>5 DEF Owing
<1>7. Late'
  BY <1>1 DEF Late
<1>. QED  BY <1>1, <1>3, <1>6, <1>7

\* The walk goes on without the stream it is at.
LEMMA LeavesOut ==
  ASSUME StreamInv, locked, ii <= Len(streams), ii' = ii + 1, pc' = "walk",
         caller' = [caller EXCEPT ![streams[ii]] = "gone"],
         UNCHANGED <<streams, jj, locked, cancelled, owed, late>>
  PROVE  StreamInv'
<1>. USE DEF StreamInv
<1>1. ii \in 1 .. Len(streams) /\ jj \in 0 .. ii - 1 /\ streams[ii] \in Writers
  BY DEF Walking, StreamTypes
<1>2. StreamTypes' /\ Walking'
  BY <1>1 DEF StreamTypes, Walking
<1>3. /\ Listed = (1 .. jj) \union (ii .. Len(streams))
      /\ Listed' = Listed \ {ii} /\ ii \in Listed
  BY <1>1 DEF Listed
<1>4. \A m \in Listed : streams[m] \in Writers
  BY <1>1, <1>3 DEF StreamTypes
<1>5. \A m \in Listed' : streams[m] # streams[ii]
  BY <1>3 DEF Kept
<1>6. \A w \in Writers : caller'[w] = IF w = streams[ii] THEN "gone" ELSE caller[w]
  BY DEF StreamTypes
<1>7. Kept'
  BY <1>3, <1>4, <1>5, <1>6 DEF Kept
<1>8. Owing'
  BY <1>1, <1>3, <1>6 DEF Owing
<1>9. Late'
  BY DEF Late
<1>. QED  BY <1>2, <1>7, <1>8, <1>9

\* The stream the walk is at is kept, and moves up.
LEMMA WrittenKeeps == StreamInv /\ Written => StreamInv'
<1>. SUFFICES ASSUME StreamInv, Written
              PROVE  StreamInv'
  OBVIOUS
<1>. USE DEF StreamInv
<1>0. /\ pc = "write" /\ pc' = "walk" /\ ii' = ii + 1 /\ jj' = jj + 1
      /\ streams' = [streams EXCEPT ![jj + 1] = streams[ii]]
      /\ UNCHANGED <<caller, cancelled, locked>>
      /\ owed' = [owed EXCEPT ![streams[ii]] = @ - 1]
      /\ late' = [late EXCEPT ![streams[ii]] = @ + IF cancelled[streams[ii]] THEN 1 ELSE 0]
  BY DEF Written, Takes, Walks
<1>1. /\ locked /\ ii \in 1 .. Len(streams) /\ jj \in 0 .. ii - 1
      /\ streams[ii] \in Writers /\ late[streams[ii]] = 0
  BY <1>0 DEF Walking, StreamTypes, Late
<1>2. /\ streams' \in Seq(Writers) /\ Len(streams') = Len(streams)
      /\ \A m \in 1 .. Len(streams) : streams'[m] = IF m = jj + 1 THEN streams[ii]
                                                    ELSE streams[m]
  <2>1. streams \in Seq(Writers) /\ jj + 1 \in 1 .. Len(streams)
    BY <1>1 DEF StreamTypes
  <2>. QED  BY <1>0, <1>1, <2>1
<1>3. StreamTypes'
  <2>1. owed' \in [Writers -> Int]
    <3>1. owed \in [Writers -> Int]
      BY DEF StreamTypes
    <3>. QED  BY <1>0, <1>1, <3>1
  <2>2. late' \in [Writers -> 0 .. 1]
    <3>1. late \in [Writers -> 0 .. 1]
      BY DEF StreamTypes
    <3>. QED  BY <1>0, <1>1, <3>1
  <2>. QED  BY <1>0, <1>2, <2>1, <2>2 DEF StreamTypes
<1>4. Walking'
  BY <1>0, <1>1, <1>2 DEF Walking
<1>5. /\ Listed = (1 .. jj) \union (ii .. Len(streams))
      /\ Listed' = (Listed \ {ii}) \union {jj + 1} /\ ii \in Listed
      /\ Listed \subseteq 1 .. Len(streams) /\ Listed' \subseteq 1 .. Len(streams)
      /\ jj + 1 # ii => jj + 1 \notin Listed
  BY <1>0, <1>1, <1>2 DEF Listed
<1>6. \A m \in Listed' : \/ m = jj + 1 /\ streams'[m] = streams[ii]
                         \/ m # jj + 1 /\ m \in Listed \ {ii} /\ streams'[m] = streams[m]
  BY <1>1, <1>2, <1>5
<1>7. Kept'
  <2>1. \A m \in Listed' : caller'[streams'[m]] = "in"
    BY <1>0, <1>5, <1>6 DEF Kept
  <2>2. \A m, n \in Listed' : streams'[m] = streams'[n] => m = n
    BY <1>5, <1>6 DEF Kept
  <2>3. \A w \in Writers : caller'[w] = "in" => \E n \in Listed' : streams'[n] = w
    <3>. SUFFICES ASSUME NEW w \in Writers, caller[w] = "in"
                  PROVE  \E n \in Listed' : streams'[n] = w
      BY <1>0
    <3>1. PICK n \in Listed : streams[n] = w
      BY DEF Kept
    <3>2. CASE n = ii
      <4>1. jj + 1 \in Listed' /\ streams'[jj + 1] = w
        BY <1>5, <1>6, <3>1, <3>2
      <4>. QED  BY <4>1
    <3>3. CASE n # ii
      <4>1. n \in Listed' /\ streams'[n] = w
        BY <1>5, <1>6, <3>1, <3>3
      <4>. QED  BY <4>1
    <3>. QED  BY <3>2, <3>3
  <2>. QED  BY <2>1, <2>2, <2>3 DEF Kept
<1>8. Owing'
  <2>1. \A w \in Writers : owed'[w] = IF w = streams[ii] THEN owed[w] - 1 ELSE owed[w]
    BY <1>0, <1>1 DEF StreamTypes
  <2>2. owed[streams[ii]] = 1
    BY <1>1, <1>5 DEF Owing
  <2>3. \A m \in Listed \ {ii} : streams[m] \in Writers /\ streams[m] # streams[ii]
    <3>1. \A m \in Listed : streams[m] \in Writers
      <4>1. streams \in Seq(Writers) /\ \A m \in Listed : m \in 1 .. Len(streams)
        BY <1>5 DEF StreamTypes
      <4>. QED  BY <4>1
    <3>2. \A m \in Listed : streams[m] = streams[ii] => m = ii
      BY <1>5 DEF Kept
    <3>. QED  BY <3>1, <3>2
  <2>4. \A m \in Listed' : owed'[streams'[m]] = IF locked' /\ m >= ii' THEN 1 ELSE 0
    <3>. TAKE m \in Listed'
    <3>1. CASE m = jj + 1 /\ streams'[m] = streams[ii]
      BY <1>0, <1>1, <2>1, <2>2, <3>1
    <3>2. CASE m # jj + 1 /\ m \in Listed \ {ii} /\ streams'[m] = streams[m]
      <4>1. owed'[streams'[m]] = owed[streams[m]]
        BY <2>1, <2>3, <3>2
      <4>2. m \in Nat /\ (m >= ii <=> m >= ii + 1)
        BY <1>1, <1>5, <3>2
      <4>. QED  BY <1>0, <1>1, <3>2, <4>1, <4>2 DEF Owing
    <3>. QED  BY <1>6, <3>1, <3>2
  <2>5. caller[streams[ii]] = "in"
    BY <1>5 DEF Kept
  <2>. QED  BY <1>0, <2>1, <2>4, <2>5 DEF Owing
<1>9. Late'
  BY <1>0, <1>1 DEF Late, StreamTypes
<1>. QED  BY <1>3, <1>4, <1>7, <1>8, <1>9

\* The walk ends: what was kept is the list.
LEMMA WalkEndKeeps == StreamInv /\ WalkEnd => StreamInv'
<1>. SUFFICES ASSUME StreamInv, WalkEnd
              PROVE  StreamInv'
  OBVIOUS
<1>. USE DEF StreamInv
<1>0. /\ pc = "walk" /\ ii > Len(streams) /\ streams' = SubSeq(streams, 1, jj)
      /\ locked' = FALSE /\ ii' = 0 /\ jj' = 0
      /\ UNCHANGED <<caller, cancelled, owed, late>>
      /\ pc' \in {"select", "decrypt"}
  BY DEF WalkEnd, Returns, Outputs, sink
<1>1. /\ locked /\ ii = Len(streams) + 1 /\ jj \in 0 .. Len(streams)
      /\ streams \in Seq(Writers) /\ Len(streams) \in Nat
  BY <1>0 DEF Walking, StreamTypes
<1>2. /\ streams' \in Seq(Writers) /\ Len(streams') = jj
      /\ \A m \in 1 .. jj : streams'[m] = streams[m]
  BY <1>0, <1>1
<1>3. StreamTypes' /\ Walking'
  BY <1>0, <1>1, <1>2 DEF StreamTypes, Walking
<1>4. Listed = 1 .. jj /\ Listed' = 1 .. jj
  BY <1>0, <1>1, <1>2 DEF Listed
<1>5. Kept'
  BY <1>0, <1>2, <1>4 DEF Kept
<1>6. Owing'
  BY <1>0, <1>1, <1>2, <1>4 DEF Owing
<1>7. Late'
  BY <1>0 DEF Late
<1>. QED  BY <1>3, <1>5, <1>6, <1>7

\* A stream is added, when nobody walks.
LEMMA NewStreamKeeps == ASSUME StreamInv, NEW w \in Writers, NewStream(w)
                        PROVE  StreamInv'
<1>. USE DEF StreamInv
<1>0. /\ caller[w] = "calls" /\ ~locked /\ streams' = Append(streams, w)
      /\ caller' = [caller EXCEPT ![w] = "in"]
      /\ UNCHANGED <<ii, jj, locked, cancelled, owed, late, pc>>
  BY DEF NewStream, sequencer
<1>. DEFINE n == Len(streams) + 1
<1>1. /\ streams' \in Seq(Writers) /\ Len(streams') = n /\ n \in Nat
      /\ streams'[n] = w /\ \A m \in 1 .. Len(streams) : streams'[m] = streams[m]
      /\ Len(streams) = n - 1
  BY <1>0 DEF StreamTypes
<1>. HIDE DEF n
<1>2. StreamTypes' /\ Walking'
  BY <1>0, <1>1 DEF StreamTypes, Walking
<1>3. Listed = 1 .. n - 1 /\ Listed' = 1 .. n
  BY <1>0, <1>1 DEF Listed, StreamTypes
<1>4. \A m \in Listed : streams'[m] = streams[m] /\ streams[m] \in Writers /\ streams[m] # w
  BY <1>0, <1>1, <1>3 DEF Kept, StreamTypes
<1>5. \A v \in Writers : caller'[v] = IF v = w THEN "in" ELSE caller[v]
  BY <1>0 DEF StreamTypes
<1>6. \A m \in Listed' : m = n \/ m \in Listed
  BY <1>1, <1>3
<1>7. n \in Listed' /\ Listed \subseteq Listed'
  BY <1>1, <1>3
<1>8. Kept'
  <2>1. \A m \in Listed' : caller'[streams'[m]] = "in"
    BY <1>1, <1>4, <1>5, <1>6 DEF Kept
  <2>2. \A l, m \in Listed' : streams'[l] = streams'[m] => l = m
    BY <1>1, <1>4, <1>6 DEF Kept
  <2>3. \A v \in Writers : caller'[v] = "in" => \E m \in Listed' : streams'[m] = v
    BY <1>1, <1>4, <1>5, <1>7 DEF Kept
  <2>. QED  BY <2>1, <2>2, <2>3 DEF Kept
<1>9. Owing'
  <2>1. owed[w] = 0
    BY <1>0 DEF Owing
  <2>2. \A m \in Listed' : owed'[streams'[m]] = 0
    <3>. TAKE m \in Listed'
    <3>1. CASE m = n
      <4>1. streams'[m] = w
        BY <1>1, <3>1
      <4>. QED  BY <1>0, <2>1, <4>1
    <3>2. CASE m \in Listed
      <4>1. owed[streams[m]] = 0
        BY <1>0, <3>2 DEF Owing
      <4>2. streams'[m] = streams[m]
        BY <1>4, <3>2
      <4>. QED  BY <1>0, <4>1, <4>2
    <3>. QED  BY <1>6, <3>1, <3>2
  <2>. QED  BY <1>0, <1>5, <2>2 DEF Owing
<1>10. Late'
  BY <1>0 DEF Late, Walking
<1>. QED  BY <1>2, <1>8, <1>9, <1>10

\* A context is done, perhaps of the stream that is being written to.
LEMMA CancelKeeps == ASSUME StreamInv, NEW w \in Writers, Call(w) \/ Cancel(w)
                     PROVE  StreamInv'
<1>. USE DEF StreamInv
<1>0. /\ UNCHANGED <<streams, ii, jj, locked, owed, late, pc>>
      /\ caller' = caller \/ (caller[w] = "out" /\ caller' = [caller EXCEPT ![w] = "calls"])
      /\ cancelled' = cancelled \/ cancelled' = [cancelled EXCEPT ![w] = TRUE]
  BY DEF Call, Cancel, walk, sequencer
<1>1. StreamTypes' /\ Walking' /\ Late'
  BY <1>0 DEF StreamTypes, Walking, Late
<1>2. Listed' = Listed /\ \A m \in Listed : streams[m] \in Writers
  BY <1>0 DEF Listed, StreamTypes, Walking
<1>3. \A v \in Writers : caller'[v] = caller[v] \/ (caller[v] = "out" /\ caller'[v] = "calls")
  BY <1>0 DEF StreamTypes
<1>4. Kept' /\ Owing'
  BY <1>0, <1>2, <1>3 DEF Kept, Owing
<1>. QED  BY <1>1, <1>4

\* Every step keeps the streams.
LEMMA StreamStep == StreamInv /\ [Next]_vars => StreamInv'
<1>. SUFFICES ASSUME StreamInv, [Next]_vars
              PROVE  StreamInv'
  OBVIOUS
<1>1. CASE UNCHANGED vars \/ ReadData \/ ReadControl \/ Deliver \/ ControlFlush \/ Take
           \/ GiveUp \/ Decrypt \/ Decode
  <2>1. /\ UNCHANGED <<walk, sink>>
        /\ \/ pc' = pc
           \/ {pc, pc'} \subseteq {"select", "decrypt", "decode", "lock", "crashed"}
    BY <1>1 DEF vars, ReadData, ReadControl, Reads, Deliver, ControlFlush, Restarted, Take,
                Handle, GiveUp, Outputs, Decrypt, Decode, sequencer
  <2>. QED  BY <2>1, StreamsKeep
<1>2. CASE Announce \/ SetKey \/ SetIv \/ SetAlac \/ Setup \/ Teardown \/ TeardownFlush
           \/ TeardownClose
  <2>1. UNCHANGED <<walk, sink, pc>>
    BY <1>2 DEF Announce, SetKey, SetIv, SetAlac, Setup, Teardown, TeardownFlush,
                TeardownClose, Steps, Restarted, sequencer
  <2>. QED  BY <2>1, StreamsKeep
<1>3. CASE Visit \/ WriteFails
  <2>1. locked /\ ii <= Len(streams)
    BY <1>3 DEF Visit, WriteFails, StreamInv, Walking
  <2>2. CASE pc' = "walk"
    BY <1>3, <2>1, <2>2, LeavesOut DEF Visit, WriteFails, Walks
  <2>3. CASE pc' # "walk"
    <3>1. /\ pc = "walk" /\ pc' = "write" /\ ~cancelled[streams[ii]]
          /\ UNCHANGED <<streams, ii, jj, locked, caller, cancelled, owed, late>>
      BY <1>3, <2>3 DEF Visit, WriteFails, Walks
    <3>2. StreamTypes' /\ Walking'
      BY <2>1, <3>1 DEF StreamInv, StreamTypes, Walking
    <3>3. streams[ii] \in Writers
      BY <2>1 DEF StreamInv, StreamTypes, Walking
    <3>4. Listed' = Listed
      BY <3>1 DEF Listed
    <3>5. Kept' /\ Late'
      <4>1. Kept'
        BY <2>1, <3>1, <3>4 DEF StreamInv, Kept
      <4>. QED  BY <2>1, <3>1, <3>3, <4>1 DEF StreamInv, Late
    <3>6. Owing'
      BY <2>1, <3>1, <3>3, <3>4 DEF StreamInv, Owing
    <3>. QED  BY <3>2, <3>5, <3>6 DEF StreamInv
  <2>. QED  BY <2>2, <2>3
<1>. QED  BY <1>1, <1>2, <1>3, LockKeeps, WrittenKeeps, WalkEndKeeps, NewStreamKeeps,
             CancelKeeps DEF Next

\* There are no streams at the start.
LEMMA StreamInit == Init => StreamInv
<1>. SUFFICES ASSUME Init
              PROVE  StreamInv
  OBVIOUS
<1>1. StreamTypes /\ Walking
  <2>1. streams \in Seq(Writers)
    BY DEF Init
  <2>2. 0 \in Int /\ 0 \in 0 .. 1
    OBVIOUS
  <2>. QED  BY <2>1, <2>2 DEF Init, StreamTypes, Walking
<1>2. Listed = {}
  BY DEF Init, Listed
<1>. QED  BY <1>1, <1>2 DEF Init, StreamInv, Kept, Owing, Late

\* What the invariant says of the streams that are not cancelled.
LEMMA StreamsHear == StreamInv => EveryStreamHears
<1>. SUFFICES ASSUME StreamInv, NEW w \in Writers
              PROVE  /\ caller[w] = "in" /\ ~cancelled[w] =>
                          \E n \in Listed :
                            /\ {m \in Listed : streams[m] = w} = {n}
                            /\ owed[w] = IF locked /\ n >= ii THEN 1 ELSE 0
                     /\ late[w] <= 1
  BY DEF EveryStreamHears
<1>. USE DEF StreamInv
<1>1. late[w] <= 1
  BY DEF StreamTypes
<1>2. ASSUME caller[w] = "in"
      PROVE  \E n \in Listed : /\ {m \in Listed : streams[m] = w} = {n}
                               /\ owed[w] = IF locked /\ n >= ii THEN 1 ELSE 0
  <2>1. PICK n \in Listed : streams[n] = w
    BY <1>2 DEF Kept
  <2>2. {m \in Listed : streams[m] = w} = {n}
    BY <2>1 DEF Kept
  <2>. QED  BY <2>1, <2>2 DEF Owing
<1>. QED  BY <1>1, <1>2

-----------------------------------------------------------------------------
\* No object is used, and what is used is what InUse lists.
LEMMA Unused ==
  ASSUME NEW o \in Objects, InUse(o) = {}
  PROVE  /\ \A r \in Connections : receiver[r] # o
         /\ \A n \in DOMAIN seqchan : seqchan[n] # o
         /\ \A i \in Positions : cache[i] = o => current = o
         /\ Output => current # o
<1>1. \A r \in Connections : receiver[r] # o
  BY DEF InUse, Connections
<1>2. \A n \in DOMAIN seqchan : seqchan[n] # o
  <2>. SUFFICES ASSUME NEW n \in DOMAIN seqchan, seqchan[n] = o
                PROVE  FALSE
    OBVIOUS
  <2>1. <<"seqchan", n>> \in InUse(o)
    BY DEF InUse
  <2>. QED  BY <2>1
<1>3. \A i \in Positions : cache[i] = o => current = o
  <2>. SUFFICES ASSUME NEW i \in Positions, cache[i] = o, current # o
                PROVE  FALSE
    OBVIOUS
  <2>1. <<"cache", i>> \in InUse(o)
    BY DEF InUse, Cached
  <2>. QED  BY <2>1
<1>4. Output => current # o
  <2>. SUFFICES ASSUME Output, current = o
                PROVE  FALSE
    OBVIOUS
  <2>1. <<"outf", o>> \in InUse(o)
    BY DEF InUse, Output
  <2>. QED  BY <2>1
<1>. QED  BY <1>1, <1>2, <1>3, <1>4

\* What is going on elsewhere keeps the packets.
LEMMA PacketsKeep ==
  ASSUME PacketInv, UNCHANGED <<pool, packet, receiver, seqchan, turn, cache, current, due,
                                load>>,
         sent' \in 0 .. MaxPosition,
         \/ pc' = pc
         \/ /\ {pc, pc'} \subseteq {"decrypt", "decode", "lock", "walk", "write", "crashed"}
            /\ Output' => Output
  PROVE  PacketInv'
<1>. USE DEF PacketInv
<1>1. Output' => Output
  BY DEF Output
<1>2. PacketTypes' /\ Outputting'
  BY DEF PacketTypes, Outputting
<1>. QED  BY <1>1, <1>2 DEF Apart, Pooled, Filled, Full

\* A receiver gets an object that nobody uses.
LEMMA ReadsKeeps ==
  ASSUME PacketInv, NEW kind \in Kinds, NEW n \in Sessions, NEW i \in Positions,
         Reads(kind, n, i), sent' \in 0 .. MaxPosition
  PROVE  PacketInv'
<1>. USE DEF PacketInv
<1>. DEFINE r == <<kind, n>>
<1>1. PICK o \in Objects :
        /\ Get(o)
        /\ packet' = [packet EXCEPT ![o] = [session |-> n, sn |-> i, via |-> kind,
                                            recovery |-> kind = "control"]]
        /\ receiver' = [receiver EXCEPT ![r] = o]
  BY DEF Reads
<1>2. /\ UNCHANGED <<seqchan, pc, turn, cache, current, due, load>>
      /\ receiver[r] = None /\ r \in Connections
  BY DEF Reads, sequencer, source, Connections
<1>. HIDE DEF r
<1>3. o # None
  BY AudioOutputAssumption DEF None
<1>4. /\ \A q \in Connections : receiver[q] # o
      /\ \A m \in DOMAIN seqchan : seqchan[m] # o
      /\ \A j \in Positions : cache[j] = o => current = o
      /\ Output => current # o
  BY <1>1, Unused DEF Get, Garbage, Pooled, PacketTypes
<1>5. pool' \in [Objects -> 0 .. 1] /\ \A x \in Objects : pool'[x] = 1 => pool[x] = 1 /\ x # o
  BY <1>1 DEF Get, Garbage, PacketTypes
<1>6. packet' \in [Objects -> Fields]
  <2>1. [session |-> n, sn |-> i, via |-> kind, recovery |-> kind = "control"] \in Fields
    BY DEF Fields, Positions
  <2>. QED  BY <1>1, <2>1 DEF PacketTypes
<1>7. \A q \in Connections : receiver'[q] = IF q = r THEN o ELSE receiver[q]
  BY <1>1, <1>2 DEF PacketTypes
<1>8. PacketTypes'
  BY <1>1, <1>2, <1>5, <1>6 DEF PacketTypes
<1>9. Outputting'
  BY <1>2 DEF Outputting
<1>10. Apart'
  BY <1>2, <1>3, <1>4, <1>7 DEF Apart, Output
<1>11. Pooled'
  BY <1>2, <1>5, <1>7 DEF Pooled, Output
<1>12. Filled'
  <2>. DEFINE Fills(x) == packet'[x].session \in Sessions /\ packet'[x].sn \in Positions
  <2>1. \A x \in Objects : packet'[x] = IF x = o THEN [session |-> n, sn |-> i, via |-> kind,
                                                    recovery |-> kind = "control"]
                                        ELSE packet[x]
    BY <1>1 DEF PacketTypes
  <2>2. Fills(o)
    BY <2>1
  <2>3. \A x \in Objects : Full(x) => Fills(x)
    BY <2>1, <2>2 DEF Full
  <2>4. \A x \in Objects : x # o => packet'[x] = packet[x]
    BY <2>1
  <2>. HIDE DEF Fills
  <2>5. \A q \in Connections : receiver'[q] # None => Fills(receiver'[q])
    BY <1>7, <2>2, <2>3 DEF PacketTypes, Filled
  <2>6. \A m \in DOMAIN seqchan : Fills(seqchan[m])
    <3>1. \A m \in DOMAIN seqchan : seqchan[m] \in Objects
      BY DEF PacketTypes
    <3>. QED  BY <2>3, <3>1 DEF Filled
  <2>7. \A j \in Positions : cache[j] \notin {None, current} =>
          Fills(cache[j]) /\ packet'[cache[j]].sn = j
    <3>. SUFFICES ASSUME NEW j \in Positions, cache[j] \notin {None, current}
                  PROVE  Fills(cache[j]) /\ packet'[cache[j]].sn = j
      OBVIOUS
    <3>1. cache[j] \in Objects /\ cache[j] # o
      BY <1>4 DEF PacketTypes
    <3>. QED  BY <2>3, <2>4, <3>1 DEF Filled
  <2>8. Output => due = <<packet'[current].session, packet'[current].sn>>
    <3>1. Output => current \in Objects /\ current # o
      BY <1>4 DEF Outputting, PacketTypes, Output
    <3>. QED  BY <2>4, <3>1 DEF Filled
  <2>9. \A x \in Objects : packet'[x].recovery <=> packet'[x].via = "control"
    <3>1. packet'[o].recovery = (kind = "control") /\ packet'[o].via = kind
      BY <2>1
    <3>2. packet'[o].recovery <=> packet'[o].via = "control"
      <4>1. CASE kind = "control"
        BY <3>1, <4>1
      <4>2. CASE kind # "control"
        BY <3>1, <4>2
      <4>. QED  BY <4>1, <4>2
    <3>. TAKE x \in Objects
    <3>3. CASE x = o
      BY <3>2, <3>3
    <3>4. CASE x # o
      BY <2>4, <3>4 DEF Filled
    <3>. QED  BY <3>3, <3>4
  <2>. QED  BY <1>2, <2>5, <2>6, <2>7, <2>8, <2>9 DEF Filled, Full, Fills, Output
<1>. QED  BY <1>8, <1>9, <1>10, <1>11, <1>12

\* A packet goes from a receiver to the end of the channel.
LEMMA DeliverKeeps == PacketInv /\ Deliver => PacketInv'
<1>. SUFFICES ASSUME PacketInv, Deliver
              PROVE  PacketInv'
  OBVIOUS
<1>. USE DEF PacketInv
<1>1. PICK r \in Connections :
        /\ receiver[r] # None /\ Len(seqchan) < DataCap
        /\ seqchan' = Append(seqchan, receiver[r])
        /\ receiver' = [receiver EXCEPT ![r] = None]
        /\ UNCHANGED <<pool, packet, sent, pc, turn, cache, current, due, load>>
  BY DEF Deliver, Connections, sequencer, source
<1>. DEFINE o == receiver[r]
<1>2. o \in Objects /\ o # None
  BY <1>1 DEF PacketTypes
<1>3. /\ seqchan' \in Seq(Objects) /\ Len(seqchan') = Len(seqchan) + 1
      /\ Len(seqchan) \in Nat /\ DOMAIN seqchan = 1 .. Len(seqchan)
      /\ DOMAIN seqchan' = 1 .. Len(seqchan) + 1
      /\ \A m \in DOMAIN seqchan' :
           seqchan'[m] = IF m = Len(seqchan) + 1 THEN o ELSE seqchan[m]
  BY <1>1, <1>2 DEF PacketTypes
<1>4. \A q \in Connections : receiver'[q] = IF q = r THEN None ELSE receiver[q]
  BY <1>1 DEF PacketTypes
<1>. HIDE DEF o
<1>5. \A m \in DOMAIN seqchan' : \/ m = Len(seqchan) + 1 /\ seqchan'[m] = o
                                 \/ m \in DOMAIN seqchan /\ seqchan'[m] = seqchan[m]
  BY <1>3
<1>6. PacketTypes'
  <2>1. Len(seqchan') <= DataCap
    BY <1>1, <1>3, AudioOutputAssumption
  <2>2. receiver' \in [Connections -> Objects \union {None}]
    BY <1>1 DEF PacketTypes
  <2>. QED  BY <1>1, <1>3, <2>1, <2>2 DEF PacketTypes
<1>7. Outputting'
  BY <1>1 DEF Outputting
<1>8. /\ \A q \in Connections \ {r} : receiver[q] # o
      /\ \A m \in DOMAIN seqchan : seqchan[m] # o
      /\ \A j \in Positions : cache[j] = o => current = o
      /\ Output => current # o
      /\ pool[o] # 1
      /\ Full(o)
  BY <1>1, <1>2 DEF o, Apart, Pooled, Filled
<1>9. Apart'
  BY <1>1, <1>4, <1>5, <1>8 DEF Apart, Output
<1>10. Pooled'
  <2>1. \A x \in Objects : x # None
    BY AudioOutputAssumption DEF None
  <2>. QED  BY <1>1, <1>2, <1>4, <1>5, <1>8, <2>1 DEF Pooled, Output
<1>11. Filled'
  <2>1. \A q \in Connections : receiver'[q] # None => Full(receiver'[q])
    BY <1>4 DEF Filled
  <2>2. \A m \in DOMAIN seqchan' : Full(seqchan'[m])
    BY <1>5, <1>8 DEF Filled
  <2>. QED  BY <1>1, <2>1, <2>2 DEF Filled, Full, Output
<1>. QED  BY <1>6, <1>7, <1>9, <1>10, <1>11

\* flush() of the sequencer forgets what waits.
LEMMA RestartedKeeps ==
  ASSUME PacketInv, Restarted, UNCHANGED <<transport, load>>
  PROVE  PacketInv'
<1>. USE DEF PacketInv
<1>1. /\ UNCHANGED <<pool, packet, receiver, seqchan, sent, pc, current, due, load>>
      /\ turn' = 0 /\ cache' = NoCache /\ pc = "select" /\ current = None
  BY DEF Restarted, transport, Outputting
<1>2. /\ \A i \in Positions : cache'[i] = None
      /\ cache' \in [Positions -> Objects \union {None}]
  BY <1>1 DEF NoCache
<1>3. \A o \in Objects : o # None
  BY AudioOutputAssumption DEF None
<1>4. PacketTypes'
  BY <1>1, <1>2, AudioOutputAssumption DEF PacketTypes
<1>5. Outputting'
  BY <1>1 DEF Outputting
<1>6. Apart' /\ Pooled' /\ Filled'
  BY <1>1, <1>2, <1>3 DEF PacketTypes, Apart, Pooled, Filled, Full, Output
<1>. QED  BY <1>4, <1>5, <1>6

\* handle() drops a packet, outputs it or keeps it for later.
LEMMA TakeKeeps == PacketInv /\ Take => PacketInv'
<1>. SUFFICES ASSUME PacketInv, Take
              PROVE  PacketInv'
  OBVIOUS
<1>. USE DEF PacketInv
<1>. DEFINE o == Head(seqchan)
<1>1. /\ pc = "select" /\ current = None /\ seqchan # <<>> /\ seqchan' = Tail(seqchan)
      /\ UNCHANGED <<pool, packet, receiver, sent, load>> /\ Handle(o)
  BY DEF Take, Outputting, source
<1>2. /\ o = seqchan[1] /\ 1 \in DOMAIN seqchan
      /\ seqchan' \in Seq(Objects) /\ Len(seqchan') <= DataCap
      /\ \A m \in DOMAIN seqchan' : /\ m + 1 \in DOMAIN seqchan
                                    /\ seqchan'[m] = seqchan[m + 1] /\ m \in Nat \ {0}
  <2>1. Len(seqchan) \in Nat \ {0} /\ DataCap \in Nat
    BY <1>1, AudioOutputAssumption DEF PacketTypes
  <2>. QED  BY <1>1, <2>1 DEF PacketTypes
<1>3. o \in Objects /\ o # None /\ ~Output
  BY <1>1, <1>2, AudioOutputAssumption DEF PacketTypes, None, Output
<1>. HIDE DEF o
<1>4. /\ \A r \in Connections : receiver[r] # o
      /\ \A m \in DOMAIN seqchan' : seqchan'[m] # o
      /\ \A j \in Positions : cache[j] # o
      /\ pool[o] # 1
      /\ Full(o)
  <2>1. \A m \in DOMAIN seqchan' : seqchan[m + 1] # seqchan[1]
    BY <1>2 DEF Apart
  <2>2. \A r \in Connections : receiver[r] # o
    BY <1>2, <1>3 DEF Apart
  <2>3. \A j \in Positions : cache[j] # o
    BY <1>1, <1>2, <1>3 DEF Apart
  <2>. QED  BY <1>2, <1>3, <2>1, <2>2, <2>3 DEF Pooled, Filled
<1>5. /\ \A m, n \in DOMAIN seqchan' : seqchan'[m] = seqchan'[n] => m = n
      /\ \A r \in Connections : receiver[r] # None =>
           \A m \in DOMAIN seqchan' : seqchan'[m] # receiver[r]
      /\ \A m \in DOMAIN seqchan' :
           /\ \A i \in Positions : cache[i] # seqchan'[m]
           /\ \A x \in Objects : pool[x] = 1 => seqchan'[m] # x
           /\ Full(seqchan'[m]) /\ seqchan'[m] \in Objects
  <2>1. \A m, n \in DOMAIN seqchan' : seqchan'[m] = seqchan'[n] => m = n
    <3>1. \A m, n \in DOMAIN seqchan' : m + 1 = n + 1 => m = n
      BY <1>2
    <3>. QED  BY <1>2, <3>1 DEF Apart
  <2>2. \A r \in Connections : receiver[r] # None =>
           \A m \in DOMAIN seqchan' : seqchan'[m] # receiver[r]
    BY <1>2 DEF Apart
  <2>3. \A m \in DOMAIN seqchan' : seqchan[m + 1] \in Objects /\ seqchan[m + 1] # None
    BY <1>2, AudioOutputAssumption DEF PacketTypes, None
  <2>4. \A m \in DOMAIN seqchan' : \A i \in Positions : cache[i] # seqchan'[m]
    BY <1>1, <1>2, <2>3 DEF Apart
  <2>. QED  BY <1>2, <2>1, <2>2, <2>3, <2>4 DEF Pooled, Filled
<1>6. CASE UNCHANGED <<cache, current, turn, due, pc>>
  <2>1. PacketTypes' /\ Outputting'
    BY <1>1, <1>2, <1>6 DEF PacketTypes, Outputting
  <2>2. Apart' /\ Pooled' /\ Filled'
    BY <1>1, <1>3, <1>5, <1>6 DEF Apart, Pooled, Filled, Full, Output
  <2>. QED  BY <2>1, <2>2
<1>7. CASE Outputs(o, packet[o].sn) /\ UNCHANGED cache
  <2>1. /\ current' = o /\ turn' = packet[o].sn /\ pc' = "decrypt" /\ cache' = cache
        /\ due' = <<packet[o].session, packet[o].sn>> /\ turn' \in Positions
    BY <1>4, <1>7 DEF Outputs, Full
  <2>2. turn' \in 0 .. MaxPosition + 1
    BY <2>1, AudioOutputAssumption DEF Positions
  <2>3. PacketTypes'
    BY <1>1, <1>2, <1>3, <2>1, <2>2 DEF PacketTypes
  <2>4. Outputting'
    BY <1>3, <1>4, <2>1 DEF Outputting
  <2>5. \A j \in Positions : cache[j] \in Objects \union {None}
    BY DEF PacketTypes
  <2>6. Apart'
    BY <1>1, <1>3, <1>4, <1>5, <2>1 DEF Apart
  <2>7. Pooled'
    BY <1>1, <1>4, <1>5, <2>1, AudioOutputAssumption DEF Pooled, None
  <2>8. Filled'
    BY <1>1, <1>3, <1>4, <1>5, <2>1 DEF Filled, Full
  <2>. QED  BY <2>3, <2>4, <2>6, <2>7, <2>8
<1>8. CASE /\ cache' = [cache EXCEPT ![packet[o].sn] = o]
           /\ UNCHANGED <<current, turn, due, pc>>
  <2>. DEFINE k == packet[o].sn
  <2>1. k \in Positions /\ cache' \in [Positions -> Objects \union {None}]
    BY <1>3, <1>4, <1>8 DEF Full, PacketTypes
  <2>2. \A j \in Positions : cache'[j] = IF j = k THEN o ELSE cache[j]
    BY <1>8, <2>1 DEF PacketTypes
  <2>. HIDE DEF k
  <2>3. PacketTypes'
    BY <1>1, <1>2, <1>8, <2>1 DEF PacketTypes
  <2>4. Outputting'
    BY <1>1, <1>8 DEF Outputting
  <2>5. Apart'
    BY <1>1, <1>3, <1>4, <1>5, <1>8, <2>2 DEF Apart, Output
  <2>6. Pooled'
    BY <1>1, <1>3, <1>4, <1>5, <1>8, <2>2 DEF Pooled, Output
  <2>7. Filled'
    <3>1. packet[o].sn = k
      BY DEF k
    <3>. QED  BY <1>1, <1>3, <1>4, <1>5, <1>8, <2>2, <3>1 DEF Filled, Full, Output
  <2>. QED  BY <2>3, <2>4, <2>5, <2>6, <2>7
<1>. QED  BY <1>1, <1>6, <1>7, <1>8 DEF Handle

\* The first packet that waits is output.
LEMMA GiveUpKeeps == PacketInv /\ GiveUp => PacketInv'
<1>. SUFFICES ASSUME PacketInv, GiveUp
              PROVE  PacketInv'
  OBVIOUS
<1>. USE DEF PacketInv
<1>1. PICK i \in Positions : cache[i] # None /\ Outputs(cache[i], i)
  BY DEF GiveUp
<1>2. /\ UNCHANGED <<pool, packet, receiver, seqchan, sent, load, cache>>
      /\ pc = "select" /\ current = None
  BY DEF GiveUp, transport, source, Outputting
<1>. DEFINE o == cache[i]
<1>3. o \in Objects /\ o # None /\ Full(o) /\ packet[o].sn = i
  BY <1>1, <1>2 DEF PacketTypes, Filled
<1>4. /\ current' = o /\ turn' = i /\ pc' = "decrypt"
      /\ due' = <<packet[o].session, packet[o].sn>>
  BY <1>1, <1>3 DEF Outputs
<1>5. /\ \A r \in Connections : receiver[r] # o
      /\ \A m \in DOMAIN seqchan : seqchan[m] # o
      /\ \A j \in Positions : cache[j] = o => j = i
      /\ pool[o] # 1
  BY <1>2, <1>3 DEF Apart, Pooled
<1>. HIDE DEF o
<1>6. turn' \in 0 .. MaxPosition + 1
  BY <1>4, AudioOutputAssumption DEF Positions
<1>7. PacketTypes'
  BY <1>2, <1>3, <1>4, <1>6 DEF PacketTypes
<1>8. Outputting'
  BY <1>3, <1>4, <1>2, <1>5 DEF Outputting
<1>9. Apart'
  BY <1>2, <1>3, <1>4, <1>5, AudioOutputAssumption DEF Apart, None, PacketTypes
<1>10. Pooled'
  BY <1>2, <1>3, <1>4, <1>5, AudioOutputAssumption DEF Pooled, None
<1>11. Filled'
  BY <1>2, <1>3, <1>4 DEF Filled, Full
<1>. QED  BY <1>7, <1>8, <1>9, <1>10, <1>11

\* The object goes back to the pool, and the sequencer has it no more.
LEMMA DecodeKeeps == PacketInv /\ Decode => PacketInv'
<1>. SUFFICES ASSUME PacketInv, Decode
              PROVE  PacketInv'
  OBVIOUS
<1>. USE DEF PacketInv
<1>1. /\ UNCHANGED <<packet, receiver, seqchan, sent, load, cache, current, turn, due>>
      /\ pc = "decode" /\ pc' \in {"crashed", "lock"}
      /\ pool' = [pool EXCEPT ![current] = @ + 1]
  BY DEF Decode, Put, source
<1>2. current \in Objects /\ current # None /\ Output /\ ~Output'
  BY <1>1 DEF PacketTypes, Outputting, Output
<1>3. /\ \A r \in Connections : receiver[r] # current
      /\ \A m \in DOMAIN seqchan : seqchan[m] # current
      /\ pool[current] = 0
  BY <1>2 DEF Apart, Pooled, PacketTypes
<1>4. /\ pool' \in [Objects -> 0 .. 1]
      /\ \A x \in Objects : pool'[x] = IF x = current THEN 1 ELSE pool[x]
  BY <1>1, <1>2, <1>3 DEF PacketTypes
<1>5. PacketTypes' /\ Outputting'
  BY <1>1, <1>4 DEF PacketTypes, Outputting
<1>6. Apart'
  BY <1>1, <1>2 DEF Apart
<1>7. Pooled'
  BY <1>1, <1>2, <1>3, <1>4 DEF Pooled
<1>8. Filled'
  BY <1>1, <1>2 DEF Filled, Full
<1>. QED  BY <1>5, <1>6, <1>7, <1>8

\* flushCached goes on with the next packet, if it is there.
LEMMA ReturnsKeeps == PacketInv /\ WalkEnd => PacketInv'
<1>. SUFFICES ASSUME PacketInv, WalkEnd
              PROVE  PacketInv'
  OBVIOUS
<1>. USE DEF PacketInv
<1>1. /\ UNCHANGED <<pool, packet, receiver, seqchan, sent, load>>
      /\ pc = "walk" /\ cache' = [cache EXCEPT ![turn] = None]
      /\ IF turn < MaxPosition /\ cache[turn + 1] # None
         THEN Outputs(cache[turn + 1], turn + 1)
         ELSE pc' = "select" /\ turn' = turn + 1 /\ current' = None
  BY DEF WalkEnd, Returns, transport, source
<1>2. /\ turn \in Positions /\ current \in Objects /\ current # None
      /\ turn \in Nat /\ turn <= MaxPosition /\ MaxPosition \in Nat
  BY <1>1, AudioOutputAssumption DEF Outputting, PacketTypes, Positions
<1>3. /\ cache' \in [Positions -> Objects \union {None}]
      /\ \A j \in Positions : cache'[j] = IF j = turn THEN None ELSE cache[j]
  BY <1>1, <1>2 DEF PacketTypes
<1>4. \A j \in Positions : cache'[j] # None => cache'[j] = cache[j] /\ cache[j] # current
  BY <1>2, <1>3 DEF Outputting
<1>5. \A x \in Objects : x # None
  BY AudioOutputAssumption DEF None
<1>6. /\ \A r \in Connections : receiver[r] \in Objects \union {None}
      /\ \A n \in DOMAIN seqchan : seqchan[n] \in Objects
  BY DEF PacketTypes
<1>7. /\ \A r \in Connections : receiver[r] # None =>
           \A j \in Positions : cache'[j] # receiver[r]
      /\ \A n \in DOMAIN seqchan : \A j \in Positions : cache'[j] # seqchan[n]
      /\ \A x \in Objects : pool[x] = 1 => \A j \in Positions : cache'[j] # x
      /\ \A i, j \in Positions : cache'[i] = cache'[j] /\ cache'[i] # None => i = j
      /\ \A j \in Positions : cache'[j] # None => Full(cache'[j]) /\ packet[cache'[j]].sn = j
  <2>1. \A r \in Connections : receiver[r] # None =>
          \A j \in Positions : cache'[j] # receiver[r]
    BY <1>4 DEF Apart
  <2>2. \A n \in DOMAIN seqchan : \A j \in Positions : cache'[j] # seqchan[n]
    BY <1>4, <1>5, <1>6 DEF Apart
  <2>3. \A x \in Objects : pool[x] = 1 => \A j \in Positions : cache'[j] # x
    BY <1>4, <1>5 DEF Pooled
  <2>4. \A i, j \in Positions : cache'[i] = cache'[j] /\ cache'[i] # None => i = j
    BY <1>4 DEF Apart
  <2>5. \A j \in Positions : cache'[j] # None => Full(cache'[j]) /\ packet[cache'[j]].sn = j
    BY <1>4 DEF Filled
  <2>. QED  BY <2>1, <2>2, <2>3, <2>4, <2>5
<1>8. CASE turn < MaxPosition /\ cache[turn + 1] # None
  <2>. DEFINE i == turn + 1
              o == cache[turn + 1]
  <2>1. i \in Positions /\ i # turn /\ i \in 0 .. MaxPosition + 1
    BY <1>2, <1>8 DEF Positions
  <2>2. o = cache'[i] /\ o # None /\ o \in Objects
    BY <1>3, <1>8, <2>1 DEF PacketTypes
  <2>3. packet[o].sn = i
    BY <1>7, <2>1, <2>2
  <2>4. /\ current' = o /\ turn' = i /\ pc' = "decrypt"
        /\ due' = <<packet[o].session, packet[o].sn>>
    BY <1>1, <1>8, <2>3 DEF Outputs
  <2>. HIDE DEF i, o
  <2>5. PacketTypes'
    BY <1>1, <1>3, <2>1, <2>2, <2>4 DEF PacketTypes
  <2>6. Outputting'
    BY <1>7, <2>1, <2>2, <2>4 DEF Outputting
  <2>7. Apart'
    BY <1>1, <1>6, <1>7, <2>1, <2>2, <2>4 DEF Apart
  <2>8. Pooled'
    BY <1>1, <1>7, <2>1, <2>2, <2>4 DEF Pooled
  <2>9. Filled'
    BY <1>1, <1>7, <2>4 DEF Filled, Full
  <2>. QED  BY <2>5, <2>6, <2>7, <2>8, <2>9
<1>9. CASE ~(turn < MaxPosition /\ cache[turn + 1] # None)
  <2>1. pc' = "select" /\ turn' = turn + 1 /\ current' = None /\ turn' \in 0 .. MaxPosition + 1
        /\ ~Output'
    BY <1>1, <1>2, <1>9 DEF Output
  <2>2. PacketTypes'
    BY <1>1, <1>3, <2>1 DEF PacketTypes
  <2>3. Outputting'
    BY <2>1 DEF Outputting
  <2>4. Apart'
    BY <1>1, <1>7, <2>1 DEF Apart
  <2>5. Pooled'
    BY <1>1, <1>7, <2>1 DEF Pooled
  <2>6. Filled'
    BY <1>1, <1>7, <2>1 DEF Filled, Full
  <2>. QED  BY <2>2, <2>3, <2>4, <2>5, <2>6
<1>. QED  BY <1>8, <1>9

\* Every step keeps the packets.
LEMMA PacketStep == PacketInv /\ [Next]_vars => PacketInv'
<1>. SUFFICES ASSUME PacketInv, [Next]_vars
              PROVE  PacketInv'
  OBVIOUS
<1>1. sent \in 0 .. MaxPosition /\ load \in Loads /\ 0 \in 0 .. MaxPosition
  BY AudioOutputAssumption DEF PacketInv, PacketTypes
<1>2. CASE ReadData
  <2>1. PICK n \in Sessions, i \in 1 .. load.positions : sent' = i /\ Reads("data", n, i)
    BY <1>2 DEF ReadData
  <2>2. load.positions \in 0 .. MaxPosition
    BY <1>1, AudioOutputAssumption
  <2>3. i \in Positions /\ sent' \in 0 .. MaxPosition
    BY <2>1, <2>2, AudioOutputAssumption DEF Positions
  <2>. QED  BY <2>1, <2>3, ReadsKeeps DEF Kinds
<1>3. CASE ReadControl
  BY <1>1, <1>3, ReadsKeeps DEF ReadControl, Kinds
<1>4. CASE UNCHANGED vars \/ Decrypt \/ Lock \/ Visit \/ Written \/ WriteFails
           \/ \E w \in Writers : Call(w) \/ NewStream(w) \/ Cancel(w)
  <2>1. /\ UNCHANGED <<pool, packet, receiver, seqchan, turn, cache, current, due, load, sent>>
        /\ \/ pc' = pc
           \/ /\ {pc, pc'} \subseteq {"decrypt", "decode", "lock", "walk", "write", "crashed"}
              /\ Output' => Output
    BY <1>4 DEF vars, Decrypt, Lock, Visit, Written, WriteFails, Walks, Takes, Call, NewStream,
                Cancel, transport, sequencer, source, Output
  <2>. QED  BY <1>1, <2>1, PacketsKeep
<1>5. CASE Announce \/ SetKey \/ SetIv \/ SetAlac \/ Setup \/ Teardown \/ TeardownClose
  <2>1. /\ UNCHANGED <<pool, packet, receiver, seqchan, turn, cache, current, due, load, pc>>
        /\ sent' \in {0, sent}
    BY <1>5 DEF Announce, SetKey, SetIv, SetAlac, Setup, Teardown, TeardownClose, Steps,
                transport, sequencer
  <2>. QED  BY <1>1, <2>1, PacketsKeep
<1>6. CASE ControlFlush \/ TeardownFlush
  BY <1>6, RestartedKeeps DEF ControlFlush, TeardownFlush, source
<1>. QED  BY <1>2, <1>3, <1>4, <1>5, <1>6, DeliverKeeps, TakeKeeps, GiveUpKeeps, DecodeKeeps,
             ReturnsKeeps DEF Next

\* There are no packets at the start.
LEMMA PacketInit == Init => PacketInv
<1>. SUFFICES ASSUME Init
              PROVE  PacketInv
  OBVIOUS
<1>1. /\ seqchan \in Seq(Objects) /\ Len(seqchan) <= DataCap /\ DOMAIN seqchan = {}
  BY AudioOutputAssumption DEF Init
<1>2. NoPacket \in Fields
  BY AudioOutputAssumption DEF NoPacket, Fields, Kinds
<1>3. PacketTypes
  BY <1>1, <1>2, AudioOutputAssumption DEF Init, PacketTypes, NoCache, Connections
<1>4. /\ \A r \in Connections : receiver[r] = None
      /\ \A i \in Positions : cache[i] = None
      /\ ~Output
  BY DEF Init, NoCache, Output, Connections
<1>5. Outputting
  BY DEF Init, Outputting
<1>6. Apart
  BY <1>1, <1>4 DEF Apart
<1>7. Pooled
  BY AudioOutputAssumption DEF Init, Pooled
<1>8. Filled
  BY <1>1, <1>4 DEF Init, Filled, NoPacket
<1>. QED  BY <1>3, <1>5, <1>6, <1>7, <1>8 DEF PacketInv

\* No object is used twice.
LEMMA PacketsAreApart == PacketInv => Exclusive
<1>. SUFFICES ASSUME PacketInv, NEW o \in Objects
              PROVE  pool[o] + Cardinality(InUse(o)) <= 1
  BY DEF Exclusive
<1>. USE DEF PacketInv
<1>0. o # None /\ pool[o] \in 0 .. 1
  BY AudioOutputAssumption DEF None, PacketTypes
<1>1. \A u \in InUse(o) :
        \/ u \in Connections /\ receiver[u] = o
        \/ \E n \in DOMAIN seqchan : u = <<"seqchan", n>> /\ seqchan[n] = o
        \/ \E i \in Positions : u = <<"cache", i>> /\ cache[i] = o /\ current # o
        \/ u = <<"outf", o>> /\ current = o /\ Output
  BY <1>0 DEF InUse, Cached, Connections, Output, Outputting
<1>2. \A u, v \in InUse(o) : u = v
  <2>. SUFFICES ASSUME NEW u \in InUse(o), NEW v \in InUse(o)
                PROVE  u = v
    OBVIOUS
  <2>1. CASE u \in Connections /\ receiver[u] = o
    BY <1>0, <1>1, <2>1 DEF Apart
  <2>2. CASE \E n \in DOMAIN seqchan : u = <<"seqchan", n>> /\ seqchan[n] = o
    BY <1>0, <1>1, <2>2 DEF Apart
  <2>3. CASE \E i \in Positions : u = <<"cache", i>> /\ cache[i] = o /\ current # o
    BY <1>0, <1>1, <2>3 DEF Apart
  <2>4. CASE u = <<"outf", o>> /\ current = o /\ Output
    BY <1>0, <1>1, <2>4 DEF Apart
  <2>. QED  BY <1>1, <2>1, <2>2, <2>3, <2>4
<1>3. CASE InUse(o) = {}
  <2>1. Cardinality(InUse(o)) = 0
    BY <1>3, FS_EmptySet
  <2>. QED  BY <1>0, <2>1
<1>4. CASE InUse(o) # {}
  <2>1. PICK u : u \in InUse(o)
    BY <1>4
  <2>2. Cardinality(InUse(o)) = 1
    <3>1. InUse(o) = {u}
      BY <1>2, <2>1
    <3>. QED  BY <3>1, FS_Singleton
  <2>3. pool[o] # 1
    BY <1>0, <1>1, <2>1 DEF Pooled
  <2>. QED  BY <1>0, <2>2, <2>3
<1>. QED  BY <1>3, <1>4

-----------------------------------------------------------------------------
\* What does not touch packets, keys or what is being decoded.
LEMMA KeysKeep ==
  ASSUME KeyInv, UNCHANGED <<packet, open, source, due, used, audioBuffer>>,
         \/ pc' \in {pc, "select", "crashed"}
         \/ {pc, pc'} \subseteq {"lock", "walk", "write"},
         pc = "select" => pc' = "select"
  PROVE  KeyInv'
BY DEF KeyInv, Announced, Sent, OfSession, Decoded, Keyed, source

\* Nothing is being decoded when the sequencer is back at its select.
LEMMA SelectKeeps ==
  ASSUME KeyInv, UNCHANGED <<packet, open, source>>, pc' = "select"
  PROVE  KeyInv'
BY DEF KeyInv, Announced, Sent, OfSession, Decoded, Keyed, source

\* The packet that is output is of a session that has been announced.
LEMMA OutputsKeeps ==
  ASSUME KeyInv, NEW o \in Objects, NEW i, Full(o), Outputs(o, i),
         UNCHANGED <<packet, open, source>>
  PROVE  KeyInv'
<1>1. /\ due'[1] = packet[o].session /\ pc' = "decrypt"
      /\ packet[o].session \in Sessions /\ packet[o].session # None
  BY DEF Outputs, Full, Sessions, None
<1>2. packet[o].session \in 1 .. session /\ OfSession(packet[o].session)
  BY <1>1, AudioOutputAssumption DEF KeyInv, Sent, Sessions, Announced
<1>3. Announced'
  BY DEF KeyInv, Announced, Keyed, source
<1>4. Sent'
  BY <1>1, <1>2 DEF KeyInv, Sent, OfSession, Keyed, source
<1>5. Decoded'
  BY <1>1 DEF Decoded
<1>. QED  BY <1>3, <1>4, <1>5 DEF KeyInv

\* Packets come while the connections are open.
LEMMA ReadsKeys ==
  ASSUME KeyInv, PacketInv, NEW kind \in Kinds, NEW n \in Sessions, NEW i,
         Reads(kind, n, i)
  PROVE  KeyInv'
<1>1. PICK o \in Objects :
        packet' = [packet EXCEPT ![o] = [session |-> n, sn |-> i, via |-> kind,
                                         recovery |-> kind = "control"]]
  BY DEF Reads
<1>2. /\ UNCHANGED <<open, source, pc, due, used, audioBuffer>> /\ open = n
  BY DEF Reads, sequencer
<1>3. \A x \in Objects : packet'[x].session = IF x = o THEN n ELSE packet[x].session
  BY <1>1 DEF PacketInv, PacketTypes
<1>4. n # None
  BY DEF Sessions, None
<1>5. n = session /\ OfSession(n) /\ session \in Int
  BY <1>2, <1>4, AudioOutputAssumption DEF KeyInv, Announced, OfSession
<1>6. Announced' /\ Decoded'
  BY <1>2 DEF KeyInv, Announced, Decoded, Keyed, source
<1>7. Sent'
  BY <1>2, <1>3, <1>5 DEF KeyInv, Sent, OfSession, Keyed, source
<1>. QED  BY <1>6, <1>7 DEF KeyInv

\* The packet is decrypted and decoded with the keys there are.
LEMMA DecodeKeys ==
  ASSUME KeyInv, PacketInv, Decrypt \/ Decode
  PROVE  KeyInv'
<1>1. /\ UNCHANGED <<packet, open, source, due>>
      /\ pc \in {"decrypt", "decode"} /\ pc' \in {"decode", "lock", "crashed"}
  BY DEF Decrypt, Decode, transport
<1>2. Announced' /\ Sent'
  BY <1>1 DEF KeyInv, Announced, Sent, OfSession, Keyed, source
<1>3. due[1] = session => Keyed
  BY <1>1 DEF KeyInv, Sent, OfSession
<1>4. Decoded'
  <2>1. CASE Decrypt
    <3>1. used' = <<aeskey, aesiv>> /\ pc' \in {"decode", "crashed"}
      BY <2>1 DEF Decrypt
    <3>. QED  BY <1>1, <1>3, <3>1 DEF Decoded, Keyed, source
  <2>2. CASE Decode
    <3>1. /\ pc = "decode" /\ pc' \in {"lock", "crashed"} /\ used' = used
          /\ audioBuffer' = [session |-> packet[current].session,
                             sn |-> packet[current].sn, alac |-> alac]
      BY <2>2 DEF Decode
    <3>2. due = <<packet[current].session, packet[current].sn>>
      BY <3>1 DEF PacketInv, Filled, Output
    <3>. QED  BY <1>1, <1>3, <3>1, <3>2 DEF KeyInv, Decoded, Keyed, source
  <2>. QED  BY <2>1, <2>2
<1>. QED  BY <1>2, <1>4 DEF KeyInv

\* ANNOUNCE, SETUP and TEARDOWN: keys change while there are no packets of theirs.
LEMMA SourceKeeps ==
  ASSUME KeyInv, PacketInv,
         Announce \/ SetKey \/ SetIv \/ SetAlac \/ Setup \/ Teardown \/ TeardownFlush
           \/ TeardownClose
  PROVE  KeyInv'
<1>1. /\ UNCHANGED <<packet, due, used, audioBuffer, pc>>
      /\ load \in Loads /\ session \in 0 .. MaxSessions
      /\ load.sessions \in 0 .. MaxSessions /\ MaxSessions \in Nat
  <2>1. UNCHANGED <<packet, due, used, audioBuffer, pc>>
    BY DEF Announce, SetKey, SetIv, SetAlac, Setup, Teardown, TeardownFlush, TeardownClose,
           Steps, Restarted, transport, sequencer
  <2>. QED  BY <2>1, AudioOutputAssumption DEF PacketInv, PacketTypes, KeyInv, Announced
<1>2. \A o \in Objects : packet[o].session \in 0 .. MaxSessions
  BY <1>1 DEF PacketInv, PacketTypes, Fields, Sessions, None
<1>3. CASE Announce
  <2>1. /\ rtsp = "idle" /\ session' = session + 1 /\ session' \in Sessions
        /\ UNCHANGED <<open, aeskey, aesiv, alac>> /\ rtsp' \in {"key", "idle"}
    BY <1>1, <1>3 DEF Announce, Steps, transport, Sessions
  <2>2. Announced'
    BY <1>1, <2>1 DEF KeyInv, Announced, Sessions, None
  <2>3. Sent' /\ Decoded'
    BY <1>1, <1>2, <2>1 DEF KeyInv, Sent, Decoded, OfSession
  <2>. QED  BY <2>2, <2>3 DEF KeyInv
<1>4. CASE SetKey \/ SetIv \/ SetAlac
  <2>1. /\ rtsp \in {"key", "iv", "alac"} /\ session' = session /\ open' = open
        /\ rtsp' \in {"iv", "idle", "alac", "announced"}
    BY <1>4 DEF SetKey, SetIv, SetAlac, Steps, transport
  <2>2. session \in Sessions /\ open = None
    BY <2>1 DEF KeyInv, Announced
  <2>3. Announced'
    BY <1>4, <2>1, <2>2 DEF SetKey, SetIv, SetAlac, Steps, KeyInv, Announced, Keyed
  <2>4. Sent' /\ Decoded'
    BY <1>1, <1>2, <2>1, <2>2 DEF KeyInv, Sent, Decoded, OfSession
  <2>. QED  BY <2>3, <2>4 DEF KeyInv
<1>5. CASE Setup \/ Teardown \/ TeardownFlush \/ TeardownClose
  <2>1. /\ UNCHANGED <<session, aeskey, aesiv, alac>>
        /\ rtsp \in {"announced", "playing", "flush", "close"}
        /\ rtsp' \in {"playing", "flush", "close", "idle"}
        /\ \/ rtsp' = "playing" /\ open' = session
           \/ rtsp' \in {"flush", "close"} /\ open' = open
           \/ open' = None
    BY <1>5 DEF Setup, Teardown, TeardownFlush, TeardownClose, Steps, transport
  <2>2. Keyed /\ session \in Sessions
    BY <2>1 DEF KeyInv, Announced
  <2>3. Announced'
    BY <2>1, <2>2 DEF KeyInv, Announced, Keyed
  <2>4. Sent' /\ Decoded'
    BY <1>1, <2>1, <2>2 DEF KeyInv, Sent, Decoded, OfSession, Keyed
  <2>. QED  BY <2>3, <2>4 DEF KeyInv
<1>. QED  BY <1>3, <1>4, <1>5

\* Every step keeps the keys.
LEMMA KeyStep == PacketInv /\ KeyInv /\ [Next]_vars => KeyInv'
<1>. SUFFICES ASSUME PacketInv, KeyInv, [Next]_vars
              PROVE  KeyInv'
  OBVIOUS
<1>1. CASE ReadData \/ ReadControl
  BY <1>1, ReadsKeys DEF ReadData, ReadControl, Kinds
<1>2. CASE UNCHANGED vars \/ Deliver \/ ControlFlush \/ Lock \/ Visit \/ Written \/ WriteFails
           \/ \E w \in Writers : Call(w) \/ NewStream(w) \/ Cancel(w)
  <2>1. /\ UNCHANGED <<packet, open, source, due, used, audioBuffer>>
        /\ \/ pc' = pc
           \/ {pc, pc'} \subseteq {"lock", "walk", "write"}
    BY <1>2 DEF vars, Deliver, ControlFlush, Restarted, Lock, Visit, Written, WriteFails, Walks,
                Takes, Call, NewStream, Cancel, transport, sequencer
  <2>. QED  BY <2>1, KeysKeep
<1>3. CASE Take
  <2>1. /\ Handle(Head(seqchan)) /\ UNCHANGED <<packet, open, source>> /\ pc = "select"
        /\ seqchan # <<>>
    BY <1>3 DEF Take
  <2>2. Head(seqchan) \in Objects /\ Full(Head(seqchan))
    BY <2>1 DEF PacketInv, PacketTypes, Filled
  <2>3. pc' = "select" \/ \E i : Outputs(Head(seqchan), i)
    BY <2>1 DEF Handle
  <2>. QED  BY <2>1, <2>2, <2>3, SelectKeeps, OutputsKeeps
<1>4. CASE GiveUp
  <2>1. PICK i \in Positions : cache[i] # None /\ Outputs(cache[i], i)
    BY <1>4 DEF GiveUp
  <2>2. UNCHANGED <<packet, open, source>> /\ current = None
    BY <1>4 DEF GiveUp, transport, PacketInv, Outputting
  <2>3. cache[i] \in Objects /\ Full(cache[i])
    BY <2>1, <2>2 DEF PacketInv, PacketTypes, Filled
  <2>. QED  BY <2>1, <2>2, <2>3, OutputsKeeps
<1>5. CASE WalkEnd
  <2>1. /\ UNCHANGED <<packet, open, source>> /\ pc = "walk"
        /\ \/ pc' = "select"
           \/ /\ turn < MaxPosition /\ cache[turn + 1] # None
              /\ Outputs(cache[turn + 1], turn + 1)
    BY <1>5 DEF WalkEnd, Returns, transport
  <2>2. turn \in Positions /\ current # None
    BY <2>1 DEF PacketInv, Outputting
  <2>3. ASSUME turn < MaxPosition, cache[turn + 1] # None
        PROVE  cache[turn + 1] \in Objects /\ Full(cache[turn + 1])
    <3>1. turn + 1 \in Positions /\ turn + 1 # turn
      BY <2>2, <2>3, AudioOutputAssumption DEF Positions
    <3>2. cache[turn + 1] \notin {None, current}
      BY <2>2, <2>3, <3>1 DEF PacketInv, Outputting
    <3>. QED  BY <3>1, <3>2 DEF PacketInv, PacketTypes, Filled
  <2>. QED  BY <2>1, <2>3, SelectKeeps, OutputsKeeps
<1>. QED  BY <1>1, <1>2, <1>3, <1>4, <1>5, DecodeKeys, SourceKeeps DEF Next

\* Nothing has been announced at the start.
LEMMA KeyInit == Init => KeyInv
<1>. SUFFICES ASSUME Init
              PROVE  KeyInv
  OBVIOUS
<1>1. Announced
  BY AudioOutputAssumption DEF Init, Announced
<1>2. Sent /\ Decoded
  BY DEF Init, Sent, Decoded, NoPacket
<1>. QED  BY <1>1, <1>2 DEF KeyInv

-----------------------------------------------------------------------------
\* All of it is invariant.
THEOREM OutputInvariant == Spec => [](StreamInv /\ PacketInv /\ KeyInv)
<1>1. Init => StreamInv /\ PacketInv /\ KeyInv
  BY StreamInit, PacketInit, KeyInit
<1>2. StreamInv /\ PacketInv /\ KeyInv /\ [Next]_vars => (StreamInv /\ PacketInv /\ KeyInv)'
  BY StreamStep, PacketStep, KeyStep
<1>. QED  BY <1>1, <1>2, PTL DEF Spec

\* Every variable keeps its type, and seqchan its capacity (Spec => []TypeOK).
THEOREM OutputTypes == Spec => []TypeOK
<1>1. StreamInv /\ PacketInv /\ KeyInv => TypeOK
  <2>. SUFFICES ASSUME StreamInv, PacketInv, KeyInv
                PROVE  TypeOK
    OBVIOUS
  <2>1. jj \in 0 .. Len(streams)
    BY DEF StreamInv, StreamTypes, Walking
  <2>2. pool \in [Objects -> Nat]
    BY DEF PacketInv, PacketTypes
  <2>. QED  BY <2>1, <2>2 DEF TypeOK, StreamInv, StreamTypes, PacketInv, PacketTypes, KeyInv,
                              Announced, Connections
<1>. QED  BY <1>1, OutputInvariant, PTL

\* A packet object is in the pool, or has one user: no receiver, channel, cache or
\* decoder shares one with another, and none is reclaimed twice (Spec => []Exclusive).
THEOREM ObjectsHaveOneUser == Spec => []Exclusive
BY PacketsAreApart, OutputInvariant, PTL

\* What is written is the packet whose turn it was, decoded with the key, vector and
\* decoder of its own ANNOUNCE, whichever arrive meanwhile (Spec => []DecodesItsOwn).
THEOREM PacketsDecodeAsAnnounced == Spec => []DecodesItsOwn
<1>1. PacketInv /\ KeyInv => DecodesItsOwn
  <2>. SUFFICES ASSUME PacketInv, KeyInv
                PROVE  DecodesItsOwn
    OBVIOUS
  <2>1. \A n \in DOMAIN seqchan : seqchan[n] \in Objects
    BY DEF PacketInv, PacketTypes
  <2>. QED  BY <2>1 DEF PacketInv, Filled, KeyInv, Decoded, DecodesItsOwn
<1>. QED  BY <1>1, OutputInvariant, PTL

\* Every stream has its place in the list and gets every buffer, whichever fail, are
\* cancelled or added (Spec => []EveryStreamHears).
THEOREM StreamsAreHeard == Spec => []EveryStreamHears
BY StreamsHear, OutputInvariant, PTL

-----------------------------------------------------------------------------
\* While nothing is written nobody is owed a buffer.
LEMMA NobodyIsBehind ==
  ASSUME StreamInv, ~locked, NEW w \in Writers, caller[w] = "in"
  PROVE  owed[w] = 0
<1>1. PICK n \in Listed : streams[n] = w
  BY DEF StreamInv, Kept
<1>. QED  BY <1>1 DEF StreamInv, Owing

\* The stream the walk is at is one that is owed the buffer.
LEMMA TheNextIsBehind ==
  ASSUME StreamInv, locked, ii <= Len(streams)
  PROVE  /\ streams[ii] \in Writers /\ caller[streams[ii]] = "in"
         /\ owed[streams[ii]] = 1
<1>1. ii \in 1 .. Len(streams) /\ ii \in Listed
  BY DEF StreamInv, StreamTypes, Walking, Listed
<1>. QED  BY <1>1 DEF StreamInv, StreamTypes, Kept, Owing

\* writeToStreams begins: a buffer for everybody there is.
LEMMA LockBegins == StreamInv /\ Lock => Hearing!Begin
<1>. SUFFICES ASSUME StreamInv, Lock
              PROVE  Hearing!Begin
  OBVIOUS
<1>1. \A w \in Writers : caller[w] = "in" => owed[w] = 0
  BY NobodyIsBehind DEF Lock
<1>2. /\ UNCHANGED <<caller, cancelled, late>>
      /\ \A w \in Writers : caller[w] = "in" => owed'[w] = 1
  BY <1>1 DEF Lock
<1>. QED  BY <1>1, <1>2 DEF Hearing!Begin

\* Write succeeds: the stream has heard the buffer, and has not heard one before
\* since it was cancelled.
LEMMA WrittenHears ==
  ASSUME StreamInv, Written, NEW w, w = streams[ii]
  PROVE  w \in Writers /\ Hearing!Hear(w)
<1>1. locked /\ ii <= Len(streams) /\ late[w] = 0
  BY DEF Written, StreamInv, Walking, Late
<1>2. w \in Writers /\ caller[w] = "in" /\ owed[w] = 1
  BY <1>1, TheNextIsBehind
<1>3. /\ UNCHANGED <<caller, cancelled>>
      /\ \A v \in Writers : owed'[v] = IF v = w THEN 0 ELSE owed[v]
      /\ \A v \in Writers : late'[v] = IF v = w /\ cancelled[w] THEN 1 ELSE late[v]
  <2>1. owed' = [owed EXCEPT ![w] = @ - 1]
    BY DEF Written, Takes
  <2>2. late' = [late EXCEPT ![w] = @ + IF cancelled[w] THEN 1 ELSE 0]
    BY DEF Written, Takes
  <2>3. owed \in [Writers -> Int] /\ late \in [Writers -> 0 .. 1]
    BY DEF StreamInv, StreamTypes
  <2>4. UNCHANGED <<caller, cancelled>>
    BY DEF Written, Walks
  <2>. QED  BY <1>1, <1>2, <2>1, <2>2, <2>3, <2>4
<1>. QED  BY <1>1, <1>2, <1>3 DEF Hearing!Hear

\* Write fails, or the context is done: the stream is gone.
LEMMA GoneIsDropped ==
  ASSUME StreamInv, locked, ii <= Len(streams),
         NEW w, w = streams[ii],
         caller' = [caller EXCEPT ![w] = "gone"],
         UNCHANGED <<cancelled, owed, late>>
  PROVE  w \in Writers /\ Hearing!Drop(w)
<1>1. w \in Writers /\ caller[w] = "in" /\ owed[w] = 1
  BY TheNextIsBehind
<1>2. \A v \in Writers : caller'[v] = IF v = w THEN "gone" ELSE caller[v]
  BY DEF StreamInv, StreamTypes
<1>. QED  BY <1>1, <1>2 DEF Hearing!Drop

\* newStream: the stream is owed nothing yet, and nor is anybody else.
LEMMA NewStreamJoins ==
  ASSUME StreamInv, NEW w \in Writers, NewStream(w)
  PROVE  Hearing!Join(w)
<1>1. \A v \in Writers : caller[v] = "in" => owed[v] = 0
  BY NobodyIsBehind DEF NewStream
<1>2. caller[w] = "calls" /\ owed[w] = 0 /\ UNCHANGED <<cancelled, owed, late>>
  BY DEF NewStream, StreamInv, Owing
<1>3. \A v \in Writers : caller'[v] = IF v = w THEN "in" ELSE caller[v]
  BY DEF NewStream, StreamInv, StreamTypes
<1>. QED  BY <1>1, <1>2, <1>3 DEF Hearing!Join

\* The sink cancels the context of a stream.
LEMMA CancelLeaves ==
  ASSUME StreamInv, NEW w \in Writers, Cancel(w)
  PROVE  Hearing!Leave(w)
<1>1. \A v \in Writers : cancelled'[v] = (v = w \/ cancelled[v])
  BY DEF Cancel, StreamInv, StreamTypes
<1>. QED  BY <1>1 DEF Cancel, Hearing!Leave

\* Who only asks for a stream is not listening yet.
LEMMA CallStutters ==
  ASSUME StreamInv, NEW w \in Writers, Call(w)
  PROVE  UNCHANGED Hearing!vars
<1>1. \A v \in Writers : caller'[v] = IF v = w THEN "calls" ELSE caller[v]
  BY DEF Call, StreamInv, StreamTypes
<1>. QED  BY <1>1 DEF Call, Hearing!vars

\* A step of the program is a step of the broadcast, or changes nothing of it.
LEMMA HearingStep == StreamInv /\ [Next]_vars => [Hearing!Next]_(Hearing!vars)
<1>. SUFFICES ASSUME StreamInv, [Next]_vars
              PROVE  Hearing!Next \/ UNCHANGED Hearing!vars
  OBVIOUS
<1>1. CASE UNCHANGED sink
  BY <1>1 DEF sink, Hearing!vars
<1>2. CASE Lock
  BY <1>2, LockBegins DEF Hearing!Next
<1>3. CASE Visit \/ Written \/ WriteFails
  <2>1. CASE UNCHANGED sink
    BY <1>1, <2>1
  <2>2. CASE (Visit /\ ~UNCHANGED sink) \/ WriteFails
    <3>1. /\ locked /\ ii <= Len(streams)
          /\ caller' = [caller EXCEPT ![streams[ii]] = "gone"]
          /\ UNCHANGED <<cancelled, owed, late>>
      BY <2>2 DEF Visit, WriteFails, Walks, StreamInv, Walking, sink
    <3>2. PICK w : w = streams[ii]
      OBVIOUS
    <3>. QED  BY <3>1, <3>2, GoneIsDropped DEF Hearing!Next
  <2>3. CASE Written
    <3>1. PICK w : w = streams[ii]
      OBVIOUS
    <3>. QED  BY <2>3, <3>1, WrittenHears DEF Hearing!Next
  <2>. QED  BY <1>3, <2>1, <2>2, <2>3
<1>4. ASSUME NEW w \in Writers, Call(w) \/ NewStream(w) \/ Cancel(w)
      PROVE  Hearing!Next \/ UNCHANGED Hearing!vars
  BY <1>4, CallStutters, NewStreamJoins, CancelLeaves DEF Hearing!Next
<1>5. CASE \/ ReadData \/ ReadControl \/ Deliver \/ ControlFlush \/ Take \/ GiveUp
           \/ Decrypt \/ Decode \/ WalkEnd \/ UNCHANGED vars
           \/ Announce \/ SetKey \/ SetIv \/ SetAlac
           \/ Setup \/ Teardown \/ TeardownFlush \/ TeardownClose
  <2>1. UNCHANGED sink
    BY <1>5 DEF ReadData, ReadControl, Reads, Deliver, ControlFlush, Take, GiveUp, Decrypt,
                Decode, WalkEnd, Returns, vars, Announce, SetKey, SetIv, SetAlac, Setup,
                Teardown, TeardownFlush, TeardownClose, Steps
  <2>. QED  BY <1>1, <2>1
<1>. QED  BY <1>2, <1>3, <1>4, <1>5 DEF Next

\* The audio output implements Broadcast: no buffer begins before everybody the last
\* one was for has heard it, once, or is gone, whichever streams fail, are cancelled
\* or wait to be added while the list is compacted in place.
THEOREM ImplementsBroadcast == Spec => Broadcasts
<1>1. Init => Hearing!Init
  BY DEF Init, Hearing!Init
<1>. QED  BY <1>1, HearingStep, OutputInvariant, PTL DEF Spec, Broadcasts, Hearing!Spec
=============================================================================
