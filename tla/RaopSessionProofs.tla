-------------------------- MODULE RaopSessionProofs --------------------------
(***************************************************************************)
(* Proofs that a session that plays is complete and that the fields of     *)
(* raop name every open connection, for one source, any number of SETUPs   *)
(* and TEARDOWNs, any failures, read errors and capacities.                *)
(***************************************************************************)
EXTENDS RaopSession, SequenceTheorems, TLAPS

LoadType ==
  /\ load \in [sources : SUBSET Sources, setups : 0 .. MaxSetups, failures : Nat,
               errors : Nat]
  /\ setups \in Nat /\ failures \in Nat
  /\ playing \subseteq load.sources
  /\ \A s \in Sources : rtsp[s] \in Kinds => number[s] # None

\* Other sources do nothing, and who plays does nothing yet.
Silent == \A s \in Sources : rtsp[s] \notin {"idle", "crashed"} => s \in load.sources \ playing

\* raop has a connection of this kind, open unless its Read has failed.
Is(kind) == <<kind, conn[kind]>> \in open \union broken /\ conn[kind] # None

\* Every open connection is in its field of raop.
Held == Alone => \A c \in open : conn[c[1]] = c[2]

\* What is open while one source opens one connection after the other.
Opening ==
  Alone =>
    /\ conn["control"] = None => open = {}
    /\ \A s \in Sources : /\ rtsp[s] = "control" => conn["control"] = None
                          /\ rtsp[s] \in {"data", "timing"} => conn["control"] # None
                          /\ rtsp[s] = "data" => \A n \in Setups : <<"data", n>> \notin open
                          /\ rtsp[s] \in {"data", "timing"} =>
                               \A n \in Setups : <<"timing", n>> \notin open

\* Which connections are there, as long as none has failed.
Complete ==
  Alone /\ failures = 0 => \A s \in load.sources :
    /\ rtsp[s] # "close"
    /\ rtsp[s] \in {"data", "timing", "answer", "flush", "teardown"} => Is("control")
    /\ rtsp[s] \in {"timing", "answer", "flush", "teardown"} => Is("data")
    /\ rtsp[s] \in {"answer", "flush", "teardown"} => Is("timing")
    /\ rtsp[s] = "idle" /\ s \in playing => \A kind \in Kinds : Is(kind)
    /\ rtsp[s] = "idle" /\ s \notin playing => conn["control"] = None

\* The sequencer runs, as long as no SETUP has failed.
Runs ==
  Alone /\ failures = 0 => \A s \in load.sources :
    /\ rtsp[s] # "crashed" => sequencer # "stopped"
    /\ rtsp[s] # "idle" \/ s \in playing => sequencer # "none"

\* An open connection is read.
Read ==
  \A kind \in Kinds, n \in Setups :
    <<kind, n>> \in open => receiver[kind][n] \notin {"none", "ended"}

\* One whose Read has failed is closed for good, and read no more.
Broken ==
  Alone => \A kind \in Kinds, n \in Setups :
    <<kind, n>> \in broken => receiver[kind][n] = "ended" /\ <<kind, n>> \notin open

\* The connections a SETUP has still to open have a number of their own.
Pending(pc) == {kind \in Kinds : \/ pc = "control" \/ kind = pc
                                 \/ pc = "data" /\ kind = "timing"}

Fresh ==
  Alone =>
    /\ \A kind \in Kinds, n \in Setups : receiver[kind][n] # "none" => n <= setups
    /\ \A s \in Sources : rtsp[s] \in Kinds =>
         /\ number[s] = setups
         /\ \A kind \in Pending(rtsp[s]) : receiver[kind][setups] = "none"

SessionInv ==
  /\ TypeOK /\ LoadType /\ Silent
  /\ Held /\ Opening /\ Complete /\ Runs
  /\ Read /\ Broken /\ Fresh

-----------------------------------------------------------------------------
\* The invariant says what the runs check.
LEMMA InvComplete == SessionInv => PlayingIsComplete
<1>. SUFFICES ASSUME SessionInv, Alone, failures = 0, NEW s \in playing, rtsp[s] = "idle"
              PROVE  /\ sequencer \notin {"none", "stopped"}
                     /\ \A kind \in Kinds :
                          LET c == <<kind, conn[kind]>> IN
                            /\ c \in open <=> c \notin broken
                            /\ receiver[kind][conn[kind]] # "none"
                            /\ receiver[kind][conn[kind]] = "ended" <=> c \in broken
  BY DEF PlayingIsComplete
<1>. USE DEF SessionInv, LoadType, TypeOK
<1>1. s \in load.sources
  OBVIOUS
<1>2. sequencer \notin {"none", "stopped"}
  BY <1>1 DEF Runs
<1>3. \A kind \in Kinds : <<kind, conn[kind]>> \in open \union broken /\ conn[kind] \in Setups
  BY <1>1 DEF Complete, Is
<1>. QED  BY <1>2, <1>3 DEF Read, Broken

LEMMA InvHeld == SessionInv => NothingLeaks
<1>. SUFFICES ASSUME SessionInv, Alone
              PROVE  /\ \A c \in open : conn[c[1]] = c[2]
                     /\ failures = 0 => \A s \in load.sources \ playing :
                                          rtsp[s] = "idle" => open = {}
  BY DEF NothingLeaks
<1>. QED  BY DEF SessionInv, Held, Complete, Opening

\* There are no connections at the start.
LEMMA SessionInit == Init => SessionInv
<1>. SUFFICES ASSUME Init
              PROVE  SessionInv
  OBVIOUS
<1>1. <<>> \in Seq(Setups) /\ Len(<<>>) = 0
  OBVIOUS
<1>2. TypeOK
  BY <1>1, RaopSessionAssumption DEF Init, TypeOK, Kinds, None
<1>3. LoadType /\ Silent
  BY RaopSessionAssumption DEF Init, LoadType, Silent, Kinds
<1>4. load.sources \subseteq Sources
  BY <1>3 DEF LoadType
<1>5. Held /\ Opening /\ Complete /\ Runs /\ Read /\ Broken /\ Fresh
  BY <1>4 DEF Init, Held, Opening, Complete, Runs, Read, Broken, Fresh, Kinds
<1>. QED  BY <1>2, <1>3, <1>5 DEF SessionInv

\* A source that does something is the one, where it is alone.
LEMMA AloneIs ==
  ASSUME SessionInv, NEW s \in Sources, rtsp[s] \notin {"idle", "crashed"} \/ s \in load.sources
  PROVE  /\ s \in load.sources
         /\ Alone => load.sources = {s}
         /\ Alone => \A r \in Sources : r = s \/ rtsp[r] \in {"idle", "crashed"}
BY DEF SessionInv, Silent, Alone

\* Nothing changes for the connections.
LEMMA SocketsKeep ==
  ASSUME SessionInv, UNCHANGED <<rtsp, playing, sockets>>, TypeOK',
         sequencer' = sequencer \/ {sequencer, sequencer'} \intersect {"none", "stopped"} = {}
  PROVE  SessionInv'
<1>1. LoadType' /\ Silent' /\ Held' /\ Opening' /\ Complete' /\ Read' /\ Broken' /\ Fresh'
  BY DEF SessionInv, LoadType, Silent, Held, Opening, Complete, Read, Broken, Fresh, Pending,
         Is, Alone, sockets
<1>2. Runs'
  BY DEF SessionInv, Runs, Alone, sockets
<1>. QED  BY <1>1, <1>2 DEF SessionInv

\* A receiver goes on, and its connection is open only if it reads.
LEMMA ReceiverKeeps ==
  ASSUME SessionInv, NEW kind \in Kinds, NEW n \in Setups,
         receiver[kind][n] \notin {"none", "ended"},
         NEW to \in {"read", "deliver", "flush", "ended"},
         to = "ended" => <<kind, n>> \notin open,
         Becomes(kind, n, to), seqchan' \in Seq(Setups), Len(seqchan') <= DataCap,
         UNCHANGED <<rtsp, playing, sequencer, rrchan, conn, open, transmitters,
                     number, setups, failures, broken, load>>
  PROVE  SessionInv'
<1>1. receiver' \in [Kinds -> [Setups -> {"none", "read", "deliver", "flush", "ended"}]]
  BY DEF Becomes, SessionInv, TypeOK
<1>2. TypeOK'
  BY <1>1 DEF SessionInv, TypeOK
<1>3. LoadType' /\ Silent' /\ Held' /\ Opening' /\ Complete' /\ Runs'
  BY DEF SessionInv, LoadType, Silent, Held, Opening, Complete, Runs, Is, Alone
<1>4. Read' /\ Broken'
  BY DEF SessionInv, TypeOK, Read, Broken, Alone, Becomes
<1>5. Fresh'
  <2>1. \A k \in Kinds, m \in Setups : receiver'[k][m] # "none" <=> receiver[k][m] # "none"
    BY DEF SessionInv, TypeOK, Becomes
  <2>2. \A k \in Kinds : receiver'[k][setups] # "none" <=> receiver[k][setups] # "none"
    BY DEF SessionInv, TypeOK, Becomes
  <2>. QED  BY <2>1, <2>2 DEF SessionInv, Fresh, Pending, Alone
<1>. QED  BY <1>2, <1>3, <1>4, <1>5 DEF SessionInv

\* The Read of a connection fails: it is closed, and its receiver ends.
LEMMA ReadFailsKeeps ==
  ASSUME SessionInv, NEW kind \in Kinds, NEW n \in Setups, ReadFails(kind, n)
  PROVE  SessionInv'
<1>. USE DEF SessionInv
<1>1. /\ receiver[kind][n] = "read" /\ <<kind, n>> \in open
      /\ broken' = broken \union {<<kind, n>>} /\ open' = open \ {<<kind, n>>}
      /\ receiver' = [receiver EXCEPT ![kind][n] = "ended"]
      /\ UNCHANGED <<rtsp, playing, sequencer, seqchan, rrchan, conn, transmitters, number,
                     setups, failures, load>>
  BY DEF ReadFails, Becomes, streams
<1>2. receiver' \in [Kinds -> [Setups -> {"none", "read", "deliver", "flush", "ended"}]]
  BY <1>1 DEF TypeOK
<1>3. broken' \subseteq Kinds \X Setups /\ open' \subseteq open
      /\ open' \union broken' = open \union broken
  BY <1>1 DEF TypeOK
<1>4. TypeOK'
  BY <1>1, <1>2, <1>3 DEF TypeOK
<1>5. LoadType' /\ Silent' /\ Runs'
  BY <1>1 DEF LoadType, Silent, Runs, Alone
<1>6. Held' /\ Opening' /\ Complete'
  BY <1>1, <1>3 DEF Held, Opening, Complete, Is, Alone
<1>7. \A k \in Kinds, m \in Setups :
        receiver'[k][m] = IF k = kind /\ m = n THEN "ended" ELSE receiver[k][m]
  BY <1>1 DEF TypeOK
<1>8. Read' /\ Broken'
  BY <1>1, <1>7 DEF Read, Broken, Alone
<1>9. Fresh'
  <2>1. \A k \in Kinds : receiver'[k][setups] # "none" <=> receiver[k][setups] # "none"
    BY <1>1 DEF TypeOK
  <2>. QED  BY <1>1, <1>7, <2>1 DEF Fresh, Pending, Alone
<1>. QED  BY <1>4, <1>5, <1>6, <1>8, <1>9

\* Whoever panics ends the program.
LEMMA PanicKeeps ==
  ASSUME SessionInv, Panics, playing' = playing
  PROVE  SessionInv'
<1>. USE DEF SessionInv
<1>1. /\ rtsp' = [s \in Sources |-> "crashed"] /\ sequencer' = "stopped"
      /\ open' = {} /\ transmitters' = {}
      /\ receiver' = [k \in Kinds |-> [n \in Setups |->
                        IF receiver[k][n] = "none" THEN "none" ELSE "ended"]]
      /\ UNCHANGED <<seqchan, rrchan, conn, number, setups, failures, broken, load, playing>>
  BY DEF Panics
<1>2. TypeOK'
  BY <1>1 DEF TypeOK
<1>3. load.sources \subseteq Sources
  BY DEF LoadType
<1>4. LoadType' /\ Silent' /\ Held' /\ Opening' /\ Complete' /\ Runs' /\ Read'
  BY <1>1, <1>3 DEF LoadType, Silent, Held, Opening, Complete, Runs, Read, Kinds, Alone
<1>5. \A k \in Kinds, n \in Setups :
        receiver'[k][n] = IF receiver[k][n] = "none" THEN "none" ELSE "ended"
  BY <1>1
<1>6. Broken' /\ Fresh'
  BY <1>1, <1>5 DEF Broken, Fresh, Kinds, Alone
<1>. QED  BY <1>2, <1>4, <1>6

-----------------------------------------------------------------------------
\* SETUP opens connections where it finds no control connection.
LEMMA SetupKeeps ==
  ASSUME SessionInv, NEW s \in Sources, Setup(s)
  PROVE  SessionInv'
<1>. USE DEF SessionInv
<1>1. /\ rtsp[s] = "idle" /\ s \in load.sources /\ s \notin playing
      /\ sequencer' = IF sequencer = "none" THEN "select" ELSE sequencer
      /\ UNCHANGED <<playing, seqchan, rrchan, conn, open, receiver, transmitters, failures, broken, load>>
  BY DEF Setup, streams
<1>2. PICK where \in {"control", "answer"} :
        /\ rtsp' = [rtsp EXCEPT ![s] = where]
        /\ where = "control" => /\ conn["control"] = None /\ setups < load.setups
                                /\ setups' = setups + 1
                                /\ number' = [number EXCEPT ![s] = setups + 1]
        /\ where = "answer" => conn["control"] # None /\ UNCHANGED <<number, setups>>
  BY DEF Setup, Goes
<1>3. /\ setups' \in Nat /\ number' \in [Sources -> Setups \union {None}]
      /\ where = "control" => number'[s] # None
      /\ \A r \in Sources \ {s} : number'[r] = number[r]
  <2>1. CASE where = "control"
    <3>1. setups \in Nat /\ load.setups \in 0 .. MaxSetups
      BY DEF LoadType
    <3>2. setups + 1 \in Setups /\ setups + 1 # None
      BY <1>2, <2>1, <3>1, RaopSessionAssumption DEF Setups, None
    <3>. QED  BY <1>2, <2>1, <3>1, <3>2 DEF TypeOK
  <2>2. CASE where = "answer"
    BY <1>2, <2>2 DEF TypeOK, LoadType
  <2>. QED  BY <2>1, <2>2
<1>4. rtsp' \in [Sources -> Kinds \union {"idle", "answer", "close", "flush", "teardown",
                                          "crashed"}]
  BY <1>2 DEF TypeOK, Kinds
<1>5. /\ rtsp'[s] = where /\ \A r \in Sources \ {s} : rtsp'[r] = rtsp[r]
  BY <1>2 DEF TypeOK
<1>6. TypeOK'
  BY <1>1, <1>3, <1>4 DEF TypeOK
<1>7. LoadType' /\ Silent'
  BY <1>1, <1>3, <1>5 DEF LoadType, Silent, Kinds
<1>8. Held' /\ Read' /\ Broken'
  BY <1>1 DEF Held, Read, Broken, Alone
<1>9. Opening' /\ Complete' /\ Runs'
  <2>. SUFFICES ASSUME Alone
                PROVE  Opening' /\ Complete' /\ Runs'
    BY <1>1 DEF Opening, Complete, Runs, Alone
  <2>1. load.sources = {s} /\ \A r \in Sources : r = s \/ rtsp[r] \in {"idle", "crashed"}
    BY <1>1, AloneIs
  <2>2. Opening'
    BY <1>1, <1>2, <1>5, <2>1 DEF Opening
  <2>3. failures = 0 => where = "control"
    BY <1>1, <1>2 DEF Complete
  <2>4. Complete'
    BY <1>1, <1>5, <2>1, <2>3 DEF Complete
  <2>5. Runs'
    BY <1>1, <1>5, <2>1 DEF Runs
  <2>. QED  BY <2>2, <2>4, <2>5
<1>10. Fresh'
  <2>. SUFFICES ASSUME Alone
                PROVE  Fresh'
    BY <1>1 DEF Fresh, Alone
  <2>1. load.sources = {s} /\ \A r \in Sources : r = s \/ rtsp[r] \in {"idle", "crashed"}
    BY <1>1, AloneIs
  <2>2. \A r \in Sources : rtsp'[r] \in Kinds => r = s /\ where = "control"
    BY <1>5, <2>1 DEF Kinds
  <2>3. setups \in Nat /\ setups' \in Nat /\ setups' >= setups
    BY <1>2, <1>3 DEF LoadType
  <2>4. \A kind \in Kinds, n \in Setups : receiver'[kind][n] # "none" => n <= setups'
    BY <1>1, <2>3 DEF Fresh, Setups
  <2>5. CASE where = "control"
    <3>1. setups' = setups + 1 /\ number'[s] = setups' /\ setups' \in Setups
      BY <1>2, <1>3, <2>3, <2>5 DEF TypeOK, None
    <3>2. \A kind \in Kinds : receiver'[kind][setups'] = "none"
      BY <1>1, <2>3, <3>1 DEF Fresh
    <3>. QED  BY <2>2, <2>4, <3>1, <3>2 DEF Fresh, Pending
  <2>6. CASE where # "control"
    BY <2>2, <2>4, <2>6 DEF Fresh
  <2>. QED  BY <2>5, <2>6
<1>. QED  BY <1>6, <1>7, <1>8, <1>9, <1>10

\* A connection is opened that was not there.
LEMMA OpenedKeeps ==
  ASSUME SessionInv, NEW s \in Sources, NEW kind \in Kinds, Opened(s, kind)
  PROVE  SessionInv'
<1>. USE DEF SessionInv
<1>. DEFINE n == number[s]
<1>1. /\ rtsp[s] = kind /\ conn' = [conn EXCEPT ![kind] = n]
      /\ open' = open \union {<<kind, n>>}
      /\ receiver' = [receiver EXCEPT ![kind][n] = "read"]
      /\ transmitters' = IF kind = "control" THEN transmitters \union {n} ELSE transmitters
      /\ rtsp' = [rtsp EXCEPT ![s] = After(kind)]
      /\ UNCHANGED <<playing, sequencer, seqchan, rrchan, number, setups, failures, broken, load>>
  BY DEF Opened, Goes, streams
<1>2. n \in Setups /\ n # None
  BY <1>1 DEF LoadType, TypeOK
<1>3. /\ kind = "control" => After(kind) = "data"
      /\ kind = "data" => After(kind) = "timing"
      /\ kind = "timing" => After(kind) = "answer"
  BY DEF After
<1>4. After(kind) \in {"data", "timing", "answer"}
  BY <1>3 DEF Kinds
<1>. HIDE DEF n
<1>5. /\ rtsp' \in [Sources -> Kinds \union {"idle", "answer", "close", "flush", "teardown",
                                             "crashed"}]
      /\ rtsp'[s] = After(kind) /\ \A r \in Sources \ {s} : rtsp'[r] = rtsp[r]
  BY <1>1, <1>4 DEF TypeOK, Kinds
<1>6. conn' \in [Kinds -> Setups \union {None}] /\ open' \subseteq Kinds \X Setups
      /\ conn'[kind] = n /\ \A k \in Kinds \ {kind} : conn'[k] = conn[k]
  BY <1>1, <1>2 DEF TypeOK
<1>7. receiver' \in [Kinds -> [Setups -> {"none", "read", "deliver", "flush", "ended"}]]
      /\ transmitters' \subseteq Setups
  BY <1>1, <1>2 DEF TypeOK
<1>8. TypeOK'
  BY <1>1, <1>5, <1>6, <1>7 DEF TypeOK
<1>9. LoadType' /\ Silent'
  <2>1. number[s] # None /\ s \in load.sources \ playing
    BY <1>1, <1>2 DEF n, Kinds, Silent
  <2>2. LoadType'
    BY <1>1, <1>2, <1>5, <2>1 DEF LoadType, Kinds
  <2>3. Silent'
    BY <1>1, <1>5, <2>1 DEF Silent
  <2>. QED  BY <2>2, <2>3
<1>10. \A k \in Kinds, m \in Setups :
         receiver'[k][m] = IF k = kind /\ m = n THEN "read" ELSE receiver[k][m]
  BY <1>1, <1>2 DEF TypeOK
<1>12. Read'
  BY <1>1, <1>10 DEF Read
<1>13. Broken' /\ Fresh'
  <2>. SUFFICES ASSUME Alone
                PROVE  Broken' /\ Fresh'
    BY <1>1 DEF Broken, Fresh, Alone
  <2>1. load.sources = {s} /\ \A r \in Sources : r = s \/ rtsp[r] \in {"idle", "crashed"}
    BY <1>1, AloneIs DEF Kinds
  <2>2. n = setups /\ kind \in Pending(kind) /\ receiver[kind][n] = "none"
    BY <1>1, <1>2 DEF Fresh, Pending, n
  <2>3. Broken'
    BY <1>1, <1>10, <2>2 DEF Broken
  <2>4. \A k \in Kinds, m \in Setups : receiver'[k][m] # "none" => m <= setups
    BY <1>10, <1>2, <2>2 DEF Fresh, Setups
  <2>5. \A r \in Sources : rtsp'[r] \in Kinds => r = s
    BY <1>5, <2>1 DEF Kinds
  <2>6. After(kind) \in Kinds => Pending(After(kind)) \subseteq Pending(kind) \ {kind}
    BY <1>3 DEF Pending, Kinds
  <2>7. \A k \in Pending(kind) \ {kind} : receiver'[k][setups] = "none"
    BY <1>1, <1>2, <1>10, <2>2 DEF Fresh, Pending
  <2>. QED  BY <1>1, <1>2, <1>5, <2>2, <2>3, <2>4, <2>5, <2>6, <2>7 DEF Fresh, n
<1>11. Held' /\ Opening' /\ Complete' /\ Runs'
  <2>. SUFFICES ASSUME Alone
                PROVE  Held' /\ Opening' /\ Complete' /\ Runs'
    BY <1>1 DEF Held, Opening, Complete, Runs, Alone
  <2>1. load.sources = {s} /\ \A r \in Sources : r = s \/ rtsp[r] \in {"idle", "crashed"}
    BY <1>1, AloneIs DEF Kinds
  <2>2. \A m \in Setups : <<kind, m>> \notin open
    BY <1>1 DEF Opening, Kinds
  <2>3. \A c \in open : c = <<c[1], c[2]>> /\ c[1] \in Kinds \ {kind} /\ conn[c[1]] = c[2]
    BY <2>2 DEF Held, TypeOK
  <2>4. Held'
    BY <1>1, <1>6, <2>3 DEF Held
  <2>5. conn'["control"] # None
    <3>1. CASE kind = "control"
      BY <1>2, <1>6, <3>1
    <3>2. CASE kind # "control"
      <4>1. conn["control"] # None
        BY <1>1, <3>2 DEF Opening, Kinds
      <4>. QED  BY <1>6, <3>2, <4>1 DEF Kinds
    <3>. QED  BY <3>1, <3>2
  <2>6. Opening'
    BY <1>1, <1>3, <1>5, <2>1, <2>2, <2>5 DEF Opening, Kinds
  <2>7. Complete'
    BY <1>1, <1>2, <1>3, <1>5, <1>6, <2>1 DEF Complete, Is, Kinds
  <2>8. Runs'
    BY <1>1, <1>4, <1>5, <2>1 DEF Runs, Kinds
  <2>. QED  BY <2>4, <2>6, <2>7, <2>8
<1>. QED  BY <1>8, <1>9, <1>11, <1>12, <1>13

\* A SETUP fails: a connection is not opened, or the sequencer is stopped.
LEMMA NotOpenedKeeps ==
  ASSUME SessionInv, NEW s \in Sources, NEW kind \in Kinds, NotOpened(s, kind)
  PROVE  SessionInv'
<1>. USE DEF SessionInv
<1>1. /\ rtsp[s] = kind /\ conn' = [conn EXCEPT ![kind] = None] /\ failures' = failures + 1
      /\ rtsp' = [rtsp EXCEPT ![s] = "close"]
      /\ UNCHANGED <<playing, sequencer, seqchan, rrchan, open, receiver, transmitters,
                     number, setups, broken, load>>
  BY DEF NotOpened, Goes, streams
<1>2. /\ rtsp' \in [Sources -> Kinds \union {"idle", "answer", "close", "flush", "teardown",
                                             "crashed"}]
      /\ rtsp'[s] = "close" /\ \A r \in Sources \ {s} : rtsp'[r] = rtsp[r]
  BY <1>1 DEF TypeOK
<1>3. conn' \in [Kinds -> Setups \union {None}]
      /\ conn'[kind] = None /\ \A k \in Kinds \ {kind} : conn'[k] = conn[k]
  BY <1>1 DEF TypeOK
<1>4. failures' \in Nat /\ failures' # 0 /\ s \in load.sources
  BY <1>1, AloneIs DEF LoadType, Kinds
<1>5. TypeOK' /\ Read' /\ Broken'
  BY <1>1, <1>2, <1>3 DEF TypeOK, Read, Broken, Alone
<1>9. Fresh'
  BY <1>1, <1>2 DEF Fresh, Pending, Kinds, Alone
<1>6. LoadType' /\ Silent'
  BY <1>1, <1>2, <1>4 DEF LoadType, Silent, Kinds
<1>7. Complete' /\ Runs'
  BY <1>4 DEF Complete, Runs
<1>8. Held' /\ Opening'
  <2>. SUFFICES ASSUME Alone
                PROVE  Held' /\ Opening'
    BY <1>1 DEF Held, Opening, Alone
  <2>1. load.sources = {s} /\ \A r \in Sources : r = s \/ rtsp[r] \in {"idle", "crashed"}
    BY <1>1, AloneIs DEF Kinds
  <2>2. \A m \in Setups : <<kind, m>> \notin open
    BY <1>1 DEF Opening, Kinds
  <2>3. \A c \in open : c = <<c[1], c[2]>> /\ c[1] \in Kinds \ {kind} /\ conn[c[1]] = c[2]
    BY <2>2 DEF Held, TypeOK
  <2>4. Held'
    BY <1>1, <1>3, <2>3 DEF Held
  <2>5. conn'["control"] = None => open = {}
    <3>1. CASE kind = "control"
      BY <1>1, <3>1 DEF Opening
    <3>2. CASE kind # "control"
      BY <1>3, <3>2 DEF Opening, Kinds
    <3>. QED  BY <3>1, <3>2
  <2>6. Opening'
    BY <1>1, <1>2, <2>1, <2>5 DEF Opening
  <2>. QED  BY <2>4, <2>6
<1>. QED  BY <1>5, <1>6, <1>7, <1>8, <1>9

\* A step of a source that changes neither connections nor receivers.
LEMMA RtspKeeps ==
  ASSUME SessionInv, NEW s \in load.sources, NEW to \in {"idle", "flush", "teardown"},
         rtsp' = [rtsp EXCEPT ![s] = to],
         rtsp[s] \in {"idle", "close", "answer", "flush"},
         playing' \subseteq load.sources, playing' \ {s} = playing \ {s},
         to # "idle" => s \notin playing',
         sequencer' \in {"none", "select", "output", "request", "stopped"},
         Alone /\ failures = 0 =>
           /\ rtsp[s] # "close" /\ sequencer' = sequencer
           /\ to = "idle" => rtsp[s] = "answer" /\ s \in playing'
           /\ rtsp[s] = "idle" => s \in playing,
         UNCHANGED <<seqchan, rrchan, conn, open, receiver, transmitters, number, setups,
                     failures, broken, load>>
  PROVE  SessionInv'
<1>. USE DEF SessionInv
<1>0. s \in Sources
  BY DEF LoadType
<1>1. /\ rtsp' \in [Sources -> Kinds \union {"idle", "answer", "close", "flush", "teardown",
                                             "crashed"}]
      /\ rtsp'[s] = to /\ \A r \in Sources \ {s} : rtsp'[r] = rtsp[r]
  BY <1>0 DEF TypeOK
<1>2. TypeOK' /\ Read' /\ Broken'
  BY <1>1 DEF TypeOK, LoadType, Read, Broken, Alone
<1>7. Fresh'
  BY <1>1 DEF Fresh, Pending, Kinds, Alone
<1>3. LoadType' /\ Silent'
  BY <1>1 DEF LoadType, Silent, Kinds
<1>4. Held'
  BY DEF Held, Alone
<1>5. Opening'
  BY <1>1 DEF Opening, Alone
<1>6. Complete' /\ Runs'
  <2>. SUFFICES ASSUME Alone, failures = 0
                PROVE  Complete' /\ Runs'
    BY DEF Complete, Runs, Alone
  <2>1. load.sources = {s}
    BY <1>0, AloneIs
  <2>2. Complete'
    BY <1>1, <2>1 DEF Complete, Is, Kinds
  <2>3. Runs'
    BY <1>1, <2>1 DEF Runs
  <2>. QED  BY <2>2, <2>3
<1>. QED  BY <1>2, <1>3, <1>4, <1>5, <1>6, <1>7

\* TEARDOWN closes what is open, as it finds it in conn.
LEMMA ClosesKeeps ==
  ASSUME SessionInv, NEW s \in Sources, TeardownCloses(s)
  PROVE  SessionInv'
<1>. USE DEF SessionInv
<1>0. rtsp[s] = "teardown" /\ s \in load.sources /\ playing' = playing
  BY AloneIs DEF TeardownCloses
<1>1. CASE Panics
  BY <1>0, <1>1, PanicKeeps
<1>2. CASE /\ open' = open \ {<<k, conn[k]>> : k \in Kinds}
           /\ conn' = [conn EXCEPT !["control"] = None]
           /\ Goes(s, "idle")
           /\ UNCHANGED <<sequencer, streams, receiver, transmitters, number, setups,
                          failures, broken, load>>
  <2>1. /\ rtsp' \in [Sources -> Kinds \union {"idle", "answer", "close", "flush", "teardown",
                                               "crashed"}]
        /\ rtsp'[s] = "idle" /\ \A r \in Sources \ {s} : rtsp'[r] = rtsp[r]
    BY <1>2 DEF TypeOK, Goes
  <2>2. conn' \in [Kinds -> Setups \union {None}] /\ open' \subseteq open
        /\ conn'["control"] = None
    BY <1>2 DEF TypeOK, Kinds
  <2>3. TypeOK' /\ Read' /\ Broken'
    BY <1>0, <1>2, <2>1, <2>2 DEF TypeOK, Read, Broken, Alone, streams
  <2>7. Fresh'
    BY <1>2, <2>1 DEF Fresh, Pending, Kinds, Alone
  <2>4. LoadType' /\ Silent'
    BY <1>0, <1>2, <2>1 DEF LoadType, Silent, Kinds
  <2>5. Alone => open' = {}
    <3>. SUFFICES ASSUME Alone
                  PROVE  open' = {}
      OBVIOUS
    <3>1. \A c \in open : c[1] \in Kinds /\ c = <<c[1], conn[c[1]]>>
      BY DEF Held, TypeOK
    <3>. QED  BY <1>2, <3>1
  <2>6. Held' /\ Opening' /\ Complete' /\ Runs'
    <3>. SUFFICES ASSUME Alone
                  PROVE  Held' /\ Opening' /\ Complete' /\ Runs'
      BY <1>2 DEF Held, Opening, Complete, Runs, Alone
    <3>1. load.sources = {s} /\ \A r \in Sources : r = s \/ rtsp[r] \in {"idle", "crashed"}
      BY <1>0, AloneIs
    <3>2. Held' /\ Opening'
      BY <2>1, <2>2, <2>5, <3>1 DEF Held, Opening
    <3>3. s \notin playing
      BY <1>0, <3>1 DEF Silent, LoadType
    <3>4. Complete'
      BY <1>0, <1>2, <2>1, <2>2, <3>1, <3>3 DEF Complete
    <3>5. Runs'
      BY <1>0, <1>2, <2>1, <3>1 DEF Runs
    <3>. QED  BY <3>2, <3>4, <3>5
  <2>. QED  BY <2>3, <2>4, <2>6, <2>7
<1>. QED  BY <1>0, <1>1, <1>2 DEF TeardownCloses

-----------------------------------------------------------------------------
\* Every step keeps the invariant.
LEMMA SessionStep == SessionInv /\ [Next]_vars => SessionInv'
<1>. SUFFICES ASSUME SessionInv, [Next]_vars
              PROVE  SessionInv'
  OBVIOUS
<1>. USE DEF SessionInv
<1>1. ASSUME NEW s \in Sources, SetupStep(s)
      PROVE  SessionInv'
  <2>1. CASE Panics /\ UNCHANGED playing
    BY <2>1, PanicKeeps
  <2>2. CASE /\ rtsp[s] = "answer" /\ AllOpened /\ playing' = playing \union {s}
             /\ Goes(s, "idle") /\ UNCHANGED <<sequencer, streams, sockets>>
    <3>1. s \in load.sources
      BY <2>2, AloneIs
    <3>2. /\ playing' \subseteq load.sources /\ playing' \ {s} = playing \ {s} /\ s \in playing'
          /\ sequencer' \in {"none", "select", "output", "request", "stopped"}
      BY <2>2, <3>1 DEF TypeOK, LoadType
    <3>. QED  BY <2>2, <3>1, <3>2, RtspKeeps DEF Goes, streams, sockets
  <2>. QED  BY <1>1, <2>1, <2>2, OpenedKeeps, NotOpenedKeeps DEF SetupStep, SetupAnswered
<1>2. ASSUME NEW s \in Sources, SetupFails(s)
      PROVE  SessionInv'
  <2>1. s \in load.sources \ playing
    BY <1>2 DEF SetupFails, Silent
  <2>2. Alone => failures # 0
    BY <1>2, <2>1 DEF SetupFails, Complete
  <2>. QED  BY <1>2, <2>1, <2>2, RtspKeeps DEF SetupFails, Goes, streams, sockets, LoadType
<1>3. ASSUME NEW s \in Sources, Teardown(s)
      PROVE  SessionInv'
  <2>1. s \in load.sources /\ playing' \subseteq load.sources /\ s \notin playing'
        /\ playing' \ {s} = playing \ {s}
    BY <1>3 DEF Teardown, LoadType
  <2>2. sequencer' \in {"none", "select", "output", "request", "stopped"}
    BY <1>3 DEF Teardown, TypeOK
  <2>. QED  BY <1>3, <2>1, <2>2, RtspKeeps DEF Teardown, Goes, streams, sockets
<1>4. ASSUME NEW s \in Sources, TeardownFlushed(s)
      PROVE  SessionInv'
  <2>1. s \in load.sources \ playing /\ playing \subseteq load.sources
    BY <1>4 DEF TeardownFlushed, Silent, LoadType
  <2>. QED  BY <1>4, <2>1, RtspKeeps DEF TeardownFlushed, Goes, streams, sockets
<1>5. ASSUME NEW kind \in Kinds, NEW n \in Setups,
             \/ Receive(kind, n) \/ Deliver(kind, n)
             \/ ReadFails(kind, n) \/ ReceiverEnds(kind, n)
      PROVE  SessionInv'
  <2>1. seqchan \in Seq(Setups) /\ Len(seqchan) <= DataCap /\ Len(seqchan) \in Nat
    BY LenProperties DEF TypeOK
  <2>2. CASE Receive(kind, n)
    BY <2>1, <2>2, ReceiverKeeps DEF Receive, streams
  <2>3. CASE Deliver(kind, n)
    <3>1. seqchan' \in Seq(Setups) /\ Len(seqchan') <= DataCap
      BY <2>1, <2>3, AppendProperties, RaopSessionAssumption DEF Deliver
    <3>. QED  BY <2>3, <3>1, ReceiverKeeps DEF Deliver
  <2>4. CASE ReceiverEnds(kind, n)
    BY <2>1, <2>4, ReceiverKeeps DEF ReceiverEnds, streams
  <2>5. CASE ReadFails(kind, n)
    BY <2>5, ReadFailsKeeps
  <2>. QED  BY <1>5, <2>2, <2>3, <2>4, <2>5
<1>6. ASSUME NEW n \in Setups, ReceiverFlushed(n)
      PROVE  SessionInv'
  BY <1>6, ReceiverKeeps DEF ReceiverFlushed, streams, Kinds, TypeOK
<1>7. ASSUME NEW n \in Setups, Transmit(n)
      PROVE  SessionInv'
  <2>1. rrchan' \in 0 .. RequestCap
    BY <1>7, RaopSessionAssumption DEF Transmit, TypeOK
  <2>2. TypeOK'
    BY <1>7, <2>1 DEF Transmit, TypeOK, sockets
  <2>. QED  BY <1>7, <2>2, SocketsKeep DEF Transmit
<1>8. CASE Take
  <2>1. seqchan' \in Seq(Setups) /\ Len(seqchan') <= DataCap
    BY <1>8, HeadTailProperties, LenProperties, RaopSessionAssumption DEF Take, TypeOK
  <2>2. TypeOK'
    BY <1>8, <2>1 DEF Take, TypeOK, sockets
  <2>. QED  BY <1>8, <2>2, SocketsKeep DEF Take
<1>9. CASE OutputDone \/ Expire
  <2>1. TypeOK'
    BY <1>9 DEF OutputDone, Expire, TypeOK, sockets, streams
  <2>. QED  BY <1>9, <2>1, SocketsKeep DEF OutputDone, Expire
<1>10. CASE RequestSent
  <2>1. rrchan' \in 0 .. RequestCap
    BY <1>10, RaopSessionAssumption DEF RequestSent, TypeOK
  <2>2. TypeOK'
    BY <1>10, <2>1 DEF RequestSent, TypeOK, sockets
  <2>. QED  BY <1>10, <2>2, SocketsKeep DEF RequestSent
<1>11. CASE UNCHANGED vars
  <2>1. TypeOK'
    BY <1>11 DEF vars, TypeOK
  <2>. QED  BY <1>11, <2>1, SocketsKeep DEF vars, sockets
<1>. QED
  BY <1>1, <1>2, <1>3, <1>4, <1>5, <1>6, <1>7, <1>8, <1>9, <1>10, <1>11,
     SetupKeeps, ClosesKeeps DEF Next

\* Every variable keeps its type, and the channels their capacities (Spec => []TypeOK).
THEOREM SessionTypes == Spec => []TypeOK
<1>1. SessionInv => TypeOK
  BY DEF SessionInv
<1>. QED  BY <1>1, SessionInit, SessionStep, PTL DEF Spec

\* Whichever connections of whichever SETUPs of a source fail, the fields of raop name
\* all that are open; and as long as none has failed nothing is open after TEARDOWN
\* (Spec => []NothingLeaks).
THEOREM ConnectionsAreHeld == Spec => []NothingLeaks
BY InvHeld, SessionInit, SessionStep, PTL DEF Spec

\* A source that plays has the sequencer, and its connections and their receivers but
\* for those whose own Read has failed, however often it has set up and torn down
\* (Spec => []PlayingIsComplete).
THEOREM SessionsAreComplete == Spec => []PlayingIsComplete
BY InvComplete, SessionInit, SessionStep, PTL DEF Spec
=============================================================================
