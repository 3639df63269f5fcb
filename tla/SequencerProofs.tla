-------------------------- MODULE SequencerProofs --------------------------
(***************************************************************************)
(* Proofs about the sequencer, for every value of the constants: the types *)
(* and the cache, the packets that are played, and the walk of             *)
(* sendReRequests along the gaps.                                          *)
(***************************************************************************)
EXTENDS Sequencer, FiniteSetTheorems, TLAPS

\* uint16 arithmetic stays in the range of uint16.
LEMMA PlusType == \A a \in SeqNos : \A n \in 0 .. Modulus : Plus(a, n) \in SeqNos
  BY SeqNoAssumption DEF Plus, SeqNos

\* The uint16 difference is a seqno, and adding it leads from a to b.
LEMMA DistType ==
  \A a, b \in SeqNos : /\ Dist(a, b) \in 0 .. (Modulus - 1)
                       /\ a # b => Dist(a, b) > 0
                       /\ Plus(a, Dist(a, b)) = b
  BY SeqNoAssumption DEF Dist, Plus, SeqNos

\* A position of the stream has a seqno.
LEMMA SeqnoAtType == \A i \in Nat : SeqnoAt(i) \in SeqNos
  BY SeqNoAssumption DEF SeqnoAt, SeqNos

\* The cache holds a natural number of packets.
LEMMA HeldFinite == Cardinality(Held) \in Nat
<1>1. IsFiniteSet(SeqNos)
  BY SeqNoAssumption, FS_Interval DEF SeqNos
<1>2. Held \subseteq SeqNos
  BY DEF Held
<1>. QED  BY <1>1, <1>2, FS_Subset, FS_CardinalityType

\* Counting a gap, and printing it, leaves the counts natural numbers.
LEMMA CountType ==
  \A r \in [SeqNos -> Nat] : \A gap :
    /\ [x \in SeqNos |-> IF x \in gap THEN Bump(r[x]) ELSE r[x]] \in [SeqNos -> Nat]
    /\ PrintState(r) \in [SeqNos -> Nat]
  BY SequencerAssumption DEF Bump, PrintState

\* So does what sendReRequests does to the counts of a gap.
LEMMA RetriesAfterType ==
  ASSUME retries \in [SeqNos -> Nat], NEW gap
  PROVE  RetriesAfter(gap) \in [SeqNos -> Nat]
  BY CountType DEF RetriesAfter, Counted

\* The ends of a gap are seqnos, and it is not empty.
LEMMA GapType ==
  ASSUME NEW start \in Missing, NEW end \in Held
  PROVE  /\ start \in SeqNos /\ end \in SeqNos
         /\ Dist(start, end) \in 1 .. Modulus
<1>1. start \in SeqNos /\ end \in SeqNos /\ start # end
  BY DEF Missing, Held
<1>. QED  BY <1>1, DistType, SeqNoAssumption

\* A turn of the walk keeps the types of what all its cases change.
LEMMA NextGapType ==
  ASSUME TypeOK, NEW start \in Missing, NEW end \in Held, NextGap(start, end)
  PROVE  /\ cursor' \in SeqNos /\ entries' \in Nat
         /\ lowd' \in BOOLEAN /\ sent' \in Nat /\ quiet' \in BOOLEAN
         /\ pc' \in {"select", "flush", "scan", "stopped"}
         /\ played' \in Nat \union {Absent}
<1>1. start \in SeqNos /\ end \in SeqNos
  BY GapType
<1>2. cursor' \in SeqNos
  BY <1>1, PlusType, SeqNoAssumption DEF NextGap
<1>3. Dist(cursor, start) \in Nat
  BY <1>1, DistType, SeqNoAssumption DEF TypeOK
<1>4. entries' \in Nat
  BY <1>3 DEF NextGap, TypeOK
<1>. QED  BY <1>2, <1>4 DEF NextGap, TypeOK

\* A seqno stands for a position of the stream.
LEMMA PositionType == TypeOK => \A x \in SeqNos : PositionOf(x) \in Nat
<1>. SUFFICES ASSUME TypeOK, NEW x \in SeqNos
              PROVE  PositionOf(x) \in Nat
  OBVIOUS
<1>1. pos \in Nat /\ low \in SeqNos
  BY DEF TypeOK
<1>2. Dist(low, x) \in 0 .. (Modulus - 1)
  BY <1>1, DistType
<1>. QED  BY <1>1, <1>2 DEF PositionOf

\* handle leaves every variable in its type.
LEMMA HandleType ==
  ASSUME TypeOK, NEW i \in Positions, NEW recovery, Handle(i, recovery)
  PROVE  /\ lowd' \in BOOLEAN /\ low' \in SeqNos
         /\ retries' \in [SeqNos -> Nat]
         /\ packets' \in [SeqNos -> Nat \union {Absent}]
         /\ pc' \in {"select", "flush", "scan", "stopped"}
         /\ cursor' \in SeqNos /\ entries' \in Nat /\ requests' \in Seq(Request)
         /\ quiet' \in BOOLEAN /\ pos' \in Nat
         /\ played' \in Nat \union {Absent}
         /\ asked' \subseteq Nat \X Nat /\ jumped' \in BOOLEAN
<1>. DEFINE sn == SeqnoAt(i)
<1>1. i \in Nat /\ sn \in SeqNos
  BY SeqnoAtType, SequencerAssumption DEF Positions
<1>2. Plus(sn, 1) \in SeqNos
  BY <1>1, PlusType, SeqNoAssumption
<1>. HIDE DEF sn
<1>3. /\ lowd' \in BOOLEAN /\ low' \in SeqNos /\ pos' \in Nat
      /\ retries' \in [SeqNos -> Nat]
  BY <1>1 DEF Handle, TypeOK, sn, Forgotten
<1>4. /\ packets' \in [SeqNos -> Nat \union {Absent}]
      /\ pc' \in {"select", "flush", "scan", "stopped"}
      /\ cursor' \in SeqNos
      /\ played' \in Nat \union {Absent}
  BY <1>1, <1>2 DEF Handle, TypeOK, sn
<1>. QED  BY <1>3, <1>4 DEF Handle, TypeOK

\* Every step of the sequencer and of its environment keeps the types.
LEMMA TypeStep == TypeOK /\ [Next]_vars => TypeOK'
<1>. SUFFICES ASSUME TypeOK, [Next]_vars PROVE TypeOK'
  OBVIOUS
<1>1. CASE DataPacket
  <2>1. PICK i \in Positions :
           /\ sent' = IF i >= sent THEN i + 1 ELSE sent
           /\ Handle(i, FALSE)
    BY <1>1 DEF DataPacket
  <2>2. sent' \in Nat
    BY <2>1, SequencerAssumption DEF TypeOK, Positions
  <2>. QED  BY <2>1, <2>2, HandleType DEF TypeOK
<1>2. CASE RecoveryPacket
  <2>1. PICK i \in Positions : Handle(i, TRUE)
    BY <1>2 DEF RecoveryPacket
  <2>. QED  BY <1>2, <2>1, HandleType DEF TypeOK, RecoveryPacket
<1>3. CASE Timeout
  BY <1>3, HeldFinite DEF TypeOK, Timeout, history
<1>4. CASE FlushPacket
  <2>1. cursor' \in SeqNos
    BY <1>4, PlusType, SeqNoAssumption DEF FlushPacket, TypeOK
  <2>. QED  BY <1>4, <2>1 DEF FlushPacket, TypeOK, Held
<1>5. CASE FlushEnd
  <2>1. pos' \in Nat
    BY <1>5, DistType, SeqNoAssumption DEF FlushEnd, TypeOK
  <2>. QED  BY <1>5, <2>1 DEF FlushEnd, TypeOK
<1>6. CASE ScanEnd
  BY <1>6 DEF ScanEnd, TypeOK, history
<1>7. ASSUME NEW start \in Missing, NEW end \in Held, RequestGap(start, end)
      PROVE  TypeOK'
  <2>1. /\ NextGap(start, end)
        /\ Retry(Span(start, end)) \in RequestAt
        /\ requests' = Append(requests, RequestFor(start, end))
        /\ retries' = RetriesAfter(Span(start, end))
        /\ asked' = asked \union {<<PositionOf(x), Retry(Span(start, end))>> : x \in Span(start, end)}
        /\ UNCHANGED <<low, packets, pos, jumped>>
    BY <1>7 DEF RequestGap
  <2>2. RequestFor(start, end) \in Request
    BY GapType DEF Request, RequestFor
  <2>3. requests' \in Seq(Request)
    BY <2>1, <2>2 DEF TypeOK
  <2>4. asked' \subseteq Nat \X Nat
    <3>1. \A x \in Span(start, end) : PositionOf(x) \in Nat
      BY PositionType DEF Span
    <3>2. Retry(Span(start, end)) \in Nat
      BY <2>1, SequencerAssumption
    <3>. QED  BY <2>1, <3>1, <3>2 DEF TypeOK
  <2>5. retries' \in [SeqNos -> Nat]
    BY <2>1, RetriesAfterType DEF TypeOK
  <2>. QED  BY <2>1, <2>3, <2>4, <2>5, NextGapType DEF TypeOK
<1>8. ASSUME NEW start \in Missing, NEW end \in Held, GiveUpGap(start, end)
      PROVE  TypeOK'
  <2>. DEFINE gap == Span(start, end)
              after == RetriesAfter(gap)
  <2>1. /\ NextGap(start, end)
        /\ packets' = [x \in SeqNos |-> IF x \in gap THEN Absent ELSE packets[x]]
        /\ retries' = [x \in SeqNos |-> IF x \in gap THEN 0 ELSE after[x]]
        /\ low' = Plus(start, Dist(start, end))
        /\ pos' = pos + Dist(low, end)
        /\ asked' = {a \in asked : a[1] >= pos'}
        /\ jumped' = (jumped \/ \E h \in Held : h \in Span(low, end))
        /\ UNCHANGED requests
    BY <1>8 DEF GiveUpGap
  <2>2. after \in [SeqNos -> Nat]
    BY RetriesAfterType DEF TypeOK
  <2>. HIDE DEF gap, after
  <2>3. retries' \in [SeqNos -> Nat] /\ packets' \in [SeqNos -> Nat \union {Absent}]
    BY <2>1, <2>2 DEF TypeOK
  <2>4. low' \in SeqNos
    BY <2>1, GapType, PlusType
  <2>5. pos' \in Nat
    <3>1. low \in SeqNos /\ end \in SeqNos /\ pos \in Nat
      BY GapType DEF TypeOK
    <3>2. Dist(low, end) \in Nat
      BY <3>1, DistType, SeqNoAssumption
    <3>. QED  BY <2>1, <3>1, <3>2
  <2>. QED  BY <2>1, <2>3, <2>4, <2>5, NextGapType DEF TypeOK
<1>9. ASSUME NEW start \in Missing, NEW end \in Held, CountGap(start, end)
      PROVE  TypeOK'
  <2>1. /\ NextGap(start, end)
        /\ retries' = RetriesAfter(Span(start, end))
        /\ UNCHANGED <<low, packets, requests, pos, asked, jumped>>
    BY <1>9 DEF CountGap
  <2>2. retries' \in [SeqNos -> Nat]
    BY <2>1, RetriesAfterType DEF TypeOK
  <2>. QED  BY <2>1, <2>2, NextGapType DEF TypeOK
<1>10. CASE Restart
  <2>1. 0 \in SeqNos
    BY SeqNoAssumption DEF SeqNos
  <2>2. /\ retries' \in [SeqNos -> Nat]
        /\ packets' \in [SeqNos -> Nat \union {Absent}]
    BY <1>10 DEF Restart
  <2>. QED  BY <1>10, <2>1, <2>2 DEF Restart, TypeOK
<1>11. CASE Shutdown
  BY <1>11 DEF Shutdown, TypeOK, history
<1>12. CASE Transmit
  <2>1. requests' \in Seq(Request)
    BY <1>12 DEF Transmit, TypeOK
  <2>. QED  BY <1>12, <2>1 DEF Transmit, TypeOK, history
<1>13. CASE Silence
  BY <1>13 DEF Silence, TypeOK, code, history
<1>14. CASE UNCHANGED vars
  BY <1>14 DEF vars, code, history, TypeOK
<1>. QED
  BY <1>1, <1>2, <1>3, <1>4, <1>5, <1>6, <1>7, <1>8, <1>9, <1>10, <1>11, <1>12,
     <1>13, <1>14 DEF Next, Flush, Scan

\* A new sequencer has the types.
LEMMA TypeInit == Init => TypeOK
<1>1. 0 \in SeqNos
  BY SeqNoAssumption DEF SeqNos
<1>. QED  BY <1>1, SequencerAssumption DEF Init, TypeOK

\* The variables of the sequencer keep the types sequencer.go declares, for
\* every seqno range, retry schedule, window and stream.
THEOREM TypeCorrect == Spec => []TypeOK
<1>. QED  BY TypeInit, TypeStep, PTL DEF Spec

-----------------------------------------------------------------------------
\* Counting and printing gaps leaves the retries of cached packets alone.
LEMMA RetriesAfterHeld ==
  ASSUME TypeOK, NEW gap, gap \subseteq Missing, NEW sn \in Held
  PROVE  RetriesAfter(gap)[sn] = retries[sn]
<1>1. sn \in SeqNos /\ sn \notin Missing /\ sn \notin gap
  BY DEF Held, Missing
<1>2. Counted(gap)[sn] = retries[sn]
  BY <1>1 DEF Counted
<1>3. PrintState(Counted(gap))[sn] = retries[sn]
  BY <1>1, <1>2 DEF PrintState
<1>. QED  BY <1>2, <1>3 DEF RetriesAfter

\* The two facts about the cache, which hold together with the types.
CacheInv == TypeOK /\ RetriesOnlyForMissing /\ NothingHeldBack

\* seqnoDelta of a seqno and itself is 0.
LEMMA SeqnoDeltaSelf == \A a \in SeqNos : SeqnoDelta(a, a) = 0
  BY SeqNoAssumption DEF SeqnoDelta, SeqNos

\* The walk changes no cached packet and returns to the select through
\* flushCached only.
LEMMA GapKeepsCache ==
  ASSUME CacheInv, NEW start \in Missing, NEW end \in Held,
         RequestGap(start, end) \/ GiveUpGap(start, end) \/ CountGap(start, end)
  PROVE  RetriesOnlyForMissing' /\ NothingHeldBack'
<1>. DEFINE gap == Span(start, end)
            after == RetriesAfter(gap)
<1>1. NextGap(start, end) /\ gap \subseteq Missing /\ pc' # "select"
  BY DEF RequestGap, GiveUpGap, CountGap, NextGap
<1>2. \A sn \in Held : after[sn] = 0
  BY <1>1, RetriesAfterHeld DEF CacheInv, RetriesOnlyForMissing
<1>3. /\ Held' = Held
      /\ \A sn \in SeqNos : retries'[sn] \in {after[sn], 0}
  <2>1. CASE GiveUpGap(start, end)
    <3>1. /\ packets' = [x \in SeqNos |-> IF x \in gap THEN Absent ELSE packets[x]]
          /\ retries' = [x \in SeqNos |-> IF x \in gap THEN 0 ELSE after[x]]
      BY <2>1 DEF GiveUpGap
    <3>. HIDE DEF gap, after
    <3>2. \A x \in SeqNos : packets'[x] = packets[x]
      BY <3>1, <1>1 DEF Missing, Held
    <3>3. Held' = Held
      BY <3>2 DEF Held
    <3>. QED  BY <3>1, <3>3
  <2>2. CASE RequestGap(start, end) \/ CountGap(start, end)
    <3>1. retries' = after /\ packets' = packets
      BY <2>2 DEF RequestGap, CountGap
    <3>. QED  BY <3>1 DEF Held
  <2>. QED  BY <2>1, <2>2
<1>4. RetriesOnlyForMissing'
  BY <1>2, <1>3 DEF RetriesOnlyForMissing, Held
<1>. QED  BY <1>1, <1>4 DEF NothingHeldBack

\* handle forgets the retries of what it caches, and does not cache low.
LEMMA HandleKeepsCache ==
  ASSUME CacheInv, NEW i \in Positions, NEW recovery, Handle(i, recovery)
  PROVE  RetriesOnlyForMissing' /\ NothingHeldBack'
<1>. DEFINE sn == SeqnoAt(i)
            base == IF lowd THEN low ELSE sn
<1>1. sn \in SeqNos /\ i # Absent
  BY SeqnoAtType, SequencerAssumption DEF Positions, Absent
<1>2. SeqnoDelta(sn, sn) = 0
  BY <1>1, SeqnoDeltaSelf
<1>. HIDE DEF sn
<1>3. retries' = [retries EXCEPT ![sn] = 0] /\ low' = base
  BY DEF Handle, Forgotten, sn
<1>4. \/ pc' = "flush" /\ packets' = packets
      \/ lowd /\ pc' = pc /\ packets' = packets
      \/ lowd /\ pc' = pc /\ sn # low /\ packets' = [packets EXCEPT ![sn] = i]
  BY <1>2 DEF Handle, sn
<1>5. Held' \subseteq Held \union {sn}
  BY <1>1, <1>4 DEF Held, CacheInv, TypeOK
<1>6. RetriesOnlyForMissing'
  <2>1. SUFFICES ASSUME NEW x \in Held' PROVE retries'[x] = 0
    BY DEF RetriesOnlyForMissing
  <2>2. x \in SeqNos
    BY DEF Held
  <2>. QED  BY <1>1, <1>3, <1>5, <2>2 DEF CacheInv, TypeOK, RetriesOnlyForMissing
<1>7. NothingHeldBack'
  <2>1. CASE pc' = "flush"
    BY <2>1 DEF NothingHeldBack
  <2>2. CASE lowd /\ pc' = pc /\ (sn # low \/ packets' = packets)
    <3>1. low' = low /\ low \in SeqNos /\ low \notin Held
      BY <2>2, <1>3 DEF CacheInv, TypeOK, NothingHeldBack, Handle
    <3>2. low \notin Held'
      BY <2>2, <1>5, <3>1 DEF Held
    <3>. QED  BY <3>1, <3>2 DEF NothingHeldBack
  <2>. QED  BY <1>4, <2>1, <2>2
<1>. QED  BY <1>6, <1>7

\* Every step of the sequencer preserves the facts about the cache.
LEMMA CacheStep == CacheInv /\ [Next]_vars => CacheInv'
<1>. SUFFICES ASSUME CacheInv, [Next]_vars PROVE CacheInv'
  OBVIOUS
<1>1. TypeOK'
  BY TypeStep DEF CacheInv
<1>2. CASE DataPacket \/ RecoveryPacket
  BY <1>1, <1>2, HandleKeepsCache DEF CacheInv, DataPacket, RecoveryPacket
<1>3. CASE FlushPacket
  <2>1. pc' = "flush" /\ retries' = retries /\ Held' \subseteq Held
    BY <1>3 DEF FlushPacket, Held, CacheInv, TypeOK
  <2>. QED  BY <1>1, <2>1 DEF CacheInv, RetriesOnlyForMissing, NothingHeldBack
<1>4. CASE FlushEnd
  BY <1>1, <1>4 DEF FlushEnd, CacheInv, RetriesOnlyForMissing, NothingHeldBack, Held
<1>5. CASE \E start \in Missing, end \in Held :
             RequestGap(start, end) \/ GiveUpGap(start, end) \/ CountGap(start, end)
  BY <1>1, <1>5, GapKeepsCache DEF CacheInv
<1>6. CASE Restart
  <2>1. Held' = {}
    BY <1>6 DEF Restart, Held
  <2>. QED  BY <1>1, <2>1 DEF CacheInv, RetriesOnlyForMissing, NothingHeldBack
<1>7. CASE Timeout \/ ScanEnd \/ Shutdown \/ Transmit \/ Silence \/ UNCHANGED vars
  <2>1. /\ UNCHANGED <<packets, retries>>
        /\ pc' # "select" \/ (pc' = pc /\ low' = low)
    BY <1>7 DEF Timeout, ScanEnd, Shutdown, Transmit, Silence, vars, code, history
  <2>2. Held' = Held
    BY <2>1 DEF Held
  <2>. QED  BY <1>1, <2>1, <2>2 DEF CacheInv, RetriesOnlyForMissing, NothingHeldBack
<1>. QED
  BY <1>2, <1>3, <1>4, <1>5, <1>6, <1>7 DEF Next, Flush, Scan

\* They hold for a new sequencer, whose cache is empty.
LEMMA CacheInit == Init => CacheInv
<1>. SUFFICES ASSUME Init PROVE CacheInv
  OBVIOUS
<1>1. Held = {}
  BY DEF Init, Held
<1>. QED  BY <1>1, TypeInit DEF CacheInv, RetriesOnlyForMissing, NothingHeldBack

\* When the goroutine waits for its next event, the packet at low is never in
\* the cache: whatever could be played has been played.
THEOREM NothingIsHeldBack == Spec => []NothingHeldBack
<1>1. CacheInv => NothingHeldBack
  BY DEF CacheInv
<1>. QED  BY <1>1, CacheInit, CacheStep, PTL DEF Spec

\* A packet that has arrived has no retries left, so its seqno is not asked
\* for because of the past.
THEOREM RetriesAreForMissing == Spec => []RetriesOnlyForMissing
<1>1. CacheInv => RetriesOnlyForMissing
  BY DEF CacheInv
<1>. QED  BY <1>1, CacheInit, CacheStep, PTL DEF Spec

-----------------------------------------------------------------------------
(***************************************************************************)
(* The order of the stream: the seqnos of packets that can meet tell their *)
(* positions apart, across the wrap too, and packets come out in order.    *)
(***************************************************************************)
\* Division with remainder.
LEMMA DivMod ==
  ASSUME NEW m \in Nat \ {0}, NEW i \in Nat
  PROVE  /\ i \div m \in Nat /\ (i % m) \in 0 .. (m - 1)
         /\ i = m * (i \div m) + (i % m)
  BY SMTT(30)

\* A multiple of m that is neither m nor 0 is far from both.
LEMMA Multiples ==
  ASSUME NEW m \in Nat \ {0}, NEW k \in Int
  PROVE  /\ k >= 2 => m * k >= 2 * m
         /\ k <= -1 => m * k <= -m
         /\ k = 0 => m * k = 0
         /\ k = 1 => m * k = m
  BY SMTT(30)

\* The seqno d positions on is uint16 addition of d.
LEMMA SeqnoAtPlus ==
  ASSUME NEW i \in Nat, NEW d \in SeqNos
  PROVE  SeqnoAt(i + d) = Plus(SeqnoAt(i), d)
<1>. DEFINE r == i % Modulus
            s == (i + d) % Modulus
            k == ((i + d) \div Modulus) - (i \div Modulus)
<1>1. Modulus \in Nat \ {0} /\ d \in 0 .. (Modulus - 1)
  BY SeqNoAssumption DEF SeqNos
<1>2. /\ i \div Modulus \in Int /\ (i + d) \div Modulus \in Int
      /\ r \in 0 .. (Modulus - 1) /\ s \in 0 .. (Modulus - 1)
      /\ i = Modulus * (i \div Modulus) + r
      /\ i + d = Modulus * ((i + d) \div Modulus) + s
  <2>1. d \in Nat /\ i + d \in Nat
    BY <1>1
  <2>2. /\ i \div Modulus \in Nat /\ r \in 0 .. (Modulus - 1)
        /\ i = Modulus * (i \div Modulus) + r
    BY <1>1, DivMod
  <2>3. /\ (i + d) \div Modulus \in Nat /\ s \in 0 .. (Modulus - 1)
        /\ i + d = Modulus * ((i + d) \div Modulus) + s
    BY <1>1, <2>1, DivMod
  <2>. HIDE DEF r, s
  <2>. QED  BY <2>2, <2>3
<1>3. Modulus * k = r + d - s
  <2>1. \A a, b \in Int : Modulus * (a - b) = Modulus * a - Modulus * b
    BY <1>1, SMTT(30)
  <2>2. Modulus * k = Modulus * ((i + d) \div Modulus) - Modulus * (i \div Modulus)
    BY <1>2, <2>1
  <2>3. Modulus * ((i + d) \div Modulus) \in Int /\ Modulus * (i \div Modulus) \in Int
    BY <1>1, <1>2
  <2>. QED  BY <1>1, <1>2, <2>2, <2>3
<1>4. k \in Int
  BY <1>2
<1>. HIDE DEF r, s, k
<1>5. k \in {0, 1}
  BY <1>1, <1>2, <1>3, <1>4, Multiples
<1>6. s = IF r + d >= Modulus THEN r + d - Modulus ELSE r + d
  BY <1>1, <1>2, <1>3, <1>5, Multiples
<1>. QED  BY <1>6 DEF r, s, SeqnoAt, Plus

\* Of two packets less than the guard zone apart, seqnoDelta tells how far one
\* is ahead of the other, and so does the uint16 difference if it is.
LEMMA SeqnoDeltaExact ==
  ASSUME NEW i \in Nat, NEW j \in Nat, j - Guard < i, i < j + Guard
  PROVE  /\ SeqnoDelta(SeqnoAt(i), SeqnoAt(j)) = i - j
         /\ i >= j => Dist(SeqnoAt(j), SeqnoAt(i)) = i - j
         /\ SeqnoAt(i) = SeqnoAt(j) => i = j
<1>. DEFINE a == SeqnoAt(i)
            b == SeqnoAt(j)
<1>1. a \in SeqNos /\ b \in SeqNos
  BY SeqnoAtType
<1>2. CASE i >= j
  <2>1. i - j \in SeqNos /\ j + (i - j) = i
    BY <1>2, SeqNoAssumption DEF SeqNos
  <2>2. a = Plus(b, i - j)
    BY <2>1, SeqnoAtPlus
  <2>. HIDE DEF a, b
  <2>3. SeqnoDelta(a, b) = i - j /\ Dist(b, a) = i - j
    BY <1>1, <1>2, <2>1, <2>2, SeqNoAssumption DEF SeqnoDelta, Plus, Dist, SeqNos
  <2>4. a = b => i = j
    BY <1>1, <2>3, SeqNoAssumption DEF Dist, SeqNos
  <2>. QED  BY <2>3, <2>4 DEF a, b
<1>3. CASE i < j
  <2>1. j - i \in SeqNos /\ i + (j - i) = j
    BY <1>3, SeqNoAssumption DEF SeqNos
  <2>2. b = Plus(a, j - i)
    BY <2>1, SeqnoAtPlus
  <2>. HIDE DEF a, b
  <2>3. SeqnoDelta(a, b) = i - j /\ Dist(a, b) = j - i
    BY <1>1, <1>3, <2>1, <2>2, SeqNoAssumption DEF SeqnoDelta, Plus, Dist, SeqNos
  <2>4. a # b
    BY <1>1, <1>3, <2>3, SeqNoAssumption DEF Dist, SeqNos
  <2>. QED  BY <1>3, <2>3, <2>4 DEF a, b
<1>. QED  BY <1>2, <1>3

-----------------------------------------------------------------------------
(***************************************************************************)
(* What keeps the order, as long as remove has not jumped over a packet:   *)
(* each cached packet is the one its distance from low says, no packet is  *)
(* further from low than it was when it arrived, and nothing that has been *)
(* played is at low or, while flushCached goes on, at the cursor.          *)
(***************************************************************************)
CacheOrder ==
  /\ \A sn \in Held : packets[sn] = PositionOf(sn) /\ Dist(low, sn) <= Window
  /\ pc # "flush" => played < pos
  /\ pc = "flush" => /\ played < PositionOf(cursor)
                     /\ Dist(low, cursor) <= Window + 1
                     /\ \A sn \in Held : Dist(low, cursor) <= Dist(low, sn)

OrderInv ==
  /\ ~lowd => Held = {} /\ pc \in {"select", "stopped"}
  /\ lowd => low = SeqnoAt(pos)
  /\ lowd /\ ~jumped => CacheOrder

\* A packet that is awaited is the one at pos, and one that is cached is as
\* far from low as its position is from pos.
LEMMA HandleKeepsOrder ==
  ASSUME CacheInv, OrderInv, NEW i \in Positions, NEW recovery,
         Near(i), Handle(i, recovery)
  PROVE  OrderInv' /\ (played' # played => played' > played \/ ~lowd \/ jumped)
<1>. DEFINE sn == SeqnoAt(i)
            base == IF lowd THEN low ELSE sn
<1>1. i \in Nat /\ sn \in SeqNos /\ pos \in Nat /\ low \in SeqNos
  BY SeqnoAtType, SequencerAssumption DEF Positions, CacheInv, TypeOK
<1>2. lowd' = TRUE /\ low' = base /\ jumped' = jumped
  BY DEF Handle
<1>3. CASE ~lowd
  <2>1. SeqnoDelta(sn, sn) = 0
    BY <1>1, SeqnoDeltaSelf
  <2>. HIDE DEF sn
  <2>2. /\ base = sn /\ low' = sn /\ pos' = i /\ played' = i
        /\ pc' = "flush" /\ cursor' = Plus(sn, 1) /\ packets' = packets
    BY <1>2, <1>3, <2>1 DEF Handle, sn
  <2>3. Held' = {}
    BY <1>3, <2>2 DEF Held, OrderInv
  <2>4. Dist(sn, Plus(sn, 1)) = 1
    BY <1>1, SeqNoAssumption DEF Dist, Plus, SeqNos
  <2>5. CacheOrder'
    BY <1>1, <2>2, <2>3, <2>4, SequencerAssumption DEF CacheOrder, PositionOf
  <2>. QED  BY <1>2, <1>3, <2>2, <2>3, <2>5 DEF OrderInv, sn
<1>4. CASE lowd
  <2>1. /\ low = SeqnoAt(pos) /\ low' = low /\ pos' = pos
        /\ pc = "select" /\ base = low
    BY <1>2, <1>4 DEF Handle, OrderInv
  <2>2. /\ SeqnoDelta(sn, low) = i - pos
        /\ i >= pos => Dist(low, sn) = i - pos
        /\ sn = low => i = pos
        /\ i <= pos + Window
    BY <1>1, <1>4, <2>1, SeqnoDeltaExact, SequencerAssumption, SeqNoAssumption DEF Near
  <2>. HIDE DEF sn
  <2>3. CASE /\ sn = low /\ played' = i /\ pc' = "flush"
             /\ cursor' = Plus(sn, 1) /\ packets' = packets
    <3>1. Dist(low, Plus(low, 1)) = 1
      BY <1>1, SeqNoAssumption DEF Dist, Plus, SeqNos
    <3>2. Held' = Held /\ low \notin Held
      BY <2>1, <2>3 DEF Held, CacheInv, NothingHeldBack
    <3>3. \A x \in Held : Dist(low, x) >= 1
      <4>1. \A x \in Held : x \in SeqNos /\ x # low
        BY <3>2 DEF Held
      <4>. QED  BY <1>1, <4>1, DistType, SeqNoAssumption
    <3>4. ~jumped => CacheOrder' /\ played' > played
      BY <1>1, <1>4, <2>1, <2>2, <2>3, <3>1, <3>2, <3>3, SequencerAssumption
         DEF CacheOrder, PositionOf, OrderInv, CacheInv, TypeOK
    <3>. QED  BY <1>2, <1>4, <2>1, <3>4 DEF OrderInv
  <2>4. CASE UNCHANGED <<played, pc, cursor, packets>>
    <3>1. ~jumped => CacheOrder'
      BY <1>4, <2>1, <2>4 DEF CacheOrder, PositionOf, OrderInv, Held
    <3>. QED  BY <1>2, <1>4, <2>1, <2>4, <3>1 DEF OrderInv
  <2>5. CASE /\ sn # low /\ SeqnoDelta(sn, low) >= 0
             /\ packets' = [packets EXCEPT ![sn] = i]
             /\ UNCHANGED <<played, pc, cursor>>
    <3>1. Dist(low, sn) = i - pos
      BY <1>1, <2>2, <2>5
    <3>2. packets'[sn] = i /\ \A x \in SeqNos \ {sn} : packets'[x] = packets[x]
      BY <1>1, <2>5 DEF CacheInv, TypeOK
    <3>3. \A x \in Held' : x = sn \/ x \in Held
      BY <3>2 DEF Held
    <3>4. ASSUME ~jumped, NEW x \in Held'
          PROVE  packets'[x] = pos + Dist(low, x) /\ Dist(low, x) <= Window
      <4>1. CASE x = sn
        BY <1>1, <2>2, <3>1, <3>2, <4>1, SequencerAssumption
      <4>2. CASE x # sn /\ x \in Held
        BY <1>4, <3>2, <3>4, <4>2 DEF OrderInv, CacheOrder, PositionOf, Held
      <4>. QED  BY <3>3, <4>1, <4>2
    <3>5. ~jumped => played' < pos' /\ pc' # "flush"
      BY <1>4, <2>1, <2>5 DEF OrderInv, CacheOrder
    <3>6. ~jumped => CacheOrder'
      BY <2>1, <3>4, <3>5 DEF CacheOrder, PositionOf
    <3>. QED  BY <1>2, <1>4, <2>1, <2>5, <3>6 DEF OrderInv
  <2>. QED  BY <2>1, <2>3, <2>4, <2>5 DEF Handle, sn
<1>. QED  BY <1>3, <1>4

\* Distances from a seqno in between.
LEMMA DistBetween ==
  ASSUME NEW a \in SeqNos, NEW b \in SeqNos, NEW c \in SeqNos,
         Dist(a, b) <= Dist(a, c)
  PROVE  Dist(b, c) = Dist(a, c) - Dist(a, b)
  BY SeqNoAssumption DEF Dist, SeqNos

\* low moves to a seqno that no cached packet is behind.
LEMMA LowMoves ==
  ASSUME TypeOK, OrderInv, lowd, NEW to \in SeqNos,
         low' = to, pos' = PositionOf(to)
  PROVE  /\ low' = SeqnoAt(pos')
         /\ ~jumped => \A sn \in Held : Dist(low, to) <= Dist(low, sn) =>
              /\ packets[sn] = pos' + Dist(low', sn)
              /\ Dist(low', sn) <= Window
<1>1. low \in SeqNos /\ pos \in Nat /\ low = SeqnoAt(pos)
  BY DEF TypeOK, OrderInv
<1>2. Dist(low, to) \in SeqNos /\ Plus(low, Dist(low, to)) = to
  BY <1>1, DistType DEF SeqNos
<1>3. low' = SeqnoAt(pos')
  BY <1>1, <1>2, SeqnoAtPlus DEF PositionOf
<1>4. ASSUME ~jumped, NEW sn \in Held, Dist(low, to) <= Dist(low, sn)
      PROVE  packets[sn] = pos' + Dist(low', sn) /\ Dist(low', sn) <= Window
  <2>1. sn \in SeqNos /\ packets[sn] = pos + Dist(low, sn) /\ Dist(low, sn) <= Window
    BY <1>4 DEF OrderInv, CacheOrder, PositionOf, Held
  <2>2. Dist(to, sn) = Dist(low, sn) - Dist(low, to)
    BY <1>1, <1>4, <2>1, DistBetween
  <2>3. Dist(low, sn) \in Nat /\ Dist(low, to) \in Nat
    BY <1>1, <2>1, DistType
  <2>. QED  BY <1>1, <2>1, <2>2, <2>3, SequencerAssumption DEF PositionOf
<1>. QED  BY <1>3, <1>4

\* A gap that is given up is behind low with all of its seqnos.
LEMMA GiveUpKeepsOrder ==
  ASSUME TypeOK, OrderInv, NEW start \in Missing, NEW end \in Held,
         GiveUpGap(start, end)
  PROVE  OrderInv'
<1>1. /\ start \in SeqNos /\ end \in SeqNos /\ low \in SeqNos /\ pos \in Nat
      /\ Dist(low, end) \in Nat
  BY GapType, DistType DEF TypeOK
<1>2. low' = end /\ pos' = PositionOf(end)
  BY <1>1, DistType DEF GiveUpGap, PositionOf
<1>3. lowd /\ lowd' = lowd /\ pc = "scan" /\ pc' = pc /\ played' = played
  BY DEF GiveUpGap, NextGap, OrderInv
<1>4. Span(start, end) \subseteq Missing
  BY DEF GiveUpGap, NextGap
<1>5. \A x \in SeqNos : packets'[x] = packets[x]
  <2>1. \A x \in SeqNos :
          packets'[x] = IF x \in Span(start, end) THEN Absent ELSE packets[x]
    BY DEF GiveUpGap
  <2>. QED  BY <1>4, <2>1 DEF Missing, Held
<1>6. Held' = Held
  BY <1>5 DEF Held
<1>7. ASSUME ~jumped', NEW sn \in Held
      PROVE  Dist(low, end) <= Dist(low, sn)
  <2>1. sn \in SeqNos /\ sn \notin Span(low, end)
    BY <1>7 DEF GiveUpGap, Held
  <2>2. Dist(low, sn) \in Nat
    BY <1>1, <2>1, DistType
  <2>. QED  BY <1>1, <2>1, <2>2 DEF Span
<1>8. /\ low' = SeqnoAt(pos')
      /\ ~jumped => \A sn \in Held : Dist(low, end) <= Dist(low, sn) =>
           packets[sn] = pos' + Dist(low', sn) /\ Dist(low', sn) <= Window
  BY <1>1, <1>2, <1>3, LowMoves
<1>9. ~jumped' => ~jumped
  BY DEF GiveUpGap
<1>10. ~jumped' => CacheOrder'
  <2>1. ~jumped' => played' < pos'
    BY <1>1, <1>2, <1>3, <1>9 DEF OrderInv, CacheOrder, PositionOf, TypeOK
  <2>2. ASSUME ~jumped', NEW sn \in Held'
        PROVE  packets'[sn] = pos' + Dist(low', sn) /\ Dist(low', sn) <= Window
    BY <1>5, <1>6, <1>7, <1>8, <1>9, <2>2 DEF Held
  <2>. QED  BY <1>3, <2>1, <2>2 DEF CacheOrder, PositionOf
<1>. QED  BY <1>3, <1>8, <1>10 DEF OrderInv

\* flushCached outputs the packet at the cursor and goes on behind it.
LEMMA FlushPacketKeepsOrder ==
  ASSUME TypeOK, OrderInv, FlushPacket
  PROVE  OrderInv' /\ (played' # played => played' > played \/ ~lowd \/ jumped)
<1>1. /\ cursor \in Held /\ cursor \in SeqNos /\ low \in SeqNos /\ pos \in Nat
      /\ pc = "flush" /\ lowd
  BY DEF FlushPacket, Held, TypeOK, OrderInv
<1>2. /\ UNCHANGED <<lowd, low, pos, pc, jumped>>
      /\ played' = packets[cursor] /\ cursor' = Plus(cursor, 1)
      /\ packets' = [packets EXCEPT ![cursor] = Absent]
  BY DEF FlushPacket
<1>3. /\ cursor \notin Held'
      /\ \A sn \in Held' : sn \in Held /\ sn # cursor /\ packets'[sn] = packets[sn]
  BY <1>1, <1>2 DEF Held, TypeOK
<1>4. ASSUME ~jumped
      PROVE  CacheOrder' /\ played' > played
  <2>1. /\ played < PositionOf(cursor) /\ packets[cursor] = PositionOf(cursor)
        /\ Dist(low, cursor) \in Nat /\ Dist(low, cursor) <= Window
    BY <1>1, <1>4, DistType DEF OrderInv, CacheOrder
  <2>2. Dist(low, Plus(cursor, 1)) = Dist(low, cursor) + 1
    BY <1>1, <2>1, SeqNoAssumption, SequencerAssumption DEF Dist, Plus, SeqNos
  <2>3. ASSUME NEW sn \in Held'
        PROVE  Dist(low, cursor) + 1 <= Dist(low, sn)
    <3>1. sn \in SeqNos /\ sn # cursor /\ Dist(low, cursor) <= Dist(low, sn)
      BY <1>1, <1>3, <1>4 DEF OrderInv, CacheOrder, Held
    <3>. QED  BY <1>1, <3>1, SeqNoAssumption DEF Dist, SeqNos
  <2>4. played' < pos + (Dist(low, cursor) + 1)
    BY <1>1, <1>2, <2>1 DEF PositionOf
  <2>5. \A sn \in Held' : packets'[sn] = pos + Dist(low, sn) /\ Dist(low, sn) <= Window
    BY <1>1, <1>3, <1>4 DEF OrderInv, CacheOrder, PositionOf
  <2>6. CacheOrder'
    BY <1>1, <1>2, <2>1, <2>2, <2>3, <2>4, <2>5, SequencerAssumption
       DEF CacheOrder, PositionOf
  <2>. QED  BY <1>2, <2>1, <2>6 DEF TypeOK
<1>. QED  BY <1>1, <1>2, <1>4 DEF OrderInv

\* flushCached ends at the first gap, and low is there.
LEMMA FlushEndKeepsOrder ==
  ASSUME TypeOK, OrderInv, FlushEnd
  PROVE  OrderInv'
<1>1. /\ cursor \in SeqNos /\ low \in SeqNos /\ pos \in Nat /\ pc = "flush" /\ lowd
  BY DEF FlushEnd, TypeOK, OrderInv
<1>2. /\ low' = cursor /\ pos' = PositionOf(cursor) /\ pc' = "select"
      /\ UNCHANGED <<lowd, packets, played, jumped>>
  BY DEF FlushEnd, PositionOf
<1>3. Held' = Held
  BY <1>2 DEF Held
<1>4. /\ low' = SeqnoAt(pos')
      /\ ~jumped => \A sn \in Held : Dist(low, cursor) <= Dist(low, sn) =>
           packets[sn] = pos' + Dist(low', sn) /\ Dist(low', sn) <= Window
  BY <1>1, <1>2, LowMoves
<1>5. ~jumped => CacheOrder'
  BY <1>1, <1>2, <1>3, <1>4 DEF OrderInv, CacheOrder, PositionOf
<1>. QED  BY <1>1, <1>2, <1>4, <1>5 DEF OrderInv

-----------------------------------------------------------------------------
\* The types, the facts about the cache and those about the order together.
FullInv == CacheInv /\ OrderInv

\* Every step preserves the order, and plays forward if it plays.
LEMMA OrderStep ==
  FullInv /\ [Next]_vars =>
    OrderInv' /\ (played' # played => played' > played \/ ~lowd \/ jumped)
<1>. SUFFICES ASSUME FullInv, [Next]_vars
     PROVE  OrderInv' /\ (played' # played => played' > played \/ ~lowd \/ jumped)
  OBVIOUS
<1>. USE DEF FullInv
<1>1. TypeOK
  BY DEF CacheInv
<1>2. CASE DataPacket \/ RecoveryPacket
  BY <1>2, HandleKeepsOrder DEF DataPacket, RecoveryPacket
<1>3. CASE FlushPacket
  BY <1>1, <1>3, FlushPacketKeepsOrder
<1>4. CASE FlushEnd
  BY <1>1, <1>4, FlushEndKeepsOrder DEF FlushEnd
<1>5. ASSUME NEW start \in Missing, NEW end \in Held,
             RequestGap(start, end) \/ CountGap(start, end)
      PROVE  OrderInv' /\ played' = played
  <2>1. /\ UNCHANGED <<lowd, low, pos, packets, played, pc, jumped>>
        /\ pc = "scan"
    BY <1>5 DEF RequestGap, CountGap, NextGap
  <2>2. CacheOrder => CacheOrder'
    BY <2>1 DEF CacheOrder, PositionOf, Held
  <2>. QED  BY <2>1, <2>2 DEF OrderInv, Held
<1>6. ASSUME NEW start \in Missing, NEW end \in Held, GiveUpGap(start, end)
      PROVE  OrderInv' /\ played' = played
  BY <1>1, <1>6, GiveUpKeepsOrder DEF GiveUpGap, NextGap
<1>7. CASE ScanEnd
  <2>1. /\ UNCHANGED <<lowd, low, pos, packets, played, jumped>>
        /\ pc = "scan" /\ pc' = "flush" /\ cursor' = low
    BY <1>7 DEF ScanEnd, history
  <2>2. Dist(low, low) = 0 /\ low \in SeqNos /\ pos \in Nat
    BY <1>1 DEF Dist, TypeOK, SeqNos
  <2>3. \A sn \in Held : Dist(low, low) <= Dist(low, sn)
    <3>1. \A sn \in Held : sn \in SeqNos
      BY DEF Held
    <3>. QED  BY <2>2, <3>1, DistType
  <2>4. lowd /\ ~jumped => CacheOrder'
    BY <2>1, <2>2, <2>3, SequencerAssumption DEF OrderInv, CacheOrder, PositionOf, Held
  <2>. QED  BY <2>1, <2>4 DEF OrderInv
<1>8. CASE Restart
  <2>1. Held' = {}
    BY <1>8 DEF Restart, Held
  <2>. QED  BY <1>8, <2>1 DEF Restart, OrderInv
<1>9. CASE Timeout \/ Shutdown \/ Transmit \/ Silence \/ UNCHANGED vars
  <2>1. /\ UNCHANGED <<lowd, low, pos, packets, played, jumped>>
        /\ \/ pc = "select" /\ pc' \in {"scan", "stopped"}
           \/ pc' = pc /\ cursor' = cursor
        /\ pc' = "scan" => pc = "scan" \/ Held # {}
    BY <1>9 DEF Timeout, Shutdown, Transmit, Silence, vars, code, history, InRecovery
  <2>2. Held' = Held
    BY <2>1 DEF Held
  <2>3. CacheOrder => CacheOrder'
    BY <2>1, <2>2 DEF CacheOrder, PositionOf
  <2>. QED  BY <2>1, <2>2, <2>3 DEF OrderInv
<1>. QED
  BY <1>2, <1>3, <1>4, <1>5, <1>6, <1>7, <1>8, <1>9 DEF Next, Flush, Scan

\* A new sequencer has nothing in its cache.
LEMMA OrderInit == Init => FullInv
<1>. SUFFICES ASSUME Init PROVE OrderInv
  BY CacheInit DEF FullInv
<1>1. Held = {}
  BY DEF Init, Held
<1>. QED  BY <1>1 DEF Init, OrderInv

\* The strengthened invariant holds in every state of every behaviour.
LEMMA FullInvariant == Spec => []FullInv
<1>1. FullInv /\ [Next]_vars => FullInv'
  BY CacheStep, OrderStep DEF FullInv
<1>. QED  BY <1>1, OrderInit, PTL DEF Spec

\* Packets come out in the order of the stream until the sequencer is
\* restarted, or has jumped over a packet, wherever the seqnos wrap.
THEOREM PacketsInOrder == Spec => InOrder
<1>1. FullInv /\ [Next]_vars =>
        [played' # played => played' > played \/ ~lowd \/ jumped]_vars
  BY OrderStep
<1>. QED  BY <1>1, FullInvariant, PTL DEF Spec, InOrder

\* A cached packet is the one its seqno stands for, ahead of low and never of
\* another lap of the sequence numbers.
THEOREM CacheIsOfThisLap == Spec => []CacheMatchesStream
<1>1. FullInv => CacheMatchesStream
  <2>1. SUFFICES ASSUME FullInv, lowd, ~jumped, pc = "select", NEW sn \in Held
        PROVE  packets[sn] > pos /\ packets[sn] = PositionOf(sn)
    BY DEF CacheMatchesStream
  <2>2. sn \in SeqNos /\ low \in SeqNos /\ sn # low /\ pos \in Nat
    BY <2>1 DEF Held, FullInv, CacheInv, TypeOK, NothingHeldBack
  <2>3. packets[sn] = PositionOf(sn)
    BY <2>1 DEF FullInv, OrderInv, CacheOrder
  <2>4. Dist(low, sn) \in Nat \ {0}
    BY <2>2, DistType
  <2>. QED  BY <2>2, <2>3, <2>4 DEF PositionOf
<1>. QED  BY <1>1, FullInvariant, PTL

-----------------------------------------------------------------------------
(***************************************************************************)
(* The refinement: the sequencer implements the abstract playout, and goes *)
(* back in the stream no further than the network does.                    *)
(***************************************************************************)
Ahead == {packets[sn] : sn \in Held}

\* The abstract variables have values the abstract specification allows.
LEMMA PlayoutTypes ==
  TypeOK => Turn \in Nat /\ played \in Int /\ Ahead \subseteq Nat
<1>. SUFFICES ASSUME TypeOK PROVE Turn \in Nat /\ played \in Int /\ Ahead \subseteq Nat
  OBVIOUS
<1>1. Turn \in Nat
  BY PositionType DEF Turn, TypeOK
<1>2. played \in Int
  BY DEF TypeOK, Absent
<1>3. \A sn \in Held : packets[sn] \in Nat
  BY DEF Held, TypeOK
<1>. QED  BY <1>1, <1>2, <1>3 DEF Ahead

\* The mapping has these types behind a step, too.
LEMMA PlayoutTypesNext ==
  TypeOK' => Turn' \in Nat /\ played' \in Int /\ Ahead' \subseteq Nat
<1>1. TypeOK' => (Turn \in Nat /\ played \in Int /\ Ahead \subseteq Nat)'
  BY PlayoutTypes, PTL
<1>. QED  BY <1>1

\* The first packet, of the data connection, is played at once.
LEMMA FirstStarts ==
  ASSUME FullInv, ~lowd, NEW i \in Positions, NEW recovery, Handle(i, recovery)
  PROVE  Playing!Start /\ ~recovery /\ played' = i
<1>. DEFINE sn == SeqnoAt(i)
<1>1. i \in Nat /\ sn \in SeqNos /\ SeqnoDelta(sn, sn) = 0
  BY SeqnoAtType, SeqnoDeltaSelf, SequencerAssumption DEF Positions
<1>. HIDE DEF sn
<1>2. /\ low' = sn /\ pos' = i /\ played' = i /\ lowd' = TRUE /\ jumped' = jumped
      /\ pc' = "flush" /\ cursor' = Plus(sn, 1) /\ packets' = packets
  BY <1>1 DEF Handle, sn
<1>3. Dist(sn, Plus(sn, 1)) = 1
  BY <1>1, SeqNoAssumption DEF Dist, Plus, SeqNos
<1>4. Turn' = i + 1
  BY <1>2, <1>3 DEF Turn, PositionOf
<1>5. Ahead' = Ahead
  BY <1>2 DEF Ahead, Held
<1>6. ~recovery
  BY DEF Handle, Accepts
<1>. QED  BY <1>1, <1>2, <1>4, <1>5, <1>6 DEF Playing!Start, Ahead

\* A later packet is played in its turn, waits for it, or is dropped.
LEMMA HandlePlays ==
  ASSUME FullInv, lowd, ~jumped, NEW i \in Positions, NEW recovery,
         Near(i), Handle(i, recovery)
  PROVE  Playing!Play \/ (\E j \in Ahead' : Playing!Wait(j)) \/ UNCHANGED Playing!vars
<1>. DEFINE sn == SeqnoAt(i)
<1>. USE DEF FullInv
<1>1. /\ i \in Nat /\ sn \in SeqNos /\ pos \in Nat /\ low \in SeqNos
      /\ low = SeqnoAt(pos) /\ pc = "select" /\ CacheOrder
  BY SeqnoAtType, SequencerAssumption DEF Positions, CacheInv, TypeOK, OrderInv, Handle
<1>2. lowd' = TRUE /\ low' = low /\ pos' = pos /\ jumped' = jumped /\ Turn = pos
  BY <1>1 DEF Handle, Turn
<1>3. /\ SeqnoDelta(sn, low) = i - pos
      /\ i >= pos => Dist(low, sn) = i - pos
      /\ sn = low => i = pos
      /\ i <= pos + Window
  BY <1>1, SeqnoDeltaExact, SequencerAssumption, SeqNoAssumption DEF Near
<1>. HIDE DEF sn
<1>4. CASE /\ sn = low /\ played' = i /\ pc' = "flush"
           /\ cursor' = Plus(sn, 1) /\ packets' = packets
  <2>1. Dist(low, Plus(low, 1)) = 1
    BY <1>1, SeqNoAssumption DEF Dist, Plus, SeqNos
  <2>2. Turn' = pos + 1
    BY <1>2, <1>4, <2>1 DEF Turn, PositionOf
  <2>3. \A x \in Held : packets[x] # pos
    <3>1. ASSUME NEW x \in Held PROVE packets[x] # pos
      <4>1. x \in SeqNos /\ x # low /\ packets[x] = pos + Dist(low, x)
        BY <1>1 DEF Held, CacheInv, NothingHeldBack, CacheOrder, PositionOf
      <4>2. Dist(low, x) \in Nat \ {0}
        BY <1>1, <4>1, DistType
      <4>. QED  BY <1>1, <4>1, <4>2
    <3>. QED  BY <3>1
  <2>4. Ahead' = Ahead \ {pos}
    BY <1>4, <2>3 DEF Ahead, Held
  <2>. QED  BY <1>2, <1>3, <1>4, <2>2, <2>4 DEF Playing!Play, Ahead
<1>5. CASE UNCHANGED <<played, pc, cursor, packets>>
  <2>1. Turn' = Turn /\ Ahead' = Ahead
    BY <1>2, <1>5 DEF Turn, PositionOf, Ahead, Held
  <2>. QED  BY <1>2, <1>5, <2>1 DEF Playing!vars, Ahead
<1>6. CASE /\ sn # low /\ SeqnoDelta(sn, low) >= 0
           /\ packets' = [packets EXCEPT ![sn] = i]
           /\ UNCHANGED <<played, pc, cursor>>
  <2>1. Dist(low, sn) = i - pos /\ i >= pos
    BY <1>1, <1>3, <1>6
  <2>2. i > pos
    BY <1>1, <1>6, <2>1, DistType
  <2>3. packets'[sn] = i /\ \A x \in SeqNos \ {sn} : packets'[x] = packets[x]
    BY <1>1, <1>6 DEF CacheInv, TypeOK
  <2>4. Held' = Held \union {sn}
    BY <1>1, <2>3 DEF Held, Absent
  <2>5. sn \in Held => packets[sn] = i
    BY <1>1, <2>1 DEF CacheOrder, PositionOf
  <2>6. Ahead' = Ahead \union {i}
    <3>1. \A x \in Held : x \in SeqNos
      BY DEF Held
    <3>2. \A x \in Held : packets'[x] = packets[x]
      BY <2>3, <2>5, <3>1
    <3>3. Ahead' = {packets'[x] : x \in Held'}
      BY DEF Ahead
    <3>. QED  BY <2>3, <2>4, <3>2, <3>3 DEF Ahead
  <2>7. Turn' = pos
    BY <1>1, <1>2, <1>6 DEF Turn
  <2>8. Playing!Wait(i) /\ i \in Ahead'
    BY <1>2, <1>6, <2>2, <2>6, <2>7 DEF Playing!Wait, Ahead
  <2>. QED  BY <2>8
<1>. QED  BY <1>2, <1>4, <1>5, <1>6 DEF Handle, sn

\* flushCached plays the packet whose turn it is.
LEMMA FlushPlays ==
  ASSUME FullInv, lowd, ~jumped, FlushPacket
  PROVE  Playing!Play
<1>. USE DEF FullInv
<1>1. /\ cursor \in Held /\ cursor \in SeqNos /\ low \in SeqNos /\ pos \in Nat
      /\ pc = "flush" /\ CacheOrder /\ TypeOK
  BY DEF FlushPacket, Held, CacheInv, TypeOK, OrderInv
<1>2. /\ UNCHANGED <<lowd, low, pos, pc, jumped>>
      /\ played' = packets[cursor] /\ cursor' = Plus(cursor, 1)
      /\ packets' = [packets EXCEPT ![cursor] = Absent]
  BY DEF FlushPacket
<1>3. /\ packets[cursor] = PositionOf(cursor) /\ Turn = PositionOf(cursor)
      /\ Dist(low, cursor) \in Nat /\ Dist(low, cursor) <= Window
  BY <1>1, DistType DEF CacheOrder, Turn
<1>4. Dist(low, Plus(cursor, 1)) = Dist(low, cursor) + 1
  BY <1>1, <1>3, SeqNoAssumption, SequencerAssumption DEF Dist, Plus, SeqNos
<1>5. Turn' = Turn + 1
  BY <1>1, <1>2, <1>3, <1>4 DEF Turn, PositionOf
<1>6. Held' = Held \ {cursor} /\ \A x \in Held' : packets'[x] = packets[x]
  BY <1>1, <1>2 DEF Held, TypeOK
<1>7. \A x \in Held \ {cursor} : packets[x] # packets[cursor]
  <2>1. ASSUME NEW x \in Held, x # cursor PROVE packets[x] # packets[cursor]
    <3>1. x \in SeqNos /\ packets[x] = pos + Dist(low, x)
      BY <1>1 DEF Held, CacheOrder, PositionOf
    <3>2. Dist(low, x) # Dist(low, cursor)
      BY <1>1, <2>1, <3>1, SeqNoAssumption DEF Dist, SeqNos
    <3>. QED  BY <1>1, <1>3, <3>1, <3>2, DistType DEF PositionOf
  <2>. QED  BY <2>1
<1>8. Ahead' = Ahead \ {packets[cursor]}
  <2>1. Ahead' = {packets'[x] : x \in Held'}
    BY DEF Ahead
  <2>. QED  BY <1>1, <1>6, <1>7, <2>1 DEF Ahead
<1>. QED  BY <1>1, <1>2, <1>3, <1>5, <1>8 DEF Playing!Play, Ahead

\* A gap that is given up is skipped to reach the first packet that waits, or
\* breaks the order.
LEMMA GiveUpSkips ==
  ASSUME FullInv, lowd, ~jumped, NEW start \in Missing, NEW end \in Held,
         GiveUpGap(start, end)
  PROVE  (\E i \in Ahead : Playing!Skip(i)) \/ Playing!Break \/ UNCHANGED Playing!vars
<1>. USE DEF FullInv
<1>1. /\ start \in SeqNos /\ end \in SeqNos /\ low \in SeqNos /\ pos \in Nat
      /\ Dist(low, end) \in Nat /\ pc = "scan" /\ pc' = pc /\ CacheOrder
  <2>1. low \in SeqNos /\ pos \in Nat
    BY DEF CacheInv, TypeOK
  <2>2. start \in SeqNos /\ end \in SeqNos
    BY GapType
  <2>. QED  BY <2>1, <2>2, DistType DEF OrderInv, GiveUpGap, NextGap
<1>2. /\ pos' = PositionOf(end) /\ Turn = pos /\ Turn' = PositionOf(end)
      /\ UNCHANGED <<lowd, played>>
  BY <1>1 DEF GiveUpGap, NextGap, Turn, PositionOf
<1>3. \A x \in SeqNos : packets'[x] = packets[x]
  <2>1. Span(start, end) \subseteq Missing
    BY DEF GiveUpGap, NextGap
  <2>2. \A x \in SeqNos :
          packets'[x] = IF x \in Span(start, end) THEN Absent ELSE packets[x]
    BY DEF GiveUpGap
  <2>. QED  BY <2>1, <2>2 DEF Missing, Held
<1>4. Ahead' = Ahead
  <2>1. Held' = Held /\ \A x \in Held : packets'[x] = packets[x]
    BY <1>3 DEF Held
  <2>2. Ahead' = {packets'[x] : x \in Held'}
    BY DEF Ahead
  <2>. QED  BY <2>1, <2>2 DEF Ahead
<1>5. CASE jumped'
  <2>1. Turn' \in Nat
    BY <1>1, <1>2 DEF PositionOf
  <2>. QED  BY <1>2, <1>4, <1>5, <2>1 DEF Playing!Break, Ahead
<1>6. CASE ~jumped'
  <2>0. jumped' = jumped
    BY <1>6 DEF CacheInv, TypeOK, GiveUpGap
  <2>1. packets[end] = PositionOf(end) /\ PositionOf(end) \in Ahead
    BY <1>1 DEF CacheOrder, Ahead
  <2>2. ASSUME NEW x \in Held PROVE packets[x] >= PositionOf(end)
    <3>1. x \in SeqNos /\ x \notin Span(low, end) /\ packets[x] = pos + Dist(low, x)
      BY <1>1, <1>6 DEF GiveUpGap, Held, CacheOrder, PositionOf
    <3>2. Dist(low, x) \in Nat /\ Dist(low, x) >= Dist(low, end)
      BY <1>1, <3>1, DistType DEF Span
    <3>. QED  BY <1>1, <3>1, <3>2 DEF PositionOf
  <2>3. \A j \in Ahead : j >= PositionOf(end)
    BY <2>2 DEF Ahead
  <2>4. CASE PositionOf(end) > pos
    <3>1. Playing!Skip(PositionOf(end))
      BY <1>2, <1>4, <2>1, <2>0, <2>3, <2>4 DEF Playing!Skip, Ahead
    <3>. QED  BY <2>1, <3>1
  <2>5. CASE PositionOf(end) = pos
    BY <1>2, <1>4, <2>0, <2>5 DEF Playing!vars, Ahead
  <2>. QED  BY <1>1, <2>4, <2>5 DEF PositionOf
<1>. QED  BY <1>5, <1>6 DEF GiveUpGap, TypeOK

-----------------------------------------------------------------------------
\* Every step of the sequencer is a step of the playout, or none.
LEMMA PlayoutStep ==
  FullInv /\ TypeOK' /\ [Next]_vars => [Playing!Next]_(Playing!vars)
<1>. SUFFICES ASSUME FullInv, TypeOK', [Next]_vars
     PROVE  [Playing!Next]_(Playing!vars)
  OBVIOUS
<1>. USE DEF FullInv
<1>1. TypeOK
  BY DEF CacheInv
<1>2. CASE Restart
  <2>1. Turn' = 0 /\ Ahead' = {} /\ pc = "select"
    BY <1>2 DEF Restart, Turn, Ahead, Held
  <2>2. Playing!Restart
    BY <1>2, <2>1 DEF Restart, Playing!Restart, Ahead
  <2>. QED  BY <2>2 DEF Playing!Next
<1>3. CASE Timeout \/ Shutdown \/ Transmit \/ Silence \/ UNCHANGED vars
  <2>1. /\ UNCHANGED <<lowd, low, pos, packets, played, jumped>>
        /\ \/ pc = "select" /\ pc' \in {"scan", "stopped"}
           \/ pc' = pc /\ cursor' = cursor
    BY <1>3 DEF Timeout, Shutdown, Transmit, Silence, vars, code, history
  <2>2. Turn' = Turn /\ Ahead' = Ahead
    BY <2>1 DEF Turn, PositionOf, Ahead, Held
  <2>. QED  BY <2>1, <2>2 DEF Playing!vars, Ahead
<1>4. CASE ~lowd /\ (DataPacket \/ RecoveryPacket)
  <2>1. Playing!Start
    BY <1>4, FirstStarts DEF DataPacket, RecoveryPacket
  <2>. QED  BY <2>1 DEF Playing!Next
<1>5. CASE ~lowd /\ (Flush \/ Scan)
  <2>1. pc \in {"select", "stopped"}
    BY <1>5 DEF OrderInv
  <2>. QED  BY <1>5, <2>1 DEF Flush, Scan, FlushPacket, FlushEnd, ScanEnd, RequestGap,
                               GiveUpGap, CountGap, NextGap
<1>6. CASE lowd /\ jumped /\ (DataPacket \/ RecoveryPacket \/ Flush \/ Scan)
  <2>1. lowd' = lowd /\ jumped' = TRUE
    <3>1. CASE DataPacket \/ RecoveryPacket
      <4>1. \E i \in Positions, recovery \in BOOLEAN : Handle(i, recovery)
        BY <3>1 DEF DataPacket, RecoveryPacket
      <4>. QED  BY <1>6, <4>1 DEF Handle
    <3>2. CASE Flush
      BY <1>6, <3>2 DEF Flush, FlushPacket, FlushEnd
    <3>3. CASE ScanEnd
      BY <1>6, <3>3 DEF ScanEnd, history
    <3>4. ASSUME NEW start \in Missing, NEW end \in Held,
                 RequestGap(start, end) \/ GiveUpGap(start, end) \/ CountGap(start, end)
          PROVE  lowd' = lowd /\ jumped' = TRUE
      BY <1>6, <3>4 DEF RequestGap, GiveUpGap, CountGap, NextGap
    <3>. QED  BY <1>6, <3>1, <3>2, <3>3, <3>4 DEF Scan
  <2>2. Turn' \in Nat /\ played' \in Int /\ Ahead' \subseteq Nat
    BY PlayoutTypesNext
  <2>. QED  BY <1>6, <2>1, <2>2 DEF Playing!Disorder, Playing!Next, Ahead
<1>7. CASE lowd /\ ~jumped /\ (DataPacket \/ RecoveryPacket)
  <2>1. Playing!Play \/ (\E j \in Ahead' : Playing!Wait(j)) \/ UNCHANGED Playing!vars
    BY <1>7, HandlePlays DEF DataPacket, RecoveryPacket
  <2>. QED  BY <2>1 DEF Playing!Next, Ahead
<1>8. CASE lowd /\ ~jumped /\ Flush
  <2>1. CASE FlushPacket
    BY <1>8, <2>1, FlushPlays DEF Playing!Next
  <2>2. CASE FlushEnd
    <3>1. /\ pc = "flush" /\ pc' = "select" /\ pos' = PositionOf(cursor)
          /\ UNCHANGED <<lowd, packets, played, jumped>>
      BY <2>2 DEF FlushEnd, PositionOf
    <3>2. Turn' = Turn /\ Ahead' = Ahead
      BY <3>1 DEF Turn, Ahead, Held
    <3>. QED  BY <3>1, <3>2 DEF Playing!vars, Ahead
  <2>. QED  BY <1>8, <2>1, <2>2 DEF Flush
<1>9. CASE lowd /\ ~jumped /\ Scan
  <2>1. CASE ScanEnd
    <3>1. /\ UNCHANGED <<lowd, low, pos, packets, played, jumped>>
          /\ pc = "scan" /\ pc' = "flush" /\ cursor' = low
      BY <2>1 DEF ScanEnd, history
    <3>2. PositionOf(low) = pos /\ Turn = pos
      BY <1>1, <3>1, SeqNoAssumption DEF PositionOf, Dist, TypeOK, SeqNos, Turn
    <3>3. Turn' = Turn /\ Ahead' = Ahead
      BY <3>1, <3>2 DEF Turn, PositionOf, Ahead, Held
    <3>. QED  BY <3>1, <3>3 DEF Playing!vars, Ahead
  <2>2. ASSUME NEW start \in Missing, NEW end \in Held,
               RequestGap(start, end) \/ CountGap(start, end)
        PROVE  UNCHANGED Playing!vars
    <3>1. /\ UNCHANGED <<lowd, low, pos, packets, played, jumped>>
          /\ pc = "scan" /\ pc' = pc
      BY <2>2 DEF RequestGap, CountGap, NextGap
    <3>2. Turn' = Turn /\ Ahead' = Ahead
      BY <3>1 DEF Turn, Ahead, Held
    <3>. QED  BY <3>1, <3>2 DEF Playing!vars, Ahead
  <2>3. ASSUME NEW start \in Missing, NEW end \in Held, GiveUpGap(start, end)
        PROVE  [Playing!Next]_(Playing!vars)
    <3>1. (\E i \in Ahead : Playing!Skip(i)) \/ Playing!Break \/ UNCHANGED Playing!vars
      BY <1>9, <2>3, GiveUpSkips
    <3>. QED  BY <3>1 DEF Playing!Next, Ahead
  <2>. QED  BY <1>9, <2>1, <2>2, <2>3 DEF Scan
<1>. QED
  BY <1>1, <1>2, <1>3, <1>4, <1>5, <1>6, <1>7, <1>8, <1>9 DEF Next, TypeOK

\* The sequencer implements the abstract playout: whatever is lost, late,
\* duplicated or resent, each packet is played in its turn or given up to
\* reach the first one that waits, and no packet of the cache is lost, until
\* remove jumps over one.
THEOREM ImplementsPlayout == Spec => PlaysInTurn
<1>1. Init => Playing!Init
  <2>1. Init => Held = {}
    BY DEF Init, Held
  <2>. QED  BY <2>1 DEF Init, Playing!Init, Turn, Absent
<1>2. FullInv /\ TypeOK' /\ [Next]_vars => [Playing!Next]_(Playing!vars)
  BY PlayoutStep
<1>. QED  BY <1>1, <1>2, FullInvariant, TypeCorrect, PTL DEF Spec, PlaysInTurn, Playing!Spec

\* After a restart the sequencer goes back in the stream no further than the
\* network has held up a data packet.
THEOREM RewindsNoFurther == Spec => NeverRewinds
<1>1. FullInv /\ [Next]_vars =>
        [played' < played => jumped \/ played' >= sent - Reorder]_vars
  <2>1. SUFFICES ASSUME FullInv, [Next]_vars, played' < played, ~jumped
        PROVE  played' >= sent - Reorder
    OBVIOUS
  <2>2. played \in Int /\ played' \in Int
    BY <2>1, PlayoutTypes, PlayoutTypesNext, TypeStep DEF FullInv, CacheInv
  <2>3. played' # played /\ ~(played' > played)
    BY <2>1, <2>2
  <2>4. ~lowd
    BY <2>1, <2>3, OrderStep
  <2>5. PICK i \in Positions :
          \/ i >= sent - Reorder /\ Handle(i, FALSE)
          \/ Handle(i, TRUE)
    <3>1. pc \in {"select", "stopped"}
      BY <2>1, <2>4 DEF FullInv, OrderInv
    <3>2. ~Flush /\ ~Scan
      BY <3>1
         DEF Flush, FlushPacket, FlushEnd, Scan, ScanEnd, RequestGap, GiveUpGap, CountGap, NextGap
    <3>3. ~UNCHANGED vars
      BY <2>3 DEF vars, history
    <3>4. CASE Timeout \/ Restart \/ Shutdown \/ Transmit \/ Silence
      <4>1. played' = played
        BY <3>4 DEF Timeout, Restart, Shutdown, Transmit, Silence, history
      <4>. QED  BY <2>3, <4>1
    <3>5. CASE DataPacket
      BY <3>5 DEF DataPacket
    <3>6. CASE RecoveryPacket
      BY <3>6 DEF RecoveryPacket
    <3>. QED  BY <2>1, <3>2, <3>3, <3>4, <3>5, <3>6 DEF Next
  <2>. QED  BY <2>1, <2>4, <2>5, FirstStarts
<1>. QED  BY <1>1, FullInvariant, PTL DEF Spec, NeverRewinds

-----------------------------------------------------------------------------
(***************************************************************************)
(* sendReRequests, the walk of the sequencer along its gaps: it asks only  *)
(* for what is missing, and gives up only what it has asked for.           *)
(***************************************************************************)

(***************************************************************************)
(* What sendReRequests relies on as long as remove has not jumped over a   *)
(* packet.  The cached packets are ones the source has sent.  The walk     *)
(* stands at low or behind a cached packet, and at least as many cached    *)
(* packets as it still has to pass are in front of it, so it never goes    *)
(* round to the seqnos that are behind low.                                *)
(***************************************************************************)
From(c) == {h \in Held : Dist(low, h) >= Dist(low, c)}

Walk ==
  /\ entries <= Cardinality(From(cursor))
  /\ cursor = low \/ \E h \in Held : cursor = Plus(h, 1)

WalkInv ==
  /\ \A h \in Held : packets[h] < sent
  /\ pc = "scan" /\ ~jumped => Walk

(***************************************************************************)
(* What the retries say of the requests.  Only a packet that is missing    *)
(* between low and a cached packet has retries, the packets of one gap     *)
(* have the same number of them, and each retry count a packet has reached *)
(* is one it has been asked for at, if it is one of RequestAt.             *)
(***************************************************************************)
Below(x) == \E h \in Held : Dist(low, x) < Dist(low, h)

Base == IF pc = "flush" THEN cursor ELSE low

Counts ==
  /\ \A x \in Missing : retries[x] > 0 => Below(x) /\ Dist(low, Base) <= Dist(low, x)
  /\ \A x, y \in Missing :
       /\ Dist(low, Base) <= Dist(low, x) /\ Dist(low, x) < Dist(low, y) /\ Below(y)
       /\ \A h \in Held : Dist(low, h) < Dist(low, x) \/ Dist(low, y) < Dist(low, h)
       => retries[x] = retries[y]
  /\ \A x \in Missing : \A t \in RequestAt :
       retries[x] >= t => <<PositionOf(x), t>> \in asked

AskInv ==
  /\ ~lowd => \A x \in SeqNos : retries[x] = 0
  /\ lowd /\ ~jumped => Counts

\* The distance from one seqno tells the distance from another.
LEMMA DistShift ==
  ASSUME NEW a \in SeqNos, NEW b \in SeqNos, NEW x \in SeqNos
  PROVE  Dist(b, x) = IF Dist(a, b) <= Dist(a, x) THEN Dist(a, x) - Dist(a, b)
                      ELSE Dist(a, x) - Dist(a, b) + Modulus
  BY SeqNoAssumption DEF Dist, SeqNos

\* A seqno is at no distance from itself.
LEMMA DistSelf == \A a \in SeqNos : Dist(a, a) = 0
  BY SeqNoAssumption DEF Dist, SeqNos

\* Seqnos at the same distance are the same.
LEMMA DistSame ==
  ASSUME NEW a \in SeqNos, NEW x \in SeqNos, NEW y \in SeqNos, Dist(a, x) = Dist(a, y)
  PROVE  x = y
  BY SeqNoAssumption DEF Dist, SeqNos

\* The next seqno is one further away, unless it is the one distances start from.
LEMMA DistNext ==
  ASSUME NEW a \in SeqNos, NEW x \in SeqNos, Dist(a, x) < Modulus - 1
  PROVE  Plus(x, 1) \in SeqNos /\ Dist(a, Plus(x, 1)) = Dist(a, x) + 1
  BY SeqNoAssumption DEF Dist, Plus, SeqNos

\* Who goes from c to s either keeps in front of a, or passes the seqno behind it.
LEMMA RoundPassesLast ==
  ASSUME NEW a \in SeqNos, NEW c \in SeqNos, NEW s \in SeqNos
  PROVE  \/ Dist(a, s) = Dist(a, c) + Dist(c, s)
         \/ \E y \in SeqNos : Dist(a, y) = Modulus - 1 /\ Dist(c, y) < Dist(c, s)
<1>. DEFINE y == IF a = 0 THEN Modulus - 1 ELSE a - 1
<1>1. y \in SeqNos /\ Dist(a, y) = Modulus - 1
  BY SeqNoAssumption DEF Dist, SeqNos
<1>2. Dist(a, s) = Dist(a, c) + Dist(c, s) \/ Dist(c, y) < Dist(c, s)
  BY SeqNoAssumption DEF Dist, SeqNos
<1>. QED  BY <1>1, <1>2

\* There are no more seqnos on the way than their distance says.
LEMMA SpanSize ==
  ASSUME NEW a \in SeqNos, NEW b \in SeqNos
  PROVE  /\ IsFiniteSet(Span(a, b))
         /\ Cardinality(Span(a, b)) \in Nat
         /\ Cardinality(Span(a, b)) <= Dist(a, b)
<1>. DEFINE T == 0 .. (Dist(a, b) - 1)
            f == [x \in Span(a, b) |-> Dist(a, x)]
<1>1. Dist(a, b) \in Nat
  BY DistType
<1>2. IsFiniteSet(T) /\ Cardinality(T) = Dist(a, b)
  <2>. DEFINE e == Dist(a, b) - 1
  <2>1. e \in Int /\ (IF 0 > e THEN 0 ELSE e - 0 + 1) = Dist(a, b)
    BY <1>1
  <2>. HIDE DEF e
  <2>2. IsFiniteSet(0 .. e) /\ Cardinality(0 .. e) = IF 0 > e THEN 0 ELSE e - 0 + 1
    BY <2>1, FS_Interval
  <2>3. T = 0 .. e
    BY DEF e
  <2>. QED  BY <2>1, <2>2, <2>3
<1>3. \A x \in Span(a, b) : x \in SeqNos /\ Dist(a, x) \in T
  <2>1. SUFFICES ASSUME NEW x \in Span(a, b) PROVE x \in SeqNos /\ Dist(a, x) \in T
    OBVIOUS
  <2>2. x \in SeqNos /\ Dist(a, x) < Dist(a, b)
    BY DEF Span
  <2>3. Dist(a, x) \in Nat
    BY <2>2, DistType
  <2>. QED  BY <1>1, <2>2, <2>3
<1>4. f \in [Span(a, b) -> T]
  BY <1>3
<1>5. \A x, y \in Span(a, b) : f[x] = f[y] => x = y
  BY <1>3, DistSame
<1>6. f \in Injection(Span(a, b), T)
  BY <1>4, <1>5 DEF Injection, IsInjective
<1>7. IsFiniteSet(Span(a, b)) /\ Cardinality(Span(a, b)) <= Cardinality(T)
  BY <1>2, <1>6, FS_Injection
<1>. QED  BY <1>2, <1>7, FS_CardinalityType

\* Any part of the cache is finite.
LEMMA HeldParts ==
  ASSUME NEW S, S \subseteq SeqNos
  PROVE  IsFiniteSet(S) /\ Cardinality(S) \in Nat
<1>1. IsFiniteSet(SeqNos)
  BY SeqNoAssumption, FS_Interval DEF SeqNos
<1>. QED  BY <1>1, FS_Subset, FS_CardinalityType

-----------------------------------------------------------------------------
\* A turn of the walk leads forward, through cached packets to the first that
\* is missing and on to the cached packet behind the gap, without going round.
LEMMA WalkAhead ==
  ASSUME TypeOK, CacheOrder, Walk, NEW start \in Missing, NEW end \in Held,
         NextGap(start, end)
  PROVE  /\ Dist(low, cursor) + Dist(cursor, start) = Dist(low, start)
         /\ Dist(low, start) < Dist(low, end)
         /\ \A x \in SeqNos :
              x \in Span(start, end) <=>
                Dist(low, start) <= Dist(low, x) /\ Dist(low, x) < Dist(low, end)
         /\ \A h \in Held : Dist(low, h) < Dist(low, start)
                            \/ Dist(low, end) <= Dist(low, h)
<1>1. /\ low \in SeqNos /\ cursor \in SeqNos /\ start \in SeqNos /\ end \in SeqNos
      /\ start \notin Held /\ entries \in Nat
      /\ \A h \in Held : h \in SeqNos /\ Dist(low, h) <= Window
  BY DEF TypeOK, Missing, Held, CacheOrder
<1>2. \A x, y \in SeqNos : Dist(x, y) \in 0 .. (Modulus - 1)
  BY DistType
<1>3. Window < Modulus - 1 /\ Window \in Nat /\ Modulus \in Nat
  BY SeqNoAssumption, SequencerAssumption
<1>4. Dist(low, cursor) + Dist(cursor, start) = Dist(low, start)
  <2>1. SUFFICES ASSUME NEW y \in SeqNos, Dist(low, y) = Modulus - 1,
                        Dist(cursor, y) < Dist(cursor, start)
        PROVE  FALSE
    BY <1>1, RoundPassesLast
  <2>2. y \in Held
    BY <2>1 DEF NextGap, Span
  <2>. QED  BY <1>1, <1>3, <2>1, <2>2
<1>5. PICK h \in From(cursor) : h \notin Span(cursor, start)
  <2>1. SUFFICES ASSUME From(cursor) \subseteq Span(cursor, start) PROVE FALSE
    OBVIOUS
  <2>2. /\ IsFiniteSet(Span(cursor, start))
        /\ Cardinality(Span(cursor, start)) \in Nat
        /\ Cardinality(Span(cursor, start)) <= Dist(cursor, start)
    BY <1>1, SpanSize
  <2>3. Cardinality(From(cursor)) <= Cardinality(Span(cursor, start))
    BY <2>1, <2>2, FS_Subset
  <2>4. Cardinality(From(cursor)) \in Nat
    BY <1>1, HeldParts DEF From
  <2>5. entries <= Cardinality(From(cursor)) /\ Dist(cursor, start) < entries
    BY DEF Walk, NextGap
  <2>. QED  BY <1>1, <1>2, <2>2, <2>3, <2>4, <2>5
<1>6. h \in Held /\ h \in SeqNos /\ Dist(low, start) < Dist(low, h)
  <2>1. h \in Held /\ h \in SeqNos /\ Dist(low, cursor) <= Dist(low, h)
    BY <1>1, <1>5 DEF From
  <2>2. ~(Dist(cursor, h) < Dist(cursor, start))
    BY <1>5, <2>1 DEF Span
  <2>3. Dist(cursor, h) = Dist(low, h) - Dist(low, cursor)
    BY <1>1, <2>1, DistBetween
  <2>4. Dist(low, h) # Dist(low, start)
    BY <1>1, <2>1, DistSame
  <2>. QED  BY <1>1, <1>2, <1>4, <2>1, <2>2, <2>3, <2>4
<1>7. \A x \in SeqNos :
        Dist(start, x) = IF Dist(low, start) <= Dist(low, x)
                         THEN Dist(low, x) - Dist(low, start)
                         ELSE Dist(low, x) - Dist(low, start) + Modulus
  BY <1>1, DistShift
<1>8. \A x \in SeqNos : Dist(start, x) < Dist(start, end) => x \notin Held
  BY DEF NextGap, Span, Missing
<1>9. Dist(low, start) < Dist(low, end)
  <2>1. Dist(low, end) # Dist(low, start)
    BY <1>1, DistSame
  <2>2. ~(Dist(start, h) < Dist(start, end))
    BY <1>6, <1>8
  <2>. QED  BY <1>1, <1>2, <1>3, <1>6, <1>7, <2>1, <2>2
<1>10. ASSUME NEW x \in SeqNos
       PROVE  Dist(start, x) < Dist(start, end) <=>
                Dist(low, start) <= Dist(low, x) /\ Dist(low, x) < Dist(low, end)
  BY <1>1, <1>2, <1>3, <1>7, <1>9
<1>11. \A g \in Held : Dist(low, g) < Dist(low, start) \/ Dist(low, end) <= Dist(low, g)
  BY <1>1, <1>2, <1>8, <1>10
<1>. QED  BY <1>4, <1>9, <1>10, <1>11 DEF Span

\* Behind the gap there are still as many cached packets as the walk counts.
LEMMA WalkCounts ==
  ASSUME TypeOK, CacheOrder, Walk, NEW start \in Missing, NEW end \in Held,
         NextGap(start, end)
  PROVE  entries' <= Cardinality({h \in Held : Dist(low, end) < Dist(low, h)})
<1>. DEFINE G == {h \in Held : Dist(low, end) < Dist(low, h)}
            passed == Span(cursor, start) \union {end}
<1>1. /\ low \in SeqNos /\ cursor \in SeqNos /\ start \in SeqNos /\ end \in SeqNos
      /\ entries \in Nat /\ \A h \in Held : h \in SeqNos
  BY DEF TypeOK, Missing, Held
<1>2. \A x, y \in SeqNos : Dist(x, y) \in Nat
  BY DistType
<1>3. /\ Dist(low, cursor) + Dist(cursor, start) = Dist(low, start)
      /\ \A h \in Held : Dist(low, h) < Dist(low, start)
                         \/ Dist(low, end) <= Dist(low, h)
  BY WalkAhead
<1>4. From(cursor) \subseteq G \union passed
  <2>1. SUFFICES ASSUME NEW h \in From(cursor), h \notin Span(cursor, start), h # end
        PROVE  Dist(low, end) < Dist(low, h)
    BY DEF From
  <2>2. h \in Held /\ h \in SeqNos /\ Dist(low, cursor) <= Dist(low, h)
    BY <1>1 DEF From
  <2>3. ~(Dist(cursor, h) < Dist(cursor, start))
    BY <2>1, <2>2 DEF Span
  <2>4. Dist(cursor, h) = Dist(low, h) - Dist(low, cursor)
    BY <1>1, <2>2, DistBetween
  <2>5. Dist(low, h) # Dist(low, end)
    BY <1>1, <2>1, <2>2, DistSame
  <2>6. Dist(low, end) <= Dist(low, h)
    BY <1>1, <1>2, <1>3, <2>2, <2>3, <2>4
  <2>. QED  BY <1>1, <1>2, <2>2, <2>5, <2>6
<1>5. /\ IsFiniteSet(passed) /\ Cardinality(passed) \in Nat
      /\ Cardinality(passed) <= Dist(cursor, start) + 1
  <2>1. /\ IsFiniteSet(Span(cursor, start))
        /\ Cardinality(Span(cursor, start)) \in Nat
        /\ Cardinality(Span(cursor, start)) <= Dist(cursor, start)
    BY <1>1, SpanSize
  <2>2. /\ IsFiniteSet(passed)
        /\ Cardinality(passed) = IF end \in Span(cursor, start)
                                 THEN Cardinality(Span(cursor, start))
                                 ELSE Cardinality(Span(cursor, start)) + 1
    BY <2>1, FS_AddElement
  <2>3. Dist(cursor, start) \in Nat
    BY <1>1, <1>2
  <2>. QED  BY <2>1, <2>2, <2>3
<1>6. IsFiniteSet(G) /\ Cardinality(G) \in Nat
  <2>1. G \subseteq SeqNos
    BY <1>1
  <2>. QED  BY <2>1, HeldParts
<1>. HIDE DEF passed, G
<1>7. /\ IsFiniteSet(G \union passed)
      /\ Cardinality(G \union passed) <= Cardinality(G) + Cardinality(passed)
      /\ Cardinality(G \union passed) \in Nat
  <2>1. /\ IsFiniteSet(G \union passed)
        /\ Cardinality(G \union passed) = Cardinality(G) + Cardinality(passed)
                                            - Cardinality(G \cap passed)
    BY <1>5, <1>6, FS_Union
  <2>2. Cardinality(G \cap passed) \in Nat
    <3>1. IsFiniteSet(G \cap passed)
      BY <1>5, FS_Intersection
    <3>. QED  BY <3>1, FS_CardinalityType
  <2>. QED  BY <1>5, <1>6, <2>1, <2>2, FS_CardinalityType
<1>8. Cardinality(From(cursor)) <= Cardinality(G \union passed)
  BY <1>4, <1>7, FS_Subset
<1>9. Cardinality(From(cursor)) \in Nat
  BY <1>1, HeldParts DEF From
<1>10. /\ entries <= Cardinality(From(cursor))
       /\ entries' = entries - Dist(cursor, start) - 1
       /\ Dist(cursor, start) \in Nat
  BY <1>1, <1>2 DEF Walk, NextGap
<1>. QED  BY <1>1, <1>5, <1>6, <1>7, <1>8, <1>9, <1>10 DEF G

\* A turn of the walk ends behind a cached packet and in front of the others.
LEMMA GapKeepsWalk ==
  ASSUME FullInv, WalkInv, NEW start \in Missing, NEW end \in Held,
         RequestGap(start, end) \/ GiveUpGap(start, end) \/ CountGap(start, end)
  PROVE  WalkInv'
<1>. DEFINE G == {h \in Held : Dist(low, end) < Dist(low, h)}
<1>1. /\ NextGap(start, end) /\ pc = "scan" /\ pc' = pc /\ sent' = sent
      /\ cursor' = Plus(end, 1) /\ (~jumped' => ~jumped) /\ TypeOK
      /\ (~jumped => CacheOrder) /\ Span(start, end) \subseteq Missing
  <2>1. NextGap(start, end) /\ (~jumped' => ~jumped)
    <3>1. CASE GiveUpGap(start, end)
      BY <3>1 DEF GiveUpGap
    <3>2. CASE RequestGap(start, end) \/ CountGap(start, end)
      BY <3>2 DEF RequestGap, CountGap
    <3>. QED  BY <3>1, <3>2
  <2>2. TypeOK /\ (lowd /\ ~jumped => CacheOrder) /\ (~lowd => pc # "scan")
    BY DEF FullInv, CacheInv, OrderInv
  <2>. QED  BY <2>1, <2>2 DEF NextGap
<1>2. /\ start \in SeqNos /\ end \in SeqNos /\ low \in SeqNos
      /\ \A h \in Held : h \in SeqNos
  BY <1>1 DEF TypeOK, Missing, Held
<1>3. Held' = Held /\ \A h \in Held : packets'[h] = packets[h]
  <2>1. CASE GiveUpGap(start, end)
    <3>1. \A x \in SeqNos :
            packets'[x] = IF x \in Span(start, end) THEN Absent ELSE packets[x]
      BY <2>1 DEF GiveUpGap
    <3>. QED  BY <1>1, <3>1 DEF Missing, Held
  <2>2. CASE RequestGap(start, end) \/ CountGap(start, end)
    BY <2>2 DEF RequestGap, CountGap, Held
  <2>. QED  BY <2>1, <2>2
<1>4. ASSUME ~jumped' PROVE Walk'
  <2>1. CacheOrder /\ Walk
    BY <1>1, <1>4 DEF WalkInv
  <2>2. entries' <= Cardinality(G)
    BY <1>1, <2>1, WalkCounts
  <2>3. \A h \in Held : Dist(low, h) \in Nat /\ Dist(low, h) <= Window
    BY <1>2, <2>1, DistType DEF CacheOrder
  <2>4. Dist(low, Plus(end, 1)) = Dist(low, end) + 1 /\ Plus(end, 1) \in SeqNos
    BY <1>2, <2>3, DistNext, SeqNoAssumption, SequencerAssumption
  <2>5. G \subseteq From(cursor)'
    <3>1. From(cursor)' = {h \in Held : Dist(low', h) >= Dist(low', Plus(end, 1))}
      BY <1>1, <1>3 DEF From
    <3>2. CASE low' = low
      BY <2>3, <2>4, <3>1, <3>2
    <3>3. CASE low' = end
      <4>1. Dist(end, Plus(end, 1)) = 1
        BY <1>2, SeqNoAssumption DEF Dist, Plus, SeqNos
      <4>2. \A h \in G : Dist(end, h) = Dist(low, h) - Dist(low, end)
        BY <1>2, <2>3, DistBetween
      <4>. QED  BY <2>3, <3>1, <3>3, <4>1, <4>2
    <3>4. low' = low \/ low' = end
      BY <1>2, DistType DEF RequestGap, GiveUpGap, CountGap
    <3>. QED  BY <3>2, <3>3, <3>4
  <2>6. Cardinality(G) <= Cardinality(From(cursor)') /\ Cardinality(G) \in Nat
        /\ Cardinality(From(cursor)') \in Nat
    <3>1. From(cursor)' \subseteq SeqNos
      BY <1>2, <1>3 DEF From
    <3>2. IsFiniteSet(From(cursor)') /\ Cardinality(From(cursor)') \in Nat
      BY <3>1, HeldParts
    <3>3. G \subseteq SeqNos
      BY <1>2
    <3>. HIDE DEF G
    <3>4. Cardinality(G) \in Nat
      BY <3>3, HeldParts
    <3>. QED  BY <2>5, <3>2, <3>4, FS_Subset
  <2>7. entries' \in Nat
    BY <1>1, NextGapType
  <2>8. entries' <= Cardinality(From(cursor)')
    BY <2>2, <2>6, <2>7
  <2>. QED  BY <1>1, <1>3, <2>8 DEF Walk
<1>. QED  BY <1>1, <1>3, <1>4 DEF WalkInv

\* Every step keeps the walk in front of low.
LEMMA WalkStep == FullInv /\ WalkInv /\ [Next]_vars => WalkInv'
<1>. SUFFICES ASSUME FullInv, WalkInv, [Next]_vars PROVE WalkInv'
  OBVIOUS
<1>1. TypeOK
  BY DEF FullInv, CacheInv
<1>2. ASSUME NEW i \in Positions, NEW recovery, Handle(i, recovery),
             sent <= sent', i < sent', sent' \in Nat
      PROVE  WalkInv'
  <2>1. pc' # "scan"
    BY <1>2 DEF Handle
  <2>2. packets' = packets \/ packets' = [packets EXCEPT ![SeqnoAt(i)] = i]
    BY <1>2 DEF Handle
  <2>3. ASSUME NEW h \in Held' PROVE packets'[h] < sent'
    <3>1. h \in SeqNos
      BY DEF Held
    <3>2. packets'[h] = packets[h] \/ packets'[h] = i
      BY <1>1, <2>2, <3>1 DEF TypeOK
    <3>3. CASE packets'[h] = packets[h]
      <4>1. h \in Held
        BY <3>1, <3>3 DEF Held
      <4>. QED  BY <1>1, <1>2, <3>3, <4>1 DEF WalkInv, TypeOK, Held
    <3>. QED  BY <1>2, <3>2, <3>3
  <2>. QED  BY <2>1, <2>3 DEF WalkInv
<1>3. CASE DataPacket
  <2>1. PICK i \in Positions : /\ sent' = IF i >= sent THEN i + 1 ELSE sent
                               /\ Handle(i, FALSE)
    BY <1>3 DEF DataPacket
  <2>2. sent <= sent' /\ i < sent' /\ sent' \in Nat
    BY <1>1, <2>1, SequencerAssumption DEF TypeOK, Positions
  <2>. QED  BY <1>2, <2>1, <2>2
<1>4. CASE RecoveryPacket
  <2>1. PICK i \in Positions : i < sent /\ sent' = sent /\ Handle(i, TRUE)
    BY <1>4 DEF RecoveryPacket
  <2>2. sent <= sent' /\ i < sent' /\ sent' \in Nat
    BY <1>1, <2>1 DEF TypeOK
  <2>. QED  BY <1>2, <2>1, <2>2
<1>5. CASE Timeout
  <2>1. /\ cursor' = low /\ low' = low /\ entries' = Cardinality(Held)
        /\ UNCHANGED <<packets, sent>> /\ Held' = Held
    BY <1>5 DEF Timeout, history, Held
  <2>2. From(cursor)' = Held
    <3>1. Dist(low, low) = 0 /\ low \in SeqNos
      BY <1>1 DEF Dist, TypeOK, SeqNos
    <3>2. \A h \in Held : Dist(low, h) \in Nat
      BY <3>1, DistType DEF Held
    <3>3. From(cursor)' = {h \in Held : Dist(low, h) >= Dist(low, low)}
      BY <2>1 DEF From
    <3>. QED  BY <3>1, <3>2, <3>3
  <2>3. Walk'
    BY <2>1, <2>2, HeldFinite DEF Walk
  <2>. QED  BY <2>1, <2>3 DEF WalkInv
<1>6. CASE FlushPacket
  <2>1. \A h \in Held' : h \in Held /\ packets'[h] = packets[h]
    BY <1>1, <1>6 DEF FlushPacket, Held, TypeOK
  <2>. QED  BY <1>6, <2>1 DEF FlushPacket, WalkInv
<1>7. CASE FlushEnd \/ ScanEnd \/ Shutdown
  BY <1>7 DEF FlushEnd, ScanEnd, Shutdown, history, WalkInv, Held
<1>8. CASE \E start \in Missing, end \in Held :
             RequestGap(start, end) \/ GiveUpGap(start, end) \/ CountGap(start, end)
  BY <1>8, GapKeepsWalk
<1>9. CASE Restart
  <2>1. Held' = {}
    BY <1>9 DEF Restart, Held
  <2>. QED  BY <1>9, <2>1 DEF Restart, WalkInv
<1>10. CASE Transmit \/ Silence \/ UNCHANGED vars
  <2>1. UNCHANGED <<low, packets, pc, cursor, entries, sent, jumped>>
    BY <1>10 DEF Transmit, Silence, vars, code, history
  <2>2. Held' = Held
    BY <2>1 DEF Held
  <2>3. Walk => Walk'
    BY <2>1, <2>2 DEF Walk, From
  <2>. QED  BY <2>1, <2>2, <2>3 DEF WalkInv
<1>. QED
  BY <1>3, <1>4, <1>5, <1>6, <1>7, <1>8, <1>9, <1>10 DEF Next, Flush, Scan

\* A request names what is missing in front of a cached packet.
LEMMA RequestIsOfMissing ==
  ASSUME FullInv, WalkInv, NEW start \in Missing, NEW end \in Held,
         RequestGap(start, end), NEW x \in Span(start, end)
  PROVE  x \in Missing /\ (jumped' \/ PositionOf(x) < sent)
<1>1. /\ NextGap(start, end) /\ pc = "scan" /\ jumped' = jumped /\ TypeOK
      /\ (~jumped => CacheOrder) /\ Span(start, end) \subseteq Missing
  BY DEF RequestGap, NextGap, FullInv, CacheInv, OrderInv
<1>2. ASSUME ~jumped PROVE PositionOf(x) < sent
  <2>1. CacheOrder /\ Walk
    BY <1>1, <1>2 DEF WalkInv
  <2>2. x \in SeqNos /\ Dist(low, x) < Dist(low, end)
    <3>1. x \in SeqNos
      BY DEF Span
    <3>. QED  BY <1>1, <2>1, <3>1, WalkAhead
  <2>3. low \in SeqNos /\ end \in SeqNos /\ pos \in Nat /\ sent \in Nat
    BY <1>1 DEF TypeOK, Held
  <2>4. Dist(low, x) \in Nat /\ Dist(low, end) \in Nat
    BY <2>2, <2>3, DistType
  <2>5. packets[end] = pos + Dist(low, end) /\ packets[end] < sent
    BY <2>1 DEF CacheOrder, PositionOf, WalkInv
  <2>. QED  BY <2>2, <2>3, <2>4, <2>5 DEF PositionOf
<1>. QED  BY <1>1, <1>2

\* The facts about the walk hold in every state.
LEMMA WalkInvariant == Spec => [](FullInv /\ WalkInv)
<1>1. Init => WalkInv
  <2>1. Init => Held = {}
    BY DEF Init, Held
  <2>. QED  BY <2>1 DEF Init, WalkInv
<1>2. FullInv /\ WalkInv /\ [Next]_vars => FullInv' /\ WalkInv'
  BY CacheStep, OrderStep, WalkStep DEF FullInv
<1>. QED  BY <1>1, <1>2, OrderInit, PTL DEF Spec

\* A request, however late its gap was walked and whatever has been given up in
\* the same walk, names only packets that the source has sent and that have not
\* arrived.
THEOREM RequestsAreOfMissing == Spec => RequestsOnlyMissing
<1>. DEFINE Asked == \A n \in DOMAIN requests' \ DOMAIN requests :
                       \A x \in Requested(requests'[n]) :
                         x \in Missing /\ (jumped' \/ PositionOf(x) < sent)
<1>1. FullInv /\ WalkInv /\ [Next]_vars => [Asked]_vars
  <2>1. SUFFICES ASSUME FullInv, WalkInv, [Next]_vars,
                        NEW n \in DOMAIN requests' \ DOMAIN requests
        PROVE  \A x \in Requested(requests'[n]) :
                 x \in Missing /\ (jumped' \/ PositionOf(x) < sent)
    OBVIOUS
  <2>2. requests \in Seq(Request)
    BY <2>1 DEF FullInv, CacheInv, TypeOK
  <2>3. CASE \E start \in Missing, end \in Held : RequestGap(start, end)
    <3>1. PICK start \in Missing, end \in Held : RequestGap(start, end)
      BY <2>3
    <3>2. requests' = Append(requests, RequestFor(start, end))
      BY <3>1 DEF RequestGap
    <3>3. requests'[n] = RequestFor(start, end)
      <4>1. RequestFor(start, end) \in Request
        BY GapType DEF Request, RequestFor
      <4>2. n \in 1 .. (Len(requests) + 1) /\ n \notin 1 .. Len(requests)
        BY <2>1, <2>2, <3>2, <4>1
      <4>. QED  BY <2>2, <3>2, <4>1, <4>2
    <3>4. Requested(requests'[n]) = Span(start, end)
      BY <3>3 DEF Requested, RequestFor, Span
    <3>. QED  BY <2>1, <3>1, <3>4, RequestIsOfMissing
  <2>4. CASE Transmit
    <3>1. Len(requests) # 0 /\ requests' = Tail(requests)
      BY <2>2, <2>4 DEF Transmit
    <3>2. DOMAIN requests' \subseteq DOMAIN requests
      BY <2>2, <3>1
    <3>. QED  BY <2>1, <3>2
  <2>5. CASE requests' = requests
    BY <2>1, <2>5
  <2>6. ~Transmit /\ ~(\E start \in Missing, end \in Held : RequestGap(start, end))
          => requests' = requests
    BY <2>1 DEF Next, DataPacket, RecoveryPacket, Handle, Timeout, Flush, FlushPacket,
       FlushEnd, Scan, ScanEnd, GiveUpGap, CountGap, Restart, Shutdown, Silence, vars,
       code
  <2>. QED  BY <2>3, <2>4, <2>5, <2>6
<1>. QED  BY <1>1, WalkInvariant, PTL DEF Spec, RequestsOnlyMissing

-----------------------------------------------------------------------------
\* The seqno at a distance.
LEMMA DistPlus ==
  ASSUME NEW a \in SeqNos, NEW d \in SeqNos
  PROVE  Plus(a, d) \in SeqNos /\ Dist(a, Plus(a, d)) = d
  BY SeqNoAssumption DEF Dist, Plus, SeqNos

\* A gap in front of low is no longer than the window, so it is not printed,
\* and its packets have been counted together.
LEMMA GapIsCounted ==
  ASSUME PrintLimit >= Window, TypeOK, CacheOrder, Walk, Counts,
         NEW start \in Missing, NEW end \in Held, NextGap(start, end)
  PROVE  LET gap == Span(start, end)
         IN  /\ RetriesAfter(gap) = Counted(gap)
             /\ \A x \in gap : retries[x] = retries[start]
             /\ Retry(gap) = Bump(retries[start])
<1>. DEFINE gap == Span(start, end)
<1>1. /\ low \in SeqNos /\ start \in SeqNos /\ end \in SeqNos /\ pc = "scan"
      /\ retries \in [SeqNos -> Nat] /\ Dist(low, end) <= Window
  BY DEF TypeOK, Missing, Held, CacheOrder, NextGap
<1>2. \A x, y \in SeqNos : Dist(x, y) \in Nat
  BY DistType
<1>3. /\ Dist(low, start) < Dist(low, end)
      /\ \A x \in SeqNos :
           x \in gap <=> Dist(low, start) <= Dist(low, x) /\ Dist(low, x) < Dist(low, end)
      /\ \A h \in Held : Dist(low, h) < Dist(low, start) \/ Dist(low, end) <= Dist(low, h)
  BY WalkAhead
<1>4. RetriesAfter(gap) = Counted(gap)
  <2>1. Dist(start, end) <= Window
    <3>1. Dist(start, end) = Dist(low, end) - Dist(low, start)
      BY <1>1, <1>2, <1>3, DistBetween
    <3>. QED  BY <1>1, <1>2, <3>1, SequencerAssumption
  <2>2. Cardinality(gap) \in Nat /\ Cardinality(gap) <= Dist(start, end)
    BY <1>1, SpanSize
  <2>3. ~(Cardinality(gap) > PrintLimit)
    BY <1>1, <1>2, <2>1, <2>2, SequencerAssumption
  <2>. QED  BY <2>3 DEF RetriesAfter
<1>5. start \in gap
  BY <1>1, <1>2, <1>3
<1>6. ASSUME NEW x \in gap PROVE retries[x] = retries[start]
  <2>1. /\ x \in SeqNos /\ x \in Missing
        /\ Dist(low, start) <= Dist(low, x) /\ Dist(low, x) < Dist(low, end)
    BY <1>3 DEF NextGap, Span
  <2>2. CASE x = start
    BY <2>2
  <2>3. CASE x # start
    <3>1. Dist(low, start) < Dist(low, x)
      BY <1>1, <1>2, <2>1, <2>3, DistSame
    <3>2. Below(x)
      BY <2>1 DEF Below
    <3>3. Dist(low, Base) <= Dist(low, start)
      BY <1>1, <1>2, DistSelf DEF Base
    <3>4. \A h \in Held : Dist(low, h) < Dist(low, start) \/ Dist(low, x) < Dist(low, h)
      <4>1. \A h \in Held : h \in SeqNos
        BY DEF Held
      <4>. QED  BY <1>1, <1>2, <1>3, <2>1, <4>1
    <3>. QED  BY <2>1, <3>1, <3>2, <3>3, <3>4 DEF Counts
  <2>. QED  BY <2>2, <2>3
<1>7. Retry(gap) = Bump(retries[start])
  <2>1. {retries[x] : x \in gap} = {retries[start]}
    BY <1>5, <1>6
  <2>2. Min({retries[start]}) = retries[start]
    <3>1. retries[start] \in Nat
      BY <1>1
    <3>. QED  BY <3>1 DEF Min
  <2>. QED  BY <2>1, <2>2 DEF Retry
<1>. QED  BY <1>4, <1>6, <1>7

\* Missing packets with no cached one between them are in the same gap.
LEMMA GapIsWhole ==
  ASSUME TypeOK, CacheOrder, Walk,
         NEW start \in Missing, NEW end \in Held, NextGap(start, end),
         NEW x \in Missing, NEW y \in Missing, Dist(low, x) < Dist(low, y),
         \A h \in Held : Dist(low, h) < Dist(low, x) \/ Dist(low, y) < Dist(low, h)
  PROVE  x \in Span(start, end) <=> y \in Span(start, end)
<1>1. /\ low \in SeqNos /\ cursor \in SeqNos /\ start \in SeqNos /\ end \in SeqNos
      /\ x \in SeqNos /\ y \in SeqNos /\ x \notin Held
      /\ \A h \in Held : h \in SeqNos /\ Dist(low, h) <= Window
  BY DEF TypeOK, Missing, Held, CacheOrder
<1>2. \A a, b \in SeqNos : Dist(a, b) \in Nat
  BY DistType
<1>3. /\ Dist(low, cursor) + Dist(cursor, start) = Dist(low, start)
      /\ Dist(low, start) < Dist(low, end)
      /\ \A z \in SeqNos :
           z \in Span(start, end) <=>
             Dist(low, start) <= Dist(low, z) /\ Dist(low, z) < Dist(low, end)
  BY WalkAhead
<1>4. ASSUME x \in Span(start, end) PROVE y \in Span(start, end)
  BY <1>1, <1>2, <1>3, <1>4
<1>5. ASSUME y \in Span(start, end) PROVE x \in Span(start, end)
  <2>1. SUFFICES ASSUME Dist(low, x) < Dist(low, start) PROVE FALSE
    BY <1>1, <1>2, <1>3, <1>5
  <2>2. CASE Dist(low, cursor) <= Dist(low, x)
    <3>1. Dist(cursor, x) = Dist(low, x) - Dist(low, cursor)
      BY <1>1, <2>2, DistBetween
    <3>2. x \in Span(cursor, start)
      BY <1>1, <1>2, <1>3, <2>1, <3>1 DEF Span
    <3>. QED  BY <1>1, <3>2 DEF NextGap
  <2>3. CASE Dist(low, x) < Dist(low, cursor)
    <3>1. cursor # low
      BY <1>1, <1>2, <2>3, DistSelf
    <3>2. PICK h \in Held : cursor = Plus(h, 1)
      BY <3>1 DEF Walk
    <3>3. Dist(low, cursor) = Dist(low, h) + 1
      <4>1. h \in SeqNos /\ Dist(low, h) < Modulus - 1
        BY <1>1, <1>2, SeqNoAssumption, SequencerAssumption
      <4>. QED  BY <1>1, <3>2, <4>1, DistNext
    <3>4. Dist(low, h) # Dist(low, x)
      BY <1>1, DistSame
    <3>5. Dist(low, x) < Dist(low, h) /\ Dist(low, h) < Dist(low, start)
      BY <1>1, <1>2, <1>3, <2>3, <3>3, <3>4
    <3>. QED  BY <1>1, <1>2, <1>3, <1>5, <3>5
  <2>. QED  BY <1>1, <1>2, <2>2, <2>3
<1>. QED  BY <1>4, <1>5

\* A gap that is counted, and requested if its count says so.
LEMMA GapKeepsCounts ==
  ASSUME PrintLimit >= Window, TypeOK, CacheOrder, Walk, Counts,
         NEW start \in Missing, NEW end \in Held,
         RequestGap(start, end) \/ CountGap(start, end)
  PROVE  Counts'
<1>. DEFINE gap == Span(start, end)
<1>1. /\ NextGap(start, end) /\ retries' = RetriesAfter(gap) /\ asked \subseteq asked'
      /\ UNCHANGED <<low, packets, pos>> /\ pc = "scan" /\ pc' = pc
  BY DEF RequestGap, CountGap, NextGap
<1>2. /\ Retry(gap) = Bump(retries[start]) /\ RetriesAfter(gap) = Counted(gap)
      /\ \A x \in gap : retries[x] = retries[start]
  BY <1>1, GapIsCounted
<1>3. Held' = Held /\ Missing' = Missing /\ Base' = low /\ Base = low
  BY <1>1 DEF Held, Missing, Base
<1>4. \A x \in SeqNos : /\ retries[x] \in Nat
                        /\ retries'[x] = IF x \in gap THEN Bump(retries[x]) ELSE retries[x]
  BY <1>1, <1>2 DEF Counted, TypeOK
<1>5. /\ \A x \in Missing : x \in SeqNos
      /\ low \in SeqNos /\ start \in SeqNos /\ end \in SeqNos
  BY DEF Missing, TypeOK, Held
<1>6. \A x, y \in SeqNos : Dist(x, y) \in Nat
  BY DistType
<1>7. \A x \in gap : Dist(low, x) < Dist(low, end) /\ x \in SeqNos
  <2>1. \A x \in gap : x \in SeqNos
    BY DEF Span
  <2>. QED  BY <1>1, <2>1, WalkAhead
<1>. HIDE DEF gap
<1>8. ASSUME NEW x \in Missing, retries'[x] > 0
      PROVE  Below(x)' /\ Dist(low, Base)' <= Dist(low, x)'
  <2>1. Below(x)
    <3>1. CASE x \in gap
      BY <1>7, <3>1 DEF Below
    <3>2. CASE x \notin gap
      BY <1>4, <1>5, <1>8, <3>2 DEF Counts
    <3>. QED  BY <3>1, <3>2
  <2>2. Dist(low, low) = 0
    BY <1>5 DEF Dist, SeqNos
  <2>. QED  BY <1>1, <1>3, <1>5, <1>6, <2>1, <2>2 DEF Below
<1>9. ASSUME NEW x \in Missing, NEW y \in Missing,
             Dist(low, x) < Dist(low, y), Below(y),
             \A h \in Held : Dist(low, h) < Dist(low, x) \/ Dist(low, y) < Dist(low, h)
      PROVE  retries'[x] = retries'[y]
  <2>1. Dist(low, Base) <= Dist(low, x)
    BY <1>3, <1>5, <1>6, DistSelf
  <2>2. retries[x] = retries[y]
    BY <1>9, <2>1 DEF Counts
  <2>3. x \in gap <=> y \in gap
    BY <1>1, <1>9, GapIsWhole DEF gap
  <2>. QED  BY <1>4, <1>5, <2>2, <2>3
<1>10. ASSUME NEW x \in Missing, NEW t \in RequestAt, retries'[x] >= t
       PROVE  <<PositionOf(x), t>> \in asked'
  <2>1. CASE retries[x] >= t
    BY <1>1, <2>1 DEF Counts
  <2>2. CASE ~(retries[x] >= t)
    <3>1. x \in gap /\ retries[x] = retries[start] /\ retries'[x] = Bump(retries[x])
      BY <1>2, <1>4, <1>5, <1>10, <2>2
    <3>2. t \in Nat /\ t < GiveUpAt /\ GiveUpAt \in Nat /\ retries[x] \in Nat
      BY <1>4, <1>5, SequencerAssumption
    <3>3. Bump(retries[x]) = t
      BY <1>10, <2>2, <3>1, <3>2 DEF Bump
    <3>4. Retry(gap) = t
      BY <1>2, <3>1, <3>3
    <3>5. RequestGap(start, end)
      BY <3>4 DEF CountGap, gap
    <3>6. asked' = asked \union {<<PositionOf(z), Retry(gap)>> : z \in gap}
      BY <3>5 DEF RequestGap, gap
    <3>. QED  BY <3>1, <3>4, <3>6
  <2>. QED  BY <2>1, <2>2
<1>11. \A x \in SeqNos : PositionOf(x)' = PositionOf(x)
  BY <1>1 DEF PositionOf
<1>12. \A x : Below(x)' = Below(x)
  BY <1>1, <1>3 DEF Below
<1>. QED  BY <1>1, <1>3, <1>5, <1>8, <1>9, <1>10, <1>11, <1>12 DEF Counts

\* low moves up to a seqno no cached packet is behind, and the retries of what
\* it passes are gone.
LEMMA LowKeepsCounts ==
  ASSUME TypeOK, Counts, NEW to \in SeqNos, low' = to, pos' = PositionOf(to),
         pc' # "flush", Held' = Held, Dist(low, Base) <= Dist(low, to),
         \A h \in Held : Dist(low, to) <= Dist(low, h),
         \A x \in SeqNos :
           /\ retries'[x] \in Nat
           /\ retries'[x] > 0 => retries'[x] = retries[x] /\ Dist(low, to) <= Dist(low, x)
           /\ Dist(low, to) <= Dist(low, x) => retries'[x] = retries[x],
         asked' = {a \in asked : a[1] >= pos'}
  PROVE  Counts'
<1>1. /\ low \in SeqNos /\ pos \in Nat /\ Base \in SeqNos /\ asked \subseteq Nat \X Nat
      /\ \A x \in Missing : x \in SeqNos
      /\ \A h \in Held : h \in SeqNos
      /\ RequestAt \subseteq Nat \ {0}
  BY SequencerAssumption DEF TypeOK, Missing, Held, Base
<1>2. \A x, y \in SeqNos : Dist(x, y) \in 0 .. (Modulus - 1)
  BY DistType
<1>3. Missing' = Missing /\ Base' = to /\ Modulus \in Nat
  BY SeqNoAssumption DEF Missing, Base
<1>4. \A x \in SeqNos :
        Dist(to, x) = IF Dist(low, to) <= Dist(low, x) THEN Dist(low, x) - Dist(low, to)
                      ELSE Dist(low, x) - Dist(low, to) + Modulus
  BY <1>1, DistShift
<1>5. ASSUME NEW x \in Missing, retries'[x] > 0
      PROVE  Below(x)' /\ Dist(low, Base)' <= Dist(low, x)'
  <2>1. Dist(low, to) <= Dist(low, x) /\ retries[x] > 0
    BY <1>1, <1>5
  <2>2. PICK h \in Held : Dist(low, x) < Dist(low, h)
    BY <2>1 DEF Counts, Below
  <2>3. Dist(to, x) < Dist(to, h)
    BY <1>1, <1>2, <1>4, <2>1, <2>2
  <2>4. Dist(to, to) = 0
    BY DistSelf
  <2>. QED  BY <1>1, <1>2, <1>3, <2>3, <2>4 DEF Below
<1>6. ASSUME NEW x \in Missing, NEW y \in Missing,
             Dist(to, x) < Dist(to, y), NEW g \in Held, Dist(to, y) < Dist(to, g),
             \A h \in Held : Dist(to, h) < Dist(to, x) \/ Dist(to, y) < Dist(to, h)
      PROVE  retries'[x] = retries'[y]
  <2>1. Dist(to, g) = Dist(low, g) - Dist(low, to)
    BY <1>1, <1>4
  <2>2. /\ Dist(low, to) <= Dist(low, x) /\ Dist(to, x) = Dist(low, x) - Dist(low, to)
        /\ Dist(low, to) <= Dist(low, y) /\ Dist(to, y) = Dist(low, y) - Dist(low, to)
    <3>1. Dist(low, to) <= Dist(low, y)
      BY <1>1, <1>2, <1>3, <1>4, <1>6, <2>1
    <3>2. Dist(low, to) <= Dist(low, x)
      BY <1>1, <1>2, <1>3, <1>4, <1>6, <2>1
    <3>. QED  BY <1>1, <1>4, <3>1, <3>2
  <2>3. \A h \in Held : Dist(low, h) < Dist(low, x) \/ Dist(low, y) < Dist(low, h)
    <3>1. ASSUME NEW h \in Held
          PROVE  Dist(low, h) < Dist(low, x) \/ Dist(low, y) < Dist(low, h)
      <4>1. Dist(to, h) = Dist(low, h) - Dist(low, to)
        BY <1>1, <1>4
      <4>. QED  BY <1>1, <1>2, <1>6, <2>2, <4>1
    <3>. QED  BY <3>1
  <2>4. Dist(low, Base) <= Dist(low, x) /\ Dist(low, x) < Dist(low, y) /\ Below(y)
    <3>1. Dist(low, y) < Dist(low, g)
      BY <1>1, <1>2, <1>6, <2>1, <2>2
    <3>. QED  BY <1>1, <1>2, <1>6, <2>2, <3>1 DEF Below
  <2>5. retries[x] = retries[y]
    BY <2>3, <2>4 DEF Counts
  <2>. QED  BY <1>1, <2>2, <2>5
<1>7. ASSUME NEW x \in Missing, NEW t \in RequestAt, retries'[x] >= t
      PROVE  <<PositionOf(x)', t>> \in asked'
  <2>1. retries'[x] > 0 /\ x \in SeqNos
    BY <1>1, <1>7
  <2>2. Dist(low, to) <= Dist(low, x) /\ retries[x] >= t
    BY <1>7, <2>1
  <2>3. PositionOf(x)' = PositionOf(x) /\ PositionOf(x) >= pos'
    <3>1. Dist(to, x) = Dist(low, x) - Dist(low, to)
      BY <1>4, <2>1, <2>2
    <3>. QED  BY <1>1, <1>2, <2>1, <2>2, <3>1 DEF PositionOf
  <2>4. <<PositionOf(x), t>> \in asked
    BY <2>2 DEF Counts
  <2>. QED  BY <2>3, <2>4
<1>8. \A y \in Missing : Below(y)' => \E g \in Held : Dist(to, y) < Dist(to, g)
  BY DEF Below
<1>. QED  BY <1>3, <1>5, <1>6, <1>7, <1>8 DEF Counts

\* What is given up without a jump is the gap at low, all of whose packets have
\* been requested at every count.
LEMMA GiveUpIsAsked ==
  ASSUME PrintLimit >= Window, TypeOK, CacheOrder, Walk, Counts,
         NEW start \in Missing, NEW end \in Held, GiveUpGap(start, end), ~jumped'
  PROVE  Counts' /\ (pos .. pos' - 1) \X RequestAt \subseteq asked
<1>. DEFINE gap == Span(start, end)
            after == RetriesAfter(gap)
<1>1. /\ NextGap(start, end) /\ pc = "scan" /\ pc' = pc
      /\ Retry(gap) = GiveUpAt
      /\ packets' = [x \in SeqNos |-> IF x \in gap THEN Absent ELSE packets[x]]
      /\ retries' = [x \in SeqNos |-> IF x \in gap THEN 0 ELSE after[x]]
      /\ low' = Plus(start, Dist(start, end)) /\ pos' = pos + Dist(low, end)
      /\ asked' = {a \in asked : a[1] >= pos'}
      /\ \A h \in Held : h \notin Span(low, end)
  BY DEF GiveUpGap, NextGap
<1>2. /\ Retry(gap) = Bump(retries[start]) /\ after = Counted(gap)
      /\ \A x \in gap : retries[x] = retries[start]
  BY <1>1, GapIsCounted
<1>3. /\ low \in SeqNos /\ cursor \in SeqNos /\ start \in SeqNos /\ end \in SeqNos
      /\ pos \in Nat /\ retries \in [SeqNos -> Nat]
      /\ \A x \in Missing : x \in SeqNos
      /\ \A h \in Held : h \in SeqNos /\ Dist(low, h) <= Window
  BY DEF TypeOK, Missing, Held, CacheOrder
<1>4. \A x, y \in SeqNos : Dist(x, y) \in 0 .. (Modulus - 1)
  BY DistType
<1>5. \A h \in Held : Dist(low, end) <= Dist(low, h)
  <2>1. \A h \in Held : ~(Dist(low, h) < Dist(low, end))
    BY <1>1, <1>3 DEF Span
  <2>. QED  BY <1>3, <1>4, <2>1
<1>6. /\ Dist(low, cursor) + Dist(cursor, start) = Dist(low, start)
      /\ Dist(low, start) < Dist(low, end)
      /\ \A x \in SeqNos :
           x \in gap <=> Dist(low, start) <= Dist(low, x) /\ Dist(low, x) < Dist(low, end)
  BY <1>1, WalkAhead
<1>7. start = low
  <2>1. cursor = start
    <3>1. SUFFICES ASSUME cursor # start PROVE FALSE
      OBVIOUS
    <3>2. Dist(cursor, cursor) = 0 /\ Dist(cursor, start) > 0
      BY <1>3, <3>1, DistSelf, DistType
    <3>3. cursor \in Held
      BY <1>1, <1>3, <3>2 DEF NextGap, Span
    <3>. QED  BY <1>3, <1>4, <1>5, <1>6, <3>3
  <2>2. ASSUME NEW h \in Held, cursor = Plus(h, 1) PROVE FALSE
    <3>1. Dist(low, h) < Modulus - 1
      BY <1>3, <1>4, SeqNoAssumption, SequencerAssumption
    <3>2. Dist(low, cursor) = Dist(low, h) + 1
      BY <1>3, <2>2, <3>1, DistNext
    <3>. QED  BY <1>3, <1>4, <1>5, <1>6, <2>1, <3>2
  <2>. QED  BY <2>1, <2>2 DEF Walk
<1>8. \A x \in SeqNos : x \in gap <=> Dist(low, x) < Dist(low, end)
  BY <1>3, <1>4, <1>6, <1>7, DistSelf
<1>9. \A x \in gap : x \in Missing
  BY <1>1 DEF NextGap
<1>10. (pos .. pos' - 1) \X RequestAt \subseteq asked
  <2>1. SUFFICES ASSUME NEW p \in pos .. pos' - 1, NEW t \in RequestAt
        PROVE  <<p, t>> \in asked
    OBVIOUS
  <2>2. p - pos \in SeqNos /\ p - pos < Dist(low, end)
    <3>1. Dist(low, end) \in 0 .. (Modulus - 1) /\ Modulus \in Nat
      BY <1>3, <1>4, SeqNoAssumption
    <3>2. pos' = pos + Dist(low, end)
      BY <1>1
    <3>3. p \in pos .. (pos' - 1)
      BY <2>1
    <3>4. p \in Int /\ pos <= p /\ p < pos + Dist(low, end)
      BY <1>3, <3>1, <3>2, <3>3
    <3>. QED  BY <1>3, <3>1, <3>4 DEF SeqNos
  <2>. DEFINE x == Plus(low, p - pos)
  <2>3. x \in SeqNos /\ Dist(low, x) = p - pos
    BY <1>3, <2>2, DistPlus
  <2>. HIDE DEF x
  <2>4. x \in gap /\ x \in Missing
    BY <1>8, <1>9, <2>2, <2>3
  <2>5. retries[x] >= t
    <3>1. Bump(retries[x]) = GiveUpAt /\ retries[x] \in Nat
      BY <1>1, <1>2, <1>3, <2>3, <2>4
    <3>2. t \in Nat /\ t < GiveUpAt /\ GiveUpAt \in Nat
      BY SequencerAssumption
    <3>. QED  BY <3>1, <3>2 DEF Bump
  <2>6. PositionOf(x) = p
    BY <1>3, <2>1, <2>3 DEF PositionOf
  <2>. QED  BY <2>4, <2>5, <2>6 DEF Counts
<1>. HIDE DEF gap
<1>11. Held' = Held
  <2>1. \A x \in SeqNos : packets'[x] = packets[x]
    BY <1>1, <1>9 DEF Missing, Held
  <2>. QED  BY <2>1 DEF Held
<1>12. \A x \in SeqNos : /\ retries[x] \in Nat
                         /\ retries'[x] = IF x \in gap THEN 0 ELSE retries[x]
  BY <1>1, <1>2, <1>3 DEF Counted
<1>13. low' = end /\ pos' = PositionOf(end)
  BY <1>1, <1>3, DistType DEF PositionOf
<1>14. Dist(low, Base) <= Dist(low, end)
  BY <1>1, <1>3, <1>4, DistSelf DEF Base
<1>15. \A x \in SeqNos : /\ retries'[x] \in Nat
                         /\ retries'[x] > 0 => /\ retries'[x] = retries[x]
                                                /\ Dist(low, end) <= Dist(low, x)
                         /\ Dist(low, end) <= Dist(low, x) => retries'[x] = retries[x]
  BY <1>3, <1>4, <1>8, <1>12
<1>16. Counts'
  BY <1>1, <1>3, <1>5, <1>11, <1>13, <1>14, <1>15, LowKeepsCounts
<1>. QED  BY <1>10, <1>16

\* A packet that arrives loses its retries, and nothing else changes in the
\* counts: an old one is behind low, and one that is cached splits its gap.
LEMMA HandleKeepsCounts ==
  ASSUME FullInv, AskInv, ~jumped, NEW i \in Positions, NEW recovery,
         Near(i), Handle(i, recovery)
  PROVE  Counts'
<1>. DEFINE sn == SeqnoAt(i)
            base == IF lowd THEN low ELSE sn
<1>1. /\ i \in Nat /\ sn \in SeqNos /\ pos \in Nat /\ low \in SeqNos /\ TypeOK
      /\ RetriesOnlyForMissing /\ low \notin Held
      /\ \A x \in Missing : x \in SeqNos /\ x \notin Held
      /\ \A x \in Held : x \in SeqNos
      /\ RequestAt \subseteq Nat \ {0}
  <2>1. i \in Nat /\ sn \in SeqNos /\ RequestAt \subseteq Nat \ {0}
    BY SeqnoAtType, SequencerAssumption DEF Positions
  <2>2. TypeOK /\ RetriesOnlyForMissing /\ low \notin Held
    BY DEF FullInv, CacheInv, NothingHeldBack, Handle
  <2>. QED  BY <2>1, <2>2 DEF TypeOK, Missing, Held
<1>2. \A x, y \in SeqNos : Dist(x, y) \in Nat
  BY DistType
<1>3. /\ lowd' = TRUE /\ low' = base /\ asked' = asked /\ pc = "select"
      /\ retries' = Forgotten(sn)
  BY DEF Handle
<1>4. /\ retries'[sn] = 0
      /\ \A x \in SeqNos : /\ retries[x] \in Nat
                           /\ x # sn => retries'[x] = retries[x]
  BY <1>1, <1>3 DEF Forgotten, TypeOK
<1>5. CASE ~lowd
  <2>1. SeqnoDelta(sn, sn) = 0
    BY <1>1, SeqnoDeltaSelf
  <2>. HIDE DEF sn
  <2>2. packets' = packets
    BY <1>5, <2>1 DEF Handle, sn
  <2>3. Held' = {} /\ \A x \in SeqNos : retries'[x] = 0
    BY <1>1, <1>4, <1>5, <2>2 DEF Held, FullInv, OrderInv, AskInv
  <2>. QED  BY <1>1, <2>3 DEF Counts, Below, Missing
<1>6. CASE lowd
  <2>1. /\ low = SeqnoAt(pos) /\ low' = low /\ pos' = pos /\ CacheOrder /\ Counts
        /\ Base = low /\ base = low /\ Dist(low, low) = 0
    BY <1>1, <1>3, <1>6, DistSelf DEF Handle, FullInv, OrderInv, AskInv, Base
  <2>2. SeqnoDelta(sn, low) = i - pos /\ i >= pos - Window /\ Window \in Nat
    BY <1>1, <1>6, <2>1, SeqnoDeltaExact, SequencerAssumption, SeqNoAssumption DEF Near
  <2>3. i < pos => \A h \in Held : Dist(low, h) < Dist(low, sn)
    <3>1. SUFFICES ASSUME i < pos, NEW h \in Held PROVE Dist(low, h) < Dist(low, sn)
      OBVIOUS
    <3>2. Dist(sn, low) = pos - i
      BY <1>1, <1>6, <2>1, <2>2, <3>1, SeqnoDeltaExact, SequencerAssumption, SeqNoAssumption
         DEF Near
    <3>. HIDE DEF sn
    <3>3. Dist(low, sn) = Modulus - (pos - i)
      BY <1>1, <3>1, <3>2, SeqNoAssumption DEF Dist, SeqNos
    <3>4. Dist(low, h) <= Window
      BY <2>1 DEF CacheOrder
    <3>. QED  BY <1>1, <1>2, <2>2, <3>1, <3>3, <3>4, SeqNoAssumption, SequencerAssumption
  <2>. HIDE DEF sn
  <2>4. \A x \in SeqNos : PositionOf(x)' = PositionOf(x)
    BY <2>1 DEF PositionOf
  <2>5. ASSUME NEW x \in Missing, NEW t \in RequestAt, retries'[x] >= t
        PROVE  <<PositionOf(x)', t>> \in asked'
    <3>1. x # sn
      BY <1>1, <1>4, <2>5
    <3>. QED  BY <1>1, <1>3, <1>4, <2>1, <2>4, <2>5, <3>1 DEF Counts
  <2>6. CASE sn = low /\ pc' = "flush" /\ cursor' = Plus(sn, 1) /\ packets' = packets
    <3>1. Held' = Held /\ Missing' = Missing
      BY <2>6 DEF Held, Missing
    <3>2. Base' = Plus(low, 1) /\ Dist(low, Plus(low, 1)) = 1
      <4>1. Dist(low, Plus(low, 1)) = 1
        BY <1>1, <2>1, DistNext, SeqNoAssumption
      <4>. QED  BY <2>6, <4>1 DEF Base
    <3>3. \A x \in SeqNos : x # low => Dist(low, x) >= 1
      BY <1>1, <1>2, DistType
    <3>4. ASSUME NEW x \in Missing, retries'[x] > 0
          PROVE  Below(x)' /\ Dist(low, Base)' <= Dist(low, x)'
      <4>1. x # low /\ retries[x] > 0
        BY <1>1, <1>4, <2>6, <3>4
      <4>. QED  BY <1>1, <2>1, <3>1, <3>2, <3>3, <4>1 DEF Counts, Below
    <3>5. ASSUME NEW x \in Missing, NEW y \in Missing,
                 1 <= Dist(low, x), Dist(low, x) < Dist(low, y), Below(y),
                 \A h \in Held : Dist(low, h) < Dist(low, x) \/ Dist(low, y) < Dist(low, h)
          PROVE  retries'[x] = retries'[y]
      <4>1. x # sn /\ y # sn /\ 0 <= Dist(low, x)
        BY <1>1, <1>2, <2>1, <2>6, <3>5
      <4>2. retries[x] = retries[y]
        BY <2>1, <3>5, <4>1 DEF Counts
      <4>. QED  BY <1>1, <1>4, <4>1, <4>2
    <3>6. \A x : Below(x)' = Below(x)
      BY <2>1, <3>1 DEF Below
    <3>. QED  BY <2>1, <2>5, <3>1, <3>2, <3>4, <3>5, <3>6 DEF Counts
  <2>7. CASE i < pos /\ UNCHANGED <<pc, packets>>
    <3>1. Held' = Held /\ Missing' = Missing /\ Base' = low
      BY <1>3, <2>1, <2>7 DEF Held, Missing, Base
    <3>2. \A x : Below(x)' = Below(x)
      BY <2>1, <3>1 DEF Below
    <3>3. ASSUME NEW x \in Missing, retries'[x] > 0
          PROVE  Below(x)
      BY <1>1, <1>4, <2>1, <3>3 DEF Counts
    <3>4. ASSUME NEW x \in Missing, NEW y \in Missing,
                 Dist(low, x) < Dist(low, y), Below(y),
                 \A h \in Held : Dist(low, h) < Dist(low, x) \/ Dist(low, y) < Dist(low, h)
          PROVE  retries'[x] = retries'[y]
      <4>1. x # sn /\ y # sn
        BY <1>1, <1>2, <2>3, <2>7, <3>4 DEF Below
      <4>2. retries[x] = retries[y]
        BY <1>1, <1>2, <2>1, <3>4 DEF Counts
      <4>. QED  BY <1>1, <1>4, <4>1, <4>2
    <3>. QED  BY <1>1, <1>2, <2>1, <2>5, <3>1, <3>2, <3>3, <3>4 DEF Counts
  <2>8. CASE packets' = [packets EXCEPT ![sn] = i] /\ pc' = pc
    <3>1. Held' = Held \union {sn} /\ Missing' = Missing \ {sn} /\ Base' = low
      <4>1. packets'[sn] = i /\ \A x \in SeqNos \ {sn} : packets'[x] = packets[x]
        BY <1>1, <2>8 DEF TypeOK
      <4>2. Held' = Held \union {sn}
        BY <1>1, <4>1 DEF Held, Absent
      <4>. QED  BY <1>3, <2>1, <2>8, <4>2 DEF Missing, Base
    <3>2. \A x : Below(x)' <=> Below(x) \/ Dist(low, x) < Dist(low, sn)
      BY <2>1, <3>1 DEF Below
    <3>3. ASSUME NEW x \in Missing', retries'[x] > 0
          PROVE  Below(x)
      BY <1>1, <1>4, <2>1, <3>1, <3>3 DEF Counts
    <3>4. ASSUME NEW x \in Missing', NEW y \in Missing', Dist(low, x) < Dist(low, y),
                 \A h \in Held : Dist(low, h) < Dist(low, x) \/ Dist(low, y) < Dist(low, h)
          PROVE  retries'[x] = retries'[y]
      <4>1. x \in Missing /\ y \in Missing /\ x # sn /\ y # sn
        BY <3>1
      <4>2. retries[x] = retries[y]
        <5>1. CASE Below(y)
          BY <1>1, <1>2, <2>1, <3>4, <4>1, <5>1 DEF Counts
        <5>2. CASE ~Below(y)
          <6>1. ~Below(x)
            BY <1>1, <1>2, <3>4, <4>1, <5>2 DEF Below
          <6>2. ~(retries[x] > 0) /\ ~(retries[y] > 0)
            BY <2>1, <4>1, <5>2, <6>1 DEF Counts
          <6>. QED  BY <1>1, <1>4, <4>1, <6>2
        <5>. QED  BY <5>1, <5>2
      <4>. QED  BY <1>1, <1>4, <4>1, <4>2
    <3>5. \A x \in Missing' : x \in Missing
      BY <3>1
    <3>6. \A x \in Missing' : 0 <= Dist(low, x)
      BY <1>1, <1>2, <3>5
    <3>. QED  BY <2>1, <2>5, <3>1, <3>2, <3>3, <3>4, <3>5, <3>6 DEF Counts
  <2>9. \/ sn = low /\ pc' = "flush" /\ cursor' = Plus(sn, 1) /\ packets' = packets
        \/ SeqnoDelta(sn, low) < 0 /\ UNCHANGED <<pc, packets>>
        \/ packets' = [packets EXCEPT ![sn] = i] /\ pc' = pc
    BY <2>1 DEF Handle, sn
  <2>10. SeqnoDelta(sn, low) < 0 => i < pos
    BY <1>1, <2>2
  <2>. QED  BY <2>6, <2>7, <2>8, <2>9, <2>10
<1>. QED  BY <1>5, <1>6

\* flushCached passes cached packets, which have no retries.
LEMMA FlushKeepsCounts ==
  ASSUME FullInv, AskInv, lowd, ~jumped, FlushPacket
  PROVE  Counts'
<1>1. /\ cursor \in Held /\ cursor \in SeqNos /\ low \in SeqNos /\ pc = "flush"
      /\ TypeOK /\ CacheOrder /\ Counts /\ retries[cursor] = 0
      /\ \A x \in Missing : x \in SeqNos
      /\ \A h \in Held : h \in SeqNos
      /\ RequestAt \subseteq Nat \ {0}
  BY SequencerAssumption DEF FlushPacket, Held, Missing, FullInv, CacheInv, TypeOK, OrderInv,
     AskInv, RetriesOnlyForMissing
<1>2. /\ UNCHANGED <<low, pos, pc, retries, asked>>
      /\ cursor' = Plus(cursor, 1) /\ packets' = [packets EXCEPT ![cursor] = Absent]
  BY DEF FlushPacket
<1>3. \A x, y \in SeqNos : Dist(x, y) \in Nat
  BY DistType
<1>4. Dist(low, cursor') = Dist(low, cursor) + 1
  <2>1. Dist(low, cursor) < Modulus - 1
    <3>1. Dist(low, cursor) <= Window
      BY <1>1 DEF CacheOrder
    <3>. QED  BY <1>1, <1>3, <3>1, SeqNoAssumption, SequencerAssumption
  <2>. QED  BY <1>1, <1>2, <2>1, DistNext
<1>5. Held' = Held \ {cursor} /\ Missing' = Missing \union {cursor}
  <2>1. Held' = Held \ {cursor}
    BY <1>1, <1>2 DEF Held, TypeOK
  <2>. QED  BY <1>1, <2>1 DEF Missing
<1>6. Base = cursor /\ Base' = cursor'
  BY <1>1, <1>2 DEF Base
<1>7. \A x \in Missing' : x \in SeqNos /\ (x = cursor \/ x \in Missing)
  BY <1>1, <1>5
<1>8. ASSUME NEW x \in Missing', retries[x] > 0
      PROVE  /\ Dist(low, cursor') <= Dist(low, x)
             /\ \E h \in Held' : Dist(low, x) < Dist(low, h)
  <2>1. x \in Missing /\ x \in SeqNos /\ x # cursor
    BY <1>1, <1>5, <1>8
  <2>2. PICK h \in Held : Dist(low, cursor) <= Dist(low, x) /\ Dist(low, x) < Dist(low, h)
    BY <1>1, <1>6, <1>8, <2>1 DEF Counts, Below
  <2>3. Dist(low, cursor) # Dist(low, x)
    BY <1>1, <2>1, DistSame
  <2>4. h \in Held'
    BY <1>1, <1>3, <1>5, <2>1, <2>2
  <2>. QED  BY <1>1, <1>3, <1>4, <2>1, <2>2, <2>3, <2>4
<1>9. ASSUME NEW x \in Missing', NEW y \in Missing',
             Dist(low, cursor') <= Dist(low, x), Dist(low, x) < Dist(low, y),
             NEW g \in Held', Dist(low, y) < Dist(low, g),
             \A h \in Held' : Dist(low, h) < Dist(low, x) \/ Dist(low, y) < Dist(low, h)
      PROVE  retries[x] = retries[y]
  <2>1. x \in SeqNos /\ y \in SeqNos
    BY <1>7
  <2>2. Dist(low, cursor) < Dist(low, x)
    BY <1>1, <1>3, <1>4, <1>9, <2>1
  <2>3. x \in Missing /\ y \in Missing
    BY <1>1, <1>3, <1>7, <1>9, <2>1, <2>2
  <2>4. \A h \in Held : Dist(low, h) < Dist(low, x) \/ Dist(low, y) < Dist(low, h)
    BY <1>5, <1>9, <2>2
  <2>5. Dist(low, Base) <= Dist(low, x)
    BY <1>1, <1>3, <1>6, <2>1, <2>2
  <2>6. Below(y)
    BY <1>5, <1>9 DEF Below
  <2>. QED  BY <1>1, <1>9, <2>3, <2>4, <2>5, <2>6 DEF Counts
<1>10. ASSUME NEW x \in Missing', NEW t \in RequestAt, retries[x] >= t
       PROVE  <<PositionOf(x), t>> \in asked
  <2>1. x \in Missing
    BY <1>1, <1>7, <1>10
  <2>. QED  BY <1>1, <1>10, <2>1 DEF Counts
<1>11. \A x : PositionOf(x)' = PositionOf(x)
  BY <1>2 DEF PositionOf
<1>12. \A x : Below(x)' <=> \E h \in Held' : Dist(low, x) < Dist(low, h)
  BY <1>2 DEF Below
<1>. QED  BY <1>2, <1>6, <1>8, <1>9, <1>10, <1>11, <1>12 DEF Counts

\* Every step keeps the counts in step with the requests.
LEMMA AskStep ==
  ASSUME PrintLimit >= Window, FullInv, WalkInv, AskInv, [Next]_vars
  PROVE  /\ AskInv'
         /\ pc = "scan" /\ pos' # pos /\ ~jumped' =>
              (pos .. pos' - 1) \X RequestAt \subseteq asked
<1>1. /\ TypeOK /\ (lowd /\ ~jumped => CacheOrder /\ Counts)
      /\ (~lowd => pc \in {"select", "stopped"} /\ Held = {})
  BY DEF FullInv, CacheInv, OrderInv, AskInv
<1>2. CASE DataPacket \/ RecoveryPacket
  <2>1. PICK i \in Positions, recovery \in BOOLEAN : Near(i) /\ Handle(i, recovery)
    BY <1>2 DEF DataPacket, RecoveryPacket
  <2>2. lowd' = TRUE /\ jumped' = jumped /\ pc = "select"
    BY <2>1 DEF Handle
  <2>3. ~jumped => Counts'
    BY <2>1, HandleKeepsCounts
  <2>. QED  BY <2>2, <2>3 DEF AskInv
<1>3. CASE Timeout \/ ScanEnd
  <2>1. /\ UNCHANGED <<lowd, low, retries, packets, pos, asked, jumped>> /\ lowd
        /\ Base = low /\ Base' = low
    BY <1>1, <1>3 DEF Timeout, ScanEnd, history, Base, InRecovery
  <2>2. Held' = Held /\ Missing' = Missing
    BY <2>1 DEF Held, Missing
  <2>3. /\ \A x : PositionOf(x)' = PositionOf(x)
        /\ \A x : Below(x)' = Below(x)
    BY <2>1, <2>2 DEF PositionOf, Below
  <2>4. Counts => Counts'
    BY <2>1, <2>2, <2>3 DEF Counts
  <2>. QED  BY <2>1, <2>4 DEF AskInv
<1>4. CASE FlushPacket
  <2>1. lowd' = lowd /\ jumped' = jumped /\ pc = "flush" /\ lowd
    BY <1>1, <1>4 DEF FlushPacket
  <2>2. ~jumped => Counts'
    BY <1>4, <2>1, FlushKeepsCounts
  <2>. QED  BY <2>1, <2>2 DEF AskInv
<1>5. CASE FlushEnd
  <2>1. /\ pc = "flush" /\ lowd /\ low' = cursor /\ pos' = PositionOf(cursor)
        /\ asked' = {a \in asked : a[1] >= pos'} /\ pc' = "select"
        /\ UNCHANGED <<lowd, retries, packets, jumped>> /\ Base = cursor
        /\ cursor \in SeqNos
    BY <1>1, <1>5 DEF FlushEnd, PositionOf, Base, TypeOK
  <2>2. ASSUME ~jumped PROVE Counts'
    <3>1. Held' = Held
      BY <2>1 DEF Held
    <3>2. \A h \in Held : Dist(low, cursor) <= Dist(low, h)
      BY <1>1, <2>1, <2>2 DEF CacheOrder
    <3>3. Counts
      BY <1>1, <2>1, <2>2
    <3>4. low \in SeqNos /\ Dist(low, cursor) \in Nat
      BY <1>1, <2>1, DistType DEF TypeOK
    <3>5. \A x \in SeqNos :
            /\ retries'[x] \in Nat
            /\ retries'[x] > 0 => retries'[x] = retries[x] /\ Dist(low, cursor) <= Dist(low, x)
            /\ Dist(low, cursor) <= Dist(low, x) => retries'[x] = retries[x]
      <4>1. SUFFICES ASSUME NEW x \in SeqNos, retries[x] > 0
            PROVE  Dist(low, cursor) <= Dist(low, x)
        BY <1>1, <2>1 DEF TypeOK
      <4>2. x \in Missing
        BY <4>1 DEF Missing, FullInv, CacheInv, RetriesOnlyForMissing
      <4>. QED  BY <2>1, <3>3, <4>1, <4>2 DEF Counts
    <3>. QED  BY <1>1, <2>1, <3>1, <3>2, <3>3, <3>4, <3>5, LowKeepsCounts
  <2>. QED  BY <2>1, <2>2 DEF AskInv
<1>6. ASSUME NEW start \in Missing, NEW end \in Held,
             RequestGap(start, end) \/ CountGap(start, end)
      PROVE  AskInv' /\ pos' = pos
  <2>1. UNCHANGED <<lowd, jumped, pos>> /\ pc = "scan" /\ lowd
    BY <1>1, <1>6 DEF RequestGap, CountGap, NextGap
  <2>2. ASSUME ~jumped PROVE Counts'
    BY <1>1, <1>6, <2>1, <2>2, GapKeepsCounts DEF WalkInv
  <2>. QED  BY <2>1, <2>2 DEF AskInv
<1>7. ASSUME NEW start \in Missing, NEW end \in Held, GiveUpGap(start, end)
      PROVE  AskInv' /\ (~jumped' => (pos .. pos' - 1) \X RequestAt \subseteq asked)
  <2>1. lowd' = lowd /\ pc = "scan" /\ lowd
    BY <1>1, <1>7 DEF GiveUpGap, NextGap
  <2>2. ~jumped' => ~jumped
    BY <1>7 DEF GiveUpGap
  <2>3. ASSUME ~jumped'
        PROVE  Counts' /\ (pos .. pos' - 1) \X RequestAt \subseteq asked
    BY <1>1, <1>7, <2>1, <2>2, <2>3, GiveUpIsAsked DEF WalkInv
  <2>. QED  BY <2>1, <2>3 DEF AskInv
<1>8. CASE Restart
  BY <1>8 DEF Restart, AskInv
<1>9. CASE Shutdown \/ Transmit \/ Silence \/ UNCHANGED vars
  <2>1. /\ UNCHANGED <<lowd, low, retries, packets, pos, asked, jumped>>
        /\ Base' = Base
    BY <1>9 DEF Shutdown, Transmit, Silence, vars, code, history, Base
  <2>2. Held' = Held /\ Missing' = Missing
    BY <2>1 DEF Held, Missing
  <2>3. /\ \A x : PositionOf(x)' = PositionOf(x)
        /\ \A x : Below(x)' = Below(x)
    BY <2>1, <2>2 DEF PositionOf, Below
  <2>4. Counts => Counts'
    BY <2>1, <2>2, <2>3 DEF Counts
  <2>. QED  BY <2>1, <2>4 DEF AskInv
<1>10. CASE \E start \in Missing, end \in Held :
              RequestGap(start, end) \/ GiveUpGap(start, end) \/ CountGap(start, end)
  BY <1>6, <1>7, <1>10
<1>11. CASE Flush
  <2>1. pc = "flush"
    BY <1>11 DEF Flush, FlushPacket, FlushEnd
  <2>. QED  BY <1>4, <1>5, <1>11, <2>1 DEF Flush
<1>12. Timeout \/ ScanEnd \/ Restart \/ Shutdown \/ Transmit \/ Silence \/ UNCHANGED vars
       => pos' = pos \/ pc = "select"
  BY DEF Timeout, ScanEnd, Restart, Shutdown, Transmit, Silence, vars, history
<1>. QED
  BY <1>2, <1>3, <1>8, <1>9, <1>10, <1>11, <1>12 DEF Next, Scan

\* A position is skipped only after it has been asked for at every one of the
\* retry counts of sendReRequests, however its gap has been split, shrunk or
\* started by packets that arrived in between: as long as printState, which
\* counts a retry that sends nothing, is only for gaps longer than the window
\* packets arrive in (20000 against 8192 in the code).
THEOREM GivenUpIsAsked ==
  PrintLimit >= Window => (Spec => GiveUpOnlyAfterAsking)
<1>. SUFFICES ASSUME PrintLimit >= Window PROVE Spec => GiveUpOnlyAfterAsking
  OBVIOUS
<1>1. Init => AskInv
  BY DEF Init, AskInv
<1>2. FullInv /\ WalkInv /\ AskInv /\ [Next]_vars => AskInv'
  BY AskStep
<1>3. FullInv /\ WalkInv /\ AskInv /\ [Next]_vars =>
        [pc = "scan" /\ pos' # pos /\ ~jumped' =>
           (pos .. pos' - 1) \X RequestAt \subseteq asked]_vars
  BY AskStep
<1>. QED  BY <1>1, <1>2, <1>3, WalkInvariant, PTL DEF Spec, GiveUpOnlyAfterAsking
=============================================================================
