---------------------------- MODULE ServiceProofs ----------------------------
(***************************************************************************)
(* Proofs that the announcements agree with the collection of sinks, and   *)
(* that it implements the registry, for any number of clients, sinks,      *)
(* calls, providers and failures of these.                                 *)
(***************************************************************************)
EXTENDS Service, SequenceTheorems, TLAPS

\* Where a client has the mutex, and where it has a source to announce.
Inside == {"choose", "publish", "closing", "callback", "told"}
Placed == pc \in [Clients -> Inside \union {"idle", "register", "unregister", "close"}]
Announcing(c) == pc[c] \in {"choose", "publish"}
Closes(c) == pc[c] \in {"closing", "told"}

Owned == \A c \in Clients : pc[c] \in Inside <=> mutex = c

Named ==
  \A c \in Clients : pc[c] \in {"register", "unregister"} =>
    \E s \in Sinks : call[c] = {s}

\* The numbers in the map are those of the sinks.
Numbered == \A s \in Sinks : sources[s] # None => sinkOf[sources[s]] = s

\* What is announced can be withdrawn: the provider that Unpublish is going to
\* ask is the one that has announced it, whichever were tried before.
ProviderKnows == \A a \in announced : a[2] = zeroconf

\* The source to announce is the newest; nobody is announced before the provider
\* has been chosen.
Newest ==
  \A c \in Clients : Announcing(c) =>
    /\ sinkOf # <<>> /\ sources[sinkOf[Len(sinkOf)]] = Len(sinkOf)
    /\ pc[c] = "publish" => zeroconf # None
    /\ pc[c] = "choose" => announced = {}

\* Close has emptied the map, and has one source of a sink to withdraw.
Emptied ==
  /\ \A c \in Clients : Closes(c) => \A s \in Sinks : sources[s] = None
  /\ leaving # {} => \E c \in Clients : Closes(c)
  /\ \A m, n \in leaving : sinkOf[m] = sinkOf[n] => m = n

\* Who is announced is in the map or about to be withdrawn, and who is in the map
\* is announced or about to be.
Seen ==
  Withdraws => \A a \in announced : a[1] \in leaving \/ sources[sinkOf[a[1]]] = a[1]
Shown ==
  failures = 0 => \A s \in Sinks : sources[s] # None =>
    \/ \E a \in announced : a[1] = sources[s]
    \/ sources[s] = Len(sinkOf) /\ \E c \in Clients : Announcing(c)

Bounded == TypeOK /\ failures \in Nat
Map == Owned /\ Named /\ Numbered
Records == ProviderKnows /\ Newest /\ Emptied /\ Seen /\ Shown
ServiceInv == Bounded /\ Map /\ Records

-----------------------------------------------------------------------------
\* The invariant says what the runs check.
LEMMA InvSuffices ==
  ServiceInv => TypeOK /\ NetworkAgrees /\ OneRecord /\ ProviderKnows
<1>. SUFFICES ASSUME ServiceInv
              PROVE  TypeOK /\ NetworkAgrees /\ OneRecord /\ ProviderKnows
  OBVIOUS
<1>. USE DEF ServiceInv, Bounded, Map, Records
<1>1. \A a \in announced : /\ a[1] \in 1 .. Len(sinkOf) /\ a = <<a[1], a[2]>>
                           /\ sinkOf[a[1]] \in Sinks /\ a[1] # None
  <2>. TAKE a \in announced
  <2>1. a[1] \in 1 .. Len(sinkOf) /\ a = <<a[1], a[2]>>
    BY DEF TypeOK
  <2>2. sinkOf[a[1]] \in Sinks
    BY <2>1, ElementOfSeq DEF TypeOK
  <2>3. Len(sinkOf) \in Nat
    BY LenProperties DEF TypeOK
  <2>. QED  BY <2>1, <2>2, <2>3 DEF None
<1>2. NetworkAgrees
  <2>. SUFFICES ASSUME mutex = Nobody, ~ended
                PROVE  LET registered == {sources[s] : s \in Sinks} \ {None}
                           seen == {a[1] : a \in announced}
                       IN  /\ Withdraws => seen \subseteq registered
                           /\ failures = 0 => registered \subseteq seen
    BY DEF NetworkAgrees
  <2>1. \A c \in Clients : ~Announcing(c) /\ ~Closes(c)
    BY NobodyAssumption DEF Owned, Inside, Announcing, Closes
  <2>2. leaving = {}
    BY <2>1 DEF Emptied
  <2>. QED  BY <1>1, <2>1, <2>2 DEF Seen, Shown
<1>3. OneRecord
  <2>. SUFFICES ASSUME Withdraws, NEW a \in announced, NEW b \in announced,
                       sinkOf[a[1]] = sinkOf[b[1]]
                PROVE  a = b
    BY DEF OneRecord
  <2>1. a[2] = b[2]
    BY DEF ProviderKnows
  <2>2. CASE leaving = {}
    BY <1>1, <2>1, <2>2 DEF Seen
  <2>3. CASE leaving # {}
    <3>1. \A s \in Sinks : sources[s] = None
      BY <2>3 DEF Emptied
    <3>2. a[1] \in leaving /\ b[1] \in leaving
      BY <1>1, <3>1 DEF Seen
    <3>. QED  BY <1>1, <2>1, <3>2 DEF Emptied
  <2>. QED  BY <2>2, <2>3
<1>. QED  BY <1>2, <1>3

\* At the start there are no sinks.
LEMMA InitService == Init => ServiceInv
<1>. SUFFICES ASSUME Init
              PROVE  ServiceInv
  OBVIOUS
<1>. USE DEF Init, None
<1>1. TypeOK
  <2>1. 1 \in 1 .. Providers /\ 0 \in 0 .. Providers
    BY ServiceAssumption
  <2>2. <<>> \in Seq(Sinks) /\ Len(<<>>) = 0
    OBVIOUS
  <2>3. sources \in [Sinks -> 0 .. Len(sinkOf)]
    BY <2>2
  <2>4. announced \subseteq (1 .. Len(sinkOf)) \X (1 .. Providers)
      /\ leaving \subseteq 1 .. Len(sinkOf)
    OBVIOUS
  <2>. QED  BY <2>1, <2>2, <2>3, <2>4 DEF TypeOK
<1>2. Owned
  BY NobodyAssumption DEF Owned, Inside
<1>3. Named /\ Numbered
  BY DEF Named, Numbered
<1>4. Records
  BY DEF Records, ProviderKnows, Newest, Emptied, Seen, Shown, Announcing, Closes
<1>. QED  BY <1>1, <1>2, <1>3, <1>4, ServiceAssumption DEF ServiceInv, Bounded, Map

\* Who has the mutex is alone with it.
LEMMA Alone ==
  ASSUME ServiceInv, NEW c \in Clients, mutex \in {Nobody, c}
  PROVE  \A d \in Clients \ {c} : pc[d] \notin Inside
BY NobodyAssumption DEF ServiceInv, Map, Owned

\* A client whose call begins, or who finds its sink registered, has seen nothing.
LEMMA OutsideKeeps ==
  ASSUME ServiceInv, NEW c \in Clients, pc[c] \notin Inside,
         NEW where \in {"idle", "register", "unregister", "close"}, Goes(c, where),
         mutex' = mutex, call' \in [Clients -> SUBSET Sinks],
         \A d \in Clients \ {c} : call'[d] = call[d],
         where \in {"register", "unregister"} => \E s \in Sinks : call'[c] = {s},
         UNCHANGED <<sources, sinkOf, zeroconf, next, announced, leaving, bonjour,
                     cleaned, ended, failures>>
  PROVE  ServiceInv'
<1>. USE DEF ServiceInv, Bounded, Map, Records
<1>1. TypeOK'
  BY DEF TypeOK, Goes
<1>2. \A d \in Clients : /\ pc'[d] \in Inside <=> pc[d] \in Inside
                         /\ pc[d] \in Inside => pc'[d] = pc[d]
  BY DEF TypeOK, Goes, Inside
<1>3. Owned'
  BY <1>2 DEF Owned
<1>4. Named'
  BY DEF Named, TypeOK, Goes
<1>5. Numbered' /\ ProviderKnows' /\ Seen'
  BY DEF Numbered, ProviderKnows, Seen, Withdraws
<1>6. \A d \in Clients : Announcing(d)' <=> Announcing(d)
  BY <1>2 DEF Announcing, Inside
<1>7. \A d \in Clients : Closes(d)' <=> Closes(d)
  BY <1>2 DEF Closes, Inside
<1>8. Newest'
  BY <1>2, <1>6 DEF Newest, Inside
<1>9. Emptied' /\ Shown'
  BY <1>6, <1>7 DEF Emptied, Shown
<1>. QED  BY <1>1, <1>3, <1>4, <1>5, <1>8, <1>9

\* A client takes the mutex, keeps it or gives it back, and everybody else is
\* outside.
LEMMA Holds ==
  ASSUME ServiceInv, NEW c \in Clients, mutex \in {Nobody, c}, NEW where \in Inside \union {"idle"},
         Goes(c, where), mutex' = IF where = "idle" THEN Nobody ELSE c, UNCHANGED call
  PROVE  /\ Owned' /\ Named'
         /\ pc'[c] = where
         /\ \A d \in Clients \ {c} : pc'[d] = pc[d] /\ pc[d] \notin Inside
         /\ Placed'
         /\ mutex' \in Clients \union {Nobody}
         /\ call' \in [Clients -> SUBSET Sinks]
<1>. USE DEF ServiceInv, Bounded, TypeOK, Goes, Inside, Placed
<1>1. \A d \in Clients \ {c} : pc'[d] = pc[d] /\ pc[d] \notin Inside
  BY Alone
<1>2. pc'[c] = where
  OBVIOUS
<1>3. Owned'
  BY <1>1, <1>2, NobodyAssumption DEF Owned
<1>4. Named'
  BY <1>1, <1>2 DEF Named, Map
<1>5. Placed'
  OBVIOUS
<1>. QED  BY <1>1, <1>2, <1>3, <1>4, <1>5

\* With nobody inside, nothing is about to be withdrawn.
LEMMA Quiet ==
  ASSUME ServiceInv, mutex = Nobody
  PROVE  leaving = {} /\ \A c \in Clients : ~Announcing(c) /\ ~Closes(c)
BY NobodyAssumption DEF ServiceInv, Map, Records, Owned, Emptied, Inside, Announcing, Closes

\* Whom a call names.
LEMMA NamedIsSink ==
  ASSUME ServiceInv, NEW c \in Clients, pc[c] \in {"register", "unregister"}
  PROVE  NamedSink(c) \in Sinks
BY DEF ServiceInv, Map, Named, NamedSink

\* Who is announced has a number, and a sink.
LEMMA Announced ==
  ASSUME ServiceInv
  PROVE  /\ Len(sinkOf) \in Nat
         /\ \A n \in 1 .. Len(sinkOf) : sinkOf[n] \in Sinks
         /\ \A a \in announced : /\ a[1] \in 1 .. Len(sinkOf) /\ sinkOf[a[1]] \in Sinks
                                 /\ a = <<a[1], a[2]>> /\ a[2] \in 1 .. Providers
<1>1. sinkOf \in Seq(Sinks)
      /\ announced \subseteq (1 .. Len(sinkOf)) \X (1 .. Providers)
  BY DEF ServiceInv, Bounded, TypeOK
<1>2. Len(sinkOf) \in Nat /\ \A n \in 1 .. Len(sinkOf) : sinkOf[n] \in Sinks
  BY <1>1, ElementOfSeq, LenProperties
<1>. QED  BY <1>1, <1>2

-----------------------------------------------------------------------------
\* A new sink is in the map, with the next number, and is going to be announced.
LEMMA RegisterNewKeeps ==
  ASSUME ServiceInv, NEW c \in Clients, RegisterNew(c)
  PROVE  ServiceInv'
<1>. DEFINE s == NamedSink(c)
            n == Len(sinkOf) + 1
            where == IF zeroconf = None THEN "choose" ELSE "publish"
<1>1. /\ pc[c] = "register" /\ mutex = Nobody /\ mutex' = c /\ sources[s] = None
      /\ sources' = [sources EXCEPT ![s] = n] /\ sinkOf' = Append(sinkOf, s)
      /\ Goes(c, where) /\ next' = 1 /\ ended' \in BOOLEAN
      /\ UNCHANGED <<call, zeroconf, bonjour, announced, leaving, cleaned, calls, failures>>
  BY DEF RegisterNew, Lock, At, ServiceInv, Bounded, TypeOK, Ends
<1>2. s \in Sinks
  BY <1>1, NamedIsSink
<1>3. leaving = {} /\ \A d \in Clients : ~Announcing(d) /\ ~Closes(d)
  BY <1>1, Quiet
<1>. HIDE DEF s, n
<1>4. where \in Inside /\ where \in {"choose", "publish"}
  BY DEF Inside
<1>5. /\ Owned' /\ Named' /\ pc'[c] = where
      /\ \A d \in Clients \ {c} : pc'[d] = pc[d] /\ pc[d] \notin Inside
      /\ Placed'
      /\ mutex' \in Clients \union {Nobody} /\ call' \in [Clients -> SUBSET Sinks]
  <2>. HIDE DEF where
  <2>1. mutex' = IF where = "idle" THEN Nobody ELSE c
    BY <1>1, <1>4
  <2>. QED  BY <1>1, <1>4, <2>1, Holds
<1>6. sinkOf \in Seq(Sinks) /\ Len(sinkOf) \in Nat
  BY Announced DEF ServiceInv, Bounded, TypeOK
<1>7. /\ sinkOf' \in Seq(Sinks) /\ Len(sinkOf') = n /\ sinkOf' # <<>>
      /\ \A m \in 1 .. Len(sinkOf) : sinkOf'[m] = sinkOf[m]
      /\ sinkOf'[n] = s
  BY <1>1, <1>2, <1>6, AppendProperties DEF n
<1>8. n \in Nat /\ n # 0 /\ n \notin 1 .. Len(sinkOf)
      /\ 1 .. Len(sinkOf) \subseteq 1 .. Len(sinkOf')
      /\ 0 .. Len(sinkOf) \subseteq 0 .. Len(sinkOf')
      /\ n \in 0 .. Len(sinkOf')
  BY <1>6, <1>7 DEF n
<1>9. sources' \in [Sinks -> 0 .. Len(sinkOf')]
  BY <1>1, <1>2, <1>8 DEF ServiceInv, Bounded, TypeOK
<1>10. announced' \subseteq (1 .. Len(sinkOf')) \X (1 .. Providers)
  BY <1>1, <1>8 DEF ServiceInv, Bounded, TypeOK
<1>11. Bounded'
  <2>1. leaving' \subseteq 1 .. Len(sinkOf') /\ next' \in 1 .. Providers
    BY <1>1, <1>3, ServiceAssumption
  <2>. QED  BY <1>1, <1>5, <1>7, <1>9, <1>10, <2>1 DEF ServiceInv, Bounded, TypeOK, Placed, Inside
<1>12. \A r \in Sinks : r # s /\ sources[r] # None => sources[r] \in 1 .. Len(sinkOf)
  BY <1>6 DEF ServiceInv, Bounded, TypeOK, None
<1>13. Numbered'
  BY <1>1, <1>2, <1>7, <1>12 DEF ServiceInv, Map, Numbered, Bounded, TypeOK
<1>14. ProviderKnows'
  BY <1>1 DEF ServiceInv, Records, ProviderKnows
<1>15. zeroconf = None => announced = {}
  BY Announced DEF ServiceInv, Records, ProviderKnows, None
<1>16. \A d \in Clients \ {c} : ~Announcing(d)' /\ ~Closes(d)'
  BY <1>5 DEF Inside, Announcing, Closes
<1>17. Newest'
  <2>1. sources'[s] = n
    BY <1>1, <1>2 DEF ServiceInv, Bounded, TypeOK
  <2>2. where = "publish" => zeroconf # None
    OBVIOUS
  <2>3. where = "choose" => announced = {}
    BY <1>15
  <2>. HIDE DEF where
  <2>. QED  BY <1>1, <1>5, <1>7, <1>16, <2>1, <2>2, <2>3 DEF Newest
<1>18. Emptied'
  BY <1>1, <1>3, <1>4, <1>5, <1>16 DEF Emptied, Closes
<1>19. Seen'
  <2>. SUFFICES ASSUME Withdraws, NEW a \in announced
                PROVE  sources'[sinkOf'[a[1]]] = a[1]
    BY <1>1 DEF Seen, Withdraws
  <2>1. a[1] \in 1 .. Len(sinkOf) /\ sinkOf[a[1]] \in Sinks /\ a[1] # None
    BY Announced, <1>6 DEF None
  <2>2. sources[sinkOf[a[1]]] = a[1]
    BY <1>3 DEF ServiceInv, Records, Seen
  <2>. QED  BY <1>1, <1>7, <2>1, <2>2 DEF ServiceInv, Bounded, TypeOK
<1>20. Shown'
  <2>1. Announcing(c)'
    BY <1>4, <1>5 DEF Announcing
  <2>2. sources'[s] = Len(sinkOf')
    BY <1>1, <1>2, <1>7 DEF ServiceInv, Bounded, TypeOK
  <2>3. \A r \in Sinks \ {s} : sources'[r] = sources[r]
    BY <1>1, <1>2 DEF ServiceInv, Bounded, TypeOK
  <2>4. failures = 0 => \A r \in Sinks : sources[r] # None => \E a \in announced : a[1] = sources[r]
    BY <1>3 DEF ServiceInv, Records, Shown
  <2>. QED  BY <1>1, <2>1, <2>2, <2>3, <2>4 DEF Shown
<1>. QED  BY <1>5, <1>11, <1>13, <1>14, <1>17, <1>18, <1>19, <1>20 DEF ServiceInv, Map, Records

\* Who announces has the mutex, and nobody closes.
LEMMA AnnouncesAlone ==
  ASSUME ServiceInv, NEW c \in Clients, Announcing(c)
  PROVE  /\ mutex = c /\ leaving = {}
         /\ \A d \in Clients \ {c} : pc[d] \notin Inside
         /\ \A d \in Clients : Announcing(d) => d = c
         /\ \A d \in Clients : ~Closes(d)
BY Alone DEF ServiceInv, Map, Records, Owned, Emptied, Announcing, Closes, Inside

\* The newest source is announced by the provider that is the one from now on.
LEMMA Announces ==
  ASSUME ServiceInv, NEW c \in Clients, Announcing(c), NEW p \in 1 .. Providers,
         zeroconf' = p, pc[c] = "publish" => p = zeroconf,
         Publishes(p), Returns(c),
         UNCHANGED <<call, sources, sinkOf, bonjour, next, leaving, cleaned, failures>>
  PROVE  ServiceInv'
<1>1. /\ mutex = c /\ leaving = {}
      /\ \A d \in Clients \ {c} : pc[d] \notin Inside
      /\ \A d \in Clients : ~Closes(d)
  BY AnnouncesAlone
<1>2. /\ Owned' /\ Named' /\ pc'[c] = "idle" /\ mutex' = Nobody
      /\ \A d \in Clients \ {c} : pc'[d] = pc[d] /\ pc[d] \notin Inside
      /\ Placed'
      /\ call' \in [Clients -> SUBSET Sinks]
  BY <1>1, Holds DEF Returns
<1>3. \A d \in Clients : ~Announcing(d)' /\ ~Closes(d)'
  BY <1>2 DEF Announcing, Closes, Inside
<1>4. /\ sinkOf # <<>> /\ sources[sinkOf[Len(sinkOf)]] = Len(sinkOf)
      /\ pc[c] = "choose" => announced = {}
  BY DEF ServiceInv, Records, Newest
<1>5. Len(sinkOf) \in 1 .. Len(sinkOf) /\ Len(sinkOf) # None
  <2>1. sinkOf \in Seq(Sinks)
    BY DEF ServiceInv, Bounded, TypeOK
  <2>2. Len(sinkOf) \in Nat \ {0}
    BY <1>4, <2>1, EmptySeq
  <2>. QED  BY <2>2 DEF None
<1>6. announced' = announced \union {<<Len(sinkOf), p>>} /\ ended' \in BOOLEAN
  BY DEF Publishes
<1>7. Bounded'
  <2>1. announced' \subseteq (1 .. Len(sinkOf)) \X (1 .. Providers)
    BY <1>5, <1>6 DEF ServiceInv, Bounded, TypeOK
  <2>2. zeroconf' \in 0 .. Providers
    BY ServiceAssumption
  <2>. QED  BY <1>2, <1>6, <2>1, <2>2 DEF ServiceInv, Bounded, TypeOK, Placed, Inside
<1>8. \A a \in announced : a[2] = p
  BY <1>4 DEF ServiceInv, Records, ProviderKnows, Announcing
<1>9. Numbered' /\ ProviderKnows' /\ Newest'
  BY <1>3, <1>6, <1>8 DEF ServiceInv, Map, Numbered, ProviderKnows, Newest
<1>10. Emptied'
  BY <1>1, <1>3 DEF Emptied
<1>11. Seen'
  <2>. SUFFICES ASSUME Withdraws', NEW a \in announced'
                PROVE  sources[sinkOf[a[1]]] = a[1]
    BY DEF Seen
  <2>1. CASE a = <<Len(sinkOf), p>>
    BY <1>4, <2>1
  <2>2. CASE a \in announced
    <3>1. p = zeroconf
      BY <1>4, <2>2 DEF Announcing
    <3>2. Withdraws
      BY <3>1 DEF Withdraws
    <3>. QED  BY <1>1, <2>2, <3>2 DEF ServiceInv, Records, Seen
  <2>. QED  BY <1>6, <2>1, <2>2
<1>12. Shown'
  <2>. SUFFICES ASSUME failures = 0, NEW s \in Sinks, sources[s] # None
                PROVE  \E a \in announced' : a[1] = sources[s]
    BY DEF Shown
  <2>1. CASE sources[s] = Len(sinkOf)
    <3>1. <<Len(sinkOf), p>> \in announced'
      BY <1>6
    <3>. QED  BY <2>1, <3>1
  <2>2. CASE sources[s] # Len(sinkOf)
    <3>1. \E a \in announced : a[1] = sources[s]
      BY <2>2 DEF ServiceInv, Records, Shown
    <3>. QED  BY <1>6, <3>1
  <2>. QED  BY <2>1, <2>2
<1>. QED  BY <1>2, <1>7, <1>9, <1>10, <1>11, <1>12 DEF ServiceInv, Map, Records

\* The first announcement chooses the provider.
LEMMA ChooseKeeps ==
  ASSUME ServiceInv, NEW c \in Clients, ChooseProvider(c)
  PROVE  ServiceInv'
<1>1. pc[c] = "choose" /\ Announcing(c) /\ next \in 1 .. Providers
      /\ UNCHANGED <<call, sources, sinkOf, bonjour, leaving, cleaned, calls>>
  BY DEF ChooseProvider, At, Announcing, ServiceInv, Bounded, TypeOK
<1>2. CASE zeroconf' = next /\ Publishes(next) /\ Returns(c) /\ UNCHANGED <<next, failures>>
  BY <1>1, <1>2, Announces
<1>3. CASE /\ next # Pure /\ Fails /\ zeroconf' \in {None, next} /\ next' = next + 1
           /\ UNCHANGED <<pc, mutex, announced, ended>>
  <2>1. announced = {} /\ leaving = {}
    BY <1>1, AnnouncesAlone DEF ServiceInv, Records, Newest
  <2>2. next' \in 1 .. Providers /\ zeroconf' \in 0 .. Providers
    BY <1>1, <1>3, ServiceAssumption DEF Pure, None
  <2>3. failures' \in Nat /\ failures' # 0
    BY <1>3 DEF Fails, ServiceInv, Bounded
  <2>4. Bounded' /\ Map'
    BY <1>1, <1>3, <2>2, <2>3 DEF ServiceInv, Bounded, TypeOK, Map, Owned, Named, Numbered
  <2>5. \A d \in Clients : Announcing(d) => pc[d] = "choose"
    BY <1>1, AnnouncesAlone
  <2>6. Newest'
    BY <1>1, <1>3, <2>5 DEF ServiceInv, Records, Newest, Announcing
  <2>7. ProviderKnows' /\ Emptied' /\ Seen' /\ Shown'
    BY <1>1, <1>3, <2>1, <2>3
       DEF ServiceInv, Records, ProviderKnows, Emptied, Closes, Seen, Shown
  <2>. QED  BY <2>4, <2>6, <2>7 DEF ServiceInv, Records
<1>. QED  BY <1>2, <1>3 DEF ChooseProvider

\* Later ones use it, and may fail.
LEMMA PublishKeeps ==
  ASSUME ServiceInv, NEW c \in Clients, Publish(c)
  PROVE  ServiceInv'
<1>1. /\ pc[c] = "publish" /\ Announcing(c) /\ Returns(c)
      /\ UNCHANGED <<call, sources, sinkOf, bonjour, zeroconf, next, leaving, cleaned>>
  BY DEF Publish, At, Announcing
<1>2. zeroconf \in 1 .. Providers
  BY <1>1, ServiceAssumption DEF ServiceInv, Bounded, TypeOK, Records, Newest, None
<1>3. CASE Publishes(zeroconf) /\ UNCHANGED failures
  BY <1>1, <1>2, <1>3, Announces
<1>4. CASE Fails /\ UNCHANGED <<announced, ended>>
  <2>1. /\ mutex = c /\ leaving = {}
        /\ \A d \in Clients \ {c} : pc[d] \notin Inside
    BY <1>1, AnnouncesAlone
  <2>2. /\ Owned' /\ Named' /\ pc'[c] = "idle" /\ mutex' = Nobody
        /\ \A d \in Clients \ {c} : pc'[d] = pc[d] /\ pc[d] \notin Inside
        /\ Placed'
        /\ call' \in [Clients -> SUBSET Sinks]
    BY <1>1, <2>1, Holds DEF Returns
  <2>3. \A d \in Clients : ~Announcing(d)' /\ ~Closes(d)'
    BY <2>2 DEF Announcing, Closes, Inside
  <2>4. failures' \in Nat /\ failures' # 0
    BY <1>4 DEF Fails, ServiceInv, Bounded
  <2>5. Bounded' /\ Numbered'
    BY <1>1, <1>4, <2>2, <2>4 DEF ServiceInv, Bounded, TypeOK, Placed, Inside, Map, Numbered
  <2>6. ProviderKnows' /\ Newest' /\ Emptied' /\ Seen' /\ Shown'
    BY <1>1, <1>4, <2>1, <2>3, <2>4
       DEF ServiceInv, Records, ProviderKnows, Newest, Emptied, Seen, Withdraws, Shown
  <2>. QED  BY <2>2, <2>5, <2>6 DEF ServiceInv, Map, Records
<1>. QED  BY <1>3, <1>4 DEF Publish

\* A sink leaves the map, and its source the network.
LEMMA UnregisterKeeps ==
  ASSUME ServiceInv, NEW c \in Clients, Unregister(c)
  PROVE  ServiceInv'
<1>. DEFINE s == NamedSink(c)
            n == sources[s]
<1>1. /\ pc[c] = "unregister" /\ mutex = Nobody /\ mutex' = c
      /\ sources' = [sources EXCEPT ![s] = None]
      /\ announced' = IF Withdraws THEN announced \ {<<n, zeroconf>>} ELSE announced
      /\ Goes(c, "callback") /\ ended' \in BOOLEAN
      /\ UNCHANGED <<call, sinkOf, bonjour, zeroconf, next, leaving, cleaned, failures>>
  BY DEF Unregister, Unpublishes, Lock, At, ServiceInv, Bounded, TypeOK, Ends
<1>2. s \in Sinks
  BY <1>1, NamedIsSink
<1>3. leaving = {} /\ \A d \in Clients : ~Announcing(d) /\ ~Closes(d)
  BY <1>1, Quiet
<1>. HIDE DEF s
<1>4. /\ Owned' /\ Named' /\ pc'[c] = "callback"
      /\ \A d \in Clients \ {c} : pc'[d] = pc[d] /\ pc[d] \notin Inside
      /\ Placed'
      /\ mutex' \in Clients \union {Nobody} /\ call' \in [Clients -> SUBSET Sinks]
  BY <1>1, Holds DEF Inside
<1>5. \A d \in Clients : ~Announcing(d)' /\ ~Closes(d)'
  BY <1>4 DEF Announcing, Closes, Inside
<1>6. /\ sources'[s] = None /\ \A r \in Sinks \ {s} : sources'[r] = sources[r]
      /\ sources' \in [Sinks -> 0 .. Len(sinkOf)]
  BY <1>1, <1>2, Announced DEF ServiceInv, Bounded, TypeOK, None
<1>7. announced' \subseteq announced
  BY <1>1
<1>8. Bounded' /\ Numbered'
  BY <1>1, <1>4, <1>6, <1>7 DEF ServiceInv, Bounded, TypeOK, Placed, Inside, Map, Numbered
<1>9. ProviderKnows' /\ Newest' /\ Emptied'
  BY <1>1, <1>3, <1>5, <1>7 DEF ServiceInv, Records, ProviderKnows, Newest, Emptied
<1>10. Seen'
  <2>. SUFFICES ASSUME Withdraws, NEW a \in announced'
                PROVE  sources'[sinkOf[a[1]]] = a[1]
    BY <1>1 DEF Seen, Withdraws
  <2>1. a \in announced /\ a # <<n, zeroconf>> /\ a[2] = zeroconf
    BY <1>1 DEF ServiceInv, Records, ProviderKnows
  <2>2. sinkOf[a[1]] \in Sinks /\ a = <<a[1], a[2]>> /\ sources[sinkOf[a[1]]] = a[1]
    BY <1>3, <2>1, Announced DEF ServiceInv, Records, Seen
  <2>3. a[1] # n
    BY <2>1, <2>2
  <2>. QED  BY <1>6, <2>2, <2>3
<1>11. Shown'
  <2>. SUFFICES ASSUME failures = 0, NEW r \in Sinks, sources'[r] # None
                PROVE  \E a \in announced' : a[1] = sources'[r]
    BY <1>1 DEF Shown
  <2>1. r # s /\ sources'[r] = sources[r] /\ sources[r] # None
    BY <1>6
  <2>2. PICK a \in announced : a[1] = sources[r]
    BY <1>3, <2>1 DEF ServiceInv, Records, Shown
  <2>3. sources[r] # n
    <3>1. CASE n = None
      BY <2>1, <3>1
    <3>2. CASE n # None
      BY <1>2, <2>1, <3>2 DEF ServiceInv, Map, Numbered
    <3>. QED  BY <3>1, <3>2
  <2>4. a # <<n, zeroconf>>
    BY <2>2, <2>3
  <2>. QED  BY <1>1, <2>1, <2>2, <2>4
<1>. QED  BY <1>4, <1>8, <1>9, <1>10, <1>11 DEF ServiceInv, Map, Records

\* Close takes the map, and leaves an empty one.
LEMMA CloseKeeps ==
  ASSUME ServiceInv, NEW c \in Clients, Close(c)
  PROVE  ServiceInv'
<1>1. /\ mutex = Nobody /\ mutex' = c /\ Goes(c, "closing")
      /\ leaving' = {sources[s] : s \in Sinks} \ {None}
      /\ sources' = [s \in Sinks |-> None]
      /\ UNCHANGED <<call, sinkOf, bonjour, zeroconf, next, announced, cleaned, ended, failures>>
  BY DEF Close, Lock
<1>2. leaving = {} /\ \A d \in Clients : ~Announcing(d) /\ ~Closes(d)
  BY <1>1, Quiet
<1>3. /\ Owned' /\ Named' /\ pc'[c] = "closing"
      /\ \A d \in Clients \ {c} : pc'[d] = pc[d] /\ pc[d] \notin Inside
      /\ Placed'
      /\ mutex' \in Clients \union {Nobody} /\ call' \in [Clients -> SUBSET Sinks]
  BY <1>1, Holds DEF Inside
<1>4. \A d \in Clients : ~Announcing(d)'
  BY <1>3 DEF Announcing, Inside
<1>5. Closes(c)'
  BY <1>3 DEF Closes
<1>6. \A s \in Sinks : sources'[s] = None
  BY <1>1
<1>7. leaving' \subseteq 1 .. Len(sinkOf) /\ sources' \in [Sinks -> 0 .. Len(sinkOf)]
  BY <1>1, Announced DEF ServiceInv, Bounded, TypeOK, None
<1>8. Bounded' /\ Numbered'
  BY <1>1, <1>3, <1>6, <1>7 DEF ServiceInv, Bounded, TypeOK, Placed, Inside, Numbered
<1>9. ProviderKnows' /\ Newest'
  BY <1>1, <1>4 DEF ServiceInv, Records, ProviderKnows, Newest
<1>10. Emptied'
  <2>. SUFFICES ASSUME NEW m \in leaving', NEW k \in leaving', sinkOf[m] = sinkOf[k]
                PROVE  m = k
    BY <1>1, <1>5, <1>6 DEF Emptied
  <2>1. PICK s \in Sinks, r \in Sinks : m = sources[s] /\ k = sources[r]
    BY <1>1
  <2>2. sinkOf[m] = s /\ sinkOf[k] = r
    BY <1>1, <2>1 DEF ServiceInv, Map, Numbered
  <2>. QED  BY <2>1, <2>2
<1>11. Seen'
  <2>. SUFFICES ASSUME Withdraws, NEW a \in announced
                PROVE  a[1] \in leaving'
    BY <1>1 DEF Seen, Withdraws
  <2>1. sinkOf[a[1]] \in Sinks /\ a[1] # None /\ sources[sinkOf[a[1]]] = a[1]
    BY <1>2, Announced DEF ServiceInv, Records, Seen, None
  <2>. QED  BY <1>1, <2>1
<1>12. Shown'
  BY <1>6 DEF Shown
<1>. QED  BY <1>3, <1>8, <1>9, <1>10, <1>11, <1>12 DEF ServiceInv, Map, Records

\* Who closes has the mutex, and nobody announces.
LEMMA ClosesAlone ==
  ASSUME ServiceInv, NEW c \in Clients, Closes(c)
  PROVE  /\ mutex = c /\ \A s \in Sinks : sources[s] = None
         /\ \A d \in Clients \ {c} : pc[d] \notin Inside
         /\ \A d \in Clients : ~Announcing(d)
BY Alone DEF ServiceInv, Map, Records, Owned, Emptied, Announcing, Closes, Inside

\* Close withdraws one source after the other.
LEMMA CloseNextKeeps ==
  ASSUME ServiceInv, NEW c \in Clients, CloseNext(c)
  PROVE  ServiceInv'
<1>. PICK n \in leaving :
       /\ pc[c] = "closing" /\ leaving' = leaving \ {n}
       /\ announced' = IF Withdraws THEN announced \ {<<n, zeroconf>>} ELSE announced
       /\ Goes(c, "told") /\ ended' \in BOOLEAN
       /\ UNCHANGED <<call, mutex, sources, sinkOf, bonjour, zeroconf, next, cleaned, failures>>
  BY DEF CloseNext, At, Unpublishes, Ends, ServiceInv, Bounded, TypeOK
<1>1. Closes(c)
  BY DEF Closes
<1>2. /\ mutex = c /\ \A s \in Sinks : sources[s] = None
      /\ \A d \in Clients \ {c} : pc[d] \notin Inside
  BY <1>1, ClosesAlone
<1>3. /\ Owned' /\ Named' /\ pc'[c] = "told"
      /\ \A d \in Clients \ {c} : pc'[d] = pc[d] /\ pc[d] \notin Inside
      /\ Placed'
      /\ mutex' \in Clients \union {Nobody} /\ call' \in [Clients -> SUBSET Sinks]
  BY <1>2, Holds DEF Inside
<1>4. Closes(c)' /\ \A d \in Clients : ~Announcing(d)'
  BY <1>3 DEF Announcing, Closes, Inside
<1>5. Bounded' /\ Numbered'
  BY <1>3 DEF ServiceInv, Bounded, TypeOK, Placed, Inside, Map, Numbered
<1>6. ProviderKnows' /\ Newest' /\ Emptied' /\ Shown'
  BY <1>2, <1>4 DEF ServiceInv, Records, ProviderKnows, Newest, Emptied, Shown
<1>7. Seen'
  <2>. SUFFICES ASSUME Withdraws, NEW a \in announced'
                PROVE  a[1] \in leaving'
    BY DEF Seen, Withdraws
  <2>1. a \in announced /\ a # <<n, zeroconf>> /\ a[2] = zeroconf
    BY DEF ServiceInv, Records, ProviderKnows
  <2>2. sinkOf[a[1]] \in Sinks /\ a = <<a[1], a[2]>> /\ a[1] # None
    BY <2>1, Announced DEF None
  <2>3. a[1] \in leaving
    BY <1>2, <2>1, <2>2 DEF ServiceInv, Records, Seen
  <2>. QED  BY <2>1, <2>2, <2>3
<1>. QED  BY <1>3, <1>5, <1>6, <1>7 DEF ServiceInv, Map, Records

\* Close ends, or a callback returns: nothing is left to withdraw, or it goes on.
LEMMA EndsKeep ==
  ASSUME ServiceInv, NEW c \in Clients, CloseEnd(c) \/ ClosedReturns(c)
  PROVE  ServiceInv'
<1>1. CASE CloseEnd(c)
  <2>1. /\ Closes(c) /\ leaving = {} /\ Returns(c)
        /\ announced' \subseteq announced /\ cleaned' \in BOOLEAN /\ ended' \in BOOLEAN
        /\ UNCHANGED <<call, sources, sinkOf, bonjour, zeroconf, next, leaving, failures>>
    BY <1>1 DEF CloseEnd, At, Closes, Ends, ServiceInv, Bounded, TypeOK
  <2>2. mutex = c /\ \A s \in Sinks : sources[s] = None
    BY <2>1, ClosesAlone
  <2>3. /\ Owned' /\ Named' /\ pc'[c] = "idle"
        /\ \A d \in Clients \ {c} : pc'[d] = pc[d] /\ pc[d] \notin Inside
        /\ Placed'
        /\ mutex' \in Clients \union {Nobody} /\ call' \in [Clients -> SUBSET Sinks]
    BY <2>1, <2>2, Holds DEF Returns
  <2>4. \A d \in Clients : ~Announcing(d)' /\ ~Closes(d)'
    BY <2>3 DEF Announcing, Closes, Inside
  <2>5. Bounded' /\ Numbered'
    BY <2>1, <2>3 DEF ServiceInv, Bounded, TypeOK, Placed, Inside, Map, Numbered
  <2>6. ProviderKnows' /\ Newest' /\ Emptied' /\ Seen' /\ Shown'
    BY <2>1, <2>2, <2>4
       DEF ServiceInv, Records, ProviderKnows, Newest, Emptied, Seen, Withdraws, Shown
  <2>. QED  BY <2>3, <2>5, <2>6 DEF ServiceInv, Map, Records
<1>2. CASE At(c, "told") /\ Goes(c, "closing") /\ UNCHANGED mutex /\ ClosedReturns(c)
  <2>1. Closes(c) /\ pc[c] = "told"
    BY <1>2 DEF Closes, At
  <2>2. UNCHANGED <<call, sources, sinkOf, bonjour, zeroconf, next, announced, leaving,
                    cleaned, ended, failures>>
    BY <1>2 DEF ClosedReturns
  <2>3. mutex = c
    BY <2>1, ClosesAlone
  <2>4. /\ Owned' /\ Named' /\ pc'[c] = "closing"
        /\ \A d \in Clients \ {c} : pc'[d] = pc[d] /\ pc[d] \notin Inside
        /\ Placed'
    BY <1>2, <2>2, <2>3, Holds DEF Inside
  <2>5. \A d \in Clients : (Announcing(d)' <=> Announcing(d)) /\ (Closes(d)' <=> Closes(d))
    BY <2>1, <2>4 DEF Announcing, Closes
  <2>6. \A d \in Clients : ~Announcing(d)
    BY <2>1, ClosesAlone
  <2>7. Bounded' /\ Numbered'
    BY <1>2, <2>2, <2>4 DEF ServiceInv, Bounded, TypeOK, Placed, Inside, Map, Numbered
  <2>8. ProviderKnows' /\ Newest' /\ Emptied' /\ Seen' /\ Shown'
    BY <2>2, <2>5, <2>6
       DEF ServiceInv, Records, ProviderKnows, Newest, Emptied, Seen, Withdraws, Shown
  <2>. QED  BY <2>4, <2>7, <2>8 DEF ServiceInv, Map, Records
<1>3. CASE Returned(c) /\ ClosedReturns(c)
  <2>1. pc[c] = "callback" /\ Returns(c)
    BY <1>3 DEF Returned, At
  <2>2. UNCHANGED <<call, sources, sinkOf, bonjour, zeroconf, next, announced, leaving,
                    cleaned, ended, failures>>
    BY <1>3 DEF ClosedReturns
  <2>3. mutex = c
    BY <2>1 DEF ServiceInv, Map, Owned, Inside
  <2>4. /\ Owned' /\ Named' /\ pc'[c] = "idle" /\ mutex' = Nobody
        /\ \A d \in Clients \ {c} : pc'[d] = pc[d] /\ pc[d] \notin Inside
        /\ Placed'
    BY <2>1, <2>2, <2>3, Holds DEF Returns
  <2>5. \A d \in Clients : ~Announcing(d) /\ ~Closes(d) /\ ~Announcing(d)' /\ ~Closes(d)'
    BY <2>1, <2>4 DEF Announcing, Closes, Inside
  <2>7. Bounded' /\ Numbered'
    BY <2>2, <2>4 DEF ServiceInv, Bounded, TypeOK, Placed, Inside, Map, Numbered
  <2>8. ProviderKnows' /\ Newest' /\ Emptied' /\ Seen' /\ Shown'
    BY <2>2, <2>5
       DEF ServiceInv, Records, ProviderKnows, Newest, Emptied, Seen, Withdraws, Shown
  <2>. QED  BY <2>4, <2>7, <2>8 DEF ServiceInv, Map, Records
<1>. QED  BY <1>1, <1>2, <1>3 DEF ClosedReturns

-----------------------------------------------------------------------------
\* Every step keeps the invariant.
LEMMA ServiceInvariant == Spec => []ServiceInv
<1>1. ServiceInv /\ [Next]_vars => ServiceInv'
  <2>. SUFFICES ASSUME ServiceInv, [Next]_vars
                PROVE  ServiceInv'
    OBVIOUS
  <2>1. ASSUME NEW c \in Clients, Calls(c)
        PROVE  ServiceInv'
    <3>1. PICK op \in {"register", "unregister", "close"}, named \in SUBSET Sinks :
            /\ Call(c, op, named)
            /\ op \in {"register", "unregister"} => \E s \in Sinks : named = {s}
      BY <2>1 DEF Calls
    <3>2. /\ pc[c] = "idle" /\ Goes(c, op) /\ call' = [call EXCEPT ![c] = named]
          /\ UNCHANGED <<mutex, sources, sinkOf, bonjour, zeroconf, next, announced, leaving,
                         cleaned, ended, failures>>
      BY <3>1 DEF Call, At
    <3>3. /\ call' \in [Clients -> SUBSET Sinks] /\ call'[c] = named
          /\ \A d \in Clients \ {c} : call'[d] = call[d]
      BY <3>2 DEF ServiceInv, Bounded, TypeOK
    <3>. QED  BY <3>1, <3>2, <3>3, OutsideKeeps DEF Inside
  <2>2. ASSUME NEW c \in Clients, RegisterKnown(c)
        PROVE  ServiceInv'
    <3>1. /\ pc[c] = "register" /\ Goes(c, "idle") /\ mutex' = mutex
          /\ UNCHANGED <<call, sources, sinkOf, bonjour, zeroconf, next, announced, leaving,
                         cleaned, ended, failures>>
      BY <2>2 DEF RegisterKnown, Returns, At
    <3>2. call' \in [Clients -> SUBSET Sinks]
      BY <3>1 DEF ServiceInv, Bounded, TypeOK
    <3>. QED  BY <3>1, <3>2, OutsideKeeps DEF Inside
  <2>3. ASSUME NEW c \in Clients, Enters(c) \/ GoesOn(c)
        PROVE  ServiceInv'
    BY <2>2, <2>3, RegisterNewKeeps, UnregisterKeeps, CloseKeeps, ChooseKeeps, PublishKeeps,
       CloseNextKeeps, EndsKeep DEF Enters, GoesOn
  <2>4. CASE RtspRequest
    BY <2>4 DEF RtspRequest, Ends, ServiceInv, Bounded, TypeOK, Map, Owned, Named, Numbered,
       Records, ProviderKnows, Newest, Emptied, Seen, Shown, Withdraws, Announcing, Closes
  <2>5. CASE UNCHANGED vars
    BY <2>5 DEF vars, ServiceInv, Bounded, TypeOK, Map, Owned, Named, Numbered,
       Records, ProviderKnows, Newest, Emptied, Seen, Shown, Withdraws, Announcing, Closes
  <2>. QED  BY <2>1, <2>3, <2>4, <2>5 DEF Next
<1>. QED  BY <1>1, InitService, PTL DEF Spec

\* Every variable keeps its type (Spec => []TypeOK).
THEOREM ServiceTypes == Spec => []TypeOK
BY ServiceInvariant, InvSuffices, PTL

\* After every call the network sees the sinks that are in the collection, and no
\* other, however the calls of many goroutines are interleaved
\* (Spec => []NetworkAgrees).
THEOREM NetworkFollows == Spec => []NetworkAgrees
BY ServiceInvariant, InvSuffices, PTL

\* A sink has one record at a time, however often it comes and goes
\* (Spec => []OneRecord).
THEOREM RecordsAreSingle == Spec => []OneRecord
BY ServiceInvariant, InvSuffices, PTL

\* The provider that is asked to withdraw a record is the one that has announced
\* it, whichever have failed (Spec => []ProviderKnows).
THEOREM ProviderIsAsked == Spec => []ProviderKnows
BY ServiceInvariant, InvSuffices, PTL

-----------------------------------------------------------------------------
(***************************************************************************)
(* The calls take effect one after the other: module Registry.             *)
(***************************************************************************)
LEMMA InitRegistry == Init => Collection!Init
<1>. SUFFICES ASSUME Init
              PROVE  Collection!Init
  OBVIOUS
<1>1. Held = {}
  BY DEF Init, Held
<1>2. InView = {}
  BY DEF Init, InView, Visible
<1>3. ~Chosen /\ Withdraws
  BY DEF Init, Chosen, Withdraws
<1>. QED  BY <1>1, <1>2, <1>3 DEF Collection!Init

\* What the callers do not see.
LEMMA Unseen ==
  ASSUME UNCHANGED <<sources, sinkOf, zeroconf, announced, leaving, bonjour>>,
         \A d \in Clients : /\ pc'[d] = "choose" <=> pc[d] = "choose"
                            /\ pc'[d] = "publish" <=> pc[d] = "publish"
  PROVE  UNCHANGED Collection!vars
<1>1. Held' = Held
  BY DEF Held
<1>2. Withdraws' = Withdraws
  BY DEF Withdraws
<1>3. InView' = InView
  BY <1>2 DEF InView, Visible
<1>4. Chosen' = Chosen
  BY DEF Chosen
<1>. QED  BY <1>1, <1>2, <1>3, <1>4 DEF Collection!vars

\* While nobody is inside, everything in the map is held, and all that is announced
\* is seen.
LEMMA AtRest ==
  ASSUME ServiceInv, mutex = Nobody
  PROVE  /\ Held = {s \in Sinks : sources[s] # None}
         /\ Visible = announced
         /\ zeroconf # None <=> Chosen
<1>1. leaving = {} /\ \A c \in Clients : pc[c] \notin {"choose", "publish"}
  BY Quiet DEF Announcing
<1>. QED  BY <1>1 DEF Held, Visible, Chosen

\* A new sink is not held yet.
LEMMA RegisterNewUnseen ==
  ASSUME ServiceInv, NEW c \in Clients, RegisterNew(c)
  PROVE  UNCHANGED Collection!vars
<1>. DEFINE s == NamedSink(c)
            n == Len(sinkOf) + 1
<1>1. /\ pc[c] = "register" /\ mutex = Nobody /\ sources[s] = None
      /\ sources' = [sources EXCEPT ![s] = n] /\ sinkOf' = Append(sinkOf, s)
      /\ Goes(c, IF zeroconf = None THEN "choose" ELSE "publish")
      /\ UNCHANGED <<zeroconf, bonjour, announced, leaving>>
  BY DEF RegisterNew, Lock, At
<1>2. s \in Sinks
  BY <1>1, NamedIsSink
<1>3. sinkOf \in Seq(Sinks) /\ Len(sinkOf) \in Nat /\ n \in Nat
  BY Announced DEF ServiceInv, Bounded, TypeOK
<1>. HIDE DEF s
<1>4. Len(sinkOf') = n /\ \A m \in 1 .. Len(sinkOf) : sinkOf'[m] = sinkOf[m]
  BY <1>1, <1>2, <1>3, AppendProperties
<1>5. \A r \in Sinks : sources[r] # n
  BY <1>3 DEF ServiceInv, Bounded, TypeOK
<1>. HIDE DEF n
<1>6. /\ pc'[c] = IF zeroconf = None THEN "choose" ELSE "publish"
      /\ \A d \in Clients \ {c} : pc'[d] = pc[d]
  BY <1>1 DEF Goes, ServiceInv, Bounded, TypeOK
<1>7. Held' = Held
  <2>1. Held = {r \in Sinks : sources[r] # None}
    BY <1>1, AtRest
  <2>2. sources'[s] = n /\ \A r \in Sinks \ {s} : sources'[r] = sources[r]
    BY <1>1, <1>2 DEF ServiceInv, Bounded, TypeOK
  <2>3. pc'[c] \in {"choose", "publish"}
    BY <1>6
  <2>4. s \notin Held' /\ s \notin Held
    BY <1>1, <1>4, <2>1, <2>2, <2>3 DEF Held
  <2>5. \A r \in Sinks \ {s} : r \in Held' <=> r \in Held
    BY <1>4, <1>5, <2>1, <2>2 DEF Held
  <2>6. Held' \subseteq Sinks /\ Held \subseteq Sinks
    BY DEF Held
  <2>. QED  BY <2>4, <2>5, <2>6
<1>8. Withdraws' = Withdraws
  BY <1>1 DEF Withdraws
<1>9. InView' = InView
  <2>1. Visible' = Visible
    BY <1>1, <1>8 DEF Visible
  <2>2. \A a \in Visible : sinkOf'[a[1]] = sinkOf[a[1]]
    BY <1>4, Announced DEF Visible
  <2>. QED  BY <2>1, <2>2 DEF InView
<1>10. Chosen' = Chosen
  <2>1. \A d \in Clients : pc[d] # "choose"
    BY <1>1, Quiet DEF Announcing
  <2>. QED  BY <1>1, <1>6, <2>1 DEF Chosen
<1>. QED  BY <1>7, <1>8, <1>9, <1>10 DEF Collection!vars

\* The newest sink is held from the end of its Register on, and seen if it has been
\* announced.
LEMMA RegisterTakesEffect ==
  ASSUME ServiceInv, NEW c \in Clients, Announcing(c), Returns(c),
         zeroconf' \in 1 .. Providers, pc[c] = "publish" => zeroconf' = zeroconf,
         announced' \in {announced, announced \union {<<Len(sinkOf), zeroconf'>>}},
         UNCHANGED <<sources, sinkOf, leaving, bonjour>>
  PROVE  \E s \in Sinks : Collection!Register(s)
<1>. DEFINE n == Len(sinkOf)
            s == sinkOf[n]
<1>1. leaving = {} /\ \A d \in Clients \ {c} : pc[d] \notin Inside
  BY AnnouncesAlone
<1>2. sinkOf # <<>> /\ sources[s] = n
  BY DEF ServiceInv, Records, Newest
<1>3. n \in 1 .. n /\ n # None /\ s \in Sinks
  <2>1. sinkOf \in Seq(Sinks)
    BY DEF ServiceInv, Bounded, TypeOK
  <2>2. n \in Nat \ {0}
    BY <1>2, <2>1, EmptySeq
  <2>. QED  BY <2>2, Announced DEF None
<1>. HIDE DEF s
<1>4. \A r \in Sinks : sources[r] = n => r = s
  BY <1>3 DEF s, ServiceInv, Map, Numbered
<1>5. \A d \in Clients : pc'[d] \notin {"choose", "publish"}
  BY <1>1 DEF Returns, Goes, ServiceInv, Bounded, TypeOK, Inside
<1>6. Held = {r \in Sinks : sources[r] # None} \ {s}
  BY <1>2, <1>4 DEF Held, Announcing
<1>7. Held' = {r \in Sinks : sources[r] # None}
  BY <1>5 DEF Held
<1>8. s \notin Held /\ Held' = Held \union {s}
  BY <1>2, <1>3, <1>6, <1>7
<1>9. InView' \in {InView, InView \union {s}}
  <2>1. Visible = announced /\ Visible' = announced'
    BY <1>1 DEF Visible
  <2>2. CASE announced' = announced
    BY <2>1, <2>2 DEF InView
  <2>3. CASE announced' = announced \union {<<n, zeroconf'>>}
    <3>1. <<n, zeroconf'>>[1] = n
      OBVIOUS
    <3>. QED  BY <2>1, <2>3, <3>1 DEF InView, s
  <2>. QED  BY <2>2, <2>3
<1>10. Chosen'
  BY <1>5 DEF Chosen, None
<1>11. Chosen => UNCHANGED Withdraws
  <2>. SUFFICES ASSUME Chosen PROVE UNCHANGED Withdraws
    OBVIOUS
  <2>1. pc[c] = "publish"
    BY DEF Chosen, Announcing
  <2>. QED  BY <2>1 DEF Withdraws
<1>. QED  BY <1>3, <1>8, <1>9, <1>10, <1>11 DEF Collection!Register

\* A provider that fails is not yet the one.
LEMMA ChooseTakesEffect ==
  ASSUME ServiceInv, NEW c \in Clients, ChooseProvider(c)
  PROVE  Collection!Next
<1>1. pc[c] = "choose" /\ Announcing(c) /\ next \in 1 .. Providers
      /\ UNCHANGED <<sources, sinkOf, bonjour, leaving>>
  BY DEF ChooseProvider, At, Announcing, ServiceInv, Bounded, TypeOK
<1>2. CASE zeroconf' = next /\ Publishes(next) /\ Returns(c)
  <2>1. announced' = announced \union {<<Len(sinkOf), zeroconf'>>}
    BY <1>2 DEF Publishes
  <2>2. \E s \in Sinks : Collection!Register(s)
    BY <1>1, <1>2, <2>1, RegisterTakesEffect
  <2>. QED  BY <2>2 DEF Collection!Next
<1>3. CASE UNCHANGED <<pc, mutex, announced, ended>>
  <2>1. announced = {}
    BY <1>1 DEF ServiceInv, Records, Newest
  <2>2. Held' = Held /\ InView' = InView
    BY <1>1, <1>3, <2>1 DEF Held, InView, Visible
  <2>3. ~Chosen /\ Chosen' = Chosen
    BY <1>1, <1>3 DEF Chosen
  <2>4. (~Withdraws)' \in BOOLEAN
    BY DEF Withdraws
  <2>5. Collection!Fails
    BY <2>2, <2>3, <2>4 DEF Collection!Fails
  <2>. QED  BY <2>5 DEF Collection!Next
<1>. QED  BY <1>2, <1>3 DEF ChooseProvider

\* The end of Publish is where a Register takes effect, or fails.
LEMMA PublishTakesEffect ==
  ASSUME ServiceInv, NEW c \in Clients, Publish(c)
  PROVE  Collection!Next
<1>1. /\ pc[c] = "publish" /\ Announcing(c) /\ Returns(c)
      /\ UNCHANGED <<sources, sinkOf, bonjour, zeroconf, leaving>>
      /\ Publishes(zeroconf) \/ announced' = announced
  BY DEF Publish, At, Announcing
<1>2. zeroconf' \in 1 .. Providers
  BY <1>1, ServiceAssumption DEF ServiceInv, Bounded, TypeOK, Records, Newest, None
<1>3. announced' \in {announced, announced \union {<<Len(sinkOf), zeroconf'>>}}
  BY <1>1 DEF Publishes
<1>4. \E s \in Sinks : Collection!Register(s)
  BY <1>1, <1>2, <1>3, RegisterTakesEffect
<1>. QED  BY <1>4 DEF Collection!Next

\* Unregister takes effect at once: whose record goes is the sink's.
LEMMA UnregisterTakesEffect ==
  ASSUME ServiceInv, NEW c \in Clients, Unregister(c)
  PROVE  Collection!Next \/ UNCHANGED Collection!vars
<1>. DEFINE s == NamedSink(c)
            n == sources[s]
<1>1. /\ pc[c] = "unregister" /\ mutex = Nobody /\ Goes(c, "callback")
      /\ sources' = [sources EXCEPT ![s] = None]
      /\ announced' = IF Withdraws THEN announced \ {<<n, zeroconf>>} ELSE announced
      /\ UNCHANGED <<sinkOf, bonjour, zeroconf, leaving>>
  BY DEF Unregister, Unpublishes, Lock, At
<1>2. s \in Sinks
  BY <1>1, NamedIsSink
<1>3. leaving = {} /\ \A d \in Clients : pc[d] \notin {"choose", "publish"}
  BY <1>1, Quiet DEF Announcing
<1>4. \A d \in Clients : /\ pc'[d] = "choose" <=> pc[d] = "choose"
                         /\ pc'[d] = "publish" <=> pc[d] = "publish"
  BY <1>1, <1>3 DEF Goes, ServiceInv, Bounded, TypeOK
<1>. HIDE DEF s
<1>5. CASE n = None
  <2>1. \A a \in announced : a # <<None, zeroconf>>
    BY Announced DEF None
  <2>2. sources' = sources
    <3>1. sources \in [Sinks -> 0 .. Len(sinkOf)] /\ sources[s] = None
      BY <1>5 DEF ServiceInv, Bounded, TypeOK
    <3>. QED  BY <1>1, <1>2, <3>1
  <2>3. announced' = announced
    BY <1>1, <1>5, <2>1
  <2>. QED  BY <1>1, <1>4, <2>2, <2>3, Unseen
<1>6. CASE n # None
  <2>1. Held = {r \in Sinks : sources[r] # None} /\ s \in Held
    BY <1>1, <1>2, <1>6, AtRest
  <2>2. sources'[s] = None /\ \A r \in Sinks \ {s} : sources'[r] = sources[r]
    BY <1>1, <1>2 DEF ServiceInv, Bounded, TypeOK
  <2>3. Held' = {r \in Sinks : sources'[r] # None}
    BY <1>3, <1>4 DEF Held
  <2>4. Held' = Held \ {s}
    BY <2>1, <2>2, <2>3
  <2>5. Withdraws' = Withdraws
    BY <1>1 DEF Withdraws
  <2>6. Visible = announced /\ Visible' = announced'
    BY <1>1, <1>3 DEF Visible
  <2>7. InView' = IF Withdraws THEN InView \ {s} ELSE InView
    <3>1. CASE ~Withdraws
      BY <1>1, <2>6, <3>1 DEF InView
    <3>2. CASE Withdraws
      <4>1. \A a \in announced : a = <<n, zeroconf>> <=> sinkOf[a[1]] = s
        <5>. TAKE a \in announced
        <5>1. sources[sinkOf[a[1]]] = a[1] /\ a[2] = zeroconf /\ a = <<a[1], a[2]>>
          BY <1>3, <3>2, Announced DEF ServiceInv, Records, Seen, ProviderKnows
        <5>2. sinkOf[n] = s
          BY <1>2, <1>6 DEF ServiceInv, Map, Numbered
        <5>. QED  BY <5>1, <5>2
      <4>2. announced' = {a \in announced : sinkOf[a[1]] # s}
        BY <1>1, <3>2, <4>1
      <4>. QED  BY <1>1, <2>6, <3>2, <4>2 DEF InView
    <3>. QED  BY <3>1, <3>2
  <2>8. Chosen' = Chosen
    BY <1>1, <1>4 DEF Chosen
  <2>9. Collection!Unregister(s)
    BY <2>1, <2>4, <2>5, <2>7, <2>8 DEF Collection!Unregister, Collection!Withdrawn
  <2>. QED  BY <1>2, <2>9 DEF Collection!Next
<1>. QED  BY <1>5, <1>6

\* Close takes effect when it begins.
LEMMA CloseTakesEffect ==
  ASSUME ServiceInv, NEW c \in Clients, Close(c)
  PROVE  Collection!Close
<1>1. /\ pc[c] = "close" /\ mutex = Nobody /\ Goes(c, "closing")
      /\ leaving' = {sources[s] : s \in Sinks} \ {None}
      /\ sources' = [s \in Sinks |-> None]
      /\ UNCHANGED <<sinkOf, bonjour, zeroconf, announced>>
  BY DEF Close, Lock, At
<1>2. leaving = {} /\ \A d \in Clients : pc[d] \notin {"choose", "publish"}
  BY <1>1, Quiet DEF Announcing
<1>3. Held' = {}
  BY <1>1 DEF Held
<1>4. Held = {s \in Sinks : sources[s] # None} /\ Visible = announced
  BY <1>1, AtRest
<1>5. Withdraws' = Withdraws
  BY <1>1 DEF Withdraws
<1>6. InView' = IF Withdraws THEN InView \ Held ELSE InView
  <2>1. CASE Withdraws
    <3>1. \A a \in announced : /\ sinkOf[a[1]] \in Sinks /\ a[1] # None
                               /\ sources[sinkOf[a[1]]] = a[1]
      BY <1>2, <2>1, Announced DEF ServiceInv, Records, Seen, None
    <3>2. \A a \in announced : a[1] \in leaving'
      BY <1>1, <3>1
    <3>3. Visible' = {}
      BY <1>1, <1>5, <2>1, <3>2 DEF Visible
    <3>4. InView \subseteq Held /\ InView' = {}
      BY <1>4, <3>1, <3>3 DEF InView
    <3>. QED  BY <2>1, <3>4
  <2>2. CASE ~Withdraws
    BY <1>1, <1>4, <1>5, <2>2 DEF InView, Visible
  <2>. QED  BY <2>1, <2>2
<1>7. Chosen' = Chosen
  <2>1. \A d \in Clients : pc'[d] # "choose"
    BY <1>1, <1>2 DEF Goes, ServiceInv, Bounded, TypeOK
  <2>. QED  BY <1>1, <1>2, <2>1 DEF Chosen
<1>. QED  BY <1>3, <1>5, <1>6, <1>7 DEF Collection!Close, Collection!Withdrawn

\* The rest of Close withdraws what is not seen any more.
LEMMA CloseNextUnseen ==
  ASSUME ServiceInv, NEW c \in Clients, CloseNext(c)
  PROVE  UNCHANGED Collection!vars
<1>. PICK n \in leaving :
       /\ pc[c] = "closing" /\ leaving' = leaving \ {n}
       /\ announced' = IF Withdraws THEN announced \ {<<n, zeroconf>>} ELSE announced
       /\ Goes(c, "told")
       /\ UNCHANGED <<sources, sinkOf, bonjour, zeroconf>>
  BY DEF CloseNext, At, Unpublishes
<1>1. \A d \in Clients : /\ pc'[d] = "choose" <=> pc[d] = "choose"
                         /\ pc'[d] = "publish" <=> pc[d] = "publish"
  BY DEF Goes, ServiceInv, Bounded, TypeOK
<1>2. Held' = Held /\ Chosen' = Chosen
  BY <1>1 DEF Held, Chosen
<1>3. Withdraws' = Withdraws
  BY DEF Withdraws
<1>4. Visible' = Visible
  <2>1. CASE Withdraws
    <3>1. \A a \in announced : a[1] = n <=> a = <<n, zeroconf>>
      BY Announced DEF ServiceInv, Records, ProviderKnows
    <3>. QED  BY <1>3, <2>1, <3>1 DEF Visible
  <2>2. CASE ~Withdraws
    BY <1>3, <2>2 DEF Visible
  <2>. QED  BY <2>1, <2>2
<1>5. InView' = InView
  BY <1>4 DEF InView
<1>. QED  BY <1>2, <1>3, <1>5 DEF Collection!vars

\* And zeroconfCleanUp finds nothing of this collection.
LEMMA CloseEndUnseen ==
  ASSUME ServiceInv, NEW c \in Clients, CloseEnd(c)
  PROVE  UNCHANGED Collection!vars
<1>1. /\ pc[c] = "closing" /\ leaving = {} /\ Goes(c, "idle")
      /\ announced' = IF zeroconf = Pure THEN {a \in announced : a[2] # zeroconf} ELSE announced
      /\ UNCHANGED <<sources, sinkOf, bonjour, zeroconf, leaving>>
  BY DEF CloseEnd, At, Returns
<1>2. \A d \in Clients : /\ pc'[d] = "choose" <=> pc[d] = "choose"
                         /\ pc'[d] = "publish" <=> pc[d] = "publish"
  BY <1>1 DEF Goes, ServiceInv, Bounded, TypeOK
<1>3. \A s \in Sinks : sources[s] = None
  BY <1>1, ClosesAlone DEF Closes
<1>4. CASE zeroconf = Pure
  <2>1. bonjour # Pure /\ Pure # None
    BY BonjourAssumption, ServiceAssumption DEF Pure, None, ServiceInv, Bounded, TypeOK
  <2>2. Withdraws
    BY <1>4, <2>1 DEF Withdraws
  <2>3. announced = {}
    <3>. SUFFICES ASSUME NEW a \in announced PROVE FALSE
      OBVIOUS
    <3>1. sources[sinkOf[a[1]]] = a[1]
      BY <1>1, <2>2 DEF ServiceInv, Records, Seen
    <3>2. sinkOf[a[1]] \in Sinks /\ a[1] # None
      BY Announced DEF None
    <3>. QED  BY <1>3, <3>1, <3>2
  <2>4. announced' = announced
    BY <1>1, <2>3
  <2>. QED  BY <1>1, <1>2, <2>4, Unseen
<1>5. CASE zeroconf # Pure
  BY <1>1, <1>2, <1>5, Unseen
<1>. QED  BY <1>4, <1>5

\* Every step is a step of the registry, or nothing.
LEMMA RegistryStep == ServiceInv /\ [Next]_vars => [Collection!Next]_(Collection!vars)
<1>. SUFFICES ASSUME ServiceInv, [Next]_vars
              PROVE  Collection!Next \/ UNCHANGED Collection!vars
  OBVIOUS
<1>1. ASSUME NEW c \in Clients, Calls(c) \/ RegisterKnown(c) \/ ClosedReturns(c)
      PROVE  UNCHANGED Collection!vars
  <2>1. UNCHANGED <<sources, sinkOf, zeroconf, announced, leaving, bonjour>>
    BY <1>1 DEF Calls, Call, RegisterKnown, ClosedReturns
  <2>2. /\ pc[c] \notin {"choose", "publish"}
        /\ \E where \in {"register", "unregister", "close", "closing", "idle"} : Goes(c, where)
    BY <1>1 DEF Calls, Call, RegisterKnown, ClosedReturns, Returned, Returns, At
  <2>3. \A d \in Clients : /\ pc'[d] = "choose" <=> pc[d] = "choose"
                           /\ pc'[d] = "publish" <=> pc[d] = "publish"
    BY <2>2 DEF Goes, ServiceInv, Bounded, TypeOK
  <2>. QED  BY <2>1, <2>3, Unseen
<1>2. ASSUME NEW c \in Clients, ChooseProvider(c) \/ Publish(c) \/ Unregister(c)
      PROVE  Collection!Next \/ UNCHANGED Collection!vars
  BY <1>2, ChooseTakesEffect, PublishTakesEffect, UnregisterTakesEffect
<1>3. ASSUME NEW c \in Clients, Close(c)
      PROVE  Collection!Next
  BY <1>3, CloseTakesEffect DEF Collection!Next
<1>4. ASSUME NEW c \in Clients, RegisterNew(c) \/ CloseNext(c) \/ CloseEnd(c)
      PROVE  UNCHANGED Collection!vars
  BY <1>4, RegisterNewUnseen, CloseNextUnseen, CloseEndUnseen
<1>5. CASE RtspRequest \/ UNCHANGED vars
  <2>1. UNCHANGED <<pc, sources, sinkOf, zeroconf, announced, leaving, bonjour>>
    BY <1>5 DEF RtspRequest, vars
  <2>. QED  BY <2>1, Unseen
<1>. QED  BY <1>1, <1>2, <1>3, <1>4, <1>5 DEF Next, Enters, GoesOn

\* The collection implements the registry: the calls of any number of goroutines
\* take effect one after the other, each as a whole, whatever fails on the way
\* (Spec => CallsAreSteps).
THEOREM CallsTakeEffect == Spec => CallsAreSteps
<1>. QED  BY InitRegistry, RegistryStep, ServiceInvariant, PTL
          DEF Spec, CallsAreSteps, Collection!Spec
=============================================================================
