------------------------------ MODULE Service ------------------------------
(***************************************************************************)
(* The collection of sinks (service.go) and the announcement of a sink by  *)
(* a zeroconf provider (zeroconf_common.go).  The goroutines of the        *)
(* program register and unregister sinks, one at a time under a mutex that *)
(* is also held while a provider announces a sink and while a sink is told *)
(* that it has been closed.  The RTSP listener of a sink is there from its *)
(* first moment on, and nothing closes it.                                 *)
(*                                                                         *)
(* A source is numbered by the order of creation.  The program ends on a   *)
(* nil pointer or a nil map, and where zeroconf() finds no provider.       *)
(*                                                                         *)
(* To its callers all this is the one-step calls of module Registry.       *)
(***************************************************************************)
EXTENDS Naturals, Sequences, FiniteSets

CONSTANTS
  Clients,       \* goroutines that call the collection
  Sinks,
  FixedPort,     \* the sinks whose SinkInfo names a port
  Providers,     \* the number of providers that are compiled in
  Bonjours,      \* which of them is Bonjour, or None: that is so on Linux
  MaxCalls,      \* bound: calls of the collection
  MaxFailures    \* bound: providers that fail to announce

ASSUME ServiceAssumption ==
  /\ FixedPort \subseteq Sinks
  /\ Providers \in Nat \ {0}
  /\ MaxCalls \in Nat /\ MaxFailures \in Nat

None == 0

\* The provider written in Go: it is on every platform, is the last in
\* priority, always works, and keeps a map of its own, registeredServers.
Pure == Providers

ASSUME BonjourAssumption == Bonjours \subseteq 0 .. Providers - 1

Nobody == "nobody"
ASSUME NobodyAssumption == Nobody \notin Clients

VARIABLES
  pc,           \* what a client is doing in the collection
  call,         \* the sink it has named, all Sinks for Close
  mutex,        \* its owner
  sources,      \* the map: the source of each sink, or None
  sinkOf,       \* the sink of every source so far
  zeroconf,     \* _zeroconf: the provider, or None
  next,         \* the provider that publish is going to try
  announced,    \* <<source, provider>>: who is announced, and by whom
  leaving,      \* the sources Close has still to unpublish
  bonjour,      \* the provider that is Bonjour, or None
  cleaned,      \* registeredServers is nil
  ended,        \* the program has ended
  calls, failures

vars == <<pc, call, mutex, sources, sinkOf, zeroconf, next, announced, leaving,
          bonjour, cleaned, ended, calls, failures>>

Init ==
  /\ pc = [c \in Clients |-> "idle"]
  /\ call = [c \in Clients |-> {}]
  /\ mutex = Nobody
  /\ sources = [s \in Sinks |-> None]
  /\ sinkOf = <<>>
  /\ zeroconf = None /\ next = 1
  /\ announced = {} /\ leaving = {}
  /\ bonjour \in Bonjours
  /\ cleaned = FALSE /\ ended = FALSE
  /\ calls = 0 /\ failures = 0

Goes(c, where) == pc' = [pc EXCEPT ![c] = where]

\* The program runs, and the client is there.
At(c, where) == ~ended /\ pc[c] = where

Ends == ended' = TRUE

NamedSink(c) == CHOOSE s \in call[c] : TRUE

-----------------------------------------------------------------------------
Call(c, op, named) ==
  /\ At(c, "idle") /\ calls < MaxCalls
  /\ calls' = calls + 1
  /\ call' = [call EXCEPT ![c] = named]
  /\ Goes(c, op)
  /\ UNCHANGED <<mutex, sources, sinkOf, bonjour, zeroconf, next, announced, leaving,
                 cleaned, ended, failures>>

\* Mutant of Lock: there is no mutex.
LockNot(c, op) == At(c, op) /\ mutex' = c

\* sc.m.Lock(), the first thing every call does.
Lock(c, op) == At(c, op) /\ mutex = Nobody /\ mutex' = c

\* The deferred Unlock.
Returns(c) == Goes(c, "idle") /\ mutex' = Nobody

\* Register of a sink that has a source.
RegisterKnown(c) ==
  /\ At(c, "register") /\ mutex = Nobody
  /\ sources[NamedSink(c)] # None
  /\ Returns(c)
  /\ UNCHANGED <<call, sources, sinkOf, bonjour, zeroconf, next, announced, leaving,
                 cleaned, ended, calls, failures>>

\* startRtspProcess: a fixed port is still in use if the sink has been registered
\* before.  The error is ignored, and port() finds no listener.
PortInUse(s) == s \in FixedPort /\ \E n \in DOMAIN sinkOf : sinkOf[n] = s

\* Register of a new sink: the source is in the map before it can do anything.
RegisterNew(c) ==
  LET s == NamedSink(c)
  IN  /\ Lock(c, "register")
      /\ sources[s] = None
      /\ sources' = [sources EXCEPT ![s] = Len(sinkOf) + 1]
      /\ sinkOf' = Append(sinkOf, s)
      /\ IF PortInUse(s) THEN Ends ELSE UNCHANGED ended
      /\ Goes(c, IF zeroconf = None THEN "choose" ELSE "publish")
      /\ next' = 1
      /\ UNCHANGED <<call, zeroconf, bonjour, announced, leaving, cleaned, calls, failures>>

\* Provider p announces the newest source; a map it has set to nil is its end.
Publishes(p) ==
  /\ announced' = announced \union {<<Len(sinkOf), p>>}
  /\ ended' = (p = Pure /\ cleaned)

Fails == failures < MaxFailures /\ failures' = failures + 1

\* Mutant of ChooseProvider: takes an error of the last provider for a reason
\* to try the next.
ChoosePast(c) ==
  /\ At(c, "choose")
  /\ \/ /\ zeroconf' = next /\ Publishes(next)
        /\ Returns(c)
        /\ UNCHANGED <<next, failures>>
     \/ /\ Fails
        /\ zeroconf' \in {None, next}
        /\ next' = next + 1
        /\ UNCHANGED <<pc, mutex, announced, ended>>
  /\ UNCHANGED <<call, sources, sinkOf, bonjour, leaving, cleaned, calls>>

\* publish, the first time: the provider next in priority is made the provider
\* before it is known whether it exists and can announce.  The list never ends
\* without a provider: the last one always works.
ChooseProvider(c) ==
  /\ At(c, "choose")
  /\ \/ /\ zeroconf' = next /\ Publishes(next)
        /\ Returns(c)
        /\ UNCHANGED <<next, failures>>
     \/ /\ next # Pure /\ Fails
        /\ zeroconf' \in {None, next}
        /\ next' = next + 1
        /\ UNCHANGED <<pc, mutex, announced, ended>>
  /\ UNCHANGED <<call, sources, sinkOf, bonjour, leaving, cleaned, calls>>

\* publish with the provider that has been chosen; it may fail.
Publish(c) ==
  /\ At(c, "publish")
  /\ \/ Publishes(zeroconf) /\ UNCHANGED failures
     \/ zeroconf # Pure /\ Fails /\ UNCHANGED <<announced, ended>>
  /\ Returns(c)
  /\ UNCHANGED <<call, sources, sinkOf, bonjour, zeroconf, next, leaving, cleaned, calls>>

-----------------------------------------------------------------------------
\* zeroconf().Unpublish(source.br), by the provider of today.  Bonjour's does
\* nothing.
Withdraws == bonjour = None \/ zeroconf # bonjour
Unpublishes(n) == announced' = IF Withdraws THEN announced \ {<<n, zeroconf>>} ELSE announced

\* A sink without a source is a nil pointer.
Unregister(c) ==
  LET n == sources[NamedSink(c)]
  IN  /\ Lock(c, "unregister")
      /\ sources' = [sources EXCEPT ![NamedSink(c)] = None]
      /\ Unpublishes(n)
      /\ IF n = None \/ zeroconf = None THEN Ends ELSE UNCHANGED ended
      /\ Goes(c, "callback")
      /\ UNCHANGED <<call, sinkOf, bonjour, zeroconf, next, leaving, cleaned, calls, failures>>

\* Mutant of Close: walks the map it has just replaced.
CloseEmpty(c) ==
  /\ Lock(c, "close")
  /\ leaving' = {}
  /\ sources' = [s \in Sinks |-> None]
  /\ Goes(c, "closing")
  /\ UNCHANGED <<call, sinkOf, bonjour, zeroconf, next, announced, cleaned, ended, calls, failures>>

\* Mutant of Close: the mutex is given back at the end of the block that takes it.
CloseUnlocked(c) ==
  /\ At(c, "close") /\ mutex = Nobody /\ UNCHANGED mutex
  /\ leaving' = {sources[s] : s \in Sinks} \ {None}
  /\ sources' = [s \in Sinks |-> None]
  /\ Goes(c, "closing")
  /\ UNCHANGED <<call, sinkOf, bonjour, zeroconf, next, announced, cleaned, ended, calls, failures>>

Close(c) ==
  /\ Lock(c, "close")
  /\ leaving' = {sources[s] : s \in Sinks} \ {None}
  /\ sources' = [s \in Sinks |-> None]
  /\ Goes(c, "closing")
  /\ UNCHANGED <<call, sinkOf, bonjour, zeroconf, next, announced, cleaned, ended, calls, failures>>

\* Close goes through the sources in any order: the order of a map.
CloseNext(c) ==
  \E n \in leaving :
    /\ At(c, "closing")
    /\ leaving' = leaving \ {n}
    /\ Unpublishes(n)
    /\ IF zeroconf = None THEN Ends ELSE UNCHANGED ended
    /\ Goes(c, "told")
    /\ UNCHANGED <<call, mutex, sources, sinkOf, bonjour, zeroconf, next, cleaned, calls, failures>>

\* zeroconfCleanUp: whatever is left in registeredServers is withdrawn.
CloseEnd(c) ==
  /\ At(c, "closing") /\ leaving = {}
  /\ IF zeroconf = None THEN Ends ELSE UNCHANGED ended
  /\ cleaned' = (cleaned \/ zeroconf = Pure)
  /\ announced' = IF zeroconf = Pure THEN {a \in announced : a[2] # zeroconf}
                  ELSE announced
  /\ Returns(c)
  /\ UNCHANGED <<call, sources, sinkOf, bonjour, zeroconf, next, leaving, calls, failures>>

\* Mutant of Returned: Unregister has no deferred Unlock.
ReturnedLocked(c) ==
  /\ At(c, "callback") /\ Goes(c, "idle") /\ UNCHANGED mutex

\* sink.Closed() returns to Unregister, or to Close.
Returned(c) == At(c, "callback") /\ Returns(c)

ClosedReturns(c) ==
  /\ \/ Returned(c)
     \/ At(c, "told") /\ Goes(c, "closing") /\ UNCHANGED mutex
  /\ UNCHANGED <<call, sources, sinkOf, bonjour, zeroconf, next, announced, leaving,
                 cleaned, ended, calls, failures>>

\* A request reaches a listener: its DACP goroutine calls zeroconf().
RtspRequest ==
  /\ ~ended /\ sinkOf # <<>> /\ zeroconf = None
  /\ Ends
  /\ UNCHANGED <<pc, call, mutex, sources, sinkOf, bonjour, zeroconf, next, announced,
                 leaving, cleaned, calls, failures>>

Calls(c) ==
  \/ \E s \in Sinks, op \in {"register", "unregister"} : Call(c, op, {s})
  \/ Call(c, "close", Sinks)

Enters(c) == RegisterKnown(c) \/ RegisterNew(c) \/ Unregister(c) \/ Close(c)
GoesOn(c) ==
  \/ ChooseProvider(c) \/ Publish(c)
  \/ CloseNext(c) \/ CloseEnd(c) \/ ClosedReturns(c)

Next ==
  \/ \E c \in Clients : Calls(c) \/ Enters(c) \/ GoesOn(c)
  \/ RtspRequest

(***************************************************************************)
(* A mutex serves those that wait for it, providers answer, and the Closed *)
(* of a sink returns.                                                      *)
(***************************************************************************)
Fairness == \A c \in Clients : SF_vars(Enters(c)) /\ WF_vars(GoesOn(c))

Spec == Init /\ [][Next]_vars /\ Fairness

-----------------------------------------------------------------------------
TypeOK ==
  /\ pc \in [Clients -> {"idle", "register", "unregister", "close", "choose",
                         "publish", "closing", "callback", "told"}]
  /\ call \in [Clients -> SUBSET Sinks]
  /\ mutex \in Clients \union {Nobody}
  /\ sinkOf \in Seq(Sinks)
  /\ sources \in [Sinks -> 0 .. Len(sinkOf)]
  /\ zeroconf \in 0 .. Providers
  /\ next \in 1 .. Providers
  /\ announced \subseteq (1 .. Len(sinkOf)) \X (1 .. Providers)
  /\ leaving \subseteq 1 .. Len(sinkOf)
  /\ bonjour \in Bonjours /\ cleaned \in BOOLEAN /\ ended \in BOOLEAN

\* Between the calls, what the network sees is what the collection holds: no
\* sink is announced after its Unregister, or Close, has returned ("Called when
\* the sink has been closed and removed") unless Bonjour is the provider, and as
\* long as no provider has failed every sink in the map is.
NetworkAgrees ==
  mutex = Nobody /\ ~ended =>
    LET registered == {sources[s] : s \in Sinks} \ {None}
        seen == {a[1] : a \in announced}
    IN  /\ Withdraws => seen \subseteq registered
        /\ failures = 0 => registered \subseteq seen

\* No sink is announced twice under its one name, whoever registers it and
\* however often it comes and goes (as long as Unpublish does something).
OneRecord ==
  Withdraws => \A a, b \in announced : sinkOf[a[1]] = sinkOf[b[1]] => a = b

\* What the callers see: a sink is in the collection from the end of its Register
\* on, and all that Close is going to withdraw is gone when it begins.
Held ==
  {s \in Sinks : /\ sources[s] # None
                 /\ sources[s] = Len(sinkOf) =>
                      \A c \in Clients : pc[c] \notin {"choose", "publish"}}
Visible == {a \in announced : Withdraws => a[1] \notin leaving}
InView == {sinkOf[a[1]] : a \in Visible}
Chosen == zeroconf # None /\ \A c \in Clients : pc[c] # "choose"

Collection == INSTANCE Registry WITH
  held <- Held, seen <- InView, chosen <- Chosen, lasting <- ~Withdraws

\* The calls of any number of goroutines take effect one after the other, each as
\* a whole: none of them brings back or withdraws the sink of another, also when
\* providers have failed.
CallsAreSteps == Collection!Spec

\* Every call of the collection returns.
CallsReturn == \A c \in Clients : pc[c] # "idle" ~> pc[c] = "idle" \/ ended
=============================================================================
