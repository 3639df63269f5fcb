------------------------------- MODULE Dacp --------------------------------
(***************************************************************************)
(* The way back to the source: each sink's DACP goroutine (dacp.go) and    *)
(* the providers that look for the source: the resolver goroutine of Avahi *)
(* (zeroconf_avahi.go), which all sinks share, and the callbacks of        *)
(* Bonjour (zeroconf_bonjour.go) and of the pure Go library                *)
(* (zeroconf_pure.go).  An RTSP request that names a remote control has    *)
(* the DACP goroutine ask for its address, and commands go there by HTTP.  *)
(*                                                                         *)
(* A remote is a DACP id with an Active-Remote token; the service that is  *)
(* looked up is named by the id alone.  Avahi, the dnssd libraries and the *)
(* HTTP servers are the environment.  An HTTP request ends, with an answer *)
(* or with an error.                                                       *)
(***************************************************************************)
EXTENDS Naturals, Sequences, FiniteSets

CONSTANTS
  Sinks,
  Ids, Tokens,    \* values of the headers Dacp-Id and Active-Remote
  None,           \* nil, the empty string
  Providers,      \* the providers to look at: avahi, bonjour, pure
  CommandCap,     \* capacity of crc: 12
  RequestCap,     \* capacity of requestChan: 5
  ResultCap,      \* capacity of a request's result channel: 4
  MaxRequests,    \* bound: calls of open
  MaxFound,       \* bound: signals of Avahi, answers of the libraries
  MaxCommands,    \* bound: commands
  MaxFailures     \* bound: resolvers that the provider cannot make

ASSUME DacpAssumption ==
  /\ None \notin Ids
  /\ Providers \subseteq {"avahi", "bonjour", "pure"}
  /\ {CommandCap, RequestCap, ResultCap} \subseteq Nat \ {0}
  /\ {MaxRequests, MaxFound, MaxCommands, MaxFailures} \subseteq Nat

Families == {4, 6}
Remotes == Ids \X Tokens
Requests == 1 .. MaxRequests
NoRequest == 0

VARIABLES
  opening,      \* the remote that an RTSP goroutine offers on mrc
  pc,           \* the DACP goroutine: select, close, resolve, http; crashed
  remote,       \* id and ar
  address,      \* addr4 and addr6: the id whose address it is
  connectedName,
  req,          \* the number of the request, NoRequest if nil
  err,          \* runDacp's err is not nil
  crc,          \* how many commands wait in it
  requestChan,  \* closures for the resolver: <<"resolve" or "close", request>>
  resolver,     \* <<request, family>> that the resolver is putting on its
                \* result channel; <<>> when it is in its select
  requests,     \* the resolver's map: the request for each id
  key,          \* the id of every request made so far
  resolveObj,   \* the requests for which Avahi has made a resolver
  result,       \* result channels: the families of the addresses found
  provider,
  started,      \* of each request, how many of its two queries have begun
  queries,      \* the families that they go on to ask for
  opens, found, commands, failures

avahi == <<requestChan, resolver, requests, resolveObj>>
library == <<provider, started, queries>>
channels == <<avahi, result, library>>
bounds == <<opens, found, commands, failures>>
vars == <<opening, pc, remote, address, connectedName, req, err, crc, key,
          channels, bounds>>

NoRemote == <<None, None>>
NoAddress == [f \in Families |-> None]

Init ==
  /\ opening = [d \in Sinks |-> NoRemote]
  /\ pc = [d \in Sinks |-> "select"]
  /\ remote = [d \in Sinks |-> NoRemote]
  /\ address = [d \in Sinks |-> NoAddress]
  /\ connectedName = [d \in Sinks |-> None]
  /\ req = [d \in Sinks |-> NoRequest]
  /\ err = [d \in Sinks |-> FALSE]
  /\ crc = [d \in Sinks |-> 0]
  /\ requestChan = <<>>
  /\ resolver = <<>>
  /\ requests = [i \in Ids |-> NoRequest]
  /\ key = <<>>
  /\ resolveObj = {}
  /\ result = [n \in Requests |-> <<>>]
  /\ provider \in Providers
  /\ started = [n \in Requests |-> 0] /\ queries = [n \in Requests |-> {}]
  /\ opens = 0 /\ found = 0 /\ commands = 0 /\ failures = 0

Running == \A d \in Sinks : pc[d] # "crashed"

IsConnected(d) == address[d] # NoAddress

-----------------------------------------------------------------------------
\* What a turn of runDacp leaves: if err is set, no address.
Ends(d, e, a) ==
  /\ pc' = [pc EXCEPT ![d] = "select"]
  /\ err' = [err EXCEPT ![d] = e]
  /\ address' = [address EXCEPT ![d] = IF e THEN NoAddress ELSE a]

\* An RTSP request with the headers calls open, and waits for the DACP
\* goroutine to take the closure.
Open(d, r) ==
  /\ Running /\ opening[d] = NoRemote /\ opens < MaxRequests
  /\ opening' = [opening EXCEPT ![d] = r]
  /\ opens' = opens + 1
  /\ UNCHANGED <<pc, remote, address, connectedName, req, err, crc, key,
                 channels, found, commands, failures>>

\* Mutant of Resolves: the old address stays until there is a new one.
ResolvesLater(d) ==
  /\ remote' = [remote EXCEPT ![d] = opening[d]]
  /\ pc' = [pc EXCEPT ![d] = IF req[d] = NoRequest THEN "resolve" ELSE "close"]
  /\ UNCHANGED <<err, address>>

\* A new remote: the address is invalid, the old request is to be closed.
Resolves(d) ==
  /\ remote' = [remote EXCEPT ![d] = opening[d]]
  /\ address' = [address EXCEPT ![d] = NoAddress]
  /\ pc' = [pc EXCEPT ![d] = IF req[d] = NoRequest THEN "resolve" ELSE "close"]
  /\ UNCHANGED err

\* Mutant of TakeOpen: mrc is not read while there is an address.
TakeOpenUnconnected(d) ==
  /\ pc[d] = "select" /\ opening[d] # NoRemote /\ ~IsConnected(d)
  /\ opening' = [opening EXCEPT ![d] = NoRemote]
  /\ \/ remote[d] = opening[d] /\ Ends(d, FALSE, address[d]) /\ UNCHANGED remote
     \/ remote[d] # opening[d] /\ Resolves(d)
  /\ UNCHANGED <<connectedName, req, crc, key, channels, bounds>>

\* The closure that open has sent, which runs in the DACP goroutine.
TakeOpen(d) ==
  /\ pc[d] = "select" /\ opening[d] # NoRemote
  /\ opening' = [opening EXCEPT ![d] = NoRemote]
  /\ \/ remote[d] = opening[d] /\ Ends(d, FALSE, address[d]) /\ UNCHANGED remote
     \/ remote[d] # opening[d] /\ Resolves(d)
  /\ UNCHANGED <<connectedName, req, crc, key, channels, bounds>>

Sends(closure) ==
  /\ Len(requestChan) < RequestCap
  /\ requestChan' = Append(requestChan, closure)

\* close: Avahi's is a closure for the resolver.
AvahiClose(d) ==
  /\ provider = "avahi" /\ Sends(<<"close", req[d]>>)
  /\ pc' = [pc EXCEPT ![d] = "resolve"]
  /\ UNCHANGED opening

\* The pure provider lets the queries go on.
PureClose(d) ==
  /\ provider = "pure"
  /\ pc' = [pc EXCEPT ![d] = "resolve"]
  /\ UNCHANGED <<opening, requestChan>>

\* Bonjour's asserts resolveObj to be what it points to, and panics.
BonjourClose(d) ==
  /\ provider = "bonjour"
  /\ pc' = [e \in Sinks |-> "crashed"] /\ opening' = [e \in Sinks |-> NoRemote]
  /\ UNCHANGED requestChan

\* zeroconf().close(d.req)
SendClose(d) ==
  /\ pc[d] = "close"
  /\ AvahiClose(d) \/ PureClose(d) \/ BonjourClose(d)
  /\ UNCHANGED <<remote, address, connectedName, req, err, crc, key, resolver, requests,
                 resolveObj, result, library, bounds>>

\* Bonjour's resolver may not start; the request is there all the same.
Starts(d, n) ==
  \/ /\ Ends(d, FALSE, address[d])
     /\ UNCHANGED <<started, failures>>
  \/ /\ provider = "bonjour" /\ failures < MaxFailures /\ failures' = failures + 1
     /\ started' = [started EXCEPT ![n] = 2]
     /\ Ends(d, TRUE, address[d])

\* zeroconf().resolveService(name, "_dacp._tcp")
SendResolve(d) ==
  LET n == Len(key) + 1
  IN  /\ pc[d] = "resolve"
      /\ IF provider = "avahi" THEN Sends(<<"resolve", n>>) ELSE UNCHANGED requestChan
      /\ key' = Append(key, remote[d][1])
      /\ req' = [req EXCEPT ![d] = n]
      /\ Starts(d, n)
      /\ UNCHANGED <<opening, remote, connectedName, crc, resolver, requests, resolveObj,
                     result, provider, queries, opens, found, commands>>

\* setResolvedAddress, and what is left of it if err is still set.
TakeResult(d) ==
  LET n == req[d]
  IN  /\ pc[d] = "select" /\ n # NoRequest /\ result[n] # <<>>
      /\ result' = [result EXCEPT ![n] = Tail(@)]
      /\ connectedName' = [connectedName EXCEPT ![d] = key[n]]
      /\ Ends(d, err[d], [address[d] EXCEPT ![Head(result[n])] = key[n]])
      /\ UNCHANGED <<opening, remote, req, crc, key, avahi, library, bounds>>
-----------------------------------------------------------------------------
\* Source.Command or the volume handler calls tx; the call waits for the answer.
Command(d) ==
  /\ Running /\ crc[d] < CommandCap /\ commands < MaxCommands
  /\ crc' = [crc EXCEPT ![d] = @ + 1]
  /\ commands' = commands + 1
  /\ UNCHANGED <<opening, pc, remote, address, connectedName, req, err, key,
                 channels, opens, found, failures>>

\* getCommandUrl knows IPv4 addresses only; without one the command fails.
TakeCommand(d) ==
  /\ pc[d] = "select" /\ IsConnected(d) /\ req[d] # NoRequest /\ crc[d] > 0
  /\ crc' = [crc EXCEPT ![d] = @ - 1]
  /\ \/ /\ address[d][4] # None
        /\ pc' = [pc EXCEPT ![d] = "http"]
        /\ UNCHANGED <<err, address>>
     \/ address[d][4] = None /\ Ends(d, TRUE, NoAddress)
  /\ UNCHANGED <<opening, remote, connectedName, req, key, channels, bounds>>

\* An answer, whatever its status, is no error for runDacp.
HttpDone(d) ==
  /\ pc[d] = "http"
  /\ \E e \in BOOLEAN : Ends(d, e, address[d])
  /\ UNCHANGED <<opening, remote, connectedName, req, crc, key, channels, bounds>>

-----------------------------------------------------------------------------
\* The resolver runs a closure: a new request is refused if there is one for
\* the same service.
Resolve(n) ==
  LET i == key[n]
  IN  /\ \/ requests[i] # NoRequest /\ UNCHANGED <<requests, resolveObj, failures>>
         \/ /\ requests[i] = NoRequest
            /\ requests' = [requests EXCEPT ![i] = n]
            /\ \/ resolveObj' = resolveObj \union {n} /\ UNCHANGED failures
               \/ /\ failures < MaxFailures /\ failures' = failures + 1
                  /\ UNCHANGED resolveObj
      /\ UNCHANGED <<pc, opening>>

\* Mutant of Close: only Avahi's object is freed.
CloseHalf(n) == UNCHANGED <<pc, opening, requests, resolveObj, failures>>

\* Whoever asked for the service, its request is deleted, and the object of
\* the caller's request freed; where that is nil the program panics.
Close(n) ==
  LET i == key[n]
  IN  /\ requests' = [requests EXCEPT ![i] = NoRequest]
      /\ IF requests[i] # NoRequest /\ n \notin resolveObj
         THEN /\ pc' = [d \in Sinks |-> "crashed"]
              /\ opening' = [d \in Sinks |-> NoRemote]
         ELSE UNCHANGED <<pc, opening>>
      /\ UNCHANGED <<resolveObj, failures>>

Serve ==
  /\ Running /\ resolver = <<>> /\ requestChan # <<>>
  /\ requestChan' = Tail(requestChan)
  /\ LET n == Head(requestChan)[2]
     IN  IF Head(requestChan)[1] = "resolve" THEN Resolve(n) ELSE Close(n)
  /\ UNCHANGED <<remote, address, connectedName, req, err, crc, key, result,
                 resolver, library, opens, found, commands>>

\* Avahi signals that it has found a service (again, or at another address).
Found(i, f) ==
  /\ Running /\ resolver = <<>> /\ requests[i] \in resolveObj /\ found < MaxFound
  /\ resolver' = <<requests[i], f>>
  /\ found' = found + 1
  /\ UNCHANGED <<opening, pc, remote, address, connectedName, req, err, crc, key,
                 requestChan, requests, resolveObj, result, library, opens,
                 commands, failures>>

\* Mutant of Deliver: the channel has no bound.
DeliverAlways ==
  /\ resolver # <<>>
  /\ result' = [result EXCEPT ![resolver[1]] = Append(@, resolver[2])]
  /\ resolver' = <<>>
  /\ UNCHANGED <<opening, pc, remote, address, connectedName, req, err, crc, key,
                 requestChan, requests, resolveObj, library, bounds>>

\* A send on a full result channel waits, and with it the resolver.
Deliver ==
  /\ resolver # <<>> /\ Len(result[resolver[1]]) < ResultCap
  /\ result' = [result EXCEPT ![resolver[1]] = Append(@, resolver[2])]
  /\ resolver' = <<>>
  /\ UNCHANGED <<opening, pc, remote, address, connectedName, req, err, crc, key,
                 requestChan, requests, resolveObj, library, bounds>>

(***************************************************************************)
(* The libraries.  When the service is found its callback begins a query   *)
(* for IPv4 addresses and then one for IPv6, which Bonjour may refuse.     *)
(***************************************************************************)
Family(query) == IF query = 1 THEN 4 ELSE 6

BeginQuery(n) ==
  /\ Running /\ provider # "avahi" /\ n <= Len(key) /\ started[n] < 2
  /\ started' = [started EXCEPT ![n] = @ + 1]
  /\ \/ queries' = [queries EXCEPT ![n] = @ \union {Family(started'[n])}]
     \/ provider = "bonjour" /\ UNCHANGED queries
  /\ UNCHANGED <<opening, pc, remote, address, connectedName, req, err, crc, key, avahi,
                 result, provider, bounds>>

\* The callback of a query waits for room in the channel.  That of the pure
\* provider then cancels the query that was begun last, whichever it is that has
\* been answered.
Answer(n, f) ==
  /\ Running /\ f \in queries[n] /\ found < MaxFound /\ Len(result[n]) < ResultCap
  /\ result' = [result EXCEPT ![n] = Append(@, f)]
  /\ found' = found + 1
  /\ queries' = [queries EXCEPT ![n] =
                   IF provider = "pure" THEN @ \ {Family(started[n])} ELSE @]
  /\ UNCHANGED <<opening, pc, remote, address, connectedName, req, err, crc, key, avahi,
                 provider, started, opens, commands, failures>>

Next ==
  \/ \E d \in Sinks :
       \/ \E r \in Remotes : Open(d, r)
       \/ TakeOpen(d) \/ SendClose(d) \/ SendResolve(d) \/ TakeResult(d)
       \/ Command(d) \/ TakeCommand(d) \/ HttpDone(d)
  \/ Serve \/ Deliver
  \/ \E i \in Ids, f \in Families : Found(i, f)
  \/ \E n \in Requests : BeginQuery(n) \/ \E f \in Families : Answer(n, f)

(***************************************************************************)
(* The goroutines run.  As opens, answers and commands are bounded, this   *)
(* is also the fairness of select and of channels, which serve those that  *)
(* wait in order.                                                          *)
(***************************************************************************)
Fairness ==
  /\ WF_vars(Serve \/ Deliver)
  /\ \A d \in Sinks : WF_vars(\/ TakeOpen(d) \/ SendClose(d) \/ SendResolve(d)
                              \/ TakeResult(d) \/ TakeCommand(d) \/ HttpDone(d))

Spec == Init /\ [][Next]_vars /\ Fairness

-----------------------------------------------------------------------------
TypeOK ==
  /\ {opening[d] : d \in Sinks} \union {remote[d] : d \in Sinks}
       \subseteq Remotes \union {NoRemote}
  /\ pc \in [Sinks -> {"select", "close", "resolve", "http", "crashed"}]
  /\ address \in [Sinks -> [Families -> Ids \union {None}]]
  /\ connectedName \in [Sinks -> Ids \union {None}]
  /\ key \in Seq(Ids) /\ Len(key) <= MaxRequests
  /\ req \in [Sinks -> 0 .. Len(key)]
  /\ err \in [Sinks -> BOOLEAN]
  /\ crc \in [Sinks -> 0 .. CommandCap]
  /\ requestChan \in Seq({"resolve", "close"} \X Requests)
  /\ Len(requestChan) <= RequestCap
  /\ resolver = <<>> \/ resolver \in Requests \X Families
  /\ requests \in [Ids -> 0 .. Len(key)]
  /\ resolveObj \subseteq 1 .. Len(key)
  /\ \A n \in Requests : result[n] \in Seq(Families) /\ Len(result[n]) <= ResultCap
  /\ provider \in Providers
  /\ started \in [Requests -> 0 .. 2] /\ queries \in [Requests -> SUBSET Families]

\* A command never goes to a source that is no longer the one whose requests
\* the sink serves: the address, when the goroutine can use it, is that of the
\* id it was last opened with, whatever replies were still on their way.
AddressIsCurrent ==
  \A d \in Sinks : pc[d] \in {"select", "http"} =>
    \A f \in Families : address[d][f] \in {None, remote[d][1]}

\* Once the resolver has caught up it looks only for what some sink wants.
ResolverFollows ==
  requestChan = <<>> /\ (\A d \in Sinks : pc[d] = "select") =>
    \A i \in Ids : requests[i] = NoRequest \/ \E d \in Sinks : req[d] = requests[i]

\* The resolver is stuck on a result that nobody is going to read.
Abandoned ==
  /\ resolver # <<>>
  /\ \A d \in Sinks : req[d] = resolver[1] => pc[d] \in {"close", "resolve"}

\* An RTSP request is not held up for ever by open, unless the resolver is
\* stuck for ever on an abandoned result.
OpenReturns ==
  \/ <>[]Abandoned
  \/ \A d \in Sinks : opening[d] # NoRemote ~> opening[d] = NoRemote

\* "there is a zeroconf resolve request pending se we will just wait for the
\* response": the resolver gets the request on which the goroutine waits.
ResolveIsPending ==
  \A d \in Sinks, n \in Requests :
    req[d] = n ~> req[d] # n \/ n \in {requests[i] : i \in Ids} \/ ~Running
=============================================================================
