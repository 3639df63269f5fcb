----------------------------- MODULE DacpProofs -----------------------------
(***************************************************************************)
(* Proofs that commands go to the source a sink was last opened with, that *)
(* the resolver looks only for what sinks want, and that every variable    *)
(* keeps its type, for any number of sinks, sources and requests, any      *)
(* capacities, and all three providers.                                    *)
(***************************************************************************)
EXTENDS Dacp, SequenceTheorems, FiniteSetTheorems, TLAPS

Remotes0 == Remotes \union {NoRemote}
Places == {"select", "close", "resolve", "http", "crashed"}

AddressType ==
  /\ opening \in [Sinks -> Remotes0] /\ remote \in [Sinks -> Remotes0]
  /\ pc \in [Sinks -> Places]
  /\ address \in [Sinks -> [Families -> Ids \union {None}]]
  /\ key \in Seq(Ids)
  /\ req \in [Sinks -> 0 .. Len(key)]

\* The request is for the id of the remote, when the goroutine is at its select.
RequestIsCurrent ==
  \A d \in Sinks : pc[d] \in {"select", "http"} /\ req[d] # NoRequest =>
    key[req[d]] = remote[d][1]

\* While the request is replaced there is a remote, and no address.
AddressIsGone ==
  \A d \in Sinks : pc[d] \in {"close", "resolve"} =>
    remote[d] \in Remotes /\ address[d] = NoAddress

AddressInv == AddressType /\ RequestIsCurrent /\ AddressIsGone /\ AddressIsCurrent

-----------------------------------------------------------------------------
\* No address is an address of each family, none of which is there.
LEMMA NoAddressType ==
  /\ NoAddress \in [Families -> Ids \union {None}]
  /\ \A f \in Families : NoAddress[f] = None
BY DEF NoAddress

\* The turn of a goroutine that leaves an address of its remote, or none.
LEMMA TurnKeeps ==
  ASSUME AddressInv, NEW d \in Sinks, NEW e,
         NEW a \in [Families -> Ids \union {None}],
         \A f \in Families : a[f] \in {None, remote[d][1]},
         req[d] # NoRequest => key[req[d]] = remote[d][1],
         Ends(d, e, a), opening' \in [Sinks -> Remotes0],
         UNCHANGED <<remote, req, key>>
  PROVE  AddressInv'
<1>. DEFINE b == IF e THEN NoAddress ELSE a
<1>1. b \in [Families -> Ids \union {None}] /\ \A f \in Families : b[f] \in {None, remote[d][1]}
  BY NoAddressType
<1>. HIDE DEF b
<1>2. pc' = [pc EXCEPT ![d] = "select"] /\ address' = [address EXCEPT ![d] = b]
  BY DEF Ends, b
<1>3. AddressType'
  BY <1>1, <1>2 DEF AddressInv, AddressType, Places
<1>4. RequestIsCurrent' /\ AddressIsGone'
  BY <1>2 DEF AddressInv, AddressType, RequestIsCurrent, AddressIsGone
<1>5. AddressIsCurrent'
  BY <1>1, <1>2 DEF AddressInv, AddressType, AddressIsCurrent
<1>. QED  BY <1>3, <1>4, <1>5 DEF AddressInv

\* A goroutine goes on, or all have crashed, and nothing else changes.
LEMMA MoveKeeps ==
  ASSUME AddressInv, UNCHANGED <<remote, address, req, key>>,
         opening' \in [Sinks -> Remotes0],
         \/ pc' = pc
         \/ pc' = [d \in Sinks |-> "crashed"]
         \/ \E d \in Sinks : pc[d] = "close" /\ pc' = [pc EXCEPT ![d] = "resolve"]
         \/ \E d \in Sinks : pc[d] = "select" /\ pc' = [pc EXCEPT ![d] = "http"]
  PROVE  AddressInv'
<1>1. pc' \in [Sinks -> Places]
  BY DEF AddressInv, AddressType, Places
<1>2. \A d \in Sinks : /\ pc'[d] \in {"select", "http"} => pc[d] \in {"select", "http"}
                       /\ pc'[d] \in {"close", "resolve"} => pc[d] \in {"close", "resolve"}
  BY DEF AddressInv, AddressType
<1>3. AddressType'
  BY <1>1 DEF AddressInv, AddressType
<1>. QED  BY <1>2, <1>3 DEF AddressInv, RequestIsCurrent, AddressIsGone, AddressIsCurrent

\* open: for another remote the address goes before the request does.
LEMMA TakeOpenKeeps ==
  ASSUME AddressInv, NEW d \in Sinks, TakeOpen(d)
  PROVE  AddressInv'
<1>1. /\ pc[d] = "select" /\ UNCHANGED <<req, key>> /\ opening[d] \in Remotes
      /\ opening' \in [Sinks -> Remotes0]
  <2>1. NoRemote \in Remotes0
    BY DEF Remotes0
  <2>. QED  BY <2>1 DEF TakeOpen, AddressInv, AddressType, Remotes0
<1>2. CASE Ends(d, FALSE, address[d]) /\ UNCHANGED remote
  BY <1>1, <1>2, TurnKeeps
     DEF AddressInv, AddressType, RequestIsCurrent, AddressIsCurrent
<1>3. CASE Resolves(d)
  <2>1. /\ remote' \in [Sinks -> Remotes0] /\ pc' \in [Sinks -> Places]
        /\ address' = [address EXCEPT ![d] = NoAddress]
        /\ address' \in [Sinks -> [Families -> Ids \union {None}]]
        /\ pc'[d] \in {"resolve", "close"} /\ remote'[d] \in Remotes
        /\ \A c \in Sinks \ {d} : /\ remote'[c] = remote[c] /\ pc'[c] = pc[c]
                                  /\ address'[c] = address[c]
    BY <1>1, <1>3, NoAddressType DEF Resolves, AddressInv, AddressType, Places, Remotes0
  <2>2. AddressType'
    BY <1>1, <2>1 DEF AddressInv, AddressType
  <2>3. RequestIsCurrent' /\ AddressIsCurrent'
    BY <1>1, <2>1 DEF AddressInv, RequestIsCurrent, AddressIsCurrent
  <2>4. AddressIsGone'
    BY <2>1 DEF AddressInv, AddressType, AddressIsGone
  <2>. QED  BY <2>2, <2>3, <2>4 DEF AddressInv
<1>. QED  BY <1>2, <1>3 DEF TakeOpen

\* resolveService: the new request is for the id of the remote.
LEMMA SendResolveKeeps ==
  ASSUME AddressInv, NEW d \in Sinks, SendResolve(d)
  PROVE  AddressInv'
<1>. DEFINE n == Len(key) + 1
<1>1. /\ pc[d] = "resolve" /\ key' = Append(key, remote[d][1]) /\ req' = [req EXCEPT ![d] = n]
      /\ UNCHANGED <<opening, remote>>
      /\ \E e \in BOOLEAN : Ends(d, e, address[d])
  BY DEF SendResolve, Starts
<1>2. PICK e \in BOOLEAN : Ends(d, e, address[d])
  BY <1>1
<1>3. address[d] = NoAddress /\ remote[d][1] \in Ids
  BY <1>1 DEF AddressInv, AddressIsGone, Remotes
<1>4. pc' = [pc EXCEPT ![d] = "select"] /\ address' = [address EXCEPT ![d] = NoAddress]
  BY <1>2, <1>3 DEF Ends
<1>5. key \in Seq(Ids) /\ Len(key) \in Nat
  BY LenProperties DEF AddressInv, AddressType
<1>6. /\ key' \in Seq(Ids) /\ Len(key') = n /\ key'[n] = remote[d][1]
      /\ \A m \in 1 .. Len(key) : key'[m] = key[m]
  BY <1>1, <1>3, <1>5, AppendProperties
<1>7. /\ req' \in [Sinks -> 0 .. Len(key')] /\ req'[d] = n
      /\ \A c \in Sinks \ {d} : req'[c] = req[c] /\ req[c] \in 0 .. Len(key)
  BY <1>1, <1>5, <1>6 DEF AddressInv, AddressType
<1>. HIDE DEF n
<1>8. AddressType'
  BY <1>1, <1>4, <1>6, <1>7, NoAddressType DEF AddressInv, AddressType, Places
<1>9. RequestIsCurrent'
  <2>1. \A c \in Sinks \ {d} : pc'[c] = pc[c]
    BY <1>4 DEF AddressInv, AddressType
  <2>2. \A c \in Sinks \ {d} : req[c] # NoRequest => key'[req[c]] = key[req[c]]
    BY <1>5, <1>6, <1>7 DEF NoRequest
  <2>. QED  BY <1>1, <1>6, <1>7, <2>1, <2>2 DEF AddressInv, RequestIsCurrent
<1>10. AddressIsGone' /\ AddressIsCurrent'
  BY <1>1, <1>4, NoAddressType
     DEF AddressInv, AddressType, AddressIsGone, AddressIsCurrent
<1>. QED  BY <1>8, <1>9, <1>10 DEF AddressInv

\* A result is for the request that is current, whichever replies were on their way.
LEMMA TakeResultKeeps ==
  ASSUME AddressInv, NEW d \in Sinks, TakeResult(d)
  PROVE  AddressInv'
<1>. DEFINE n == req[d]
            a == [address[d] EXCEPT ![Head(result[n])] = key[n]]
<1>1. /\ pc[d] = "select" /\ n # NoRequest /\ Ends(d, err[d], a)
      /\ UNCHANGED <<opening, remote, req, key>>
  BY DEF TakeResult
<1>2. key[n] \in Ids /\ key[n] = remote[d][1]
  <2>1. n \in 1 .. Len(key)
    BY <1>1, LenProperties DEF AddressInv, AddressType, NoRequest
  <2>. QED  BY <1>1, <2>1, ElementOfSeq DEF AddressInv, AddressType, RequestIsCurrent
<1>3. a \in [Families -> Ids \union {None}] /\ \A f \in Families : a[f] \in {None, remote[d][1]}
  BY <1>1, <1>2 DEF AddressInv, AddressType, AddressIsCurrent
<1>. HIDE DEF a, n
<1>4. req[d] # NoRequest => key[req[d]] = remote[d][1]
  BY <1>2 DEF n
<1>. QED  BY <1>1, <1>3, <1>4, TurnKeeps DEF AddressInv, AddressType

-----------------------------------------------------------------------------
\* At the start there are no requests and no addresses.
LEMMA AddressInit == Init => AddressInv
<1>. SUFFICES ASSUME Init
              PROVE  AddressInv
  OBVIOUS
<1>1. NoRemote \in Remotes0 /\ "select" \in Places
  BY DEF Remotes0, Places
<1>2. Len(key) \in Nat /\ key \in Seq(Ids)
  BY DEF Init
<1>3. AddressType
  BY <1>1, <1>2, NoAddressType DEF Init, AddressType, NoRequest
<1>. QED  BY <1>3, NoAddressType
          DEF Init, AddressInv, RequestIsCurrent, AddressIsGone, AddressIsCurrent

\* Every step keeps the invariant: only open, the goroutine of the sink and what a
\* provider finds change what it is about.
LEMMA AddressStep == AddressInv /\ [Next]_vars => AddressInv'
<1>. SUFFICES ASSUME AddressInv, [Next]_vars
              PROVE  AddressInv'
  OBVIOUS
<1>0. /\ opening \in [Sinks -> Remotes0]
      /\ [d \in Sinks |-> NoRemote] \in [Sinks -> Remotes0]
  BY DEF AddressInv, AddressType, Remotes0
<1>1. ASSUME NEW d \in Sinks, NEW r \in Remotes, Open(d, r)
      PROVE  AddressInv'
  <2>1. opening' \in [Sinks -> Remotes0]
    BY <1>0, <1>1 DEF Open, Remotes0
  <2>. QED  BY <1>1, <2>1, MoveKeeps DEF Open
<1>2. ASSUME NEW d \in Sinks, SendClose(d)
      PROVE  AddressInv'
  BY <1>0, <1>2, MoveKeeps DEF SendClose, AvahiClose, PureClose, BonjourClose
<1>3. ASSUME NEW d \in Sinks, Command(d)
      PROVE  AddressInv'
  BY <1>0, <1>3, MoveKeeps DEF Command
<1>4. ASSUME NEW d \in Sinks, TakeCommand(d)
      PROVE  AddressInv'
  <2>1. pc[d] = "select" /\ UNCHANGED <<opening, remote, req, key>>
    BY <1>4 DEF TakeCommand
  <2>2. CASE pc' = [pc EXCEPT ![d] = "http"] /\ UNCHANGED <<err, address>>
    BY <1>0, <2>1, <2>2, MoveKeeps
  <2>3. CASE Ends(d, TRUE, NoAddress)
    BY <1>0, <2>1, <2>3, NoAddressType, TurnKeeps DEF AddressInv, RequestIsCurrent
  <2>. QED  BY <1>4, <2>2, <2>3 DEF TakeCommand
<1>5. ASSUME NEW d \in Sinks, HttpDone(d)
      PROVE  AddressInv'
  <2>1. pc[d] = "http" /\ UNCHANGED <<opening, remote, req, key>>
    BY <1>5 DEF HttpDone
  <2>2. PICK e \in BOOLEAN : Ends(d, e, address[d])
    BY <1>5 DEF HttpDone
  <2>3. /\ address[d] \in [Families -> Ids \union {None}]
        /\ \A f \in Families : address[d][f] \in {None, remote[d][1]}
        /\ req[d] # NoRequest => key[req[d]] = remote[d][1]
    BY <2>1 DEF AddressInv, AddressType, AddressIsCurrent, RequestIsCurrent
  <2>. QED  BY <1>0, <2>1, <2>2, <2>3, TurnKeeps
<1>6. CASE Serve
  <2>1. /\ UNCHANGED <<remote, address, req, key>>
        /\ \/ UNCHANGED <<pc, opening>>
           \/ pc' = [d \in Sinks |-> "crashed"] /\ opening' = [d \in Sinks |-> NoRemote]
    BY <1>6 DEF Serve, Resolve, Close
  <2>. QED  BY <1>0, <2>1, MoveKeeps
<1>7. CASE Deliver
  BY <1>0, <1>7, MoveKeeps DEF Deliver
<1>8. ASSUME NEW i \in Ids, NEW f \in Families, Found(i, f)
      PROVE  AddressInv'
  BY <1>0, <1>8, MoveKeeps DEF Found
<1>9. ASSUME NEW n \in Requests, BeginQuery(n)
      PROVE  AddressInv'
  BY <1>0, <1>9, MoveKeeps DEF BeginQuery
<1>10. ASSUME NEW n \in Requests, NEW f \in Families, Answer(n, f)
       PROVE  AddressInv'
  BY <1>0, <1>10, MoveKeeps DEF Answer
<1>11. CASE UNCHANGED vars
  BY <1>0, <1>11, MoveKeeps DEF vars
<1>. QED
  BY <1>1, <1>2, <1>3, <1>4, <1>5, <1>6, <1>7, <1>8, <1>9, <1>10, <1>11,
     TakeOpenKeeps, SendResolveKeeps, TakeResultKeeps DEF Next

-----------------------------------------------------------------------------
\* Who asked for a request wants it until it has sent its close.
Wanted(n) == \E d \in Sinks : req[d] = n /\ pc[d] # "resolve"
Closing(n, p) == \E q \in p + 1 .. Len(requestChan) : requestChan[q] = <<"close", n>>

\* Only Avahi's resolver has closures to run and requests.
Resolver ==
  /\ requestChan \in Seq({"resolve", "close"} \X Nat) /\ requests \in [Ids -> Nat]
  /\ provider # "avahi" => requestChan = <<>> /\ \A i \in Ids : requests[i] = NoRequest

\* What the resolver looks for is wanted, or its close is on its way; so is what it
\* is going to look for, with the close behind it.
Looking ==
  \A i \in Ids : requests[i] # NoRequest =>
    /\ requests[i] \in 1 .. Len(key) /\ key[requests[i]] = i
    /\ Wanted(requests[i]) \/ Closing(requests[i], 0)
Pending ==
  \A p \in 1 .. Len(requestChan), n \in Nat : requestChan[p] = <<"resolve", n>> =>
    n \in 1 .. Len(key) /\ (Wanted(n) \/ Closing(n, p))

FollowInv == Resolver /\ Looking /\ Pending

-----------------------------------------------------------------------------
\* Nobody stops wanting a request.
LEMMA FollowKeeps ==
  ASSUME FollowInv, UNCHANGED <<requestChan, requests, key, provider, req>>,
         \A d \in Sinks : pc'[d] = "resolve" => pc[d] = "resolve" \/ req[d] = NoRequest
  PROVE  FollowInv'
<1>1. \A n \in Nat : Wanted(n) /\ n # NoRequest => Wanted(n)'
  BY DEF Wanted
<1>2. \A n \in Nat, p \in Nat : Closing(n, p) => Closing(n, p)'
  BY DEF Closing
<1>3. Resolver'
  BY DEF FollowInv, Resolver
<1>4. Looking'
  <2>1. \A i \in Ids : requests[i] \in Nat
    BY DEF FollowInv, Resolver
  <2>. QED  BY <1>1, <1>2, <2>1 DEF FollowInv, Looking
<1>5. Pending'
  <2>1. \A n \in 1 .. Len(key) : n # NoRequest
    BY DEF NoRequest
  <2>2. \A p \in 1 .. Len(requestChan) : p \in Nat
    OBVIOUS
  <2>. QED  BY <1>1, <1>2, <2>1, <2>2 DEF FollowInv, Pending
<1>. QED  BY <1>3, <1>4, <1>5 DEF FollowInv

\* The close of a request is behind everything that has been asked for it.
LEMMA CloseFollows ==
  ASSUME FollowInv, AddressInv, NEW d \in Sinks, SendClose(d)
  PROVE  FollowInv'
<1>1. UNCHANGED <<requests, key, provider, req>>
  BY DEF SendClose, library
<1>2. CASE provider # "avahi"
  <2>1. requestChan = <<>> /\ requestChan' = <<>> /\ \A i \in Ids : requests[i] = NoRequest
    BY <1>2 DEF FollowInv, Resolver, SendClose, AvahiClose, PureClose, BonjourClose
  <2>. QED  BY <1>1, <1>2, <2>1 DEF FollowInv, Resolver, Looking, Pending
<1>3. CASE provider = "avahi"
  <2>. DEFINE k == req[d]
              l == Len(requestChan)
  <2>1. /\ requestChan' = Append(requestChan, <<"close", k>>)
        /\ pc' = [pc EXCEPT ![d] = "resolve"]
    BY <1>3 DEF SendClose, AvahiClose, PureClose, BonjourClose, Sends
  <2>2. k \in Nat
    BY LenProperties DEF AddressInv, AddressType
  <2>3. l \in Nat /\ requestChan \in Seq({"resolve", "close"} \X Nat)
    BY LenProperties DEF FollowInv, Resolver
  <2>4. /\ requestChan' \in Seq({"resolve", "close"} \X Nat) /\ Len(requestChan') = l + 1
        /\ requestChan'[l + 1] = <<"close", k>>
        /\ \A p \in 1 .. l : requestChan'[p] = requestChan[p]
    BY <2>1, <2>2, <2>3
  <2>. HIDE DEF k, l
  <2>5. \A n \in Nat, p \in 0 .. l : Wanted(n) => Wanted(n)' \/ Closing(n, p)'
    <3>. SUFFICES ASSUME NEW n \in Nat, NEW p \in 0 .. l, Wanted(n)
                  PROVE  Wanted(n)' \/ Closing(n, p)'
      OBVIOUS
    <3>1. PICK c \in Sinks : req[c] = n /\ pc[c] # "resolve"
      BY DEF Wanted
    <3>2. CASE c = d
      <4>1. l + 1 \in p + 1 .. Len(requestChan') /\ requestChan'[l + 1] = <<"close", n>>
        BY <2>3, <2>4, <3>1, <3>2 DEF k
      <4>. QED  BY <4>1 DEF Closing
    <3>3. CASE c # d
      <4>1. req'[c] = n /\ pc'[c] # "resolve"
        BY <1>1, <2>1, <3>1, <3>3 DEF AddressInv, AddressType
      <4>. QED  BY <4>1 DEF Wanted
    <3>. QED  BY <3>2, <3>3
  <2>6. \A n \in Nat, p \in 0 .. l : Closing(n, p) => Closing(n, p)'
    <3>. SUFFICES ASSUME NEW n \in Nat, NEW p \in 0 .. l, Closing(n, p)
                  PROVE  Closing(n, p)'
      OBVIOUS
    <3>1. PICK q \in p + 1 .. l : requestChan[q] = <<"close", n>>
      BY DEF Closing, l
    <3>2. q \in p + 1 .. Len(requestChan') /\ requestChan'[q] = <<"close", n>>
      BY <2>3, <2>4, <3>1
    <3>. QED  BY <3>2 DEF Closing
  <2>7. Resolver'
    BY <1>1, <1>3, <2>4 DEF FollowInv, Resolver
  <2>8. Looking'
    <3>1. 0 \in 0 .. l /\ \A i \in Ids : requests[i] \in Nat
      BY <2>3 DEF FollowInv, Resolver
    <3>. QED  BY <1>1, <2>5, <2>6, <3>1 DEF FollowInv, Looking
  <2>9. Pending'
    <3>. SUFFICES ASSUME NEW p \in 1 .. l + 1, NEW n \in Nat,
                         requestChan'[p] = <<"resolve", n>>
                  PROVE  n \in 1 .. Len(key) /\ (Wanted(n)' \/ Closing(n, p)')
      BY <1>1, <2>4 DEF Pending
    <3>1. p \in 1 .. l /\ p \in 0 .. l /\ requestChan[p] = <<"resolve", n>>
      BY <2>3, <2>4
    <3>2. n \in 1 .. Len(key) /\ (Wanted(n) \/ Closing(n, p))
      BY <3>1 DEF FollowInv, Pending, l
    <3>. QED  BY <2>5, <2>6, <3>1, <3>2
  <2>. QED  BY <2>7, <2>8, <2>9 DEF FollowInv
<1>. QED  BY <1>2, <1>3

\* The new request is wanted, and the one it replaces had been given up before.
LEMMA ResolveFollows ==
  ASSUME FollowInv, AddressInv, NEW d \in Sinks, SendResolve(d)
  PROVE  FollowInv'
<1>. DEFINE k == Len(key) + 1
            l == Len(requestChan)
<1>1. /\ pc[d] = "resolve" /\ key' = Append(key, remote[d][1])
      /\ req' = [req EXCEPT ![d] = k] /\ UNCHANGED <<requests, provider>>
      /\ requestChan' = IF provider = "avahi" THEN Append(requestChan, <<"resolve", k>>)
                        ELSE requestChan
  BY DEF SendResolve, Sends
<1>2. PICK e \in BOOLEAN : Ends(d, e, address[d])
  BY DEF SendResolve, Starts
<1>3. pc' = [pc EXCEPT ![d] = "select"]
  BY <1>2 DEF Ends
<1>4. remote[d][1] \in Ids /\ key \in Seq(Ids) /\ Len(key) \in Nat
  BY <1>1, LenProperties DEF AddressInv, AddressType, AddressIsGone, Remotes
<1>5. /\ Len(key') = k /\ k \in Nat /\ 1 .. Len(key) \subseteq 1 .. k /\ k \in 1 .. k
      /\ \A m \in 1 .. Len(key) : key'[m] = key[m]
  BY <1>1, <1>4
<1>6. l \in Nat /\ requestChan \in Seq({"resolve", "close"} \X Nat)
  BY LenProperties DEF FollowInv, Resolver
<1>7. /\ requestChan' \in Seq({"resolve", "close"} \X Nat) /\ Len(requestChan') \in {l, l + 1}
      /\ \A p \in 1 .. l : requestChan'[p] = requestChan[p]
      /\ \A p \in 1 .. Len(requestChan') :
           p \in 1 .. l \/ (p = l + 1 /\ requestChan'[p] = <<"resolve", k>>)
  <2>1. CASE provider = "avahi"
    BY <1>1, <1>5, <1>6, <2>1
  <2>2. CASE provider # "avahi"
    BY <1>1, <1>6, <2>2
  <2>. QED  BY <2>1, <2>2
<1>. HIDE DEF k, l
<1>8. \A n \in Nat : Wanted(n) => Wanted(n)'
  <2>. SUFFICES ASSUME NEW n \in Nat, Wanted(n)
                PROVE  Wanted(n)'
    OBVIOUS
  <2>1. PICK c \in Sinks : req[c] = n /\ pc[c] # "resolve"
    BY DEF Wanted
  <2>2. req'[c] = n /\ pc'[c] # "resolve"
    BY <1>1, <1>3, <2>1 DEF AddressInv, AddressType
  <2>. QED  BY <2>2 DEF Wanted
<1>9. req'[d] = k /\ pc'[d] # "resolve"
  BY <1>1, <1>3 DEF AddressInv, AddressType
<1>10. \A n \in Nat, p \in 0 .. l : Closing(n, p) => Closing(n, p)'
  <2>. SUFFICES ASSUME NEW n \in Nat, NEW p \in 0 .. l, Closing(n, p)
                PROVE  Closing(n, p)'
    OBVIOUS
  <2>1. PICK q \in p + 1 .. l : requestChan[q] = <<"close", n>>
    BY DEF Closing, l
  <2>2. q \in 1 .. l
    BY <1>6, <2>1
  <2>3. requestChan'[q] = <<"close", n>>
    BY <1>7, <2>1, <2>2
  <2>4. q \in p + 1 .. Len(requestChan')
    BY <1>6, <1>7, <2>1
  <2>. QED  BY <2>3, <2>4 DEF Closing
<1>11. Resolver'
  BY <1>1, <1>7 DEF FollowInv, Resolver
<1>12. Looking'
  <2>1. 0 \in 0 .. l /\ \A i \in Ids : requests[i] \in Nat
    BY <1>6 DEF FollowInv, Resolver
  <2>2. \A i \in Ids : requests[i] # NoRequest =>
          /\ requests[i] \in 1 .. Len(key') /\ key'[requests[i]] = i
          /\ Wanted(requests[i]) \/ Closing(requests[i], 0)
    BY <1>5 DEF FollowInv, Looking
  <2>. QED  BY <1>1, <1>8, <1>10, <2>1, <2>2 DEF Looking
<1>13. Pending'
  <2>. SUFFICES ASSUME NEW p \in 1 .. Len(requestChan'), NEW n \in Nat,
                       requestChan'[p] = <<"resolve", n>>
                PROVE  n \in 1 .. Len(key') /\ (Wanted(n)' \/ Closing(n, p)')
    BY DEF Pending
  <2>1. CASE p \in 1 .. l
    <3>1. p \in 0 .. l /\ requestChan[p] = <<"resolve", n>>
      BY <1>6, <1>7, <2>1
    <3>2. n \in 1 .. Len(key) /\ (Wanted(n) \/ Closing(n, p))
      BY <2>1, <3>1 DEF FollowInv, Pending, l
    <3>3. n \in 1 .. Len(key')
      BY <1>5, <3>2
    <3>4. Wanted(n)' \/ Closing(n, p)'
      BY <1>8, <1>10, <3>1, <3>2
    <3>. QED  BY <3>3, <3>4
  <2>2. CASE p = l + 1 /\ requestChan'[p] = <<"resolve", k>>
    <3>1. n = k
      BY <2>2
    <3>2. n \in 1 .. Len(key')
      BY <1>5, <3>1
    <3>3. Wanted(n)'
      BY <1>9, <3>1 DEF Wanted
    <3>. QED  BY <3>2, <3>3
  <2>. QED  BY <1>7, <2>1, <2>2
<1>. QED  BY <1>11, <1>12, <1>13 DEF FollowInv

\* The resolver takes what has been asked for first.
LEMMA ServeFollows ==
  ASSUME FollowInv, AddressInv, Serve
  PROVE  FollowInv'
<1>. DEFINE l == Len(requestChan)
            k == Head(requestChan)[2]
<1>1. /\ requestChan # <<>> /\ requestChan' = Tail(requestChan)
      /\ UNCHANGED <<key, req, provider>>
      /\ IF Head(requestChan)[1] = "resolve" THEN Resolve(k) ELSE Close(k)
  BY DEF Serve, library
<1>2. requestChan \in Seq({"resolve", "close"} \X Nat) /\ l \in Nat \ {0}
  BY <1>1, EmptySeq, LenProperties DEF FollowInv, Resolver
<1>3. /\ requestChan' \in Seq({"resolve", "close"} \X Nat) /\ Len(requestChan') = l - 1
      /\ \A p \in 1 .. l - 1 : requestChan'[p] = requestChan[p + 1]
      /\ Head(requestChan) = requestChan[1] /\ requestChan[1] \in {"resolve", "close"} \X Nat
  BY <1>1, <1>2
<1>4. k \in Nat /\ requestChan[1] \in {<<"resolve", k>>, <<"close", k>>}
  BY <1>3
<1>5. provider = "avahi"
  BY <1>1 DEF FollowInv, Resolver
<1>. HIDE DEF k, l
<1>6. \A n \in Nat : Wanted(n) => Wanted(n)'
  <2>1. \A d \in Sinks : pc'[d] = "resolve" => pc[d] = "resolve"
    BY <1>1 DEF Resolve, Close, AddressInv, AddressType
  <2>. QED  BY <1>1, <2>1 DEF Wanted
<1>7. \A n \in Nat, p \in 1 .. l : Closing(n, p) => Closing(n, p - 1)'
  <2>. SUFFICES ASSUME NEW n \in Nat, NEW p \in 1 .. l, Closing(n, p)
                PROVE  Closing(n, p - 1)'
    OBVIOUS
  <2>1. PICK q \in p + 1 .. l : requestChan[q] = <<"close", n>>
    BY DEF Closing, l
  <2>2. q - 1 \in 1 .. l - 1 /\ (q - 1) + 1 = q /\ q - 1 \in (p - 1) + 1 .. l - 1
    BY <1>2, <2>1
  <2>3. requestChan'[q - 1] = <<"close", n>>
    BY <1>3, <2>1, <2>2
  <2>. QED  BY <1>3, <2>2, <2>3 DEF Closing
<1>8. \A n \in Nat : Closing(n, 0) => Closing(n, 1) \/ (n = k /\ requestChan[1] = <<"close", k>>)
  <2>. SUFFICES ASSUME NEW n \in Nat, Closing(n, 0)
                PROVE  Closing(n, 1) \/ (n = k /\ requestChan[1] = <<"close", k>>)
    OBVIOUS
  <2>1. PICK q \in 0 + 1 .. l : requestChan[q] = <<"close", n>>
    BY DEF Closing, l
  <2>2. CASE q = 1
    BY <1>4, <2>1, <2>2
  <2>3. CASE q # 1
    <3>1. q \in 1 + 1 .. l
      BY <1>2, <2>1, <2>3
    <3>. QED  BY <2>1, <3>1 DEF Closing, l
  <2>. QED  BY <2>2, <2>3
<1>9. 1 \in 1 .. l /\ 1 - 1 = 0 /\ \A i \in Ids : requests[i] \in Nat
  BY <1>2 DEF FollowInv, Resolver
<1>10. Pending'
  <2>. SUFFICES ASSUME NEW p \in 1 .. l - 1, NEW n \in Nat,
                       requestChan'[p] = <<"resolve", n>>
                PROVE  n \in 1 .. Len(key) /\ (Wanted(n)' \/ Closing(n, p)')
    BY <1>1, <1>3 DEF Pending
  <2>1. /\ p + 1 \in 1 .. l /\ (p + 1) - 1 = p
        /\ requestChan[p + 1] = <<"resolve", n>>
    <3>1. l \in Nat \ {0}
      BY <1>2
    <3>2. p + 1 \in 1 .. l /\ (p + 1) - 1 = p
      BY <3>1
    <3>3. requestChan'[p] = requestChan[p + 1]
      BY <1>3
    <3>. QED  BY <3>2, <3>3
  <2>2. n \in 1 .. Len(key) /\ (Wanted(n) \/ Closing(n, p + 1))
    BY <2>1 DEF FollowInv, Pending, l
  <2>. QED  BY <1>6, <1>7, <2>1, <2>2
<1>11. CASE requestChan[1] = <<"resolve", k>>
  <2>1. Resolve(k)
    BY <1>1, <1>3, <1>11
  <2>2. k \in 1 .. Len(key) /\ (Wanted(k) \/ Closing(k, 1))
    BY <1>4, <1>9, <1>11 DEF FollowInv, Pending, l
  <2>3. key[k] \in Ids
    BY <2>2, ElementOfSeq DEF AddressInv, AddressType
  <2>4. /\ requests' \in [Ids -> Nat]
        /\ \A i \in Ids : requests'[i] = requests[i] \/ (requests'[i] = k /\ key[k] = i)
    BY <1>4, <2>1, <2>3 DEF Resolve, FollowInv, Resolver
  <2>5. Resolver'
    BY <1>1, <1>3, <1>5, <2>4 DEF Resolver
  <2>6. \A n \in Nat : Wanted(n) \/ Closing(n, 1) => Wanted(n)' \/ Closing(n, 0)'
    BY <1>6, <1>7, <1>9
  <2>7. \A i \in Ids : requests[i] # NoRequest =>
          /\ requests[i] \in 1 .. Len(key) /\ key[requests[i]] = i
          /\ Wanted(requests[i]) \/ Closing(requests[i], 1)
    BY <1>8, <1>9, <1>11 DEF FollowInv, Looking
  <2>8. Looking'
    BY <1>1, <1>4, <1>9, <2>2, <2>4, <2>6, <2>7 DEF Looking
  <2>. QED  BY <1>10, <2>5, <2>8 DEF FollowInv
<1>12. CASE requestChan[1] = <<"close", k>>
  <2>1. requests' = [requests EXCEPT ![key[k]] = NoRequest]
    BY <1>1, <1>3, <1>12 DEF Close
  <2>2. /\ requests' \in [Ids -> Nat]
        /\ \A i \in Ids : requests'[i] = IF i = key[k] THEN NoRequest ELSE requests[i]
    BY <2>1 DEF FollowInv, Resolver, NoRequest
  <2>3. Resolver'
    BY <1>1, <1>3, <1>5, <2>2 DEF Resolver
  <2>4. \A n \in Nat : Wanted(n) \/ Closing(n, 1) => Wanted(n)' \/ Closing(n, 0)'
    BY <1>6, <1>7, <1>9
  <2>5. \A i \in Ids : requests'[i] # NoRequest =>
          /\ requests'[i] = requests[i] /\ requests[i] # k
          /\ requests[i] \in 1 .. Len(key) /\ key[requests[i]] = i
          /\ Wanted(requests[i]) \/ Closing(requests[i], 1)
    BY <1>8, <1>9, <2>2 DEF FollowInv, Looking
  <2>6. Looking'
    BY <1>1, <1>9, <2>4, <2>5 DEF Looking
  <2>. QED  BY <1>10, <2>3, <2>6 DEF FollowInv
<1>. QED  BY <1>4, <1>11, <1>12

\* Every step keeps what the resolver looks for.
LEMMA FollowStep == FollowInv /\ AddressInv /\ [Next]_vars => FollowInv'
<1>. SUFFICES ASSUME FollowInv, AddressInv, [Next]_vars
              PROVE  FollowInv'
  OBVIOUS
<1>1. ASSUME NEW d \in Sinks,
             \/ \E r \in Remotes : Open(d, r)
             \/ TakeOpen(d) \/ TakeResult(d) \/ Command(d) \/ TakeCommand(d) \/ HttpDone(d)
      PROVE  FollowInv'
  <2>1. UNCHANGED <<requestChan, requests, key, provider, req>>
    BY <1>1 DEF Open, TakeOpen, TakeResult, Command, TakeCommand, HttpDone, channels, avahi,
                library
  <2>2. \A c \in Sinks : pc'[c] = "resolve" => pc[c] = "resolve" \/ req[c] = NoRequest
    BY <1>1 DEF Open, TakeOpen, Resolves, TakeResult, Command, TakeCommand, HttpDone, Ends,
                AddressInv, AddressType
  <2>. QED  BY <2>1, <2>2, FollowKeeps
<1>2. CASE \/ UNCHANGED vars \/ Deliver \/ \E i \in Ids, f \in Families : Found(i, f)
           \/ \E n \in Requests : BeginQuery(n) \/ \E f \in Families : Answer(n, f)
  <2>1. UNCHANGED <<requestChan, requests, key, provider, req, pc>>
    BY <1>2 DEF vars, Deliver, Found, BeginQuery, Answer, channels, avahi, library
  <2>. QED  BY <2>1, FollowKeeps
<1>. QED  BY <1>1, <1>2, CloseFollows, ResolveFollows, ServeFollows DEF Next

\* Nothing is looked for at the start.
LEMMA FollowInit == Init => FollowInv
<1>. SUFFICES ASSUME Init
              PROVE  FollowInv
  OBVIOUS
<1>1. requestChan \in Seq({"resolve", "close"} \X Nat) /\ 1 .. Len(requestChan) = {}
  BY DEF Init
<1>2. requests \in [Ids -> Nat] /\ \A i \in Ids : requests[i] = NoRequest
  BY DEF Init, NoRequest
<1>. QED  BY <1>1, <1>2 DEF Init, FollowInv, Resolver, Looking, Pending

-----------------------------------------------------------------------------
\* The remotes that are offered, and those whose request is being replaced.
Offered == {d \in Sinks : opening[d] # NoRemote}
Replacing == {d \in Sinks : pc[d] \in {"close", "resolve"}}

\* There is a call of open for every request that has been made or will be.
OpensInv ==
  /\ opens \in Nat /\ opens <= MaxRequests
  /\ IsFiniteSet(Offered) /\ IsFiniteSet(Replacing)
  /\ Len(key) + Cardinality(Offered) + Cardinality(Replacing) <= opens

\* The types of what AddressInv does not speak of, by the requests there are.
Made == 1 .. Len(key)

ChannelType ==
  /\ requestChan \in Seq({"resolve", "close"} \X Made) /\ Len(requestChan) <= RequestCap
  /\ resolver = <<>> \/ resolver \in Made \X Families
  /\ requests \in [Ids -> 0 .. Len(key)] /\ resolveObj \subseteq Made
  /\ \A d \in Sinks : pc[d] = "close" => req[d] # NoRequest

ResultType ==
  /\ result \in [Requests -> Seq(Families)]
  /\ \A n \in Requests : Len(result[n]) <= ResultCap
  /\ provider \in Providers
  /\ started \in [Requests -> 0 .. 2] /\ queries \in [Requests -> SUBSET Families]

SinkType ==
  /\ connectedName \in [Sinks -> Ids \union {None}]
  /\ err \in [Sinks -> BOOLEAN] /\ crc \in [Sinks -> 0 .. CommandCap]

TypeInv == AddressInv /\ OpensInv /\ ChannelType /\ ResultType /\ SinkType

\* What is counted is counted in whole numbers.
LEMMA Counts ==
  ASSUME AddressInv, OpensInv
  PROVE  /\ Len(key) \in Nat /\ Cardinality(Offered) \in Nat /\ Cardinality(Replacing) \in Nat
         /\ opens \in Nat /\ MaxRequests \in Nat
BY LenProperties, FS_CardinalityType, DacpAssumption DEF AddressInv, AddressType, OpensInv

\* Nothing is counted twice where both sets are what they were, or empty.
LEMMA OpensKeep ==
  ASSUME AddressInv, OpensInv, UNCHANGED <<key, opens>>,
         Offered' = Offered \/ Offered' = {}, Replacing' = Replacing \/ Replacing' = {}
  PROVE  OpensInv'
<1>1. IsFiniteSet({}) /\ Cardinality({}) = 0
  BY FS_EmptySet
<1>2. IsFiniteSet(Offered') /\ Cardinality(Offered') \in Nat
      /\ Cardinality(Offered') <= Cardinality(Offered)
  <2>1. Cardinality(Offered) \in Nat /\ IsFiniteSet(Offered)
    BY Counts DEF OpensInv
  <2>2. CASE Offered' = Offered
    BY <2>1, <2>2
  <2>3. CASE Offered' = {}
    BY <1>1, <2>1, <2>3
  <2>. QED  BY <2>2, <2>3
<1>3. IsFiniteSet(Replacing') /\ Cardinality(Replacing') \in Nat
      /\ Cardinality(Replacing') <= Cardinality(Replacing)
  <2>1. Cardinality(Replacing) \in Nat /\ IsFiniteSet(Replacing)
    BY Counts DEF OpensInv
  <2>2. CASE Replacing' = Replacing
    BY <2>1, <2>2
  <2>3. CASE Replacing' = {}
    BY <1>1, <2>1, <2>3
  <2>. QED  BY <2>2, <2>3
<1>. QED  BY <1>2, <1>3, Counts DEF OpensInv

\* open is called, its remote taken, and its request made.
LEMMA OpensStep == AddressInv /\ OpensInv /\ [Next]_vars => OpensInv'
<1>. SUFFICES ASSUME AddressInv, OpensInv, [Next]_vars
              PROVE  OpensInv'
  OBVIOUS
<1>1. ASSUME NEW d \in Sinks, NEW r \in Remotes, Open(d, r)
      PROVE  OpensInv'
  <2>1. /\ opens' = opens + 1 /\ opens < MaxRequests /\ opening[d] = NoRemote
        /\ opening' = [opening EXCEPT ![d] = r] /\ UNCHANGED <<pc, key>>
    BY <1>1 DEF Open
  <2>2. Offered' \subseteq Offered \union {d} /\ Replacing' = Replacing
    BY <2>1 DEF Offered, Replacing, AddressInv, AddressType
  <2>5. d \notin Offered
    BY <2>1 DEF Offered
  <2>3. /\ IsFiniteSet(Offered \union {d})
        /\ Cardinality(Offered \union {d}) = Cardinality(Offered) + 1
    BY <2>5, FS_AddElement DEF OpensInv
  <2>4. /\ IsFiniteSet(Offered') /\ Cardinality(Offered') \in Nat
        /\ Cardinality(Offered') <= Cardinality(Offered) + 1
    <3>1. IsFiniteSet(Offered') /\ Cardinality(Offered') <= Cardinality(Offered \union {d})
      BY <2>2, <2>3, FS_Subset
    <3>2. Cardinality(Offered') \in Nat /\ Cardinality(Offered \union {d}) \in Nat
      BY <2>3, <3>1, FS_CardinalityType
    <3>. QED  BY <2>3, <3>1, <3>2, Counts
  <2>. QED  BY <2>1, <2>2, <2>4, Counts DEF OpensInv
<1>2. ASSUME NEW d \in Sinks, TakeOpen(d)
      PROVE  OpensInv'
  <2>1. /\ d \in Offered /\ d \notin Replacing /\ UNCHANGED <<key, opens>>
        /\ opening' = [opening EXCEPT ![d] = NoRemote]
    BY <1>2 DEF TakeOpen, Offered, Replacing, bounds
  <2>2. Offered' = Offered \ {d}
    BY <2>1 DEF Offered, AddressInv, AddressType
  <2>3. /\ IsFiniteSet(Offered') /\ Cardinality(Offered') = Cardinality(Offered) - 1
    BY <2>1, <2>2, FS_RemoveElement DEF OpensInv
  <2>4. Replacing' \subseteq Replacing \union {d}
    BY <1>2, <2>1 DEF TakeOpen, Ends, Resolves, Replacing, AddressInv, AddressType
  <2>5. /\ IsFiniteSet(Replacing \union {d})
        /\ Cardinality(Replacing \union {d}) = Cardinality(Replacing) + 1
    BY <2>1, FS_AddElement DEF OpensInv
  <2>6. IsFiniteSet(Replacing') /\ Cardinality(Replacing') <= Cardinality(Replacing) + 1
    BY <2>4, <2>5, FS_Subset
  <2>7. Cardinality(Replacing') \in Nat
    BY <2>6, FS_CardinalityType
  <2>. QED  BY <2>1, <2>3, <2>6, <2>7, Counts DEF OpensInv
<1>3. ASSUME NEW d \in Sinks, SendResolve(d)
      PROVE  OpensInv'
  <2>1. /\ d \in Replacing /\ UNCHANGED <<opening, opens>>
        /\ key' = Append(key, remote[d][1])
        /\ \E e \in BOOLEAN : Ends(d, e, address[d])
    BY <1>3 DEF SendResolve, Replacing, Starts
  <2>2. pc' = [pc EXCEPT ![d] = "select"]
    BY <2>1 DEF Ends
  <2>3. Offered' = Offered /\ Replacing' = Replacing \ {d}
    BY <2>1, <2>2 DEF Offered, Replacing, AddressInv, AddressType
  <2>4. IsFiniteSet(Replacing') /\ Cardinality(Replacing') = Cardinality(Replacing) - 1
    BY <2>1, <2>3, FS_RemoveElement DEF OpensInv
  <2>5. Len(key') = Len(key) + 1
    BY <2>1 DEF AddressInv, AddressType
  <2>. QED  BY <2>1, <2>3, <2>4, <2>5, Counts DEF OpensInv
<1>4. ASSUME NEW d \in Sinks, SendClose(d)
      PROVE  OpensInv'
  <2>1. UNCHANGED <<key, opens>>
    BY <1>4 DEF SendClose, bounds
  <2>2. pc[d] = "close" /\ (\/ pc' = [pc EXCEPT ![d] = "resolve"] /\ UNCHANGED opening
                            \/ pc' = [e \in Sinks |-> "crashed"]
                               /\ opening' = [e \in Sinks |-> NoRemote])
    BY <1>4 DEF SendClose, AvahiClose, PureClose, BonjourClose
  <2>3. Offered' = Offered \/ Offered' = {}
    BY <2>2 DEF Offered
  <2>4. Replacing' = Replacing \/ Replacing' = {}
    BY <2>2 DEF Replacing, AddressInv, AddressType
  <2>. QED  BY <2>1, <2>3, <2>4, OpensKeep
<1>5. CASE Serve
  <2>1. UNCHANGED <<key, opens>>
    BY <1>5 DEF Serve
  <2>2. \/ UNCHANGED <<pc, opening>>
        \/ pc' = [d \in Sinks |-> "crashed"] /\ opening' = [d \in Sinks |-> NoRemote]
    BY <1>5 DEF Serve, Resolve, Close
  <2>3. Offered' = Offered \/ Offered' = {}
    BY <2>2 DEF Offered
  <2>4. Replacing' = Replacing \/ Replacing' = {}
    BY <2>2 DEF Replacing
  <2>. QED  BY <2>1, <2>3, <2>4, OpensKeep
<1>6. ASSUME NEW d \in Sinks, TakeResult(d) \/ Command(d) \/ TakeCommand(d) \/ HttpDone(d)
      PROVE  OpensInv'
  <2>1. UNCHANGED <<key, opens, opening>>
    BY <1>6 DEF TakeResult, Command, TakeCommand, HttpDone, bounds
  <2>2. Replacing' = Replacing
    BY <1>6 DEF TakeResult, Command, TakeCommand, HttpDone, Ends, Replacing, AddressInv,
                AddressType
  <2>3. Offered' = Offered
    BY <2>1 DEF Offered
  <2>. QED  BY <2>1, <2>2, <2>3, OpensKeep
<1>7. CASE \/ UNCHANGED vars \/ Deliver \/ \E i \in Ids, f \in Families : Found(i, f)
           \/ \E n \in Requests : BeginQuery(n) \/ \E f \in Families : Answer(n, f)
  <2>1. UNCHANGED <<key, opens, opening, pc>>
    BY <1>7 DEF vars, Deliver, Found, BeginQuery, Answer, bounds
  <2>2. Offered' = Offered /\ Replacing' = Replacing
    BY <2>1 DEF Offered, Replacing
  <2>. QED  BY <2>1, <2>2, OpensKeep
<1>. QED  BY <1>1, <1>2, <1>3, <1>4, <1>5, <1>6, <1>7 DEF Next

-----------------------------------------------------------------------------
\* A request that is made is one of those that can be.
LEMMA MadeAreRequests ==
  ASSUME AddressInv, OpensInv
  PROVE  /\ Made \subseteq Requests /\ Len(key) <= MaxRequests
         /\ \A d \in Sinks : pc[d] = "resolve" => Len(key) + 1 \in Requests
<1>1. Len(key) <= MaxRequests
  BY Counts DEF OpensInv
<1>2. ASSUME NEW d \in Sinks, pc[d] = "resolve"
      PROVE  Len(key) + 1 \in Requests
  <2>1. Replacing # {}
    BY <1>2 DEF Replacing
  <2>2. Cardinality(Replacing) # 0
    BY <2>1, FS_EmptySet DEF OpensInv
  <2>. QED  BY <2>2, Counts DEF OpensInv, Requests
<1>. QED  BY <1>1, <1>2, Counts DEF Made, Requests

\* Only requests are made; those that were made stay.
LEMMA MadeGrows ==
  ASSUME AddressInv, [Next]_vars
  PROVE  /\ Made \subseteq Made' /\ 0 .. Len(key) \subseteq 0 .. Len(key')
         /\ Len(key) \in Nat /\ Len(key') \in Nat
<1>1. Len(key) \in Nat /\ key \in Seq(Ids)
  BY LenProperties DEF AddressInv, AddressType
<1>2. key' = key \/ \E d \in Sinks : key' = Append(key, remote[d][1])
  BY DEF Next, vars, Open, TakeOpen, SendClose, SendResolve, TakeResult, Command, TakeCommand,
         HttpDone, Serve, Deliver, Found, BeginQuery, Answer
<1>3. Len(key') \in {Len(key), Len(key) + 1}
  BY <1>1, <1>2
<1>. QED  BY <1>1, <1>3 DEF Made

\* A closure for a request that is made is put on the channel, or none.
LEMMA SendsType ==
  ASSUME ChannelType, NEW kind \in {"resolve", "close"}, NEW n \in Made', Made \subseteq Made',
         requestChan' = requestChan \/ Sends(<<kind, n>>)
  PROVE  /\ requestChan' \in Seq({"resolve", "close"} \X Made')
         /\ Len(requestChan') <= RequestCap
<1>1. requestChan \in Seq({"resolve", "close"} \X Made')
  <2>1. {"resolve", "close"} \X Made \subseteq {"resolve", "close"} \X Made'
    OBVIOUS
  <2>. QED  BY <2>1, SeqMonotonic DEF ChannelType
<1>2. CASE requestChan' = requestChan
  BY <1>1, <1>2 DEF ChannelType
<1>3. CASE Sends(<<kind, n>>)
  <2>1. <<kind, n>> \in {"resolve", "close"} \X Made'
    OBVIOUS
  <2>2. requestChan' = Append(requestChan, <<kind, n>>) /\ Len(requestChan) < RequestCap
    BY <1>3 DEF Sends
  <2>3. Len(requestChan') = Len(requestChan) + 1 /\ Len(requestChan) \in Nat
        /\ requestChan' \in Seq({"resolve", "close"} \X Made')
    BY <1>1, <2>1, <2>2, AppendProperties, LenProperties
  <2>. QED  BY <2>2, <2>3, DacpAssumption
<1>. QED  BY <1>2, <1>3

\* The types of the closures and of the resolver, step by step.
LEMMA ChannelStep ==
  ASSUME TypeInv, [Next]_vars
  PROVE  ChannelType'
<1>0. /\ AddressInv /\ ChannelType /\ Made \subseteq Made'
      /\ 0 .. Len(key) \subseteq 0 .. Len(key') /\ Len(key) \in Nat /\ Len(key') \in Nat
  BY MadeGrows DEF TypeInv
<1>1. /\ requestChan \in Seq({"resolve", "close"} \X Made')
      /\ resolver = <<>> \/ resolver \in Made' \X Families
      /\ requests \in [Ids -> 0 .. Len(key')] /\ resolveObj \subseteq Made'
  <2>1. {"resolve", "close"} \X Made \subseteq {"resolve", "close"} \X Made'
    BY <1>0
  <2>2. requestChan \in Seq({"resolve", "close"} \X Made')
    BY <1>0, <2>1, SeqMonotonic DEF ChannelType
  <2>. QED  BY <1>0, <2>2 DEF ChannelType
<1>2. ASSUME NEW d \in Sinks, SendClose(d)
      PROVE  ChannelType'
  <2>1. /\ pc[d] = "close" /\ UNCHANGED <<req, key, resolver, requests, resolveObj>>
        /\ \/ pc' = [pc EXCEPT ![d] = "resolve"]
           \/ pc' = [e \in Sinks |-> "crashed"]
        /\ requestChan' = requestChan \/ Sends(<<"close", req[d]>>)
    BY <1>2 DEF SendClose, AvahiClose, PureClose, BonjourClose
  <2>2. req[d] \in Made'
    BY <1>0, <2>1 DEF ChannelType, AddressInv, AddressType, Made, NoRequest
  <2>3. requestChan' \in Seq({"resolve", "close"} \X Made') /\ Len(requestChan') <= RequestCap
    BY <1>0, <2>1, <2>2, SendsType
  <2>4. \A c \in Sinks : pc'[c] = "close" => req'[c] # NoRequest
    BY <1>0, <2>1 DEF ChannelType, AddressInv, AddressType
  <2>. QED  BY <1>1, <2>1, <2>3, <2>4 DEF ChannelType
<1>3. ASSUME NEW d \in Sinks, SendResolve(d)
      PROVE  ChannelType'
  <2>. DEFINE n == Len(key) + 1
  <2>1. /\ UNCHANGED <<resolver, requests, resolveObj>> /\ req' = [req EXCEPT ![d] = n]
        /\ key' = Append(key, remote[d][1])
        /\ requestChan' = requestChan \/ Sends(<<"resolve", n>>)
        /\ \E e \in BOOLEAN : Ends(d, e, address[d])
    BY <1>3 DEF SendResolve, Starts
  <2>2. pc' = [pc EXCEPT ![d] = "select"]
    BY <2>1 DEF Ends
  <2>3. n \in Made'
    <3>1. Len(key') = n
      BY <2>1 DEF AddressInv, AddressType, TypeInv
    <3>. QED  BY <1>0, <3>1 DEF Made
  <2>. HIDE DEF n
  <2>4. requestChan' \in Seq({"resolve", "close"} \X Made') /\ Len(requestChan') <= RequestCap
    BY <1>0, <2>1, <2>3, SendsType
  <2>5. \A c \in Sinks : pc'[c] = "close" => req'[c] # NoRequest
    BY <1>0, <2>1, <2>2 DEF ChannelType, AddressInv, AddressType
  <2>. QED  BY <1>1, <2>1, <2>4, <2>5 DEF ChannelType
<1>4. CASE Serve
  <2>. DEFINE n == Head(requestChan)[2]
  <2>1. /\ requestChan # <<>> /\ requestChan' = Tail(requestChan)
        /\ UNCHANGED <<req, key, resolver>> /\ (Resolve(n) \/ Close(n))
    BY <1>4 DEF Serve
  <2>2. /\ Head(requestChan) \in {"resolve", "close"} \X Made
        /\ requestChan' \in Seq({"resolve", "close"} \X Made)
        /\ Len(requestChan') = Len(requestChan) - 1 /\ Len(requestChan) \in Nat
    BY <1>0, <2>1, HeadTailProperties, LenProperties DEF ChannelType
  <2>3. n \in Made /\ NoRequest \in 0 .. Len(key) /\ RequestCap \in Nat
        /\ Len(requestChan) <= RequestCap
    BY <1>0, <2>2, DacpAssumption DEF NoRequest, ChannelType
  <2>4. requests' \in [Ids -> 0 .. Len(key)] /\ resolveObj' \subseteq Made
    <3>. HIDE DEF n
    <3>1. requests \in [Ids -> 0 .. Len(key)] /\ resolveObj \subseteq Made
      BY <1>0 DEF ChannelType
    <3>2. n \in 0 .. Len(key)
      BY <2>3 DEF Made
    <3>3. CASE Resolve(n)
      <4>1. requests' = requests \/ requests' = [requests EXCEPT ![key[n]] = n]
        BY <3>3 DEF Resolve
      <4>2. resolveObj' = resolveObj \/ resolveObj' = resolveObj \union {n}
        BY <3>3 DEF Resolve
      <4>3. requests' \in [Ids -> 0 .. Len(key)]
        BY <3>1, <3>2, <4>1
      <4>. QED  BY <2>3, <3>1, <4>2, <4>3
    <3>4. CASE Close(n)
      BY <2>3, <3>1, <3>4 DEF Close
    <3>. QED  BY <2>1, <3>3, <3>4
  <2>5. pc' = pc \/ pc' = [d \in Sinks |-> "crashed"]
    BY <2>1 DEF Resolve, Close
  <2>6. \A c \in Sinks : pc'[c] = "close" => req'[c] # NoRequest
    BY <1>0, <2>1, <2>5 DEF ChannelType
  <2>. QED  BY <1>0, <2>1, <2>2, <2>3, <2>4, <2>6 DEF ChannelType, Made
<1>5. CASE Deliver \/ \E i \in Ids, f \in Families : Found(i, f)
  <2>1. /\ UNCHANGED <<requestChan, req, key, requests, resolveObj, pc>>
        /\ \/ resolver' = <<>>
           \/ \E i \in Ids, f \in Families : /\ resolver' = <<requests[i], f>>
                                             /\ requests[i] \in resolveObj
    BY <1>5 DEF Deliver, Found
  <2>2. resolver' = <<>> \/ resolver' \in Made \X Families
    BY <1>0, <2>1 DEF ChannelType
  <2>. QED  BY <1>0, <2>1, <2>2 DEF ChannelType, Made
<1>6. ASSUME NEW d \in Sinks,
             \/ \E r \in Remotes : Open(d, r)
             \/ TakeOpen(d) \/ TakeResult(d) \/ Command(d) \/ TakeCommand(d) \/ HttpDone(d)
      PROVE  ChannelType'
  <2>1. UNCHANGED <<requestChan, resolver, requests, resolveObj, key, req>>
    BY <1>6 DEF Open, TakeOpen, TakeResult, Command, TakeCommand, HttpDone, channels, avahi
  <2>2. \A c \in Sinks : pc'[c] = "close" => pc[c] = "close" \/ req[c] # NoRequest
    BY <1>0, <1>6 DEF Open, TakeOpen, Resolves, TakeResult, Command, TakeCommand, HttpDone,
                      Ends, AddressInv, AddressType
  <2>. QED  BY <1>0, <2>1, <2>2 DEF ChannelType, Made
<1>7. CASE \/ UNCHANGED vars
           \/ \E n \in Requests : BeginQuery(n) \/ \E f \in Families : Answer(n, f)
  <2>1. UNCHANGED <<requestChan, resolver, requests, resolveObj, key, req, pc>>
    BY <1>7 DEF vars, BeginQuery, Answer, channels, avahi
  <2>. QED  BY <1>0, <2>1 DEF ChannelType, Made
<1>. QED  BY <1>2, <1>3, <1>4, <1>5, <1>6, <1>7 DEF Next

\* The types of what the libraries and the resolver find, step by step.
LEMMA ResultStep ==
  ASSUME TypeInv, [Next]_vars
  PROVE  ResultType'
<1>0. ResultType /\ AddressInv /\ OpensInv /\ ChannelType
  BY DEF TypeInv
<1>1. ASSUME NEW d \in Sinks, SendResolve(d)
      PROVE  ResultType'
  <2>1. /\ UNCHANGED <<result, provider, queries>> /\ pc[d] = "resolve"
        /\ started' = started \/ started' = [started EXCEPT ![Len(key) + 1] = 2]
    BY <1>1 DEF SendResolve, Starts
  <2>3. Len(key) + 1 \in Requests
    BY <1>0, <2>1, MadeAreRequests
  <2>. DEFINE n == Len(key) + 1
  <2>. HIDE DEF n
  <2>2. started' \in [Requests -> 0 .. 2]
    <3>1. n \in Requests /\ (started' = started \/ started' = [started EXCEPT ![n] = 2])
      BY <2>1, <2>3 DEF n
    <3>2. started \in [Requests -> 0 .. 2]
      BY <1>0 DEF ResultType
    <3>. QED  BY <3>1, <3>2
  <2>4. UNCHANGED <<result, provider, queries>>
    BY <2>1
  <2>. QED  BY <1>0, <2>2, <2>4 DEF ResultType
<1>2. ASSUME NEW d \in Sinks, TakeResult(d)
      PROVE  ResultType'
  <2>. DEFINE n == req[d]
  <2>1. /\ UNCHANGED <<provider, started, queries>> /\ n # NoRequest /\ result[n] # <<>>
        /\ result' = [result EXCEPT ![n] = Tail(@)]
    BY <1>2 DEF TakeResult, library
  <2>2. n \in Requests
    BY <1>0, <2>1, MadeAreRequests DEF AddressInv, AddressType, Made, NoRequest
  <2>3. /\ Tail(result[n]) \in Seq(Families) /\ Len(Tail(result[n])) <= ResultCap
    <3>1. result[n] \in Seq(Families) /\ Len(result[n]) <= ResultCap /\ ResultCap \in Nat
      BY <1>0, <2>2, DacpAssumption DEF ResultType
    <3>2. Len(Tail(result[n])) = Len(result[n]) - 1 /\ Len(result[n]) \in Nat
      BY <2>1, <3>1, HeadTailProperties, LenProperties
    <3>. QED  BY <2>1, <3>1, <3>2, HeadTailProperties
  <2>. HIDE DEF n
  <2>. QED  BY <1>0, <2>1, <2>2, <2>3 DEF ResultType
<1>3. ASSUME NEW n \in Requests, NEW f \in Families, UNCHANGED <<provider, started>>,
             Len(result[n]) < ResultCap, result' = [result EXCEPT ![n] = Append(@, f)],
             queries' \in [Requests -> SUBSET Families]
      PROVE  ResultType'
  <2>1. result[n] \in Seq(Families) /\ ResultCap \in Nat
    BY <1>0, DacpAssumption DEF ResultType
  <2>2. Append(result[n], f) \in Seq(Families) /\ Len(Append(result[n], f)) <= ResultCap
    <3>1. Len(Append(result[n], f)) = Len(result[n]) + 1 /\ Len(result[n]) \in Nat
      BY <2>1, AppendProperties, LenProperties
    <3>. QED  BY <1>3, <2>1, <3>1, AppendProperties
  <2>. QED  BY <1>0, <1>3, <2>2 DEF ResultType
<1>4. CASE Deliver
  <2>1. /\ resolver # <<>> /\ Len(result[resolver[1]]) < ResultCap
        /\ result' = [result EXCEPT ![resolver[1]] = Append(@, resolver[2])]
        /\ UNCHANGED <<provider, started, queries>>
    BY <1>4 DEF Deliver, library
  <2>2. resolver[1] \in Requests /\ resolver[2] \in Families
    BY <1>0, <2>1, MadeAreRequests DEF ChannelType
  <2>. QED  BY <1>0, <1>3, <2>1, <2>2 DEF ResultType
<1>5. ASSUME NEW n \in Requests, NEW f \in Families, Answer(n, f)
      PROVE  ResultType'
  <2>1. /\ Len(result[n]) < ResultCap /\ result' = [result EXCEPT ![n] = Append(@, f)]
        /\ UNCHANGED <<provider, started>>
    BY <1>5 DEF Answer
  <2>2. queries' = [queries EXCEPT ![n] = IF provider = "pure" THEN @ \ {Family(started[n])} ELSE @]
    BY <1>5 DEF Answer
  <2>3. queries' \in [Requests -> SUBSET Families]
    BY <1>0, <2>2 DEF ResultType
  <2>. QED  BY <1>3, <2>1, <2>3
<1>6. ASSUME NEW n \in Requests, BeginQuery(n)
      PROVE  ResultType'
  <2>1. /\ UNCHANGED <<result, provider>> /\ started[n] < 2
        /\ started' = [started EXCEPT ![n] = @ + 1]
    BY <1>6 DEF BeginQuery
  <2>2. started' \in [Requests -> 0 .. 2]
    BY <1>0, <2>1 DEF ResultType
  <2>3. \E f \in Families : queries' \in {queries, [queries EXCEPT ![n] = @ \union {f}]}
    BY <1>6 DEF BeginQuery, Family, Families
  <2>4. queries' \in [Requests -> SUBSET Families]
    BY <1>0, <2>3 DEF ResultType
  <2>. QED  BY <1>0, <2>1, <2>2, <2>4 DEF ResultType
<1>7. ASSUME UNCHANGED <<result, provider, started, queries>>
      PROVE  ResultType'
  BY <1>0, <1>7 DEF ResultType
<1>8. ASSUME NEW d \in Sinks,
             \/ \E r \in Remotes : Open(d, r)
             \/ TakeOpen(d) \/ SendClose(d) \/ Command(d) \/ TakeCommand(d) \/ HttpDone(d)
      PROVE  ResultType'
  BY <1>7, <1>8 DEF Open, TakeOpen, SendClose, Command, TakeCommand, HttpDone, channels, library
<1>9. CASE UNCHANGED vars \/ Serve \/ \E i \in Ids, f \in Families : Found(i, f)
  BY <1>7, <1>9 DEF vars, Serve, Found, channels, library
<1>. QED  BY <1>1, <1>2, <1>4, <1>5, <1>6, <1>8, <1>9 DEF Next

\* The types of what a sink keeps, step by step.
LEMMA SinkStep ==
  ASSUME TypeInv, [Next]_vars
  PROVE  SinkType'
<1>0. SinkType /\ AddressInv /\ CommandCap \in Nat
  BY DacpAssumption DEF TypeInv
<1>1. err' = err \/ \E d \in Sinks, e \in BOOLEAN : err' = [err EXCEPT ![d] = e]
  <2>1. ASSUME NEW d \in Sinks, TakeResult(d)
        PROVE  err' = [err EXCEPT ![d] = err[d]] /\ err[d] \in BOOLEAN
    BY <1>0, <2>1 DEF TakeResult, Ends, SinkType
  <2>2. ASSUME NEW d \in Sinks,
               \/ \E r \in Remotes : Open(d, r)
               \/ TakeOpen(d) \/ SendClose(d) \/ SendResolve(d) \/ Command(d)
               \/ TakeCommand(d) \/ HttpDone(d)
        PROVE  err' = err \/ \E e \in BOOLEAN : err' = [err EXCEPT ![d] = e]
    BY <2>2 DEF Open, TakeOpen, Resolves, SendClose, SendResolve, Starts, Command,
                TakeCommand, HttpDone, Ends
  <2>3. CASE \/ UNCHANGED vars \/ Serve \/ Deliver
             \/ \E i \in Ids, f \in Families : Found(i, f)
             \/ \E n \in Requests : BeginQuery(n) \/ \E f \in Families : Answer(n, f)
    BY <2>3 DEF vars, Serve, Deliver, Found, BeginQuery, Answer
  <2>. QED  BY <2>1, <2>2, <2>3 DEF Next
<1>2. crc' \in [Sinks -> 0 .. CommandCap]
  <2>1. \/ crc' = crc
        \/ \E d \in Sinks : \/ crc[d] < CommandCap /\ crc' = [crc EXCEPT ![d] = @ + 1]
                            \/ crc[d] > 0 /\ crc' = [crc EXCEPT ![d] = @ - 1]
    BY DEF Next, vars, Open, TakeOpen, SendClose, SendResolve, TakeResult, Command,
           TakeCommand, HttpDone, Serve, Deliver, Found, BeginQuery, Answer
  <2>. QED  BY <1>0, <2>1 DEF SinkType
<1>3. connectedName' \in [Sinks -> Ids \union {None}]
  <2>1. \/ connectedName' = connectedName
        \/ \E d \in Sinks : /\ req[d] # NoRequest
                            /\ connectedName' = [connectedName EXCEPT ![d] = key[req[d]]]
    BY DEF Next, vars, Open, TakeOpen, SendClose, SendResolve, TakeResult, Command,
           TakeCommand, HttpDone, Serve, Deliver, Found, BeginQuery, Answer
  <2>2. \A d \in Sinks : req[d] # NoRequest => key[req[d]] \in Ids
    <3>1. \A d \in Sinks : req[d] # NoRequest => req[d] \in 1 .. Len(key)
      BY <1>0, LenProperties DEF AddressInv, AddressType, NoRequest
    <3>. QED  BY <1>0, <3>1, ElementOfSeq DEF AddressInv, AddressType
  <2>. QED  BY <1>0, <2>1, <2>2 DEF SinkType
<1>. QED  BY <1>0, <1>1, <1>2, <1>3 DEF SinkType

\* Nothing is made at the start.
LEMMA TypeInit == Init => TypeInv
<1>. SUFFICES ASSUME Init
              PROVE  TypeInv
  OBVIOUS
<1>1. key = <<>> /\ Len(key) = 0 /\ opens = 0 /\ AddressInv
  BY AddressInit DEF Init
<1>2. OpensInv
  <2>1. Offered = {} /\ Replacing = {}
    BY DEF Init, Offered, Replacing
  <2>. QED  BY <1>1, <2>1, FS_EmptySet, DacpAssumption DEF OpensInv
<1>3. ChannelType
  <2>1. requestChan \in Seq({"resolve", "close"} \X Made) /\ Len(requestChan) <= RequestCap
    BY DacpAssumption DEF Init
  <2>. QED  BY <1>1, <2>1 DEF Init, ChannelType, NoRequest
<1>4. ResultType
  <2>1. <<>> \in Seq(Families) /\ Len(<<>>) <= ResultCap
    BY DacpAssumption
  <2>. QED  BY <2>1 DEF Init, ResultType
<1>5. SinkType
  BY DacpAssumption DEF Init, SinkType
<1>. QED  BY <1>1, <1>2, <1>3, <1>4, <1>5 DEF TypeInv

-----------------------------------------------------------------------------
\* A command never goes to a source that the sink was opened with before, whatever
\* answers to older requests arrive and whichever closures are still in a channel
\* (Spec => []AddressIsCurrent).
THEOREM CommandsGoToTheSource == Spec => []AddressIsCurrent
<1>1. AddressInv => AddressIsCurrent
  BY DEF AddressInv
<1>. QED  BY <1>1, AddressInit, AddressStep, PTL DEF Spec

\* Once its closures are run, the resolver looks for nothing that no sink wants, for
\* any number of sinks that replace their requests (Spec => []ResolverFollows).
THEOREM ResolverIsCurrent == Spec => []ResolverFollows
<1>1. FollowInv => ResolverFollows
  <2>. SUFFICES ASSUME FollowInv, requestChan = <<>>, \A d \in Sinks : pc[d] = "select",
                       NEW i \in Ids, requests[i] # NoRequest
                PROVE  \E d \in Sinks : req[d] = requests[i]
    BY DEF ResolverFollows
  <2>1. ~Closing(requests[i], 0)
    BY DEF Closing
  <2>. QED  BY <2>1 DEF FollowInv, Looking, Wanted
<1>2. Init => AddressInv /\ FollowInv
  BY AddressInit, FollowInit
<1>3. AddressInv /\ FollowInv /\ [Next]_vars => (AddressInv /\ FollowInv)'
  BY AddressStep, FollowStep
<1>. QED  BY <1>1, <1>2, <1>3, PTL DEF Spec

\* The channels keep their capacity, the resolver and the libraries name only requests
\* that have been made, and there is no more than one request for each call of open,
\* for all three providers (dacp.go:35, zeroconf_avahi.go:184).
THEOREM DacpTypes == Spec => []TypeOK
<1>1. TypeInv => TypeOK
  <2>. SUFFICES ASSUME TypeInv
                PROVE  TypeOK
    OBVIOUS
  <2>1. {opening[d] : d \in Sinks} \union {remote[d] : d \in Sinks}
          \subseteq Remotes \union {NoRemote}
    BY DEF TypeInv, AddressInv, AddressType, Remotes0
  <2>2. Made \subseteq Requests /\ Len(key) <= MaxRequests
    BY MadeAreRequests DEF TypeInv
  <2>3. /\ requestChan \in Seq({"resolve", "close"} \X Requests)
        /\ resolver = <<>> \/ resolver \in Requests \X Families
    <3>1. {"resolve", "close"} \X Made \subseteq {"resolve", "close"} \X Requests
      BY <2>2
    <3>. QED  BY <2>2, <3>1, SeqMonotonic DEF TypeInv, ChannelType
  <2>. QED
    BY <2>1, <2>2, <2>3
    DEF TypeOK, TypeInv, AddressInv, AddressType, Places, ChannelType, Made, ResultType, SinkType
<1>2. TypeInv /\ [Next]_vars => TypeInv'
  BY AddressStep, OpensStep, ChannelStep, ResultStep, SinkStep DEF TypeInv
<1>. QED  BY <1>1, <1>2, TypeInit, PTL DEF Spec
=============================================================================
