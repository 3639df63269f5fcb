# A TLA+ development of raopd

raopd (`src/`, Go) makes a program an AirPlay (RAOP) receiver.  A *sink*, the
application's audio output, is registered and announced on the network; a
*source* (iPhone, iTunes) finds it, sets up a session over RTSP, streams audio
packets over UDP, and is told over HTTP (DACP) what the sink wants of it.

This directory models what is concurrent, stateful or numeric in that program,
checks the models with TLC, and proves with TLAPS all their invariants and action
properties, that the packet sequencer implements an abstract playout, the audio output an abstract
broadcast and the collection of sinks an abstract registry, and that metadata of any shape
whose entries fit the format is printed as what it says.  A definition stands for the lines
of `src/` that `PROJECT.json` names under `map`; the names are those of the code where
TLA+ allows it.

## 1. The system

### Goroutines and what they share

| goroutine | started by | waits for | talks to |
|---|---|---|---|
| application | – | `SinkCollection.m` | providers, `Sink.Closed` |
| RTSP listener, one per sink | `raop.startRtspProcess` | `Accept` | starts one RTSP goroutine per source |
| RTSP connection, one per source | `rtspServer.Serve` | a request | `dacp.open`, `vol.SetServiceVolume`, `startRtp`, `teardown` |
| data, control, timing receivers | `startRtp` in rtp.go | `conn.Read`, `seqchan`, `sequencer.control` | sequencer |
| control transmitter | `startRtp` | `rrchan` | the source |
| sequencer | `startSequencer` | `data`, `control`, timer, `outf`, `rrchan` | audio streams, transmitter |
| volume handler | `startVolumeHandler` | its three channels, `dacp.tx` | sink, DACP |
| DACP, one per sink | `newDacp` | `mrc`, `req.result`, `crc`, HTTP | resolver, the source |
| resolver, one per program | Avahi provider | `requestChan`, D-Bus signals, `result` | DACP goroutines |

There are two locks only (`SinkCollection.m`, `audioStreams`); everything else
is channels, most of them bounded or unbuffered, and fields that several
goroutines touch without a lock (`raop.control`, `volumeHandler.deviceVolume`).

### Inventory

**Sequence numbers** (seqno.go). No state. `seqnoDelta` orders two uint16 numbers
and treats the ends of the range as neighbours when each number is less than
8192 from its end. *Correct when* the order agrees with the stream for all packets
that can meet.

**Sequencer** (sequencer.go). State: `low`, `lowd`, the cache `packets`, `retries`.
Operations: `handle`, `flushCached`, `sendReRequests` on a 10 ms timer,
`remove`, `flush`, `close`. *Hard*: loss, reordering, duplicates and
late answers; the wrap; gaps that split and shrink between ticks; a blocking
request channel. *Correct when* packets come out in stream order, nothing is kept
back that could be played, a gap is requested and then given up, a retry
count belongs to what is missing now, and the cache drains.

**RTP and RTSP sessions** (raop.go, rtp.go, rtsp.go). State: `data`,
`control`, `timing`, `seqchan`, `rrchan`, `sequencer`. Operations: SETUP,
TEARDOWN, the packet handlers, the transmitter. *Hard*: one raop for any number of
RTSP connections, a connection that cannot be opened, one that breaks in the middle of
a session, goroutines that outlive their session, sends to a full channel. *Correct when* a
session that plays is complete but for what has broken, the fields name what is open,
`flush` gets through and receivers end.

**Volume handler** (volume.go). State: mode, device, service and target volume,
`poke`, time of the last centering. Operations: `SetServiceVolume`,
`SetDeviceVolume`, `VolumeMode`. *Hard*: its commands have no result but a later
report that looks like one the user has caused, or none when a poke is lost. *Correct when*
both volumes agree in absolute mode, the slider returns to its center in relative mode, and
steps are the user's.

**DACP** (dacp.go) **and the resolvers** (zeroconf_avahi.go, zeroconf_pure.go,
zeroconf_bonjour.go). State: `remote`, addresses, `req`, `err`; Avahi's `requests`;
the queries of the dnssd libraries. Operations: `open`, `tx`, `setResolvedAddress`;
`resolveService`, `close`, signals and callbacks. *Hard*: results of an old request on
their way, three channels between two goroutines, one resolver for all sinks,
callbacks that share a variable. *Correct when* commands go to the current source
only and an RTSP request is not held up.

**Sink collection and providers** (service.go, zeroconf_common.go,
zeroconf_pure.go, the publishing half of zeroconf_avahi.go). State: `sources`,
`_zeroconf`, `registeredServers`, what is announced. Operations: Register,
Unregister, Close, publish. *Hard*: providers that fail after they have been
chosen, callbacks under the mutex. *Correct when* what the network sees is
what the collection holds.

**Audio output** (audio.go) **and packet pool** (pool.go). State: `streams`, the keys
and the decoder, the objects in the pool. Operations: `handleAudioPacket`,
`writeToStreams`, `newStream`, `makeRtpPacket`, `Reclaim`; ANNOUNCE sets the keys from
another goroutine. *Hard*: a list that is compacted while it is walked and
writers fail; objects that pass through four owners. *Correct when* an object has
one owner, what is written was decoded with its own keys, and every stream gets every
buffer.

**RTSP connections and callbacks** (rtsp.go, client.go). State: what a connection has
read ahead, the answer under way, who waits on which channel. Operations: reading
requests and bodies, all methods, all `Sink` callbacks, and `Command`, `Volume` and
`VolumeMode` of `Source`. *Hard*: callbacks on three kinds of goroutines that call
back into bounded channels. *Correct when* each request has its answer, nobody waits
in a circle, and calls return.

**DMAP** (dmap.go). No state but a table. `String` prints a tree of tagged entries as
JSON or XML. *Hard*: lengths nest, separators depend on which entry is the first, and
strings come from elsewhere. *Correct when* the output can be read and tells the tree, which
for some entries it does not (6), and no length leads out of it.

**Crypto, SDP, addresses, logging**: pure functions and output, not modelled; that
they succeed or fail is a choice in the handlers that call them. `PROJECT.json`
gives the status of each part.

## 2. The modules

| module | extends | models |
|---|---|---|
| SeqNo | – | uint16 arithmetic and `seqnoDelta`, for any modulus and guard |
| Playout | – | what the sequencer promises: the abstract specification |
| Sequencer | SeqNo | the sequencer goroutine, its stream and its network; refines Playout |
| SequencerProofs | Sequencer | theorems: types, cache, the order of the stream, the refinement; what is requested, and what is given up |
| RaopSession | – | SETUP, TEARDOWN, receivers, transmitters, sequencer as their peer |
| RaopSessionProofs | RaopSession | theorems: types, complete sessions, held connections |
| Broadcast | – | what the audio output promises its listeners: the abstract specification |
| AudioOutput | Broadcast | packet objects, keys, decoder, the list of streams; refines Broadcast |
| AudioOutputProofs | AudioOutput | theorems: types, one user, own keys, every stream, the refinement |
| Volume | – | the volume handler and a source with a slider |
| VolumeProofs | Volume | theorems: types, and where steps come from |
| Dacp | – | the DACP goroutines and the three providers' resolvers |
| DacpProofs | Dacp | theorems: types, current addresses, wanted requests |
| Dmap | – | metadata: what a source sends for a tree, what is printed, what a reader finds in it |
| DmapProofs | Dmap | theorems: every tree is printed without a panic, one whose entries fit the format as the tree, and no two of these alike |
| Control | Dmap | connections, volume handler, DACP goroutine and sink, composed |
| ControlProofs | Control, DmapProofs | theorems: types, no circular wait, answers, sessions, metadata |
| Registry | – | what the collection promises its callers: the abstract specification |
| Service | Registry | the sink collection, provider selection, announcements; refines Registry |
| ServiceProofs | Service | theorems: types, what the network sees, the refinement |
| MC*x* | *x* | constants of the TLC runs |

In all of them an action goes from one point where a goroutine can block, or where
another goroutine can see its effects, to the next.

**Sequencer.** A packet is its position in the stream; the code sees only
`SeqnoAt(i)`, the position modulo 2^16, and `pos`, `played`, `asked` and
`jumped` record what the seqnos stand for.  `Handle` is
`handle` up to its `flushCached`, `FlushPacket`/`FlushEnd` one turn of
`flushCached` (each `outf` may block), `Timeout` the timer case, and
`RequestGap`/`GiveUpGap`/`CountGap` one turn of the loop of `sendReRequests`,
by what the switch does with the smallest retry count; `ScanEnd` is the
`flushCached(low)` behind it.  `PrintState` is what `printState` does to the
counts. `Restart` and `Shutdown` are the commands. Counts above `GiveUpAt` are kept
at `GiveUpAt + 1`, as the code treats them alike.  The environment
(`DataPacket`, `RecoveryPacket`) loses, reorders, duplicates and repeats packets; a
packet is at most `Window` positions from `low`, which is less than the guard.

**Playout** has no seqnos, retries or goroutines: a position whose turn it is, the
positions that wait, and what has been played.  `Playing` in Sequencer is its instance;
`Turn` maps `pos` and the cursor of `flushCached` to the turn.  Each
`FlushPacket` is a `Play`, `Handle` of an early packet a `Wait`, `GiveUpGap` a `Skip`, or
a `Break` where `remove` jumps over a cached packet; everything else is a stutter.

**AudioOutput.** A packet object has the fields of `rtpPacket`; `InUse` says who is
going to use it (a receiver, the channel, the cache, the decoder).  Packets are
in order or wait, as in Playout, so that this module needs no seqnos. Keys, vector
and decoder are the number of the ANNOUNCE they come from, and `SetKey`, `SetIv`,
`SetAlac` are separate steps, as another goroutine reads them.  `Visit`, `Written` and
`WriteFails` are one turn of the loop of `writeToStreams`.

**Broadcast** has no packets, list or mutex: who listens, who has still to hear the buffer,
who has asked to leave, who has heard one since, and who is out for good.  `Hearing` in
AudioOutput is its instance; `Lock` is a `Begin`, `Written` a `Hear`, `WriteFails` and a `Visit`
to a cancelled stream a `Drop`, `NewStream` a `Join`, `Cancel` a `Leave`, and everything
else a stutter, the end of the walk that cuts the list off included.

**Control** composes what the other modules take apart: each RTSP connection with its
reader, the handler goroutine of Volume reduced to which commands and callbacks it
makes, the goroutine of Dacp reduced to a source that is found or not, and a sink
that calls its `Source` from any callback.  `calls[g]` is what goroutine g is in and
has still to call.  A callback runs in the goroutine that makes it.  Of a session it has the
sequencer (`sequencer`: none, runs, or stopped for ever) and which of `raop.control`, `data`
and `timing` are not nil (`fields`): `Openings` are the ways in which `startRtp` can end, and
after one that is not complete `SetupCloses` stops the sequencer and leaves the fields as
they are.  What a request `says` can be wrong, and of an ANNOUNCE only what follows the keys
(`announced` may be gone then), or the key or the vector is missing, which panics.

**Dmap.** Tag and length are one cell, a byte is one, and lengths count cells; the
table of some 300 tags is one tag for each printer, two that have one name (`EntryName`; the
table has three such pairs), one that is not known and one, `Odd`, that has markup for a name.
`Entries` is the loop of `dmapPrintDict` with `dmapWriteEntry` in it, a recursive function; what
is printed is a sequence of tokens.  `Text` is what the printer of an entry writes: a token for
its value, but as `dmapPrintStr` escapes nothing, for a string with markup in it
(`JsonMarkup`, `XmlMarkup`: quote, backslash and line end, or brackets and ampersand) its bytes
as raw pieces that no reader can put together.
A tree is the list of its entries from the root on, each with its
depth (`IsTree`); `Data` is what a source sends for it.
`Readable` and `Tells` look at the tokens only: which may follow which, how deep each is by
what is open there, and that the names, in their order, are those of the entries, at their
depths and with their values.  They do not repeat the recursion of the printer.  `Accepts` are the
values a reader of the format knows: `***VERS***` (dmap.go:147) is none in JSON, and
`<!CDATA<[1, 2]>>` (dmap.go:119) none in XML.  `AllFit` says of a tree that none of its
entries is of these, has markup in its string or an odd name; the reader of JSON keeps names
that occur twice in their order.

**RaopSession.** A SETUP that opens connections has a number, which stands for its
sockets and goroutines. `rtsp[s]` is where the handler of source s is; the fields
`data`, `control`, `timing` are `conn`, and `open` is what the kernel has
open. A failing SETUP does not close what it has opened, and `teardown` forgets
`control` only, as in the code.  All three connections have a receiver.  It ends, and closes
its connection, with any error of `Read`: `ReceiverEnds` once TEARDOWN has closed the
connection, `ReadFails` in the middle of a session (a dialed UDP socket reports that its
peer refuses); `broken` are the connections that have ended so, and no field of `raop` or
other goroutine learns of it.

**Volume.** The loops of `startVolumeHandler` are the values of `pc`, each
select case is an action. `call` is the DACP command `send` waits for. The
source moves its slider and reports the new volume on `wire`, in order. Any command can
fail: a `setproperty` that does is followed by a poke, and by pokes for ever (`poke`); of a
poke the handler ignores the error (volume.go:113, 116), so one that fails moves nothing and
is not repeated: `lastPoke` remembers it until the next report. The 100 ms
after centering are `centered`, which `Settle` ends. `PromptEcho` says that a
source reports a command's effect within them.

**Dacp.** A closure on `mrc`, `crc`, `requestChan` and every `result`
channel are explicit, with their capacities. `SendClose` and `SendResolve` are the two
sends of a closure that replaces the remote. `Serve`, `Found` and
`Deliver` are Avahi's resolver, `BeginQuery` and `Answer` the callbacks of the other two
providers. `err` is the variable of `runDacp` that survives a turn
of its loop.

**Service.** One client holds the mutex from `Enters` to `Returns`. `announced`
is what the network sees: source and provider. `ChooseProvider` tries the next
provider of the list. `bonjour` is the provider whose Unpublish does nothing, if there
is one. `ended` is a nil pointer, a nil map or `os.Exit`.

**Registry** has no mutex, sources or providers: the sinks that are held, those the
network sees, and whether records can be withdrawn at all.  `Collection` in Service is its
instance.  A call takes effect where the goroutine is past what can still fail: a
`Register` when `ChooseProvider` or `Publish` ends (`Held` leaves out the newest source
until then), an `Unregister` and a `Close` when they enter (`Visible` leaves out the
sources that are `leaving`).  The rest of their steps are stutters, those of
`zeroconfCleanUp` too.

## 3. The runs

| run | property | shows |
|---|---|---|
| sequencer_order | PlaysInTurn | the sequencer implements Playout |
| | InOrder, CacheMatchesStream | output and cache agree with the stream across the wrap |
| | NothingHeldBack, RetriesOnlyForMissing | cache, `low` and `retries` stay consistent |
| | GiveUpOnlyAfterAsking, RequestsOnlyMissing | a gap is asked for at every count before it is dropped; requests name nothing that is there |
| | NeverRewinds | a restart goes back no further than the network holds packets up |
| | Drains | with silence, the cache empties |
| sequencer_jump (violation) | NeverJumps | see 6 |
| volume | Agreement | slider and `deviceVolume` meet, and the sink does but for a poke that is lost with no report behind it |
| | VolumeIsSetDirectly | as long as `setproperty` is accepted, at what the sink asked for |
| | Centering | the slider rests at its center, but for such a poke |
| | StepsAreTurns | no step from the handler's own commands, as long as `setproperty` is accepted |
| volume_overshoot (violation) | VolumeIsSet | see 6 |
| session | PlayingIsComplete | a session that plays has its sequencer, three connections and their receivers, but for what has broken by itself |
| | NothingLeaks | the fields name what is open, also after SETUPs that fail; without these nothing is open outside a session |
| | FlushGetsThrough, ReceiversEnd | without these, nobody stays blocked on `flush`, `seqchan` or `rrchan` |
| session_failed (violation) | FlushRestarts | see 6 |
| dacp_resolve | AddressIsCurrent, ResolverFollows, OpenReturns | two sinks, two sources, each provider |
| dacp_abandoned (violation) | ResolveIsPending | see 6 |
| service_calls | CallsAreSteps | the collection implements Registry |
| | NetworkAgrees, OneRecord, CallsReturn | two clients, two sinks, two providers, two failures |
| packets | Exclusive, DecodesItsOwn | an object has one owner; audio is decoded from the packet whose turn it is, and with its own keys unless its session is over |
| | EveryStreamHears, StreamIsAdded | each stream gets each buffer once; adding one ends |
| control | AnswersInOrder | each request that gets a bare 200 has its answer although readers read ahead |
| | MetadataIsWhole | metadata whose entries fit the format can be read and says what was sent |
| | NoPanic | sources that keep to the protocol and announce keys crash nothing, but for a SETUP after one whose connections could not all be opened |
| | NoCircularWait, EveryCallReturns | callbacks, calls and requests end |
| answers (violation) | OneAnswerEach | see 6 |

Each module also has its `TypeOK`, which bounds the channels by their capacities.
Every property of a passing run has a mutant: a plausible mistake in a
definition that makes the property fail, kept beside the definition it changes.

### Bounds, and why they are enough

* *Sequencer.* `Modulus` 16, `Guard` 4 (the code: 65536, 8192): the stream starts
  before the wrap (12 or 13) and crosses it (`StreamLength` 20). `Window` 3 makes
  two gaps at once, or one of three; `Reorder` 2 lets a data packet be
  overtaken by two. Two request counts and a give-up count keep the order (and
  being odd) of 3, 11, 23, 37. `PrintLimit` 2 lets a gap be long. A `RequestCap` of
  1 fills.
* *Volume.* A slider of a few steps with a band of one step around its
  center; `ChanCap` 2 fills; `MaxTurns`, `MaxSets`, `MaxSwitches` of 1 or 2 let a turn,
  a setting and a switch fall into each other's search. The liveness
  properties need the environment to stop, which these bounds make it do.
* *RaopSession.* `DataCap` and `RequestCap` 1: every send can block. The instances
  are one source with repeated SETUPs of which some fail, at any connection; one session of
  which any connection breaks (`errors`); and two sources that share the one set of
  connections, without failures.
* *AudioOutput.* Three objects (receiver, channel and decoder at once), `DataCap` 1, and
  four instances (`Sizes`): two sessions of one packet, for keys that change; one of three
  packets, for gaps, late answers and the cache; one stream over two packets; two
  streams over one. The parts meet only in the packet and in the mutex, so one
  instance need not hold them all.
* *Dacp.* All capacities 1 (the code: 12, 5, 4). `MaxRequests` 3 opens, so that a
  request is replaced while results come (`MaxFound` 2); `MaxCommands` and
  `MaxFailures` 1. One token in the runs: a second behaves as a new remote with the
  same service name, which the ids already give.
* *Control.* Channels of one place (the code: 8 and 12), so that all fill. A source has a
  script, and `AllLoads` are instances: two sessions in one connection with every
  method and one failed command; metadata of eight shapes (the theorems are about all), of which
  four have entries that do not fit one format or both, and a cut one; two sources
  and a sink whose settings, commands and mode changes are in each other's way;
  requests that are refused; every pair of announcements, good and bad; SETUPs of which two
  cannot open a connection (`sockets`); and the sinks and sources the properties exclude, so that
  the model takes the steps they lead to. `ByteSize` 4 leaves two plain bytes beside one that
  is markup in JSON and one that is in XML, and with `WordSize` 2 numbers of three bytes overflow.
* *Service.* `MaxCalls` 5, `MaxFailures` 2, one sink on a fixed port, with and without
  Bonjour.

Deadlock is not checked: all of these programs may stop when sources
go away, commands are used up, scripts end, or the sequencer has been shut down.

### Fairness, and why the code justifies it

Goroutines that can run do (weak fairness). Where one waits on a channel or in
a select that is ready again and again, it is strong fairness: `select` chooses at
random among its ready cases, and the runtime queues the waiters of a channel. It
is one condition per goroutine, not per case, unless the case is what the
property is about; in Dacp, whose bounds let nothing go on for ever, weak fairness
says as much. The sequencer's timer is restarted by every packet, so it is
only assumed to expire while nothing arrives (`quiet`). HTTP requests
end, with an answer or an error; the writers of the streams and `Sink.Closed` return;
Go's mutex hands over to the one that has waited longest. Users, sources, sinks,
the network and the resolvers owe nothing: `EveryCallReturns` says itself that it is
about a source that is found again and again and has reported a volume.

## 4. Proofs

A theorem holds for every value of the constants that satisfies the assumptions of its
module, that is for any number of goroutines, packets or requests and any capacity of
the channels.  Those of the sequencer hold for what satisfies
`SeqNoAssumption` (the two guard zones are at least a guard apart) and
`SequencerAssumption` (the request counts are positive and below the give-up
count; `Window < Guard`), so also for the code's 65536, 8192, {3, 11, 23}, 37
and streams of any length.

* `TypeCorrect`: `Spec => []TypeOK`. One step per action; lemmas give the range
  of the arithmetic (`PlusType`, `DistType`, `SeqnoAtType`), of the counts
  (`CountType`, `RetriesAfterType`) and of a walk's step (`NextGapType`).
* `NothingIsHeldBack` and `RetriesAreForMissing`: `Spec => []NothingHeldBack` and
  `Spec => []RetriesOnlyForMissing`. The inductive invariant is `CacheInv`, the two
  with `TypeOK`. They carry each other's weight only with the types: `handle`
  deletes the count of the packet it caches, a walk counts only what is
  missing (`RetriesAfterHeld`, `GapKeepsCache`), and the goroutine comes back to its
  select from `flushCached` only with `low` at a missing seqno
  (`HandleKeepsCache` for the case in which the packet is not `low`:
  `SeqnoDelta(low, low) = 0`, so it is cached elsewhere).

* `PacketsInOrder`: `Spec => InOrder`, and `CacheIsOfThisLap`:
  `Spec => []CacheMatchesStream`.  The code compares seqnos, the properties compare
  positions of the stream; `SeqnoDeltaExact` says that `seqnoDelta` and the uint16
  difference of two packets less than a guard apart are the difference of their
  positions.  It rests on `SeqnoAtPlus` (the seqno d positions on is uint16
  addition of d), proved from division with remainder.  The invariant is
  `FullInv`: `CacheInv`, and `OrderInv`, which says that `low` is the seqno of
  `pos`, that every cached packet is at the position its distance from `low`
  says, no further than `Window`, and that what has been played is behind `low` and
  behind the cursor of `flushCached`.  Neither property is inductive without it: an
  arriving packet is compared with `low` only, and `flushCached` moves over the
  cache while `low` is still where it was.  `LowMoves` is the common part of
  the two steps that move `low` (`FlushEnd`, `GiveUpGap`). TLC finds `OrderInv` to hold
  under the constants of sequencer_order.  The exception in both properties,
  `jumped`, is the one that run sequencer_jump shows to be real.

* `ImplementsPlayout`: `Spec => PlaysInTurn`, the refinement of Playout, and
  `RewindsNoFurther`: `Spec => NeverRewinds`.  The mapping takes `pos` and the cursor of
  `flushCached` to the turn, the cached positions and the one in `handle` to those
  that wait, and `jumped` to itself.  `FirstStarts`, `HandlePlays`, `FlushPlays` and
  `GiveUpSkips` show what the four steps map to, under `FullInv`: that a
  `FlushPacket` plays the packet whose turn it is is `CacheMatchesStream`, that a
  `GiveUpGap` skips only what is missing and ends at the first packet that waits
  needs `NothingHeldBack` too.  `PlayoutStep` adds that the others stutter.

* `RequestsAreOfMissing`: `Spec => RequestsOnlyMissing`.  `WalkInv` says of
  `sendReRequests` that it stands at `low` or behind a cached packet, and that `entries`,
  the packets it has yet to pass, are no more than the cached ones in front of it (`Walk`).
  So the walk stops before it comes round to what is behind `low`: `WalkAhead` finds a
  cached packet behind each gap, by counting (`SpanSize`: a way of d seqnos holds
  no more than d of them), and `WalkCounts` that there are still enough behind it.  What
  is in front of a cached packet has been sent, as the cached packet has.
* `GivenUpIsAsked`: `PrintLimit >= Window => (Spec => GiveUpOnlyAfterAsking)`.  `Counts` (in
  `AskInv`) says that only packets missing below a cached one have retries, that the
  packets of one gap have the same number, and that each count of `RequestAt` a packet has
  reached is one it was asked for at.  They need each other: a gap is counted as a
  whole and requested by its smallest count, so one packet with a larger count
  would miss a request (`GapIsCounted`, `GapIsWhole`); a packet that arrives splits a
  gap into two with the same counts (`HandleKeepsCounts`), and a gap starts behind
  the cache with none.  `LowKeepsCounts` moves `low` past what has no counts left.  The
  hypothesis is about `printState`, which counts gaps longer than `PrintLimit`
  a second time without asking: with even numbers in `RequestAt` the property is false
  without it.  In the code the limit is 20000, and the window less than 8192.

* `StepsComeFromTurns` and `VolumesAreVolumes`: `Spec => []StepsAreTurns` and `[]TypeOK` of
  Volume.  `DirectInv` is what holds as long as the source accepts `setproperty` (`~poke`) and
  reports promptly: the handler does not poke, in relative mode it sends the center only, and
  unless it is waiting for the echo, each report of its own that is in
  the channel or on the wire is of the center, where it makes no step.  The mode changes
  only where no command is under way (`EnterModeDirect`).

* `NeverInACircle`: `Spec => []NoCircularWait` of Control, for all values that
  satisfy `ControlAssumption`.  The inductive invariant is `WaitInv`: the calls of
  a goroutine are typed, so only the handler's own calls can be `setproperty`; who is
  in `crc` or `http` is in the call of a command, once (`Waiting`); a connection is in
  calls only where it waits for its callback (`Idle`); and with a sink the property is
  about the DACP goroutine is in no call and the handler in commands only (`Levels`).
  `LevelsSuffice` is the argument: whoever waits waits for one of these two, the handler for
  the DACP goroutine, and that for nobody.  `Waiting` is what makes `Levels`
  inductive, since the answer to a command removes the first call of whoever
  `http` names.

* `ControlTypes`: `Spec => []TypeOK` of Control.  The capacities are guards; what is not is
  that answers name requests that have been sent.  `Arrival` says that what a
  connection has yet to read is later than what it has read, also for sources that
  pipeline and for bodies nobody reads.
* `OneAnswerInTurn`: `Spec => []AnswersInOrder`.  `OneAtATime`: a source that waits for its
  answers, and whose bodies are read, has at each point of a request exactly what is still
  unread of it on the wire or in the reader, and nothing when it is handled; so
  the reader that is thrown away takes nothing along, and no request is garbled.
  `OneAnswer`: the answers of the requests so far are there, and nothing has been
  written of the one under way.
* `SessionsDoNotPanic`: `Spec => []NoPanic`.  `SessionInv`: if the requests
  of the leading source (`Leads`) have begun a session that they have not ended
  (`Begun`), the session is `Complete`: either the sequencer has been stopped, so that
  TEARDOWN waits for ever, or it runs and all three fields are there.  `Together`: unless a
  connection could not be opened, a control connection comes with the other two, so no SETUP
  meets a field that is nil; and a SETUP that does is the only thing that panics otherwise.  A
  TEARDOWN takes effect in two steps, with a callback in between, so `Handled` counts it only
  after the second (`TearingDown`).  That metadata does not panic either is `PrintsWithoutPanic`.
* `MetadataIsTold`: `Spec => []MetadataIsWhole`.  What the sink has been told is what the
  data of its source prints as (`MetadataInv`), and if all entries fit the format that tells the
  tree, by `PrintsTheTree`.

* `PrintsWithoutPanic` and `PrintsTheTree` of Dmap: for every tree and both formats, what
  `String` prints of `Data[tree]` is no panic, and if all entries fit the format it is not
  empty, is `Readable` and `Tells` the tree. Data and
  printer are recursive functions, so this is induction over data, twice:
  - *That the functions are what they say.*  A recursive definition is a CHOOSE, and that
    there is such a function has to be proved.  `FixedPoint` does, for any recursion that
    uses smaller arguments only (`IsRecursion`): a functional is a function from functions to
    functions here, so that the lemma has no operator as a parameter.  It rests on `Least`, that
    a set of numbers has a least one.  `DataIs` and `EntriesIs` apply it, after
    `DataOfShorter` and `EntriesOfShorter`.
  - *That no length leads out of it* (`EntriesSound`) *and that what is printed tells what has been
    sent* (`EntriesTold`).  Of the lists of entries for
    which it does not, one would be a shortest.  `DataBegins` and `ContentIs` say that the lengths
    in its data cut it where the first entry ends (so that nothing is out of range), and
    `EntriesStep` that its entry, separator and rest are printed. What is inside the
    entry and what is behind it are shorter lists, and `ValueEntryTold`, `DictEntryTold` and
    `ForestJoined` put them together.

  The invariant of the induction is `ForestTold`, on `Tale(json, out, items, m, d, n, e)`: an output
  that a reader follows from entry m at depth d to entry n at depth e.  Tales can be
  joined (`TaleJoined`), put between two tokens (`TaleEnclosed`) and moved to where
  the entries are in a longer list (`TaleMoved`); `Balanced` says that nothing is
  closed that has not been opened, which a tale from d to d alone does not.
* `PrintsTreesApart` of Dmap: of the trees whose entries fit the format `String` prints no two
  alike, unless they differ only in values that are, or in tags that have one name
  (`SameTree`, `NamesakesPrintAlike`): an output that `Tells` two trees
  tells one (`NameAt`, `TellsOneTree`).

* `NetworkFollows`, `RecordsAreSingle`, `ProviderIsAsked`, `ServiceTypes`:
  `Spec => []NetworkAgrees`, `[]OneRecord`, `[]ProviderKnows`, `[]TypeOK` of Service.
  `ProviderKnows`, that a record is with the provider that is going to be asked to withdraw
  it, is no property of the runs: it is what the others rest on.
  `NetworkAgrees` speaks of the moments in which the mutex is free; `ServiceInv` says
  what holds in between.  `Owned`: who is inside has the mutex, so that everybody else
  is outside (`Alone`).  `Newest`: the source to announce is the last one made, and none
  is announced before a provider is chosen.  `Emptied`: while Close runs the map is empty
  and no two of the sources that are left are of one sink.  `Seen` and `Shown`: an
  announced source is in the map or about to be withdrawn, and one in the map is
  announced or about to be.  One lemma for each step of a client.
* `CallsTakeEffect`: `Spec => CallsAreSteps`, the refinement of Registry, from the same
  `ServiceInv`.  Where a call takes effect: `RegisterTakesEffect` (from
  `ChooseTakesEffect` and `PublishTakesEffect`), `UnregisterTakesEffect`,
  `CloseTakesEffect`.  That the other steps stutter: `Unseen`, and for those that change
  the map or the network, `RegisterNewUnseen`, `CloseNextUnseen` and `CloseEndUnseen`; the
  last needs `BonjourAssumption`, that Bonjour is not the provider that cleans up.

* `CommandsGoToTheSource`: `Spec => []AddressIsCurrent` of Dacp.  `AddressInv` adds that,
  at its select, a goroutine's request is for the id of its remote
  (`RequestIsCurrent`), and that there is no address while the request is being replaced
  (`AddressIsGone`); the replies to older requests arrive on channels nobody reads.
* `ResolverIsCurrent`: `Spec => []ResolverFollows`.  The resolver is behind by the closures
  in `requestChan`: `FollowInv` says that what it looks for is `Wanted` or its close is in the
  channel (`Looking`), and that what it has yet to look for is, or has its close behind
  it (`Pending`).
* `DacpTypes`: `Spec => []TypeOK`.  That there are no more than `MaxRequests` requests
  is not a guard: a request is made two steps after the call of `open`.  `OpensInv` counts:
  the requests there are, the remotes that are offered and those being replaced are
  together no more than the calls.  `ChannelType` and `ResultType` then say that whatever is
  in a channel names one of the requests there are.

* `ConnectionsAreHeld`, `SessionsAreComplete`, `SessionTypes`: `Spec => []NothingLeaks`,
  `[]PlayingIsComplete` and `[]TypeOK` of RaopSession, the first two for one source.
  `SessionInv` says what is open at each point of SETUP and TEARDOWN: nothing that no field
  names (`Held`), nothing without a control connection, and no older data or timing connection
  where a new one is opened (`Opening`); and, as long as no SETUP has failed, which connections
  are there (`Complete`), that the sequencer runs (`Runs`) and that what is open is read (`Read`).
  `Broken` says that what has broken is closed and read no more, and `Fresh` that nothing
  has of a SETUP that is yet to come: without it a new connection could be taken for a broken one.

* `ObjectsHaveOneUser`, `PacketsDecodeAsAnnounced`, `StreamsAreHeard`, `OutputTypes`:
  `Spec => []Exclusive`, `[]DecodesItsOwn`, `[]EveryStreamHears` and `[]TypeOK` of
  AudioOutput, from three invariants.  `PacketInv`: no object is twice in one place or in two
  (`Apart`, `Pooled`), except that the cache still names the one that is output
  (`Outputting`), and whoever has an object finds its packet in it (`Filled`). `KeyInv`: the
  keys are set before the connections are opened, and there are no packets of a session
  before (`Announced`, `Sent`), so what is decoded of the current session was
  decrypted with the keys it came with (`Decoded`); of what an earlier session has left in the
  channel neither invariant nor property says which keys it meets.  `StreamInv`: `ii` is ahead of `jj`, the
  places up to `jj` and from `ii` on hold each stream that is not gone once (`Kept`), and
  the buffer is owed behind `ii` (`Owing`).  `LeavesOut` and `WrittenKeeps` are the two ways in
  which the walk goes on.
* `ImplementsBroadcast`: `Spec => Broadcasts`, the refinement of Broadcast by AudioOutput, from
  `StreamInv`: nobody is behind while the mutex is free (`NobodyIsBehind`), so a buffer may
  begin or a stream join, and the stream the walk is at is behind (`TheNextIsBehind`), so it
  may hear or be dropped.  TLC finds no violation of `Broadcasts` on the instances of `packets`
  either; no run repeats it, as it is proved for all of them.

With TLC only:

* all liveness, as fairness and `ENABLED` are outside what the provers do: `Drains`;
  `Agreement`, `Centering`, `VolumeIsSetDirectly`; `FlushGetsThrough`, `ReceiversEnd`;
  `OpenReturns`; `CallsReturn`; `StreamIsAdded`; `EveryCallReturns`;
* what numbers are printed as: that `IntToUint64` and `Signed` are the low bytes of what was
  sent is a fold, and no property (see 6).

No module uses a RECURSIVE operator.

## 5. Not modelled

* The sequencer's clock: that a stream with packets every 8 ms keeps restarting its
  10 ms timer, and so is not repaired while it plays, is a fact about durations.
* What is between two steps of volume: a slider has whole steps, and a sink's volume
  is one of them.
* AES, RSA and ALAC (keys and codecs are numbers), the parsing of SDP, addresses and
  zones (it succeeds or fails), the wording of RTSP answers.
* The log (tracelog.go, sequencer_log.go), pem.go, and pool_debug.go, which does not
  compile with the rest of the package.
* D-Bus, dnssd, HTTP and UDP are environment.  Callbacks of dnssd come in order and after
  the call that asks for them.
* Sources that do not name a remote control (rtsp.go:134 then leaves the one before).
* `raop.close`, which runs only after a failed publish, on fields that are nil, and
  `dacp.close`, which has no caller.
* The example player, of which only the calls into the package are described (6).

## 6. Where the code does not do what it says

Five runs expect a violation, and `PROJECT.json` quotes the line each contradicts:

* **answers**: `written` is never set (rtsp.go:82), so an answer with an error or
  with content has a second head, of status 200, behind it.
* **sequencer_jump**: two gaps that reach the last count in one walk are both
  removed, and `low` moves past the cached packets between them
  (sequencer.go:158-159). They are never played.
* **volume_overshoot**: two settings before the first report give two pokes for
  one step, and the search stops once it has passed its target (volume.go:176-194).
* **session_failed**: a SETUP that fails closes the sequencer, which no later
  SETUP starts again; the next flush blocks for ever (raop.go:103-107).
* **dacp_abandoned**: the resolver blocks on the result channel of a request
  nobody reads any more (zeroconf_avahi.go:164).

The models show more, which no run keeps, as they contradict nothing that a run
would not already be about, or would need a bound of their own.

Packets and streams:

* `printState` counts retries a second time (sequencer.go:201). A short gap behind a
  gap longer than 20000 has even counts only, and never reaches 3, 11, 23 or 37:
  with `Window` 4, `Guard` 5 and `PrintLimit` 1 `Drains` fails; the run and `GivenUpIsAsked` exclude
  it.  (With the code's
  numbers such a gap is longer than the guard zone, so beyond `Window`; it takes a
  stream that skips ahead by minutes.)
* After a jump (sequencer_jump) a cached packet behind `low` need not drain.
* A transmitter never ends, so a request may be written to the closed connection
  of an older session (rtp.go:101-117).
* Packets in `seqchan` survive TEARDOWN's flush (raop.go:116-124): they set `low` for
  the next session, and are decoded with its keys, or with some of both while ANNOUNCE
  replaces them (rtsp.go:191-206).
* A receiver whose `Read` fails ends and closes its connection, and nothing restarts it
  (rtp.go:155-164): a source that refuses one packet to its control port gets no more
  requests, and its session plays on without.
* Two sources share one raop (raop.go:22-24 says 1-1): the second ANNOUNCE replaces
  the keys of the first, and the first TEARDOWN closes the connections of both. A
  SETUP after a half-failed one finds `control` set and uses a nil connection
  (rtsp.go:239-240), which `NoPanic` exempts; a TEARDOWN after it blocks in `flush`, so that
  its connections stay open; two SETUPs at the same time leak the connections of one.
* An ANNOUNCE without a key or a vector panics (info.go:56), although the TXT record offers
  unencrypted sound (`et=0,1`, zeroconf_common.go).  One whose remote address or codec
  cannot be used has replaced key and vector before it is refused.

Control:

* A second TEARDOWN panics, as `control` is nil.
* A sink that calls VolumeMode, Volume or Command from Connected, or VolumeMode from
  SetVolume, waits for the goroutine it runs in; Volume from SetVolume does once
  its channel is full.  `Source.Volume` blocks after 8 calls before a source has reported
  a volume.  `Patient` and `EveryCallReturns` exclude these.
* What a reader has read ahead of a pipelined request is lost, and the body of a request that
  does not read it becomes the next request. A body without a length is read to the
  end of the connection. A request that cannot be parsed does not close it.
* One HTTP request that fails leaves `err` set, so that each address found later is
  thrown away (dacp.go:206); `getCommandUrl` never uses an IPv6 address (dacp.go:137).
* A poke that passes the center more than 100 ms after centering is taken
  for the user's turn (volume.go:227-229); `StepsAreTurns` is therefore stated
  for sources that accept `setproperty`.
* A poke that fails (volume.go:113, 116) is not noticed: until the next report the search
  waits, slider and sink stay apart, or the slider rests off its center.
* In absolute mode the sink is given the slider's -30 to 0, where service.go:171 and
  client.go:58 say 0 to 100.
* `client.go:53` says that metadata comes "in a JSON or XML representation".  Strings
  are not escaped (dmap.go:124-133), so that a title with a quote is no JSON and one with a
  bracket no XML; versions are `***VERS***` in both, which is no JSON; data in XML is
  `<!CDATA<[..]>>`, which is no CDATA section; tags that are not known are names as they are; and
  two entries of one name are one member of a JSON object to most readers.
* `dmapPrintInt` prints signed numbers as unsigned ones and `dmapPrintUint` the other way
  round; only the first entry at top level is printed.

Announcing and finding:

* A second sink that the same source connects to has its resolve request refused,
  and closing it deletes the first one's (zeroconf_avahi.go:191-216).
* The Bonjour provider's `Unpublish` does nothing; its `close` asserts a type that is
  never stored, and panics with the second source.
* The pure provider's `close` does nothing, and both its callbacks cancel the query
  begun last, so that one query of an abandoned request goes on for ever.
* A sink whose publishing fails stays in the map (service.go:79-83); a listener
  is never closed, so a sink on a fixed port cannot be registered again
  (raop.go:44-76); after Close with the pure provider `registeredServers` is nil and
  Register panics (zeroconf_pure.go:49, 74).

## 7. Plan

Done: all modules of section 2.  Every invariant and every action property a passing run
checks is the conclusion of a theorem without hypotheses other than on the constants.

Left to model: the sequencer's clock, for the timer that is restarted, and the
example player's list of streams.

Left to prove: that the turns of AudioOutput, which orders packets as Sequencer does but
without seqnos, implement Playout too.
