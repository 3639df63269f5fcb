------------------------------- MODULE Control -------------------------------
(***************************************************************************)
(* Everything around one sink that is not audio: the RTSP connections of   *)
(* sources (rtsp.go), the goroutine of the volume handler, the goroutine   *)
(* of the DACP remote control, the callbacks of the sink and the calls the *)
(* sink makes, and how they wait for each other.                           *)
(*                                                                         *)
(* What the volume handler does is the subject of module Volume, how the   *)
(* source is found that of Dacp, and what SETUP and TEARDOWN open and      *)
(* close that of RaopSession; here the handler calls the sink and sends    *)
(* commands when Volume does, and a source is found or not.  The keys of   *)
(* ANNOUNCE are the subject of AudioOutput, where no ANNOUNCE fails: what  *)
(* is left of those of one that fails behind them is in neither.           *)
(***************************************************************************)
EXTENDS Dmap

CONSTANTS
  Connections,   \* RTSP connections, each of a source of its own
  DeviceCap,     \* capacity of deviceVolumeChan and serviceVolumeChan: 8
  CommandCap,    \* capacity of crc: 12
  Loads          \* the instances to look at: what sources, network and sink do

\* What a source sends: a method, or for SET_PARAMETER the kind of its body.
\* body: there is one, and its length is given.  All sources name their remote
\* control.
Kinds == {"OPTIONS", "ANNOUNCE", "SETUP", "GET_PARAMETER", "volume", "progress", "image",
          "dmap", "other", "RECORD", "PAUSE", "FLUSH", "TEARDOWN", "UNKNOWN"}
Request == [kind : Kinds, says : {"all", "wrong", "keys", "no key"}, body : BOOLEAN]

\* What it says can be parsed and used, or not; of an ANNOUNCE only the keys can,
\* and the remote address or the codec cannot; or it has no key or no vector, or a
\* line that is no record.
Usable(r) == r.says = "all"

\* What the sink can call, and the callbacks it can call it from.
Calls == {"Volume", "VolumeMode", "Command"}
Callbacks == {"Connected", "SetVolume", "SetProgress", "SetCoverArt", "SetMetadata",
              "Play", "Pause", "Stopped"}
Commands == {"Command", "setproperty", "updown"}

ASSUME ControlAssumption ==
  /\ Connections \intersect {"volume", "dacp", "app", "none"} = {}
  /\ DeviceCap \in Nat \ {0} /\ CommandCap \in Nat \ {0}
  /\ \A l \in Loads :
       /\ l.script \in [Connections -> Seq(Request)] /\ l.pipelined \in BOOLEAN
       /\ l.calls \in [Callbacks -> Seq(Calls)] /\ l.app \in Seq(Calls)
       /\ l.failures \in Nat /\ l.sockets \in Nat
       /\ l.art \in BOOLEAN /\ l.format \in {"", "text", "xml", "json"}
       /\ IsTree(l.song.tree) /\ l.song.data \in Seq(Cell)

Goroutines == Connections \union {"volume", "dacp", "app"}
None == "none"
Fields == {"control", "data", "timing"}

VARIABLES
  load,                \* which of the instances this is
  next,                \* requests a source has sent
  wire,                \* what is on the connection: heads and bodies of requests
  buffered,            \* what bufio.NewReader of the present request has read ahead
  req,                 \* the present request
  pc,                  \* the goroutine of the connection
  status,              \* what its handler has written: nothing, error or content
  answers              \* the heads of answers, by request

VARIABLES
  announced,           \* alac is there
  sequencer,           \* none, runs, or stopped for ever
  fields,              \* those of r.control, r.data and r.timing that are not nil
  unopened,            \* how many connections could not be opened
  metadata,            \* what the sink has been told of the track
  crashed              \* something has panicked

VARIABLES
  deviceVolumeChan, serviceVolumeChan,   \* how many volumes are in them
  absoluteMode, started,                 \* the volume handler has left init
  poke,
  calls                \* for each goroutine the calls it is in or is going to make

VARIABLES
  id, resolving,       \* dacp: the source it looks for, and whether d.req is there
  address,             \* it is connected
  connectedName, err,
  crc,                 \* commands of these goroutines
  http,                \* whose command is being sent
  failures             \* commands and resolve requests that have failed

connection == <<next, wire, buffered, req, pc, status, answers>>
session == <<announced, sequencer, fields, unopened>>
raop == <<session, metadata, crashed>>
volume == <<deviceVolumeChan, serviceVolumeChan, absoluteMode, started, poke>>
dacp == <<id, resolving, address, connectedName, err, crc, http, failures>>
vars == <<load, connection, raop, volume, calls, dacp>>

Init ==
  /\ load \in Loads
  /\ next = [c \in Connections |-> 0] /\ wire = [c \in Connections |-> <<>>]
  /\ buffered = [c \in Connections |-> <<>>] /\ req = [c \in Connections |-> 0]
  /\ pc = [c \in Connections |-> "read"] /\ status = [c \in Connections |-> None]
  /\ answers = [c \in Connections |-> <<>>]
  /\ announced = FALSE /\ sequencer = None /\ fields = {} /\ unopened = 0
  /\ metadata = <<>> /\ crashed = FALSE
  /\ deviceVolumeChan = 0 /\ serviceVolumeChan = 0
  /\ absoluteMode = TRUE /\ started = FALSE /\ poke = FALSE
  /\ calls = [g \in Goroutines |-> IF g = "app" THEN load.app ELSE <<>>]
  /\ id = None /\ resolving = FALSE /\ address = FALSE /\ connectedName = None
  /\ err = FALSE /\ crc = <<>> /\ http = None /\ failures = 0

Sent(c) == load.script[c]
Current(c) == Sent(c)[req[c]]
Goes(c, to) == pc' = [pc EXCEPT ![c] = to]
Calling(g, list) == calls' = [calls EXCEPT ![g] = list]

-----------------------------------------------------------------------------
\* A source sends a request, when it has an answer to the one before (they carry
\* the same Cseq) or, if it pipelines, at any time.
Send(c) ==
  /\ ~crashed /\ next[c] < Len(Sent(c))
  /\ \/ load.pipelined \/ next[c] = 0
     \/ \E i \in DOMAIN answers[c] : answers[c][i][1] = next[c]
  /\ LET n == next[c] + 1
         body == IF Sent(c)[n].body THEN << <<n, "body">> >> ELSE <<>>
     IN  /\ next' = [next EXCEPT ![c] = n]
         /\ wire' = [wire EXCEPT ![c] = @ \o << <<n, "head">> >> \o body]
  /\ UNCHANGED <<load, buffered, req, pc, status, answers, raop, volume, calls, dacp>>

(***************************************************************************)
(* readRequest.  Each request has a reader of its own, which reads ahead   *)
(* what has arrived; what the reader before has read ahead is lost.  When  *)
(* a body is read as a head, the session ends or an index is out of range. *)
(***************************************************************************)
ReadRequest(c) ==
  /\ ~crashed /\ pc[c] = "read" /\ wire[c] # <<>>
  /\ \E n \in DOMAIN wire[c] :
       /\ buffered' = [buffered EXCEPT ![c] = SubSeq(wire[c], 2, n)]
       /\ wire' = [wire EXCEPT ![c] = SubSeq(wire[c], n + 1, Len(wire[c]))]
  /\ IF wire[c][1][2] = "head"
     THEN /\ req' = [req EXCEPT ![c] = wire[c][1][1]]
          /\ Goes(c, "open")
          /\ UNCHANGED crashed
     ELSE /\ Goes(c, "garbled") /\ UNCHANGED req
          /\ crashed' \in BOOLEAN
  /\ UNCHANGED <<load, next, status, answers, session, metadata, volume, calls, dacp>>

\* The source closes the connection once it has all its answers, or if it waits
\* for one to a request that has no body: its handler reads to the end.
Hangup(c) ==
  /\ ~crashed /\ next[c] = Len(Sent(c)) /\ wire[c] = <<>>
  /\ \/ pc[c] = "read" /\ Goes(c, "ended")
     \/ pc[c] = "body" /\ ~Current(c).body /\ buffered[c] = <<>> /\ Goes(c, "handle")
  /\ UNCHANGED <<load, next, wire, buffered, req, status, answers, raop, volume, calls,
                 dacp>>

\* The methods that read the body.
ReadsBody(r) == r.kind \in {"ANNOUNCE", "GET_PARAMETER", "volume", "progress", "image", "dmap"}

\* The body is what comes next, up to its length; without a length, everything
\* that comes belongs to it.
ReadBody(c) ==
  /\ ~crashed /\ pc[c] = "body"
  /\ \/ /\ Current(c).body /\ buffered[c] # <<>>
        /\ buffered' = [buffered EXCEPT ![c] = Tail(@)]
        /\ Goes(c, "handle")
        /\ UNCHANGED wire
     \/ /\ Current(c).body /\ buffered[c] = <<>>
        /\ \E n \in DOMAIN wire[c] :
             /\ buffered' = [buffered EXCEPT ![c] = SubSeq(wire[c], 2, n)]
             /\ wire' = [wire EXCEPT ![c] = SubSeq(wire[c], n + 1, Len(wire[c]))]
        /\ Goes(c, "handle")
     \/ /\ ~Current(c).body /\ buffered[c] \o wire[c] # <<>>
        /\ buffered' = [buffered EXCEPT ![c] = <<>>]
        /\ wire' = [wire EXCEPT ![c] = <<>>]
        /\ UNCHANGED pc
  /\ UNCHANGED <<load, next, req, status, answers, raop, volume, calls, dacp>>

-----------------------------------------------------------------------------
\* A handler that is done: it has written nothing yet, an error or content.
Done(c, written) ==
  /\ Goes(c, "answer")
  /\ status' = [status EXCEPT ![c] = written]

Keeps == UNCHANGED <<load, next, wire, buffered, req, answers, volume, dacp>>

Handles(c, kinds) == ~crashed /\ pc[c] = "handle" /\ Current(c).kind \in kinds

\* A challenge that cannot be signed, keys that cannot be decrypted, a transport or
\* a host that cannot be used: what is refused before anything is changed.
Refuse(c) ==
  /\ \/ Handles(c, {"OPTIONS", "SETUP"}) /\ ~Usable(Current(c))
     \/ Handles(c, {"ANNOUNCE"}) /\ Current(c).says = "wrong"
  /\ Done(c, "error")
  /\ UNCHANGED <<raop, calls>> /\ Keeps

\* A method that is not known.
NotFound(c) ==
  /\ Handles(c, {"UNKNOWN"})
  /\ Done(c, "error")
  /\ UNCHANGED <<raop, calls>> /\ Keeps

\* OPTIONS, FLUSH, a body of a type that is not known and is not read, and
\* parameters that are not a volume and not a progress.
Accept(c) ==
  /\ \/ Handles(c, {"OPTIONS"}) /\ Usable(Current(c))
     \/ Handles(c, {"FLUSH", "other"})
     \/ Handles(c, {"volume", "progress"}) /\ ~Usable(Current(c))
  /\ Done(c, None)
  /\ UNCHANGED <<raop, calls>> /\ Keeps

\* ANNOUNCE: the key and the vector, the remote address and the codec, in this
\* order.  decodeBase64 looks at the last byte of a key that may be empty.
Announce(c) ==
  /\ Handles(c, {"ANNOUNCE"})
  /\ \/ Usable(Current(c)) /\ announced' = TRUE /\ Done(c, None) /\ UNCHANGED crashed
     \/ /\ Current(c).says = "keys"
        /\ announced' \in {announced, FALSE}
        /\ Done(c, "error") /\ UNCHANGED crashed
     \/ Current(c).says = "no key" /\ crashed' = TRUE /\ Done(c, None) /\ UNCHANGED announced
  /\ UNCHANGED <<sequencer, fields, unopened, metadata, calls>> /\ Keeps

\* startRtp: the connections it opens, in the order control, data, timing, and the
\* one it cannot, whose field is nil then.  None, if there is a control connection.
Openings ==
  IF "control" \in fields THEN {<<{}, {}>>}
  ELSE {<<{}, {"control"}>>, <<{"control"}, {"data"}>>, <<{"control", "data"}, {"timing"}>>,
        <<Fields, {}>>}

\* Mutant of Setup: the data connection is kept in a variable of its own.
SetupForgets(c) ==
  /\ Handles(c, {"SETUP"}) /\ Usable(Current(c))
  /\ sequencer' = IF sequencer = None THEN "runs" ELSE sequencer
  /\ \E opening \in Openings :
       /\ fields' = (fields \ opening[2]) \union (opening[1] \ {"data"})
       /\ opening[2] = {} /\ Done(c, None) /\ crashed' = (fields' # Fields)
  /\ UNCHANGED <<announced, unopened, metadata, calls>> /\ Keeps

\* SETUP starts the sequencer, once, opens the connections and answers with the
\* ports of all three.
Setup(c) ==
  /\ Handles(c, {"SETUP"}) /\ Usable(Current(c))
  /\ sequencer' = IF sequencer = None THEN "runs" ELSE sequencer
  /\ \E opening \in Openings :
       /\ fields' = (fields \ opening[2]) \union opening[1]
       /\ \/ /\ opening[2] = {}
             /\ crashed' = (fields' # Fields)
             /\ Done(c, None) /\ UNCHANGED unopened
          \/ /\ opening[2] # {} /\ unopened < load.sockets
             /\ unopened' = unopened + 1
             /\ Goes(c, "close") /\ UNCHANGED <<status, crashed>>
  /\ UNCHANGED <<announced, metadata, calls>> /\ Keeps

\* If one could not be opened it stops the sequencer, and waits for ever for one
\* that has been stopped before; the connections stay open.
SetupCloses(c) ==
  /\ ~crashed /\ pc[c] = "close" /\ sequencer = "runs"
  /\ sequencer' = "stopped"
  /\ Done(c, "error")
  /\ UNCHANGED <<announced, fields, unopened, metadata, crashed, calls>> /\ Keeps

\* getParameters answers with the volume when it is asked for.
GetParameter(c) ==
  /\ Handles(c, {"GET_PARAMETER"})
  /\ Done(c, IF Current(c).body /\ Usable(Current(c)) THEN "content" ELSE None)
  /\ UNCHANGED <<raop, calls>> /\ Keeps

\* Mutant of ReportVolume: the channel has no limit.
ReportVolumeAlways(c) ==
  /\ Handles(c, {"volume"}) /\ Usable(Current(c))
  /\ deviceVolumeChan' = deviceVolumeChan + 1
  /\ Done(c, None)
  /\ UNCHANGED <<load, next, wire, buffered, req, answers, serviceVolumeChan, absoluteMode,
                 started, poke, dacp, raop, calls>>

\* SetServiceVolume waits for room.
ReportVolume(c) ==
  /\ Handles(c, {"volume"}) /\ Usable(Current(c)) /\ deviceVolumeChan < DeviceCap
  /\ deviceVolumeChan' = deviceVolumeChan + 1
  /\ Done(c, None)
  /\ UNCHANGED <<load, next, wire, buffered, req, answers, serviceVolumeChan, absoluteMode,
                 started, poke, dacp, raop, calls>>

\* Methods that call the sink and have nothing else to do.
Callback(kind) ==
  [RECORD |-> "Play", PAUSE |-> "Pause", progress |-> "SetProgress",
   image |-> "SetCoverArt"][kind]

Notify(c) ==
  /\ \/ Handles(c, {"RECORD", "PAUSE", "image"})
     \/ Handles(c, {"progress"}) /\ Usable(Current(c))
  /\ LET kind == Current(c).kind
         wanted == (kind = "progress" => announced) /\ (kind = "image" => load.art)
     IN  Calling(c, IF wanted THEN load.calls[Callback(kind)] ELSE <<>>)
  /\ Done(c, None)
  /\ UNCHANGED raop /\ Keeps

\* The metadata is printed, unless the sink wants none.
Metadata(c) ==
  /\ Handles(c, {"dmap"})
  /\ LET out == String(load.format, load.song.data)
     IN  /\ crashed' = Panics(out)
         /\ metadata' = IF out = <<>> \/ crashed' THEN metadata ELSE out
         /\ Calling(c, IF out = <<>> \/ crashed' THEN <<>> ELSE load.calls["SetMetadata"])
  /\ Done(c, None)
  /\ UNCHANGED session /\ Keeps

\* teardown tells the sink.
Teardown(c) ==
  /\ Handles(c, {"TEARDOWN"})
  /\ Calling(c, load.calls["Stopped"])
  /\ Goes(c, "teardown")
  /\ UNCHANGED <<raop, status>> /\ Keeps

\* Then it flushes the sequencer, which is nil without a session and takes nothing
\* once it has been stopped, and closes the three connections.
TeardownCloses(c) ==
  /\ ~crashed /\ pc[c] = "teardown" /\ calls[c] = <<>> /\ sequencer # "stopped"
  /\ crashed' = (sequencer = None \/ fields # Fields)
  /\ fields' = fields \ {"control"}
  /\ Done(c, None)
  /\ UNCHANGED <<announced, sequencer, unopened, metadata, calls>> /\ Keeps

(***************************************************************************)
(* finishResponse.  The head of a status is written when the handler sets  *)
(* it, and when it writes content; written is never set, so that the head  *)
(* of status 200 follows in any case.                                      *)
(***************************************************************************)
Answer(c) ==
  /\ ~crashed /\ pc[c] = "answer" /\ calls[c] = <<>>
  /\ answers' = [answers EXCEPT ![c] =
                   @ \o (IF status[c] # None THEN << <<req[c], status[c]>> >> ELSE <<>>)
                     \o << <<req[c], None>> >>]
  /\ status' = [status EXCEPT ![c] = None]
  /\ Goes(c, "read")
  /\ UNCHANGED <<load, next, wire, buffered, req, raop, volume, calls, dacp>>

-----------------------------------------------------------------------------
(***************************************************************************)
(* Calls of the sink, from callbacks or from goroutines of its own, and of *)
(* the volume handler.  A command waits in crc, and then for its answer.   *)
(***************************************************************************)
Queued(g) == http = g \/ Contains(crc, g)
First(g) == IF calls[g] = <<>> THEN None ELSE Head(calls[g])
Free(g) == calls[g] = <<>>

CallVolume(g) ==
  /\ ~crashed /\ First(g) = "Volume" /\ serviceVolumeChan < DeviceCap
  /\ serviceVolumeChan' = serviceVolumeChan + 1
  /\ Calling(g, Tail(calls[g]))
  /\ UNCHANGED <<load, connection, raop, deviceVolumeChan, absoluteMode, started, poke, dacp>>

CallCommand(g) ==
  /\ ~crashed /\ First(g) \in Commands /\ ~Queued(g) /\ Len(crc) < CommandCap
  /\ crc' = Append(crc, g)
  /\ UNCHANGED <<load, connection, raop, volume, calls, id, resolving, address,
                 connectedName, err, http, failures>>

\* volChange: volumeup or volumedown, or nothing, once setproperty has failed.
Pokes == {<<"updown">>, <<>>}
VolChange == IF poke THEN Pokes ELSE {<<"setproperty">>}

\* VolumeMode is taken when the handler is back at its select.
CallMode(g) ==
  /\ ~crashed /\ First(g) = "VolumeMode" /\ Free("volume")
  /\ absoluteMode' \in BOOLEAN
  /\ \E sends \in (IF started /\ ~absoluteMode' THEN VolChange \union {<<>>} ELSE {<<>>}) :
       calls' = [calls EXCEPT ![g] = Tail(@), !["volume"] = sends]
  /\ UNCHANGED <<load, connection, raop, deviceVolumeChan, serviceVolumeChan, started, poke,
                 dacp>>

\* A report of the source: the sink is told, or a command is sent, or both.
Reactions(sends) ==
  LET tells == load.calls["SetVolume"]
  IN  IF absoluteMode THEN {tells} \union (IF started THEN {sends} ELSE {})
      ELSE {<<>>, sends} \union (IF started THEN {tells \o sends} ELSE {})

TakeReport ==
  /\ ~crashed /\ Free("volume") /\ deviceVolumeChan > 0
  /\ deviceVolumeChan' = deviceVolumeChan - 1
  /\ started' = TRUE
  /\ \E sends \in VolChange : \E list \in Reactions(sends) : Calling("volume", list)
  /\ UNCHANGED <<load, connection, raop, serviceVolumeChan, absoluteMode, poke, dacp>>

\* A volume of the sink, which is ignored in relative mode.
TakeTarget ==
  /\ ~crashed /\ Free("volume") /\ started /\ serviceVolumeChan > 0
  /\ serviceVolumeChan' = serviceVolumeChan - 1
  /\ \E sends \in (IF absoluteMode THEN VolChange ELSE {<<>>}) : Calling("volume", sends)
  /\ UNCHANGED <<load, connection, raop, deviceVolumeChan, absoluteMode, started, poke, dacp>>

-----------------------------------------------------------------------------
\* The DACP goroutine is at its select.
Selects == Free("dacp") /\ http = None

\* Mutant of Dispatches: an image that is not wanted is left where it is.
DispatchesWanted(c) ==
  LET r == Current(c)
  IN  Goes(c, IF ReadsBody(r) /\ (r.kind = "image" => load.art) THEN "body" ELSE "handle")

\* The methods that read the body do, before anything else.
Dispatches(c) == Goes(c, IF ReadsBody(Current(c)) THEN "body" ELSE "handle")

\* open: the address is kept for the same source; the resolver can refuse.
Open(c) ==
  /\ ~crashed /\ pc[c] = "open" /\ Selects
  /\ Dispatches(c)
  /\ \/ /\ id = c
        /\ err' = FALSE
        /\ UNCHANGED <<id, resolving, address>>
     \/ /\ id # c
        /\ id' = c /\ address' = FALSE
        /\ resolving' \in BOOLEAN
        /\ resolving' \/ failures < load.failures
        /\ err' = ~resolving'
  /\ failures' = failures + IF err' THEN 1 ELSE 0
  /\ UNCHANGED <<load, next, wire, buffered, req, status, answers, raop, volume, calls,
                 connectedName, crc, http>>

\* Mutant of Resolved: the mode is set again when the source is found.
ResolvedSetsMode ==
  /\ ~crashed /\ Selects /\ resolving
  /\ address' = ~err
  /\ connectedName' = id
  /\ Calling("dacp", IF connectedName = id THEN <<>> ELSE <<"VolumeMode">>)
  /\ UNCHANGED <<load, connection, raop, volume, id, resolving, err, crc, http, failures>>

\* The source is found, and the sink told; an error of the command before, which
\* err still holds, throws the address away again.
Resolved ==
  /\ ~crashed /\ Selects /\ resolving
  /\ address' = ~err
  /\ connectedName' = id
  /\ Calling("dacp", IF connectedName = id THEN <<>> ELSE load.calls["Connected"])
  /\ UNCHANGED <<load, connection, raop, volume, id, resolving, err, crc, http, failures>>

TakeCommand ==
  /\ ~crashed /\ Selects /\ resolving /\ address /\ crc # <<>>
  /\ http' = Head(crc) /\ crc' = Tail(crc)
  /\ UNCHANGED <<load, connection, raop, volume, calls, id, resolving, address,
                 connectedName, err, failures>>

\* Mutant of HttpDone: a request that has failed leaves its caller without an answer.
HttpDoneSilently ==
  /\ ~crashed /\ http # None
  /\ http' = None
  /\ \E failed \in BOOLEAN :
       /\ failed => failures < load.failures
       /\ failures' = failures + IF failed THEN 1 ELSE 0
       /\ err' = failed /\ address' = ~failed
       /\ Calling(http, (IF failed THEN <<"lost">> ELSE <<>>) \o Tail(calls[http]))
  /\ UNCHANGED <<load, connection, raop, volume, id, resolving, connectedName, crc>>

\* The caller has its answer.  After an error the address is thrown away, a
\* status other than 200 is an error for the caller only; the volume handler
\* pokes from its first error on.
HttpDone ==
  /\ ~crashed /\ http # None
  /\ http' = None
  /\ \E outcome \in {"ok", "status", "failed"} :
       LET g == http
           bad == outcome # "ok"
           pokes == bad /\ First(g) = "setproperty"
       IN  /\ bad => failures < load.failures
           /\ failures' = failures + IF bad THEN 1 ELSE 0
           /\ err' = (outcome = "failed") /\ address' = ~err'
           /\ poke' = (poke \/ pokes)
           /\ \E more \in (IF pokes THEN Pokes ELSE {<<>>}) : Calling(g, more \o Tail(calls[g]))
  /\ UNCHANGED <<load, connection, raop, deviceVolumeChan, serviceVolumeChan, absoluteMode,
                 started, id, resolving, connectedName, crc>>

-----------------------------------------------------------------------------
Handle(c) ==
  \/ Refuse(c) \/ NotFound(c) \/ Accept(c) \/ Announce(c) \/ Setup(c) \/ SetupCloses(c)
  \/ GetParameter(c) \/ ReportVolume(c) \/ Notify(c) \/ Metadata(c)
  \/ Teardown(c) \/ TeardownCloses(c)
CallStep(g) == CallVolume(g) \/ CallCommand(g) \/ CallMode(g)

Next ==
  \/ \E c \in Connections :
       \/ Send(c) \/ Hangup(c)
       \/ ReadRequest(c) \/ Open(c) \/ ReadBody(c) \/ Handle(c) \/ Answer(c)
  \/ \E g \in Goroutines : CallStep(g)
  \/ TakeReport \/ TakeTarget
  \/ Resolved \/ TakeCommand \/ HttpDone

(***************************************************************************)
(* Goroutines run; the ones that wait for a channel or in a select get     *)
(* their turn when it is theirs again and again.  HTTP requests end.       *)
(* Sources, the network and the sink owe nothing.                          *)
(***************************************************************************)
ConnectionStep(c) ==
  ReadRequest(c) \/ Open(c) \/ ReadBody(c) \/ Handle(c) \/ Answer(c) \/ CallStep(c)
VolumeStep == TakeReport \/ TakeTarget \/ CallStep("volume")
DacpStep == TakeCommand \/ HttpDone \/ CallStep("dacp")
AppStep == CallStep("app")

Fairness ==
  /\ \A c \in Connections : SF_vars(ConnectionStep(c))
  /\ SF_vars(VolumeStep) /\ SF_vars(DacpStep) /\ SF_vars(AppStep)

Spec == Init /\ [][Next]_vars /\ Fairness

-----------------------------------------------------------------------------
TypeOK ==
  /\ load \in Loads
  /\ \A c \in Connections :
       /\ next[c] \in 0 .. Len(Sent(c)) /\ req[c] \in 0 .. next[c]
       /\ pc[c] \in {"read", "open", "body", "handle", "close", "teardown", "answer", "ended",
                     "garbled"}
       /\ pc[c] \notin {"read", "ended", "garbled"} => req[c] # 0
       /\ status[c] \in {None, "error", "content"}
       /\ \A i \in DOMAIN answers[c] : answers[c][i][1] <= req[c]
  /\ {announced, crashed} \subseteq BOOLEAN
  /\ sequencer \in {None, "runs", "stopped"} /\ fields \subseteq Fields
  /\ unopened \in 0 .. load.sockets
  /\ deviceVolumeChan \in 0 .. DeviceCap /\ serviceVolumeChan \in 0 .. DeviceCap
  /\ {absoluteMode, started, poke} \subseteq BOOLEAN
  /\ \A g \in Goroutines : \A i \in DOMAIN calls[g] : calls[g][i] \in Calls \union Commands
  /\ id \in Connections \union {None} /\ connectedName \in Connections \union {None}
  /\ {resolving, address, err} \subseteq BOOLEAN
  /\ Len(crc) <= CommandCap /\ IsInjective(crc)
  /\ \A i \in DOMAIN crc : First(crc[i]) \in Commands
  /\ http # None => First(http) \in Commands
  /\ failures <= load.failures

\* A source that sends bodies where they are read and only there, and that waits
\* for its answers.
Plain(l) ==
  /\ ~l.pipelined
  /\ \A c \in Connections : \A n \in DOMAIN l.script[c] :
       l.script[c][n].body = ReadsBody(l.script[c][n])

\* Requests that get a head of status 200 and nothing else.
Bare(l) ==
  /\ l.sockets = 0
  /\ \A c \in Connections : \A n \in DOMAIN l.script[c] :
       /\ Usable(l.script[c][n])
       /\ l.script[c][n].kind \notin {"UNKNOWN", "GET_PARAMETER"}

\* The answers a source gets are those to its requests, one for each and in their
\* order, although every request is read by a reader of its own that may have
\* taken more from the connection than it needs (rtsp.go:374).
AnswersInOrder ==
  Plain(load) /\ Bare(load) =>
    \A c \in Connections :
      /\ pc[c] # "garbled"
      /\ \A i \in DOMAIN answers[c] : answers[c][i] = <<i, None>>

\* Sessions are those of one source, which ends those it has begun.
Orderly(l) ==
  \E s \in Connections :
    /\ \A c \in Connections \ {s} : \A n \in DOMAIN l.script[c] :
         l.script[c][n].kind \notin {"SETUP", "TEARDOWN"}
    /\ LET kind(n) == l.script[s][n].kind
       IN  \A n \in DOMAIN l.script[s] : kind(n) = "TEARDOWN" =>
             \E m \in 1 .. n - 1 : /\ kind(m) = "SETUP" /\ Usable(l.script[s][m])
                                   /\ \A k \in m .. n - 1 : kind(k) # "TEARDOWN"

\* Every ANNOUNCE is made of records and has a key and a vector.
Keyed(l) ==
  \A c \in Connections : \A n \in DOMAIN l.script[c] :
    l.script[c][n].kind = "ANNOUNCE" => l.script[c][n].says # "no key"

\* Nothing of what it sends of a track has been lost.
Whole(song) == song.data = Data[song.tree]

\* Nothing that sources send in the order of the protocol, with the keys it needs,
\* uses a session that is not there or an entry that has no end, as long as the
\* connections of every session can be opened.  After one that could not a SETUP
\* asks a connection that is nil for its port (rtsp.go:240); nothing else panics
\* then either.
NoPanic ==
  Plain(load) /\ Orderly(load) /\ Keyed(load) /\ (Whole(load.song) \/ load.format = "")
    /\ crashed =>
      /\ unopened # 0
      /\ \E c \in Connections : pc[c] = "answer" /\ Current(c).kind = "SETUP"

\* What the sink is told of a track can be read, and says what the source has
\* said, for every shape of it, if every entry is one that fits the format: dmap.go
\* escapes nothing, and some values it prints are none of JSON or of XML.
MetadataIsWhole ==
  LET json == load.format = "json"
  IN  metadata # <<>> /\ Whole(load.song) /\ AllFit(json, load.song.tree) =>
        Readable(json, metadata) /\ Tells(json, metadata, load.song.tree)

\* A sink that only sends commands from SetVolume, and from Connected calls nothing.
Patient(l) ==
  /\ l.calls["Connected"] = <<>>
  /\ \A i \in DOMAIN l.calls["SetVolume"] : l.calls["SetVolume"][i] = "Command"

WaitsFor(g, h) ==
  \/ /\ h = "volume"
     /\ \/ First(g) = "Volume" /\ serviceVolumeChan = DeviceCap
        \/ First(g) = "VolumeMode" /\ ~Free("volume")
        \/ /\ g \in Connections /\ pc[g] = "handle" /\ Current(g).kind = "volume"
           /\ deviceVolumeChan = DeviceCap
  \/ /\ h = "dacp"
     /\ \/ First(g) \in Commands
        \/ g \in Connections /\ pc[g] = "open" /\ ~Selects

\* Callbacks of one goroutine wait for another, but never in a circle: the sink may
\* call its Source from all callbacks other than these two.
NoCircularWait ==
  Patient(load) =>
    \A group \in SUBSET Goroutines :
      (\A g \in group : \E h \in group : WaitsFor(g, h)) => group = {}

AllDone ==
  /\ \A g \in Goroutines : Free(g)
  /\ \A c \in Connections : pc[c] \in {"read", "ended"} /\ req[c] = next[c]

\* When the source that is looked for is found again and again, and one has said
\* its volume, all calls of the sink return and all requests are answered,
\* however small the channels are and whichever commands fail; not so once a SETUP
\* has stopped the sequencer, for which the next TEARDOWN waits.
EveryCallReturns ==
  Plain(load) /\ Orderly(load) /\ Keyed(load) /\ Whole(load.song) /\ Patient(load)
    /\ load.sockets = 0 =>
    ([]<>address /\ <>started => <>[]AllDone)

\* The response writer of the tests writes one head, and the default one only if
\* there is none yet (rtsp_test.go:142).
OneAnswerEach ==
  \A c \in Connections : \A i, j \in DOMAIN answers[c] :
    answers[c][i][1] = answers[c][j][1] => i = j
=============================================================================
