---------------------------- MODULE ControlProofs ----------------------------
(***************************************************************************)
(* Proofs about the goroutines around a sink, for any number of            *)
(* connections, any capacities, scripts, sinks and songs:                  *)
(*   - they never wait for each other in a circle, for sinks that call     *)
(*     nothing from Connected and only Command from SetVolume;             *)
(*   - the variables have their types, for sources that pipeline too;      *)
(*   - plain sources get one answer to each request, in their order;       *)
(*   - sessions do not panic.                                              *)
(***************************************************************************)
EXTENDS Control, DmapProofs, SequenceTheorems, TLAPS

AllCalls == Calls \union Commands

\* Where the goroutine of a connection can be; in a callback in the last two.
Places == {"read", "open", "body", "handle", "close", "ended", "garbled", "teardown", "answer"}

\* What the goroutines are in are lists of calls; all but the volume handler's are
\* those of the sink.
CallsType ==
  /\ load \in Loads
  /\ pc \in [Connections -> Places]
  /\ calls \in [Goroutines -> Seq(AllCalls)]
  /\ \A g \in Goroutines \ {"volume"} : calls[g] \in Seq(Calls)
  /\ crc \in Seq(Goroutines)
  /\ http \in Goroutines \union {None}

\* Who waits for the answer to a command is in the call of it, and waits once.
Waiting ==
  /\ \A i \in 1 .. Len(crc) : First(crc[i]) \in Commands /\ crc[i] # http
  /\ \A i, j \in 1 .. Len(crc) : crc[i] = crc[j] => i = j
  /\ http # None => First(http) \in Commands

\* A connection is in a callback only after its request has been handled.
Idle == \A c \in Connections : pc[c] \notin {"teardown", "answer"} => Free(c)

\* The DACP goroutine calls nothing, and the volume handler only sends commands.
Levels == Patient(load) => Free("dacp") /\ calls["volume"] \in Seq(Commands)

WaitInv == CallsType /\ Waiting /\ Idle /\ Levels

-----------------------------------------------------------------------------
\* Nobody waits in a circle where the goroutines keep to their levels.
LEMMA LevelsSuffice == WaitInv => NoCircularWait
<1>. SUFFICES ASSUME WaitInv, Patient(load), NEW group \in SUBSET Goroutines,
                     \A g \in group : \E h \in group : WaitsFor(g, h)
              PROVE  group = {}
  BY DEF NoCircularWait
<1>1. "dacp" \notin Connections /\ "volume" \notin Connections
  BY ControlAssumption
<1>2. \A h : ~WaitsFor("dacp", h)
  BY <1>1 DEF WaitInv, Levels, Free, WaitsFor, First, None, Commands
<1>3. "dacp" \notin group
  BY <1>2
<1>4. First("volume") \in Commands \union {None}
  BY DEF WaitInv, Levels, First
<1>5. \A h : WaitsFor("volume", h) => h = "dacp"
  BY <1>1, <1>4 DEF WaitsFor, None, Commands
<1>6. "volume" \notin group
  BY <1>3, <1>5
<1>7. \A g, h : WaitsFor(g, h) => h \in {"volume", "dacp"}
  BY DEF WaitsFor
<1>. QED  BY <1>3, <1>6, <1>7

\* The goroutines are different ones.
LEMMA Names ==
  /\ {"volume", "dacp", "app"} \intersect Connections = {} /\ None \notin Goroutines
  /\ {"volume", "dacp", "app"} \union Connections = Goroutines
BY ControlAssumption DEF Goroutines, None

\* The sink's calls are calls, from every callback.
LEMMA CallsOfTheSink ==
  ASSUME CallsType, NEW cb \in Callbacks
  PROVE  load.calls[cb] \in Seq(Calls)
BY ControlAssumption DEF CallsType

\* A list of one kind of calls is a list of calls.
LEMMA Widen ==
  /\ \A s \in Seq(Calls) : s \in Seq(AllCalls)
  /\ \A s \in Seq(Commands) : s \in Seq(AllCalls)
BY SeqMonotonic DEF AllCalls

\* Whose calls change, and first was not a command, did not wait for one.
LEMMA Changes ==
  ASSUME WaitInv, UNCHANGED <<crc, http>>, calls' \in [Goroutines -> Seq(AllCalls)],
         \A g \in Goroutines : calls'[g] = calls[g] \/ First(g) \notin Commands
  PROVE  Waiting'
<1>1. \A g \in Goroutines : First(g) \in Commands => First(g)' = First(g)
  BY DEF First, WaitInv, CallsType
<1>2. \A i \in 1 .. Len(crc) : crc[i] \in Goroutines
  BY ElementOfSeq DEF WaitInv, CallsType
<1>. QED  BY <1>1, <1>2 DEF WaitInv, Waiting, CallsType

\* A goroutine that is in no call begins some.
LEMMA Begins ==
  ASSUME WaitInv, NEW g \in Goroutines, Free(g), NEW list \in Seq(AllCalls),
         g # "volume" => list \in Seq(Calls),
         Patient(load) /\ g = "dacp" => list = <<>>,
         Patient(load) /\ g = "volume" => list \in Seq(Commands),
         calls' = [calls EXCEPT ![g] = list],
         pc' \in [Connections -> Places],
         UNCHANGED <<load, crc, http>>
  PROVE  CallsType' /\ Waiting' /\ Levels'
<1>1. First(g) \notin Commands
  BY DEF Free, First, None, Commands
<1>2. CallsType'
  BY DEF WaitInv, CallsType
<1>3. Waiting'
  BY <1>1, <1>2, Changes DEF WaitInv, CallsType
<1>4. Levels'
  BY Names DEF WaitInv, Levels, CallsType, Free, Patient
<1>. QED  BY <1>2, <1>3, <1>4

\* What remains of the calls of a goroutine after its first.
LEMMA Remains ==
  ASSUME WaitInv, NEW g \in Goroutines, ~Free(g)
  PROVE  /\ First(g) = Head(calls[g])
         /\ Tail(calls[g]) \in Seq(AllCalls)
         /\ g # "volume" => First(g) \in Calls /\ Tail(calls[g]) \in Seq(Calls)
         /\ Patient(load) =>
              /\ g # "dacp"
              /\ g = "volume" => First(g) \in Commands /\ Tail(calls[g]) \in Seq(Commands)
<1>1. First(g) = Head(calls[g]) /\ calls[g] # <<>>
  BY DEF Free, First
<1>2. Tail(calls[g]) \in Seq(AllCalls)
  BY <1>1, HeadTailProperties DEF WaitInv, CallsType
<1>3. g # "volume" => First(g) \in Calls /\ Tail(calls[g]) \in Seq(Calls)
  BY <1>1, HeadTailProperties DEF WaitInv, CallsType
<1>4. Patient(load) =>
        /\ g # "dacp"
        /\ g = "volume" => First(g) \in Commands /\ Tail(calls[g]) \in Seq(Commands)
  BY <1>1, HeadTailProperties DEF WaitInv, Levels, Free
<1>. QED  BY <1>1, <1>2, <1>3, <1>4

\* A goroutine returns from a call that is not a command; the handler may be
\* given commands meanwhile.
LEMMA Returns ==
  ASSUME WaitInv, NEW g \in Goroutines, First(g) \in {"Volume", "VolumeMode"},
         NEW sends \in Seq(Commands),
         \/ calls' = [calls EXCEPT ![g] = Tail(@)]
         \/ Free("volume") /\ calls' = [calls EXCEPT ![g] = Tail(@), !["volume"] = sends],
         UNCHANGED <<load, pc, crc, http>>
  PROVE  WaitInv'
<1>1. ~Free(g) /\ First(g) \notin Commands
  BY DEF First, None, Commands, Free
<1>2. sends \in Seq(AllCalls)
  BY Widen
<1>3. "volume" \in Goroutines /\ "dacp" \in Goroutines
  BY Names
<1>4. calls' \in [Goroutines -> Seq(AllCalls)]
  BY <1>1, <1>2, <1>3, Remains DEF WaitInv, CallsType
<1>5. CallsType'
  BY <1>1, <1>3, <1>4, Remains DEF WaitInv, CallsType
<1>6. Free("volume") => First("volume") \notin Commands
  BY DEF First, Free, None, Commands
<1>7. Waiting'
  BY <1>1, <1>3, <1>4, <1>6, Changes DEF WaitInv, CallsType
<1>8. \A h \in Goroutines \ {"volume"} : Free(h) => Free(h)'
  BY <1>1, <1>3 DEF WaitInv, CallsType, Free
<1>9. Idle'
  BY <1>8, Names DEF WaitInv, Idle
<1>10. Levels'
  BY <1>1, <1>3, <1>8, Remains DEF WaitInv, CallsType, Levels, Patient
<1>. QED  BY <1>5, <1>7, <1>9, <1>10 DEF WaitInv

\* Nothing changes for who waits.
LEMMA Unmoved ==
  ASSUME WaitInv, UNCHANGED <<load, pc, calls, crc, http>>
  PROVE  WaitInv'
<1>1. CallsType' /\ Waiting'
  BY DEF WaitInv, CallsType, Waiting, First
<1>2. Idle' /\ Levels'
  BY DEF WaitInv, Idle, Levels, Patient, Free
<1>. QED  BY <1>1, <1>2 DEF WaitInv

\* A connection goes on where nobody's calls change.
LEMMA Moves ==
  ASSUME WaitInv, NEW c \in Connections,
         NEW to \in {"read", "open", "body", "handle", "close", "answer", "ended", "garbled"},
         pc[c] \in {"teardown", "answer"} => Free(c),
         Goes(c, to), UNCHANGED <<load, calls, crc, http>>
  PROVE  WaitInv'
<1>1. CallsType'
  BY DEF Places, WaitInv, CallsType, Goes
<1>2. Waiting'
  BY DEF WaitInv, Waiting, First
<1>3. Idle'
  BY DEF WaitInv, CallsType, Idle, Free, Goes
<1>4. Levels'
  BY DEF WaitInv, Levels, Patient, Free
<1>. QED  BY <1>1, <1>2, <1>3, <1>4 DEF WaitInv

\* A connection calls the sink, and is where it waits for the callback.
LEMMA CallsBack ==
  ASSUME WaitInv, NEW c \in Connections, pc[c] = "handle", NEW list \in Seq(Calls),
         NEW to \in {"teardown", "answer"},
         Calling(c, list), Goes(c, to), UNCHANGED <<load, crc, http>>
  PROVE  WaitInv'
<1>1. Free(c)
  BY DEF WaitInv, Idle
<1>2. list \in Seq(AllCalls)
  BY Widen
<1>3. c \in Goroutines /\ c # "dacp" /\ c # "volume"
  BY Names
<1>4. pc' \in [Connections -> Places]
  BY DEF Goes, WaitInv, CallsType, Places
<1>5. CallsType' /\ Waiting' /\ Levels'
  BY <1>1, <1>2, <1>3, <1>4, Begins DEF Calling
<1>6. Idle'
  BY <1>3 DEF WaitInv, CallsType, Idle, Free, Calling, Goes
<1>. QED  BY <1>5, <1>6 DEF WaitInv

\* The volume handler or the DACP goroutine leaves its select.
LEMMA Turns ==
  ASSUME WaitInv, NEW g \in {"volume", "dacp"}, Free(g), NEW list \in Seq(AllCalls),
         g # "volume" => list \in Seq(Calls),
         Patient(load) /\ g = "dacp" => list = <<>>,
         Patient(load) /\ g = "volume" => list \in Seq(Commands),
         Calling(g, list), UNCHANGED <<load, pc, crc, http>>
  PROVE  WaitInv'
<1>1. g \in Goroutines /\ g \notin Connections
  BY Names
<1>2. CallsType' /\ Waiting' /\ Levels'
  <2>. pc' \in [Connections -> Places]
    BY DEF WaitInv, CallsType
  <2>. QED  BY <1>1, Begins DEF Calling
<1>3. Idle'
  BY <1>1, Names DEF WaitInv, CallsType, Idle, Free, Calling
<1>. QED  BY <1>2, <1>3 DEF WaitInv

\* What the handler sends are commands.
LEMMA PokesSend == Pokes \union {<<>>} \subseteq Seq(Commands)
<1>1. <<"updown">> \in Seq(Commands)
  BY DEF Commands
<1>2. <<>> \in Seq(Commands)
  OBVIOUS
<1>. QED  BY <1>1, <1>2 DEF Pokes

\* What a change of the volume sends is commands.
LEMMA VolChangeSends == VolChange \union {<<>>} \subseteq Seq(Commands)
<1>1. <<"setproperty">> \in Seq(Commands)
  BY DEF Commands
<1>. QED  BY <1>1, PokesSend DEF VolChange

\* A list of calls that are all commands is a list of commands.
LEMMA OnlyCommands ==
  ASSUME NEW s \in Seq(Calls), \A i \in DOMAIN s : s[i] = "Command"
  PROVE  s \in Seq(Commands)
BY SeqDef DEF Commands

-----------------------------------------------------------------------------
\* Everybody begins where nobody waits.
LEMMA InitWaits == Init => WaitInv
<1>. SUFFICES ASSUME Init
              PROVE  WaitInv
  OBVIOUS
<1>1. calls = [g \in Goroutines |-> IF g = "app" THEN load.app ELSE <<>>]
      /\ load \in Loads /\ crc = <<>> /\ http = None
      /\ pc = [c \in Connections |-> "read"]
  BY DEF Init
<1>2. load.app \in Seq(Calls) /\ load.app \in Seq(AllCalls)
  BY <1>1, ControlAssumption, Widen
<1>3. CallsType
  BY <1>1, <1>2 DEF CallsType, Places
<1>4. Waiting
  BY <1>1 DEF Waiting
<1>5. Idle
  BY <1>1, Names DEF Idle, Free
<1>6. Levels
  BY <1>1, Names DEF Levels, Free
<1>. QED  BY <1>3, <1>4, <1>5, <1>6 DEF WaitInv

\* What a connection does between two callbacks.
LEMMA ConnectionWaits ==
  ASSUME WaitInv, NEW c \in Connections,
         \/ Send(c) \/ Hangup(c) \/ ReadRequest(c) \/ Open(c) \/ ReadBody(c)
         \/ Handle(c) \/ Answer(c)
  PROVE  WaitInv'
<1>1. CASE Send(c)
  <2>1. pc' = pc /\ UNCHANGED <<load, calls, crc, http>>
    BY <1>1 DEF Send, dacp
  <2>. QED  BY <1>1, <2>1, Unmoved
<1>2. CASE Hangup(c)
  <2>1. pc[c] \in {"read", "body"} /\ UNCHANGED <<load, calls, crc, http>>
    BY <1>2 DEF Hangup, dacp
  <2>2. Goes(c, "ended") \/ Goes(c, "handle")
    BY <1>2 DEF Hangup
  <2>. QED  BY <2>1, <2>2, Moves
<1>3. CASE ReadRequest(c)
  <2>1. pc[c] = "read" /\ UNCHANGED <<load, calls, crc, http>>
    BY <1>3 DEF ReadRequest, dacp
  <2>2. Goes(c, "open") \/ Goes(c, "garbled")
    BY <1>3 DEF ReadRequest
  <2>. QED  BY <2>1, <2>2, Moves
<1>4. CASE Open(c)
  <2>1. pc[c] = "open" /\ UNCHANGED <<load, calls, crc, http>>
    BY <1>4 DEF Open
  <2>2. Goes(c, "body") \/ Goes(c, "handle")
    BY <1>4 DEF Open, Dispatches
  <2>. QED  BY <2>1, <2>2, Moves
<1>5. CASE ReadBody(c)
  <2>1. pc[c] = "body" /\ UNCHANGED <<load, calls, crc, http>>
    BY <1>5 DEF ReadBody, dacp
  <2>2. Goes(c, "handle") \/ pc' = pc
    BY <1>5 DEF ReadBody
  <2>. QED  BY <2>1, <2>2, Moves, Unmoved
<1>6. CASE Refuse(c) \/ NotFound(c) \/ Accept(c) \/ Announce(c) \/ Setup(c) \/ SetupCloses(c)
           \/ GetParameter(c)
  <2>1. pc[c] \in {"handle", "close"} /\ UNCHANGED <<load, calls, crc, http>>
    BY <1>6 DEF Refuse, NotFound, Accept, Announce, Setup, SetupCloses, GetParameter, Handles,
                Keeps, dacp
  <2>2. Goes(c, "answer") \/ Goes(c, "close")
    BY <1>6 DEF Refuse, NotFound, Accept, Announce, Setup, SetupCloses, GetParameter, Done
  <2>. QED  BY <2>1, <2>2, Moves
<1>7. CASE ReportVolume(c)
  <2>1. pc[c] = "handle" /\ UNCHANGED <<load, calls, crc, http>>
    BY <1>7 DEF ReportVolume, Handles, dacp
  <2>2. Goes(c, "answer")
    BY <1>7 DEF ReportVolume, Done
  <2>. QED  BY <2>1, <2>2, Moves
<1>8. CASE Notify(c)
  <2>. DEFINE kind == Current(c).kind
  <2>1. kind \in {"RECORD", "PAUSE", "image", "progress"} /\ pc[c] = "handle"
    BY <1>8 DEF Notify, Handles
  <2>2. Callback(kind) \in Callbacks
    BY <2>1 DEF Callback, Callbacks
  <2>3. load.calls[Callback(kind)] \in Seq(Calls) /\ <<>> \in Seq(Calls)
    BY <2>2, CallsOfTheSink DEF WaitInv
  <2>4. \E list \in Seq(Calls) : Calling(c, list)
    BY <1>8, <2>3 DEF Notify
  <2>5. UNCHANGED <<load, crc, http>> /\ Goes(c, "answer")
    BY <1>8 DEF Notify, Keeps, dacp, Done
  <2>. QED  BY <2>1, <2>4, <2>5, CallsBack
<1>9. CASE Metadata(c)
  <2>1. "SetMetadata" \in Callbacks
    BY DEF Callbacks
  <2>2. load.calls["SetMetadata"] \in Seq(Calls) /\ <<>> \in Seq(Calls)
    BY <2>1, CallsOfTheSink DEF WaitInv
  <2>3. \E list \in Seq(Calls) : Calling(c, list)
    BY <1>9, <2>2 DEF Metadata
  <2>4. pc[c] = "handle" /\ UNCHANGED <<load, crc, http>> /\ Goes(c, "answer")
    BY <1>9 DEF Metadata, Keeps, dacp, Handles, Done
  <2>. QED  BY <2>3, <2>4, CallsBack
<1>10. CASE Teardown(c)
  <2>1. "Stopped" \in Callbacks
    BY DEF Callbacks
  <2>2. load.calls["Stopped"] \in Seq(Calls)
    BY <2>1, CallsOfTheSink DEF WaitInv
  <2>. QED  BY <1>10, <2>2, CallsBack DEF Teardown, Handles, Keeps, dacp
<1>11. CASE TeardownCloses(c)
  <2>1. Free(c) /\ UNCHANGED <<load, calls, crc, http>>
    BY <1>11 DEF TeardownCloses, Keeps, dacp, Free
  <2>2. Goes(c, "answer")
    BY <1>11 DEF TeardownCloses, Done
  <2>. QED  BY <2>1, <2>2, Moves
<1>12. CASE Answer(c)
  <2>1. Free(c) /\ UNCHANGED <<load, calls, crc, http>>
    BY <1>12 DEF Answer, dacp, Free
  <2>2. Goes(c, "read")
    BY <1>12 DEF Answer
  <2>. QED  BY <2>1, <2>2, Moves
<1>. QED
  BY <1>1, <1>2, <1>3, <1>4, <1>5, <1>6, <1>7, <1>8, <1>9, <1>10, <1>11, <1>12 DEF Handle

\* A call of the sink or of the handler.
LEMMA CallWaits ==
  ASSUME WaitInv, NEW g \in Goroutines, CallStep(g)
  PROVE  WaitInv'
<1>0. <<>> \in Seq(Commands)
  OBVIOUS
<1>1. CASE CallVolume(g)
  <2>1. First(g) = "Volume" /\ calls' = [calls EXCEPT ![g] = Tail(@)]
        /\ UNCHANGED <<load, pc, crc, http>>
    BY <1>1 DEF CallVolume, Calling, connection, dacp
  <2>. QED  BY <1>0, <2>1, Returns
<1>2. CASE CallMode(g)
  <2>1. First(g) = "VolumeMode" /\ Free("volume") /\ UNCHANGED <<load, pc, crc, http>>
    BY <1>2 DEF CallMode, connection, dacp
  <2>2. \E sends \in VolChange \union {<<>>} :
          calls' = [calls EXCEPT ![g] = Tail(@), !["volume"] = sends]
    BY <1>2 DEF CallMode
  <2>3. VolChange \union {<<>>} \subseteq Seq(Commands)
    BY VolChangeSends, <1>0
  <2>. QED  BY <2>1, <2>2, <2>3, Returns
<1>3. CASE CallCommand(g)
  <2>1. First(g) \in Commands /\ ~Queued(g) /\ crc' = Append(crc, g)
        /\ UNCHANGED <<load, pc, calls, http>>
    BY <1>3 DEF CallCommand, connection
  <2>2. \A i \in 1 .. Len(crc) : crc[i] \in Goroutines /\ crc[i] # g
    BY <2>1, ElementOfSeq DEF WaitInv, CallsType, Queued, Contains
  <2>3. /\ crc' \in Seq(Goroutines) /\ Len(crc) \in Nat /\ Len(crc') = Len(crc) + 1
        /\ \A i \in 1 .. Len(crc) : crc'[i] = crc[i]
        /\ crc'[Len(crc) + 1] = g
    BY <2>1, AppendProperties, LenProperties DEF WaitInv, CallsType
  <2>4. CallsType'
    BY <2>1, <2>3 DEF WaitInv, CallsType
  <2>5. \A i \in 1 .. Len(crc') : i \in 1 .. Len(crc) \/ i = Len(crc) + 1
    BY <2>3
  <2>6. http # g
    BY <2>1 DEF Queued
  <2>7. Waiting'
    BY <2>1, <2>2, <2>3, <2>5, <2>6 DEF WaitInv, Waiting, First
  <2>8. Idle' /\ Levels'
    BY <2>1 DEF WaitInv, Idle, Levels, Patient, Free
  <2>. QED  BY <2>4, <2>7, <2>8 DEF WaitInv
<1>. QED  BY <1>1, <1>2, <1>3 DEF CallStep

\* The volume handler takes a volume.
LEMMA HandlerWaits ==
  ASSUME WaitInv, TakeReport \/ TakeTarget
  PROVE  WaitInv'
<1>1. VolChange \union {<<>>} \subseteq Seq(Commands)
  BY VolChangeSends
<1>2. CASE TakeReport
  <2>1. "SetVolume" \in Callbacks
    BY DEF Callbacks
  <2>2. load.calls["SetVolume"] \in Seq(Calls)
    BY <2>1, CallsOfTheSink DEF WaitInv
  <2>3. Patient(load) => load.calls["SetVolume"] \in Seq(Commands)
    BY <2>2, OnlyCommands DEF Patient
  <2>4. PICK sends \in VolChange : \E list \in Reactions(sends) : Calling("volume", list)
    BY <1>2 DEF TakeReport
  <2>. PICK list \in Reactions(sends) : Calling("volume", list)
    BY <2>4
  <2>5. list \in {load.calls["SetVolume"], sends, <<>>, load.calls["SetVolume"] \o sends}
    BY <2>4 DEF Reactions
  <2>6. load.calls["SetVolume"] \in Seq(AllCalls) /\ sends \in Seq(AllCalls)
        /\ sends \in Seq(Commands) /\ <<>> \in Seq(AllCalls) /\ <<>> \in Seq(Commands)
    BY <1>1, <2>2, Widen
  <2>7. list \in Seq(AllCalls) /\ (Patient(load) => list \in Seq(Commands))
    BY <2>3, <2>5, <2>6, ConcatProperties
  <2>8. Free("volume") /\ UNCHANGED <<load, pc, crc, http>>
    BY <1>2 DEF TakeReport, connection, dacp
  <2>. QED  BY <2>4, <2>7, <2>8, Turns
<1>3. CASE TakeTarget
  <2>1. PICK list \in VolChange \union {<<>>} : Calling("volume", list)
    BY <1>3 DEF TakeTarget
  <2>2. list \in Seq(Commands) /\ list \in Seq(AllCalls)
    BY <1>1, Widen
  <2>3. Free("volume") /\ UNCHANGED <<load, pc, crc, http>>
    BY <1>3 DEF TakeTarget, connection, dacp
  <2>. QED  BY <2>1, <2>2, <2>3, Turns
<1>. QED  BY <1>2, <1>3

\* The DACP goroutine finds a source, takes a command, or answers one.
LEMMA DacpWaits ==
  ASSUME WaitInv, Resolved \/ TakeCommand \/ HttpDone
  PROVE  WaitInv'
<1>1. CASE Resolved
  <2>1. "Connected" \in Callbacks
    BY DEF Callbacks
  <2>2. load.calls["Connected"] \in Seq(Calls) /\ <<>> \in Seq(Calls)
    BY <2>1, CallsOfTheSink DEF WaitInv
  <2>3. PICK list \in {<<>>, load.calls["Connected"]} : Calling("dacp", list)
    BY <1>1 DEF Resolved
  <2>4. list \in Seq(Calls) /\ list \in Seq(AllCalls) /\ (Patient(load) => list = <<>>)
    BY <2>2, <2>3, Widen DEF Patient
  <2>5. Free("dacp") /\ UNCHANGED <<load, pc, crc, http>>
    BY <1>1 DEF Resolved, Selects, connection
  <2>. QED  BY <2>3, <2>4, <2>5, Turns
<1>2. CASE TakeCommand
  <2>1. crc # <<>> /\ http' = Head(crc) /\ crc' = Tail(crc)
        /\ UNCHANGED <<load, pc, calls>>
    BY <1>2 DEF TakeCommand, connection
  <2>2. /\ http' \in Goroutines /\ crc' \in Seq(Goroutines)
        /\ Len(crc) \in Nat /\ Len(crc') = Len(crc) - 1
        /\ \A i \in 1 .. Len(crc') : crc'[i] = crc[i + 1]
    BY <2>1, HeadTailProperties, LenProperties DEF WaitInv, CallsType
  <2>3. http' = crc[1] /\ 1 \in 1 .. Len(crc)
    BY <2>1, EmptySeq DEF WaitInv, CallsType
  <2>4. CallsType'
    BY <2>1, <2>2 DEF WaitInv, CallsType
  <2>5. \A i \in 1 .. Len(crc') : i + 1 \in 1 .. Len(crc) /\ i + 1 # 1
    BY <2>2
  <2>6. Waiting'
    BY <2>1, <2>2, <2>3, <2>5 DEF WaitInv, Waiting, First
  <2>7. Idle' /\ Levels'
    BY <2>1 DEF WaitInv, Idle, Levels, Patient, Free
  <2>. QED  BY <2>4, <2>6, <2>7 DEF WaitInv
<1>3. CASE HttpDone
  <2>1. http # None /\ http' = None /\ UNCHANGED <<load, pc, crc>>
    BY <1>3 DEF HttpDone, connection
  <2>2. http \in Goroutines /\ First(http) \in Commands
    BY <2>1 DEF WaitInv, CallsType, Waiting
  <2>3. ~Free(http)
    BY <2>2 DEF First, Free, None, Commands
  <2>4. PICK more \in Pokes \union {<<>>} :
          /\ calls' = [calls EXCEPT ![http] = more \o Tail(@)]
          /\ First(http) # "setproperty" => more = <<>>
    BY <1>3 DEF HttpDone, Calling
  <2>5. more \in Seq(Commands) /\ more \in Seq(AllCalls)
    BY PokesSend, Widen
  <2>6. http # "volume" => more = <<>>
    BY <2>2, <2>3, <2>4, Remains DEF Calls
  <2>. DEFINE list == more \o Tail(calls[http])
  <2>7. list \in Seq(AllCalls)
    BY <2>2, <2>3, <2>5, Remains, ConcatProperties
  <2>8. http # "volume" => list = Tail(calls[http]) /\ list \in Seq(Calls)
    BY <2>2, <2>3, <2>6, Remains, ConcatEmptySeq
  <2>9. Patient(load) /\ http = "volume" => list \in Seq(Commands)
    BY <2>2, <2>3, <2>5, Remains, ConcatProperties
  <2>10. Patient(load) => http # "dacp"
    BY <2>2, <2>3, Remains
  <2>. HIDE DEF list
  <2>11. calls' = [calls EXCEPT ![http] = list]
    BY <2>4 DEF list
  <2>12. CallsType'
    BY <2>1, <2>2, <2>7, <2>8, <2>11 DEF WaitInv, CallsType
  <2>13. \A i \in 1 .. Len(crc) : crc[i] \in Goroutines /\ crc[i] # http
    BY ElementOfSeq DEF WaitInv, CallsType, Waiting
  <2>14. \A g \in Goroutines \ {http} : First(g)' = First(g)
    BY <2>11 DEF First, WaitInv, CallsType
  <2>15. \A g \in Goroutines : g \notin {http, None}
                                 => First(g)' = First(g)
    BY <2>14
  <2>16. Waiting'
    BY <2>1, <2>13, <2>15, Names DEF WaitInv, Waiting
  <2>17. \A c \in Connections : Free(c) => Free(c)'
    BY <2>3, <2>11, Names DEF WaitInv, CallsType, Free
  <2>18. Idle'
    BY <2>1, <2>17 DEF WaitInv, Idle
  <2>19. Levels'
    BY <2>1, <2>2, <2>9, <2>10, <2>11, Names DEF WaitInv, CallsType, Levels, Patient, Free
  <2>. QED  BY <2>12, <2>16, <2>18, <2>19 DEF WaitInv
<1>. QED  BY <1>1, <1>2, <1>3

\* Every step keeps it so.
LEMMA WaitStep == WaitInv /\ [Next]_vars => WaitInv'
<1>. SUFFICES ASSUME WaitInv, [Next]_vars
              PROVE  WaitInv'
  OBVIOUS
<1>1. CASE \E c \in Connections :
             \/ Send(c) \/ Hangup(c)
             \/ ReadRequest(c) \/ Open(c) \/ ReadBody(c) \/ Handle(c) \/ Answer(c)
  BY <1>1, ConnectionWaits
<1>2. CASE \E g \in Goroutines : CallStep(g)
  BY <1>2, CallWaits
<1>3. CASE TakeReport \/ TakeTarget
  BY <1>3, HandlerWaits
<1>4. CASE Resolved \/ TakeCommand \/ HttpDone
  BY <1>4, DacpWaits
<1>5. CASE UNCHANGED vars
  BY <1>5, Unmoved DEF vars, connection, dacp
<1>. QED  BY <1>1, <1>2, <1>3, <1>4, <1>5 DEF Next

\* No goroutine waits for one that waits for it, with or without others between
\* them, at any time and for any number of sources (Spec => []NoCircularWait).
THEOREM NeverInACircle == Spec => []NoCircularWait
<1>. QED  BY WaitStep, InitWaits, LevelsSuffice, PTL DEF Spec

-----------------------------------------------------------------------------
(***************************************************************************)
(* The types.  That the present request is one the source has sent, and    *)
(* every answer one to a request that has been read, rests on the order of *)
(* what is on the connection, for sources that pipeline too.               *)
(***************************************************************************)
Items == Nat \X {"head", "body"}
Written == {None, "error", "content"}
Busy == {"open", "body", "handle", "close", "teardown", "answer"}

ConnectionTypes ==
  /\ next \in [Connections -> Nat] /\ req \in [Connections -> Nat]
  /\ wire \in [Connections -> Seq(Items)] /\ buffered \in [Connections -> Seq(Items)]
  /\ status \in [Connections -> Written]
  /\ answers \in [Connections -> Seq(Nat \X Written)]

\* Requests are read in the order in which they have been sent.
Arrived(c) ==
  /\ next[c] <= Len(Sent(c)) /\ req[c] <= next[c]
  /\ \A i \in 1 .. Len(wire[c]) :
       wire[c][i][1] # 0 /\ req[c] <= wire[c][i][1] /\ wire[c][i][1] <= next[c]
  /\ \A i, j \in 1 .. Len(wire[c]) : i <= j => wire[c][i][1] <= wire[c][j][1]
  /\ pc[c] \in Busy => req[c] # 0
  /\ \A i \in 1 .. Len(answers[c]) : answers[c][i][1] <= req[c]

Arrival == ConnectionTypes /\ \A c \in Connections : Arrived(c)

\* What is not of a connection.
SharedTypes ==
  /\ announced \in BOOLEAN /\ sequencer \in {None, "runs", "stopped"}
  /\ fields \in SUBSET Fields
  /\ unopened \in Nat /\ unopened <= load.sockets
  /\ crashed \in BOOLEAN
  /\ deviceVolumeChan \in 0 .. DeviceCap /\ serviceVolumeChan \in 0 .. DeviceCap
  /\ absoluteMode \in BOOLEAN /\ started \in BOOLEAN /\ poke \in BOOLEAN
  /\ id \in Connections \union {None} /\ connectedName \in Connections \union {None}
  /\ resolving \in BOOLEAN /\ address \in BOOLEAN /\ err \in BOOLEAN
  /\ Len(crc) <= CommandCap
  /\ failures \in Nat /\ failures <= load.failures

\* The types of the module, in the terms of the parts.
LEMMA TypesSuffice == WaitInv /\ Arrival /\ SharedTypes => TypeOK
<1>. SUFFICES ASSUME WaitInv, Arrival, SharedTypes
              PROVE  TypeOK
  OBVIOUS
<1>1. ASSUME NEW c \in Connections
      PROVE  /\ next[c] \in 0 .. Len(Sent(c)) /\ req[c] \in 0 .. next[c]
             /\ pc[c] \in {"read", "open", "body", "handle", "close", "teardown", "answer",
                           "ended", "garbled"}
             /\ pc[c] \notin {"read", "ended", "garbled"} => req[c] # 0
             /\ status[c] \in {None, "error", "content"}
             /\ \A i \in DOMAIN answers[c] : answers[c][i][1] <= req[c]
  <2>1. load.script[c] \in Seq(Request)
    BY ControlAssumption DEF WaitInv, CallsType
  <2>2. Len(Sent(c)) \in Nat
    BY <2>1 DEF Sent
  <2>3. DOMAIN answers[c] = 1 .. Len(answers[c])
    BY DEF Arrival, ConnectionTypes
  <2>4. pc[c] \in Places /\ status[c] \in Written /\ next[c] \in Nat /\ req[c] \in Nat
    BY DEF WaitInv, CallsType, Arrival, ConnectionTypes
  <2>. QED  BY <2>2, <2>3, <2>4 DEF Arrival, Arrived, Busy, Places, Written
<1>2. ASSUME NEW g \in Goroutines
      PROVE  \A i \in DOMAIN calls[g] : calls[g][i] \in Calls \union Commands
  <2>1. calls[g] \in Seq(AllCalls)
    BY DEF WaitInv, CallsType
  <2>. QED  BY <2>1, ElementOfSeq DEF AllCalls
<1>3. DOMAIN crc = 1 .. Len(crc)
  BY DEF WaitInv, CallsType
<1>4. IsInjective(crc) /\ \A i \in DOMAIN crc : First(crc[i]) \in Commands
  BY <1>3 DEF WaitInv, Waiting, IsInjective
<1>5. /\ {announced, crashed} \subseteq BOOLEAN
      /\ sequencer \in {None, "runs", "stopped"} /\ fields \subseteq Fields
      /\ unopened \in 0 .. load.sockets
  <2>1. load.sockets \in Nat
    BY ControlAssumption DEF WaitInv, CallsType
  <2>. QED  BY <2>1 DEF SharedTypes
<1>6. {absoluteMode, started, poke} \subseteq BOOLEAN
      /\ {resolving, address, err} \subseteq BOOLEAN
  BY DEF SharedTypes
<1>7. load \in Loads /\ (http # None => First(http) \in Commands)
  BY DEF WaitInv, CallsType, Waiting
<1>. QED  BY <1>1, <1>2, <1>4, <1>5, <1>6, <1>7 DEF TypeOK, SharedTypes

\* A handler changes nothing of its connection but where it is and what it has
\* written.
LEMMA Handling ==
  ASSUME NEW c \in Connections, Handle(c)
  PROVE  /\ UNCHANGED <<load, next, wire, buffered, req, answers>>
         /\ \/ /\ pc[c] = "handle" /\ (Goes(c, "teardown") \/ Goes(c, "close"))
               /\ UNCHANGED status
            \/ /\ pc[c] \in {"handle", "close", "teardown"} /\ Goes(c, "answer")
               /\ \E w \in Written : status' = [status EXCEPT ![c] = w]
<1>1. CASE Refuse(c) \/ NotFound(c) \/ Accept(c) \/ Announce(c) \/ Setup(c) \/ SetupCloses(c)
           \/ GetParameter(c)
  BY <1>1 DEF Refuse, NotFound, Accept, Announce, Setup, SetupCloses, GetParameter, Handles,
              Done, Keeps, Written
<1>2. CASE ReportVolume(c)
  BY <1>2 DEF ReportVolume, Handles, Done, Written
<1>3. CASE Notify(c) \/ Metadata(c)
  BY <1>3 DEF Notify, Metadata, Handles, Done, Keeps, Written
<1>4. CASE Teardown(c) \/ TeardownCloses(c)
  BY <1>4 DEF Teardown, TeardownCloses, Handles, Done, Keeps, Written
<1>. QED  BY <1>1, <1>2, <1>3, <1>4 DEF Handle

\* Other goroutines change nothing of a connection.
LEMMA Aside ==
  ASSUME \/ \E g \in Goroutines : CallStep(g)
         \/ TakeReport \/ TakeTarget \/ Resolved \/ TakeCommand \/ HttpDone
         \/ UNCHANGED vars
  PROVE  UNCHANGED <<load, next, wire, buffered, req, pc, status, answers>>
<1>1. CASE \E g \in Goroutines : CallStep(g)
  BY <1>1 DEF CallStep, CallVolume, CallCommand, CallMode, connection
<1>2. CASE TakeReport \/ TakeTarget
  BY <1>2 DEF TakeReport, TakeTarget, connection
<1>3. CASE Resolved \/ TakeCommand \/ HttpDone
  BY <1>3 DEF Resolved, TakeCommand, HttpDone, connection
<1>4. CASE UNCHANGED vars
  BY <1>4 DEF vars, connection
<1>. QED  BY <1>1, <1>2, <1>3, <1>4

\* What a reader leaves on the connection is the end of what was there.
LEMMA Reading ==
  ASSUME NEW S, NEW s \in Seq(S), NEW n \in DOMAIN s
  PROVE  /\ SubSeq(s, 2, n) \in Seq(S)
         /\ SubSeq(s, n + 1, Len(s)) \in Seq(S)
         /\ Len(SubSeq(s, n + 1, Len(s))) = Len(s) - n
         /\ \A i \in 1 .. Len(SubSeq(s, n + 1, Len(s))) :
              n + i \in 1 .. Len(s) /\ SubSeq(s, n + 1, Len(s))[i] = s[n + i]
<1>1. Len(s) \in Nat /\ n \in 1 .. Len(s) /\ \A i \in 1 .. Len(s) : s[i] \in S
  BY ElementOfSeq
<1>2. SubSeq(s, 2, n) \in Seq(S)
  BY <1>1, SubSeqProperties
<1>. DEFINE rest == SubSeq(s, n + 1, Len(s))
<1>3. /\ rest \in Seq(S)
      /\ Len(rest) = IF n + 1 <= Len(s) THEN Len(s) - (n + 1) + 1 ELSE 0
      /\ \A i \in 1 .. Len(s) - (n + 1) + 1 : rest[i] = s[n + 1 + i - 1]
  BY <1>1, SubSeqProperties
<1>. HIDE DEF rest
<1>4. Len(rest) = Len(s) - n
  BY <1>1, <1>3
<1>5. \A i \in 1 .. Len(rest) : n + i \in 1 .. Len(s) /\ rest[i] = s[n + i]
  BY <1>1, <1>3, <1>4
<1>. QED  BY <1>2, <1>3, <1>4, <1>5 DEF rest

\* A source's script is a list of requests.
LEMMA Script ==
  ASSUME CallsType, NEW c \in Connections
  PROVE  /\ Sent(c) \in Seq(Request) /\ Len(Sent(c)) \in Nat
         /\ DOMAIN Sent(c) = 1 .. Len(Sent(c))
         /\ \A n \in 1 .. Len(Sent(c)) : Sent(c)[n] \in Request
<1>1. Sent(c) \in Seq(Request)
  BY ControlAssumption DEF CallsType, Sent
<1>. QED  BY <1>1, ElementOfSeq

\* What is about n comes after what is there.
LEMMA Behind ==
  ASSUME NEW S, NEW w \in Seq(S), NEW part \in Seq(S), NEW n,
         \A i \in 1 .. Len(part) : part[i][1] = n
  PROVE  /\ w \o part \in Seq(S)
         /\ \A i \in 1 .. Len(w \o part) : \/ i \in 1 .. Len(w) /\ (w \o part)[i] = w[i]
                                           \/ i > Len(w) /\ (w \o part)[i][1] = n
<1>. DEFINE sum == w \o part
<1>1. Len(w) \in Nat /\ Len(part) \in Nat
  OBVIOUS
<1>2. /\ sum \in Seq(S) /\ Len(sum) = Len(w) + Len(part)
      /\ \A i \in 1 .. Len(w) + Len(part) :
           sum[i] = IF i <= Len(w) THEN w[i] ELSE part[i - Len(w)]
  BY ConcatProperties
<1>. HIDE DEF sum
<1>3. ASSUME NEW i \in 1 .. Len(sum)
      PROVE  \/ i \in 1 .. Len(w) /\ sum[i] = w[i]
             \/ i > Len(w) /\ sum[i][1] = n
  <2>1. CASE i <= Len(w)
    BY <1>1, <1>2, <2>1
  <2>2. CASE ~(i <= Len(w))
    <3>1. i - Len(w) \in 1 .. Len(part) /\ i > Len(w)
      BY <1>1, <1>2, <2>2
    <3>. QED  BY <1>2, <2>2, <3>1
  <2>. QED  BY <2>1, <2>2
<1>. QED  BY <1>2, <1>3 DEF sum

-----------------------------------------------------------------------------
\* A step of a connection changes nothing of another one.
LEMMA OtherConnections ==
  ASSUME ConnectionTypes, pc \in [Connections -> Places], NEW c \in Connections,
         \/ Send(c) \/ Hangup(c) \/ ReadRequest(c) \/ Open(c) \/ ReadBody(c)
         \/ Handle(c) \/ Answer(c)
  PROVE  /\ load' = load
         /\ \A d \in Connections \ {c} :
              /\ next'[d] = next[d] /\ wire'[d] = wire[d] /\ buffered'[d] = buffered[d]
              /\ req'[d] = req[d] /\ pc'[d] = pc[d] /\ status'[d] = status[d]
              /\ answers'[d] = answers[d]
<1>1. CASE Send(c)
  BY <1>1 DEF Send, ConnectionTypes
<1>2. CASE Hangup(c)
  BY <1>2 DEF Hangup, Goes, ConnectionTypes
<1>3. CASE ReadRequest(c)
  <2>1. /\ UNCHANGED <<load, next, status, answers>>
        /\ \E n \in DOMAIN wire[c] :
             /\ buffered' = [buffered EXCEPT ![c] = SubSeq(wire[c], 2, n)]
             /\ wire' = [wire EXCEPT ![c] = SubSeq(wire[c], n + 1, Len(wire[c]))]
    BY <1>3 DEF ReadRequest
  <2>2. /\ req' = req \/ req' = [req EXCEPT ![c] = wire[c][1][1]]
        /\ Goes(c, "open") \/ Goes(c, "garbled")
    BY <1>3 DEF ReadRequest
  <2>3. \A d \in Connections \ {c} : req'[d] = req[d] /\ pc'[d] = pc[d]
    BY <2>2 DEF Goes, ConnectionTypes
  <2>4. \A d \in Connections \ {c} : buffered'[d] = buffered[d] /\ wire'[d] = wire[d]
    BY <2>1 DEF ConnectionTypes
  <2>. QED  BY <2>1, <2>3, <2>4
<1>4. CASE Open(c)
  BY <1>4 DEF Open, Dispatches, Goes, ConnectionTypes
<1>5. CASE ReadBody(c)
  BY <1>5 DEF ReadBody, Goes, ConnectionTypes
<1>6. CASE Handle(c)
  BY <1>6, Handling DEF Goes, ConnectionTypes
<1>7. CASE Answer(c)
  BY <1>7 DEF Answer, Goes, ConnectionTypes
<1>. QED  BY <1>1, <1>2, <1>3, <1>4, <1>5, <1>6, <1>7

\* What a source sends comes after all it has sent.
LEMMA SendArrives ==
  ASSUME CallsType, Arrival, NEW c \in Connections, Send(c)
  PROVE  ConnectionTypes' /\ Arrived(c)'
<1>. DEFINE n == next[c] + 1
            head == << <<n, "head">> >>
            body == IF Sent(c)[n].body THEN << <<n, "body">> >> ELSE <<>>
            first == wire[c] \o head
            sum == first \o body
<1>1. next[c] \in Nat /\ next[c] < Len(Sent(c)) /\ wire[c] \in Seq(Items)
  BY DEF Send, Arrival, ConnectionTypes
<1>2. n \in Nat /\ n <= Len(Sent(c))
  BY <1>1, Script
<1>3. next' = [next EXCEPT ![c] = n] /\ wire' = [wire EXCEPT ![c] = sum]
      /\ UNCHANGED <<load, buffered, req, pc, status, answers>>
  BY DEF Send
<1>4. /\ head \in Seq(Items) /\ \A i \in 1 .. Len(head) : head[i][1] = n
      /\ body \in Seq(Items) /\ \A i \in 1 .. Len(body) : body[i][1] = n
  <2>1. <<n, "head">> \in Items /\ <<n, "body">> \in Items
    BY <1>2 DEF Items
  <2>. HIDE DEF n
  <2>2. << <<n, "head">> >> \in Seq(Items) /\ << <<n, "body">> >> \in Seq(Items)
        /\ <<>> \in Seq(Items)
    BY <2>1
  <2>3. body \in {<<>>, << <<n, "body">> >>}
    OBVIOUS
  <2>. QED  BY <2>2, <2>3
<1>. HIDE DEF sum, first, head, body, n
<1>5. /\ sum \in Seq(Items)
      /\ \A i \in 1 .. Len(sum) : \/ i \in 1 .. Len(wire[c]) /\ sum[i] = wire[c][i]
                                  \/ i > Len(wire[c]) /\ sum[i][1] = n
  <2>1. /\ first \in Seq(Items)
        /\ \A i \in 1 .. Len(first) : \/ i \in 1 .. Len(wire[c]) /\ first[i] = wire[c][i]
                                      \/ i > Len(wire[c]) /\ first[i][1] = n
    BY <1>1, <1>4, Behind DEF first
  <2>2. /\ sum \in Seq(Items)
        /\ \A i \in 1 .. Len(sum) : \/ i \in 1 .. Len(first) /\ sum[i] = first[i]
                                    \/ i > Len(first) /\ sum[i][1] = n
    BY <1>4, <2>1, Behind DEF sum
  <2>3. Len(first) >= Len(wire[c])
    BY <1>1, <1>4, ConcatProperties DEF first
  <2>. QED  BY <1>1, <2>1, <2>2, <2>3
<1>6. ConnectionTypes'
  <2>1. next' \in [Connections -> Nat] /\ wire' \in [Connections -> Seq(Items)]
    BY <1>2, <1>3, <1>5 DEF Arrival, ConnectionTypes
  <2>. QED  BY <1>3, <2>1 DEF Arrival, ConnectionTypes
<1>7. next'[c] = n /\ wire'[c] = sum /\ req'[c] = req[c] /\ pc'[c] = pc[c]
      /\ answers'[c] = answers[c]
  BY <1>3 DEF Arrival, ConnectionTypes
<1>8. Len(wire[c]) \in Nat
  BY <1>1
<1>9. n = next[c] + 1 /\ req[c] \in Nat /\ req[c] <= next[c]
  BY DEF n, Arrival, ConnectionTypes, Arrived
<1>10. \A i \in 1 .. Len(wire[c]) :
         wire[c][i][1] \in Nat /\ wire[c][i][1] # 0 /\ req[c] <= wire[c][i][1]
         /\ wire[c][i][1] <= next[c]
  <2>. TAKE i \in 1 .. Len(wire[c])
  <2>1. wire[c][i] \in Items
    BY <1>1, ElementOfSeq
  <2>2. wire[c][i][1] # 0 /\ req[c] <= wire[c][i][1] /\ wire[c][i][1] <= next[c]
    BY DEF Arrival, Arrived
  <2>. QED  BY <2>1, <2>2 DEF Items
<1>11. \A i \in 1 .. Len(sum) : sum[i][1] # 0 /\ req[c] <= sum[i][1] /\ sum[i][1] <= n
  <2>. TAKE i \in 1 .. Len(sum)
  <2>1. CASE i \in 1 .. Len(wire[c]) /\ sum[i] = wire[c][i]
    BY <1>1, <1>9, <1>10, <2>1
  <2>2. CASE sum[i][1] = n
    BY <1>1, <1>9, <2>2
  <2>. QED  BY <1>5, <2>1, <2>2
<1>12. \A i, j \in 1 .. Len(sum) : i <= j => sum[i][1] <= sum[j][1]
  <2>. SUFFICES ASSUME NEW i \in 1 .. Len(sum), NEW j \in 1 .. Len(sum), i <= j
                PROVE  sum[i][1] <= sum[j][1]
    OBVIOUS
  <2>1. CASE j \in 1 .. Len(wire[c])
    <3>1. i \in 1 .. Len(wire[c])
      BY <1>8, <2>1
    <3>. QED  BY <1>5, <1>8, <2>1, <3>1 DEF Arrival, Arrived
  <2>2. CASE j \notin 1 .. Len(wire[c])
    BY <1>2, <1>5, <1>11, <2>2
  <2>. QED  BY <2>1, <2>2
<1>13. n <= Len(Sent(c)) /\ Sent(c)' = Sent(c)
  BY <1>2, <1>3 DEF Sent
<1>14. Arrived(c)'
  BY <1>1, <1>7, <1>9, <1>11, <1>12, <1>13 DEF Arrival, Arrived
<1>. QED  BY <1>6, <1>14

\* The next request that is read is not one before the present.
LEMMA ReadArrives ==
  ASSUME CallsType, Arrival, NEW c \in Connections, ReadRequest(c) \/ ReadBody(c)
  PROVE  ConnectionTypes' /\ Arrived(c)'
<1>0. UNCHANGED <<load, next, status, answers>> /\ Sent(c)' = Sent(c)
  BY DEF ReadRequest, ReadBody, Sent
<1>1. wire[c] \in Seq(Items) /\ buffered[c] \in Seq(Items) /\ req[c] \in Nat /\ next[c] \in Nat
  BY DEF Arrival, ConnectionTypes
<1>2. \A i \in 1 .. Len(wire[c]) : wire[c][i][1] \in Nat
  BY <1>1, ElementOfSeq DEF Items
<1>3. ASSUME NEW n \in DOMAIN wire[c],
             buffered' = [buffered EXCEPT ![c] = SubSeq(wire[c], 2, n)],
             wire' = [wire EXCEPT ![c] = SubSeq(wire[c], n + 1, Len(wire[c]))]
      PROVE  /\ wire' \in [Connections -> Seq(Items)] /\ buffered' \in [Connections -> Seq(Items)]
             /\ Len(wire[c]) \in Nat
             /\ \A i \in 1 .. Len(wire'[c]) :
                  n + i \in 1 .. Len(wire[c]) /\ wire'[c][i] = wire[c][n + i]
  <2>. DEFINE rest == SubSeq(wire[c], n + 1, Len(wire[c]))
              ahead == SubSeq(wire[c], 2, n)
  <2>1. /\ ahead \in Seq(Items) /\ rest \in Seq(Items)
        /\ \A i \in 1 .. Len(rest) : n + i \in 1 .. Len(wire[c]) /\ rest[i] = wire[c][n + i]
    BY <1>1, Reading
  <2>2. buffered' = [buffered EXCEPT ![c] = ahead] /\ wire' = [wire EXCEPT ![c] = rest]
    BY <1>3
  <2>. HIDE DEF rest, ahead
  <2>. QED  BY <1>1, <2>1, <2>2 DEF Arrival, ConnectionTypes
<1>4. CASE ReadRequest(c)
  <2>. PICK n \in DOMAIN wire[c] :
              /\ buffered' = [buffered EXCEPT ![c] = SubSeq(wire[c], 2, n)]
              /\ wire' = [wire EXCEPT ![c] = SubSeq(wire[c], n + 1, Len(wire[c]))]
    BY <1>4 DEF ReadRequest
  <2>1. wire' \in [Connections -> Seq(Items)] /\ buffered' \in [Connections -> Seq(Items)]
        /\ \A i \in 1 .. Len(wire'[c]) :
             n + i \in 1 .. Len(wire[c]) /\ wire'[c][i] = wire[c][n + i]
    BY <1>3
  <2>2. Len(wire[c]) \in Nat /\ n \in 1 .. Len(wire[c]) /\ 1 \in 1 .. Len(wire[c])
        /\ Len(wire'[c]) \in Nat
    <3>1. wire'[c] \in Seq(Items)
      BY <2>1
    <3>2. Len(wire[c]) \in Nat /\ Len(wire'[c]) \in Nat /\ DOMAIN wire[c] = 1 .. Len(wire[c])
      BY <1>1, <3>1, LenProperties
    <3>. QED  BY <3>2
  <2>3. \/ req' = [req EXCEPT ![c] = wire[c][1][1]] /\ Goes(c, "open")
        \/ req' = req /\ Goes(c, "garbled")
    BY <1>4 DEF ReadRequest
  <2>4. ConnectionTypes'
    BY <1>0, <1>2, <2>1, <2>2, <2>3 DEF Arrival, ConnectionTypes
  <2>5. \/ req'[c] = wire[c][1][1] /\ pc'[c] = "open"
        \/ req'[c] = req[c] /\ pc'[c] = "garbled"
    BY <2>3 DEF Arrival, ConnectionTypes, CallsType, Goes
  <2>6. req[c] <= req'[c] /\ req'[c] <= next[c] /\ req'[c] \in Nat
        /\ (pc'[c] \in Busy => req'[c] # 0)
    <3>. DEFINE first == wire[c][1][1]
    <3>1. first # 0 /\ req[c] <= first /\ first <= next[c]
      BY <2>2 DEF Arrival, Arrived
    <3>2. first \in Nat /\ req[c] \in Nat /\ req[c] <= next[c]
      BY <1>1, <1>2, <2>2 DEF Arrival, Arrived
    <3>3. \/ req'[c] = first
          \/ req'[c] = req[c] /\ pc'[c] = "garbled"
      BY <2>5
    <3>4. "garbled" \notin Busy
      BY DEF Busy
    <3>. HIDE DEF first
    <3>5. CASE req'[c] = first
      <4>1. req[c] <= req'[c] /\ req'[c] <= next[c] /\ req'[c] \in Nat /\ req'[c] # 0
        BY <3>1, <3>2, <3>5
      <4>. QED  BY <4>1
    <3>6. CASE req'[c] = req[c] /\ pc'[c] = "garbled"
      <4>1. req[c] <= req'[c] /\ req'[c] <= next[c] /\ req'[c] \in Nat
        BY <3>2, <3>6
      <4>2. ~(pc'[c] \in Busy)
        BY <3>4, <3>6
      <4>. QED  BY <4>1, <4>2
    <3>. QED  BY <3>3, <3>5, <3>6
  <2>7. \A i \in 1 .. Len(wire[c]) : req'[c] <= wire[c][i][1]
    <3>. TAKE i \in 1 .. Len(wire[c])
    <3>1. req[c] <= wire[c][i][1]
      BY DEF Arrival, Arrived
    <3>2. wire[c][1][1] <= wire[c][i][1]
      BY <2>2 DEF Arrival, Arrived
    <3>. QED  BY <2>5, <3>1, <3>2
  <2>8. \A i, j \in 1 .. Len(wire'[c]) : i <= j => wire'[c][i][1] <= wire'[c][j][1]
    <3>. SUFFICES ASSUME NEW i \in 1 .. Len(wire'[c]), NEW j \in 1 .. Len(wire'[c]), i <= j
                  PROVE  wire'[c][i][1] <= wire'[c][j][1]
      OBVIOUS
    <3>. DEFINE a == n + i
                b == n + j
    <3>1. a \in 1 .. Len(wire[c]) /\ wire'[c][i] = wire[c][a]
      BY <2>1
    <3>2. b \in 1 .. Len(wire[c]) /\ wire'[c][j] = wire[c][b]
      BY <2>1
    <3>3. a <= b
      BY <2>2
    <3>. HIDE DEF a, b
    <3>4. wire[c][a][1] <= wire[c][b][1]
      BY <3>1, <3>2, <3>3 DEF Arrival, Arrived
    <3>. QED  BY <3>1, <3>2, <3>4
  <2>9. \A i \in 1 .. Len(answers[c]) : answers[c][i][1] \in Nat
    <3>1. answers[c] \in Seq(Nat \X Written)
      BY DEF Arrival, ConnectionTypes
    <3>2. \A i \in 1 .. Len(answers[c]) : answers[c][i] \in Nat \X Written
      BY <3>1, ElementOfSeq
    <3>. QED  BY <3>2
  <2>10. \A i \in 1 .. Len(answers[c]) : answers[c][i][1] <= req'[c]
    <3>. TAKE i \in 1 .. Len(answers[c])
    <3>1. answers[c][i][1] <= req[c]
      BY DEF Arrival, Arrived
    <3>2. answers[c][i][1] \in Nat /\ req[c] \in Nat /\ req'[c] \in Nat /\ req[c] <= req'[c]
      BY <1>1, <2>6, <2>9
    <3>. QED  BY <3>1, <3>2
  <2>11. \A i \in 1 .. Len(wire'[c]) :
           wire'[c][i][1] # 0 /\ req'[c] <= wire'[c][i][1] /\ wire'[c][i][1] <= next[c]
    <3>. TAKE i \in 1 .. Len(wire'[c])
    <3>1. n + i \in 1 .. Len(wire[c]) /\ wire'[c][i] = wire[c][n + i]
      BY <2>1
    <3>. QED  BY <2>7, <3>1 DEF Arrival, Arrived
  <2>12. Arrived(c)'
    BY <1>0, <2>6, <2>8, <2>10, <2>11 DEF Arrival, Arrived
  <2>. QED  BY <2>4, <2>12
<1>5. CASE ReadBody(c)
  <2>1. UNCHANGED req /\ pc[c] = "body" /\ (Goes(c, "handle") \/ UNCHANGED pc)
    BY <1>5 DEF ReadBody
  <2>2. /\ req'[c] = req[c] /\ (pc'[c] \in Busy => pc[c] \in Busy)
    BY <2>1 DEF CallsType, Goes, Busy
  <2>3. CASE UNCHANGED wire /\ buffered[c] # <<>> /\ buffered' = [buffered EXCEPT ![c] = Tail(@)]
    <3>1. Tail(buffered[c]) \in Seq(Items)
      BY <1>1, <2>3, HeadTailProperties
    <3>2. ConnectionTypes'
      BY <1>0, <2>1, <2>3, <3>1 DEF Arrival, ConnectionTypes
    <3>3. Arrived(c)'
      BY <1>0, <2>2, <2>3 DEF Arrival, Arrived
    <3>. QED  BY <3>2, <3>3
  <2>4. CASE \E n \in DOMAIN wire[c] :
               /\ buffered' = [buffered EXCEPT ![c] = SubSeq(wire[c], 2, n)]
               /\ wire' = [wire EXCEPT ![c] = SubSeq(wire[c], n + 1, Len(wire[c]))]
    <3>. PICK n \in DOMAIN wire[c] :
                /\ buffered' = [buffered EXCEPT ![c] = SubSeq(wire[c], 2, n)]
                /\ wire' = [wire EXCEPT ![c] = SubSeq(wire[c], n + 1, Len(wire[c]))]
      BY <2>4
    <3>1. /\ wire' \in [Connections -> Seq(Items)] /\ buffered' \in [Connections -> Seq(Items)]
          /\ Len(wire[c]) \in Nat
          /\ \A i \in 1 .. Len(wire'[c]) :
               n + i \in 1 .. Len(wire[c]) /\ wire'[c][i] = wire[c][n + i]
      BY <1>3
    <3>2. ConnectionTypes'
      BY <1>0, <2>1, <3>1 DEF Arrival, ConnectionTypes
    <3>3. n \in 1 .. Len(wire[c]) /\ Len(wire'[c]) \in Nat
      <4>1. wire'[c] \in Seq(Items)
        BY <3>1
      <4>. QED  BY <1>1, <4>1, LenProperties
    <3>4. \A i, j \in 1 .. Len(wire'[c]) : i <= j => wire'[c][i][1] <= wire'[c][j][1]
      <4>. SUFFICES ASSUME NEW i \in 1 .. Len(wire'[c]), NEW j \in 1 .. Len(wire'[c]), i <= j
                    PROVE  wire'[c][i][1] <= wire'[c][j][1]
        OBVIOUS
      <4>. DEFINE a == n + i
                  b == n + j
      <4>1. a \in 1 .. Len(wire[c]) /\ wire'[c][i] = wire[c][a]
        BY <3>1
      <4>2. b \in 1 .. Len(wire[c]) /\ wire'[c][j] = wire[c][b]
        BY <3>1
      <4>3. a <= b
        BY <3>3
      <4>. HIDE DEF a, b
      <4>4. wire[c][a][1] <= wire[c][b][1]
        BY <4>1, <4>2, <4>3 DEF Arrival, Arrived
      <4>. QED  BY <4>1, <4>2, <4>4
    <3>5. \A i \in 1 .. Len(wire'[c]) :
            wire'[c][i][1] # 0 /\ req[c] <= wire'[c][i][1] /\ wire'[c][i][1] <= next[c]
      <4>. TAKE i \in 1 .. Len(wire'[c])
      <4>. DEFINE a == n + i
      <4>1. a \in 1 .. Len(wire[c]) /\ wire'[c][i] = wire[c][a]
        BY <3>1
      <4>. HIDE DEF a
      <4>2. wire[c][a][1] # 0 /\ req[c] <= wire[c][a][1] /\ wire[c][a][1] <= next[c]
        BY <4>1 DEF Arrival, Arrived
      <4>. QED  BY <4>1, <4>2
    <3>6. Arrived(c)'
      BY <1>0, <2>2, <3>4, <3>5 DEF Arrival, Arrived
    <3>. QED  BY <3>2, <3>6
  <2>5. CASE /\ buffered' = [buffered EXCEPT ![c] = <<>>]
             /\ wire' = [wire EXCEPT ![c] = <<>>]
    <3>1. ConnectionTypes'
      BY <1>0, <2>1, <2>5 DEF Arrival, ConnectionTypes
    <3>2. wire'[c] = <<>>
      BY <2>5 DEF Arrival, ConnectionTypes
    <3>3. Arrived(c)'
      BY <1>0, <2>2, <3>2 DEF Arrival, Arrived
    <3>. QED  BY <3>1, <3>3
  <2>. QED  BY <1>5, <2>3, <2>4, <2>5 DEF ReadBody
<1>. QED  BY <1>4, <1>5

\* Answers are to requests that have been read.
LEMMA AnswerArrives ==
  ASSUME CallsType, Arrival, NEW c \in Connections, Answer(c)
  PROVE  ConnectionTypes' /\ Arrived(c)'
<1>. DEFINE own == IF status[c] # None THEN << <<req[c], status[c]>> >> ELSE <<>>
            head == << <<req[c], None>> >>
            first == answers[c] \o own
            sum == first \o head
            Answers == Nat \X Written
<1>1. req[c] \in Nat /\ status[c] \in Written /\ answers[c] \in Seq(Answers)
  BY DEF Arrival, ConnectionTypes
<1>2. answers' = [answers EXCEPT ![c] = sum] /\ status' = [status EXCEPT ![c] = None]
      /\ pc' = [pc EXCEPT ![c] = "read"] /\ UNCHANGED <<load, next, wire, buffered, req>>
  BY DEF Answer, Goes
<1>3. /\ own \in Seq(Answers) /\ \A i \in 1 .. Len(own) : own[i][1] = req[c]
      /\ head \in Seq(Answers) /\ \A i \in 1 .. Len(head) : head[i][1] = req[c]
  <2>1. <<req[c], status[c]>> \in Answers /\ <<req[c], None>> \in Answers
    BY <1>1 DEF Written
  <2>. HIDE DEF Answers
  <2>2. << <<req[c], status[c]>> >> \in Seq(Answers) /\ << <<req[c], None>> >> \in Seq(Answers)
        /\ <<>> \in Seq(Answers)
    BY <2>1
  <2>3. own \in {<<>>, << <<req[c], status[c]>> >>}
    OBVIOUS
  <2>. QED  BY <2>2, <2>3
<1>4. \A i \in 1 .. Len(answers[c]) : answers[c][i][1] \in Nat /\ answers[c][i][1] <= req[c]
  BY <1>1, ElementOfSeq DEF Arrival, Arrived
<1>. HIDE DEF sum, first, own, head, Answers
<1>5. first \in Seq(Answers) /\ \A i \in 1 .. Len(first) : first[i][1] <= req[c]
  <2>1. /\ first \in Seq(Answers)
        /\ \A i \in 1 .. Len(first) : \/ i \in 1 .. Len(answers[c]) /\ first[i] = answers[c][i]
                                      \/ i > Len(answers[c]) /\ first[i][1] = req[c]
    BY <1>1, <1>3, Behind DEF first
  <2>. QED  BY <1>1, <1>4, <2>1
<1>6. sum \in Seq(Answers) /\ \A i \in 1 .. Len(sum) : sum[i][1] <= req[c]
  <2>1. /\ sum \in Seq(Answers)
        /\ \A i \in 1 .. Len(sum) : \/ i \in 1 .. Len(first) /\ sum[i] = first[i]
                                    \/ i > Len(first) /\ sum[i][1] = req[c]
    BY <1>3, <1>5, Behind DEF sum
  <2>. QED  BY <1>1, <1>5, <2>1
<1>7. ConnectionTypes'
  BY <1>2, <1>6 DEF Arrival, ConnectionTypes, Answers, Written
<1>8. answers'[c] = sum /\ pc'[c] = "read"
  BY <1>2 DEF Arrival, ConnectionTypes, CallsType
<1>9. Arrived(c)'
  BY <1>2, <1>6, <1>8 DEF Arrival, Arrived, Busy, Sent
<1>. QED  BY <1>7, <1>9

\* The order of requests is kept by every step.
LEMMA ArrivalStep == WaitInv /\ Arrival /\ [Next]_vars => Arrival'
<1>. SUFFICES ASSUME WaitInv, Arrival, [Next]_vars
              PROVE  Arrival'
  OBVIOUS
<1>1. CASE UNCHANGED <<load, next, wire, buffered, req, pc, status, answers>>
  BY <1>1 DEF Arrival, ConnectionTypes, Arrived, Sent
<1>2. ASSUME NEW c \in Connections,
             \/ Send(c) \/ Hangup(c) \/ ReadRequest(c) \/ Open(c) \/ ReadBody(c)
             \/ Handle(c) \/ Answer(c)
      PROVE  Arrival'
  <2>1. CallsType /\ pc \in [Connections -> Places]
    BY DEF WaitInv, CallsType
  <2>2. ASSUME NEW d \in Connections \ {c}
        PROVE  Arrived(d)'
    <3>1. /\ load' = load /\ next'[d] = next[d] /\ wire'[d] = wire[d] /\ req'[d] = req[d]
          /\ pc'[d] = pc[d] /\ answers'[d] = answers[d]
      BY <1>2, <2>1, OtherConnections DEF Arrival
    <3>2. Sent(d)' = Sent(d)
      BY <3>1 DEF Sent
    <3>. QED  BY <3>1, <3>2 DEF Arrival, Arrived
  <2>3. ConnectionTypes' /\ Arrived(c)'
    <3>1. CASE Send(c)
      BY <2>1, <3>1, SendArrives
    <3>2. CASE ReadRequest(c) \/ ReadBody(c)
      BY <2>1, <3>2, ReadArrives
    <3>3. CASE Answer(c)
      BY <2>1, <3>3, AnswerArrives
    <3>4. CASE Hangup(c) \/ Open(c) \/ Handle(c)
      <4>1. UNCHANGED <<load, next, wire, buffered, req, answers>>
        BY <3>4, Handling DEF Hangup, Open
      <4>2. status' = status \/ \E w \in Written : status' = [status EXCEPT ![c] = w]
        BY <3>4, Handling DEF Hangup, Open
      <4>3. \E p \in {"ended"} \union Busy : Goes(c, p) /\ (p \in Busy => pc[c] \in Busy)
        BY <3>4, Handling DEF Hangup, Open, Dispatches, Busy
      <4>4. pc'[c] \in Busy => pc[c] \in Busy
        BY <2>1, <4>3 DEF Goes
      <4>5. status' \in [Connections -> Written]
        BY <4>2 DEF Arrival, ConnectionTypes
      <4>6. ConnectionTypes'
        BY <4>1, <4>5 DEF Arrival, ConnectionTypes
      <4>7. Sent(c)' = Sent(c)
        BY <4>1 DEF Sent
      <4>. QED  BY <4>1, <4>4, <4>6, <4>7 DEF Arrival, Arrived
    <3>. QED  BY <1>2, <3>1, <3>2, <3>3, <3>4
  <2>. QED  BY <2>2, <2>3 DEF Arrival
<1>. QED  BY <1>1, <1>2, Aside DEF Next

\* Nothing has been sent at first.
LEMMA ArrivalInit == Init => Arrival
<1>. SUFFICES ASSUME Init
              PROVE  Arrival
  OBVIOUS
<1>1. ConnectionTypes
  BY DEF Init, ConnectionTypes, Written
<1>2. ASSUME NEW c \in Connections
      PROVE  Arrived(c)
  <2>1. /\ next[c] = 0 /\ req[c] = 0 /\ wire[c] = <<>> /\ pc[c] = "read"
        /\ answers[c] = <<>> /\ load \in Loads
    BY DEF Init
  <2>2. load.script[c] \in Seq(Request)
    BY <2>1, ControlAssumption
  <2>3. Len(Sent(c)) \in Nat
    BY <2>2 DEF Sent
  <2>. QED  BY <2>1, <2>3 DEF Arrived, Busy
<1>. QED  BY <1>1, <1>2 DEF Arrival

-----------------------------------------------------------------------------
\* The capacities.
LEMMA Caps == DeviceCap \in Nat /\ CommandCap \in Nat
BY ControlAssumption

\* What is left as it is keeps its type.
LEMMA SharedSame ==
  ASSUME SharedTypes, UNCHANGED <<load, raop, volume, dacp>>
  PROVE  SharedTypes'
BY DEF SharedTypes, session, raop, volume, dacp

\* A handler keeps the types of the session, and room in deviceVolumeChan.
LEMMA HandleTypes ==
  ASSUME SharedTypes, CallsType, NEW c \in Connections, Handle(c)
  PROVE  SharedTypes'
<1>1. CASE Refuse(c) \/ NotFound(c) \/ Accept(c) \/ GetParameter(c) \/ Notify(c)
           \/ Teardown(c)
  BY <1>1, SharedSame DEF Refuse, NotFound, Accept, GetParameter, Notify, Teardown, Keeps
<1>2. CASE Announce(c)
  <2>1. UNCHANGED <<load, volume, dacp, sequencer, fields, unopened>>
    BY <1>2 DEF Announce, Keeps
  <2>2. announced' \in {announced, TRUE, FALSE} /\ crashed' \in {crashed, TRUE}
    BY <1>2 DEF Announce
  <2>3. announced' \in BOOLEAN /\ crashed' \in BOOLEAN
    BY <2>2 DEF SharedTypes
  <2>. QED  BY <2>1, <2>3 DEF SharedTypes, volume, dacp
<1>3. CASE ReportVolume(c)
  BY <1>3, Caps DEF ReportVolume, SharedTypes, session, raop, dacp
<1>4. CASE Metadata(c)
  <2>1. UNCHANGED <<load, volume, dacp, session>>
    BY <1>4 DEF Metadata, Keeps
  <2>2. crashed' = Panics(String(load.format, load.song.data))
    BY <1>4 DEF Metadata
  <2>3. crashed' \in BOOLEAN
    BY <2>2 DEF Panics
  <2>. QED  BY <2>1, <2>3 DEF SharedTypes, session, volume, dacp
<1>5. CASE TeardownCloses(c)
  <2>1. UNCHANGED <<load, volume, dacp, announced, sequencer, unopened>>
        /\ fields' = fields \ {"control"}
    BY <1>5 DEF TeardownCloses, Keeps
  <2>2. crashed' = (sequencer = None \/ fields # Fields)
    BY <1>5 DEF TeardownCloses
  <2>3. crashed' \in BOOLEAN
    BY <2>2
  <2>4. fields' \in SUBSET Fields
    BY <2>1 DEF SharedTypes
  <2>. QED  BY <2>1, <2>3, <2>4 DEF SharedTypes, volume, dacp
<1>6. CASE Setup(c)
  <2>1. UNCHANGED <<load, volume, dacp, announced>> /\ sequencer' \in {sequencer, "runs"}
    BY <1>6 DEF Setup, Keeps
  <2>. PICK opening \in Openings :
         /\ fields' = (fields \ opening[2]) \union opening[1]
         /\ \/ /\ opening[2] = {} /\ crashed' = (fields' # Fields) /\ unopened' = unopened
            \/ unopened < load.sockets /\ unopened' = unopened + 1 /\ crashed' = crashed
    BY <1>6 DEF Setup
  <2>2. opening[1] \subseteq Fields
    BY DEF Openings, Fields
  <2>. fields' \in SUBSET Fields
    BY <2>2 DEF SharedTypes
  <2>3. crashed' \in BOOLEAN
    BY DEF SharedTypes
  <2>4. load.sockets \in Nat
    BY ControlAssumption DEF CallsType
  <2>5. unopened' \in Nat /\ unopened' <= load.sockets
    BY <2>4 DEF SharedTypes
  <2>6. sequencer' \in {None, "runs", "stopped"}
    BY <2>1 DEF SharedTypes
  <2>. QED  BY <2>1, <2>2, <2>3, <2>5, <2>6 DEF SharedTypes, volume, dacp
<1>7. CASE SetupCloses(c)
  BY <1>7 DEF SetupCloses, Keeps, SharedTypes, volume, dacp
<1>. QED  BY <1>1, <1>2, <1>3, <1>4, <1>5, <1>6, <1>7 DEF Handle

\* So do the other steps of a connection.
LEMMA ConnectionStepTypes ==
  ASSUME SharedTypes, CallsType, NEW c \in Connections,
         \/ Send(c) \/ Hangup(c) \/ ReadRequest(c) \/ Open(c) \/ ReadBody(c)
         \/ Handle(c) \/ Answer(c)
  PROVE  SharedTypes'
<1>1. CASE Send(c) \/ Hangup(c) \/ ReadBody(c) \/ Answer(c)
  BY <1>1, SharedSame DEF Send, Hangup, ReadBody, Answer
<1>2. CASE ReadRequest(c)
  <2>1. crashed' \in BOOLEAN
    BY <1>2 DEF ReadRequest, SharedTypes
  <2>2. UNCHANGED <<load, session, volume, dacp>>
    BY <1>2 DEF ReadRequest
  <2>. QED  BY <2>1, <2>2 DEF SharedTypes, session, volume, dacp
<1>3. CASE Open(c)
  <2>1. UNCHANGED <<load, raop, volume, connectedName, crc>>
    BY <1>3 DEF Open
  <2>2. /\ id' \in Connections \union {None} /\ resolving' \in BOOLEAN
        /\ address' \in BOOLEAN /\ err' \in BOOLEAN
        /\ err' => failures < load.failures
    BY <1>3 DEF Open, SharedTypes
  <2>3. failures' = failures + IF err' THEN 1 ELSE 0
    BY <1>3 DEF Open
  <2>4. load.failures \in Nat
    BY ControlAssumption DEF CallsType
  <2>5. failures' \in Nat /\ failures' <= load.failures
    BY <2>2, <2>3, <2>4 DEF SharedTypes
  <2>. QED  BY <2>1, <2>2, <2>5 DEF SharedTypes, session, raop, volume
<1>. QED  BY <1>1, <1>2, <1>3, HandleTypes

\* And the steps of the other goroutines.
LEMMA OtherTypes ==
  ASSUME SharedTypes, CallsType,
         \/ \E g \in Goroutines : CallStep(g)
         \/ TakeReport \/ TakeTarget \/ Resolved \/ TakeCommand \/ HttpDone
  PROVE  SharedTypes'
<1>1. ASSUME NEW g \in Goroutines, CallStep(g)
      PROVE  SharedTypes'
  <2>1. CASE CallVolume(g)
    BY <2>1, Caps DEF CallVolume, SharedTypes, session, raop, dacp
  <2>2. CASE CallCommand(g)
    <3>1. crc' = Append(crc, g) /\ Len(crc) < CommandCap
          /\ UNCHANGED <<load, raop, volume, id, resolving, address, connectedName, err,
                         failures>>
      BY <2>2 DEF CallCommand
    <3>2. Len(crc') = Len(crc) + 1 /\ Len(crc) \in Nat
      BY <3>1, AppendProperties DEF CallsType
    <3>3. Len(crc') <= CommandCap
      BY <3>1, <3>2, Caps
    <3>. QED  BY <3>1, <3>3 DEF SharedTypes, session, raop, volume
  <2>3. CASE CallMode(g)
    BY <2>3 DEF CallMode, SharedTypes, session, raop, dacp
  <2>. QED  BY <1>1, <2>1, <2>2, <2>3 DEF CallStep
<1>2. CASE TakeReport
  BY <1>2, Caps DEF TakeReport, SharedTypes, session, raop, dacp
<1>3. CASE TakeTarget
  BY <1>3, Caps DEF TakeTarget, SharedTypes, session, raop, dacp
<1>4. CASE Resolved
  <2>1. UNCHANGED <<load, raop, volume, id, resolving, err, crc, failures>>
        /\ connectedName' = id /\ address' = ~err
    BY <1>4 DEF Resolved
  <2>2. address' \in BOOLEAN
    BY <2>1
  <2>. QED  BY <2>1, <2>2 DEF SharedTypes, session, raop, volume
<1>5. CASE TakeCommand
  <2>1. UNCHANGED <<load, raop, volume, id, resolving, address, connectedName, err, failures>>
        /\ crc # <<>> /\ crc' = Tail(crc)
    BY <1>5 DEF TakeCommand
  <2>2. Len(crc') = Len(crc) - 1 /\ Len(crc) \in Nat
    BY <2>1, HeadTailProperties DEF CallsType
  <2>3. Len(crc') <= CommandCap
    BY <2>2, Caps DEF SharedTypes
  <2>. QED  BY <2>1, <2>3 DEF SharedTypes, session, raop, volume
<1>6. CASE HttpDone
  <2>1. UNCHANGED <<load, raop, deviceVolumeChan, serviceVolumeChan, absoluteMode, started,
                    id, resolving, connectedName, crc>>
    BY <1>6 DEF HttpDone
  <2>2. PICK outcome \in {"ok", "status", "failed"} :
          /\ outcome # "ok" => failures < load.failures
          /\ failures' = failures + IF outcome # "ok" THEN 1 ELSE 0
          /\ err' = (outcome = "failed") /\ address' = ~err'
          /\ poke' = (poke \/ (outcome # "ok" /\ First(http) = "setproperty"))
    BY <1>6 DEF HttpDone
  <2>3. err' \in BOOLEAN /\ address' \in BOOLEAN
    BY <2>2
  <2>4. poke' \in BOOLEAN
    BY <2>2
  <2>5. load.failures \in Nat
    BY ControlAssumption DEF CallsType
  <2>6. failures' \in Nat /\ failures' <= load.failures
    BY <2>2, <2>5 DEF SharedTypes
  <2>. QED  BY <2>1, <2>3, <2>4, <2>6 DEF SharedTypes, session, raop
<1>. QED  BY <1>1, <1>2, <1>3, <1>4, <1>5, <1>6

\* The waiting goroutines, the order of requests and the types, at every step.
Base == WaitInv /\ Arrival /\ SharedTypes

\* All of this holds at the start,
LEMMA BaseInit == Init => Base
<1>1. Init => SharedTypes
  <2>. SUFFICES ASSUME Init
                PROVE  SharedTypes
    OBVIOUS
  <2>1. load \in Loads /\ Len(crc) = 0 /\ failures = 0
    BY DEF Init
  <2>2. load.failures \in Nat /\ load.sockets \in Nat
    BY <2>1, ControlAssumption
  <2>3. /\ 0 \in 0 .. DeviceCap /\ Len(crc) <= CommandCap /\ failures <= load.failures
        /\ 0 <= load.sockets
    BY <2>1, <2>2, Caps
  <2>4. /\ announced = FALSE /\ sequencer = None /\ fields = {} /\ unopened = 0
        /\ crashed = FALSE
        /\ deviceVolumeChan = 0 /\ serviceVolumeChan = 0
        /\ absoluteMode = TRUE /\ started = FALSE /\ poke = FALSE
        /\ id = None /\ connectedName = None
        /\ resolving = FALSE /\ address = FALSE /\ err = FALSE
    BY DEF Init
  <2>. QED  BY <2>1, <2>3, <2>4 DEF SharedTypes
<1>. QED  BY <1>1, InitWaits, ArrivalInit DEF Base

\* and every step keeps it.
LEMMA BaseStep == Base /\ [Next]_vars => Base'
<1>. SUFFICES ASSUME Base, [Next]_vars
              PROVE  Base'
  OBVIOUS
<1>1. WaitInv'
  BY WaitStep DEF Base
<1>2. Arrival'
  BY ArrivalStep DEF Base
<1>3. SharedTypes'
  <2>1. CallsType
    BY DEF Base, WaitInv
  <2>2. SharedTypes
    BY DEF Base
  <2>3. CASE UNCHANGED vars
    BY <2>2, <2>3, SharedSame DEF vars
  <2>4. ASSUME NEW c \in Connections,
               \/ Send(c) \/ Hangup(c) \/ ReadRequest(c) \/ Open(c) \/ ReadBody(c)
               \/ Handle(c) \/ Answer(c)
        PROVE  SharedTypes'
    BY <2>1, <2>2, <2>4, ConnectionStepTypes
  <2>5. CASE \/ \E g \in Goroutines : CallStep(g)
             \/ TakeReport \/ TakeTarget \/ Resolved \/ TakeCommand \/ HttpDone
    BY <2>1, <2>2, <2>5, OtherTypes
  <2>. QED  BY <2>3, <2>4, <2>5 DEF Next
<1>. QED  BY <1>1, <1>2, <1>3 DEF Base

\* The variables have the types of the code's, the channels are never over their
\* limits, a command waits for one answer, and what is answered has been read
\* (Spec => []TypeOK).
THEOREM ControlTypes == Spec => []TypeOK
<1>1. Base => TypeOK
  BY TypesSuffice DEF Base
<1>. QED  BY <1>1, BaseInit, BaseStep, PTL DEF Spec

-----------------------------------------------------------------------------
(***************************************************************************)
(* The answers.  A plain source has at most one request on its way, and    *)
(* everything it has sent of it has been read when its handler is done, so *)
(* that no reader takes what is not its own.                               *)
(***************************************************************************)
Part(c, n) == IF Sent(c)[n].body THEN << <<n, "body">> >> ELSE <<>>
Message(c, n) ==
  IF Sent(c)[n].body THEN << <<n, "head">>, <<n, "body">> >> ELSE << <<n, "head">> >>

\* How many requests of a connection have been answered.
Answered(c) == IF pc[c] \in {"read", "ended"} THEN req[c] ELSE req[c] - 1

\* Where the request of a plain source is.
OneAtATime(c) ==
  /\ pc[c] # "garbled"
  /\ pc[c] \in {"read", "ended"} =>
       /\ buffered[c] = <<>>
       /\ \/ req[c] = next[c] /\ wire[c] = <<>>
          \/ pc[c] = "read" /\ next[c] = req[c] + 1 /\ wire[c] = Message(c, next[c])
  /\ pc[c] = "ended" => next[c] = Len(Sent(c))
  /\ pc[c] \in Busy => req[c] = next[c]
  /\ pc[c] \in {"open", "body"} =>
       \/ buffered[c] = Part(c, req[c]) /\ wire[c] = <<>>
       \/ buffered[c] = <<>> /\ wire[c] = Part(c, req[c])
  /\ pc[c] = "body" => ReadsBody(Current(c))
  /\ pc[c] \in {"handle", "close", "teardown", "answer"} =>
       buffered[c] = <<>> /\ wire[c] = <<>>
  /\ \A i \in 1 .. Len(answers[c]) : answers[c][i][1] <= Answered(c)

\* What has been answered of the requests of a source that sends nothing wrong.
OneAnswer(c) ==
  /\ status[c] = None /\ pc[c] # "close" /\ Len(answers[c]) = Answered(c)
  /\ \A i \in 1 .. Len(answers[c]) : answers[c][i] = <<i, None>>

\* The second of two.
LEMMA Second ==
  ASSUME NEW a, NEW b
  PROVE  SubSeq(<<a, b>>, 2, 2) = <<b>>
<1>. DEFINE s == <<a, b>>
            S == {a, b}
<1>1. s[2] = b /\ \A i \in 2 .. 2 : s[i] \in S
  OBVIOUS
<1>. HIDE DEF s
<1>2. /\ SubSeq(s, 2, 2) \in Seq(S) /\ Len(SubSeq(s, 2, 2)) = 1
      /\ \A i \in 1 .. 1 : SubSeq(s, 2, 2)[i] = s[2 + i - 1]
  BY <1>1, SubSeqProperties
<1>3. SubSeq(s, 2, 2)[1] = b
  BY <1>1, <1>2
<1>. DEFINE t == SubSeq(s, 2, 2)
            u == <<b>>
<1>4. u \in Seq(S) /\ Len(u) = 1 /\ u[1] = b
  OBVIOUS
<1>. HIDE DEF t, u, S
<1>5. \A i \in 1 .. Len(t) : t[i] = u[i]
  BY <1>2, <1>3, <1>4 DEF t
<1>6. t = u
  BY <1>2, <1>4, <1>5, SeqEqual DEF t
<1>. QED  BY <1>6 DEF s, t, u

\* The reader of a request takes the head, and may take the body.
LEMMA ReadAhead ==
  ASSUME NEW c, NEW n, NEW w, w = Message(c, n), NEW m \in DOMAIN w
  PROVE  /\ w[1] = <<n, "head">>
         /\ \/ SubSeq(w, 2, m) = Part(c, n) /\ SubSeq(w, m + 1, Len(w)) = <<>>
            \/ SubSeq(w, 2, m) = <<>> /\ SubSeq(w, m + 1, Len(w)) = Part(c, n)
<1>1. CASE Sent(c)[n].body
  <2>1. w = << <<n, "head">>, <<n, "body">> >> /\ Part(c, n) = << <<n, "body">> >>
    BY <1>1 DEF Message, Part
  <2>2. Len(w) = 2 /\ m \in {1, 2} /\ w[1] = <<n, "head">>
    BY <2>1
  <2>3. SubSeq(w, 2, 2) = Part(c, n)
    BY <2>1, Second
  <2>4. SubSeq(w, 2, 1) = <<>> /\ SubSeq(w, 3, 2) = <<>>
    BY SubSeqEmpty
  <2>5. CASE m = 1
    BY <2>2, <2>3, <2>4, <2>5
  <2>6. CASE m = 2
    BY <2>2, <2>3, <2>4, <2>6
  <2>. QED  BY <2>2, <2>5, <2>6
<1>2. CASE ~Sent(c)[n].body
  <2>1. w = << <<n, "head">> >> /\ Part(c, n) = <<>>
    BY <1>2 DEF Message, Part
  <2>2. Len(w) = 1 /\ m = 1 /\ w[1] = <<n, "head">>
    BY <2>1
  <2>3. SubSeq(w, 2, 1) = <<>>
    BY SubSeqEmpty
  <2>. QED  BY <2>1, <2>2, <2>3
<1>. QED  BY <1>1, <1>2

\* One after the other.
LEMMA Pair ==
  ASSUME NEW a, NEW b
  PROVE  <<a>> \o <<b>> = <<a, b>>
<1>. DEFINE S == {a, b}
            s == <<a>> \o <<b>>
            t == <<a, b>>
<1>1. <<a>> \in Seq(S) /\ <<b>> \in Seq(S) /\ Len(<<a>>) = 1 /\ Len(<<b>>) = 1
      /\ <<a>>[1] = a /\ <<b>>[1] = b
  OBVIOUS
<1>2. s \in Seq(S) /\ Len(s) = 2 /\ s[1] = a /\ s[2] = b
  <2>1. /\ s \in Seq(S) /\ Len(s) = 1 + 1
        /\ \A i \in 1 .. 1 + 1 : s[i] = IF i <= 1 THEN <<a>>[i] ELSE <<b>>[i - 1]
    BY <1>1, ConcatProperties
  <2>. QED  BY <1>1, <2>1
<1>3. t \in Seq(S) /\ Len(t) = 2 /\ t[1] = a /\ t[2] = b
  OBVIOUS
<1>. HIDE DEF s, t, S
<1>4. \A i \in 1 .. Len(s) : s[i] = t[i]
  <2>. TAKE i \in 1 .. Len(s)
  <2>1. i = 1 \/ i = 2
    BY <1>2
  <2>. QED  BY <1>2, <1>3, <2>1
<1>5. s = t
  BY <1>2, <1>3, <1>4, SeqEqual
<1>. QED  BY <1>5 DEF s, t

\* What is sent to a connection on which there is nothing.
LEMMA FirstPart ==
  ASSUME NEW c, NEW n
  PROVE  <<>> \o << <<n, "head">> >>
           \o (IF Sent(c)[n].body THEN << <<n, "body">> >> ELSE <<>>) = Message(c, n)
<1>. DEFINE h == <<n, "head">>
            b == <<n, "body">>
            S == {h, b}
<1>1. <<>> \in Seq(S) /\ <<h>> \in Seq(S)
  OBVIOUS
<1>2. <<>> \o <<h>> = <<h>> /\ <<h>> \o <<>> = <<h>>
  BY <1>1, ConcatEmptySeq
<1>3. <<h>> \o <<b>> = <<h, b>>
  BY Pair
<1>4. Message(c, n) = IF Sent(c)[n].body THEN <<h, b>> ELSE <<h>>
  BY DEF Message
<1>. HIDE DEF h, b
<1>5. <<>> \o <<h>> \o (IF Sent(c)[n].body THEN <<b>> ELSE <<>>) = Message(c, n)
  BY <1>2, <1>3, <1>4
<1>. QED  BY <1>5 DEF h, b

\* What is sent and what is read, of requests of a plain source.
LEMMA PlainSource ==
  ASSUME CallsType, Arrival, Plain(load), NEW c \in Connections
  PROVE  /\ ~load.pipelined
         /\ pc[c] \in Busy => /\ req[c] \in 1 .. Len(Sent(c))
                              /\ Current(c).body = ReadsBody(Current(c))
<1>1. DOMAIN load.script[c] = 1 .. Len(Sent(c)) /\ Len(Sent(c)) \in Nat
  BY Script DEF Sent
<1>2. pc[c] \in Busy => req[c] \in 1 .. Len(Sent(c))
  BY <1>1 DEF Arrival, ConnectionTypes, Arrived
<1>. QED  BY <1>1, <1>2 DEF Plain, Current, Sent

\* A plain source sends when it has all its answers.
LEMMA SendOne ==
  ASSUME CallsType, Arrival, Plain(load), NEW c \in Connections, OneAtATime(c), Send(c)
  PROVE  OneAtATime(c)'
<1>1. /\ next[c] \in Nat /\ req[c] \in Nat /\ req[c] <= next[c] /\ next[c] < Len(Sent(c))
      /\ \A i \in 1 .. Len(answers[c]) : answers[c][i][1] \in Nat
      /\ DOMAIN answers[c] = 1 .. Len(answers[c])
  <2>1. next[c] \in Nat /\ req[c] \in Nat /\ answers[c] \in Seq(Nat \X Written)
    BY DEF Arrival, ConnectionTypes
  <2>2. req[c] <= next[c] /\ next[c] < Len(Sent(c))
    BY DEF Send, Arrival, Arrived
  <2>3. \A i \in 1 .. Len(answers[c]) : answers[c][i] \in Nat \X Written
    BY <2>1, ElementOfSeq
  <2>4. DOMAIN answers[c] = 1 .. Len(answers[c])
    BY <2>1, LenProperties
  <2>. QED  BY <2>1, <2>2, <2>3, <2>4
<1>2. next[c] = 0 \/ \E i \in 1 .. Len(answers[c]) : answers[c][i][1] = next[c]
  BY <1>1, PlainSource DEF Send
<1>3. pc[c] \in Places /\ Len(Sent(c)) \in Nat
  BY Script DEF CallsType
<1>4. pc[c] = "read" /\ req[c] = next[c] /\ wire[c] = <<>> /\ buffered[c] = <<>>
  <2>1. pc[c] \notin Busy
    <3>. SUFFICES ASSUME pc[c] \in Busy PROVE FALSE
      OBVIOUS
    <3>1. req[c] = next[c] /\ next[c] # 0 /\ pc[c] \notin {"read", "ended"}
      BY DEF OneAtATime, Arrival, Arrived, Busy
    <3>2. \A i \in 1 .. Len(answers[c]) : answers[c][i][1] <= req[c] - 1
      BY <3>1 DEF OneAtATime, Answered
    <3>. QED  BY <1>1, <1>2, <3>1, <3>2
  <2>2. pc[c] = "read"
    BY <1>1, <1>3, <2>1 DEF OneAtATime, Places, Busy
  <2>3. next[c] <= req[c]
    BY <1>1, <1>2, <2>2 DEF OneAtATime, Answered
  <2>. QED  BY <1>1, <2>2, <2>3 DEF OneAtATime
<1>. DEFINE n == next[c] + 1
            sum == wire[c] \o << <<n, "head">> >>
                     \o (IF Sent(c)[n].body THEN << <<n, "body">> >> ELSE <<>>)
<1>5. next' = [next EXCEPT ![c] = n] /\ wire' = [wire EXCEPT ![c] = sum]
      /\ UNCHANGED <<load, buffered, req, pc, status, answers>>
  BY DEF Send
<1>6. sum = Message(c, n)
  BY <1>4, FirstPart
<1>. HIDE DEF sum
<1>7. next'[c] = n /\ wire'[c] = sum
  BY <1>5 DEF Arrival, ConnectionTypes
<1>8. Message(c, next[c])' = Message(c, n)
  BY <1>5, <1>7 DEF Message, Sent
<1>. QED  BY <1>1, <1>4, <1>5, <1>6, <1>7, <1>8 DEF OneAtATime, Answered, Busy

\* The reader of a request finds its head, and takes or leaves its body.
LEMMA ReadOne ==
  ASSUME CallsType, Arrival, Plain(load), NEW c \in Connections, OneAtATime(c),
         ReadRequest(c)
  PROVE  OneAtATime(c)' /\ UNCHANGED crashed /\ req'[c] = req[c] + 1 /\ Goes(c, "open")
<1>1. /\ next[c] \in Nat /\ req[c] \in Nat /\ wire[c] \in Seq(Items)
      /\ \A i \in 1 .. Len(answers[c]) : answers[c][i][1] \in Nat
  BY ElementOfSeq DEF Arrival, ConnectionTypes
<1>2. pc[c] = "read" /\ wire[c] # <<>>
  BY DEF ReadRequest
<1>3. next[c] = req[c] + 1 /\ wire[c] = Message(c, next[c])
  BY <1>2 DEF OneAtATime
<1>. PICK m \in DOMAIN wire[c] :
            /\ buffered' = [buffered EXCEPT ![c] = SubSeq(wire[c], 2, m)]
            /\ wire' = [wire EXCEPT ![c] = SubSeq(wire[c], m + 1, Len(wire[c]))]
  BY DEF ReadRequest
<1>4. /\ wire[c][1] = <<next[c], "head">>
      /\ \/ buffered'[c] = Part(c, next[c]) /\ wire'[c] = <<>>
         \/ buffered'[c] = <<>> /\ wire'[c] = Part(c, next[c])
  <2>. DEFINE ahead == SubSeq(wire[c], 2, m)
              rest == SubSeq(wire[c], m + 1, Len(wire[c]))
  <2>1. /\ wire[c][1] = <<next[c], "head">>
        /\ \/ ahead = Part(c, next[c]) /\ rest = <<>>
           \/ ahead = <<>> /\ rest = Part(c, next[c])
    BY <1>3, ReadAhead
  <2>2. buffered' = [buffered EXCEPT ![c] = ahead] /\ wire' = [wire EXCEPT ![c] = rest]
    OBVIOUS
  <2>. HIDE DEF ahead, rest
  <2>3. buffered'[c] = ahead /\ wire'[c] = rest
    BY <2>2 DEF Arrival, ConnectionTypes
  <2>. QED  BY <2>1, <2>3
<1>5. /\ req' = [req EXCEPT ![c] = next[c]] /\ Goes(c, "open") /\ UNCHANGED crashed
      /\ UNCHANGED <<load, next, status, answers>>
  BY <1>4 DEF ReadRequest
<1>6. req'[c] = next[c] /\ pc'[c] = "open"
  BY <1>5 DEF Arrival, ConnectionTypes, CallsType, Goes
<1>7. Part(c, req[c])' = Part(c, next[c])
  BY <1>5, <1>6 DEF Part, Sent
<1>8. \A i \in 1 .. Len(answers[c]) : answers[c][i][1] <= req'[c] - 1
  <2>1. \A i \in 1 .. Len(answers[c]) : answers[c][i][1] <= req[c]
    BY <1>2 DEF OneAtATime, Answered
  <2>. QED  BY <1>1, <1>3, <1>6, <2>1
<1>. QED  BY <1>3, <1>4, <1>5, <1>6, <1>7, <1>8 DEF OneAtATime, Answered, Busy

\* The body of a request is all that is left of it.
LEMMA BodyOne ==
  ASSUME CallsType, Arrival, Plain(load), NEW c \in Connections, OneAtATime(c),
         ReadBody(c)
  PROVE  OneAtATime(c)' /\ UNCHANGED req /\ Goes(c, "handle")
<1>1. pc[c] = "body" /\ UNCHANGED <<load, next, req, status, answers>>
  BY DEF ReadBody
<1>2. Current(c).body
  BY <1>1, PlainSource DEF OneAtATime, Busy
<1>3. Part(c, req[c]) = << <<req[c], "body">> >>
  BY <1>2 DEF Part, Current
<1>4. \/ buffered[c] = << <<req[c], "body">> >> /\ wire[c] = <<>>
      \/ buffered[c] = <<>> /\ wire[c] = << <<req[c], "body">> >>
  BY <1>1, <1>3 DEF OneAtATime
<1>5. Goes(c, "handle")
      /\ \/ /\ buffered[c] # <<>> /\ wire' = wire
            /\ buffered' = [buffered EXCEPT ![c] = Tail(@)]
         \/ /\ buffered[c] = <<>>
            /\ \E n \in DOMAIN wire[c] :
                 /\ buffered' = [buffered EXCEPT ![c] = SubSeq(wire[c], 2, n)]
                 /\ wire' = [wire EXCEPT ![c] = SubSeq(wire[c], n + 1, Len(wire[c]))]
  BY <1>2 DEF ReadBody
<1>6. buffered'[c] = <<>> /\ wire'[c] = <<>>
  <2>1. CASE buffered[c] # <<>>
    <3>1. buffered'[c] = Tail(<< <<req[c], "body">> >>) /\ wire'[c] = wire[c]
      BY <1>4, <1>5, <2>1 DEF Arrival, ConnectionTypes
    <3>. QED  BY <1>4, <2>1, <3>1
  <2>2. CASE buffered[c] = <<>>
    <3>. PICK n \in DOMAIN wire[c] :
                /\ buffered' = [buffered EXCEPT ![c] = SubSeq(wire[c], 2, n)]
                /\ wire' = [wire EXCEPT ![c] = SubSeq(wire[c], n + 1, Len(wire[c]))]
      BY <1>5, <2>2
    <3>1. wire[c] = << <<req[c], "body">> >>
      BY <1>3, <1>4, <2>2
    <3>2. Len(wire[c]) = 1 /\ n = 1
      BY <3>1
    <3>3. SubSeq(wire[c], 2, 1) = <<>>
      BY SubSeqEmpty
    <3>. QED  BY <3>2, <3>3 DEF Arrival, ConnectionTypes
  <2>. QED  BY <2>1, <2>2
<1>7. pc'[c] = "handle"
  BY <1>5 DEF CallsType, Goes
<1>8. \A i \in 1 .. Len(answers[c]) : answers[c][i][1] <= req[c] - 1
  BY <1>1 DEF OneAtATime, Answered
<1>9. req[c] = next[c]
  BY <1>1 DEF OneAtATime, Busy
<1>10. OneAtATime(c)'
  BY <1>1, <1>6, <1>7, <1>8, <1>9 DEF OneAtATime, Answered, Busy
<1>. QED  BY <1>1, <1>5, <1>10

\* Where a request goes on without anything being read or sent.
LEMMA GoesOn ==
  ASSUME CallsType, Arrival, Plain(load), NEW c \in Connections, OneAtATime(c),
         Hangup(c) \/ Open(c) \/ Handle(c)
  PROVE  /\ OneAtATime(c)' /\ UNCHANGED <<load, req, answers>>
         /\ Answered(c)' = Answered(c)
<1>1. UNCHANGED <<load, next, wire, buffered, req, answers>>
  BY Handling DEF Hangup, Open
<1>2. UNCHANGED Current(c)
  BY <1>1 DEF Current, Sent
<1>3. pc[c] \in Busy => Current(c).body = ReadsBody(Current(c))
  BY PlainSource
<1>4. \/ pc[c] = "read" /\ pc'[c] = "ended" /\ next[c] = Len(Sent(c)) /\ wire[c] = <<>>
      \/ pc[c] = "open" /\ pc'[c] = IF ReadsBody(Current(c)) THEN "body" ELSE "handle"
      \/ pc[c] = "handle" /\ pc'[c] \in {"close", "teardown", "answer"}
      \/ pc[c] \in {"close", "teardown"} /\ pc'[c] = "answer"
  <2>1. CASE Hangup(c)
    <3>1. ~(pc[c] = "body" /\ ~Current(c).body)
      BY <1>3 DEF OneAtATime, Busy
    <3>. QED  BY <2>1, <3>1 DEF Hangup, Goes, CallsType
  <2>2. CASE Open(c)
    BY <2>2 DEF Open, Dispatches, Goes, CallsType
  <2>3. CASE Handle(c)
    BY <2>3, Handling DEF Goes, CallsType
  <2>. QED  BY <2>1, <2>2, <2>3
<1>5. Answered(c)' = Answered(c)
  BY <1>1, <1>4 DEF Answered
<1>6. \A i \in 1 .. Len(answers[c]) : answers[c][i][1] <= Answered(c)
  BY DEF OneAtATime
<1>7. Sent(c)' = Sent(c) /\ Part(c, req[c])' = Part(c, req[c])
      /\ ReadsBody(Current(c))' = ReadsBody(Current(c))
  BY <1>1 DEF Sent, Part, ReadsBody, Current
<1>8. CASE pc[c] = "read"
  <2>1. next[c] = req[c] /\ buffered[c] = <<>>
    <3>1. Message(c, next[c]) # <<>>
      BY DEF Message
    <3>. QED  BY <1>4, <1>8, <3>1 DEF OneAtATime
  <2>. QED  BY <1>1, <1>4, <1>5, <1>6, <1>7, <1>8, <2>1 DEF OneAtATime, Busy
<1>9. CASE pc[c] = "open"
  <2>1. /\ req[c] = next[c]
        /\ \/ buffered[c] = Part(c, req[c]) /\ wire[c] = <<>>
           \/ buffered[c] = <<>> /\ wire[c] = Part(c, req[c])
    BY <1>9 DEF OneAtATime, Busy
  <2>2. ~ReadsBody(Current(c)) => Part(c, req[c]) = <<>>
    BY <1>3, <1>9 DEF Part, Current, Busy
  <2>3. CASE ReadsBody(Current(c))
    BY <1>1, <1>4, <1>5, <1>6, <1>7, <1>9, <2>1, <2>3 DEF OneAtATime, Busy
  <2>4. CASE ~ReadsBody(Current(c))
    BY <1>1, <1>4, <1>5, <1>6, <1>7, <1>9, <2>1, <2>2, <2>4 DEF OneAtATime, Busy
  <2>. QED  BY <2>3, <2>4
<1>10. CASE pc[c] \in {"handle", "close", "teardown"}
  BY <1>1, <1>4, <1>5, <1>6, <1>10 DEF OneAtATime, Busy
<1>. QED  BY <1>1, <1>4, <1>5, <1>8, <1>9, <1>10

\* An answer is to the request that has been read last.
LEMMA AnswerOne ==
  ASSUME CallsType, Arrival, NEW c \in Connections, OneAtATime(c), Answer(c)
  PROVE  OneAtATime(c)'
<1>1. pc[c] = "answer" /\ pc'[c] = "read" /\ UNCHANGED <<load, next, wire, buffered, req>>
  BY DEF Answer, Goes, CallsType
<1>2. ConnectionTypes' /\ Arrived(c)'
  BY AnswerArrives
<1>3. req[c] = next[c] /\ buffered[c] = <<>> /\ wire[c] = <<>>
  BY <1>1 DEF OneAtATime, Busy
<1>4. Answered(c)' = req'[c]
  BY <1>1 DEF Answered
<1>. QED  BY <1>1, <1>2, <1>3, <1>4 DEF OneAtATime, Arrived, Busy

\* Plain sources have one request at a time on their connections.
PlainInv == Plain(load) => \A c \in Connections : OneAtATime(c)

\* No source has sent anything at the start.
LEMMA PlainInit == Init => PlainInv
BY DEF Init, PlainInv, OneAtATime, Answered, Busy

\* A step keeps what is on the connection of a plain source as it is described.
LEMMA PlainStep == Base /\ PlainInv /\ [Next]_vars => PlainInv'
<1>. SUFFICES ASSUME Base, PlainInv, [Next]_vars, Plain(load)'
              PROVE  \A d \in Connections : OneAtATime(d)'
  BY DEF PlainInv
<1>0. CallsType /\ Arrival /\ ConnectionTypes /\ pc \in [Connections -> Places]
  BY DEF Base, WaitInv, CallsType, Arrival
<1>1. ASSUME load' = load, NEW d \in Connections,
             /\ next'[d] = next[d] /\ wire'[d] = wire[d] /\ buffered'[d] = buffered[d]
             /\ req'[d] = req[d] /\ pc'[d] = pc[d] /\ answers'[d] = answers[d]
      PROVE  OneAtATime(d)'
  <2>1. OneAtATime(d)
    BY <1>1 DEF PlainInv, Plain
  <2>2. /\ Message(d, next[d])' = Message(d, next[d]) /\ Part(d, req[d])' = Part(d, req[d])
        /\ Sent(d)' = Sent(d) /\ Answered(d)' = Answered(d)
        /\ ReadsBody(Current(d))' = ReadsBody(Current(d))
    BY <1>1 DEF Message, Part, Sent, Answered, ReadsBody, Current
  <2>. QED  BY <1>1, <2>1, <2>2 DEF OneAtATime
<1>2. CASE UNCHANGED <<load, next, wire, buffered, req, pc, status, answers>>
  BY <1>1, <1>2
<1>3. ASSUME NEW c \in Connections,
             \/ Send(c) \/ Hangup(c) \/ ReadRequest(c) \/ Open(c) \/ ReadBody(c)
             \/ Handle(c) \/ Answer(c)
      PROVE  \A d \in Connections : OneAtATime(d)'
  <2>1. load' = load
    BY <1>0, <1>3, OtherConnections
  <2>2. Plain(load) /\ OneAtATime(c)
    BY <2>1 DEF PlainInv, Plain
  <2>3. OneAtATime(c)'
    BY <1>0, <1>3, <2>2, SendOne, ReadOne, BodyOne, GoesOn, AnswerOne
  <2>4. \A d \in Connections \ {c} : OneAtATime(d)'
    BY <1>0, <1>1, <1>3, <2>1, OtherConnections
  <2>. QED  BY <2>3, <2>4
<1>. QED  BY <1>2, <1>3, Aside DEF Next

\* Sources that send nothing wrong get one answer to each of their requests.
BareInv == Plain(load) /\ Bare(load) => \A c \in Connections : OneAnswer(c)

\* A request that is not wrong is answered with the default head only.
LEMMA BareHandling ==
  ASSUME CallsType, Arrival, SharedTypes, Bare(load), NEW c \in Connections, OneAnswer(c),
         Handle(c)
  PROVE  status'[c] = None /\ pc'[c] # "close"
<1>1. /\ status \in [Connections -> Written] /\ status[c] = None /\ pc[c] # "close"
      /\ pc \in [Connections -> Places]
  BY DEF Arrival, ConnectionTypes, OneAnswer, CallsType
<1>2. CASE pc[c] = "handle"
  <2>1. req[c] \in 1 .. Len(Sent(c)) /\ DOMAIN load.script[c] = 1 .. Len(Sent(c))
    BY <1>2, Script DEF Arrival, ConnectionTypes, Arrived, Busy, Sent
  <2>2. Current(c).says = "all" /\ Current(c).kind \notin {"UNKNOWN", "GET_PARAMETER"}
    BY <2>1 DEF Bare, Current, Sent, Usable
  <2>3. Accept(c) \/ Announce(c) \/ Setup(c) \/ ReportVolume(c) \/ Notify(c) \/ Metadata(c)
        \/ Teardown(c)
    BY <1>2, <2>2 DEF Handle, Refuse, NotFound, SetupCloses, GetParameter, Handles,
                      TeardownCloses, Usable
  <2>4. CASE Setup(c)
    <3>1. ~(unopened < load.sockets)
      BY DEF Bare, SharedTypes
    <3>2. Done(c, None)
      BY <2>4, <3>1 DEF Setup
    <3>. QED  BY <1>1, <3>2 DEF Done, Goes
  <2>5. CASE Announce(c)
    BY <1>1, <2>2, <2>5 DEF Announce, Done, Goes
  <2>6. CASE Accept(c) \/ ReportVolume(c) \/ Notify(c) \/ Metadata(c)
    <3>1. Done(c, None)
      BY <2>6 DEF Accept, ReportVolume, Notify, Metadata
    <3>. QED  BY <1>1, <3>1 DEF Done, Goes
  <2>7. CASE Teardown(c)
    BY <1>1, <2>7 DEF Teardown, Goes
  <2>. QED  BY <2>3, <2>4, <2>5, <2>6, <2>7
<1>3. CASE pc[c] = "teardown"
  <2>1. TeardownCloses(c)
    BY <1>3 DEF Handle, Refuse, NotFound, Accept, Announce, Setup, SetupCloses, GetParameter,
                ReportVolume, Notify, Metadata, Teardown, Handles
  <2>. QED  BY <1>1, <2>1 DEF TeardownCloses, Done, Goes
<1>. QED  BY <1>1, <1>2, <1>3, Handling

\* The answer to the next request comes after those before it.
LEMMA BareAnswer ==
  ASSUME CallsType, Arrival, NEW c \in Connections, OneAnswer(c), Answer(c)
  PROVE  OneAnswer(c)'
<1>. DEFINE head == << <<req[c], None>> >>
            sum == answers[c] \o head
            Answers == Nat \X Written
<1>1. pc[c] = "answer" /\ pc'[c] = "read" /\ req' = req /\ req[c] \in Nat /\ req[c] # 0
  BY DEF Answer, Goes, CallsType, Arrival, ConnectionTypes, Arrived, Busy
<1>2. status[c] = None /\ Len(answers[c]) = req[c] - 1
  BY <1>1 DEF OneAnswer, Answered
<1>3. answers[c] \in Seq(Answers) /\ head \in Seq(Answers) /\ Len(head) = 1
      /\ head[1] = <<req[c], None>>
  <2>1. <<req[c], None>> \in Answers
    BY <1>1 DEF Written
  <2>2. answers[c] \in Seq(Answers)
    BY DEF Arrival, ConnectionTypes
  <2>. HIDE DEF Answers
  <2>. QED  BY <2>1, <2>2
<1>. HIDE DEF Answers
<1>4. answers[c] \o <<>> = answers[c]
  BY <1>3, ConcatEmptySeq
<1>5. answers'[c] = sum /\ status'[c] = None /\ pc'[c] # "close"
  BY <1>1, <1>2, <1>4 DEF Answer, Arrival, ConnectionTypes
<1>. HIDE DEF head
<1>6. /\ Len(sum) = Len(answers[c]) + 1
      /\ \A i \in 1 .. Len(answers[c]) + 1 :
           sum[i] = IF i <= Len(answers[c]) THEN answers[c][i] ELSE head[i - Len(answers[c])]
  <2>1. /\ Len(sum) = Len(answers[c]) + Len(head)
        /\ \A i \in 1 .. Len(answers[c]) + Len(head) :
             sum[i] = IF i <= Len(answers[c]) THEN answers[c][i] ELSE head[i - Len(answers[c])]
    BY <1>3, ConcatProperties
  <2>. QED  BY <1>3, <2>1
<1>. HIDE DEF sum
<1>7. Len(sum) = req[c]
  BY <1>1, <1>2, <1>6
<1>8. \A i \in 1 .. Len(sum) : sum[i] = <<i, None>>
  <2>. TAKE i \in 1 .. Len(sum)
  <2>1. CASE i <= Len(answers[c])
    <3>1. i \in 1 .. Len(answers[c]) /\ i \in 1 .. Len(answers[c]) + 1
      BY <1>1, <1>2, <1>7, <2>1
    <3>2. sum[i] = answers[c][i]
      BY <1>6, <2>1, <3>1
    <3>. QED  BY <3>1, <3>2 DEF OneAnswer
  <2>2. CASE ~(i <= Len(answers[c]))
    <3>1. i = req[c] /\ i - Len(answers[c]) = 1
      BY <1>1, <1>2, <1>7, <2>2
    <3>. QED  BY <1>1, <1>2, <1>3, <1>6, <1>7, <2>2, <3>1
  <2>. QED  BY <2>1, <2>2
<1>9. Answered(c)' = req[c]
  BY <1>1 DEF Answered
<1>. QED  BY <1>5, <1>7, <1>8, <1>9 DEF OneAnswer

\* A step adds an answer at most, of the request that has been handled.
LEMMA BareStep == Base /\ PlainInv /\ BareInv /\ [Next]_vars => BareInv'
<1>. SUFFICES ASSUME Base, PlainInv, BareInv, [Next]_vars, Plain(load)', Bare(load)'
              PROVE  \A d \in Connections : OneAnswer(d)'
  BY DEF BareInv
<1>0. /\ CallsType /\ Arrival /\ SharedTypes /\ ConnectionTypes
      /\ pc \in [Connections -> Places]
  BY DEF Base, WaitInv, CallsType, Arrival
<1>1. ASSUME load' = load, NEW d \in Connections,
             status'[d] = status[d], answers'[d] = answers[d], Answered(d)' = Answered(d),
             pc'[d] = pc[d] \/ pc'[d] # "close"
      PROVE  OneAnswer(d)'
  BY <1>1 DEF BareInv, OneAnswer, Plain, Bare
<1>2. CASE UNCHANGED <<load, next, wire, buffered, req, pc, status, answers>>
  BY <1>1, <1>2 DEF Answered
<1>3. ASSUME NEW c \in Connections,
             \/ Send(c) \/ Hangup(c) \/ ReadRequest(c) \/ Open(c) \/ ReadBody(c)
             \/ Handle(c) \/ Answer(c)
      PROVE  \A d \in Connections : OneAnswer(d)'
  <2>1. load' = load
    BY <1>0, <1>3, OtherConnections
  <2>2. Plain(load) /\ Bare(load) /\ OneAtATime(c) /\ OneAnswer(c)
    BY <2>1 DEF PlainInv, BareInv, Plain, Bare
  <2>3. OneAnswer(c)'
    <3>1. CASE Answer(c)
      BY <1>0, <2>2, <3>1, BareAnswer
    <3>2. CASE Send(c)
      BY <1>1, <2>1, <3>2 DEF Send, Answered
    <3>3. CASE ReadRequest(c)
      <4>1. status' = status /\ answers' = answers /\ pc[c] = "read" /\ req[c] \in Nat
        BY <3>3 DEF ReadRequest, Base, Arrival, ConnectionTypes
      <4>2. req'[c] = req[c] + 1 /\ pc'[c] = "open"
        BY <1>0, <2>2, <3>3, ReadOne DEF Goes
      <4>. QED  BY <1>1, <2>1, <4>1, <4>2 DEF Answered
    <3>4. CASE ReadBody(c)
      <4>1. status' = status /\ answers' = answers /\ pc[c] = "body"
        BY <3>4 DEF ReadBody
      <4>2. req' = req /\ pc'[c] = "handle"
        BY <1>0, <2>2, <3>4, BodyOne DEF Goes
      <4>. QED  BY <1>1, <2>1, <4>1, <4>2 DEF Answered
    <3>5. CASE Hangup(c) \/ Open(c) \/ Handle(c)
      <4>1. answers' = answers /\ Answered(c)' = Answered(c)
        BY <1>0, <2>2, <3>5, GoesOn
      <4>2. status'[c] = status[c] /\ pc'[c] # "close"
        BY <1>0, <2>2, <3>5, BareHandling DEF Hangup, Open, Dispatches, Goes, OneAnswer
      <4>. QED  BY <1>1, <2>1, <4>1, <4>2
    <3>. QED  BY <1>3, <3>1, <3>2, <3>3, <3>4, <3>5
  <2>4. \A d \in Connections \ {c} : OneAnswer(d)'
    <3>. TAKE d \in Connections \ {c}
    <3>1. req'[d] = req[d] /\ pc'[d] = pc[d] /\ status'[d] = status[d]
          /\ answers'[d] = answers[d]
      BY <1>0, <1>3, OtherConnections
    <3>. QED  BY <1>1, <2>1, <3>1 DEF Answered
  <2>. QED  BY <2>3, <2>4
<1>. QED  BY <1>2, <1>3, Aside DEF Next

\* Nothing has been answered at first, and nothing read.
LEMMA BareInit == Init => BareInv
BY DEF Init, BareInv, OneAnswer, Answered

\* Every source that sends bodies where they are read, and nothing wrong, gets one
\* answer to each request, in their order, however many sources there are and
\* however much of the connection their readers take (Spec => []AnswersInOrder).
THEOREM OneAnswerInTurn == Spec => []AnswersInOrder
<1>1. Base /\ PlainInv /\ BareInv => AnswersInOrder
  <2>. SUFFICES ASSUME Base, PlainInv, BareInv, Plain(load), Bare(load), NEW c \in Connections
                PROVE  /\ pc[c] # "garbled"
                       /\ \A i \in DOMAIN answers[c] : answers[c][i] = <<i, None>>
    BY DEF AnswersInOrder
  <2>1. DOMAIN answers[c] = 1 .. Len(answers[c])
    BY DEF Base, Arrival, ConnectionTypes
  <2>. QED  BY <2>1 DEF PlainInv, BareInv, OneAtATime, OneAnswer
<1>. QED  BY <1>1, BaseInit, PlainInit, BareInit, BaseStep, PlainStep, BareStep, PTL DEF Spec

-----------------------------------------------------------------------------
(***************************************************************************)
(* The sessions.  TEARDOWN uses what SETUP has opened without looking; it  *)
(* is there whenever a source that keeps to the protocol has begun a       *)
(* session that it has not ended, whatever other sources send meanwhile,   *)
(* unless the sequencer has been stopped, for which TEARDOWN waits.        *)
(***************************************************************************)
\* The source whose sessions they are, of an orderly load.
Leads(l, s) ==
  /\ \A c \in Connections \ {s} : \A n \in DOMAIN l.script[c] :
       l.script[c][n].kind \notin {"SETUP", "TEARDOWN"}
  /\ \A n \in DOMAIN l.script[s] : l.script[s][n].kind = "TEARDOWN" =>
       \E m \in 1 .. n - 1 : /\ l.script[s][m].kind = "SETUP" /\ Usable(l.script[s][m])
                             /\ \A k \in m .. n - 1 : l.script[s][k].kind # "TEARDOWN"

\* Its first d requests have begun a session and not ended it.
Begun(s, d) ==
  \E m \in 1 .. d : /\ Sent(s)[m].kind = "SETUP" /\ Usable(Sent(s)[m])
                    /\ \A k \in m .. d : Sent(s)[k].kind # "TEARDOWN"

\* How many of its requests have had their effect.
Handled(c) == IF pc[c] \in {"read", "ended", "answer"} THEN req[c] ELSE req[c] - 1

\* Only a TEARDOWN is at what follows its callback.
TearingDown == \A c \in Connections : pc[c] = "teardown" => Current(c).kind = "TEARDOWN"

\* What a session that has been begun has, as long as the program runs.
Complete == sequencer = "stopped" \/ (sequencer = "runs" /\ fields = Fields)
SessionInv ==
  Plain(load) /\ ~crashed => \A s \in Connections : Leads(load, s) =>
    (Begun(s, Handled(s)) => Complete)

\* Unless one could not be opened, all connections are there or no control.
Together == unopened = 0 => ("control" \in fields => fields = Fields)

\* There is no session at the start, and none has been begun.
LEMMA SessionInit == Init => SessionInv /\ TearingDown /\ Together /\ NoPanic
<1>. SUFFICES ASSUME Init
              PROVE  SessionInv /\ TearingDown /\ Together /\ NoPanic
  OBVIOUS
<1>1. ASSUME NEW s \in Connections
      PROVE  ~Begun(s, Handled(s))
  <2>1. Handled(s) = 0
    BY DEF Init, Handled
  <2>. QED  BY <2>1 DEF Begun
<1>. QED  BY <1>1 DEF Init, SessionInv, TearingDown, Together, NoPanic

\* Only TEARDOWN goes to what follows its callback.
LEMMA TearingStep == Base /\ TearingDown /\ [Next]_vars => TearingDown'
<1>. SUFFICES ASSUME Base, TearingDown, [Next]_vars, NEW d \in Connections,
                     pc'[d] = "teardown"
              PROVE  Current(d)'.kind = "TEARDOWN"
  BY DEF TearingDown
<1>0. CallsType /\ ConnectionTypes /\ pc \in [Connections -> Places]
  BY DEF Base, WaitInv, CallsType, Arrival
<1>1. ASSUME load' = load, req'[d] = req[d]
      PROVE  Current(d)' = Current(d)
  BY <1>1 DEF Current, Sent
<1>2. CASE UNCHANGED <<load, next, wire, buffered, req, pc, status, answers>>
  BY <1>1, <1>2 DEF TearingDown
<1>3. ASSUME NEW c \in Connections,
             \/ Send(c) \/ Hangup(c) \/ ReadRequest(c) \/ Open(c) \/ ReadBody(c)
             \/ Handle(c) \/ Answer(c)
      PROVE  Current(d)'.kind = "TEARDOWN"
  <2>1. load' = load
    BY <1>0, <1>3, OtherConnections
  <2>2. CASE d # c
    BY <1>0, <1>1, <1>3, <2>1, <2>2, OtherConnections DEF TearingDown
  <2>3. CASE d = c
    <3>1. CASE Send(c) \/ ReadBody(c)
      <4>1. req' = req /\ pc[c] = "teardown"
        BY <1>0, <2>3, <3>1 DEF Send, ReadBody, Goes
      <4>. QED  BY <1>1, <2>1, <2>3, <4>1 DEF TearingDown
    <3>2. CASE Hangup(c) \/ ReadRequest(c) \/ Open(c) \/ Answer(c)
      BY <1>0, <2>3, <3>2 DEF Hangup, ReadRequest, Open, Dispatches, Answer, Goes
    <3>3. CASE Handle(c)
      <4>1. req' = req
        BY <3>3, Handling
      <4>2. Teardown(c)
        BY <1>0, <2>3, <3>3 DEF Handle, Refuse, NotFound, Accept, Announce, Setup, SetupCloses,
              GetParameter, ReportVolume, Notify, Metadata, TeardownCloses, Done, Goes
      <4>3. Current(c).kind = "TEARDOWN"
        BY <4>2 DEF Teardown, Handles
      <4>. QED  BY <1>1, <2>1, <2>3, <4>1, <4>3
    <3>. QED  BY <1>3, <3>1, <3>2, <3>3
  <2>. QED  BY <2>2, <2>3
<1>. QED  BY <1>2, <1>3, Aside DEF Next

\* A request other than these two neither begins a session nor ends one.
LEMMA BegunBefore ==
  ASSUME NEW s, NEW d \in Nat \ {0}, Begun(s, d)
  PROVE  /\ Sent(s)[d].kind # "TEARDOWN"
         /\ (Sent(s)[d].kind = "SETUP" /\ Usable(Sent(s)[d])) \/ Begun(s, d - 1)
<1>. PICK m \in 1 .. d : /\ Sent(s)[m].kind = "SETUP" /\ Usable(Sent(s)[m])
                         /\ \A k \in m .. d : Sent(s)[k].kind # "TEARDOWN"
  BY DEF Begun
<1>1. d \in m .. d
  OBVIOUS
<1>2. m # d => m \in 1 .. d - 1 /\ \A k \in m .. d - 1 : k \in m .. d
  OBVIOUS
<1>. QED  BY <1>1, <1>2 DEF Begun

\* Where a handler begins, where it ends, and what it does to the session.
LEMMA HandlerEffects ==
  ASSUME CallsType, TearingDown, NEW c \in Connections, Handle(c)
  PROVE  \/ /\ Teardown(c) /\ pc[c] = "handle" /\ pc'[c] = "teardown"
            /\ UNCHANGED <<session, crashed>>
         \/ /\ Current(c).kind = "TEARDOWN" /\ pc[c] = "teardown" /\ pc'[c] = "answer"
            /\ sequencer # "stopped" /\ crashed' = (sequencer = None \/ fields # Fields)
            /\ fields' = fields \ {"control"} /\ UNCHANGED <<sequencer, unopened>>
         \/ Setup(c)
         \/ /\ pc[c] = "close" /\ pc'[c] = "answer" /\ sequencer' = "stopped"
            /\ UNCHANGED <<fields, unopened, crashed>>
         \/ /\ Current(c).kind # "TEARDOWN"
            /\ ~(Current(c).kind = "SETUP" /\ Usable(Current(c)))
            /\ pc[c] = "handle" /\ pc'[c] = "answer"
            /\ UNCHANGED <<sequencer, fields, unopened>>
            /\ \/ crashed' = crashed \/ crashed' = Panics(String(load.format, load.song.data))
               \/ Current(c).kind = "ANNOUNCE" /\ Current(c).says = "no key"
<1>1. CASE Refuse(c) \/ NotFound(c) \/ Accept(c) \/ GetParameter(c) \/ ReportVolume(c)
           \/ Notify(c)
  <2>1. /\ pc[c] = "handle" /\ pc' = [pc EXCEPT ![c] = "answer"]
        /\ Current(c).kind # "TEARDOWN"
        /\ ~(Current(c).kind = "SETUP" /\ Usable(Current(c)))
    BY <1>1 DEF Refuse, NotFound, Accept, GetParameter, ReportVolume, Notify, Handles, Done,
                Goes
  <2>2. UNCHANGED <<sequencer, fields, unopened, crashed>>
    BY <1>1 DEF Refuse, NotFound, Accept, GetParameter, ReportVolume, Notify, raop, session
  <2>. QED  BY <2>1, <2>2 DEF CallsType
<1>2. CASE Metadata(c)
  BY <1>2 DEF Metadata, Handles, Done, Goes, CallsType, session
<1>3. CASE Announce(c)
  <2>1. /\ pc[c] = "handle" /\ pc' = [pc EXCEPT ![c] = "answer"]
        /\ Current(c).kind = "ANNOUNCE" /\ UNCHANGED <<sequencer, fields, unopened>>
    BY <1>3 DEF Announce, Handles, Done, Goes
  <2>2. crashed' = crashed \/ Current(c).says = "no key"
    BY <1>3 DEF Announce
  <2>. QED  BY <2>1, <2>2 DEF CallsType
<1>4. CASE Teardown(c)
  BY <1>4 DEF Teardown, Handles, Goes, CallsType, raop
<1>5. CASE TeardownCloses(c)
  BY <1>5 DEF TeardownCloses, TearingDown, Done, Goes, CallsType
<1>6. CASE SetupCloses(c)
  BY <1>6 DEF SetupCloses, Done, Goes, CallsType
<1>. QED  BY <1>1, <1>2, <1>3, <1>4, <1>5, <1>6 DEF Handle

\* A SETUP finds all connections or opens them, or it goes to stop the sequencer;
\* it panics only if one could not be opened before.
LEMMA SetupEffects ==
  ASSUME CallsType, SharedTypes, Together, NEW c \in Connections, Setup(c)
  PROVE  /\ Current(c).kind = "SETUP" /\ pc[c] = "handle" /\ Together'
         /\ sequencer' = IF sequencer = None THEN "runs" ELSE sequencer
         /\ \/ /\ pc'[c] = "answer" /\ crashed' = (fields' # Fields)
               /\ unopened' = unopened /\ (crashed' => unopened # 0)
            \/ /\ pc'[c] = "close" /\ unopened' # 0 /\ UNCHANGED crashed
               /\ "control" \notin fields
<1>1. /\ Current(c).kind = "SETUP" /\ pc[c] = "handle" /\ pc \in [Connections -> Places]
      /\ sequencer' = IF sequencer = None THEN "runs" ELSE sequencer
  BY DEF Setup, Handles, CallsType
<1>. PICK opening \in Openings :
       /\ fields' = (fields \ opening[2]) \union opening[1]
       /\ \/ /\ opening[2] = {} /\ crashed' = (fields' # Fields)
             /\ Goes(c, "answer") /\ unopened' = unopened
          \/ /\ opening[2] # {} /\ unopened' = unopened + 1
             /\ Goes(c, "close") /\ UNCHANGED crashed
  BY DEF Setup, Done
<1>2. CASE opening[2] = {}
  <2>1. pc'[c] = "answer" /\ crashed' = (fields' # Fields) /\ unopened' = unopened
    BY <1>1, <1>2 DEF Goes
  <2>2. fields' = Fields \/ ("control" \in fields /\ fields' = fields)
    <3>1. CASE "control" \in fields
      <4>1. opening = <<{}, {}>>
        BY <3>1 DEF Openings
      <4>. QED  BY <3>1, <4>1
    <3>2. CASE "control" \notin fields
      <4>1. opening = <<Fields, {}>>
        BY <1>2, <3>2 DEF Openings
      <4>. QED  BY <4>1 DEF SharedTypes
    <3>. QED  BY <3>1, <3>2
  <2>. QED  BY <1>1, <2>1, <2>2 DEF Together
<1>3. CASE opening[2] # {}
  <2>1. pc'[c] = "close" /\ unopened' # 0 /\ UNCHANGED crashed
    BY <1>1, <1>3 DEF Goes, SharedTypes
  <2>2. "control" \notin fields
    BY <1>3 DEF Openings
  <2>. QED  BY <1>1, <2>1, <2>2 DEF Together
<1>. QED  BY <1>2, <1>3

\* What is not a handler leaves the session alone.
LEMMA SessionUntouched ==
  ASSUME CallsType, Arrival, Plain(load), NEW c \in Connections, OneAtATime(c),
         Send(c) \/ Hangup(c) \/ ReadRequest(c) \/ Open(c) \/ ReadBody(c) \/ Answer(c)
  PROVE  UNCHANGED <<session, crashed>> /\ Handled(c)' = Handled(c)
<1>1. UNCHANGED <<session, crashed>>
  BY ReadOne DEF Send, Hangup, ReadRequest, Open, ReadBody, Answer, raop
<1>2. CASE ReadRequest(c)
  <2>1. pc[c] = "read" /\ pc'[c] = "open" /\ req'[c] = req[c] + 1 /\ req[c] \in Nat
    BY <1>2, ReadOne DEF ReadRequest, Goes, CallsType, Arrival, ConnectionTypes
  <2>2. Handled(c) = req[c]
    BY <2>1 DEF Handled
  <2>3. Handled(c)' = req'[c] - 1
    BY <2>1 DEF Handled
  <2>4. req'[c] - 1 = req[c]
    BY <2>1
  <2>. QED  BY <1>1, <2>2, <2>3, <2>4
<1>3. CASE Send(c) \/ Hangup(c) \/ Open(c) \/ ReadBody(c) \/ Answer(c)
  <2>1. req' = req
    BY <1>3 DEF Send, Hangup, Open, ReadBody, Answer
  <2>2. \/ pc'[c] = pc[c]
        \/ pc[c] \in {"read", "answer"} /\ pc'[c] \in {"read", "ended"}
        \/ pc[c] \in {"open", "body"} /\ pc'[c] \in {"body", "handle"}
    BY <1>3 DEF Send, Hangup, Open, Dispatches, ReadBody, Answer, Goes, CallsType
  <2>. QED  BY <1>1, <2>1, <2>2 DEF Handled
<1>. QED  BY <1>2, <1>3

\* Printing nothing does not panic.
LEMMA NothingPanics == ~Panics(<<>>)
BY DEF Panics

\* The metadata of a load prints without a panic.
LEMMA SongDoesNotPanic ==
  ASSUME NEW l \in Loads, Whole(l.song) \/ l.format = ""
  PROVE  ~Panics(String(l.format, l.song.data))
<1>1. IsTree(l.song.tree) /\ (l.format # "" => l.song.data = Data[l.song.tree])
  BY ControlAssumption DEF Whole
<1>2. CASE l.format \in {"xml", "json"}
  BY <1>1, <1>2, PrintsWithoutPanic
<1>3. CASE l.format \notin {"xml", "json"}
  <2>1. String(l.format, l.song.data) = <<>>
    BY <1>3 DEF String
  <2>. QED  BY <2>1, NothingPanics
<1>. QED  BY <1>2, <1>3

\* The metadata of a load prints as its song, if every entry fits.
LEMMA SongIsTold ==
  ASSUME NEW l \in Loads, Whole(l.song), l.format \in {"xml", "json"},
         AllFit(l.format = "json", l.song.tree)
  PROVE  LET out == String(l.format, l.song.data)
             json == l.format = "json"
         IN  Readable(json, out) /\ Tells(json, out, l.song.tree)
<1>1. IsTree(l.song.tree) /\ l.song.data = Data[l.song.tree]
  BY ControlAssumption DEF Whole
<1>. QED  BY <1>1, PrintsTheTree

\* Other goroutines change nothing of the session.
LEMMA OthersLeaveSession ==
  ASSUME \/ \E g \in Goroutines : CallStep(g)
         \/ TakeReport \/ TakeTarget \/ Resolved \/ TakeCommand \/ HttpDone
         \/ UNCHANGED vars
  PROVE  UNCHANGED <<session, metadata, crashed>>
BY DEF CallStep, CallVolume, CallCommand, CallMode, TakeReport, TakeTarget, Resolved,
       TakeCommand, HttpDone, vars, raop

\* A step keeps the session of a source that has begun it.
LEMMA SessionStep ==
  Base /\ PlainInv /\ TearingDown /\ Together /\ SessionInv /\ ~crashed /\ [Next]_vars
    => SessionInv'
<1>. SUFFICES ASSUME Base, PlainInv, TearingDown, Together, SessionInv, ~crashed,
                     [Next]_vars, Plain(load)', ~crashed',
                     NEW s \in Connections, Leads(load, s)', Begun(s, Handled(s))'
              PROVE  Complete'
  BY DEF SessionInv
<1>0. /\ CallsType /\ Arrival /\ SharedTypes /\ ConnectionTypes
      /\ pc \in [Connections -> Places]
  BY DEF Base, WaitInv, CallsType, Arrival
<1>1. load' = load
  BY <1>0, Aside, OtherConnections DEF Next
<1>2. Plain(load) /\ Leads(load, s)
  BY <1>1 DEF Plain, Leads
<1>3. Begun(s, Handled(s)) => Complete
  BY <1>2 DEF SessionInv
<1>4. ASSUME NEW d, Handled(s)' = d
      PROVE  Begun(s, d)
  BY <1>1, <1>4 DEF Begun, Sent
<1>5. CASE UNCHANGED <<sequencer, fields>> /\ Handled(s)' = Handled(s)
  BY <1>3, <1>4, <1>5 DEF Complete
<1>6. CASE \/ \E g \in Goroutines : CallStep(g)
           \/ TakeReport \/ TakeTarget \/ Resolved \/ TakeCommand \/ HttpDone
           \/ UNCHANGED vars
  <2>1. UNCHANGED session
    BY <1>6, OthersLeaveSession
  <2>2. Handled(s)' = Handled(s)
    BY <1>6, Aside DEF Handled
  <2>. QED  BY <1>5, <2>1, <2>2 DEF session
<1>7. ASSUME NEW c \in Connections,
             \/ Send(c) \/ Hangup(c) \/ ReadRequest(c) \/ Open(c) \/ ReadBody(c)
             \/ Handle(c) \/ Answer(c)
      PROVE  Complete'
  <2>1. OneAtATime(c)
    BY <1>2 DEF PlainInv
  <2>2. s # c => Handled(s)' = Handled(s)
    BY <1>0, <1>7, OtherConnections DEF Handled
  <2>3. CASE ~Handle(c)
    BY <1>0, <1>2, <1>5, <1>7, <2>1, <2>2, <2>3, SessionUntouched DEF session
  <2>4. CASE Handle(c)
    <3>1. req' = req /\ req[c] \in 1 .. Len(Sent(c)) /\ DOMAIN load.script[c] = 1 .. Len(Sent(c))
          /\ req[c] \in Nat \ {0}
      <4>1. pc[c] \in Busy
        BY <2>4, Handling DEF Busy
      <4>2. req[c] \in 1 .. Len(Sent(c)) /\ req[c] \in Nat \ {0}
        BY <1>0, <1>2, <4>1, PlainSource DEF Arrival, Arrived, ConnectionTypes
      <4>. QED  BY <1>0, <2>4, <4>2, Handling, Script DEF Sent
    <3>2. Current(c) = load.script[c][req[c]] /\ Current(c) = Sent(c)[req[c]]
      BY DEF Current, Sent
    <3>3. c # s => Current(c).kind \notin {"SETUP", "TEARDOWN"}
      BY <1>2, <3>1, <3>2 DEF Leads
    <3>4. CASE Teardown(c) /\ UNCHANGED <<session, crashed>>
               /\ pc[c] = "handle" /\ pc'[c] = "teardown"
      <4>1. Handled(s)' = Handled(s)
        BY <2>2, <3>1, <3>4 DEF Handled
      <4>. QED  BY <1>5, <3>4, <4>1 DEF session
    <3>5. CASE Current(c).kind = "TEARDOWN" /\ pc[c] = "teardown" /\ pc'[c] = "answer"
      <4>1. c = s
        BY <3>3, <3>5
      <4>2. Handled(s)' = req[s]
        BY <3>1, <3>5, <4>1 DEF Handled
      <4>. QED  BY <1>4, <3>1, <3>2, <3>5, <4>1, <4>2, BegunBefore
    <3>6. CASE Setup(c)
      <4>1. c = s /\ pc[c] = "handle"
        BY <1>0, <3>3, <3>6, SetupEffects
      <4>2. CASE pc'[c] = "answer"
        <5>1. fields' = Fields /\ sequencer' # None
          BY <1>0, <3>6, <4>2, SetupEffects DEF None
        <5>2. sequencer' \in {None, "runs", "stopped"}
          BY <1>0, <2>4, HandleTypes DEF SharedTypes
        <5>. QED  BY <5>1, <5>2 DEF Complete
      <4>3. CASE pc'[c] = "close"
        <5>1. Handled(s)' = Handled(s)
          BY <3>1, <4>1, <4>3 DEF Handled
        <5>2. Complete /\ "control" \notin fields
          BY <1>0, <1>3, <1>4, <3>6, <4>3, <5>1, SetupEffects
        <5>3. sequencer = "stopped" /\ sequencer' = "stopped"
          BY <1>0, <3>6, <5>2, SetupEffects DEF Complete, Fields, None
        <5>. QED  BY <5>3 DEF Complete
      <4>. QED  BY <1>0, <3>6, <4>2, <4>3, SetupEffects
    <3>7. CASE sequencer' = "stopped"
      BY <3>7 DEF Complete
    <3>8. CASE /\ Current(c).kind # "TEARDOWN"
               /\ ~(Current(c).kind = "SETUP" /\ Usable(Current(c)))
               /\ pc[c] = "handle" /\ pc'[c] = "answer"
               /\ UNCHANGED <<sequencer, fields>>
      <4>1. CASE c # s
        BY <1>5, <2>2, <3>8, <4>1
      <4>2. CASE c = s
        <5>1. Handled(s) = req[s] - 1 /\ Handled(s)' = req[s]
          BY <3>1, <3>8, <4>2 DEF Handled
        <5>2. Begun(s, Handled(s))
          BY <1>4, <3>1, <3>2, <3>8, <4>2, <5>1, BegunBefore
        <5>. QED  BY <1>3, <3>8, <5>2 DEF Complete
      <4>. QED  BY <4>1, <4>2
    <3>. QED  BY <1>0, <2>4, <3>4, <3>5, <3>6, <3>7, <3>8, HandlerEffects
  <2>. QED  BY <2>3, <2>4
<1>. QED  BY <1>6, <1>7 DEF Next

\* Connections that are open are not lost, and closed together.
LEMMA TogetherStep ==
  Base /\ TearingDown /\ Together /\ [Next]_vars => Together'
<1>. SUFFICES ASSUME Base, TearingDown, Together, [Next]_vars
              PROVE  Together'
  OBVIOUS
<1>0. CallsType /\ SharedTypes
  BY DEF Base, WaitInv
<1>1. CASE UNCHANGED <<fields, unopened>>
  BY <1>1 DEF Together
<1>2. CASE \/ \E g \in Goroutines : CallStep(g)
           \/ TakeReport \/ TakeTarget \/ Resolved \/ TakeCommand \/ HttpDone
           \/ UNCHANGED vars
  BY <1>1, <1>2, OthersLeaveSession DEF session
<1>3. ASSUME NEW c \in Connections, Handle(c)
      PROVE  Together'
  <2>1. CASE Setup(c)
    BY <1>0, <2>1, SetupEffects
  <2>2. CASE fields' = fields \ {"control"}
    BY <2>2 DEF Together
  <2>. QED  BY <1>0, <1>1, <1>3, <2>1, <2>2, HandlerEffects DEF session
<1>4. ASSUME NEW c \in Connections,
             Send(c) \/ Hangup(c) \/ ReadRequest(c) \/ Open(c) \/ ReadBody(c) \/ Answer(c)
      PROVE  Together'
  BY <1>1, <1>4 DEF Send, Hangup, ReadRequest, Open, ReadBody, Answer, raop, session
<1>. QED  BY <1>2, <1>3, <1>4 DEF Next

\* Nothing goes on after a panic.
LEMMA Ends == crashed /\ [Next]_vars => UNCHANGED vars
<1>. SUFFICES ASSUME crashed, Next
              PROVE  FALSE
  OBVIOUS
<1>1. ~\E c \in Connections : Handle(c)
  BY DEF Handle, Refuse, NotFound, Accept, Announce, Setup, SetupCloses, GetParameter,
         ReportVolume, Notify, Metadata, Teardown, TeardownCloses, Handles
<1>2. ~\E c \in Connections :
          Send(c) \/ Hangup(c) \/ ReadRequest(c) \/ Open(c) \/ ReadBody(c) \/ Answer(c)
  BY DEF Send, Hangup, ReadRequest, Open, ReadBody, Answer
<1>3. ~\E g \in Goroutines : CallStep(g)
  BY DEF CallStep, CallVolume, CallCommand, CallMode
<1>4. ~(TakeReport \/ TakeTarget \/ Resolved \/ TakeCommand \/ HttpDone)
  BY DEF TakeReport, TakeTarget, Resolved, TakeCommand, HttpDone
<1>. QED  BY <1>1, <1>2, <1>3, <1>4 DEF Next

\* A step panics only if it is a SETUP after one whose connections could not be
\* opened.
LEMMA PanicStep ==
  Base /\ PlainInv /\ TearingDown /\ Together /\ SessionInv /\ NoPanic /\ [Next]_vars
    => NoPanic' /\ SessionInv'
<1>. SUFFICES ASSUME Base, PlainInv, TearingDown, Together, SessionInv, NoPanic, [Next]_vars
              PROVE  NoPanic' /\ SessionInv'
  OBVIOUS
<1>0. /\ CallsType /\ Arrival /\ SharedTypes /\ ConnectionTypes
      /\ pc \in [Connections -> Places]
  BY DEF Base, WaitInv, CallsType, Arrival
<1>1. CASE crashed
  <2>1. UNCHANGED <<load, pc, req, crashed, unopened>>
    BY <1>1, Ends DEF vars, connection, raop, session
  <2>2. NoPanic'
    <3>1. (Plain(load)' <=> Plain(load)) /\ (Keyed(load)' <=> Keyed(load))
      BY <2>1 DEF Plain, Keyed
    <3>2. Orderly(load)' <=> Orderly(load)
      BY <2>1 DEF Orderly
    <3>3. Whole(load.song)' <=> Whole(load.song)
      BY <2>1 DEF Whole
    <3>4. \A c \in Connections : Current(c)' = Current(c)
      BY <2>1 DEF Current, Sent
    <3>. QED  BY <2>1, <3>1, <3>2, <3>3, <3>4 DEF NoPanic
  <2>3. SessionInv'
    BY <1>1, <2>1 DEF SessionInv
  <2>. QED  BY <2>2, <2>3
<1>2. CASE ~crashed
  <2>1. SessionInv'
    BY <1>2, SessionStep
  <2>2. load' = load
    BY <1>0, Aside, OtherConnections DEF Next
  <2>20. /\ Plain(load)' <=> Plain(load)
         /\ Keyed(load)' <=> Keyed(load)
         /\ Whole(load.song)' <=> Whole(load.song)
    BY <2>2 DEF Plain, Keyed, Whole
  <2>21. Orderly(load)' <=> Orderly(load)
    BY <2>2 DEF Orderly
  <2>. SUFFICES ASSUME Plain(load)', Orderly(load)', Keyed(load)',
                       (Whole(load.song) \/ load.format = "")', crashed'
                PROVE  /\ unopened' # 0
                       /\ \E c \in Connections : pc'[c] = "answer" /\ Current(c)'.kind = "SETUP"
    BY <2>1 DEF NoPanic
  <2>3. Plain(load) /\ Orderly(load) /\ Keyed(load) /\ (Whole(load.song) \/ load.format = "")
    BY <2>2, <2>20, <2>21
  <2>. PICK s \in Connections : Leads(load, s)
    BY <2>3 DEF Orderly, Leads
  <2>4. PICK c \in Connections :
          \/ Send(c) \/ Hangup(c) \/ ReadRequest(c) \/ Open(c) \/ ReadBody(c)
          \/ Handle(c) \/ Answer(c)
    BY <1>2, OthersLeaveSession DEF Next
  <2>5. Handle(c)
    <3>1. OneAtATime(c)
      BY <2>3 DEF PlainInv
    <3>. QED  BY <1>0, <1>2, <2>3, <2>4, <3>1, SessionUntouched
  <2>6. /\ req' = req /\ req[c] \in 1 .. Len(Sent(c)) /\ req[c] \in Nat \ {0}
        /\ DOMAIN load.script[c] = 1 .. Len(Sent(c))
    <3>1. pc[c] \in Busy
      BY <2>5, Handling DEF Busy
    <3>2. req[c] \in 1 .. Len(Sent(c)) /\ req[c] \in Nat \ {0}
      BY <1>0, <2>3, <3>1, PlainSource DEF Arrival, Arrived, ConnectionTypes
    <3>. QED  BY <1>0, <2>5, <3>2, Handling, Script DEF Sent
  <2>7. Current(c) = load.script[c][req[c]] /\ Current(c) = Sent(c)[req[c]]
        /\ Current(c)' = Current(c)
    BY <2>2, <2>6 DEF Current, Sent
  <2>8. CASE Setup(c)
    BY <1>0, <1>2, <2>7, <2>8, SetupEffects
  <2>9. CASE /\ Current(c).kind = "TEARDOWN" /\ pc[c] = "teardown"
             /\ sequencer # "stopped" /\ crashed' = (sequencer = None \/ fields # Fields)
    <3>1. c = s
      BY <2>6, <2>7, <2>9 DEF Leads
    <3>2. Handled(s) = req[s] - 1
      BY <2>9, <3>1 DEF Handled
    <3>3. Begun(s, req[s] - 1)
      BY <2>6, <2>7, <2>9, <3>1 DEF Leads, Begun, Sent
    <3>4. Complete
      BY <1>2, <2>3, <3>2, <3>3 DEF SessionInv
    <3>. QED  BY <2>9, <3>4 DEF Complete, None
  <2>10. ~Panics(String(load.format, load.song.data))
    BY <1>0, <2>3, SongDoesNotPanic DEF CallsType
  <2>11. ~(Current(c).kind = "ANNOUNCE" /\ Current(c).says = "no key")
    BY <2>3, <2>6, <2>7 DEF Keyed
  <2>. QED  BY <1>0, <1>2, <2>5, <2>8, <2>9, <2>10, <2>11, HandlerEffects
<1>. QED  BY <1>1, <1>2

\* No source that keeps to the protocol makes TEARDOWN use a session that is not
\* there, reads a body as a head, or finds an entry of its metadata without an
\* end, whatever the others and the sink do, and whichever connections of its
\* sessions cannot be opened; a SETUP panics only after one that could not open
\* its own.
THEOREM SessionsDoNotPanic == Spec => []NoPanic
<1>. QED
  BY BaseInit, PlainInit, SessionInit, BaseStep, PlainStep, TearingStep, TogetherStep,
     PanicStep, PTL DEF Spec

-----------------------------------------------------------------------------
(***************************************************************************)
(* The metadata.  The sink has been told nothing, or what the data of its  *)
(* source prints as.                                                       *)
(***************************************************************************)
MetadataInv == metadata = <<>> \/ metadata = String(load.format, load.song.data)

\* What data prints as tells the song.
LEMMA MetadataSuffices == Base /\ MetadataInv => MetadataIsWhole
<1>. SUFFICES ASSUME Base, MetadataInv, metadata # <<>>, Whole(load.song),
                     AllFit(load.format = "json", load.song.tree)
              PROVE  LET json == load.format = "json"
                     IN  /\ Readable(json, metadata)
                         /\ Tells(json, metadata, load.song.tree)
  BY DEF MetadataIsWhole
<1>1. load \in Loads
  BY DEF Base, WaitInv, CallsType
<1>2. metadata = String(load.format, load.song.data)
  BY DEF MetadataInv
<1>3. load.format \in {"xml", "json"}
  BY <1>2 DEF String
<1>. QED  BY <1>1, <1>2, <1>3, SongIsTold

\* Only SET_PARAMETER with metadata changes what the sink has been told.
LEMMA MetadataStep == Base /\ MetadataInv /\ [Next]_vars => MetadataInv'
<1>. SUFFICES ASSUME Base, MetadataInv, [Next]_vars
              PROVE  MetadataInv'
  OBVIOUS
<1>0. CallsType /\ ConnectionTypes /\ pc \in [Connections -> Places]
  BY DEF Base, WaitInv, CallsType, Arrival
<1>1. load' = load
  BY <1>0, Aside, OtherConnections DEF Next
<1>2. CASE UNCHANGED metadata
  BY <1>1, <1>2 DEF MetadataInv
<1>3. CASE \E c \in Connections : Metadata(c)
  BY <1>1, <1>3 DEF Metadata, MetadataInv
<1>4. CASE \/ UNCHANGED vars
           \/ \E g \in Goroutines : CallStep(g)
           \/ TakeReport \/ TakeTarget \/ Resolved \/ TakeCommand \/ HttpDone
  BY <1>2, <1>4 DEF CallStep, CallVolume, CallCommand, CallMode, TakeReport, TakeTarget,
     Resolved, TakeCommand, HttpDone, vars, raop
<1>5. ASSUME NEW c \in Connections,
             Send(c) \/ Hangup(c) \/ ReadRequest(c) \/ Open(c) \/ ReadBody(c) \/ Answer(c)
      PROVE  UNCHANGED metadata
  BY <1>5 DEF Send, Hangup, ReadRequest, Open, ReadBody, Answer, raop
<1>6. ASSUME NEW c \in Connections, Handle(c), ~Metadata(c)
      PROVE  UNCHANGED metadata
  BY <1>6 DEF Handle, Refuse, Accept, Announce, Setup, GetParameter, ReportVolume, Notify,
     Teardown, TeardownCloses, NotFound, SetupCloses, raop
<1>. QED  BY <1>2, <1>3, <1>4, <1>5, <1>6 DEF Next

\* What the sink is told of a track can be read, and names the entries that the
\* source has sent, in their order, at their depths and with their values,
\* whatever tree they are, if each of them fits the format.
THEOREM MetadataIsTold == Spec => []MetadataIsWhole
<1>1. Init => MetadataInv
  BY DEF Init, MetadataInv
<1>. QED  BY <1>1, BaseInit, BaseStep, MetadataStep, MetadataSuffices, PTL DEF Spec
=============================================================================
