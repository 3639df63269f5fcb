----------------------------- MODULE VolumeProofs -----------------------------
(***************************************************************************)
(* Proofs about the volume handler, for every slider, center band, channel *)
(* capacity and budget: its types, and that as long as the source takes    *)
(* volumes directly the handler's changes are not taken for its user's.    *)
(***************************************************************************)
EXTENDS Volume, SequenceTheorems, TLAPS

Levels == Volumes \union {0}
Sends == {"none", "setproperty", "volumeup", "volumedown"}
CallType == [cmd : Sends, target : Levels, current : Levels]

\* What TypeOK says, and what the handler goes on with.
VolumeTypes ==
  /\ TypeOK
  /\ call \in CallType
  /\ call.cmd # "none" => call.target \in Volumes
  /\ pc = "finder" => targetVolume \in Volumes
  /\ told \in [step : {0, 1000, -1000}, own : BOOLEAN]

\* The ends, the center and the volumes between them are whole numbers.
LEMMA VolumesAreIntegers ==
  /\ Volumes \subseteq Int /\ Center \in Volumes /\ MinVolume \in Volumes
  /\ Levels \subseteq Int /\ Band \in Nat
BY VolumeAssumption DEF Volumes, Levels

\* A step of the slider is a command, or none.
LEMMA StepSends == \A a, b : Step(a, b) \in Sends
BY DEF Step, Sends

\* Whatever volChange sends is a command that names a volume.
LEMMA VolChangeTypes ==
  ASSUME NEW target \in Volumes, NEW current \in Levels, VolChange(target, current)
  PROVE  call' \in CallType /\ call'.target = target
BY StepSends DEF VolChange, CallType, Sends, Levels

\* The handler enters the loop of a mode.
LEMMA EnterModeTypes ==
  ASSUME VolumeTypes, Waits, NEW absolute \in BOOLEAN, NEW volume \in Levels,
         EnterMode(absolute, volume)
  PROVE  /\ pc' \in {"normal", "relative"} /\ centered' \in BOOLEAN
         /\ call' \in CallType /\ (call'.cmd # "none" => call'.target \in Volumes)
<1>1. CASE absolute
  BY <1>1 DEF EnterMode, VolumeTypes, TypeOK
<1>2. CASE ~absolute
  BY <1>2, VolChangeTypes, VolumesAreIntegers DEF EnterMode, VolumeTypes, TypeOK
<1>. QED  BY <1>1, <1>2

\* The report taken from a channel, and what stays there.
LEMMA ReportTypes ==
  ASSUME VolumeTypes, TakeReport
  PROVE  /\ Report \in ReportType /\ Report.volume \in Volumes
         /\ deviceChan' \in Seq(ReportType) /\ Len(deviceChan') <= ChanCap
         /\ \A n \in 1 .. Len(deviceChan') : n + 1 \in 1 .. Len(deviceChan)
                                             /\ deviceChan'[n] = deviceChan[n + 1]
<1>1. deviceChan \in Seq(ReportType) /\ deviceChan # <<>> /\ Len(deviceChan) <= ChanCap
  BY DEF VolumeTypes, TypeOK, TakeReport
<1>2. deviceChan' = Tail(deviceChan)
  BY DEF TakeReport
<1>3. Report \in ReportType /\ deviceChan' \in Seq(ReportType)
  BY <1>1, <1>2, HeadTailProperties DEF Report
<1>4. Len(deviceChan) \in Nat /\ Len(deviceChan') = Len(deviceChan) - 1
  BY <1>1, <1>2, HeadTailProperties, LenProperties
<1>5. \A n \in 1 .. Len(deviceChan') : deviceChan'[n] = deviceChan[n + 1]
  BY <1>1, <1>2, HeadTailProperties
<1>. QED  BY <1>1, <1>3, <1>4, <1>5, VolumeAssumption DEF ReportType

\* A volume of the sink, and what stays in its channel.
LEMMA TargetTypes ==
  ASSUME VolumeTypes, TakeTarget
  PROVE  /\ Head(serviceChan) \in Volumes
         /\ serviceChan' \in Seq(Volumes) /\ Len(serviceChan') <= ChanCap
<1>1. serviceChan \in Seq(Volumes) /\ serviceChan # <<>> /\ Len(serviceChan) <= ChanCap
  BY DEF VolumeTypes, TypeOK, TakeTarget
<1>2. serviceChan' = Tail(serviceChan)
  BY DEF TakeTarget
<1>. QED  BY <1>1, <1>2, HeadTailProperties, LenProperties, VolumeAssumption

-----------------------------------------------------------------------------
\* As long as the source takes volumes directly: all that the handler has moved the
\* slider to in relative mode is the center, and what it has moved it to before is
\* not looked at until it has been taken for a move to the center.
OwnIsCenter(queue) ==
  \A n \in 1 .. Len(queue) : queue[n].own => queue[n].volume = Center

DirectInv ==
  ~poke /\ PromptEcho =>
    /\ call.cmd \in {"none", "setproperty"}
    /\ pc = "relative" =>
         /\ call.cmd # "none" => call.target = Center
         /\ centered \/ (OwnIsCenter(deviceChan) /\ OwnIsCenter(wire))
    /\ ~told.own

VolumeInv == VolumeTypes /\ DirectInv

\* An absolute mode begins with nothing to be seen of the handler's changes.
LEMMA EnterModeDirect ==
  ASSUME VolumeInv, Waits, NEW absolute \in BOOLEAN, NEW volume \in Levels,
         EnterMode(absolute, volume), UNCHANGED <<poke, told>>
  PROVE  DirectInv'
<1>1. CASE absolute
  BY <1>1 DEF EnterMode, VolumeInv, DirectInv, Waits
<1>2. CASE ~absolute
  BY <1>2, VolumesAreIntegers DEF EnterMode, VolumeInv, DirectInv, Waits, VolChange
<1>. QED  BY <1>1, <1>2

\* What remains in a channel after a report is taken is what was there.
LEMMA OwnRemains ==
  ASSUME VolumeTypes, TakeReport, OwnIsCenter(deviceChan)
  PROVE  OwnIsCenter(deviceChan') /\ (Report.own => Report.volume = Center)
<1>1. OwnIsCenter(deviceChan')
  BY ReportTypes DEF OwnIsCenter
<1>2. Report = deviceChan[1] /\ 1 \in 1 .. Len(deviceChan)
  BY EmptySeq, LenProperties DEF Report, TakeReport, VolumeTypes, TypeOK
<1>. QED  BY <1>1, <1>2 DEF OwnIsCenter

\* A report is taken in one of the selects.
LEMMA InitReportKeeps ==
  ASSUME VolumeInv, InitReport
  PROVE  VolumeInv'
<1>1. VolumeTypes /\ Waits /\ absoluteMode \in BOOLEAN /\ Report.volume \in Levels
  BY ReportTypes DEF VolumeInv, VolumeTypes, TypeOK, InitReport, TakeReport, Levels
<1>2. EnterMode(absoluteMode, Report.volume) /\ TakeReport
  BY DEF InitReport
<1>3. /\ pc' \in {"normal", "relative"} /\ centered' \in BOOLEAN
      /\ call' \in CallType /\ (call'.cmd # "none" => call'.target \in Volumes)
  BY <1>1, <1>2, EnterModeTypes
<1>4. told' = told /\ sinkVolume' \in Volumes
  BY <1>1, <1>2, ReportTypes DEF InitReport, SetVolume, VolumeTypes, TypeOK
<1>5. VolumeTypes'
  BY <1>1, <1>2, <1>3, <1>4, ReportTypes
  DEF VolumeTypes, TypeOK, TakeReport, CallType, Sends, Levels
<1>6. DirectInv'
  BY <1>1, <1>2, <1>4, EnterModeDirect DEF TakeReport
<1>. QED  BY <1>5, <1>6 DEF VolumeInv

\* Absolute mode, and the search of a volume.
LEMMA AbsoluteReportKeeps ==
  ASSUME VolumeInv, NormalReport \/ FinderStop \/ FinderContinue
  PROVE  VolumeInv'
<1>1. VolumeTypes /\ TakeReport
  BY DEF VolumeInv, NormalReport, FinderStop, FinderContinue
<1>2. Waits /\ Report.volume \in Levels /\ targetVolume \in Levels
  BY <1>1, ReportTypes DEF VolumeTypes, TypeOK, TakeReport, Levels
<1>3. CASE NormalReport \/ FinderStop
  <2>1. pc' = "normal" /\ told' = told /\ sinkVolume' \in Volumes
        /\ UNCHANGED <<centered, call>>
    BY <1>1, <1>3, ReportTypes DEF NormalReport, FinderStop, SetVolume
  <2>2. VolumeTypes'
    BY <1>1, <2>1, ReportTypes DEF VolumeTypes, TypeOK, TakeReport, CallType, Sends
  <2>3. DirectInv'
    BY <1>1, <2>1 DEF VolumeInv, DirectInv, TakeReport
  <2>. QED  BY <2>2, <2>3 DEF VolumeInv
<1>4. CASE FinderContinue
  <2>1. pc = "finder" /\ VolChange(targetVolume, Report.volume)
        /\ UNCHANGED <<pc, centered, sinkVolume, told>>
    BY <1>4 DEF FinderContinue
  <2>2. targetVolume \in Volumes
    BY <1>1, <2>1 DEF VolumeTypes
  <2>3. call' \in CallType /\ call'.target = targetVolume
    BY <1>2, <2>1, <2>2, VolChangeTypes
  <2>4. VolumeTypes'
    BY <1>1, <2>1, <2>2, <2>3, ReportTypes
    DEF VolumeTypes, TypeOK, TakeReport, CallType, Sends
  <2>5. DirectInv'
    BY <1>1, <2>1 DEF VolumeInv, DirectInv, TakeReport, VolChange
  <2>. QED  BY <2>4, <2>5 DEF VolumeInv
<1>. QED  BY <1>3, <1>4

\* Relative mode: what the handler itself has done to the slider is no turn.
LEMMA RelativeReportKeeps ==
  ASSUME VolumeInv, RelativeStop \/ RelativeBounce
  PROVE  VolumeInv'
<1>1. VolumeTypes /\ TakeReport /\ pc = "relative" /\ pc' = pc /\ sinkVolume' = sinkVolume
  BY DEF VolumeInv, RelativeStop, RelativeBounce
<1>2. Report.volume \in Volumes /\ Report.own \in BOOLEAN /\ Center \in Volumes
      /\ serviceVolume \in Int /\ Volumes \subseteq Int /\ Band \in Nat
  BY <1>1, ReportTypes, VolumesAreIntegers DEF ReportType, VolumeTypes, TypeOK, Levels
<1>3. CASE RelativeStop
  <2>1. centered' = TRUE /\ UNCHANGED <<call, told>>
    BY <1>3 DEF RelativeStop
  <2>2. VolumeTypes'
    BY <1>1, <2>1, ReportTypes DEF VolumeTypes, TypeOK, TakeReport, CallType, Sends
  <2>3. DirectInv'
    BY <1>1, <2>1 DEF VolumeInv, DirectInv, TakeReport
  <2>. QED  BY <2>2, <2>3 DEF VolumeInv
<1>4. CASE RelativeBounce
  <2>1. VolChange(Center, Report.volume) /\ centered' = centered
    BY <1>4 DEF RelativeBounce
  <2>2. ~(Between(Report.volume, Center, serviceVolume) /\ InCenter(Report.volume))
    BY <1>4 DEF RelativeBounce
  <2>3. Report.volume # Center
    BY <1>2, <2>2 DEF Between, InCenter
  <2>4. \/ told' = told
        \/ ~centered /\ told'.own = Report.own /\ told' \in [step : {0, 1000, -1000}, own : BOOLEAN]
    BY <1>2, <1>4 DEF RelativeBounce
  <2>5. call' \in CallType /\ call'.target = Center
    BY <1>2, <2>1, VolChangeTypes DEF Levels
  <2>6. VolumeTypes'
    BY <1>1, <1>2, <2>1, <2>4, <2>5, ReportTypes
    DEF VolumeTypes, TypeOK, TakeReport, CallType, Sends
  <2>7. DirectInv'
    <3>. SUFFICES ASSUME ~poke', PromptEcho
                  PROVE  /\ call'.cmd \in {"none", "setproperty"}
                         /\ centered' \/ (OwnIsCenter(deviceChan') /\ OwnIsCenter(wire'))
                         /\ ~told'.own
      BY <2>5 DEF DirectInv
    <3>1. ~poke /\ poke' = poke /\ wire' = wire /\ ~told.own
          /\ (centered \/ (OwnIsCenter(deviceChan) /\ OwnIsCenter(wire)))
      BY <1>1 DEF VolumeInv, DirectInv, TakeReport
    <3>2. call'.cmd = "setproperty"
      BY <2>1, <3>1 DEF VolChange
    <3>3. centered' \/ (OwnIsCenter(deviceChan') /\ OwnIsCenter(wire'))
      BY <1>1, <2>1, <3>1, OwnRemains
    <3>4. ~told'.own
      BY <1>1, <2>3, <2>4, <3>1, OwnRemains
    <3>. QED  BY <3>1, <3>2, <3>3, <3>4
  <2>. QED  BY <2>6, <2>7 DEF VolumeInv
<1>. QED  BY <1>3, <1>4

\* A volume of the sink is taken: it is looked for, or ignored.
LEMMA TargetKeeps ==
  ASSUME VolumeInv, NormalTarget \/ FinderTarget \/ RelativeTarget
  PROVE  VolumeInv'
<1>1. VolumeTypes /\ TakeTarget /\ Waits
  BY DEF VolumeInv, NormalTarget, FinderTarget, RelativeTarget, TakeTarget
<1>2. sinkVolume' = sinkVolume /\ UNCHANGED <<deviceChan, wire, told, poke, canSet>>
      /\ UNCHANGED centered
  BY <1>1 DEF TakeTarget, environment, NormalTarget, FinderTarget, RelativeTarget
<1>3. CASE NormalTarget \/ FinderTarget
  <2>. DEFINE target == Head(serviceChan)
  <2>1. /\ pc' = "finder" /\ targetVolume' = target /\ target \in Volumes
        /\ VolChange(target, serviceVolume)
    BY <1>1, <1>3, TargetTypes DEF NormalTarget, FinderTarget
  <2>2. call' \in CallType /\ call'.target = target
    BY <1>1, <2>1, VolChangeTypes DEF VolumeTypes, TypeOK, Levels
  <2>3. VolumeTypes'
    BY <1>1, <1>2, <2>1, <2>2, TargetTypes
    DEF VolumeTypes, TypeOK, TakeTarget, environment, CallType, Sends, Levels
  <2>4. DirectInv'
    BY <1>2, <2>1 DEF VolumeInv, DirectInv, VolChange
  <2>. QED  BY <2>3, <2>4 DEF VolumeInv
<1>4. CASE RelativeTarget
  <2>1. UNCHANGED <<pc, targetVolume, call>>
    BY <1>4 DEF RelativeTarget
  <2>2. VolumeTypes'
    BY <1>1, <1>2, <2>1, TargetTypes DEF VolumeTypes, TypeOK, TakeTarget, environment
  <2>3. DirectInv'
    BY <1>2, <2>1 DEF VolumeInv, DirectInv
  <2>. QED  BY <2>2, <2>3 DEF VolumeInv
<1>. QED  BY <1>3, <1>4

\* The mode is switched where the handler waits.
LEMMA SwitchKeeps ==
  ASSUME VolumeInv, NEW absolute \in BOOLEAN, SwitchMode(absolute)
  PROVE  VolumeInv'
<1>1. VolumeTypes /\ Waits /\ serviceVolume \in Levels
  BY DEF VolumeInv, VolumeTypes, TypeOK, SwitchMode, Levels
<1>2. /\ absoluteMode' = absolute
      /\ UNCHANGED <<deviceVolume, serviceVolume, targetVolume, poke, deviceChan,
                     serviceChan, canSet, slider, wire, sinkVolume, told, lastPoke>>
  BY DEF SwitchMode
<1>3. CASE pc = "init"
  <2>1. UNCHANGED <<pc, call, centered>>
    BY <1>3 DEF SwitchMode
  <2>. QED  BY <1>1, <1>2, <2>1 DEF VolumeInv, VolumeTypes, TypeOK, DirectInv
<1>4. CASE pc # "init"
  <2>1. EnterMode(absolute, serviceVolume)
    BY <1>4 DEF SwitchMode
  <2>2. VolumeTypes'
    <3>1. /\ pc' \in {"normal", "relative"} /\ centered' \in BOOLEAN
          /\ call' \in CallType /\ (call'.cmd # "none" => call'.target \in Volumes)
      BY <1>1, <2>1, EnterModeTypes
    <3>. QED  BY <1>1, <1>2, <3>1 DEF VolumeTypes, TypeOK, CallType, Sends
  <2>3. DirectInv'
    BY <1>1, <1>2, <2>1, EnterModeDirect
  <2>. QED  BY <2>2, <2>3 DEF VolumeInv
<1>. QED  BY <1>3, <1>4

\* Where the slider goes, and what is reported of it.
LEMMA MoveTypes ==
  ASSUME VolumeTypes, NEW volume \in Volumes, NEW own \in BOOLEAN, MoveSlider(volume, own)
  PROVE  /\ slider' \in Volumes /\ wire' \in Seq(ReportType)
         /\ OwnIsCenter(wire) /\ (own => volume = Center) => OwnIsCenter(wire')
<1>1. wire \in Seq(ReportType)
  BY DEF VolumeTypes, TypeOK
<1>2. CASE volume = slider
  BY <1>1, <1>2 DEF MoveSlider
<1>3. CASE volume # slider
  <2>. DEFINE report == [volume |-> volume, own |-> own]
  <2>1. report \in ReportType /\ wire' = Append(wire, report) /\ slider' = volume
    BY <1>3 DEF MoveSlider, ReportType
  <2>2. /\ wire' \in Seq(ReportType) /\ Len(wire') = Len(wire) + 1 /\ Len(wire) \in Nat
        /\ \A n \in 1 .. Len(wire) : wire'[n] = wire[n]
        /\ wire'[Len(wire) + 1] = report
    BY <1>1, <2>1, AppendProperties, LenProperties
  <2>3. \A n \in 1 .. Len(wire') : n \in 1 .. Len(wire) \/ n = Len(wire) + 1
    BY <2>2
  <2>. QED  BY <2>1, <2>2, <2>3 DEF OwnIsCenter
<1>. QED  BY <1>2, <1>3

\* A command reaches the source, or is refused by it.
LEMMA DacpKeeps ==
  ASSUME VolumeInv, Dacp
  PROVE  VolumeInv'
<1>1. /\ VolumeTypes
      /\ UNCHANGED <<pc, absoluteMode, deviceVolume, serviceVolume, targetVolume, centered,
                     deviceChan, serviceChan, canSet, sinkVolume, told>>
      /\ lastPoke' \in {"fine", "lost"}
  <2>1. lastPoke \in {"fine", "lost"} /\ VolumeTypes
    BY DEF VolumeInv, VolumeTypes, TypeOK
  <2>2. lastPoke' \in {"fine", "lost", lastPoke}
    BY DEF Dacp, SetPropertyDone, SetPropertyFailed, PokeDone, PokeFails
  <2>. QED  BY <2>1, <2>2 DEF Dacp
<1>2. CASE SetPropertyDone
  <2>1. /\ call.target \in Volumes /\ call.cmd # "none"
        /\ call' = Idle /\ poke' = poke
    BY <1>1, <1>2 DEF SetPropertyDone, VolumeTypes
  <2>0. MoveSlider(call.target, TRUE)
    BY <1>2 DEF SetPropertyDone
  <2>2. /\ slider' \in Volumes /\ wire' \in Seq(ReportType)
        /\ OwnIsCenter(wire) /\ call.target = Center => OwnIsCenter(wire')
    BY <1>1, <2>0, <2>1, MoveTypes
  <2>3. call' \in CallType /\ call'.cmd = "none"
    BY <2>1 DEF Idle, CallType, Sends, Levels
  <2>4. VolumeTypes'
    BY <1>1, <2>1, <2>2, <2>3 DEF VolumeTypes, TypeOK, Idle
  <2>5. DirectInv'
    BY <1>1, <2>1, <2>2, <2>3 DEF VolumeInv, DirectInv
  <2>. QED  BY <2>4, <2>5 DEF VolumeInv
<1>3. CASE SetPropertyFailed
  <2>1. /\ poke' = TRUE /\ call.cmd # "none" /\ call.target \in Volumes
        /\ call' = [call EXCEPT !.cmd = Step(call.target, call.current)]
    BY <1>1, <1>3 DEF SetPropertyFailed, VolumeTypes
  <2>0. slider' \in Volumes /\ wire' \in Seq(ReportType)
    <3>1. MoveSlider(call.target, TRUE) \/ UNCHANGED <<slider, wire>>
      BY <1>3 DEF SetPropertyFailed
    <3>2. CASE MoveSlider(call.target, TRUE)
      BY <1>1, <2>1, <3>2, MoveTypes
    <3>3. CASE UNCHANGED <<slider, wire>>
      BY <1>1, <3>3 DEF VolumeTypes, TypeOK
    <3>. QED  BY <3>1, <3>2, <3>3
  <2>2. call' \in CallType /\ call'.target = call.target
    BY <1>1, <2>1, StepSends DEF VolumeTypes, CallType
  <2>3. VolumeTypes'
    BY <1>1, <2>0, <2>1, <2>2 DEF VolumeTypes, TypeOK, CallType, Sends
  <2>4. DirectInv'
    BY <2>1 DEF DirectInv
  <2>. QED  BY <2>3, <2>4 DEF VolumeInv
<1>4. CASE PokeDone
  <2>1. call' = Idle /\ poke' = poke
    BY <1>4 DEF PokeDone
  <2>2. slider' \in Volumes /\ wire' \in Seq(ReportType)
    <3>. DEFINE to == IF call.cmd = "volumeup" THEN slider + 1 ELSE slider - 1
    <3>1. CASE to \in Volumes
      <4>1. MoveSlider(to, TRUE)
        BY <1>4, <3>1 DEF PokeDone
      <4>. HIDE DEF to
      <4>. QED  BY <1>1, <3>1, <4>1, MoveTypes
    <3>2. CASE to \notin Volumes
      <4>1. UNCHANGED <<slider, wire>>
        BY <1>4, <3>2 DEF PokeDone
      <4>. QED  BY <1>1, <4>1 DEF VolumeTypes, TypeOK
    <3>. QED  BY <3>1, <3>2
  <2>3. VolumeTypes'
    BY <1>1, <2>1, <2>2 DEF VolumeTypes, TypeOK, Idle, CallType, Sends, Levels
  <2>4. DirectInv'
    BY <1>1, <1>4, <2>1 DEF VolumeInv, DirectInv, PokeDone, Pokes
  <2>. QED  BY <2>3, <2>4 DEF VolumeInv
<1>5. CASE PokeFails
  <2>1. call' = Idle /\ UNCHANGED <<slider, wire, poke>>
    BY <1>5 DEF PokeFails
  <2>2. VolumeTypes'
    BY <1>1, <2>1 DEF VolumeTypes, TypeOK, Idle, CallType, Sends, Levels
  <2>3. DirectInv'
    BY <1>1, <2>1 DEF VolumeInv, DirectInv, Idle
  <2>. QED  BY <2>2, <2>3 DEF VolumeInv
<1>. QED  BY <1>2, <1>3, <1>4, <1>5 DEF Dacp

\* A report gets through to the handler's channel.
LEMMA DeliverKeeps ==
  ASSUME VolumeInv, Deliver
  PROVE  VolumeInv'
<1>1. /\ VolumeTypes /\ wire \in Seq(ReportType) /\ wire # <<>>
      /\ deviceChan \in Seq(ReportType) /\ Len(deviceChan) < ChanCap
      /\ deviceChan' = Append(deviceChan, Head(wire)) /\ wire' = Tail(wire)
      /\ UNCHANGED <<pc, absoluteMode, deviceVolume, serviceVolume, targetVolume, poke,
                     centered, serviceChan, call, canSet, slider, sinkVolume, told, lastPoke>>
  BY DEF VolumeInv, VolumeTypes, TypeOK, Deliver
<1>2. /\ Head(wire) \in ReportType /\ wire' \in Seq(ReportType) /\ Len(wire) \in Nat
      /\ Len(wire') = Len(wire) - 1 /\ \A n \in 1 .. Len(wire') : wire'[n] = wire[n + 1]
      /\ Head(wire) = wire[1] /\ 1 \in 1 .. Len(wire)
  BY <1>1, HeadTailProperties, LenProperties, EmptySeq
<1>3. /\ deviceChan' \in Seq(ReportType) /\ Len(deviceChan) \in Nat
      /\ Len(deviceChan') = Len(deviceChan) + 1
      /\ \A n \in 1 .. Len(deviceChan) : deviceChan'[n] = deviceChan[n]
      /\ deviceChan'[Len(deviceChan) + 1] = Head(wire)
  BY <1>1, <1>2, AppendProperties, LenProperties
<1>4. VolumeTypes'
  BY <1>1, <1>2, <1>3, VolumeAssumption DEF VolumeTypes, TypeOK
<1>5. ASSUME OwnIsCenter(wire), OwnIsCenter(deviceChan)
      PROVE  OwnIsCenter(wire') /\ OwnIsCenter(deviceChan')
  <2>1. OwnIsCenter(wire')
    BY <1>2, <1>5 DEF OwnIsCenter
  <2>2. \A n \in 1 .. Len(deviceChan') : n \in 1 .. Len(deviceChan) \/ n = Len(deviceChan) + 1
    BY <1>3
  <2>3. OwnIsCenter(deviceChan')
    BY <1>2, <1>3, <1>5, <2>2 DEF OwnIsCenter
  <2>. QED  BY <2>1, <2>3
<1>6. DirectInv'
  BY <1>1, <1>5 DEF VolumeInv, DirectInv
<1>. QED  BY <1>4, <1>6 DEF VolumeInv

\* The user turns the slider; the sink sets a volume.
LEMMA UserKeeps ==
  ASSUME VolumeInv, UserTurns \/ SinkSets
  PROVE  VolumeInv'
<1>1. VolumeTypes
  BY DEF VolumeInv
<1>2. CASE UserTurns
  <2>1. PICK volume \in Volumes : MoveSlider(volume, FALSE)
    BY <1>2 DEF UserTurns
  <2>2. UNCHANGED <<handler, canSet, sinkVolume, told, lastPoke>>
    BY <1>2 DEF UserTurns
  <2>3. /\ slider' \in Volumes /\ wire' \in Seq(ReportType)
        /\ OwnIsCenter(wire) => OwnIsCenter(wire')
    BY <1>1, <2>1, MoveTypes
  <2>4. VolumeTypes'
    BY <1>1, <2>2, <2>3 DEF VolumeTypes, TypeOK, handler
  <2>5. DirectInv'
    BY <2>2, <2>3 DEF VolumeInv, DirectInv, handler
  <2>. QED  BY <2>4, <2>5 DEF VolumeInv
<1>3. CASE SinkSets
  <2>1. PICK volume \in Volumes :
          /\ Len(serviceChan) < ChanCap /\ sinkVolume' = volume
          /\ serviceChan' = Append(serviceChan, volume)
    BY <1>3 DEF SinkSets
  <2>2. UNCHANGED <<pc, absoluteMode, deviceVolume, serviceVolume, targetVolume, poke,
                    centered, deviceChan, call, canSet, slider, wire, told, lastPoke>>
    BY <1>3 DEF SinkSets
  <2>3. /\ serviceChan' \in Seq(Volumes) /\ Len(serviceChan') = Len(serviceChan) + 1
        /\ Len(serviceChan) \in Nat
    BY <1>1, <2>1, AppendProperties, LenProperties DEF VolumeTypes, TypeOK
  <2>4. VolumeTypes'
    BY <1>1, <2>1, <2>2, <2>3, VolumeAssumption DEF VolumeTypes, TypeOK
  <2>5. DirectInv'
    BY <2>2 DEF VolumeInv, DirectInv
  <2>. QED  BY <2>4, <2>5 DEF VolumeInv
<1>. QED  BY <1>2, <1>3

\* 100 ms after the slider has been centered nothing of the handler's is on its way.
LEMMA SettleKeeps ==
  ASSUME VolumeInv, Settle
  PROVE  VolumeInv'
<1>1. /\ centered' = FALSE
      /\ UNCHANGED <<pc, absoluteMode, deviceVolume, serviceVolume, targetVolume, poke,
                     deviceChan, serviceChan, call, canSet, slider, wire, sinkVolume, told,
                     lastPoke>>
  BY DEF Settle, environment
<1>0. centered' \in BOOLEAN
  BY <1>1
<1>2. VolumeTypes'
  BY <1>0, <1>1 DEF VolumeInv, VolumeTypes, TypeOK
<1>3. PromptEcho => OwnIsCenter(wire) /\ OwnIsCenter(deviceChan)
  <2>1. DOMAIN wire = 1 .. Len(wire) /\ DOMAIN deviceChan = 1 .. Len(deviceChan)
    BY LenProperties DEF VolumeInv, VolumeTypes, TypeOK
  <2>. QED  BY <2>1 DEF Settle, OwnIsCenter
<1>4. DirectInv'
  BY <1>1, <1>3 DEF VolumeInv, DirectInv
<1>. QED  BY <1>2, <1>4 DEF VolumeInv

-----------------------------------------------------------------------------
\* The handler begins before it has done anything.
LEMMA VolumeInit == Init => VolumeInv
<1>. SUFFICES ASSUME Init
              PROVE  VolumeInv
  OBVIOUS
<1>1. wire = <<[volume |-> slider, own |-> FALSE]>> /\ slider \in Volumes
  BY DEF Init
<1>2. wire \in Seq(ReportType)
  BY <1>1 DEF ReportType
<1>3. TypeOK
  <2>1. canSet \in BOOLEAN /\ sinkVolume \in Volumes /\ ChanCap \in Nat
    BY VolumesAreIntegers, VolumeAssumption DEF Init
  <2>2. absoluteMode \in BOOLEAN /\ poke \in BOOLEAN /\ centered \in BOOLEAN
    BY DEF Init
  <2>3. /\ deviceChan \in Seq(ReportType) /\ Len(deviceChan) <= ChanCap
        /\ serviceChan \in Seq(Volumes) /\ Len(serviceChan) <= ChanCap
    BY <2>1 DEF Init
  <2>. QED  BY <1>1, <1>2, <2>1, <2>2, <2>3 DEF Init, TypeOK, Idle
<1>4. VolumeTypes
  BY <1>3 DEF Init, VolumeTypes, Idle, CallType, Sends, Levels, NoStep
<1>5. DirectInv
  BY DEF Init, DirectInv, Idle, NoStep
<1>. QED  BY <1>4, <1>5 DEF VolumeInv

\* Every step keeps it.
LEMMA VolumeStep == VolumeInv /\ [Next]_vars => VolumeInv'
<1>. SUFFICES ASSUME VolumeInv, [Next]_vars
              PROVE  VolumeInv'
  OBVIOUS
<1>1. CASE Receive
  BY <1>1, InitReportKeeps, AbsoluteReportKeeps, RelativeReportKeeps, TargetKeeps DEF Receive
<1>2. CASE \E absolute \in BOOLEAN : SwitchMode(absolute)
  BY <1>2, SwitchKeeps
<1>3. CASE Dacp \/ Deliver
  BY <1>3, DacpKeeps, DeliverKeeps
<1>4. CASE UserTurns \/ SinkSets \/ Settle
  BY <1>4, UserKeeps, SettleKeeps
<1>5. CASE UNCHANGED vars
  BY <1>5 DEF vars, handler, environment, VolumeInv, VolumeTypes, TypeOK, DirectInv
<1>. QED  BY <1>1, <1>2, <1>3, <1>4, <1>5 DEF Next

\* Both hold at any time.
LEMMA VolumeInvariant == Spec => []VolumeInv
BY VolumeInit, VolumeStep, PTL DEF Spec

\* The handler's variables are of their types, its channels within their capacity,
\* and what it sends the source is a volume of its slider (volume.go:97).
THEOREM VolumesAreVolumes == Spec => []TypeOK
<1>1. VolumeInv => TypeOK
  BY DEF VolumeInv, VolumeTypes
<1>. QED  BY <1>1, VolumeInvariant, PTL

\* In relative mode the sink is told to step only when the user of the source has
\* turned its slider, as long as the source takes volumes directly and reports
\* them within 100 ms: whatever is on its way when the mode is switched, and
\* whatever the sink sets meanwhile (volume.go:222).
THEOREM StepsComeFromTurns == Spec => []StepsAreTurns
<1>1. VolumeInv => StepsAreTurns
  BY DEF VolumeInv, DirectInv, StepsAreTurns
<1>. QED  BY <1>1, VolumeInvariant, PTL
=============================================================================
