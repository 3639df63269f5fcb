------------------------------- MODULE Volume -------------------------------
(***************************************************************************)
(* The goroutine that keeps the volume slider of the source (the iDevice)  *)
(* and the volume of the sink together (volume.go).  It can change the     *)
(* slider with DACP commands only and learns what became of them from the  *)
(* volume the source reports some time later, in SET_PARAMETER requests.   *)
(*                                                                         *)
(* In absolute mode both have the same volume.  In relative mode the       *)
(* slider is kept at its center, and turning it tells the sink to step up  *)
(* or down.                                                                *)
(*                                                                         *)
(* Volumes are whole steps of the slider.  The source, its user and the    *)
(* sink are the environment.                                               *)
(***************************************************************************)
EXTENDS Integers, Sequences

CONSTANTS
  MinVolume, MaxVolume,   \* the ends of the slider: -30 and 0
  Center,                 \* -15
  Band,                   \* whole steps in the center band: volumespan is 1.5
  ChanCap,                \* capacity of deviceVolumeChan and serviceVolumeChan: 8
  CanSet,                 \* whether a source accepts setproperty
  PromptEcho,             \* the source reports a command's effect within 100 ms
  Budgets                 \* bounds: how often the user turns the slider, the sink
                          \* sets its volume, and the mode is switched

Volumes == MinVolume .. MaxVolume

ASSUME VolumeAssumption ==
  /\ MinVolume \in Int /\ MaxVolume \in Int /\ Center \in Volumes
  /\ Band \in Nat
  /\ ChanCap \in Nat \ {0}
  /\ CanSet \subseteq BOOLEAN /\ PromptEcho \in BOOLEAN
  /\ Budgets \subseteq Nat \X Nat \X Nat

Idle == [cmd |-> "none", target |-> 0, current |-> 0]
NoWish == MinVolume - 1

VARIABLES
  pc,             \* the select the goroutine is in: init, normal, finder, relative
  absoluteMode,
  deviceVolume,   \* what the source has last reported
  serviceVolume,  \* the local variables of startVolumeHandler
  targetVolume,
  poke,           \* setproperty has failed: use volumeup and volumedown
  centered,       \* the slider was centered less than 100 ms ago
  deviceChan,     \* reports of the source
  serviceChan,    \* volumes set by the sink
  call            \* the DACP command send is waiting for

VARIABLES
  canSet,         \* this source accepts setproperty
  slider,         \* the volume of the source
  wire,           \* reports the source has not got through yet
  sinkVolume,     \* the volume of the sink
  turns, sets, switches   \* what is left of the budgets

VARIABLES         \* history
  wish,           \* the volume the sink has set after the user's last turn
  told,           \* the last step the sink was told, up or down, and whether
                  \* the report behind it was the effect of a command
  lastPoke        \* "lost" when it has failed and no report has come since

handler == <<pc, absoluteMode, deviceVolume, serviceVolume, targetVolume, poke,
             centered, deviceChan, serviceChan, call>>
environment == <<canSet, slider, wire, sinkVolume, turns, sets, switches>>
vars == <<handler, environment, wish, told, lastPoke>>

NoStep == [step |-> 0, own |-> FALSE]

Init ==
  /\ pc = "init" /\ absoluteMode = TRUE
  /\ deviceVolume = 0 /\ serviceVolume = 0 /\ targetVolume = 0
  /\ poke = FALSE /\ centered = FALSE
  /\ deviceChan = <<>> /\ serviceChan = <<>> /\ call = Idle
  /\ canSet \in CanSet
  /\ slider \in Volumes
  /\ wire = <<[volume |-> slider, own |-> FALSE]>>
  /\ sinkVolume \in {MinVolume, Center}
  /\ \E b \in Budgets : turns = b[1] /\ sets = b[2] /\ switches = b[3]
  /\ wish = NoWish
  /\ told = NoStep
  /\ lastPoke = "fine"

-----------------------------------------------------------------------------
\* a <= b <= c or a >= b >= c
Between(a, b, c) == \/ a > c /\ a >= b /\ b >= c
                    \/ a <= c /\ a <= b /\ b <= c

InCenter(a) == a >= Center - Band /\ a <= Center + Band

StepAway(target, current) ==                    \* mutant: up and down exchanged
  IF current > target THEN "volumeup"
  ELSE IF current < target THEN "volumedown" ELSE "none"

Step(target, current) == IF current > target THEN "volumedown"
                         ELSE IF current < target THEN "volumeup"
                         ELSE "none"

VolChangeBack(target, current) ==               \* mutant: sends the old volume
  call' = IF ~poke THEN [cmd |-> "setproperty", target |-> current, current |-> current]
          ELSE [cmd |-> Step(target, current), target |-> target, current |-> current]

\* volChange: the command it starts with; "none" returns at once.
VolChange(target, current) ==
  call' = IF ~poke THEN [cmd |-> "setproperty", target |-> target, current |-> current]
          ELSE [cmd |-> Step(target, current), target |-> target, current |-> current]

\* The callback of the sink.
SetVolume(volume) == sinkVolume' = volume /\ UNCHANGED told

EnterModeUnguarded(absolute, volume) ==         \* mutant: steps from the start
  IF absolute THEN pc' = "normal" /\ UNCHANGED <<call, centered>>
  ELSE /\ pc' = "relative" /\ UNCHANGED centered
       /\ IF InCenter(volume) THEN UNCHANGED call ELSE VolChange(Center, volume)

EnterModeAtRest(absolute, volume) ==            \* mutant: no bounce to the center
  IF absolute THEN pc' = "normal" /\ UNCHANGED <<call, centered>>
  ELSE pc' = "relative" /\ centered' = TRUE /\ UNCHANGED call

\* The top of the mode loop, with serviceVolume and poke as they are after
\* the step.
EnterMode(absolute, volume) ==
  IF absolute THEN pc' = "normal" /\ UNCHANGED <<call, centered>>
  ELSE /\ pc' = "relative"
       /\ centered' = TRUE
       /\ IF InCenter(volume) THEN UNCHANGED call ELSE VolChange(Center, volume)

Waits == call.cmd = "none"
Report == Head(deviceChan)

TakeReport ==
  /\ Waits /\ deviceChan # <<>>
  /\ deviceChan' = Tail(deviceChan)
  /\ deviceVolume' = Report.volume
  /\ serviceVolume' = Report.volume
  /\ lastPoke' = "fine"
  /\ UNCHANGED <<absoluteMode, targetVolume, poke, serviceChan, canSet, slider,
                 wire, turns, sets, switches, wish>>

TakeTarget ==
  /\ Waits /\ serviceChan # <<>>
  /\ serviceChan' = Tail(serviceChan)
  /\ UNCHANGED <<absoluteMode, deviceVolume, serviceVolume, poke, deviceChan,
                 environment, wish, told, lastPoke>>

\* The first volume the source reports.
InitReport ==
  /\ pc = "init" /\ TakeReport
  /\ EnterMode(absoluteMode, Report.volume)
  /\ IF absoluteMode THEN SetVolume(Report.volume)
     ELSE UNCHANGED <<sinkVolume, told>>

\* Absolute mode: the source's volume is passed on.
NormalReport ==
  /\ pc = "normal" /\ TakeReport
  /\ SetVolume(Report.volume)
  /\ UNCHANGED <<pc, centered, call>>

\* Absolute mode: the sink has set a volume; find it on the slider.
NormalTarget ==
  /\ pc = "normal" /\ TakeTarget
  /\ targetVolume' = Head(serviceChan)
  /\ VolChange(Head(serviceChan), serviceVolume)
  /\ pc' = "finder"
  /\ UNCHANGED centered

\* The target is reached or passed: the search ends with the slider's volume.
FinderStop ==
  /\ pc = "finder" /\ TakeReport
  /\ Between(Report.volume, targetVolume, serviceVolume)
  /\ SetVolume(Report.volume)
  /\ pc' = "normal"
  /\ UNCHANGED <<centered, call>>

FinderContinue ==
  /\ pc = "finder" /\ TakeReport
  /\ ~Between(Report.volume, targetVolume, serviceVolume)
  /\ VolChange(targetVolume, Report.volume)
  /\ UNCHANGED <<pc, centered, sinkVolume, told>>

FinderTarget ==
  /\ pc = "finder" /\ TakeTarget
  /\ targetVolume' = Head(serviceChan)
  /\ VolChange(Head(serviceChan), serviceVolume)
  /\ UNCHANGED <<pc, centered>>

\* Relative mode: the slider has come back to the center.
RelativeStop ==
  /\ pc = "relative" /\ TakeReport
  /\ Between(Report.volume, Center, serviceVolume) /\ InCenter(Report.volume)
  /\ centered' = TRUE
  /\ UNCHANGED <<pc, call, sinkVolume, told>>

\* Relative mode: the slider is somewhere else.  When it has not just been
\* centered and moves away from the center, the sink steps: SetVolume(1000)
\* is up and SetVolume(-1000) is down.
RelativeBounce ==
  LET away == \/ Report.volume > serviceVolume /\ Report.volume > Center
              \/ Report.volume < serviceVolume /\ Report.volume < Center
      up == IF Report.volume > Center THEN 1000 ELSE -1000
  IN /\ pc = "relative" /\ TakeReport
     /\ ~(Between(Report.volume, Center, serviceVolume) /\ InCenter(Report.volume))
     /\ told' = IF ~centered /\ away THEN [step |-> up, own |-> Report.own]
                ELSE told
     /\ VolChange(Center, Report.volume)
     /\ UNCHANGED <<pc, centered, sinkVolume>>

\* Volumes the sink sets are ignored.
RelativeTarget ==
  /\ pc = "relative" /\ TakeTarget
  /\ UNCHANGED <<pc, targetVolume, centered, call>>

\* VolumeMode(absolute): the unbuffered channel hands it over in any select.
SwitchMode(absolute) ==
  /\ Waits /\ switches > 0
  /\ switches' = switches - 1
  /\ absoluteMode' = absolute
  /\ IF pc = "init" THEN UNCHANGED <<pc, call, centered>>
     ELSE EnterMode(absolute, serviceVolume)
  /\ UNCHANGED <<deviceVolume, serviceVolume, targetVolume, poke, deviceChan,
                 serviceChan, canSet, slider, wire, sinkVolume, turns, sets, wish,
                 told, lastPoke>>

-----------------------------------------------------------------------------
\* The slider moves, and the source reports where to.
MoveSlider(volume, own) ==
  /\ slider' = volume
  /\ wire' = IF volume = slider THEN wire
             ELSE Append(wire, [volume |-> volume, own |-> own])

SetPropertyDone ==
  /\ call.cmd = "setproperty" /\ canSet
  /\ MoveSlider(call.target, TRUE)
  /\ call' = Idle
  /\ UNCHANGED <<poke, lastPoke>>

\* send has failed: the source does not accept setproperty, could not be
\* reached, or has moved its slider but not said so.  From now on volChange
\* pokes, beginning with this change.
SetPropertyFailed ==
  /\ call.cmd = "setproperty"
  /\ \/ canSet /\ MoveSlider(call.target, TRUE)
     \/ UNCHANGED <<slider, wire>>
  /\ poke' = TRUE
  /\ call' = [call EXCEPT !.cmd = Step(call.target, call.current)]
  /\ UNCHANGED lastPoke

Pokes == call.cmd \in {"volumeup", "volumedown"}

\* The source has taken a step; whether its answer is an error is not looked at.
PokeDone ==
  /\ Pokes
  /\ LET to == IF call.cmd = "volumeup" THEN slider + 1 ELSE slider - 1
     IN IF to \in Volumes THEN MoveSlider(to, TRUE) ELSE UNCHANGED <<slider, wire>>
  /\ call' = Idle
  /\ lastPoke' = "fine"
  /\ UNCHANGED poke

\* The command has not got through.  Its error is not looked at either, and the
\* handler goes on to wait for a report that nothing will bring.
PokeFails ==
  /\ Pokes
  /\ call' = Idle
  /\ lastPoke' = "lost"
  /\ UNCHANGED <<slider, wire, poke>>

Dacp ==
  /\ SetPropertyDone \/ SetPropertyFailed \/ PokeDone \/ PokeFails
  /\ UNCHANGED <<pc, absoluteMode, deviceVolume, serviceVolume, targetVolume,
                 centered, deviceChan, serviceChan, canSet, sinkVolume, turns,
                 sets, switches, wish, told>>

DeliverAlways ==                                \* mutant: no limit
  /\ wire # <<>>
  /\ deviceChan' = Append(deviceChan, Head(wire))
  /\ wire' = Tail(wire)
  /\ UNCHANGED <<pc, absoluteMode, deviceVolume, serviceVolume, targetVolume,
                 poke, centered, serviceChan, call, canSet, slider, sinkVolume,
                 turns, sets, switches, wish, told, lastPoke>>

\* SET_PARAMETER arrives: SetServiceVolume, which waits for room.
Deliver ==
  /\ wire # <<>> /\ Len(deviceChan) < ChanCap
  /\ deviceChan' = Append(deviceChan, Head(wire))
  /\ wire' = Tail(wire)
  /\ UNCHANGED <<pc, absoluteMode, deviceVolume, serviceVolume, targetVolume,
                 poke, centered, serviceChan, call, canSet, slider, sinkVolume,
                 turns, sets, switches, wish, told, lastPoke>>

UserTurns ==
  \E volume \in Volumes \ {slider} :
    /\ turns > 0
    /\ turns' = turns - 1
    /\ MoveSlider(volume, FALSE)
    /\ wish' = NoWish
    /\ UNCHANGED <<handler, canSet, sinkVolume, sets, switches, told, lastPoke>>

\* The sink has a new volume and calls Source.Volume.
SinkSets ==
  \E volume \in Volumes :
    /\ sets > 0 /\ Len(serviceChan) < ChanCap
    /\ sets' = sets - 1
    /\ sinkVolume' = volume
    /\ serviceChan' = Append(serviceChan, volume)
    /\ wish' = volume
    /\ UNCHANGED <<pc, absoluteMode, deviceVolume, serviceVolume, targetVolume,
                   poke, centered, deviceChan, call, canSet, slider, wire,
                   turns, switches, told, lastPoke>>

\* 100 ms have passed since the slider was centered.
Settle ==
  /\ centered /\ Waits
  /\ PromptEcho => \A queue \in {wire, deviceChan} :
                      \A n \in DOMAIN queue : ~queue[n].own
  /\ centered' = FALSE
  /\ UNCHANGED <<pc, absoluteMode, deviceVolume, serviceVolume, targetVolume,
                 poke, deviceChan, serviceChan, call, environment, wish, told,
                 lastPoke>>

Receive ==
  \/ InitReport
  \/ NormalReport \/ NormalTarget
  \/ FinderStop \/ FinderContinue \/ FinderTarget
  \/ RelativeStop \/ RelativeBounce \/ RelativeTarget

Next ==
  \/ Receive
  \/ \E absolute \in BOOLEAN : SwitchMode(absolute)
  \/ Dacp \/ Deliver
  \/ UserTurns \/ SinkSets
  \/ Settle

(***************************************************************************)
(* The goroutine runs, the source answers its DACP commands (dacp.tx waits *)
(* for the answer) and the RTSP connection delivers.  Users, sinks and the *)
(* passing of 100 ms owe nothing.                                          *)
(***************************************************************************)
Fairness == WF_vars(Receive) /\ WF_vars(Dacp) /\ WF_vars(Deliver)

Spec == Init /\ [][Next]_vars /\ Fairness

-----------------------------------------------------------------------------
ReportType == [volume : Volumes, own : BOOLEAN]

TypeOK ==
  /\ pc \in {"init", "normal", "finder", "relative"}
  /\ absoluteMode \in BOOLEAN /\ poke \in BOOLEAN /\ centered \in BOOLEAN
  /\ deviceVolume \in Volumes \union {0}
  /\ serviceVolume \in Volumes \union {0}
  /\ targetVolume \in Volumes \union {0}
  /\ deviceChan \in Seq(ReportType) /\ Len(deviceChan) <= ChanCap
  /\ serviceChan \in Seq(Volumes) /\ Len(serviceChan) <= ChanCap
  /\ call.cmd \in {"none", "setproperty", "volumeup", "volumedown"}
  /\ canSet \in BOOLEAN /\ slider \in Volumes /\ wire \in Seq(ReportType)
  /\ sinkVolume \in Volumes /\ lastPoke \in {"fine", "lost"}

Lost == lastPoke = "lost"

\* In absolute mode the sink and the slider end up at one volume, whatever the
\* user and the sink have set at the same time and whichever reports were still
\* on their way ("Try to match the volume on the iDevice to the volume on the
\* service").  They may stay apart only behind a poke that has failed and that
\* no report has followed: the search goes on when the next one comes, and not
\* before.  GET_PARAMETER answers the source's volume either way.
Agreement ==
  [](pc # "relative") =>
    <>[](deviceVolume = slider /\ (sinkVolume = slider \/ Lost))

\* In relative mode the slider comes to rest at the center ("keeping the
\* iDevice volume at the center"), however many pokes are in flight when the
\* user turns it or the mode is switched, unless a poke has failed and no
\* report has come since.
Centering == <>[](pc = "relative") => <>[](InCenter(slider) \/ Lost)

\* Source.Volume sets the volume the source displays: when no command fails for
\* good and the user leaves the slider alone, it ends where the sink has last
\* put it (the sink stops setting it when its budget is spent).
VolumeIsSet ==
  [](pc # "relative" /\ ~Lost) /\ <>[](wish # NoWish) => <>[](slider = wish)

\* As long as the source accepts every setproperty nothing can come in between.
VolumeIsSetDirectly == [](~poke) => VolumeIsSet

\* A step the sink is told in relative mode comes from the user ("the volume
\* went down, this means the user dragged the volume slider down"), not from
\* what the handler itself has done to the slider, even before the mode was
\* switched.  It holds as long as the source accepts setproperty; the pokes
\* used after that can pass the center, and are then taken for turns.
StepsAreTurns == ~poke /\ PromptEcho => ~told.own
=============================================================================
