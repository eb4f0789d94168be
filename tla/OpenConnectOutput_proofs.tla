---------------------- MODULE OpenConnectOutput_proofs ----------------------
(* Proofs about OpenConnectOutput, for every value of its constants. *)
EXTENDS OpenConnectOutput, SequenceFacts, TLAPS

-----------------------------------------------------------------------------
(* The types, part by part *)

Handling == [hand : Handedness \cup {Unknown}, club : Club \cup {Unknown},
             distance : Nat \cup {None}, mode : ShotMode \cup {Unknown}]
Asked == [hand : Handedness \cup {Unknown}, club : Club \cup {Unknown},
          distance : Nat \cup {None}, chip : ChipSettings]

OutputOK == shotNumber \in Nat /\ ready \in BOOLEAN /\ handling \in Handling
SourceOK ==
    /\ bus \in Seq(BusEvent) /\ Len(bus) <= EventCap
    /\ lagged \in BOOLEAN /\ missed \in Nat
    /\ monitor \in [ready : BOOLEAN, strike : BOOLEAN, shots : Nat]
SinkOK ==
    /\ commands \in Seq(Handedness \cup ShotMode) /\ Len(commands) <= CommandCap
    /\ driver \in [hand : Handedness \cup {Unknown}, mode : ShotMode \cup {Unknown}]
WireOK ==
    /\ phase \in {"connecting", "serving", "waiting"}
    /\ link \in {"none", "up", "cut"}
    /\ phase = "serving" <=> link # "none"
    /\ toSim \in Seq(Message) /\ fromSim \in Seq(PlayerInfo)
    /\ sim \in [ready : BOOLEAN, shots : Seq([number : Nat, shot : Nat])]
AskedOK == chip \in ChipSettings /\ asked \in Asked
BoundsOK == inputs \in Nat /\ faults \in Nat

Parts == OutputOK /\ SourceOK /\ SinkOK /\ WireOK /\ AskedOK /\ BoundsOK

LEMMA TypeParts == OutputTypeOK <=> Parts
  BY Zenon DEF Parts, OutputTypeOK, OutputOK, SourceOK, SinkOK, WireOK, AskedOK, BoundsOK, Handling,
               Asked

LEMMA UnchangedParts ==
    /\ OutputOK /\ UNCHANGED <<shotNumber, ready, handling>> => OutputOK'
    /\ SourceOK /\ UNCHANGED source => SourceOK'
    /\ SinkOK /\ UNCHANGED sink => SinkOK'
    /\ WireOK /\ UNCHANGED <<phase, wire>> => WireOK'
    /\ AskedOK /\ UNCHANGED <<chip, asked>> => AskedOK'
    /\ BoundsOK /\ UNCHANGED <<inputs, faults>> => BoundsOK'
  <1>1. OutputOK /\ UNCHANGED <<shotNumber, ready, handling>> => OutputOK'
    BY DEF OutputOK
  <1>2. SourceOK /\ UNCHANGED source => SourceOK'
    BY DEF SourceOK, source
  <1>3. SinkOK /\ UNCHANGED sink => SinkOK'
    BY DEF SinkOK, sink
  <1>4. WireOK /\ UNCHANGED <<phase, wire>> => WireOK'
    BY DEF WireOK, wire
  <1>5. AskedOK /\ UNCHANGED <<chip, asked>> => AskedOK'
    BY DEF AskedOK
  <1>6. BoundsOK /\ UNCHANGED <<inputs, faults>> => BoundsOK'
    BY DEF BoundsOK
  <1>7. QED
    BY <1>1, <1>2, <1>3, <1>4, <1>5, <1>6

LEMMA Messages ==
    ASSUME NEW n \in Nat, NEW b \in BOOLEAN, NEW k \in Nat
    PROVE  Heartbeat(n, b) \in Message /\ ShotData(n, k) \in Message
  BY DEF Heartbeat, ShotData, Message

LEMMA Events ==
    ASSUME NEW type \in {"ready", "started", "disconnected", "other"}
    PROVE  Event(type) \in BusEvent
  BY DEF Event, BusEvent

LEMMA DropTypeOK ==
    ASSUME WireOK, Drop
    PROVE  WireOK'
  BY DEF WireOK, Drop

LEMMA SendTypeOK ==
    ASSUME WireOK, phase = "serving", NEW m \in Message, Send(m)
    PROVE  WireOK'
  <1>1. CASE Drop
    BY <1>1, DropTypeOK
  <1>2. CASE /\ toSim' = IF link = "up" THEN Append(toSim, m) ELSE toSim
             /\ UNCHANGED <<phase, link, fromSim, sim>>
    <2>1. toSim' \in Seq(Message)
      BY <1>2 DEF WireOK
    <2>2. QED
      BY <1>2, <2>1 DEF WireOK
  <1>3. QED
    BY <1>1, <1>2 DEF Send

LEMMA TakeTypeOK ==
    ASSUME SourceOK, NEW e, Take(e), lagged' \in BOOLEAN
    PROVE  /\ phase = "serving" /\ e \in BusEvent /\ SourceOK'
           /\ UNCHANGED <<handling, missed, monitor, sink, chip, asked, inputs, faults>>
  <1>1. /\ bus \in Seq(BusEvent) /\ bus # <<>> /\ e = Head(bus) /\ bus' = Tail(bus)
        /\ UNCHANGED <<missed, monitor>> /\ Len(bus) <= EventCap
    BY DEF Take, SourceOK
  <1>2. e \in BusEvent /\ bus' \in Seq(BusEvent) /\ Len(bus') = Len(bus) - 1 /\ Len(bus) \in Nat
    BY <1>1, TailFacts
  <1>3. Len(bus') <= EventCap
    BY <1>1, <1>2, OutputAssumption DEF OutputAssumption
  <1>4. QED
    BY <1>1, <1>2, <1>3 DEF Take, Idle, SourceOK

LEMMA EmitTypeOK ==
    ASSUME Parts, NEW e \in BusEvent, Emit(e),
           monitor' \in [ready : BOOLEAN, strike : BOOLEAN, shots : Nat]
    PROVE  Parts'
  <1>1. OutputOK /\ SourceOK /\ SinkOK /\ WireOK /\ AskedOK /\ BoundsOK
    BY DEF Parts
  <1>2. /\ UNCHANGED <<shotNumber, ready, phase, handling, sink, wire, chip, asked, faults>>
        /\ inputs' = inputs + 1
    BY DEF Emit, Input, output
  <1>3. OutputOK' /\ SinkOK' /\ WireOK' /\ AskedOK'
    BY <1>1, <1>2, UnchangedParts
  <1>4. BoundsOK'
    BY <1>1, <1>2 DEF BoundsOK
  <1>5. EventCap \in Nat /\ EventCap >= 1 /\ Len(bus) \in Nat /\ bus \in Seq(BusEvent)
    BY <1>1, OutputAssumption DEF SourceOK, OutputAssumption
  <1>6. bus' \in Seq(BusEvent) /\ Len(bus') <= EventCap
    <2>1. CASE Len(bus) < EventCap
      <3>1. bus' = Append(bus, e)
        BY <2>1 DEF Emit
      <3>2. QED
        BY <1>5, <2>1, <3>1, AppendFacts
    <2>2. CASE ~(Len(bus) < EventCap)
      <3>1. bus' = Append(Tail(bus), e) /\ Len(bus) <= EventCap
        BY <1>1, <2>2 DEF Emit, SourceOK
      <3>2. bus # <<>>
        BY <1>5, <2>2
      <3>3. Tail(bus) \in Seq(BusEvent) /\ Len(Tail(bus)) = Len(bus) - 1
        BY <1>5, <3>2, TailFacts
      <3>4. QED
        BY <1>5, <3>1, <3>3, AppendFacts
    <2>3. QED
      BY <2>1, <2>2
  <1>7. lagged' \in BOOLEAN /\ missed' \in Nat
    <2> DEFINE n == IF Head(bus).type = "shot" THEN 1 ELSE 0
    <2>1. n \in Nat /\ missed \in Nat /\ lagged \in BOOLEAN
      BY <1>1 DEF SourceOK
    <2>2. \/ lagged' = lagged /\ missed' = missed
          \/ lagged' = TRUE /\ missed' = missed + n
      BY Zenon DEF Emit
    <2> HIDE DEF n
    <2>3. lagged' \in BOOLEAN
      BY <2>1, <2>2, Zenon
    <2>4. missed' \in Nat
      <3>1. missed' = missed \/ missed' = missed + n
        BY <2>2, Zenon
      <3>2. QED
        BY <2>1, <3>1
    <2>5. QED
      BY <2>3, <2>4
  <1>8. SourceOK'
    BY <1>6, <1>7 DEF SourceOK
  <1>9. QED
    BY <1>3, <1>4, <1>8 DEF Parts

LEMMA ConnectingTypeOK == Parts /\ (Connect \/ ConnectFails \/ Retry) => Parts'
  <1> SUFFICES ASSUME Parts, Connect \/ ConnectFails \/ Retry PROVE Parts'
    OBVIOUS
  <1> USE DEF Parts
  <1>1. UNCHANGED <<shotNumber, ready, handling, source, sink, chip, asked>>
    BY DEF Connect, ConnectFails, Retry
  <1>2. BoundsOK'
    BY DEF Connect, ConnectFails, Retry, BoundsOK
  <1>3. WireOK'
    <2>1. CASE Connect
      <3>1. <<Heartbeat(shotNumber, ready)>> \in Seq(Message)
        <4>1. Heartbeat(shotNumber, ready) \in Message
          BY Messages DEF OutputOK
        <4>2. QED
          BY <4>1
      <3>2. /\ phase' = "serving" /\ link' = "up" /\ toSim' = <<Heartbeat(shotNumber, ready)>>
            /\ UNCHANGED <<fromSim, sim>>
        BY <2>1 DEF Connect
      <3>3. QED
        BY <3>1, <3>2 DEF WireOK
    <2>2. CASE ConnectFails \/ Retry
      BY <2>2 DEF ConnectFails, Retry, WireOK, wire
    <2>3. QED
      BY <2>1, <2>2
  <1>4. QED
    BY <1>1, <1>2, <1>3, UnchangedParts

LEMMA ServeTypeOK == Parts /\ (TakeEvent \/ Tick) => Parts'
  <1> SUFFICES ASSUME Parts, TakeEvent \/ Tick PROVE Parts'
    OBVIOUS
  <1> USE DEF Parts
  <1>1. CASE Tick
    <2>1. /\ phase = "serving" /\ Send(Heartbeat(shotNumber, ready))
          /\ UNCHANGED <<shotNumber, ready, handling, source, sink, chip, asked, inputs, faults>>
      BY <1>1 DEF Tick, Idle
    <2>2. Heartbeat(shotNumber, ready) \in Message
      BY Messages DEF OutputOK
    <2>3. QED
      BY <2>1, <2>2, SendTypeOK, UnchangedParts
  <1>2. CASE HearReady
    <2>1. /\ Take(Event("ready")) /\ ready' = TRUE /\ lagged' = FALSE
          /\ Send(Heartbeat(shotNumber, TRUE)) /\ UNCHANGED shotNumber
      BY <1>2 DEF HearReady
    <2>2. /\ phase = "serving" /\ SourceOK'
          /\ UNCHANGED <<handling, sink, chip, asked, inputs, faults>>
      BY <2>1, TakeTypeOK
    <2>3. Heartbeat(shotNumber, TRUE) \in Message
      BY Messages DEF OutputOK
    <2>4. OutputOK'
      BY <2>1, <2>2 DEF OutputOK
    <2>5. QED
      BY <2>1, <2>2, <2>3, <2>4, SendTypeOK, UnchangedParts
  <1>3. CASE HearUnready
    <2>1. PICK type \in {"started", "disconnected"} : Take(Event(type))
      BY <1>3 DEF HearUnready
    <2>2. ready' = FALSE /\ lagged' = FALSE /\ UNCHANGED <<shotNumber, phase, wire>>
      BY <1>3 DEF HearUnready
    <2>3. SourceOK' /\ UNCHANGED <<handling, sink, chip, asked, inputs, faults>>
      BY <2>1, <2>2, TakeTypeOK
    <2>4. OutputOK'
      BY <2>2, <2>3 DEF OutputOK
    <2>5. QED
      BY <2>2, <2>3, <2>4, UnchangedParts
  <1>4. CASE HearShot
    <2>1. PICK k \in 1..MaxInputs :
            /\ Take([type |-> "shot", shot |-> k]) /\ shotNumber' = shotNumber + 1
            /\ Send(ShotData(shotNumber', k)) /\ UNCHANGED <<ready, lagged>>
      BY <1>4 DEF HearShot
    <2>2. lagged' \in BOOLEAN
      BY <2>1 DEF SourceOK
    <2>3. /\ phase = "serving" /\ SourceOK'
          /\ UNCHANGED <<handling, sink, chip, asked, inputs, faults>>
      BY <2>1, <2>2, TakeTypeOK
    <2>4. shotNumber' \in Nat /\ k \in Nat
      BY <2>1, OutputAssumption DEF OutputOK, OutputAssumption
    <2>5. ShotData(shotNumber', k) \in Message
      BY <2>4, Messages
    <2>6. OutputOK'
      BY <2>1, <2>3, <2>4 DEF OutputOK
    <2>7. QED
      BY <2>1, <2>3, <2>5, <2>6, SendTypeOK, UnchangedParts
  <1>5. CASE HearOther
    <2>1. Take(Event("other")) /\ UNCHANGED <<shotNumber, ready, lagged, phase, wire>>
      BY <1>5 DEF HearOther
    <2>2. lagged' \in BOOLEAN
      BY <2>1 DEF SourceOK
    <2>3. SourceOK' /\ UNCHANGED <<handling, sink, chip, asked, inputs, faults>>
      BY <2>1, <2>2, TakeTypeOK
    <2>4. QED
      BY <2>1, <2>3, UnchangedParts
  <1>6. QED
    BY <1>1, <1>2, <1>3, <1>4, <1>5 DEF TakeEvent

LEMMA ResponseTypeOK == Parts /\ (ReadPlayer \/ ChooseMode \/ PassOn \/ LinkLost) => Parts'
  <1> SUFFICES ASSUME Parts, ReadPlayer \/ ChooseMode \/ PassOn \/ LinkLost PROVE Parts'
    OBVIOUS
  <1> USE DEF Parts
  <1>1. CASE ReadPlayer
    <2> DEFINE p == Head(fromSim)
    <2>1. /\ fromSim # <<>> /\ fromSim' = Tail(fromSim)
          /\ handling' = [hand |-> p.hand, club |-> p.club, mode |-> Unknown,
                          distance |-> IF p.club = Unknown THEN None ELSE p.distance]
          /\ asked' = IF p.hand = Unknown THEN asked ELSE [asked EXCEPT !.hand = p.hand]
          /\ UNCHANGED <<shotNumber, ready, phase, source, sink, link, toSim, sim, chip,
                         inputs, faults>>
      BY <1>1 DEF ReadPlayer
    <2>2. p \in PlayerInfo /\ fromSim' \in Seq(PlayerInfo)
      BY <2>1, TailFacts DEF WireOK
    <2> HIDE DEF p
    <2>3. OutputOK'
      BY <2>1, <2>2 DEF OutputOK, Handling, PlayerInfo
    <2>4. asked' \in Asked
      BY <2>1, <2>2 DEF AskedOK, Asked, PlayerInfo
    <2>5. WireOK'
      BY <2>1, <2>2 DEF WireOK
    <2>6. AskedOK'
      BY <2>1, <2>4 DEF AskedOK
    <2>7. QED
      BY <2>1, <2>3, <2>5, <2>6, UnchangedParts
  <1>2. CASE ChooseMode
    <2> DEFINE m == ResolveShotMode(chip, handling.club, handling.distance)
    <2>1. /\ handling' = [Nothing EXCEPT !.mode = m]
          /\ asked' = [asked EXCEPT !.club = handling.club, !.distance = handling.distance,
                                    !.chip = chip]
          /\ UNCHANGED <<shotNumber, ready, phase, source, sink, wire, chip, inputs, faults>>
      BY <1>2 DEF ChooseMode
    <2>2. m \in ShotMode
      BY DEF ResolveShotMode, ShotMode
    <2> HIDE DEF m
    <2>3. OutputOK'
      BY <2>1, <2>2 DEF OutputOK, Handling, Nothing, ShotMode
    <2>4. asked' \in Asked
      BY <2>1 DEF AskedOK, Asked, OutputOK, Handling
    <2>5. AskedOK'
      BY <2>1, <2>4 DEF AskedOK
    <2>6. QED
      BY <2>1, <2>3, <2>5, UnchangedParts
  <1>3. CASE PassOn
    <2>1. /\ ToSend # Unknown /\ Len(commands) < CommandCap
          /\ commands' = Append(commands, ToSend)
          /\ handling' \in {[handling EXCEPT !.hand = Unknown], Nothing}
          /\ UNCHANGED <<shotNumber, ready, phase, source, driver, wire, chip, asked, inputs,
                         faults>>
      BY <1>3 DEF PassOn, Forward
    <2>2. ToSend \in Handedness \cup ShotMode
      BY <2>1 DEF ToSend, OutputOK, Handling
    <2>3. /\ commands' \in Seq(Handedness \cup ShotMode) /\ Len(commands) \in Nat
          /\ Len(commands') = Len(commands) + 1
      BY <2>1, <2>2, AppendFacts DEF SinkOK
    <2>4. SinkOK'
      BY <2>1, <2>3, OutputAssumption DEF SinkOK, OutputAssumption
    <2>5. OutputOK'
      BY <2>1 DEF OutputOK, Handling, Nothing
    <2>6. QED
      BY <2>1, <2>4, <2>5, UnchangedParts
  <1>4. CASE LinkLost
    <2>1. Drop /\ UNCHANGED <<shotNumber, ready, handling, source, sink, chip, asked, inputs,
                              faults>>
      BY <1>4 DEF LinkLost
    <2>2. QED
      BY <2>1, DropTypeOK, UnchangedParts
  <1>5. QED
    BY <1>1, <1>2, <1>3, <1>4

LEMMA MonitorTypeOK == Parts /\ Monitor => Parts'
  <1> SUFFICES ASSUME Parts, Monitor PROVE Parts'
    OBVIOUS
  <1>1. monitor \in [ready : BOOLEAN, strike : BOOLEAN, shots : Nat]
    BY DEF Parts, SourceOK
  <1>2. CASE MonitorShot
    <2>1. /\ monitor' = [monitor EXCEPT !.strike = FALSE, !.shots = @ + 1]
          /\ Emit([type |-> "shot", shot |-> monitor'.shots])
      BY <1>2 DEF MonitorShot
    <2>2. monitor' \in [ready : BOOLEAN, strike : BOOLEAN, shots : Nat]
      <3> DEFINE n == monitor.shots + 1
      <3>1. n \in Nat
        BY <1>1
      <3>2. monitor' = [monitor EXCEPT !.strike = FALSE, !.shots = n]
        BY <2>1
      <3> HIDE DEF n
      <3>3. QED
        BY <1>1, <3>1, <3>2
    <2>3. monitor'.shots \in Nat
      BY <2>2
    <2>4. [type |-> "shot", shot |-> monitor'.shots] \in BusEvent
      BY <2>3 DEF BusEvent
    <2>5. QED
      BY <2>1, <2>2, <2>4, EmitTypeOK
  <1>3. CASE MonitorReady \/ MonitorStrike \/ MonitorMisread \/ MonitorStatus \/ MonitorLost
    <2>1. PICK type \in {"ready", "started", "disconnected", "other"} : Emit(Event(type))
      BY <1>3 DEF MonitorReady, MonitorStrike, MonitorMisread, MonitorStatus, MonitorLost
    <2>2. monitor' \in [ready : BOOLEAN, strike : BOOLEAN, shots : Nat]
      BY <1>1, <1>3
         DEF MonitorReady, MonitorStrike, MonitorMisread, MonitorStatus, MonitorLost
    <2>3. QED
      BY <2>1, <2>2, Events, EmitTypeOK
  <1>4. QED
    BY <1>2, <1>3 DEF Monitor

LEMMA RestTypeOK == Parts /\ (DriverTakes \/ SetChip \/ Sim) => Parts'
  <1> SUFFICES ASSUME Parts, DriverTakes \/ SetChip \/ Sim PROVE Parts'
    OBVIOUS
  <1> USE DEF Parts
  <1>1. CASE DriverTakes
    <2> DEFINE c == Head(commands)
    <2>1. /\ commands # <<>> /\ commands' = Tail(commands)
          /\ driver' = IF c \in Handedness THEN [driver EXCEPT !.hand = c]
                       ELSE [driver EXCEPT !.mode = c]
          /\ UNCHANGED <<output, source, wire, chip, asked, inputs, faults>>
      BY <1>1 DEF DriverTakes
    <2>2. /\ c \in Handedness \cup ShotMode /\ commands' \in Seq(Handedness \cup ShotMode)
          /\ Len(commands) \in Nat /\ Len(commands') = Len(commands) - 1
      BY <2>1, TailFacts DEF SinkOK
    <2> HIDE DEF c
    <2>3. driver' \in [hand : Handedness \cup {Unknown}, mode : ShotMode \cup {Unknown}]
      BY <2>1, <2>2 DEF SinkOK
    <2>4. SinkOK'
      BY <2>1, <2>2, <2>3, OutputAssumption DEF SinkOK, OutputAssumption
    <2>5. UNCHANGED <<shotNumber, ready, phase, handling>>
      BY <2>1 DEF output
    <2>6. QED
      BY <2>1, <2>4, <2>5, UnchangedParts
  <1>2. CASE SetChip
    <2>1. /\ inputs' = inputs + 1 /\ chip' \in ChipChoices
          /\ UNCHANGED <<shotNumber, ready, phase, handling, source, sink, wire, asked, faults>>
      BY <1>2 DEF SetChip, Input, output
    <2>2. AskedOK' /\ BoundsOK'
      BY <2>1, OutputAssumption DEF AskedOK, BoundsOK, OutputAssumption
    <2>3. QED
      BY <2>1, <2>2, UnchangedParts
  <1>3. CASE SimSends
    <2>1. PICK p \in PlayerInfos : fromSim' = Append(fromSim, p)
      BY <1>3 DEF SimSends
    <2>2. /\ inputs' = inputs + 1
          /\ UNCHANGED <<shotNumber, ready, phase, handling, source, sink, link, toSim, sim,
                         chip, asked, faults>>
      BY <1>3 DEF SimSends, Input, output
    <2>3. fromSim' \in Seq(PlayerInfo)
      BY <2>1, OutputAssumption, AppendFacts DEF WireOK, OutputAssumption
    <2>4. WireOK' /\ BoundsOK'
      BY <2>2, <2>3 DEF WireOK, BoundsOK
    <2>5. QED
      BY <2>2, <2>4, UnchangedParts
  <1>4. CASE SimReads
    <2> DEFINE m == Head(toSim)
    <2>1. /\ toSim # <<>> /\ toSim' = Tail(toSim)
          /\ sim' = [ready |-> m.ready,
                     shots |-> IF m.type = "shot"
                               THEN Append(sim.shots, [number |-> m.number, shot |-> m.shot])
                               ELSE sim.shots]
          /\ UNCHANGED <<shotNumber, ready, phase, handling, source, sink, link, fromSim,
                         chip, asked, inputs, faults>>
      BY <1>4 DEF SimReads, output
    <2>2. m \in Message /\ toSim' \in Seq(Message)
      BY <2>1, TailFacts DEF WireOK
    <2> HIDE DEF m
    <2>3. /\ m.ready \in BOOLEAN
          /\ [number |-> m.number, shot |-> m.shot] \in [number : Nat, shot : Nat]
          /\ sim.shots \in Seq([number : Nat, shot : Nat])
      BY <2>2 DEF Message, WireOK
    <2>4. Append(sim.shots, [number |-> m.number, shot |-> m.shot])
              \in Seq([number : Nat, shot : Nat])
      BY <2>3, AppendFacts
    <2>5. sim' \in [ready : BOOLEAN, shots : Seq([number : Nat, shot : Nat])]
      BY <2>1, <2>3, <2>4
    <2>6. WireOK'
      BY <2>1, <2>2, <2>5 DEF WireOK
    <2>7. QED
      BY <2>1, <2>6, UnchangedParts
  <1>5. CASE CutLink
    <2>1. /\ link = "up" /\ link' = "cut" /\ toSim' = <<>> /\ fromSim' \in {fromSim, <<>>}
          /\ faults' = faults + 1
          /\ UNCHANGED <<shotNumber, ready, phase, handling, source, sink, sim, chip, asked,
                         inputs>>
      BY <1>5 DEF CutLink, output
    <2>2. toSim' \in Seq(Message) /\ fromSim' \in Seq(PlayerInfo)
      <3>1. <<>> \in Seq(Message) /\ <<>> \in Seq(PlayerInfo) /\ fromSim \in Seq(PlayerInfo)
        BY DEF WireOK
      <3>2. QED
        BY <2>1, <3>1
    <2>3. WireOK' /\ BoundsOK'
      BY <2>1, <2>2 DEF WireOK, BoundsOK
    <2>4. QED
      BY <2>1, <2>3, UnchangedParts
  <1>6. QED
    BY <1>1, <1>2, <1>3, <1>4, <1>5 DEF Sim

LEMMA StepTypeOK == Parts /\ [Next]_vars => Parts'
  <1> SUFFICES ASSUME Parts, [Next]_vars PROVE Parts'
    OBVIOUS
  <1>1. CASE UNCHANGED vars
    BY <1>1, UnchangedParts DEF Parts, vars, output
  <1>2. QED
    BY <1>1, ConnectingTypeOK, ServeTypeOK, ResponseTypeOK, MonitorTypeOK, RestTypeOK
       DEF Next, Serve, Handle

\* The variables of the output, its channels and the sim keep their types.
THEOREM OutputTypeCorrect == Spec => []OutputTypeOK
  <1>1. Init => Parts
    <2> SUFFICES ASSUME Init PROVE Parts
      OBVIOUS
    <2>1. OutputOK /\ SinkOK /\ BoundsOK
      <3>1. handling \in Handling
        BY DEF Init, Handling, Nothing
      <3>2. shotNumber \in Nat /\ ready \in BOOLEAN /\ BoundsOK
        BY DEF Init, BoundsOK
      <3>3. commands = <<>> /\ Len(<<>>) = 0 /\ 0 <= CommandCap
        BY OutputAssumption DEF Init, OutputAssumption
      <3>4. commands \in Seq(Handedness \cup ShotMode) /\ Len(commands) <= CommandCap
        BY <3>3
      <3>5. driver \in [hand : Handedness \cup {Unknown}, mode : ShotMode \cup {Unknown}]
        BY DEF Init
      <3>6. QED
        BY <3>1, <3>2, <3>4, <3>5 DEF OutputOK, SinkOK
    <2>2. WireOK
      BY DEF Init, WireOK
    <2>3. SourceOK
      <3>1. bus = <<>> /\ Len(<<>>) = 0 /\ 0 <= EventCap
        BY OutputAssumption DEF Init, OutputAssumption
      <3>2. bus \in Seq(BusEvent) /\ Len(bus) <= EventCap
        BY <3>1
      <3>3. missed \in Nat /\ lagged \in BOOLEAN
        BY DEF Init
      <3>4. monitor \in [ready : BOOLEAN, strike : BOOLEAN, shots : Nat]
        BY DEF Init
      <3>5. QED
        BY <3>2, <3>3, <3>4 DEF SourceOK
    <2>4. AskedOK
      BY OutputAssumption DEF Init, AskedOK, Asked, OutputAssumption
    <2>5. QED
      BY <2>1, <2>2, <2>3, <2>4 DEF Parts
  <1>2. QED
    BY <1>1, StepTypeOK, TypeParts, PTL DEF Spec

-----------------------------------------------------------------------------
(* Commands: the last word of the sim on the hand and on the mode *)

Hands == [h \in Handedness |-> h]
Modes == [m \in ShotMode |-> m]

\* What is being handled is what was asked for last, or else the last command on its way
\* is, or else what the driver was told.
AskedInv ==
    /\ handling.mode # Unknown =>
          handling.hand = Unknown /\ handling.club = Unknown /\ handling.mode = ModeFor(asked)
    /\ IF handling.hand # Unknown THEN handling.hand = asked.hand
       ELSE LastWord(commands, Hands, driver.hand, asked.hand)
    /\ handling.mode = Unknown => LastWord(commands, Modes, driver.mode, ModeFor(asked))

LEMMA Words ==
    /\ DOMAIN Hands = Handedness /\ \A h \in Handedness : Hands[h] = h
    /\ DOMAIN Modes = ShotMode /\ \A m \in ShotMode : Modes[m] = m
    /\ Handedness \cap ShotMode = {} /\ Unknown \notin Handedness \cup ShotMode
  BY DEF Hands, Modes, Handedness, ShotMode, Unknown

LEMMA SameMode ==
    ASSUME NEW a \in Asked, NEW b \in Asked,
           a.club = b.club, a.distance = b.distance, a.chip = b.chip
    PROVE  ModeFor(a) = ModeFor(b)
  BY DEF ModeFor

\* The mode that is sent is the one its doc comment promises.
LEMMA ModeIsResolved ==
    ASSUME NEW a \in Asked, a.club # Unknown
    PROVE  ModeFor(a) = ResolveShotMode(a.chip, a.club, a.distance)
  <1>1. /\ a.club \in Club /\ a.chip.threshold \in Nat \cup {-1}
        /\ a.chip.threshold > 0 <=> a.chip.threshold \notin {-1, 0}
    BY DEF Asked, ChipSettings, None
  <1>2. QED
    BY <1>1 DEF ModeFor, ResolveShotMode, None, Club, Unknown

LEMMA AskedStep ==
    Parts /\ AskedInv /\ [Next]_vars => AskedInv'
  <1> SUFFICES ASSUME Parts, AskedInv, [Next]_vars PROVE AskedInv'
    OBVIOUS
  <1>1. /\ handling \in Handling /\ asked \in Asked
        /\ commands \in Seq(Handedness \cup ShotMode)
        /\ driver \in [hand : Handedness \cup {Unknown}, mode : ShotMode \cup {Unknown}]
    BY DEF Parts, OutputOK, AskedOK, SinkOK
  <1>2. ASSUME UNCHANGED <<handling, asked, commands, driver>> PROVE AskedInv'
    BY <1>2 DEF AskedInv
  <1>3. CASE ReadPlayer
    <2> DEFINE p == Head(fromSim)
    <2>1. /\ handling = Nothing /\ UNCHANGED <<commands, driver>>
          /\ handling'.hand = p.hand /\ handling'.mode = Unknown
          /\ asked' = IF p.hand = Unknown THEN asked ELSE [asked EXCEPT !.hand = p.hand]
      BY <1>3 DEF ReadPlayer, Idle, sink
    <2>2. asked' \in Asked
      BY <1>3, ResponseTypeOK DEF Parts, AskedOK
    <2>3. /\ LastWord(commands, Hands, driver.hand, asked.hand)
          /\ LastWord(commands, Modes, driver.mode, ModeFor(asked))
      BY <2>1 DEF AskedInv, Nothing
    <2>4. ModeFor(asked') = ModeFor(asked)
      <3>1. asked'.club = asked.club /\ asked'.distance = asked.distance /\ asked'.chip = asked.chip
        BY <1>1, <2>1 DEF Asked
      <3>2. QED
        BY <1>1, <2>2, <3>1, SameMode
    <2>5. asked'.hand = IF p.hand = Unknown THEN asked.hand ELSE p.hand
      BY <1>1, <2>1 DEF Asked
    <2> HIDE DEF p
    <2>6. QED
      BY <2>1, <2>3, <2>4, <2>5 DEF AskedInv
  <1>4. CASE ChooseMode
    <2> DEFINE m == ResolveShotMode(chip, handling.club, handling.distance)
    <2>1. /\ handling.hand = Unknown /\ handling.club # Unknown
          /\ handling' = [Nothing EXCEPT !.mode = m] /\ UNCHANGED <<commands, driver>>
          /\ asked' = [asked EXCEPT !.club = handling.club, !.distance = handling.distance,
                                    !.chip = chip]
      BY <1>4 DEF ChooseMode, sink
    <2>2. asked' \in Asked
      BY <1>4, ResponseTypeOK DEF Parts, AskedOK
    <2>3. /\ asked'.hand = asked.hand /\ asked'.chip = chip
          /\ asked'.club = handling.club /\ asked'.distance = handling.distance
      BY <1>1, <2>1 DEF Asked
    <2>4. ModeFor(asked') = m
      BY <2>1, <2>2, <2>3, ModeIsResolved
    <2>5. m # Unknown
      BY DEF ResolveShotMode, Unknown
    <2> HIDE DEF m
    <2>6. handling'.mode = m /\ handling'.hand = Unknown /\ handling'.club = Unknown
      BY <2>1 DEF Nothing
    <2>7. LastWord(commands, Hands, driver.hand, asked.hand)
      BY <2>1 DEF AskedInv
    <2>8. QED
      BY <2>1, <2>3, <2>4, <2>5, <2>6, <2>7 DEF AskedInv
  <1>5. CASE PassOn
    <2>1. /\ ToSend # Unknown /\ commands' = Append(commands, ToSend)
          /\ handling' = IF ToSend = handling.hand THEN [handling EXCEPT !.hand = Unknown]
                         ELSE Nothing
          /\ UNCHANGED <<asked, driver>>
      BY <1>5 DEF PassOn, Forward
    <2>2. CASE handling.hand # Unknown
      <3>1. ToSend = handling.hand /\ handling.hand \in Handedness
        BY <1>1, <2>2 DEF ToSend, Handling
      <3>2. handling.mode = Unknown /\ asked.hand = handling.hand
        BY <2>2 DEF AskedInv
      <3>3. handling'.hand = Unknown /\ handling'.mode = Unknown
        BY <1>1, <2>1, <3>1, <3>2 DEF Handling
      <3>4. LastWord(commands', Modes, driver.mode, ModeFor(asked))
        <4>1. LastWord(commands, Modes, driver.mode, ModeFor(asked))
          BY <3>2 DEF AskedInv
        <4>2. handling.hand \notin DOMAIN Modes
          BY <3>1, Words
        <4>3. QED
          BY <1>1, <2>1, <3>1, <4>1, <4>2, LastWordAppended
      <3>5. LastWord(commands', Hands, driver.hand, asked.hand)
        <4>1. handling.hand \in DOMAIN Hands /\ Hands[handling.hand] = asked.hand
          BY <3>1, <3>2, Words
        <4>2. QED
          BY <1>1, <2>1, <3>1, <4>1, LastWordAppended
      <3>6. QED
        BY <2>1, <3>3, <3>4, <3>5 DEF AskedInv
    <2>3. CASE handling.hand = Unknown
      <3>1. ToSend = handling.mode /\ handling.mode \in ShotMode
        BY <1>1, <2>1, <2>3 DEF ToSend, Handling
      <3>2. handling' = Nothing
        BY <2>1, <2>3, <3>1
      <3>3. ModeFor(asked) = handling.mode
        BY <2>1, <3>1 DEF AskedInv
      <3>4. LastWord(commands', Hands, driver.hand, asked.hand)
        <4>1. LastWord(commands, Hands, driver.hand, asked.hand)
          BY <2>3 DEF AskedInv
        <4>2. handling.mode \notin DOMAIN Hands
          BY <3>1, Words
        <4>3. QED
          BY <1>1, <2>1, <3>1, <4>1, <4>2, LastWordAppended
      <3>5. LastWord(commands', Modes, driver.mode, handling.mode)
        <4>1. handling.mode \in DOMAIN Modes /\ Modes[handling.mode] = handling.mode
          BY <3>1, Words
        <4>2. QED
          BY <1>1, <2>1, <3>1, <4>1, LastWordAppended
      <3>6. QED
        BY <2>1, <3>2, <3>3, <3>4, <3>5 DEF AskedInv, Nothing
    <2>4. QED
      BY <2>2, <2>3
  <1>6. CASE DriverTakes
    <2> DEFINE c == Head(commands)
    <2>1. /\ commands # <<>> /\ commands' = Tail(commands)
          /\ driver' = IF c \in Handedness THEN [driver EXCEPT !.hand = c]
                       ELSE [driver EXCEPT !.mode = c]
          /\ UNCHANGED <<handling, asked>>
      BY <1>6 DEF DriverTakes, output
    <2>2. c \in Handedness \cup ShotMode
      BY <1>1, <2>1, TailFacts
    <2>3. ASSUME NEW w, LastWord(commands, Hands, driver.hand, w)
          PROVE  LastWord(commands', Hands, driver'.hand, w)
      <3>1. /\ c \notin DOMAIN Hands => LastWord(commands', Hands, driver.hand, w)
            /\ c \in DOMAIN Hands => LastWord(commands', Hands, Hands[c], w)
        BY <1>1, <2>1, <2>3, LastWordTaken
      <3> HIDE DEF c
      <3>2. driver'.hand = IF c \in Handedness THEN c ELSE driver.hand
        BY <1>1, <2>1
      <3>3. QED
        BY <3>1, <3>2, Words
    <2>4. ASSUME NEW w, LastWord(commands, Modes, driver.mode, w)
          PROVE  LastWord(commands', Modes, driver'.mode, w)
      <3>1. /\ c \notin DOMAIN Modes => LastWord(commands', Modes, driver.mode, w)
            /\ c \in DOMAIN Modes => LastWord(commands', Modes, Modes[c], w)
        BY <1>1, <2>1, <2>4, LastWordTaken
      <3> HIDE DEF c
      <3>2. driver'.mode = IF c \in Handedness THEN driver.mode ELSE c
        BY <1>1, <2>1
      <3>3. QED
        BY <2>2, <3>1, <3>2, Words
    <2>5. QED
      BY <2>1, <2>3, <2>4 DEF AskedInv
  <1>7. CASE \/ Connect \/ ConnectFails \/ Retry \/ TakeEvent \/ Tick \/ LinkLost \/ Monitor
             \/ SetChip \/ Sim \/ UNCHANGED vars
    <2>1. UNCHANGED <<handling, asked, commands, driver>>
      BY <1>7 DEF Connect, ConnectFails, Retry, TakeEvent, HearReady, HearUnready, HearShot,
                  HearOther, Take, Tick, LinkLost, Monitor, MonitorReady, MonitorStrike,
                  MonitorShot, MonitorMisread, MonitorStatus, MonitorLost, Emit, SetChip, Sim,
                  SimSends, SimReads, CutLink, vars, output, sink
    <2>2. QED
      BY <1>2, <2>1
  <1>8. QED
    BY <1>3, <1>4, <1>5, <1>6, <1>7 DEF Next, Serve, Handle

\* Whatever the sizes of the channels and the rates of sim and driver, no command of the
\* sim is lost or overtaken.
THEOREM LastWordIsHeard == Spec => []LastWordWins
  <1>1. Init => AskedInv
    <2> SUFFICES ASSUME Init PROVE AskedInv
      OBVIOUS
    <2>1. /\ handling = Nothing /\ commands = <<>> /\ driver = [hand |-> Unknown, mode |-> Unknown]
          /\ asked = [hand |-> Unknown, club |-> Unknown, distance |-> None, chip |-> chip]
      BY DEF Init
    <2>2. ModeFor(asked) = Unknown
      <3>1. asked.club = Unknown /\ Unknown # "PT"
        BY <2>1 DEF Unknown
      <3>2. QED
        BY <3>1 DEF ModeFor
    <2>3. QED
      BY <2>1, <2>2 DEF AskedInv, LastWord, Nothing
  <1>2. Parts /\ AskedInv => LastWordWins
    <2> SUFFICES ASSUME Parts, AskedInv, handling = Nothing, commands = <<>>
                 PROVE  driver = [hand |-> asked.hand, mode |-> ModeFor(asked)]
      BY DEF LastWordWins
    <2>1. DOMAIN commands = {}
      OBVIOUS
    <2>2. driver.hand = asked.hand /\ driver.mode = ModeFor(asked)
      BY <2>1 DEF AskedInv, LastWord, Nothing
    <2>3. QED
      BY <2>2 DEF Parts, SinkOK
  <1>3. QED
    BY <1>1, <1>2, AskedStep, OutputTypeCorrect, TypeParts, PTL DEF Spec

-----------------------------------------------------------------------------
(* Events: the last word of the launch monitor on its readiness *)

Says == [e \in {Event("ready"), Event("started"), Event("disconnected")} |-> e.type = "ready"]

\* The last event about readiness on the bus is the launch monitor's last word; before
\* the first one that word was v, which the output has heard unless it missed events.
ReadyInv ==
    \E v \in BOOLEAN :
        /\ LastWord(bus, Says, v, monitor.ready)
        /\ ~lagged => v = ready

LEMMA Sayings ==
    /\ Event("ready") \in DOMAIN Says /\ Says[Event("ready")] = TRUE
    /\ \A type \in {"started", "disconnected"} :
          Event(type) \in DOMAIN Says /\ Says[Event(type)] = FALSE
    /\ Event("other") \notin DOMAIN Says
    /\ \A k : [type |-> "shot", shot |-> k] \notin DOMAIN Says
    /\ \A e \in DOMAIN Says : Says[e] \in BOOLEAN
  BY DEF Says, Event

LEMMA EmitWord ==
    ASSUME Parts, ReadyInv, NEW e \in BusEvent, Emit(e),
           e \notin DOMAIN Says => monitor'.ready = monitor.ready,
           e \in DOMAIN Says => monitor'.ready = Says[e]
    PROVE  ReadyInv'
  <1> DEFINE w == monitor.ready
             x == monitor'.ready
  <1>1. /\ bus \in Seq(BusEvent) /\ EventCap >= 1 /\ EventCap \in Nat /\ Len(bus) \in Nat
        /\ ready' = ready /\ lagged \in BOOLEAN
    BY OutputAssumption DEF Parts, SourceOK, OutputAssumption, Emit, output
  <1>2. ASSUME NEW s \in Seq(BusEvent), NEW v, LastWord(s, Says, v, w)
        PROVE  LastWord(Append(s, e), Says, v, x)
    BY <1>2, LastWordAppended
  <1>3. PICK v \in BOOLEAN : LastWord(bus, Says, v, w) /\ (~lagged => v = ready)
    BY DEF ReadyInv
  <1> HIDE DEF w
  <1>4. CASE Len(bus) < EventCap
    <2>1. bus' = Append(bus, e) /\ lagged' = lagged
      BY <1>4 DEF Emit
    <2>2. LastWord(bus', Says, v, x)
      BY <1>1, <1>2, <1>3, <2>1
    <2>3. QED
      BY <1>1, <1>3, <2>1, <2>2 DEF ReadyInv
  <1>5. CASE ~(Len(bus) < EventCap)
    <2>1. bus' = Append(Tail(bus), e) /\ lagged' = TRUE /\ bus # <<>>
      BY <1>1, <1>5 DEF Emit
    <2>2. Tail(bus) \in Seq(BusEvent)
      BY <1>1, <2>1, TailFacts
    <2>3. PICK u \in BOOLEAN : LastWord(Tail(bus), Says, u, w)
      BY <1>1, <1>3, <2>1, LastWordTaken, Sayings
    <2>4. LastWord(bus', Says, u, x)
      BY <1>2, <2>1, <2>2, <2>3
    <2>5. QED
      BY <2>1, <2>4 DEF ReadyInv
  <1>6. QED
    BY <1>4, <1>5

LEMMA ReadyStep ==
    Parts /\ ReadyInv /\ [Next]_vars => ReadyInv'
  <1> SUFFICES ASSUME Parts, ReadyInv, [Next]_vars PROVE ReadyInv'
    OBVIOUS
  <1>1. bus \in Seq(BusEvent) /\ monitor \in [ready : BOOLEAN, strike : BOOLEAN, shots : Nat]
    BY DEF Parts, SourceOK
  <1>2. PICK v \in BOOLEAN : LastWord(bus, Says, v, monitor.ready) /\ (~lagged => v = ready)
    BY DEF ReadyInv
  <1>3. CASE HearReady
    <2>1. /\ bus # <<>> /\ Head(bus) = Event("ready") /\ bus' = Tail(bus)
          /\ monitor' = monitor /\ ready' = TRUE /\ lagged' = FALSE
      BY <1>3 DEF HearReady, Take
    <2>2. LastWord(bus', Says, TRUE, monitor.ready)
      BY <1>1, <1>2, <2>1, LastWordTaken, Sayings
    <2>3. QED
      BY <2>1, <2>2 DEF ReadyInv
  <1>4. CASE HearUnready
    <2>1. PICK type \in {"started", "disconnected"} : Take(Event(type))
      BY <1>4 DEF HearUnready
    <2>2. /\ bus # <<>> /\ Head(bus) = Event(type) /\ bus' = Tail(bus)
          /\ monitor' = monitor /\ ready' = FALSE /\ lagged' = FALSE
      BY <1>4, <2>1 DEF HearUnready, Take
    <2>3. LastWord(bus', Says, FALSE, monitor.ready)
      BY <1>1, <1>2, <2>2, LastWordTaken, Sayings
    <2>4. QED
      BY <2>2, <2>3 DEF ReadyInv
  <1>5. CASE HearShot \/ HearOther
    <2>1. /\ bus # <<>> /\ Head(bus) \notin DOMAIN Says /\ bus' = Tail(bus)
          /\ UNCHANGED <<monitor, ready, lagged>>
      BY <1>5, Sayings DEF HearShot, HearOther, Take
    <2>2. LastWord(bus', Says, v, monitor.ready)
      BY <1>1, <1>2, <2>1, LastWordTaken
    <2>3. QED
      BY <1>2, <2>1, <2>2 DEF ReadyInv
  <1>6. CASE MonitorReady
    <2>1. Emit(Event("ready")) /\ monitor'.ready = TRUE
      BY <1>1, <1>6 DEF MonitorReady
    <2>2. QED
      BY <2>1, Events, EmitWord, Sayings
  <1>7. CASE MonitorStrike \/ MonitorLost
    <2>1. PICK type \in {"started", "disconnected"} : Emit(Event(type))
      BY <1>7 DEF MonitorStrike, MonitorLost
    <2>2. monitor'.ready = FALSE
      BY <1>1, <1>7 DEF MonitorStrike, MonitorLost
    <2>3. QED
      BY <2>1, <2>2, Events, EmitWord, Sayings
  <1>8. CASE MonitorMisread \/ MonitorStatus
    <2>1. Emit(Event("other")) /\ monitor'.ready = monitor.ready
      BY <1>1, <1>8 DEF MonitorMisread, MonitorStatus
    <2>2. QED
      BY <2>1, Events, EmitWord, Sayings
  <1>9. CASE MonitorShot
    <2> DEFINE e == [type |-> "shot", shot |-> monitor'.shots]
    <2>1. Emit(e) /\ monitor'.ready = monitor.ready
      BY <1>1, <1>9 DEF MonitorShot
    <2>2. monitor'.shots \in Nat
      BY <1>9, MonitorTypeOK DEF Monitor, Parts, SourceOK
    <2>3. e \in BusEvent /\ e \notin DOMAIN Says
      BY <2>2, Sayings DEF BusEvent
    <2> HIDE DEF e
    <2>4. QED
      BY <2>1, <2>3, EmitWord
  <1>10. CASE \/ Connect \/ ConnectFails \/ Retry \/ Tick \/ ReadPlayer \/ ChooseMode \/ PassOn
              \/ LinkLost \/ DriverTakes \/ SetChip \/ Sim \/ UNCHANGED vars
    <2>1. UNCHANGED <<bus, monitor, ready, lagged>>
      BY <1>10 DEF Connect, ConnectFails, Retry, Tick, ReadPlayer, ChooseMode, PassOn, Forward,
                   LinkLost, DriverTakes, SetChip, Sim, SimSends, SimReads, CutLink, vars,
                   output, source
    <2>2. QED
      BY <1>2, <2>1 DEF ReadyInv
  <1>11. QED
    BY <1>3, <1>4, <1>5, <1>6, <1>7, <1>8, <1>9, <1>10
       DEF Next, Serve, Handle, TakeEvent, Monitor

\* However often the sim comes and goes, and however far the output falls behind, what
\* its heartbeats say of readiness is the last it has heard of the launch monitor.
THEOREM ReadinessIsCurrent == Spec => []ReadyFollowsMonitor
  <1>1. Init => ReadyInv
    <2> SUFFICES ASSUME Init PROVE ReadyInv
      OBVIOUS
    <2>1. bus = <<>> /\ monitor.ready = FALSE /\ ready = FALSE
      BY DEF Init
    <2>2. LastWord(bus, Says, FALSE, monitor.ready)
      BY <2>1 DEF LastWord
    <2>3. QED
      BY <2>1, <2>2 DEF ReadyInv
  <1>2. ReadyInv => ReadyFollowsMonitor
    <2> SUFFICES ASSUME ReadyInv, bus = <<>>, ~lagged PROVE ready = monitor.ready
      BY DEF ReadyFollowsMonitor
    <2>1. DOMAIN bus = {}
      OBVIOUS
    <2>2. QED
      BY <2>1 DEF ReadyInv, LastWord
  <1>3. QED
    BY <1>1, <1>2, ReadyStep, OutputTypeCorrect, TypeParts, PTL DEF Spec

-----------------------------------------------------------------------------
(* Shots: their numbers only grow from the bus to the sim *)

\* The keys k of the elements of s, but for the elements without one (None), grow, and lie
\* above lo and not above hi.
Ladder(s, k, lo, hi) ==
    /\ \A i \in DOMAIN s : k[s[i]] # None => lo < k[s[i]] /\ k[s[i]] <= hi
    /\ \A i, j \in DOMAIN s :
          i < j /\ k[s[i]] # None /\ k[s[j]] # None => k[s[i]] < k[s[j]]

Key == Nat \cup {None}

LEMMA KeyIsInt == Key \subseteq Int
  BY DEF Key, None

LEMMA LadderAppended ==
    ASSUME NEW T, NEW s \in Seq(T), NEW x \in T, NEW k \in [T -> Key],
           NEW lo \in Key, NEW hi \in Key, NEW top \in Key, Ladder(s, k, lo, hi),
           lo <= hi, hi <= top, k[x] # None => hi < k[x] /\ k[x] <= top
    PROVE  Ladder(Append(s, x), k, lo, top)
  <1> DEFINE t == Append(s, x)
  <1>1. /\ Len(s) \in Nat /\ DOMAIN s = 1..Len(s) /\ DOMAIN t = 1..(Len(s) + 1)
        /\ \A i \in DOMAIN s : t[i] = s[i] /\ s[i] \in T /\ k[s[i]] \in Int
        /\ t[Len(s) + 1] = x
        /\ lo \in Int /\ hi \in Int /\ top \in Int /\ k[x] \in Int
    <2>1. \A i \in DOMAIN s : s[i] \in T
      OBVIOUS
    <2>2. /\ lo \in Int /\ hi \in Int /\ top \in Int
          /\ \A y \in T : k[y] \in Int
      BY KeyIsInt
    <2>3. QED
      BY <2>1, <2>2, AppendFacts
  <1> HIDE DEF t
  <1>2. ASSUME NEW i \in DOMAIN t, k[t[i]] # None
        PROVE  lo < k[t[i]] /\ k[t[i]] <= top
    <2>1. CASE i = Len(s) + 1
      BY <1>1, <1>2, <2>1
    <2>2. CASE i # Len(s) + 1
      <3>1. i \in DOMAIN s
        BY <1>1, <2>2
      <3>2. lo < k[s[i]] /\ k[s[i]] <= hi
        BY <1>1, <1>2, <3>1 DEF Ladder
      <3>3. QED
        BY <1>1, <3>1, <3>2
    <2>3. QED
      BY <2>1, <2>2
  <1>3. ASSUME NEW i \in DOMAIN t, NEW j \in DOMAIN t, i < j, k[t[i]] # None, k[t[j]] # None
        PROVE  k[t[i]] < k[t[j]]
    <2>1. i \in DOMAIN s
      BY <1>1, <1>3
    <2>2. CASE j = Len(s) + 1
      <3>1. k[s[i]] <= hi
        BY <1>1, <1>3, <2>1 DEF Ladder
      <3>2. QED
        BY <1>1, <1>3, <2>1, <2>2, <3>1
    <2>3. CASE j # Len(s) + 1
      <3>1. j \in DOMAIN s
        BY <1>1, <2>3
      <3>2. QED
        BY <1>1, <1>3, <2>1, <3>1 DEF Ladder
    <2>4. QED
      BY <2>2, <2>3
  <1>4. QED
    BY <1>2, <1>3 DEF Ladder, t

LEMMA LadderTaken ==
    ASSUME NEW T, NEW s \in Seq(T), s # <<>>, NEW k \in [T -> Key],
           NEW lo \in Key, NEW hi \in Key, Ladder(s, k, lo, hi)
    PROVE  /\ Ladder(Tail(s), k, lo, hi)
           /\ k[Head(s)] # None =>
                 /\ lo < k[Head(s)] /\ k[Head(s)] <= hi
                 /\ Ladder(Tail(s), k, k[Head(s)], hi)
  <1> DEFINE t == Tail(s)
             h == Head(s)
  <1>1. /\ Len(s) \in Nat /\ Len(s) >= 1 /\ DOMAIN s = 1..Len(s)
        /\ DOMAIN t = 1..(Len(s) - 1)
        /\ \A i \in DOMAIN t : i + 1 \in DOMAIN s /\ t[i] = s[i + 1]
        /\ h = s[1] /\ 1 \in DOMAIN s
    BY TailFacts
  <1> HIDE DEF t, h
  <1>2. \A i \in DOMAIN t : i \in Nat /\ 1 < i + 1
    BY <1>1
  <1>3. ASSUME NEW i \in DOMAIN t, NEW j \in DOMAIN t, i < j, k[t[i]] # None, k[t[j]] # None
        PROVE  k[t[i]] < k[t[j]]
    <2>1. i + 1 < j + 1
      BY <1>2, <1>3
    <2>2. QED
      BY <1>1, <1>3, <2>1 DEF Ladder
  <1>4. \A i \in DOMAIN t : k[t[i]] # None => lo < k[t[i]] /\ k[t[i]] <= hi
    BY <1>1 DEF Ladder
  <1>5. k[h] # None => \A i \in DOMAIN t : k[t[i]] # None => k[h] < k[t[i]]
    BY <1>1, <1>2 DEF Ladder
  <1>6. k[h] # None => lo < k[h] /\ k[h] <= hi
    BY <1>1 DEF Ladder
  <1>7. QED
    BY <1>3, <1>4, <1>5, <1>6 DEF Ladder, t, h

LEMMA LadderWiden ==
    ASSUME NEW T, NEW s \in Seq(T), NEW k \in [T -> Key],
           NEW lo \in Key, NEW hi \in Key, NEW top \in Key, Ladder(s, k, lo, hi), hi <= top
    PROVE  Ladder(s, k, lo, top)
  <1>1. /\ \A i \in DOMAIN s : s[i] \in T /\ k[s[i]] \in Int
        /\ hi \in Int /\ top \in Int
    <2>1. \A i \in DOMAIN s : s[i] \in T
      OBVIOUS
    <2>2. hi \in Int /\ top \in Int /\ \A y \in T : k[y] \in Int
      BY KeyIsInt
    <2>3. QED
      BY <2>1, <2>2
  <1>2. ASSUME NEW i \in DOMAIN s, k[s[i]] # None PROVE k[s[i]] <= top
    <2>1. k[s[i]] <= hi
      BY <1>2 DEF Ladder
    <2>2. QED
      BY <1>1, <2>1
  <1>3. QED
    BY <1>2 DEF Ladder

LEMMA LadderEmpty ==
    ASSUME NEW k, NEW lo, NEW hi
    PROVE  Ladder(<<>>, k, lo, hi)
  BY DEF Ladder

Got == [number : Nat, shot : Nat]
GotNumber == [x \in Got |-> x.number]
GotShot == [x \in Got |-> x.shot]
SentNumber == [m \in Message |-> IF m.type = "shot" THEN m.number ELSE None]
SentShot == [m \in Message |-> IF m.type = "shot" THEN m.shot ELSE None]
MadeShot == [e \in BusEvent |-> IF e.type = "shot" THEN e.shot ELSE None]

LEMMA Keys ==
    /\ GotNumber \in [Got -> Key] /\ GotShot \in [Got -> Key]
    /\ SentNumber \in [Message -> Key] /\ SentShot \in [Message -> Key]
    /\ MadeShot \in [BusEvent -> Key]
    /\ \A n \in Nat, b \in BOOLEAN :
          SentNumber[Heartbeat(n, b)] = None /\ SentShot[Heartbeat(n, b)] = None
    /\ \A n, k \in Nat : SentNumber[ShotData(n, k)] = n /\ SentShot[ShotData(n, k)] = k
    /\ \A k \in Nat : [type |-> "shot", shot |-> k] \in BusEvent
                          /\ MadeShot[[type |-> "shot", shot |-> k]] = k
  <1>1. /\ GotNumber \in [Got -> Key] /\ GotShot \in [Got -> Key]
        /\ SentNumber \in [Message -> Key] /\ SentShot \in [Message -> Key]
        /\ MadeShot \in [BusEvent -> Key]
    BY DEF GotNumber, GotShot, SentNumber, SentShot, MadeShot, Got, Message, BusEvent, Key
  <1>2. \A n \in Nat, b \in BOOLEAN :
          SentNumber[Heartbeat(n, b)] = None /\ SentShot[Heartbeat(n, b)] = None
    BY Messages DEF SentNumber, SentShot, Heartbeat
  <1>3. \A n, k \in Nat : SentNumber[ShotData(n, k)] = n /\ SentShot[ShotData(n, k)] = k
    BY Messages DEF SentNumber, SentShot, ShotData
  <1>4. \A k \in Nat : [type |-> "shot", shot |-> k] \in BusEvent
                          /\ MadeShot[[type |-> "shot", shot |-> k]] = k
    BY DEF MadeShot, BusEvent
  <1>5. QED
    BY <1>1, <1>2, <1>3, <1>4

\* The shots that the sim got are numbered up to a and made up to b, those on their way
\* to it come after them, up to the present number and to c, and those on the bus last.
Ladders(a, b, c) ==
    /\ a <= shotNumber /\ b <= c /\ c <= monitor.shots
    /\ Ladder(sim.shots, GotNumber, None, a)
    /\ Ladder(toSim, SentNumber, a, shotNumber)
    /\ Ladder(sim.shots, GotShot, None, b)
    /\ Ladder(toSim, SentShot, b, c)
    /\ Ladder(bus, MadeShot, c, monitor.shots)

OrderInv == \E a, b, c \in Nat : Ladders(a, b, c)

\* What is sent keeps in order if it is no shot, or one above all that were sent before.
LEMMA SendLadders ==
    ASSUME Parts, NEW m \in Message, Send(m),
           NEW a \in Nat, NEW b \in Nat, NEW c \in Nat, NEW top \in Nat, NEW last \in Nat,
           Ladder(toSim, SentNumber, a, shotNumber), Ladder(toSim, SentShot, b, c),
           a <= shotNumber, shotNumber <= top, b <= c, c <= last,
           SentNumber[m] # None => shotNumber < SentNumber[m] /\ SentNumber[m] <= top,
           SentShot[m] # None => c < SentShot[m] /\ SentShot[m] <= last
    PROVE  Ladder(toSim', SentNumber, a, top) /\ Ladder(toSim', SentShot, b, last)
  <1>1. toSim \in Seq(Message) /\ shotNumber \in Nat
    BY DEF Parts, WireOK, OutputOK
  <1>2. \A n \in Nat : n \in Key
    BY DEF Key
  <1>3. CASE toSim' = <<>>
    BY <1>3, LadderEmpty
  <1>4. CASE toSim' = toSim
    BY <1>1, <1>2, <1>4, Keys, LadderWiden
  <1>5. CASE toSim' = Append(toSim, m)
    <2>1. Ladder(toSim', SentNumber, a, top)
      BY <1>1, <1>2, <1>5, Keys, LadderAppended
    <2>2. Ladder(toSim', SentShot, b, last)
      BY <1>1, <1>2, <1>5, Keys, LadderAppended
    <2>3. QED
      BY <2>1, <2>2
  <1>6. QED
    BY <1>3, <1>4, <1>5 DEF Send, Drop

LEMMA EmitLadder ==
    ASSUME Parts, NEW e \in BusEvent, Emit(e), NEW c \in Nat, NEW top \in Nat,
           Ladder(bus, MadeShot, c, monitor.shots), c <= monitor.shots, monitor.shots <= top,
           MadeShot[e] # None => monitor.shots < MadeShot[e] /\ MadeShot[e] <= top
    PROVE  Ladder(bus', MadeShot, c, top)
  <1>1. /\ bus \in Seq(BusEvent) /\ EventCap >= 1 /\ EventCap \in Nat /\ Len(bus) \in Nat
        /\ monitor.shots \in Nat
    BY OutputAssumption DEF Parts, SourceOK, OutputAssumption
  <1>2. \A n \in Nat : n \in Key
    BY DEF Key
  <1>3. ASSUME NEW s \in Seq(BusEvent), Ladder(s, MadeShot, c, monitor.shots)
        PROVE  Ladder(Append(s, e), MadeShot, c, top)
    BY <1>1, <1>2, <1>3, Keys, LadderAppended
  <1>4. CASE Len(bus) < EventCap
    BY <1>1, <1>3, <1>4 DEF Emit
  <1>5. CASE ~(Len(bus) < EventCap)
    <2>1. bus' = Append(Tail(bus), e) /\ bus # <<>>
      BY <1>1, <1>5 DEF Emit
    <2>2. Tail(bus) \in Seq(BusEvent) /\ Ladder(Tail(bus), MadeShot, c, monitor.shots)
      BY <1>1, <1>2, <2>1, TailFacts, Keys, LadderTaken
    <2>3. QED
      BY <1>3, <2>1, <2>2
  <1>6. QED
    BY <1>4, <1>5

\* An event that is no shot leaves the shots behind it in order.
LEMMA BusLadder ==
    ASSUME Parts, NEW e, Take(e), NEW c \in Nat, Ladder(bus, MadeShot, c, monitor.shots)
    PROVE  /\ Ladder(bus', MadeShot, c, monitor.shots) /\ UNCHANGED monitor
           /\ MadeShot[e] # None =>
                 /\ c < MadeShot[e] /\ MadeShot[e] <= monitor.shots
                 /\ Ladder(bus', MadeShot, MadeShot[e], monitor.shots)
  <1>1. /\ bus \in Seq(BusEvent) /\ bus # <<>> /\ e = Head(bus) /\ bus' = Tail(bus)
        /\ UNCHANGED monitor /\ c \in Key /\ monitor.shots \in Key
    BY DEF Parts, SourceOK, Take, Key
  <1>2. MadeShot \in [BusEvent -> Key]
    BY Keys
  <1>3. /\ Ladder(Tail(bus), MadeShot, c, monitor.shots)
        /\ MadeShot[Head(bus)] # None =>
              /\ c < MadeShot[Head(bus)] /\ MadeShot[Head(bus)] <= monitor.shots
              /\ Ladder(Tail(bus), MadeShot, MadeShot[Head(bus)], monitor.shots)
    BY <1>1, <1>2, LadderTaken
  <1>4. QED
    BY <1>1, <1>3

LEMMA OrderStep ==
    Parts /\ OrderInv /\ [Next]_vars => OrderInv'
  <1> SUFFICES ASSUME Parts, OrderInv, [Next]_vars PROVE OrderInv'
    OBVIOUS
  <1>1. PICK a \in Nat, b \in Nat, c \in Nat : Ladders(a, b, c)
    BY DEF OrderInv
  <1>2. /\ a <= shotNumber /\ b <= c /\ c <= monitor.shots
        /\ Ladder(sim.shots, GotNumber, None, a)
        /\ Ladder(toSim, SentNumber, a, shotNumber)
        /\ Ladder(sim.shots, GotShot, None, b)
        /\ Ladder(toSim, SentShot, b, c)
        /\ Ladder(bus, MadeShot, c, monitor.shots)
    BY <1>1 DEF Ladders
  <1>3. /\ shotNumber \in Nat /\ ready \in BOOLEAN /\ monitor.shots \in Nat
        /\ toSim \in Seq(Message) /\ sim.shots \in Seq(Got)
        /\ monitor \in [ready : BOOLEAN, strike : BOOLEAN, shots : Nat]
        /\ sim \in [ready : BOOLEAN, shots : Seq(Got)]
        /\ \A n \in Nat : n \in Key
        /\ None \in Key /\ \A n \in Nat : None <= n
    BY DEF Parts, OutputOK, SourceOK, WireOK, Key, Got, None
  <1>4. CASE Connect
    <2>1. toSim' = <<Heartbeat(shotNumber, ready)>> /\ UNCHANGED <<shotNumber, monitor, bus, sim>>
      BY <1>4 DEF Connect, source
    <2>2. Heartbeat(shotNumber, ready) \in Message
      BY <1>3, Messages
    <2>3. /\ toSim' = Append(<<>>, Heartbeat(shotNumber, ready))
          /\ <<>> \in Seq(Message)
      BY <2>1
    <2>4. ASSUME NEW k \in [Message -> Key], k[Heartbeat(shotNumber, ready)] = None,
                 NEW lo \in Nat, NEW hi \in Nat, lo <= hi
          PROVE  Ladder(toSim', k, lo, hi)
      <3>1. Ladder(<<>>, k, lo, hi) /\ hi <= hi /\ lo \in Key /\ hi \in Key
        BY <1>3, <2>4, LadderEmpty
      <3>2. QED
        BY <2>2, <2>3, <2>4, <3>1, LadderAppended
    <2>5. /\ SentNumber \in [Message -> Key] /\ SentShot \in [Message -> Key]
          /\ SentNumber[Heartbeat(shotNumber, ready)] = None
          /\ SentShot[Heartbeat(shotNumber, ready)] = None
      BY <1>3, Keys
    <2>6. Ladder(toSim', SentNumber, a, shotNumber) /\ Ladder(toSim', SentShot, b, c)
      BY <1>2, <1>3, <2>4, <2>5
    <2>7. Ladders(a, b, c)'
      BY <1>2, <2>1, <2>6 DEF Ladders
    <2>8. QED
      BY <2>7 DEF OrderInv
  <1>5. ASSUME NEW m \in Message, Send(m), SentNumber[m] = None, SentShot[m] = None,
               UNCHANGED <<shotNumber, monitor, sim>>, Ladder(bus', MadeShot, c, monitor.shots)
        PROVE  OrderInv'
    <2>1. Ladder(toSim', SentNumber, a, shotNumber) /\ Ladder(toSim', SentShot, b, c)
      BY <1>2, <1>3, <1>5, SendLadders
    <2>2. Ladders(a, b, c)'
      BY <1>2, <1>5, <2>1 DEF Ladders
    <2>3. QED
      BY <2>2 DEF OrderInv
  <1>6. ASSUME NEW m, Send(m) PROVE UNCHANGED sim
    BY <1>6 DEF Send, Drop
  <1>7. CASE Tick
    <2>1. Send(Heartbeat(shotNumber, ready)) /\ UNCHANGED <<shotNumber, monitor, bus>>
      BY <1>7 DEF Tick, source
    <2>2. QED
      BY <1>2, <1>3, <1>5, <1>6, <2>1, Messages, Keys
  <1>8. CASE HearReady
    <2>1. /\ Take(Event("ready")) /\ Send(Heartbeat(shotNumber, TRUE)) /\ UNCHANGED shotNumber
      BY <1>8 DEF HearReady
    <2>2. Ladder(bus', MadeShot, c, monitor.shots) /\ UNCHANGED <<monitor, sim>>
      BY <1>2, <1>6, <2>1, BusLadder
    <2>3. QED
      BY <1>3, <1>5, <2>1, <2>2, Messages, Keys
  <1>9. CASE HearUnready \/ HearOther
    <2>1. PICK e : Take(e)
      BY <1>9 DEF HearUnready, HearOther
    <2>2. UNCHANGED <<shotNumber, toSim, sim>>
      BY <1>9 DEF HearUnready, HearOther, wire
    <2>3. Ladder(bus', MadeShot, c, monitor.shots) /\ UNCHANGED monitor
      BY <1>2, <2>1, BusLadder
    <2>4. Ladders(a, b, c)'
      BY <1>2, <2>2, <2>3 DEF Ladders
    <2>5. QED
      BY <2>4 DEF OrderInv
  <1>10. CASE HearShot
    <2>1. PICK k \in 1..MaxInputs :
            /\ Take([type |-> "shot", shot |-> k]) /\ shotNumber' = shotNumber + 1
            /\ Send(ShotData(shotNumber', k))
      BY <1>10 DEF HearShot
    <2>2. k \in Nat /\ shotNumber' \in Nat /\ shotNumber < shotNumber' /\ k # None
      BY <1>3, <2>1, OutputAssumption DEF OutputAssumption, None
    <2>3. /\ Ladder(bus', MadeShot, k, monitor.shots) /\ UNCHANGED <<monitor, sim>>
          /\ c < k /\ k <= monitor.shots
      BY <1>2, <1>6, <2>1, <2>2, BusLadder, Keys
    <2>4. Ladder(toSim', SentNumber, a, shotNumber') /\ Ladder(toSim', SentShot, b, k)
      <3> DEFINE m == ShotData(shotNumber', k)
      <3>1. m \in Message /\ SentNumber[m] = shotNumber' /\ SentShot[m] = k /\ Send(m)
        BY <2>1, <2>2, Messages, Keys
      <3>2. shotNumber <= shotNumber' /\ c <= k /\ shotNumber' <= shotNumber' /\ k <= k
        BY <1>3, <2>2, <2>3
      <3> HIDE DEF m
      <3>3. QED
        BY <1>2, <2>2, <2>3, <3>1, <3>2, SendLadders
    <2>5. a <= shotNumber' /\ b <= k
      BY <1>2, <1>3, <2>2, <2>3
    <2>6. Ladders(a, b, k)'
      BY <1>2, <2>3, <2>4, <2>5 DEF Ladders
    <2>7. QED
      BY <2>2, <2>6 DEF OrderInv
  <1>11. CASE LinkLost \/ CutLink
    <2>1. toSim' = <<>> /\ UNCHANGED <<shotNumber, monitor, bus, sim>>
      BY <1>11 DEF LinkLost, Drop, CutLink, output, source
    <2>2. Ladders(a, b, c)'
      BY <1>2, <2>1, LadderEmpty DEF Ladders
    <2>3. QED
      BY <2>2 DEF OrderInv
  <1>12. CASE SimReads
    <2> DEFINE m == Head(toSim)
    <2>1. /\ toSim # <<>> /\ toSim' = Tail(toSim) /\ UNCHANGED <<shotNumber, monitor, bus>>
          /\ sim'.shots = IF m.type = "shot"
                         THEN Append(sim.shots, [number |-> m.number, shot |-> m.shot])
                         ELSE sim.shots
      BY <1>12 DEF SimReads, output, source
    <2>2. m \in Message
      BY <1>3, <2>1, TailFacts
    <2> HIDE DEF m
    <2>3. CASE m.type # "shot"
      <3>1. Ladder(toSim', SentNumber, a, shotNumber) /\ Ladder(toSim', SentShot, b, c)
        BY <1>2, <1>3, <2>1, Keys, LadderTaken
      <3>2. Ladders(a, b, c)'
        BY <1>2, <2>1, <2>3, <3>1 DEF Ladders
      <3>3. QED
        BY <3>2 DEF OrderInv
    <2>4. CASE m.type = "shot"
      <3>1. PICK n \in Nat, k \in Nat :
              /\ m.number = n /\ m.shot = k /\ n # None /\ k # None
              /\ SentNumber[m] = n /\ SentShot[m] = k
        BY <2>2, <2>4 DEF Message, SentNumber, SentShot, None
      <3>2. ASSUME NEW key \in [Message -> Key], NEW i \in Nat, key[m] = i, i # None,
                   NEW lo \in Nat, NEW hi \in Nat, Ladder(toSim, key, lo, hi)
            PROVE  Ladder(toSim', key, i, hi) /\ lo < i /\ i <= hi
        BY <1>3, <2>1, <3>2, LadderTaken DEF m
      <3>3. SentNumber \in [Message -> Key] /\ SentShot \in [Message -> Key]
        BY Keys
      <3>4. Ladder(toSim', SentNumber, n, shotNumber) /\ a < n /\ n <= shotNumber
        BY <1>2, <1>3, <3>1, <3>2, <3>3
      <3>5. Ladder(toSim', SentShot, k, c) /\ b < k /\ k <= c
        BY <1>2, <1>3, <3>1, <3>2, <3>3
      <3> DEFINE x == [number |-> n, shot |-> k]
      <3>6. x \in Got /\ GotNumber[x] = n /\ GotShot[x] = k
        BY DEF Got, GotNumber, GotShot
      <3>7. sim'.shots = Append(sim.shots, x)
        BY <2>1, <2>4, <3>1
      <3> HIDE DEF x
      <3>8. ASSUME NEW key \in [Got -> Key], NEW i \in Nat, key[x] = i,
                   NEW hi \in Nat, hi < i, Ladder(sim.shots, key, None, hi)
            PROVE  Ladder(sim'.shots, key, None, i)
        <4>1. None <= hi /\ hi <= i /\ i <= i
          BY <1>3, <3>8
        <4>2. QED
          BY <1>3, <3>6, <3>7, <3>8, <4>1, LadderAppended
      <3>9. GotNumber \in [Got -> Key] /\ GotShot \in [Got -> Key]
        BY Keys
      <3>10. Ladder(sim'.shots, GotNumber, None, n) /\ Ladder(sim'.shots, GotShot, None, k)
        BY <1>2, <3>4, <3>5, <3>6, <3>8, <3>9
      <3>11. Ladders(n, k, c)'
        BY <1>2, <2>1, <3>4, <3>5, <3>10 DEF Ladders
      <3>12. QED
        BY <3>11 DEF OrderInv
    <2>5. QED
      BY <2>3, <2>4
  <1>13. CASE MonitorShot
    <2> DEFINE top == monitor.shots + 1
               e == [type |-> "shot", shot |-> top]
    <2>1. monitor'.shots = top /\ Emit(e)
      BY <1>3, <1>13 DEF MonitorShot
    <2>2. top \in Nat /\ monitor.shots < top /\ monitor.shots <= top /\ top <= top /\ c <= top
      BY <1>2, <1>3
    <2>3. UNCHANGED <<shotNumber, toSim, sim>>
      BY <2>1 DEF Emit, output, wire
    <2> HIDE DEF top
    <2>4. e \in BusEvent /\ MadeShot[e] = top
      BY <2>2, Keys
    <2> HIDE DEF e
    <2>5. Ladder(bus', MadeShot, c, top)
      BY <1>2, <2>1, <2>2, <2>4, EmitLadder
    <2>6. Ladders(a, b, c)'
      BY <1>2, <2>1, <2>2, <2>3, <2>5 DEF Ladders
    <2>7. QED
      BY <2>6 DEF OrderInv
  <1>14. CASE MonitorReady \/ MonitorStrike \/ MonitorMisread \/ MonitorStatus \/ MonitorLost
    <2>1. PICK type \in {"ready", "started", "disconnected", "other"} : Emit(Event(type))
      BY <1>14 DEF MonitorReady, MonitorStrike, MonitorMisread, MonitorStatus, MonitorLost
    <2>2. monitor'.shots = monitor.shots
      BY <1>3, <1>14
         DEF MonitorReady, MonitorStrike, MonitorMisread, MonitorStatus, MonitorLost
    <2>3. UNCHANGED <<shotNumber, toSim, sim>>
      BY <2>1 DEF Emit, output, wire
    <2>4. Event(type) \in BusEvent /\ MadeShot[Event(type)] = None
      BY Events DEF MadeShot, Event
    <2>5. monitor.shots <= monitor.shots
      BY <1>3
    <2>6. Ladder(bus', MadeShot, c, monitor.shots)
      BY <1>2, <1>3, <2>1, <2>4, <2>5, EmitLadder
    <2>7. Ladders(a, b, c)'
      BY <1>2, <2>2, <2>3, <2>6 DEF Ladders
    <2>8. QED
      BY <2>7 DEF OrderInv
  <1>15. CASE \/ ConnectFails \/ Retry \/ ReadPlayer \/ ChooseMode \/ PassOn \/ DriverTakes
              \/ SetChip \/ SimSends \/ UNCHANGED vars
    <2>1. UNCHANGED <<shotNumber, monitor, bus, toSim, sim>>
      BY <1>15 DEF ConnectFails, Retry, ReadPlayer, ChooseMode, PassOn, Forward, DriverTakes,
                   SetChip, SimSends, vars, output, source, wire
    <2>2. Ladders(a, b, c)'
      BY <1>2, <2>1 DEF Ladders
    <2>3. QED
      BY <2>2 DEF OrderInv
  <1>16. QED
    BY <1>4, <1>7, <1>8, <1>9, <1>10, <1>11, <1>12, <1>13, <1>14, <1>15
       DEF Next, Serve, Handle, TakeEvent, Monitor, Sim

LEMMA InOrder == Spec => []OrderInv
  <1>1. Init => OrderInv
    <2> SUFFICES ASSUME Init PROVE OrderInv
      OBVIOUS
    <2>1. /\ shotNumber = 0 /\ monitor.shots = 0 /\ bus = <<>> /\ toSim = <<>>
          /\ sim.shots = <<>>
      BY DEF Init
    <2>2. Ladders(0, 0, 0)
      BY <2>1, LadderEmpty DEF Ladders
    <2>3. QED
      BY <2>2 DEF OrderInv
  <1>2. QED
    BY <1>1, OrderStep, OutputTypeCorrect, TypeParts, PTL DEF Spec

\* Through lost links, failed sends and missed events, what the sim gets are different
\* shots in the order they were made, under growing numbers.
THEOREM ShotsKeepOrder == Spec => []ShotsInOrder
  <1>1. Parts /\ OrderInv => ShotsInOrder
    <2> SUFFICES ASSUME Parts, OrderInv,
                        NEW i \in DOMAIN sim.shots, NEW j \in DOMAIN sim.shots, i < j
                 PROVE  /\ sim.shots[i].number < sim.shots[j].number
                        /\ sim.shots[i].shot < sim.shots[j].shot
      BY DEF ShotsInOrder
    <2>1. PICK a \in Nat, b \in Nat :
            /\ Ladder(sim.shots, GotNumber, None, a) /\ Ladder(sim.shots, GotShot, None, b)
      BY DEF OrderInv, Ladders
    <2>2. sim.shots \in Seq(Got)
      BY DEF Parts, WireOK, Got
    <2>3. sim.shots[i] \in Got /\ sim.shots[j] \in Got
      BY <2>2
    <2>4. \A x \in Got : GotNumber[x] = x.number /\ GotShot[x] = x.shot
                            /\ x.number # None /\ x.shot # None
      BY DEF Got, GotNumber, GotShot, None
    <2>5. QED
      BY <2>1, <2>3, <2>4 DEF Ladder
  <1>2. QED
    BY <1>1, InOrder, OutputTypeCorrect, TypeParts, PTL

-----------------------------------------------------------------------------
(* Shots: none is lost while the link holds and no event is missed *)

Has(s, x) == \E i \in DOMAIN s : s[i] = x

LEMMA HasTaken ==
    ASSUME NEW T, NEW s \in Seq(T), s # <<>>, NEW x
    PROVE  /\ Has(s, x) => x = Head(s) \/ Has(Tail(s), x)
           /\ Has(Tail(s), x) => Has(s, x)
  <1>1. /\ Len(s) \in Nat /\ DOMAIN s = 1..Len(s) /\ DOMAIN Tail(s) = 1..(Len(s) - 1)
        /\ \A i \in DOMAIN Tail(s) : i + 1 \in DOMAIN s /\ Tail(s)[i] = s[i + 1]
        /\ Head(s) = s[1]
    BY TailFacts
  <1>2. ASSUME NEW i \in DOMAIN s, s[i] = x, x # Head(s) PROVE Has(Tail(s), x)
    <2>1. i - 1 \in DOMAIN Tail(s) /\ (i - 1) + 1 = i
      BY <1>1, <1>2
    <2>2. Tail(s)[i - 1] = x
      BY <1>1, <1>2, <2>1
    <2>3. QED
      BY <2>1, <2>2 DEF Has
  <1>3. Has(Tail(s), x) => Has(s, x)
    BY <1>1 DEF Has
  <1>4. QED
    BY <1>2, <1>3 DEF Has

LEMMA HasAppended ==
    ASSUME NEW T, NEW s \in Seq(T), NEW y \in T, NEW x
    PROVE  /\ Has(s, x) => Has(Append(s, y), x)
           /\ Has(Append(s, y), y)
           /\ Has(Append(s, y), x) => Has(s, x) \/ x = y
  <1> DEFINE t == Append(s, y)
  <1>1. /\ Len(s) \in Nat /\ DOMAIN s = 1..Len(s) /\ DOMAIN t = 1..(Len(s) + 1)
        /\ \A i \in DOMAIN s : t[i] = s[i]
        /\ t[Len(s) + 1] = y
    BY AppendFacts
  <1> HIDE DEF t
  <1>2. Has(s, x) => Has(t, x)
    BY <1>1 DEF Has
  <1>3. Has(t, y)
    BY <1>1 DEF Has
  <1>4. ASSUME NEW i \in DOMAIN t, t[i] = x, x # y PROVE Has(s, x)
    <2>1. i \in DOMAIN s
      BY <1>1, <1>4
    <2>2. QED
      BY <1>1, <1>4, <2>1 DEF Has
  <1>5. QED
    BY <1>2, <1>3, <1>4 DEF Has, t

Shot(k) == [type |-> "shot", shot |-> k]
Received(k) == [number |-> k, shot |-> k]

LinkInv ==
    /\ link # "up" => toSim = <<>>
    /\ link = "cut" => faults > 0

LEMMA LinkStep == Parts /\ LinkInv /\ [Next]_vars => LinkInv'
  <1> SUFFICES ASSUME Parts, LinkInv, [Next]_vars PROVE LinkInv'
    OBVIOUS
  <1>1. faults \in Nat
    BY DEF Parts, BoundsOK
  <1>2. CASE Connect
    BY <1>2 DEF Connect, LinkInv
  <1>3. CASE LinkLost
    BY <1>3 DEF LinkLost, Drop, LinkInv
  <1>4. CASE CutLink
    BY <1>1, <1>4 DEF CutLink, LinkInv
  <1>5. ASSUME NEW m, Send(m), faults' = faults PROVE LinkInv'
    BY <1>5 DEF Send, Drop, LinkInv
  <1>6. CASE Tick \/ HearReady \/ HearShot
    BY <1>5, <1>6 DEF Tick, HearReady, HearShot, Take
  <1>7. CASE SimReads
    <2>1. toSim # <<>> /\ UNCHANGED <<link, faults>>
      BY <1>7 DEF SimReads
    <2>2. QED
      BY <2>1 DEF LinkInv
  <1>8. CASE \/ ConnectFails \/ Retry \/ HearUnready \/ HearOther \/ ReadPlayer \/ ChooseMode
             \/ PassOn \/ Monitor \/ DriverTakes \/ SetChip \/ SimSends \/ UNCHANGED vars
    <2>1. UNCHANGED <<link, toSim>> /\ (faults' = faults \/ faults' = faults + 1)
      BY <1>8 DEF ConnectFails, Retry, HearUnready, HearOther, Take, ReadPlayer, ChooseMode,
                  PassOn, Forward, Monitor, MonitorReady, MonitorStrike, MonitorShot,
                  MonitorMisread, MonitorStatus, MonitorLost, Emit, DriverTakes, SetChip,
                  SimSends, vars, wire
    <2>2. QED
      BY <1>1, <2>1 DEF LinkInv
  <1>9. QED
    BY <1>2, <1>3, <1>4, <1>6, <1>7, <1>8 DEF Next, Serve, TakeEvent, Handle, Sim

\* Without faults a shot is on the bus until the output numbers it, as the launch monitor
\* does, and then on its way to the sim or there.
Flowing ==
    /\ shotNumber <= monitor.shots
    /\ Ladder(bus, MadeShot, shotNumber, monitor.shots)
    /\ \A x : Has(sim.shots, x) => x.number = x.shot
    /\ \A m : Has(toSim, m) /\ m.type = "shot" => m.number = m.shot
    /\ \A n \in 1..monitor.shots :
          IF n <= shotNumber THEN Has(sim.shots, Received(n)) \/ Has(toSim, ShotData(n, n))
          ELSE Has(bus, Shot(n))

FlowInv == faults = 0 /\ missed = 0 => Flowing

LEMMA NextShot ==
    ASSUME Parts, Flowing, NEW k \in Nat, bus # <<>>, Head(bus) = Shot(k)
    PROVE  k = shotNumber + 1
  <1>1. /\ shotNumber \in Nat /\ monitor.shots \in Nat /\ bus \in Seq(BusEvent)
        /\ \A n \in Nat : n \in Key /\ n # None
    BY DEF Parts, OutputOK, SourceOK, Key, None
  <1>2. Head(bus) = bus[1] /\ 1 \in DOMAIN bus /\ DOMAIN bus = 1..Len(bus) /\ Len(bus) \in Nat
    BY <1>1, TailFacts
  <1>3. MadeShot[bus[1]] = k /\ shotNumber < k /\ k <= monitor.shots
    <2>1. MadeShot[bus[1]] = k
      BY <1>2, Keys DEF Shot
    <2>2. QED
      BY <1>1, <1>2, <2>1 DEF Flowing, Ladder
  <1>4. SUFFICES ASSUME k # shotNumber + 1 PROVE FALSE
    OBVIOUS
  <1> DEFINE n == shotNumber + 1
  <1>5. n \in 1..monitor.shots /\ ~(n <= shotNumber) /\ n < k /\ n \in Nat
    BY <1>1, <1>3, <1>4
  <1> HIDE DEF n
  <1>6. PICK i \in DOMAIN bus : bus[i] = Shot(n)
    BY <1>5 DEF Flowing, Has
  <1>7. MadeShot[bus[i]] = n
    BY <1>5, <1>6, Keys DEF Shot
  <1>8. 1 < i
    <2>1. i # 1
      BY <1>3, <1>5, <1>7
    <2>2. QED
      BY <1>2, <2>1
  <1>9. k < n
    BY <1>1, <1>2, <1>3, <1>5, <1>7, <1>8 DEF Flowing, Ladder
  <1>10. QED
    BY <1>5, <1>9

\* Without faults what is sent gets on its way.
LEMMA SendFlows ==
    ASSUME Parts, LinkInv, faults = 0, Idle, NEW m \in Message, Send(m)
    PROVE  toSim' = Append(toSim, m) /\ UNCHANGED sim
  <1>1. link = "up"
    BY DEF Parts, WireOK, LinkInv, Idle
  <1>2. QED
    BY <1>1 DEF Send

\* A message that is no shot changes nothing.
LEMMA FlowSends ==
    ASSUME Parts, Flowing, NEW m \in Message, m.type # "shot", toSim' = Append(toSim, m),
           UNCHANGED <<shotNumber, monitor, sim>>, Ladder(bus', MadeShot, shotNumber, monitor.shots),
           \A n \in Nat : Has(bus, Shot(n)) => Has(bus', Shot(n))
    PROVE  Flowing'
  <1>1. toSim \in Seq(Message) /\ monitor.shots \in Nat
    BY DEF Parts, WireOK, SourceOK
  <1>2. \A x : /\ Has(toSim, x) => Has(toSim', x)
               /\ Has(toSim', x) => Has(toSim, x) \/ x = m
    BY <1>1, HasAppended
  <1>3. \A n \in 1..monitor.shots : n \in Nat
    BY <1>1
  <1>4. QED
    BY <1>2, <1>3 DEF Flowing

\* An event that is no shot is read.
LEMMA FlowReads ==
    ASSUME Parts, Flowing, NEW e, Take(e), e.type # "shot"
    PROVE  /\ Ladder(bus', MadeShot, shotNumber, monitor.shots)
           /\ \A n \in Nat : Has(bus, Shot(n)) => Has(bus', Shot(n))
           /\ UNCHANGED monitor
  <1>1. /\ bus \in Seq(BusEvent) /\ bus # <<>> /\ e = Head(bus) /\ bus' = Tail(bus)
        /\ UNCHANGED monitor /\ shotNumber \in Nat
    BY DEF Parts, SourceOK, OutputOK, Take
  <1>2. Ladder(bus', MadeShot, shotNumber, monitor.shots)
    BY <1>1, BusLadder DEF Flowing
  <1>3. \A n \in Nat : Shot(n) # e
    BY DEF Shot
  <1>4. \A n \in Nat : Has(bus, Shot(n)) => Has(bus', Shot(n))
    BY <1>1, <1>3, HasTaken
  <1>5. QED
    BY <1>1, <1>2, <1>4

\* A shot is read, numbered and sent.
LEMMA FlowShot ==
    ASSUME Parts, LinkInv, Flowing, faults = 0, HearShot
    PROVE  Flowing'
  <1>1. PICK k \in 1..MaxInputs :
          /\ Take(Shot(k)) /\ shotNumber' = shotNumber + 1 /\ Send(ShotData(shotNumber', k))
    BY DEF HearShot, Shot
  <1>2. /\ k \in Nat /\ shotNumber \in Nat /\ shotNumber' \in Nat /\ monitor.shots \in Nat
        /\ bus \in Seq(BusEvent) /\ toSim \in Seq(Message)
        /\ bus # <<>> /\ Head(bus) = Shot(k) /\ bus' = Tail(bus) /\ UNCHANGED monitor
    BY <1>1, OutputAssumption
       DEF OutputAssumption, Parts, OutputOK, SourceOK, WireOK, Take
  <1>3. k = shotNumber'
    BY <1>1, <1>2, NextShot
  <1>4. toSim' = Append(toSim, ShotData(k, k)) /\ UNCHANGED sim /\ ShotData(k, k) \in Message
    <2>1. ShotData(k, k) \in Message
      BY <1>2, Messages
    <2>2. Idle
      BY <1>1 DEF Take
    <2>3. QED
      BY <1>1, <1>3, <2>1, <2>2, SendFlows
  <1>5. Ladder(bus', MadeShot, k, monitor.shots) /\ k <= monitor.shots
    <2>1. MadeShot[Shot(k)] = k /\ k # None
      BY <1>2, Keys DEF Shot, None
    <2>2. QED
      BY <1>1, <1>2, <2>1, BusLadder DEF Flowing
  <1>6. \A x : /\ Has(toSim, x) => Has(toSim', x)
               /\ Has(toSim', x) => Has(toSim, x) \/ x = ShotData(k, k)
    BY <1>2, <1>4, HasAppended
  <1>7. Has(toSim', ShotData(k, k))
    BY <1>2, <1>4, HasAppended
  <1>8. \A m : Has(toSim', m) /\ m.type = "shot" => m.number = m.shot
    BY <1>6 DEF Flowing, ShotData
  <1>9. ASSUME NEW n \in 1..monitor.shots
        PROVE  IF n <= k THEN Has(sim.shots, Received(n)) \/ Has(toSim', ShotData(n, n))
               ELSE Has(bus', Shot(n))
    <2>1. CASE n <= shotNumber
      <3>1. n <= k
        BY <1>1, <1>2, <1>3, <2>1
      <3>2. QED
        BY <1>6, <2>1, <3>1 DEF Flowing
    <2>2. CASE n = k
      BY <1>7, <2>2
    <2>3. CASE ~(n <= shotNumber) /\ n # k
      <3>1. Has(bus, Shot(n)) /\ ~(n <= k)
        BY <1>1, <1>2, <1>3, <2>3 DEF Flowing
      <3>2. Shot(n) # Shot(k)
        BY <2>3 DEF Shot
      <3>3. Has(bus', Shot(n))
        BY <1>2, <3>1, <3>2, HasTaken
      <3>4. QED
        BY <3>1, <3>3
    <2>4. QED
      BY <2>1, <2>2, <2>3
  <1>10. \A x : Has(sim'.shots, x) => x.number = x.shot
    BY <1>4 DEF Flowing
  <1>11. QED
    BY <1>2, <1>3, <1>4, <1>5, <1>8, <1>9, <1>10 DEF Flowing

\* The sim reads a message.
LEMMA FlowArrives ==
    ASSUME Parts, Flowing, SimReads
    PROVE  Flowing'
  <1> DEFINE m == Head(toSim)
             x == [number |-> m.number, shot |-> m.shot]
  <1>1. /\ toSim # <<>> /\ toSim' = Tail(toSim) /\ UNCHANGED <<shotNumber, monitor, bus>>
        /\ sim'.shots = IF m.type = "shot" THEN Append(sim.shots, x) ELSE sim.shots
        /\ toSim \in Seq(Message) /\ sim.shots \in Seq(Got) /\ monitor.shots \in Nat
    BY DEF SimReads, output, source, Parts, WireOK, SourceOK, Got
  <1>2. \A y : /\ Has(toSim, y) => y = m \/ Has(toSim', y)
               /\ Has(toSim', y) => Has(toSim, y)
    BY <1>1, HasTaken
  <1>3. m \in Message /\ Has(toSim, m)
    BY <1>1, TailFacts DEF Has
  <1>4. m.type = "shot" => m.number = m.shot /\ x \in Got
    BY <1>3 DEF Flowing, Message, Got
  <1>5. \A y : /\ Has(sim.shots, y) => Has(sim'.shots, y)
               /\ Has(sim'.shots, y) => Has(sim.shots, y) \/ (m.type = "shot" /\ y = x)
    BY <1>1, <1>4, HasAppended
  <1>6. m.type = "shot" => Has(sim'.shots, x)
    BY <1>1, <1>4, HasAppended
  <1> HIDE DEF m
  <1>7. ASSUME NEW n \in 1..monitor.shots, n <= shotNumber
        PROVE  Has(sim'.shots, Received(n)) \/ Has(toSim', ShotData(n, n))
    <2>1. Has(sim.shots, Received(n)) \/ Has(toSim, ShotData(n, n))
      BY <1>7 DEF Flowing
    <2>2. m = ShotData(n, n) => x = Received(n) /\ m.type = "shot"
      BY DEF ShotData, Received
    <2>3. QED
      BY <1>2, <1>5, <1>6, <2>1, <2>2
  <1>8. \A y : Has(sim'.shots, y) => y.number = y.shot
    BY <1>4, <1>5 DEF Flowing
  <1>9. \A y : Has(toSim', y) /\ y.type = "shot" => y.number = y.shot
    BY <1>2 DEF Flowing
  <1>10. QED
    BY <1>1, <1>7, <1>8, <1>9 DEF Flowing

\* The launch monitor says something; no shot falls off the bus.
LEMMA FlowEmits ==
    ASSUME Parts, Flowing, Monitor, missed = 0, missed' = 0
    PROVE  Flowing'
  <1>1. /\ monitor.shots \in Nat /\ bus \in Seq(BusEvent) /\ EventCap \in Nat /\ EventCap >= 1
        /\ shotNumber \in Nat /\ Len(bus) \in Nat
        /\ monitor \in [ready : BOOLEAN, strike : BOOLEAN, shots : Nat]
    BY OutputAssumption DEF OutputAssumption, Parts, SourceOK, OutputOK
  <1>2. PICK e \in BusEvent : Emit(e) /\ \/ e = Shot(monitor.shots + 1)
                                             /\ monitor'.shots = monitor.shots + 1
                                         \/ e.type # "shot" /\ monitor'.shots = monitor.shots
    <2>1. CASE MonitorShot
      <3>1. monitor.shots + 1 \in Nat /\ monitor'.shots = monitor.shots + 1
        BY <1>1, <2>1 DEF MonitorShot
      <3>2. Emit(Shot(monitor.shots + 1))
        BY <2>1, <3>1 DEF MonitorShot, Shot
      <3>3. Shot(monitor.shots + 1) \in BusEvent
        BY <3>1, Keys DEF Shot
      <3>4. QED
        BY <3>1, <3>2, <3>3
    <2>2. CASE MonitorReady \/ MonitorStrike \/ MonitorMisread \/ MonitorStatus \/ MonitorLost
      <3>1. PICK type \in {"ready", "started", "disconnected", "other"} : Emit(Event(type))
        BY <2>2 DEF MonitorReady, MonitorStrike, MonitorMisread, MonitorStatus, MonitorLost
      <3>2. monitor'.shots = monitor.shots
        BY <1>1, <2>2
           DEF MonitorReady, MonitorStrike, MonitorMisread, MonitorStatus, MonitorLost
      <3>3. Event(type).type # "shot"
        BY DEF Event
      <3>4. QED
        BY <3>1, <3>2, <3>3, Events
    <2>3. QED
      BY <2>1, <2>2 DEF Monitor
  <1>3. UNCHANGED <<shotNumber, toSim, sim>>
    BY <1>2 DEF Emit, output, wire
  <1>4. PICK top \in Nat : top = monitor'.shots /\ monitor.shots <= top
    BY <1>1, <1>2
  <1>5. Ladder(bus', MadeShot, shotNumber, top)
    <2>1. MadeShot[e] # None => monitor.shots < MadeShot[e] /\ MadeShot[e] <= top
      <3>1. CASE e.type # "shot"
        BY <3>1 DEF MadeShot
      <3>2. CASE e = Shot(monitor.shots + 1) /\ monitor'.shots = monitor.shots + 1
        BY <1>1, <1>4, <3>2, Keys DEF Shot
      <3>3. QED
        BY <1>2, <3>1, <3>2
    <2>2. QED
      BY <1>1, <1>2, <1>4, <2>1, EmitLadder DEF Flowing
  <1>6. \A n \in Nat : Has(bus, Shot(n)) => Has(bus', Shot(n))
    <2>1. CASE Len(bus) < EventCap
      <3>1. bus' = Append(bus, e)
        BY <1>2, <2>1 DEF Emit
      <3>2. QED
        BY <1>1, <3>1, HasAppended
    <2>2. CASE ~(Len(bus) < EventCap)
      <3>1. bus' = Append(Tail(bus), e) /\ Head(bus).type # "shot" /\ bus # <<>>
        BY <1>1, <1>2, <2>2 DEF Emit
      <3>2. Tail(bus) \in Seq(BusEvent) /\ \A n \in Nat : Shot(n) # Head(bus)
        BY <1>1, <3>1, TailFacts DEF Shot
      <3>3. \A n \in Nat : Has(bus, Shot(n)) => Has(Tail(bus), Shot(n))
        BY <1>1, <3>1, <3>2, HasTaken
      <3>4. QED
        BY <3>1, <3>2, <3>3, HasAppended
    <2>3. QED
      BY <2>1, <2>2
  <1>7. Has(bus', e)
    <2>1. CASE Len(bus) < EventCap
      BY <1>1, <1>2, <2>1, HasAppended DEF Emit
    <2>2. CASE ~(Len(bus) < EventCap)
      <3>1. bus' = Append(Tail(bus), e) /\ bus # <<>>
        BY <1>1, <1>2, <2>2 DEF Emit
      <3>2. Tail(bus) \in Seq(BusEvent)
        BY <1>1, <3>1, TailFacts
      <3>3. QED
        BY <3>1, <3>2, HasAppended
    <2>3. QED
      BY <2>1, <2>2
  <1>8. ASSUME NEW n \in 1..top
        PROVE  IF n <= shotNumber THEN Has(sim.shots, Received(n)) \/ Has(toSim, ShotData(n, n))
               ELSE Has(bus', Shot(n))
    <2>1. CASE n \in 1..monitor.shots
      BY <1>6, <2>1 DEF Flowing
    <2>2. CASE n \notin 1..monitor.shots
      <3>1. n = monitor.shots + 1 /\ monitor'.shots = monitor.shots + 1
        BY <1>1, <1>2, <1>4, <2>2
      <3>2. e = Shot(n) /\ ~(n <= shotNumber)
        BY <1>1, <1>2, <3>1 DEF Flowing
      <3>3. QED
        BY <1>7, <3>2
    <2>3. QED
      BY <2>1, <2>2
  <1>9. shotNumber <= top
    BY <1>1, <1>4 DEF Flowing
  <1>10. QED
    BY <1>3, <1>4, <1>5, <1>8, <1>9 DEF Flowing

LEMMA FlowStep ==
    Parts /\ LinkInv /\ FlowInv /\ [Next]_vars => FlowInv'
  <1> SUFFICES ASSUME Parts, LinkInv, FlowInv, [Next]_vars, faults' = 0, missed' = 0
               PROVE  Flowing'
    BY DEF FlowInv
  <1>1. /\ shotNumber \in Nat /\ ready \in BOOLEAN /\ faults \in Nat /\ missed \in Nat
        /\ toSim \in Seq(Message)
    BY DEF Parts, OutputOK, BoundsOK, SourceOK, WireOK
  <1>2. CASE ConnectFails \/ CutLink
    <2>1. faults' = faults + 1
      BY <1>2 DEF ConnectFails, CutLink
    <2>2. QED
      BY <1>1, <2>1
  <1>3. CASE Monitor
    <2>1. PICK e : Emit(e)
      BY <1>3 DEF Monitor, MonitorReady, MonitorStrike, MonitorShot, MonitorMisread,
                  MonitorStatus, MonitorLost
    <2>2. /\ faults' = faults
          /\ \/ missed' = missed
             \/ missed' = missed + (IF Head(bus).type = "shot" THEN 1 ELSE 0)
      BY <2>1, Zenon DEF Emit
    <2>3. missed = 0 /\ faults = 0
      BY <1>1, <2>2
    <2>4. QED
      BY <1>3, <2>3, FlowEmits DEF FlowInv
  <1>4. CASE Connect
    <2>1. /\ faults = 0 /\ missed = 0 /\ phase = "connecting"
          /\ toSim' = <<Heartbeat(shotNumber, ready)>>
          /\ UNCHANGED <<shotNumber, bus, monitor, sim>>
      BY <1>4 DEF Connect, source
    <2>2. toSim = <<>>
      BY <2>1 DEF Parts, WireOK, LinkInv
    <2>3. toSim' = Append(toSim, Heartbeat(shotNumber, ready))
      BY <2>1, <2>2
    <2>4. Heartbeat(shotNumber, ready) \in Message /\ Heartbeat(shotNumber, ready).type # "shot"
      BY <1>1, Messages DEF Heartbeat
    <2>5. Flowing
      BY <2>1 DEF FlowInv
    <2>6. Ladder(bus', MadeShot, shotNumber, monitor.shots)
      BY <2>1, <2>5 DEF Flowing
    <2>7. QED
      BY <2>1, <2>3, <2>4, <2>5, <2>6, FlowSends
  <1>5. CASE Tick
    <2>1. /\ faults = 0 /\ missed = 0 /\ Idle /\ Send(Heartbeat(shotNumber, ready))
          /\ UNCHANGED <<shotNumber, bus, monitor>>
      BY <1>5 DEF Tick, source
    <2>2. Heartbeat(shotNumber, ready) \in Message /\ Heartbeat(shotNumber, ready).type # "shot"
      BY <1>1, Messages DEF Heartbeat
    <2>3. toSim' = Append(toSim, Heartbeat(shotNumber, ready)) /\ UNCHANGED sim
      BY <2>1, <2>2, SendFlows
    <2>4. Flowing
      BY <2>1 DEF FlowInv
    <2>5. Ladder(bus', MadeShot, shotNumber, monitor.shots)
      BY <2>1, <2>4 DEF Flowing
    <2>6. QED
      BY <2>1, <2>2, <2>3, <2>4, <2>5, FlowSends
  <1>6. CASE HearReady
    <2>1. /\ faults = 0 /\ missed = 0 /\ Idle /\ Send(Heartbeat(shotNumber, TRUE))
          /\ UNCHANGED shotNumber /\ Take(Event("ready"))
      BY <1>6 DEF HearReady, Take
    <2>2. Heartbeat(shotNumber, TRUE) \in Message /\ Heartbeat(shotNumber, TRUE).type # "shot"
      BY <1>1, Messages DEF Heartbeat
    <2>3. toSim' = Append(toSim, Heartbeat(shotNumber, TRUE)) /\ UNCHANGED sim
      BY <2>1, <2>2, SendFlows
    <2>4. Flowing
      BY <2>1 DEF FlowInv
    <2>5. /\ Ladder(bus', MadeShot, shotNumber, monitor.shots) /\ UNCHANGED monitor
          /\ \A n \in Nat : Has(bus, Shot(n)) => Has(bus', Shot(n))
      BY <2>1, <2>4, FlowReads DEF Event
    <2>6. QED
      BY <2>1, <2>2, <2>3, <2>4, <2>5, FlowSends
  <1>7. CASE HearUnready \/ HearOther
    <2>1. PICK e : Take(e) /\ e.type # "shot"
      BY <1>7 DEF HearUnready, HearOther, Event
    <2>2. faults = 0 /\ missed = 0 /\ UNCHANGED <<shotNumber, toSim, sim>>
      BY <1>7, <2>1 DEF HearUnready, HearOther, Take, wire
    <2>3. Flowing
      BY <2>2 DEF FlowInv
    <2>4. /\ Ladder(bus', MadeShot, shotNumber, monitor.shots) /\ UNCHANGED monitor
          /\ \A n \in Nat : Has(bus, Shot(n)) => Has(bus', Shot(n))
      BY <2>1, <2>3, FlowReads
    <2>5. \A n \in 1..monitor.shots : n \in Nat
      BY DEF Parts, SourceOK
    <2>6. QED
      BY <2>2, <2>3, <2>4, <2>5 DEF Flowing
  <1>8. CASE HearShot
    <2>1. faults = 0 /\ missed = 0
      BY <1>8 DEF HearShot, Take
    <2>2. QED
      BY <1>8, <2>1, FlowShot DEF FlowInv
  <1>9. CASE LinkLost
    <2>1. link = "cut" /\ faults = 0
      BY <1>9 DEF LinkLost
    <2>2. QED
      BY <2>1 DEF LinkInv
  <1>10. CASE SimReads
    <2>1. faults = 0 /\ missed = 0
      BY <1>10 DEF SimReads, source
    <2>2. QED
      BY <1>10, <2>1, FlowArrives DEF FlowInv
  <1>11. CASE \/ Retry \/ ReadPlayer \/ ChooseMode \/ PassOn \/ DriverTakes \/ SetChip \/ SimSends
              \/ UNCHANGED vars
    <2>1. UNCHANGED <<shotNumber, monitor, missed, bus, toSim, sim, faults>>
      BY <1>11 DEF Retry, ReadPlayer, ChooseMode, PassOn, Forward, DriverTakes, SetChip,
                   SimSends, vars, output, source, wire
    <2>2. QED
      BY <2>1 DEF FlowInv, Flowing
  <1>12. QED
    BY <1>2, <1>3, <1>4, <1>5, <1>6, <1>7, <1>8, <1>9, <1>10, <1>11
       DEF Next, Serve, Handle, TakeEvent, Sim

\* A sim that stays connected, at whatever pace it reads, misses no shot and gets each
\* under its own number.
THEOREM ShotsArrive == Spec => []ShotsReachTheSim
  <1>1. Init => LinkInv /\ FlowInv
    <2> SUFFICES ASSUME Init PROVE LinkInv /\ FlowInv
      OBVIOUS
    <2>1. /\ shotNumber = 0 /\ monitor.shots = 0 /\ bus = <<>> /\ toSim = <<>>
          /\ sim.shots = <<>> /\ link = "none"
      BY DEF Init
    <2>2. DOMAIN <<>> = {} /\ 1..0 = {} /\ 0 <= 0
      OBVIOUS
    <2>3. Flowing
      BY <2>1, <2>2, LadderEmpty DEF Flowing, Has
    <2>4. QED
      BY <2>1, <2>3 DEF LinkInv, FlowInv
  <1>2. Parts /\ FlowInv => ShotsReachTheSim
    <2> SUFFICES ASSUME Parts, Flowing, faults = 0, missed = 0
                 PROVE  /\ \A i \in DOMAIN sim.shots : sim.shots[i].number = sim.shots[i].shot
                        /\ \A n \in 1..monitor.shots :
                              \/ Has(sim.shots, Received(n)) \/ Has(toSim, ShotData(n, n))
                              \/ Has(bus, Shot(n))
      BY DEF FlowInv, ShotsReachTheSim, Has, Received, Shot
    <2>1. QED
      BY DEF Flowing, Has
  <1>3. QED
    BY <1>1, <1>2, LinkStep, FlowStep, OutputTypeCorrect, TypeParts, PTL DEF Spec
=============================================================================
