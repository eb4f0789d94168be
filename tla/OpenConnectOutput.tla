------------------------- MODULE OpenConnectOutput -------------------------
(***************************************************************************)
(* The Open Connect output: run and handle_response of                     *)
(* crates/trakr-openconnect/src/lib.rs, between the event bus, the command *)
(* channel and a golf sim.  One action is one turn of its select! loop,    *)
(* except that a response is handled step by step, for its commands wait   *)
(* for room, while nothing else is looked at and the settings may change.  *)
(*                                                                         *)
(* The launch monitor is any that keeps to LaunchMonitor.  The bus closes  *)
(* only with the daemon, which keeps a sender, so run() is never seen to   *)
(* return; the tasks of a session are in SessionManager.                   *)
(***************************************************************************)
EXTENDS Integers, Sequences, FiniteSets

CONSTANTS
    ChipChoices,    \* the chip settings in use during a session
    PlayerInfos,    \* what the sim may report of its player
    EventCap,       \* capacity of the event bus (EVENT_BUS_CAPACITY)
    CommandCap,     \* capacity of the command channel
    SimCap,         \* bound: messages in flight to or from the sim
    MaxInputs,      \* bound: events of the launch monitor, player messages of the sim
                    \* and changes of chip settings together
    MaxFaults       \* bound: failed connects and cut links

Unknown == "unknown"
Handedness == {"right", "left"}
ShotMode == {"normal", "putting", "chipping"}

\* Option<f32>: None for no threshold, or for no distance.
None == -1
ChipSettings == [lobWedge : BOOLEAN, threshold : Nat \cup {None}]
Club == {"PT", "LW", "DR"}
PlayerInfo == [hand : Handedness \cup {Unknown}, club : Club \cup {Unknown},
               distance : Nat \cup {None}]

ASSUME OutputAssumption ==
    /\ ChipChoices \subseteq ChipSettings /\ ChipChoices # {}
    /\ PlayerInfos \subseteq PlayerInfo
    /\ EventCap \in Nat \ {0} /\ CommandCap \in Nat \ {0} /\ SimCap \in Nat \ {0}
    /\ MaxInputs \in Nat /\ MaxFaults \in Nat

VARIABLES
    (* run: locals that survive a reconnect *)
    shotNumber,
    ready,
    (* its loop *)
    phase,      \* "connecting", "serving" or "waiting"
    handling,   \* what handle_response has yet to send of a player message
    (* the event bus, the launch monitor at its other end *)
    bus,        \* events this receiver has yet to read
    lagged,     \* it has missed events, and has heard of no readiness since
    missed,     \* shots it has missed
    monitor,    \* its last word on readiness (Ready, ShotStarted or Disconnected),
                \* whether a strike is to be answered, and its shots
    (* the command channel and its reader *)
    commands,
    driver,     \* the hand and the mode it was last told
    (* the sim and the link *)
    link,       \* "none", "up" or "cut"
    toSim,
    fromSim,
    sim,        \* what the sim was told last, and every shot it got
    (* settings *)
    chip,
    asked,      \* the hand, and the club with its circumstances, last handled
    inputs, faults      \* bounds

output == <<shotNumber, ready, phase, handling>>
source == <<bus, lagged, missed, monitor>>
sink == <<commands, driver>>
wire == <<link, toSim, fromSim, sim>>
vars == <<output, source, sink, wire, chip, asked, inputs, faults>>

Heartbeat(number, isReady) ==
    [type |-> "heartbeat", number |-> number, ready |-> isReady, shot |-> 0]
\* A shot is sent with LaunchMonitorIsReady, whatever the flag.
ShotData(number, shot) ==
    [type |-> "shot", number |-> number, ready |-> TRUE, shot |-> shot]

Event(type) == [type |-> type, shot |-> 0]

Nothing == [hand |-> Unknown, club |-> Unknown, distance |-> None, mode |-> Unknown]

Init ==
    /\ shotNumber = 0 /\ ready = FALSE
    /\ phase = "connecting" /\ handling = Nothing
    /\ bus = <<>> /\ lagged = FALSE /\ missed = 0
    /\ monitor = [ready |-> FALSE, strike |-> FALSE, shots |-> 0]
    /\ commands = <<>> /\ driver = [hand |-> Unknown, mode |-> Unknown]
    /\ link = "none" /\ toSim = <<>> /\ fromSim = <<>>
    /\ sim = [ready |-> FALSE, shots |-> <<>>]
    /\ chip \in ChipChoices
    /\ asked = [hand |-> Unknown, club |-> Unknown, distance |-> None, chip |-> chip]
    /\ inputs = 0 /\ faults = 0

-----------------------------------------------------------------------------
(* The mode for a club *)

ResolveShotMode(settings, club, distance) ==
    LET byDistance == settings.threshold > 0 /\ distance # None
    IN  IF club = "PT" THEN "putting"
        ELSE IF byDistance
        THEN IF distance <= settings.threshold THEN "chipping" ELSE "normal"
        ELSE IF settings.lobWedge /\ club = "LW" THEN "chipping" ELSE "normal"

-----------------------------------------------------------------------------
(* Connecting *)

\* The link is dropped: what was read of it and what was sent through it is gone.
Drop ==
    /\ phase' = "waiting"
    /\ link' = "none" /\ toSim' = <<>> /\ fromSim' = <<>>
    /\ UNCHANGED sim

\* Mutant: the readiness is a local of the connection.
ConnectUnready ==
    /\ phase = "connecting"
    /\ phase' = "serving" /\ link' = "up"
    /\ ready' = FALSE
    /\ toSim' = <<Heartbeat(shotNumber, FALSE)>>
    /\ UNCHANGED <<shotNumber, handling, source, sink, fromSim, sim, chip, asked, inputs, faults>>

\* Mutant: the shot number is a local of the connection.
ConnectRenumbers ==
    /\ phase = "connecting"
    /\ phase' = "serving" /\ link' = "up"
    /\ shotNumber' = 0
    /\ toSim' = <<Heartbeat(0, ready)>>
    /\ UNCHANGED <<ready, handling, source, sink, fromSim, sim, chip, asked, inputs, faults>>

\* A heartbeat tells the new sim what became of the launch monitor meanwhile, as far
\* as the events have been read.
Connect ==
    /\ phase = "connecting"
    /\ phase' = "serving" /\ link' = "up"
    /\ toSim' = <<Heartbeat(shotNumber, ready)>>
    /\ UNCHANGED <<shotNumber, ready, handling, source, sink, fromSim, sim, chip, asked, inputs,
                   faults>>

\* A failed first heartbeat is tried again at once, a failed connect after a delay.
ConnectFails ==
    /\ phase = "connecting"
    /\ faults < MaxFaults
    /\ faults' = faults + 1
    /\ phase' \in {"connecting", "waiting"}
    /\ UNCHANGED <<shotNumber, ready, handling, source, sink, wire, chip, asked, inputs>>

Retry ==
    /\ phase = "waiting"
    /\ phase' = "connecting"
    /\ UNCHANGED <<shotNumber, ready, handling, source, sink, wire, chip, asked, inputs, faults>>

-----------------------------------------------------------------------------
(* Events *)

Idle == phase = "serving" /\ handling = Nothing

\* write_all to a link that has been cut may still succeed, or it fails.
Send(message) ==
    \/ /\ Len(toSim) < SimCap
       /\ toSim' = IF link = "up" THEN Append(toSim, message) ELSE toSim
       /\ UNCHANGED <<phase, link, fromSim, sim>>
    \/ link = "cut" /\ Drop

\* What the flags become with an event, before anything is sent.
Take(e) ==
    /\ Idle /\ bus # <<>> /\ e = Head(bus)
    /\ bus' = Tail(bus)
    /\ UNCHANGED <<handling, missed, monitor, sink, chip, asked, inputs, faults>>

HearReady ==
    /\ Take(Event("ready"))
    /\ ready' = TRUE /\ lagged' = FALSE
    /\ Send(Heartbeat(shotNumber, TRUE))
    /\ UNCHANGED shotNumber

HearUnready ==
    /\ \E type \in {"started", "disconnected"} : Take(Event(type))
    /\ ready' = FALSE /\ lagged' = FALSE
    /\ UNCHANGED <<shotNumber, phase, wire>>

\* Mutant: the shot is sent with the number of the one before.
HearShotLateNumber ==
    \E k \in 1..MaxInputs :
        /\ Take([type |-> "shot", shot |-> k])
        /\ shotNumber' = shotNumber + 1
        /\ Send(ShotData(shotNumber, k))
        /\ UNCHANGED <<ready, lagged>>

\* A shot that cannot be sent is lost; its number is not used again.
HearShot ==
    \E k \in 1..MaxInputs :
        /\ Take([type |-> "shot", shot |-> k])
        /\ shotNumber' = shotNumber + 1
        /\ Send(ShotData(shotNumber', k))
        /\ UNCHANGED <<ready, lagged>>

\* Statuses, misreads and errors.
HearOther ==
    /\ Take(Event("other"))
    /\ UNCHANGED <<shotNumber, ready, lagged, phase, wire>>


\* The heartbeat timer.
Tick ==
    /\ Idle
    /\ Send(Heartbeat(shotNumber, ready))
    /\ UNCHANGED <<shotNumber, ready, handling, source, sink, chip, asked, inputs, faults>>

-----------------------------------------------------------------------------
(* Responses *)

\* One player message. (Auto mode is on; off, only the hand is sent.)
ReadPlayer ==
    /\ Idle /\ fromSim # <<>>
    /\ fromSim' = Tail(fromSim)
    /\ LET p == Head(fromSim)
       IN  /\ handling' = [hand |-> p.hand, club |-> p.club, mode |-> Unknown,
                           distance |-> IF p.club = Unknown THEN None ELSE p.distance]
           /\ asked' = IF p.hand = Unknown THEN asked ELSE [asked EXCEPT !.hand = p.hand]
    /\ UNCHANGED <<shotNumber, ready, phase, source, sink, link, toSim, sim, chip, inputs,
                   faults>>

\* Once the hand is sent: the mode for the club, under the settings there are by then.
ChooseMode ==
    /\ handling.hand = Unknown /\ handling.club # Unknown
    /\ handling' = [Nothing EXCEPT
                      !.mode = ResolveShotMode(chip, handling.club, handling.distance)]
    /\ asked' = [asked EXCEPT !.club = handling.club, !.distance = handling.distance,
                              !.chip = chip]
    /\ UNCHANGED <<shotNumber, ready, phase, source, sink, wire, chip, inputs, faults>>

\* The command that handle_response sends next, and what is left to do then.
ToSend == IF handling.hand # Unknown THEN handling.hand ELSE handling.mode

Forward ==
    /\ ToSend # Unknown
    /\ handling' = IF ToSend = handling.hand THEN [handling EXCEPT !.hand = Unknown]
                   ELSE Nothing
    /\ UNCHANGED <<shotNumber, ready, phase, source, driver, wire, chip, asked, inputs, faults>>

\* Mutant: try_send drops the command when there is no room.
PassOnOrDrop ==
    /\ Forward
    /\ commands' = IF Len(commands) < CommandCap THEN Append(commands, ToSend) ELSE commands

\* Mutant: an unbounded channel.
PassOnAtOnce == Forward /\ commands' = Append(commands, ToSend)

\* Its send waits for room.
PassOn ==
    /\ Forward
    /\ Len(commands) < CommandCap
    /\ commands' = Append(commands, ToSend)

\* The sim has closed the link, or a read of it fails.
LinkLost ==
    /\ Idle /\ link = "cut" /\ fromSim = <<>>
    /\ Drop
    /\ UNCHANGED <<shotNumber, ready, handling, source, sink, chip, asked, inputs, faults>>

-----------------------------------------------------------------------------
(* Environment: the launch monitor, the driver's end of the channel, the sim *)

Input == inputs < MaxInputs /\ inputs' = inputs + 1

\* A receiver that is EventCap events behind misses the oldest.
Emit(e) ==
    /\ Input
    /\ IF Len(bus) < EventCap THEN bus' = Append(bus, e) /\ UNCHANGED <<lagged, missed>>
       ELSE /\ bus' = Append(Tail(bus), e)
            /\ lagged' = TRUE
            /\ missed' = missed + (IF Head(bus).type = "shot" THEN 1 ELSE 0)
    /\ UNCHANGED <<output, sink, wire, chip, asked, faults>>

MonitorReady ==
    /\ monitor' = [monitor EXCEPT !.ready = TRUE]
    /\ Emit(Event("ready"))

MonitorStrike ==
    /\ monitor' = [monitor EXCEPT !.ready = FALSE, !.strike = TRUE]
    /\ Emit(Event("started"))

MonitorShot ==
    /\ monitor.strike
    /\ monitor' = [monitor EXCEPT !.strike = FALSE, !.shots = @ + 1]
    /\ Emit([type |-> "shot", shot |-> monitor'.shots])

MonitorMisread ==
    /\ monitor.strike
    /\ monitor' = [monitor EXCEPT !.strike = FALSE]
    /\ Emit(Event("other"))

\* Disarm says so in a Status alone, which counts for no word on readiness here.
MonitorStatus ==
    /\ UNCHANGED monitor
    /\ Emit(Event("other"))

MonitorLost ==
    /\ monitor' = [monitor EXCEPT !.ready = FALSE, !.strike = FALSE]
    /\ Emit(Event("disconnected"))

Monitor ==
    MonitorReady \/ MonitorStrike \/ MonitorShot \/ MonitorMisread \/ MonitorStatus
        \/ MonitorLost

DriverTakes ==
    /\ commands # <<>>
    /\ commands' = Tail(commands)
    /\ driver' = IF Head(commands) \in Handedness THEN [driver EXCEPT !.hand = Head(commands)]
                 ELSE [driver EXCEPT !.mode = Head(commands)]
    /\ UNCHANGED <<output, source, wire, chip, asked, inputs, faults>>

SetChip ==
    /\ Input
    /\ chip' \in ChipChoices \ {chip}
    /\ UNCHANGED <<output, source, sink, wire, asked, faults>>

SimSends ==
    /\ link = "up" /\ Len(fromSim) < SimCap
    /\ Input
    /\ \E p \in PlayerInfos : fromSim' = Append(fromSim, p)
    /\ UNCHANGED <<output, source, sink, link, toSim, sim, chip, asked, faults>>

SimReads ==
    /\ toSim # <<>>
    /\ toSim' = Tail(toSim)
    /\ LET m == Head(toSim)
       IN  sim' = [ready |-> m.ready,
                   shots |-> IF m.type = "shot"
                             THEN Append(sim.shots, [number |-> m.number, shot |-> m.shot])
                             ELSE sim.shots]
    /\ UNCHANGED <<output, source, sink, link, fromSim, chip, asked, inputs, faults>>

\* What was on its way to the sim is lost; what it had sent may still arrive.
CutLink ==
    /\ link = "up"
    /\ faults < MaxFaults
    /\ faults' = faults + 1
    /\ link' = "cut" /\ toSim' = <<>>
    /\ fromSim' \in {fromSim, <<>>}
    /\ UNCHANGED <<output, source, sink, sim, chip, asked, inputs>>

-----------------------------------------------------------------------------
TakeEvent == HearReady \/ HearUnready \/ HearShot \/ HearOther

Serve == TakeEvent \/ Tick \/ ReadPlayer \/ LinkLost

Handle == ChooseMode \/ PassOn

Sim == SimSends \/ SimReads \/ CutLink

\* The launch monitor is silent, and so is the sim: heartbeats go on for ever.
Next ==
    Connect \/ ConnectFails \/ Retry \/ Serve \/ Handle \/ Monitor \/ DriverTakes \/ SetChip
        \/ Sim

(***************************************************************************)
(* Fairness.  tokio runs the task, and select! polls its branches in       *)
(* random order, so that events, the timer and responses each get their    *)
(* turn.  The driver reads its commands and the sim what it is sent.       *)
(***************************************************************************)
Fairness ==
    /\ WF_vars(Connect \/ Retry)
    /\ SF_vars(TakeEvent)
    /\ SF_vars(Tick)
    /\ SF_vars(ReadPlayer)
    /\ SF_vars(LinkLost)
    /\ WF_vars(Handle)
    /\ WF_vars(DriverTakes)
    /\ SF_vars(SimReads)

Spec == Init /\ [][Next]_vars
FairSpec == Spec /\ Fairness

-----------------------------------------------------------------------------
Message ==
    [type : {"heartbeat", "shot"}, number : Nat, ready : BOOLEAN, shot : Nat]
BusEvent == [type : {"ready", "started", "disconnected", "shot", "other"}, shot : Nat]

OutputTypeOK ==
    /\ shotNumber \in Nat /\ ready \in BOOLEAN
    /\ phase \in {"connecting", "serving", "waiting"}
    /\ handling \in [hand : Handedness \cup {Unknown}, club : Club \cup {Unknown},
                     distance : Nat \cup {None}, mode : ShotMode \cup {Unknown}]
    /\ bus \in Seq(BusEvent) /\ Len(bus) <= EventCap
    /\ lagged \in BOOLEAN /\ missed \in Nat
    /\ monitor \in [ready : BOOLEAN, strike : BOOLEAN, shots : Nat]
    /\ commands \in Seq(Handedness \cup ShotMode) /\ Len(commands) <= CommandCap
    /\ driver \in [hand : Handedness \cup {Unknown}, mode : ShotMode \cup {Unknown}]
    /\ link \in {"none", "up", "cut"}
    /\ phase = "serving" <=> link # "none"
    /\ toSim \in Seq(Message) /\ fromSim \in Seq(PlayerInfo)
    /\ sim \in [ready : BOOLEAN, shots : Seq([number : Nat, shot : Nat])]
    /\ chip \in ChipSettings
    /\ asked \in [hand : Handedness \cup {Unknown}, club : Club \cup {Unknown},
                  distance : Nat \cup {None}, chip : ChipSettings]
    /\ inputs \in Nat /\ faults \in Nat

\* The sim never sees a shot twice or out of order, and never a number twice: shot
\* numbers go on over reconnects, and a shot whose send failed is not sent again
\* (lib.rs:116-121).
ShotsInOrder ==
    \A i, j \in DOMAIN sim.shots :
        i < j => /\ sim.shots[i].number < sim.shots[j].number
                 /\ sim.shots[i].shot < sim.shots[j].shot

\* While the link holds and the bus does not overflow, the sim has every shot of the
\* launch monitor under the launch monitor's own numbering, or it is on its way; a sim
\* that is not there yet gets the shots made meanwhile once it is.
ShotsReachTheSim ==
    faults = 0 /\ missed = 0 =>
        /\ \A i \in DOMAIN sim.shots : sim.shots[i].number = sim.shots[i].shot
        /\ \A n \in 1..monitor.shots :
              \/ \E i \in DOMAIN sim.shots : sim.shots[i] = [number |-> n, shot |-> n]
              \/ \E i \in DOMAIN toSim : toSim[i] = ShotData(n, n)
              \/ \E i \in DOMAIN bus : bus[i] = [type |-> "shot", shot |-> n]

\* Once all events have been read, the readiness that goes out with the heartbeats is
\* what the launch monitor said last, whether the sim was connected at the time or not,
\* unless events have been missed and none about readiness read since (lib.rs:114-115).
ReadyFollowsMonitor == bus = <<>> /\ ~lagged => ready = monitor.ready

\* resolve_shot_mode by its doc comment (lib.rs:45-49): the putter always putts; a
\* threshold alone decides where the distance is known; else the lob wedge may chip.
ModeFor(a) ==
    LET decides == a.chip.threshold \notin {None, 0} /\ a.distance # None
        chips == IF decides THEN a.distance <= a.chip.threshold
                 ELSE a.club = "LW" /\ a.chip.lobWedge
    IN  CASE a.club = Unknown -> Unknown
          [] a.club = "PT" -> "putting"
          [] a.club \notin {Unknown, "PT"} /\ chips -> "chipping"
          [] OTHER -> "normal"

\* The last word of the sim wins: when no command is on its way the driver has the
\* hand and the mode that its last player messages asked for, however full the
\* channel has been and whether or not the link has been lost since.
LastWordWins ==
    handling = Nothing /\ commands = <<>> =>
        driver = [hand |-> asked.hand, mode |-> ModeFor(asked)]

=============================================================================
