--------------------------- MODULE SkytrakDriver ---------------------------
(***************************************************************************)
(* The SkyTrak driver: SkytrakDriver::run and connect_and_serve of         *)
(* crates/trakr-skytrak/src/session.rs, against a box that may send any    *)
(* packet at any time.  One action handles one command or one packet; the  *)
(* code handles the packets of one read in a row, which is one of the      *)
(* interleavings here.  Module SkytrakSession adds a box that keeps to its *)
(* protocol.                                                               *)
(***************************************************************************)
EXTENDS Integers, Sequences, FiniteSets

CONSTANTS
    Commands,       \* the commands the daemon sends in this instance
    ChipSettings,   \* the values of chip_via_putting a session may be started with
    CommandCap,     \* capacity of the mpsc command channel
    MaxCommands,    \* bound: commands issued over the run, the hang-up included
    HostCap,        \* bound: packets in flight to the box
    BoxCap,         \* bound: packets in flight from the box
    MaxFaults,      \* bound: failed connects and cut links
    MaxShots,       \* bound: strikes
    MaxImages       \* bound: images a header announces, and images of one shot

Handedness == {"right", "left"}
ShotMode == {"normal", "putting", "chipping"}

\* trakr_core::Command; the payload of a Set command is its name.
Command ==
    {"arm", "disarm", "chip_via_putting", "chip_via_normal", "fire_shot", "disconnect"}
        \cup Handedness \cup ShotMode

ASSUME DriverAssumption ==
    /\ Commands \subseteq Command
    /\ ChipSettings \subseteq BOOLEAN
    /\ CommandCap \in Nat \ {0}
    /\ HostCap \in Nat /\ HostCap >= 2   \* room for the two packets of one handler
    /\ BoxCap \in Nat \ {0}
    /\ MaxImages \in Nat
    /\ MaxCommands \in Nat /\ MaxFaults \in Nat /\ MaxShots \in Nat

VARIABLES
    phase,      \* "connecting", "serving", "backoff" or "stopped"
    (* fields of SkytrakDriver: they survive a reconnect *)
    hand,           \* right_handed
    mode,
    chipViaPutting,
    (* locals of connect_and_serve: they do not *)
    firstStatus,
    armed,
    lastStatus,     \* the code of the last status packet, or NoStatus
    aesKey,         \* whether the key is known
    shotSeq,
    pending,        \* the PendingShot, or NoShot
    (* the command channel and the TCP link *)
    commands,
    hungUp,         \* every sender of the channel has been dropped
    link,           \* "none", "up" or "cut"
    toBox,
    fromBox,
    (* what the events sent so far told whoever applied them all *)
    view,
    tally,
    (* bounds *)
    issued,
    faults

settings == <<hand, mode, chipViaPutting>>
locals == <<firstStatus, armed, lastStatus, aesKey, shotSeq, pending>>
channel == <<commands, hungUp, issued>>
wire == <<link, toBox, fromBox>>
told == <<view, tally>>
driverVars == <<phase, settings, locals, channel, wire, told, faults>>

-----------------------------------------------------------------------------
(* Packets *)

StatusPacket == [type : {"status"}, code : -1..3, hand : Handedness]
\* A header too short to hold its three words is not whole.
HeaderPacket ==
    [type : {"header"}, whole : BOOLEAN, images : 0..MaxImages, trigger : BOOLEAN]
\* "other": a magic the driver does not handle, or a packet too short to parse.
PlainPacket == [type : {"params", "trigger", "other"}]
\* An image is known by the strike it shows.
ImagePacket == [type : {"image"}, of : 1..MaxShots]
BoxPacket == StatusPacket \cup HeaderPacket \cup ImagePacket \cup PlainPacket

NoStatus == -2
NoShot == [expected |-> -1, trigger |-> FALSE, images |-> <<>>]
PendingShot == [expected : 0..MaxImages, trigger : BOOLEAN, images : Seq(1..MaxShots)]

HwPuttingBit == mode = "putting" \/ (mode = "chipping" /\ chipViaPutting)

ArmPacket == [type |-> "arm"]
DisarmPacket == [type |-> "disarm"]
SysConfig == [type |-> "sys_config", hand |-> hand, putting |-> HwPuttingBit]
CamConfig == [type |-> "cam_config", hand |-> hand]

HostPacket ==
    [type : {"arm", "disarm"}]
        \cup [type : {"sys_config"}, hand : Handedness, putting : BOOLEAN]
        \cup [type : {"cam_config"}, hand : Handedness]

\* write_all waits for room; what is written to a link already cut is lost.
Send(packets) ==
    /\ Len(toBox) + Len(packets) <= HostCap
    /\ toBox' = IF link = "up" THEN toBox \o packets ELSE toBox

-----------------------------------------------------------------------------
(* Events, as the daemon's AppState::apply and the sim output fold them *)

SawStatus(isArmed, seenHand) ==
    [view EXCEPT !.armed = isArmed, !.hand = seenHand, !.mode = mode]
SawReady(v) == [v EXCEPT !.armed = TRUE, !.ready = TRUE]
SawDisconnected(v) == [v EXCEPT !.armed = FALSE, !.ready = FALSE]

Unknown == "unknown"
View == [armed : BOOLEAN, ready : BOOLEAN, hand : Handedness \cup {Unknown},
         mode : ShotMode \cup {Unknown}, shot : Nat]
Tally == [started : Nat, shots : Nat, misreads : Nat]

-----------------------------------------------------------------------------
FreshLocals ==
    /\ firstStatus' = TRUE
    /\ armed' = FALSE
    /\ lastStatus' = NoStatus
    /\ aesKey' = FALSE
    /\ shotSeq' = 0
    /\ pending' = NoShot

Init ==
    /\ phase = "connecting"
    /\ hand \in Handedness /\ mode = "normal" /\ chipViaPutting \in ChipSettings
    /\ firstStatus = TRUE /\ armed = FALSE /\ lastStatus = NoStatus
    /\ aesKey = FALSE /\ shotSeq = 0 /\ pending = NoShot
    /\ commands = <<>> /\ hungUp = FALSE /\ issued = 0
    /\ link = "none" /\ toBox = <<>> /\ fromBox = <<>>
    /\ view = [armed |-> FALSE, ready |-> FALSE, hand |-> Unknown,
               mode |-> Unknown, shot |-> 0]
    /\ tally = [started |-> 0, shots |-> 0, misreads |-> 0]
    /\ faults = 0

\* The stream is dropped, and the locals of connect_and_serve with it.
CloseLink ==
    /\ FreshLocals
    /\ link' = "none" /\ toBox' = <<>> /\ fromBox' = <<>>

(* run: connect, serve, and after two seconds connect again *)

\* resolve, confirm_udp and the TCP connect succeed. Commands wait meanwhile.
Connect ==
    /\ phase = "connecting"
    /\ phase' = "serving"
    /\ link' = "up"
    /\ UNCHANGED <<settings, locals, channel, toBox, fromBox, told, faults>>

ConnectFails ==
    /\ phase = "connecting"
    /\ faults < MaxFaults
    /\ faults' = faults + 1
    /\ phase' = "backoff"
    /\ view' = SawDisconnected(view)
    /\ UNCHANGED <<settings, locals, channel, wire, tally>>

Retry ==
    /\ phase = "backoff"
    /\ phase' = "connecting"
    /\ UNCHANGED <<settings, locals, channel, wire, told, faults>>

\* Mutant: the lost link is not announced.
LinkLostQuietly ==
    /\ phase = "serving" /\ link = "cut" /\ fromBox = <<>>
    /\ phase' = "backoff"
    /\ CloseLink
    /\ UNCHANGED <<settings, channel, told, faults>>

\* A read of 0 bytes or an error ends the connection, after the data still buffered.
LinkLost ==
    /\ phase = "serving" /\ link = "cut" /\ fromBox = <<>>
    /\ phase' = "backoff"
    /\ CloseLink
    /\ view' = SawDisconnected(view)
    /\ UNCHANGED <<settings, channel, tally, faults>>

-----------------------------------------------------------------------------
(* Commands *)

Take(c) ==
    /\ phase = "serving"
    /\ commands # <<>>
    /\ c = Head(commands)
    /\ commands' = Tail(commands)
    /\ UNCHANGED <<hungUp, issued>>

Arm ==
    /\ Take("arm")
    /\ Send(<<ArmPacket>>)
    /\ armed' = TRUE
    /\ view' = SawStatus(TRUE, hand)
    /\ UNCHANGED <<phase, settings, firstStatus, lastStatus, aesKey, shotSeq, pending,
                   link, fromBox, tally, faults>>

Disarm ==
    /\ Take("disarm")
    /\ Send(<<DisarmPacket>>)
    /\ armed' = FALSE
    /\ view' = SawStatus(FALSE, hand)
    /\ UNCHANGED <<phase, settings, firstStatus, lastStatus, aesKey, shotSeq, pending,
                   link, fromBox, tally, faults>>

\* Mutant: the cameras are left as they were.
SetHandednessSysOnly ==
    \E h \in Handedness :
        /\ Take(h)
        /\ hand' = h /\ UNCHANGED <<mode, chipViaPutting>>
        /\ Send(<<SysConfig'>>)
        /\ UNCHANGED <<phase, locals, link, fromBox, told, faults>>

\* No Status follows: the box's own next status reports the hand.
SetHandedness ==
    \E h \in Handedness :
        /\ Take(h)
        /\ hand' = h /\ UNCHANGED <<mode, chipViaPutting>>
        /\ Send(<<SysConfig', CamConfig'>>)
        /\ UNCHANGED <<phase, locals, link, fromBox, told, faults>>

\* Mutant: the new mode is not announced.
SetShotModeQuietly ==
    \E m \in ShotMode :
        /\ Take(m)
        /\ mode' = m /\ UNCHANGED <<hand, chipViaPutting>>
        /\ Send(<<SysConfig'>>)
        /\ UNCHANGED <<phase, locals, link, fromBox, told, faults>>

SetShotMode ==
    \E m \in ShotMode :
        /\ Take(m)
        /\ mode' = m /\ UNCHANGED <<hand, chipViaPutting>>
        /\ Send(<<SysConfig'>>)
        /\ view' = [SawStatus(armed, hand) EXCEPT !.mode = m]
        /\ UNCHANGED <<phase, locals, link, fromBox, tally, faults>>

\* Mutant: a remap waits for the next SetShotMode.
SetChipWithoutSend ==
    \E c \in {"chip_via_putting", "chip_via_normal"} :
        /\ Take(c)
        /\ chipViaPutting' = (c = "chip_via_putting") /\ UNCHANGED <<hand, mode>>
        /\ UNCHANGED <<phase, locals, wire, told, faults>>

SetChipViaPutting ==
    \E c \in {"chip_via_putting", "chip_via_normal"} :
        /\ Take(c)
        /\ chipViaPutting' = (c = "chip_via_putting") /\ UNCHANGED <<hand, mode>>
        /\ Send(IF mode = "chipping" THEN <<SysConfig'>> ELSE <<>>)
        /\ UNCHANGED <<phase, locals, link, fromBox, told, faults>>

FireShot ==
    /\ Take("fire_shot")
    /\ UNCHANGED <<phase, settings, locals, wire, told, faults>>

\* A failed send ends the connection. The settings the command had already
\* assigned stay; the event after the send is not sent.
CommandSendFails ==
    /\ link = "cut"
    /\ \E c \in Command \ {"fire_shot", "disconnect"} :
        /\ Take(c)
        /\ c \in {"chip_via_putting", "chip_via_normal"} => mode = "chipping"
        /\ hand' = IF c \in Handedness THEN c ELSE hand
        /\ mode' = IF c \in ShotMode THEN c ELSE mode
        /\ chipViaPutting' = CASE c = "chip_via_putting" -> TRUE
                               [] c = "chip_via_normal" -> FALSE
                               [] OTHER -> chipViaPutting
    /\ phase' = "backoff"
    /\ CloseLink
    /\ view' = SawDisconnected(view)
    /\ UNCHANGED <<tally, faults>>

\* Mutant: a closed channel is not the end of run.
StopOnlyWhenTold ==
    /\ Take("disconnect")
    /\ phase' = "stopped"
    /\ CloseLink
    /\ UNCHANGED <<settings, told, faults>>

\* Disconnect, or every sender gone and the channel drained: run returns. The
\* box is not disarmed and no event says that the session is over.
Stop ==
    /\ \/ Take("disconnect")
       \/ /\ phase = "serving" /\ hungUp /\ commands = <<>>
          /\ UNCHANGED channel
    /\ phase' = "stopped"
    /\ CloseLink
    /\ UNCHANGED <<settings, told, faults>>

-----------------------------------------------------------------------------
(* Packets from the box *)

Receive(type) ==
    /\ phase = "serving"
    /\ fromBox # <<>>
    /\ Head(fromBox).type = type
    /\ fromBox' = Tail(fromBox)

\* The Status event carries the armed flag from before this packet.
FirstStatus ==
    /\ Receive("status") /\ firstStatus
    /\ firstStatus' = FALSE
    /\ lastStatus' = Head(fromBox).code
    /\ Send(<<DisarmPacket, SysConfig>>)
    /\ view' = SawStatus(armed, Head(fromBox).hand)
    /\ UNCHANGED <<phase, settings, armed, aesKey, shotSeq, pending, channel, link, tally,
                   faults>>

\* What the driver sends back to each status code.
Reply(code) ==
    CASE code = 1 -> <<SysConfig>>
      [] code = 2 -> <<CamConfig>>
      [] code = 3 -> <<ArmPacket>>
      [] OTHER -> <<>>

Status ==
    LET code == Head(fromBox).code
        seen == SawStatus(armed, Head(fromBox).hand)
    IN  /\ Receive("status") /\ ~firstStatus
        /\ lastStatus' = Head(fromBox).code
        /\ Send(Reply(code))
        /\ armed' = (armed \/ code = 0)
        /\ view' = IF code = 0 /\ ~armed THEN SawReady(seen) ELSE seen
        /\ UNCHANGED <<phase, settings, firstStatus, aesKey, shotSeq, pending, channel, link,
                       tally, faults>>

\* Params that parse give the key; SYS_CONFIG and CAM_CONFIG go out either way.
Params ==
    /\ Receive("params")
    /\ aesKey' \in {aesKey, TRUE}
    /\ Send(<<SysConfig, CamConfig>>)
    /\ UNCHANGED <<phase, settings, firstStatus, armed, lastStatus, shotSeq, pending, channel,
                   link, told, faults>>

\* Mutant: a header does not replace a shot still pending.
ShotHeaderKeepsPending ==
    /\ Receive("header")
    /\ pending' = IF pending = NoShot /\ aesKey /\ Head(fromBox).whole
                  THEN [expected |-> Head(fromBox).images,
                        trigger |-> Head(fromBox).trigger, images |-> <<>>]
                  ELSE pending
    /\ tally' = [tally EXCEPT !.started = @ + 1]
    /\ view' = [view EXCEPT !.ready = FALSE]
    /\ UNCHANGED <<phase, settings, firstStatus, armed, lastStatus, aesKey, shotSeq, channel,
                   link, toBox, faults>>

\* ShotStarted is sent whether or not the header can be decrypted and parsed; a
\* shot still pending is replaced.
ShotHeader ==
    /\ Receive("header")
    /\ pending' = IF aesKey /\ Head(fromBox).whole
                  THEN [expected |-> Head(fromBox).images,
                        trigger |-> Head(fromBox).trigger, images |-> <<>>]
                  ELSE NoShot
    /\ tally' = [tally EXCEPT !.started = @ + 1]
    /\ view' = [view EXCEPT !.ready = FALSE]
    /\ UNCHANGED <<phase, settings, firstStatus, armed, lastStatus, aesKey, shotSeq, channel,
                   link, toBox, faults>>

\* Mutants: the shot is read but not taken; the driver stays armed.
FinalizeShotKeepsPending(images) ==
    /\ pending' = pending
    /\ armed' = FALSE
    /\ tally' = [tally EXCEPT !.misreads = @ + 1]
    /\ UNCHANGED <<shotSeq, view>>

FinalizeShotStaysArmed(images) ==
    /\ pending' = NoShot
    /\ tally' = [tally EXCEPT !.misreads = @ + 1]
    /\ UNCHANGED <<armed, shotSeq, view>>

\* decode_shot measures the speed between two images; others may be unreadable.
Decodable(images) == images >= 2

\* finalize_shot: so many images decode to a Shot, or to a Misread.
FinalizeShot(images) ==
    /\ pending' = NoShot
    /\ armed' = FALSE
    /\ \/ /\ Decodable(images)
          /\ shotSeq' = shotSeq + 1
          /\ tally' = [tally EXCEPT !.shots = @ + 1]
          /\ view' = [view EXCEPT !.shot = shotSeq + 1]
       \/ /\ tally' = [tally EXCEPT !.misreads = @ + 1]
          /\ UNCHANGED <<shotSeq, view>>

\* Mutants: off by one; the trigger packet is not waited for.
LastImageLate == ~pending.trigger /\ Len(pending.images) >= pending.expected
LastImageIgnoresTrigger == Len(pending.images) + 1 >= pending.expected

LastImage == ~pending.trigger /\ Len(pending.images) + 1 >= pending.expected

\* Mutant: an image is collected although no shot is pending.
ShotImageUnchecked ==
    /\ Receive("image")
    /\ pending' = [pending EXCEPT !.images = Append(@, Head(fromBox).of)]
    /\ UNCHANGED <<phase, settings, firstStatus, armed, lastStatus, aesKey, shotSeq, channel,
                   link, toBox, told, faults>>

ShotImage ==
    /\ Receive("image")
    /\ IF pending # NoShot /\ LastImage
       THEN FinalizeShot(Len(pending.images) + 1)
       ELSE /\ pending' = IF pending = NoShot THEN NoShot
                          ELSE [pending EXCEPT !.images = Append(@, Head(fromBox).of)]
            /\ UNCHANGED <<armed, shotSeq, told>>
    /\ UNCHANGED <<phase, settings, firstStatus, lastStatus, aesKey, channel, link, toBox,
                   faults>>

Trigger ==
    /\ Receive("trigger")
    /\ IF pending # NoShot THEN FinalizeShot(Len(pending.images))
       ELSE UNCHANGED <<pending, armed, shotSeq, told>>
    /\ UNCHANGED <<phase, settings, firstStatus, lastStatus, aesKey, channel, link, toBox,
                   faults>>

OtherPacket ==
    /\ Receive("other")
    /\ UNCHANGED <<phase, settings, locals, channel, link, toBox, told, faults>>

\* Answering a packet fails because the link is gone. A Status event is out already.
ReplySendFails ==
    /\ link = "cut" /\ phase = "serving" /\ fromBox # <<>>
    /\ LET p == Head(fromBox)
       IN  \/ /\ p.type = "status"
              /\ firstStatus \/ Reply(p.code) # <<>>
              /\ view' = SawDisconnected(SawStatus(armed, p.hand))
           \/ /\ p.type = "params"
              /\ view' = SawDisconnected(view)
    /\ phase' = "backoff"
    /\ CloseLink
    /\ UNCHANGED <<settings, channel, tally, faults>>

-----------------------------------------------------------------------------
(* Environment: the daemon, the network and the box *)

Issue ==
    /\ ~hungUp
    /\ issued < MaxCommands
    /\ Len(commands) < CommandCap
    /\ \E c \in Commands : commands' = Append(commands, c)
    /\ issued' = issued + 1
    /\ UNCHANGED <<phase, settings, locals, hungUp, wire, told, faults>>

HangUp ==
    /\ ~hungUp
    /\ issued < MaxCommands
    /\ hungUp' = TRUE
    /\ issued' = issued + 1
    /\ UNCHANGED <<phase, settings, locals, commands, wire, told, faults>>

\* The box goes away; what it had sent may or may not still reach the driver.
CutLink ==
    /\ link = "up"
    /\ faults < MaxFaults
    /\ faults' = faults + 1
    /\ link' = "cut"
    /\ toBox' = <<>>
    /\ fromBox' \in {fromBox, <<>>}
    /\ UNCHANGED <<phase, settings, locals, channel, told>>

BoxSends(p) ==
    /\ link = "up"
    /\ Len(fromBox) < BoxCap
    /\ p.type = "header" => tally.started < MaxShots
    /\ p.type = "image" => Len(pending.images) < MaxImages
    /\ fromBox' = Append(fromBox, p)
    /\ UNCHANGED <<phase, settings, locals, channel, link, toBox, told, faults>>

BoxReads ==
    /\ toBox # <<>>
    /\ toBox' = Tail(toBox)
    /\ UNCHANGED <<phase, settings, locals, channel, link, fromBox, told, faults>>

-----------------------------------------------------------------------------
HandleCommand ==
    Arm \/ Disarm \/ SetHandedness \/ SetShotMode \/ SetChipViaPutting \/ FireShot \/ Stop
        \/ CommandSendFails

HandlePacket ==
    FirstStatus \/ Status \/ Params \/ ShotHeader \/ ShotImage \/ Trigger \/ OtherPacket
        \/ ReplySendFails \/ LinkLost

Driver == Connect \/ ConnectFails \/ Retry \/ HandleCommand \/ HandlePacket

\* run() has returned: nothing more happens.
Returned == phase = "stopped" /\ UNCHANGED driverVars

Next ==
    \/ Driver
    \/ Issue
    \/ HangUp
    \/ CutLink
    \/ BoxReads
    \/ \E p \in BoxPacket : BoxSends(p)
    \/ Returned

Spec == Init /\ [][Next]_driverVars

-----------------------------------------------------------------------------
SettingsTypeOK ==
    hand \in Handedness /\ mode \in ShotMode /\ chipViaPutting \in BOOLEAN

LocalsTypeOK ==
    /\ firstStatus \in BOOLEAN /\ armed \in BOOLEAN /\ aesKey \in BOOLEAN
    /\ lastStatus \in -2..3
    /\ shotSeq \in Nat
    /\ pending \in PendingShot \cup {NoShot}

ChannelTypeOK == commands \in Seq(Command) /\ hungUp \in BOOLEAN /\ issued \in Nat

WireTypeOK ==
    /\ link \in {"none", "up", "cut"}
    /\ toBox \in Seq(HostPacket) /\ fromBox \in Seq(BoxPacket)

TypeOK ==
    /\ phase \in {"connecting", "serving", "backoff", "stopped"}
    /\ SettingsTypeOK /\ LocalsTypeOK /\ ChannelTypeOK /\ WireTypeOK
    /\ view \in View /\ tally \in Tally
    /\ faults \in Nat

Outcomes == tally.shots + tally.misreads
OpenStrikes == IF pending = NoShot THEN 0 ELSE 1

\* Every Shot and every Misread answers a ShotStarted of its own, and the one
\* strike the driver may still be collecting has not been answered yet: no
\* order of headers, images, trigger packets and lost links makes it report a
\* strike twice (session.rs, pending_shot.take()).
OutcomesHaveStrikes == Outcomes + OpenStrikes <= tally.started

\* A pending shot is one the driver can finish: its key is known (a key once
\* learnt is not lost while the link lasts), and it is never left open with all
\* of its images in hand and no trigger packet to wait for.
PendingCanFinish ==
    pending # NoShot =>
        /\ phase = "serving" /\ aesKey
        /\ pending.images # <<>> /\ ~pending.trigger
              => Len(pending.images) < pending.expected

\* What a consumer that applies every event believes about arming. Without a
\* link nobody believes the box armed; with one, nobody believes it disarmed
\* when the driver has it armed, and the belief can be wrong the other way only
\* after a strike was answered (finalize_shot disarms without a Status).
ArmedBeliefSound ==
    /\ phase \in {"connecting", "backoff"} => ~view.armed /\ ~view.ready
    /\ phase = "serving" /\ armed => view.armed
    /\ phase = "serving" /\ view.armed /\ ~armed => Outcomes > 0

\* Once the box has reported in, the shot mode last announced is the driver's,
\* across reconnects and commands whose packet could not be sent.
ModeBeliefSound == phase = "serving" /\ ~firstStatus => view.mode = mode

\* Strengthens the two beliefs to an inductive invariant: a connection starts
\* with nothing left of the one before.
FreshWhenIdle ==
    /\ phase # "serving" =>
        /\ firstStatus /\ ~armed /\ ~aesKey /\ shotSeq = 0 /\ pending = NoShot
        /\ link = "none" /\ toBox = <<>> /\ fromBox = <<>>
    /\ phase = "serving" => link # "none"

\* A Ready event has told consumers of every armed box: the driver has the box
\* armed and the box has just said RESP_OK ("Device is armed and waiting for a
\* ball", trakr-core/src/lib.rs:34).
ReadyIsAnnounced ==
    phase = "serving" /\ ~firstStatus /\ armed /\ lastStatus = 0 => view.ready

-----------------------------------------------------------------------------
(* The driver implements what trakr-core expects of any launch monitor. *)

Contract == INSTANCE LaunchMonitor WITH
    online <- CASE phase = "serving" -> "up"
                [] phase = "stopped" -> "over"
                [] OTHER -> "down",
    strike <- pending # NoShot,
    sequence <- shotSeq

\* Refinement: the event stream of the SkyTrak driver is one a launch monitor
\* may produce.
IsLaunchMonitor == Contract!Spec
=============================================================================
