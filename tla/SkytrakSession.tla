--------------------------- MODULE SkytrakSession ---------------------------
(***************************************************************************)
(* The driver of module SkytrakDriver connected to a box that keeps to its *)
(* protocol.  The box is outside the repository: it is modelled from what  *)
(* connect_and_serve expects of it.  It asks for a SYS_CONFIG (code 1), a  *)
(* CAM_CONFIG (2) and HOST_READY (3) in its status packets, says RESP_OK   *)
(* (0) once armed, sends its params once per connection, and reports a     *)
(* strike as a header, the images, and a trigger packet if the header says *)
(* so; its image transfer may time out.                                    *)
(***************************************************************************)
EXTENDS SkytrakDriver

VARIABLES
    stage,      \* what the box waits for: the code of its status packets
    boxSys,     \* the hand and putting bit of the last SYS_CONFIG it took
    boxCam,     \* the hand of the last CAM_CONFIG
    paramsSent, \* on this connection
    shooting,   \* images and trigger the box has yet to send
    struck      \* strikes the box has seen

boxVars == <<stage, boxSys, boxCam, paramsSent, shooting, struck>>
vars == <<driverVars, boxVars>>

Idle == [left |-> 0, trigger |-> FALSE]

SessionInit ==
    /\ Init
    /\ stage = 1
    /\ boxSys = [hand |-> "right", putting |-> FALSE]
    /\ boxCam = "right"
    /\ paramsSent = FALSE
    /\ shooting = Idle
    /\ struck = 0

\* A new connection finds the box as the last one left it, or powered on anew.
BoxAccepts ==
    /\ Connect
    /\ stage' \in {stage, 1}
    /\ paramsSent' = FALSE
    /\ shooting' = Idle
    /\ UNCHANGED <<boxSys, boxCam, struck>>

BoxTakes ==
    /\ BoxReads
    /\ LET p == Head(toBox)
       IN  /\ stage' = CASE p.type = "sys_config" /\ stage = 1 -> 2
                         [] p.type = "cam_config" /\ stage = 2 -> 3
                         [] p.type = "arm" /\ stage = 3 -> 0
                         [] p.type = "disarm" /\ stage = 0 -> 3
                         [] OTHER -> stage
           /\ boxSys' = IF p.type = "sys_config" THEN [hand |-> p.hand, putting |-> p.putting]
                        ELSE boxSys
           /\ boxCam' = IF p.type = "cam_config" THEN p.hand ELSE boxCam
    /\ UNCHANGED <<paramsSent, shooting, struck>>

BoxStatus ==
    /\ BoxSends([type |-> "status", code |-> stage, hand |-> boxSys.hand])
    /\ UNCHANGED boxVars

BoxParams ==
    /\ stage # 1 /\ ~paramsSent
    /\ BoxSends([type |-> "params"])
    /\ paramsSent' = TRUE
    /\ UNCHANGED <<stage, boxSys, boxCam, shooting, struck>>

\* A strike on an armed box. The box then waits to be armed again.
BoxStrike ==
    /\ stage = 0 /\ shooting = Idle /\ struck < MaxShots
    /\ \E n \in 1..MaxImages, t \in BOOLEAN :
        /\ BoxSends([type |-> "header", whole |-> TRUE, images |-> n, trigger |-> t])
        /\ shooting' = [left |-> n, trigger |-> t]
    /\ stage' = 3
    /\ struck' = struck + 1
    /\ UNCHANGED <<boxSys, boxCam, paramsSent>>

BoxImage ==
    /\ shooting.left > 0
    /\ BoxSends([type |-> "image", of |-> struck])
    /\ shooting' = [shooting EXCEPT !.left = @ - 1]
    /\ UNCHANGED <<stage, boxSys, boxCam, paramsSent, struck>>

BoxTrigger ==
    /\ shooting = [left |-> 0, trigger |-> TRUE]
    /\ BoxSends([type |-> "trigger"])
    /\ shooting' = Idle
    /\ UNCHANGED <<stage, boxSys, boxCam, paramsSent, struck>>

\* RESP_ERR_IMGTRANSFER_TIMEOUT: the box gives the shot up and reports code -1.
BoxTransferTimeout ==
    /\ shooting # Idle
    /\ BoxSends([type |-> "status", code |-> -1, hand |-> boxSys.hand])
    /\ shooting' = Idle
    /\ UNCHANGED <<stage, boxSys, boxCam, paramsSent, struck>>

\* A packet the driver has no handler for.
BoxOther ==
    /\ stage = 2
    /\ BoxSends([type |-> "other"])
    /\ UNCHANGED boxVars

-----------------------------------------------------------------------------
Box ==
    BoxTakes \/ BoxStatus \/ BoxParams \/ BoxStrike \/ BoxImage \/ BoxTrigger
        \/ BoxTransferTimeout \/ BoxOther

DriverStep ==
    (ConnectFails \/ Retry \/ HandleCommand \/ HandlePacket) /\ UNCHANGED boxVars

Environment == (Issue \/ HangUp \/ CutLink \/ Returned) /\ UNCHANGED boxVars

SessionNext == BoxAccepts \/ DriverStep \/ Box \/ Environment

(***************************************************************************)
(* Fairness.  tokio runs a task that can run; select! polls its branches   *)
(* in random order, so neither commands nor packets starve.  A box whose   *)
(* link stays up goes on sending status packets and taking what it is      *)
(* sent, and finishes a shot or times out.                                 *)
(***************************************************************************)
Fairness ==
    /\ WF_vars(BoxAccepts \/ (Retry /\ UNCHANGED boxVars))
    /\ SF_vars(HandleCommand /\ UNCHANGED boxVars)
    /\ SF_vars(HandlePacket /\ UNCHANGED boxVars)
    /\ WF_vars(BoxTakes)
    /\ SF_vars(BoxStatus)
    /\ SF_vars(BoxParams \/ BoxImage \/ BoxTrigger)

SessionSpec == SessionInit /\ [][SessionNext]_vars
FairSpec == SessionSpec /\ Fairness

-----------------------------------------------------------------------------
BoxTypeOK ==
    /\ stage \in 0..3
    /\ boxSys \in [hand : Handedness, putting : BOOLEAN]
    /\ boxCam \in Handedness
    /\ paramsSent \in BOOLEAN
    /\ shooting \in [left : 0..MaxImages, trigger : BOOLEAN]
    /\ struck \in 0..MaxShots

SessionTypeOK == TypeOK /\ BoxTypeOK

Serving == phase = "serving" /\ link = "up"

\* The SYS_CONFIG the box holds, or the last one on its way, carries the hand and
\* the putting bit of the driver's settings as soon as the first status of the
\* connection has been answered: no setting changed while the link was down, no
\* failed send and no chipping remap (which skips the packet outside chipping
\* mode) leaves the box with an old configuration.
SysConfigCurrent ==
    Serving /\ ~firstStatus =>
        LET sent == {i \in DOMAIN toBox : toBox[i].type = "sys_config"}
            current == [hand |-> hand, putting |-> HwPuttingBit]
        IN  /\ sent = {} => boxSys = current
            /\ \A i \in sent :
                  (\A j \in sent : j <= i)
                      => [hand |-> toBox[i].hand, putting |-> toBox[i].putting] = current

\* The images collected for one shot all show the same strike, though a
\* transfer may have timed out and the link broken in between.
ImagesOfOneStrike ==
    \A i, j \in DOMAIN pending.images : pending.images[i] = pending.images[j]

\* A shot that is decoded has every image its header announced.
ShotsAreWhole ==
    [][Outcomes' > Outcomes =>
          Len(pending.images) + (IF pending.trigger THEN 0 ELSE 1) = pending.expected]_vars

\* Once commands, faults and strikes are over, a session that is still served
\* settles: the handshake is over, the box is configured as the driver is set, and
\* box, driver and consumers agree on the hand and on whether the box is armed.
\* Which of the two it is after a Disarm is left open: the driver arms the box again
\* (session.rs:295), its documents leave it disarmed (README, Findings).
Settles ==
    <>[](Serving =>
            /\ stage \in {0, 3}
            /\ armed = (stage = 0) /\ view.armed = armed
            /\ boxSys = [hand |-> hand, putting |-> HwPuttingBit]
            /\ boxCam = hand /\ view.hand = hand)

\* When every sender of the command channel is gone, run() ends once the box can
\* be reached ("run until `commands` closes or Command::Disconnect arrives",
\* trakr-core/src/lib.rs:111-112); while the box cannot be reached the channel is
\* not read at all, so the bound on faults is what makes this true.
StopsWhenHungUp == hungUp ~> phase = "stopped"
=============================================================================
