----------------------- MODULE SkytrakSession_proofs -----------------------
(* Proofs about SkytrakSession, for every value of its constants.  What holds of the
   driver with any box, proved in SkytrakDriver_proofs, holds of it with this one. *)
EXTENDS SkytrakSession, SkytrakDriver_proofs, SequenceFacts

\* The box keeps its types, and shoots only after a strike.
BoxInv == BoxTypeOK /\ (shooting # Idle => struck > 0)

LEMMA BoxPackets ==
    ASSUME BoxInv
    PROVE  /\ [type |-> "status", code |-> stage, hand |-> boxSys.hand] \in BoxPacket
           /\ [type |-> "status", code |-> -1, hand |-> boxSys.hand] \in BoxPacket
           /\ [type |-> "params"] \in BoxPacket
           /\ [type |-> "trigger"] \in BoxPacket
           /\ [type |-> "other"] \in BoxPacket
           /\ \A n \in 1..MaxImages, t \in BOOLEAN :
                 [type |-> "header", whole |-> TRUE, images |-> n, trigger |-> t] \in BoxPacket
           /\ shooting.left > 0 => [type |-> "image", of |-> struck] \in BoxPacket
  <1>1. stage \in -1..3 /\ -1 \in -1..3 /\ boxSys.hand \in Handedness
    BY DEF BoxInv, BoxTypeOK
  <1>2. shooting.left > 0 => struck \in 1..MaxShots
    <2>1. shooting.left > 0 => shooting # Idle
      BY DEF Idle
    <2>2. struck \in 0..MaxShots /\ (shooting # Idle => struck > 0)
      BY DEF BoxInv, BoxTypeOK
    <2>3. QED
      BY <2>1, <2>2, DriverAssumption DEF DriverAssumption
  <1>3. \A n \in 1..MaxImages : n \in 0..MaxImages
    BY DriverAssumption DEF DriverAssumption
  <1>4. /\ [type |-> "status", code |-> stage, hand |-> boxSys.hand] \in StatusPacket
        /\ [type |-> "status", code |-> -1, hand |-> boxSys.hand] \in StatusPacket
    BY <1>1 DEF StatusPacket
  <1>5. /\ [type |-> "params"] \in PlainPacket /\ [type |-> "trigger"] \in PlainPacket
        /\ [type |-> "other"] \in PlainPacket
    BY DEF PlainPacket
  <1>6. \A n \in 1..MaxImages, t \in BOOLEAN :
          [type |-> "header", whole |-> TRUE, images |-> n, trigger |-> t] \in HeaderPacket
    BY <1>3 DEF HeaderPacket
  <1>7. shooting.left > 0 => [type |-> "image", of |-> struck] \in ImagePacket
    BY <1>2 DEF ImagePacket
  <1>8. QED
    BY <1>4, <1>5, <1>6, <1>7 DEF BoxPacket

\* A step of the session is one of the driver with any box.
LEMMA StepOfDriver == BoxInv /\ [SessionNext]_vars => [Next]_driverVars
  <1> SUFFICES ASSUME BoxInv, [SessionNext]_vars PROVE Next \/ UNCHANGED driverVars
    OBVIOUS
  <1>1. CASE UNCHANGED vars
    BY <1>1 DEF vars
  <1>2. CASE BoxAccepts
    BY <1>2 DEF BoxAccepts, Next, Driver
  <1>3. CASE DriverStep
    BY <1>3 DEF DriverStep, Next, Driver
  <1>4. CASE Environment
    BY <1>4 DEF Environment, Next
  <1>5. CASE BoxTakes
    BY <1>5 DEF BoxTakes, Next
  <1>6. CASE Box /\ ~BoxTakes
    <2>1. \E p \in BoxPacket : BoxSends(p)
      BY <1>6, BoxPackets
         DEF Box, BoxStatus, BoxParams, BoxStrike, BoxImage, BoxTrigger, BoxTransferTimeout,
             BoxOther
    <2>2. QED
      BY <2>1 DEF Next
  <1>7. QED
    BY <1>1, <1>2, <1>3, <1>4, <1>5, <1>6 DEF SessionNext, Box

LEMMA BoxStep == TypeOK /\ BoxInv /\ [SessionNext]_vars => BoxInv'
  <1> SUFFICES ASSUME TypeOK, BoxInv, [SessionNext]_vars PROVE BoxInv'
    OBVIOUS
  <1>1. /\ stage \in 0..3 /\ boxSys \in [hand : Handedness, putting : BOOLEAN]
        /\ boxCam \in Handedness /\ paramsSent \in BOOLEAN
        /\ shooting \in [left : 0..MaxImages, trigger : BOOLEAN]
        /\ struck \in 0..MaxShots /\ (shooting # Idle => struck > 0)
        /\ MaxImages \in Nat /\ MaxShots \in Nat
    BY DriverAssumption DEF BoxInv, BoxTypeOK, DriverAssumption
  <1>2. CASE UNCHANGED boxVars
    BY <1>1, <1>2 DEF boxVars, BoxInv, BoxTypeOK
  <1>3. CASE BoxAccepts
    <2>1. Idle \in [left : 0..MaxImages, trigger : BOOLEAN] /\ 1 \in 0..3
      BY <1>1 DEF Idle
    <2>2. QED
      BY <1>1, <1>3, <2>1 DEF BoxAccepts, BoxInv, BoxTypeOK
  <1>4. CASE BoxTakes
    <2> DEFINE p == Head(toBox)
    <2>1. p \in HostPacket
      BY <1>4 DEF BoxTakes, BoxReads, TypeOK, WireTypeOK
    <2>2. /\ stage' \in {0, 2, 3, stage}
          /\ boxSys' = IF p.type = "sys_config" THEN [hand |-> p.hand, putting |-> p.putting]
                       ELSE boxSys
          /\ boxCam' = IF p.type = "cam_config" THEN p.hand ELSE boxCam
          /\ UNCHANGED <<paramsSent, shooting, struck>>
      BY <1>4 DEF BoxTakes
    <2> HIDE DEF p
    <2>3. boxSys' \in [hand : Handedness, putting : BOOLEAN] /\ boxCam' \in Handedness
      BY <1>1, <2>1, <2>2 DEF HostPacket
    <2>4. stage' \in 0..3
      BY <1>1, <2>2
    <2>5. QED
      BY <1>1, <2>2, <2>3, <2>4 DEF BoxInv, BoxTypeOK
  <1>5. CASE BoxParams
    BY <1>1, <1>5 DEF BoxParams, BoxInv, BoxTypeOK
  <1>6. CASE BoxStrike
    <2>1. PICK n \in 1..MaxImages, t \in BOOLEAN : shooting' = [left |-> n, trigger |-> t]
      BY <1>6 DEF BoxStrike
    <2>2. /\ stage' = 3 /\ struck' = struck + 1 /\ struck < MaxShots
          /\ UNCHANGED <<boxSys, boxCam, paramsSent>>
      BY <1>6 DEF BoxStrike
    <2>3. shooting' \in [left : 0..MaxImages, trigger : BOOLEAN]
      BY <1>1, <2>1
    <2>4. struck' \in 0..MaxShots /\ struck' > 0 /\ stage' \in 0..3
      BY <1>1, <2>2
    <2>5. QED
      BY <1>1, <2>2, <2>3, <2>4 DEF BoxInv, BoxTypeOK
  <1>7. CASE BoxImage
    <2> DEFINE n == shooting.left - 1
    <2>1. /\ shooting.left > 0 /\ shooting' = [shooting EXCEPT !.left = n]
          /\ UNCHANGED <<stage, boxSys, boxCam, paramsSent, struck>>
      BY <1>7 DEF BoxImage
    <2>2. n \in 0..MaxImages /\ shooting # Idle
      BY <1>1, <2>1 DEF Idle
    <2> HIDE DEF n
    <2>3. shooting' \in [left : 0..MaxImages, trigger : BOOLEAN] /\ struck > 0
      BY <1>1, <2>1, <2>2
    <2>4. QED
      BY <1>1, <2>1, <2>3 DEF BoxInv, BoxTypeOK
  <1>8. CASE BoxTrigger \/ BoxTransferTimeout
    <2>1. shooting' = Idle /\ UNCHANGED <<stage, boxSys, boxCam, paramsSent, struck>>
      BY <1>8 DEF BoxTrigger, BoxTransferTimeout
    <2>2. Idle \in [left : 0..MaxImages, trigger : BOOLEAN]
      BY <1>1 DEF Idle
    <2>3. QED
      BY <1>1, <2>1, <2>2 DEF BoxInv, BoxTypeOK
  <1>9. CASE BoxStatus \/ BoxOther \/ DriverStep \/ Environment \/ UNCHANGED vars
    BY <1>2, <1>9 DEF BoxStatus, BoxOther, DriverStep, Environment, vars
  <1>10. QED
    BY <1>3, <1>4, <1>5, <1>6, <1>7, <1>8, <1>9 DEF SessionNext, Box

LEMMA SessionInvariant == SessionSpec => [](TypeOK /\ FreshWhenIdle /\ BoxInv)
  <1>1. SessionInit => TypeOK /\ FreshWhenIdle /\ BoxInv
    <2> SUFFICES ASSUME SessionInit PROVE TypeOK /\ FreshWhenIdle /\ BoxInv
      OBVIOUS
    <2>1. TypeOK
      BY InitTypeOK DEF SessionInit
    <2>2. FreshWhenIdle
      BY DEF SessionInit, Init, FreshWhenIdle
    <2>3. /\ stage \in 0..3 /\ boxSys \in [hand : Handedness, putting : BOOLEAN]
          /\ boxCam \in Handedness /\ paramsSent \in BOOLEAN
      <3>1. stage = 1 /\ boxCam = "right" /\ paramsSent = FALSE
        BY DEF SessionInit
      <3>2. boxSys = [hand |-> "right", putting |-> FALSE]
        BY DEF SessionInit
      <3>3. boxSys \in [hand : Handedness, putting : BOOLEAN]
        BY <3>2 DEF Handedness
      <3>4. stage \in 0..3
        BY <3>1
      <3>5. boxCam \in Handedness /\ paramsSent \in BOOLEAN
        BY <3>1 DEF Handedness
      <3>6. QED
        BY <3>3, <3>4, <3>5
    <2>4. Idle \in [left : 0..MaxImages, trigger : BOOLEAN] /\ 0 \in 0..MaxShots
      BY DriverAssumption DEF Idle, DriverAssumption
    <2>5. QED
      BY <2>1, <2>2, <2>3, <2>4 DEF SessionInit, BoxInv, BoxTypeOK
  <1>2. TypeOK /\ [Next]_driverVars => TypeOK'
    BY DriverTypeOK, EnvironmentTypeOK, StutterTypeOK DEF Next, Returned
  <1>3. QED
    BY <1>1, <1>2, FreshStep, StepOfDriver, BoxStep, PTL DEF SessionSpec

\* The variables of the driver and of the box keep their types.
THEOREM SessionTypeCorrect == SessionSpec => []SessionTypeOK
  <1>1. TypeOK /\ BoxInv => SessionTypeOK
    BY DEF SessionTypeOK, BoxInv
  <1>2. QED
    BY <1>1, SessionInvariant, PTL

\* The driver with a box that keeps to its protocol is the driver with some box: what is
\* proved of that one holds here.
THEOREM SessionImplementsDriver == SessionSpec => Spec
  <1>1. SessionInit => Init
    BY DEF SessionInit
  <1>2. QED
    BY <1>1, StepOfDriver, SessionInvariant, PTL DEF SessionSpec, Spec

\* So the session's events too are those of a launch monitor.
THEOREM SessionIsLaunchMonitor == SessionSpec => IsLaunchMonitor
  BY SessionImplementsDriver, DriverIsLaunchMonitor, PTL

-----------------------------------------------------------------------------
(* The configuration of the box *)

\* A SYS_CONFIG, and what it tells.
Configures == [p \in [type : {"sys_config"}, hand : Handedness, putting : BOOLEAN] |->
                  [hand |-> p.hand, putting |-> p.putting]]
Current == [hand |-> hand, putting |-> HwPuttingBit]

ConfigInv == Serving /\ ~firstStatus => LastWord(toBox, Configures, boxSys, Current)

LEMMA Configurations ==
    ASSUME TypeOK
    PROVE  /\ SysConfig \in DOMAIN Configures /\ Configures[SysConfig] = Current
           /\ CamConfig \notin DOMAIN Configures
           /\ ArmPacket \notin DOMAIN Configures /\ DisarmPacket \notin DOMAIN Configures
           /\ \A p \in HostPacket : p \in DOMAIN Configures <=> p.type = "sys_config"
  BY DEF Configures, SysConfig, CamConfig, ArmPacket, DisarmPacket, HostPacket, Current,
         TypeOK, SettingsTypeOK, HwPuttingBit

LEMMA ConfigurationsNext ==
    ASSUME TypeOK'
    PROVE  /\ SysConfig' \in HostPacket /\ CamConfig' \in HostPacket
           /\ SysConfig' \in DOMAIN Configures /\ Configures[SysConfig'] = Current'
           /\ CamConfig' \notin DOMAIN Configures
  BY DEF Configures, SysConfig, CamConfig, HostPacket, Current, TypeOK, SettingsTypeOK,
         HwPuttingBit

LEMMA SendOne ==
    ASSUME TypeOK, NEW p \in HostPacket, Send(<<p>>), link = "up"
    PROVE  toBox' = Append(toBox, p)
  BY DEF Send, TypeOK, WireTypeOK

LEMMA SendTwo ==
    ASSUME TypeOK, NEW p \in HostPacket, NEW q \in HostPacket, Send(<<p, q>>), link = "up"
    PROVE  toBox' = Append(Append(toBox, p), q)
  <1>1. toBox' = toBox \o <<p, q>> /\ toBox \in Seq(HostPacket)
    BY DEF Send, TypeOK, WireTypeOK
  <1>2. QED
    BY <1>1

\* What the driver sends last of its configuration is its settings of then.
LEMMA SentLast ==
    ASSUME NEW s \in Seq(HostPacket), NEW p \in DOMAIN Configures, p \in HostPacket, NEW v
    PROVE  LastWord(Append(s, p), Configures, v, Configures[p])
  BY LastWordAppended

LEMMA SentOther ==
    ASSUME NEW s \in Seq(HostPacket), NEW p \in HostPacket \ DOMAIN Configures, NEW v, NEW w,
           LastWord(s, Configures, v, w)
    PROVE  LastWord(Append(s, p), Configures, v, w)
  BY LastWordAppended

LEMMA ConfigStep ==
    TypeOK /\ TypeOK' /\ FreshWhenIdle /\ BoxInv /\ ConfigInv /\ [SessionNext]_vars => ConfigInv'
  <1> SUFFICES ASSUME TypeOK, TypeOK', FreshWhenIdle, BoxInv, ConfigInv, [SessionNext]_vars,
                      Serving', ~firstStatus'
               PROVE  LastWord(toBox', Configures, boxSys', Current')
    BY DEF ConfigInv
  <1>1. /\ toBox \in Seq(HostPacket) /\ phase' = "serving" /\ link' = "up"
        /\ HwPuttingBit \in BOOLEAN
    BY DEF TypeOK, WireTypeOK, Serving, HwPuttingBit, SettingsTypeOK
  <1>2. ASSUME Serving, ~firstStatus PROVE LastWord(toBox, Configures, boxSys, Current)
    BY <1>2 DEF ConfigInv
  <1>3. ASSUME UNCHANGED <<phase, link, firstStatus, toBox, boxSys, settings>>
        PROVE  LastWord(toBox', Configures, boxSys', Current')
    <2>1. Serving /\ ~firstStatus
      BY <1>3 DEF Serving
    <2>2. Current' = Current
      BY <1>3 DEF Current, HwPuttingBit, settings
    <2>3. QED
      BY <1>2, <1>3, <2>1, <2>2
  <1>4. CASE BoxTakes
    <2> DEFINE p == Head(toBox)
    <2>1. /\ toBox # <<>> /\ toBox' = Tail(toBox)
          /\ boxSys' = IF p.type = "sys_config" THEN [hand |-> p.hand, putting |-> p.putting]
                       ELSE boxSys
          /\ UNCHANGED <<phase, settings, locals, link>>
      BY <1>4 DEF BoxTakes, BoxReads
    <2>2. Serving /\ ~firstStatus /\ Current' = Current
      BY <2>1 DEF Serving, locals, Current, HwPuttingBit, settings
    <2>3. p \in HostPacket
      BY <1>1, <2>1, TailFacts
    <2>4. boxSys' = IF p \in DOMAIN Configures THEN Configures[p] ELSE boxSys
      <3> HIDE DEF p
      <3>1. CASE p.type = "sys_config"
        <4>1. p \in DOMAIN Configures
          BY <2>3, <3>1, Configurations
        <4>2. Configures[p] = [hand |-> p.hand, putting |-> p.putting]
          BY <4>1 DEF Configures
        <4>3. QED
          BY <2>1, <3>1, <4>1, <4>2
      <3>2. CASE p.type # "sys_config"
        BY <2>1, <2>3, <3>2, Configurations
      <3>3. QED
        BY <3>1, <3>2
    <2>5. QED
      BY <1>1, <1>2, <2>1, <2>2, <2>4, LastWordTaken
  <1>5. CASE BoxAccepts
    <2>1. firstStatus' = firstStatus /\ phase = "connecting"
      BY <1>5 DEF BoxAccepts, Connect, locals
    <2>2. QED
      BY <2>1 DEF FreshWhenIdle
  <1>6. CASE Box /\ ~BoxTakes
    <2>1. /\ \E p : BoxSends(p)
          /\ UNCHANGED boxSys
      BY <1>6 DEF Box, BoxStatus, BoxParams, BoxStrike, BoxImage, BoxTrigger,
                  BoxTransferTimeout, BoxOther, boxVars
    <2>2. QED
      BY <1>3, <2>1 DEF BoxSends, locals
  <1>7. CASE Environment
    <2>1. UNCHANGED boxSys
      BY <1>7 DEF Environment, boxVars
    <2>2. CASE CutLink
      BY <1>1, <2>2 DEF CutLink
    <2>3. CASE Issue \/ HangUp \/ Returned
      BY <1>3, <2>1, <2>3 DEF Issue, HangUp, Returned, driverVars, locals, wire
    <2>4. QED
      BY <1>7, <2>2, <2>3 DEF Environment
  <1>8. CASE DriverStep
    <2>1. UNCHANGED boxSys
      BY <1>8 DEF DriverStep, boxVars
    <2>2. CASE Arm \/ Disarm
      <3>1. PICK p \in {ArmPacket, DisarmPacket} : Send(<<p>>)
        BY <2>2 DEF Arm, Disarm
      <3>2. UNCHANGED <<phase, settings, firstStatus, link>>
        BY <2>2 DEF Arm, Disarm
      <3>3. p \in HostPacket \ DOMAIN Configures
        BY <3>1, Configurations, HostPackets DEF TypeOK
      <3>4. Serving /\ ~firstStatus /\ Current' = Current
        BY <3>2 DEF Serving, Current, HwPuttingBit, settings
      <3>5. toBox' = Append(toBox, p)
        BY <3>1, <3>3, <3>4, SendOne DEF Serving
      <3>6. QED
        BY <1>1, <1>2, <2>1, <3>3, <3>4, <3>5, SentOther
    <2>3. CASE SetHandedness
      <3>1. Send(<<SysConfig', CamConfig'>>) /\ link = "up"
        BY <1>1, <2>3 DEF SetHandedness
      <3>2. toBox' = Append(Append(toBox, SysConfig'), CamConfig')
        BY <3>1, ConfigurationsNext, SendTwo
      <3>3. LastWord(Append(toBox, SysConfig'), Configures, boxSys, Current')
        BY <1>1, ConfigurationsNext, SentLast
      <3>4. Append(toBox, SysConfig') \in Seq(HostPacket)
        BY <1>1, ConfigurationsNext, AppendFacts
      <3>5. QED
        BY <2>1, <3>2, <3>3, <3>4, ConfigurationsNext, SentOther
    <2>4. CASE SetShotMode \/ (SetChipViaPutting /\ mode = "chipping")
      <3>1. Send(<<SysConfig'>>) /\ link = "up"
        BY <1>1, <2>4 DEF SetShotMode, SetChipViaPutting
      <3>2. toBox' = Append(toBox, SysConfig')
        BY <3>1, ConfigurationsNext, SendOne
      <3>3. QED
        BY <1>1, <2>1, <3>2, ConfigurationsNext, SentLast
    <2>5. CASE SetChipViaPutting /\ mode # "chipping"
      <3>1. /\ Send(<<>>) /\ UNCHANGED <<hand, mode, phase, locals, link>>
        BY <2>5 DEF SetChipViaPutting
      <3>2. Serving /\ ~firstStatus /\ link = "up"
        BY <3>1 DEF Serving, locals
      <3>3. toBox' = toBox
        BY <1>1, <3>1, <3>2 DEF Send
      <3>4. Current' = Current
        BY <2>5, <3>1 DEF Current, HwPuttingBit
      <3>5. QED
        BY <1>2, <2>1, <3>2, <3>3, <3>4
    <2>6. CASE FirstStatus
      <3>1. Send(<<DisarmPacket, SysConfig>>) /\ link = "up" /\ UNCHANGED settings
        BY <1>1, <2>6 DEF FirstStatus
      <3>2. toBox' = Append(Append(toBox, DisarmPacket), SysConfig)
        BY <3>1, HostPackets, SendTwo DEF TypeOK
      <3>3. Append(toBox, DisarmPacket) \in Seq(HostPacket)
        BY <1>1, HostPackets, AppendFacts DEF TypeOK
      <3>4. LastWord(toBox', Configures, boxSys, Current)
        BY <3>2, <3>3, HostPackets, Configurations, SentLast DEF TypeOK
      <3>5. Current' = Current
        BY <3>1 DEF Current, HwPuttingBit, settings
      <3>6. QED
        BY <2>1, <3>4, <3>5
    <2>7. CASE Status
      <3> DEFINE code == Head(fromBox).code
      <3>1. /\ Send(Reply(code)) /\ link = "up" /\ phase = "serving" /\ ~firstStatus
            /\ UNCHANGED settings
        BY <1>1, <2>7 DEF Status, Receive
      <3>2. /\ Current' = Current /\ boxSys' = boxSys
            /\ LastWord(toBox, Configures, boxSys, Current)
        BY <1>2, <2>1, <3>1 DEF Current, HwPuttingBit, settings, Serving
      <3>3. Reply(code) \in {<<SysConfig>>, <<CamConfig>>, <<ArmPacket>>, <<>>}
        BY DEF Reply
      <3> HIDE DEF code
      <3>4. CASE Reply(code) = <<>>
        <4>1. toBox' = toBox
          BY <1>1, <3>1, <3>4 DEF Send
        <4>2. QED
          BY <3>2, <4>1
      <3>5. ASSUME NEW p \in {SysConfig, CamConfig, ArmPacket}, Reply(code) = <<p>>
            PROVE  LastWord(toBox', Configures, boxSys, Current)
        <4>1. p = SysConfig \/ p \notin DOMAIN Configures
          BY <3>5, HostPackets, Configurations DEF TypeOK
        <4>2. p \in HostPacket
          BY <3>5, HostPackets DEF TypeOK
        <4>3. toBox' = Append(toBox, p)
          BY <3>1, <3>5, <4>2, SendOne
        <4>4. QED
          BY <1>1, <3>2, <4>1, <4>2, <4>3, Configurations, SentLast, SentOther
      <3>6. QED
        BY <3>2, <3>3, <3>4, <3>5
    <2>8. CASE Params
      <3>1. /\ Send(<<SysConfig, CamConfig>>) /\ link = "up" /\ UNCHANGED settings
        BY <1>1, <2>8 DEF Params
      <3>2. toBox' = Append(Append(toBox, SysConfig), CamConfig)
        BY <3>1, HostPackets, SendTwo DEF TypeOK
      <3>3. Append(toBox, SysConfig) \in Seq(HostPacket)
        BY <1>1, HostPackets, AppendFacts DEF TypeOK
      <3>4. LastWord(Append(toBox, SysConfig), Configures, boxSys, Current)
        BY <1>1, HostPackets, Configurations, SentLast DEF TypeOK
      <3>5. LastWord(toBox', Configures, boxSys, Current)
        BY <3>2, <3>3, <3>4, HostPackets, Configurations, SentOther DEF TypeOK
      <3>6. Current' = Current
        BY <3>1 DEF Current, HwPuttingBit, settings
      <3>7. QED
        BY <2>1, <3>5, <3>6
    <2>9. CASE FireShot \/ ShotHeader \/ ShotImage \/ Trigger \/ OtherPacket
      <3>1. UNCHANGED <<phase, link, firstStatus, toBox, settings>>
        BY <2>9, AnsweredOrNot DEF FireShot, ShotHeader, OtherPacket, wire, locals
      <3>2. QED
        BY <1>3, <2>1, <3>1
    <2>10. CASE ConnectFails \/ Retry \/ Stop \/ CommandSendFails \/ ReplySendFails \/ LinkLost
      BY <1>1, <2>10 DEF ConnectFails, Retry, Stop, CommandSendFails, ReplySendFails, LinkLost
    <2>11. QED
      BY <1>8, <2>2, <2>3, <2>4, <2>5, <2>6, <2>7, <2>8, <2>9, <2>10
         DEF DriverStep, HandleCommand, HandlePacket
  <1>9. CASE UNCHANGED vars
    BY <1>3, <1>9 DEF vars, driverVars, boxVars, locals, wire
  <1>10. QED
    BY <1>4, <1>5, <1>6, <1>7, <1>8, <1>9 DEF SessionNext, Box

\* No change of the settings is kept from the box, whenever it happens and whatever
\* becomes of its packets.
THEOREM ConfigurationIsCurrent == SessionSpec => []SysConfigCurrent
  <1>1. SessionInit => ConfigInv
    BY DEF SessionInit, Init, ConfigInv, Serving
  <1>2. TypeOK /\ ConfigInv => SysConfigCurrent
    <2> SUFFICES ASSUME TypeOK, LastWord(toBox, Configures, boxSys, Current)
                 PROVE  LET sent == {i \in DOMAIN toBox : toBox[i].type = "sys_config"}
                        IN  /\ sent = {} => boxSys = Current
                            /\ \A i \in sent :
                                  (\A j \in sent : j <= i)
                                      => [hand |-> toBox[i].hand, putting |-> toBox[i].putting]
                                         = Current
      BY DEF ConfigInv, SysConfigCurrent, Current
    <2> DEFINE sent == {i \in DOMAIN toBox : toBox[i].type = "sys_config"}
    <2>1. \A i \in DOMAIN toBox : i \in Int /\ (i \in sent <=> toBox[i] \in DOMAIN Configures)
      <3>1. \A i \in DOMAIN toBox : toBox[i] \in HostPacket /\ i \in Int
        BY DEF TypeOK, WireTypeOK
      <3>2. QED
        BY <3>1, Configurations
    <2>2. sent \subseteq DOMAIN toBox
      OBVIOUS
    <2> HIDE DEF sent
    <2>3. \A p \in DOMAIN Configures : Configures[p] = [hand |-> p.hand, putting |-> p.putting]
      BY DEF Configures
    <2>4. ASSUME NEW i \in sent, \A j \in sent : j <= i
          PROVE  [hand |-> toBox[i].hand, putting |-> toBox[i].putting] = Current
      <3>1. i \in DOMAIN toBox
        BY <2>2
      <3>2. i \in Int /\ toBox[i] \in DOMAIN Configures
        BY <2>1, <3>1, Zenon
      <3>3. ASSUME NEW j \in DOMAIN toBox, j > i PROVE toBox[j] \notin DOMAIN Configures
        <4>1. j \in Int
          BY <2>1, Zenon
        <4>2. ~(j <= i)
          BY <3>2, <3>3, <4>1
        <4>3. j \notin sent
          BY <2>4, <4>2, Zenon
        <4>4. QED
          BY <2>1, <4>3, Zenon
      <3>4. Configures[toBox[i]] = Current
        BY <3>1, <3>2, <3>3 DEF LastWord
      <3>5. QED
        BY <2>3, <3>2, <3>4
    <2>5. sent = {} => boxSys = Current
      BY <2>1 DEF LastWord
    <2>6. QED
      BY <2>4, <2>5 DEF sent
  <1>3. QED
    BY <1>1, <1>2, ConfigStep, SessionInvariant, PTL DEF SessionSpec

-----------------------------------------------------------------------------
(* The images of a strike: on the wire a header parts those of one strike from those of
   the next. *)

NoHeader(f) == \A i \in DOMAIN f : f[i].type # "header"

\* Images with no header between them show the same strike.
OneStrikeEach(f) ==
    \A i, j \in DOMAIN f :
        /\ i < j /\ f[i].type = "image" /\ f[j].type = "image"
        /\ \A k \in DOMAIN f : i < k /\ k < j => f[k].type # "header"
        => f[i].of = f[j].of

\* The images before the first header show strike v.
StartsWith(f, v) ==
    \A i \in DOMAIN f :
        f[i].type = "image" /\ (\A k \in DOMAIN f : k < i => f[k].type # "header")
            => f[i].of = v

\* The images after the last header show strike v.
EndsWith(f, v) ==
    \A i \in DOMAIN f :
        f[i].type = "image" /\ (\A k \in DOMAIN f : k > i => f[k].type # "header")
            => f[i].of = v

LEMMA PacketAppended ==
    ASSUME NEW T, NEW f \in Seq(T), NEW x \in T, NEW v
    PROVE  /\ OneStrikeEach(f) /\ (x.type = "image" => EndsWith(f, x.of))
                => OneStrikeEach(Append(f, x))
           /\ StartsWith(f, v) /\ (x.type = "image" /\ NoHeader(f) => x.of = v)
                => StartsWith(Append(f, x), v)
           /\ x.type = "header" => EndsWith(Append(f, x), v)
           /\ EndsWith(f, v) /\ x.type # "header" /\ (x.type = "image" => x.of = v)
                => EndsWith(Append(f, x), v)
           /\ NoHeader(Append(f, x)) => NoHeader(f) /\ x.type # "header"
  <1> DEFINE g == Append(f, x)
             n == Len(f) + 1
  <1>1. /\ Len(f) \in Nat /\ DOMAIN f = 1..Len(f) /\ DOMAIN g = 1..(Len(f) + 1)
        /\ \A i \in DOMAIN f : g[i] = f[i]
        /\ g[n] = x
    BY AppendFacts
  <1>2. n \in DOMAIN g /\ \A i \in DOMAIN g : i \in Int /\ (i = n \/ i \in DOMAIN f)
    BY <1>1
  <1>3. \A i \in DOMAIN f : i \in DOMAIN g /\ i \in Int /\ i < n /\ g[i] = f[i]
    BY <1>1
  <1>4. n \in Int
    BY <1>1
  <1> HIDE DEF g, n
  <1>5. ASSUME OneStrikeEach(f), x.type = "image" => EndsWith(f, x.of)
        PROVE  OneStrikeEach(g)
    <2> SUFFICES ASSUME NEW i \in DOMAIN g, NEW j \in DOMAIN g,
                        i < j, g[i].type = "image", g[j].type = "image",
                        \A k \in DOMAIN g : i < k /\ k < j => g[k].type # "header"
                 PROVE  g[i].of = g[j].of
      BY DEF OneStrikeEach
    <2>1. i \in DOMAIN f /\ g[i] = f[i]
      BY <1>2, <1>3, <1>4
    <2>2. CASE j \in DOMAIN f
      <3>1. \A k \in DOMAIN f : i < k /\ k < j => f[k].type # "header"
        BY <1>3
      <3>2. g[j] = f[j]
        BY <1>3, <2>2
      <3>3. QED
        BY <1>5, <2>1, <2>2, <3>1, <3>2 DEF OneStrikeEach
    <2>3. CASE j = n
      <3>1. g[j] = x
        BY <1>1, <2>3
      <3>2. \A k \in DOMAIN f : k > i => f[k].type # "header"
        BY <1>2, <1>3, <2>1, <2>3
      <3>3. QED
        BY <1>5, <2>1, <3>1, <3>2 DEF EndsWith
    <2>4. QED
      BY <1>2, <2>2, <2>3
  <1>6. ASSUME StartsWith(f, v), x.type = "image" /\ NoHeader(f) => x.of = v
        PROVE  StartsWith(g, v)
    <2> SUFFICES ASSUME NEW i \in DOMAIN g, g[i].type = "image",
                        \A k \in DOMAIN g : k < i => g[k].type # "header"
                 PROVE  g[i].of = v
      BY DEF StartsWith
    <2>1. CASE i \in DOMAIN f
      <3>1. \A k \in DOMAIN f : k < i => f[k].type # "header"
        BY <1>3
      <3>2. QED
        BY <1>3, <1>6, <2>1, <3>1 DEF StartsWith
    <2>2. CASE i = n
      <3>1. NoHeader(f)
        BY <1>3, <2>2 DEF NoHeader
      <3>2. QED
        BY <1>1, <1>6, <2>2, <3>1
    <2>3. QED
      BY <1>2, <2>1, <2>2
  <1>7. ASSUME x.type = "header" PROVE EndsWith(g, v)
    <2> SUFFICES ASSUME NEW i \in DOMAIN g, g[i].type = "image",
                        \A k \in DOMAIN g : k > i => g[k].type # "header"
                 PROVE  FALSE
      BY DEF EndsWith
    <2>1. i # n
      BY <1>1, <1>7
    <2>2. n > i
      BY <1>2, <1>3, <1>4, <2>1
    <2>3. QED
      BY <1>1, <1>2, <1>7, <2>2
  <1>8. ASSUME EndsWith(f, v), x.type # "header", x.type = "image" => x.of = v
        PROVE  EndsWith(g, v)
    <2> SUFFICES ASSUME NEW i \in DOMAIN g, g[i].type = "image",
                        \A k \in DOMAIN g : k > i => g[k].type # "header"
                 PROVE  g[i].of = v
      BY DEF EndsWith
    <2>1. CASE i \in DOMAIN f
      <3>1. \A k \in DOMAIN f : k > i => f[k].type # "header"
        BY <1>3
      <3>2. QED
        BY <1>3, <1>8, <2>1, <3>1 DEF EndsWith
    <2>2. CASE i = n
      BY <1>1, <1>8, <2>2
    <2>3. QED
      BY <1>2, <2>1, <2>2
  <1>9. NoHeader(g) => NoHeader(f) /\ x.type # "header"
    BY <1>1, <1>2, <1>3 DEF NoHeader
  <1>10. QED
    BY <1>5, <1>6, <1>7, <1>8, <1>9 DEF g

LEMMA PacketTaken ==
    ASSUME NEW T, NEW f \in Seq(T), f # <<>>, NEW v
    PROVE  /\ OneStrikeEach(f) => OneStrikeEach(Tail(f))
           /\ EndsWith(f, v) => EndsWith(Tail(f), v)
           /\ StartsWith(f, v) /\ Head(f).type # "header" => StartsWith(Tail(f), v)
           /\ NoHeader(Tail(f)) /\ Head(f).type # "header" => NoHeader(f)
           /\ Head(f).type = "image" =>
                /\ OneStrikeEach(f) => StartsWith(Tail(f), Head(f).of)
                /\ StartsWith(f, v) => Head(f).of = v
                /\ NoHeader(f) /\ EndsWith(f, v) => Head(f).of = v
  <1> DEFINE g == Tail(f)
             h == Head(f)
  <1>1. /\ Len(f) \in Nat /\ Len(f) >= 1 /\ h = f[1]
        /\ DOMAIN f = 1..Len(f) /\ DOMAIN g = 1..(Len(f) - 1)
        /\ \A i \in DOMAIN g : i + 1 \in DOMAIN f /\ g[i] = f[i + 1]
    BY TailFacts
  <1>2. \A i \in DOMAIN g : i \in Int /\ i >= 1 /\ i + 1 \in DOMAIN f /\ g[i] = f[i + 1]
    BY <1>1
  <1>3. /\ 1 \in DOMAIN f
        /\ \A k \in DOMAIN f : k \in Int /\ k >= 1 /\ (k = 1 \/ k - 1 \in DOMAIN g)
    BY <1>1
  <1>4. \A k \in DOMAIN f : k # 1 => k - 1 \in DOMAIN g /\ g[k - 1] = f[k]
    <2> SUFFICES ASSUME NEW k \in DOMAIN f, k # 1 PROVE k - 1 \in DOMAIN g /\ g[k - 1] = f[k]
      OBVIOUS
    <2>1. k - 1 \in DOMAIN g /\ k \in Int
      BY <1>3
    <2>2. (k - 1) + 1 = k
      BY <2>1
    <2>3. QED
      BY <1>2, <2>1, <2>2
  <1>5. f[1] = h
    BY <1>1
  <1> HIDE DEF g, h
  <1>6. ASSUME OneStrikeEach(f) PROVE OneStrikeEach(g)
    <2> SUFFICES ASSUME NEW i \in DOMAIN g, NEW j \in DOMAIN g,
                        i < j, g[i].type = "image", g[j].type = "image",
                        \A k \in DOMAIN g : i < k /\ k < j => g[k].type # "header"
                 PROVE  g[i].of = g[j].of
      BY DEF OneStrikeEach
    <2>1. /\ i \in Int /\ j \in Int /\ i >= 1 /\ i + 1 < j + 1
          /\ i + 1 \in DOMAIN f /\ j + 1 \in DOMAIN f
          /\ g[i] = f[i + 1] /\ g[j] = f[j + 1]
      BY <1>2
    <2>2. ASSUME NEW k \in DOMAIN f, i + 1 < k, k < j + 1 PROVE f[k].type # "header"
      <3>1. k \in Int /\ k # 1 /\ i < k - 1 /\ k - 1 < j
        BY <1>3, <2>1, <2>2
      <3>2. k - 1 \in DOMAIN g /\ g[k - 1] = f[k]
        BY <1>4, <3>1
      <3>3. QED
        BY <3>1, <3>2
    <2>3. QED
      BY <1>6, <2>1, <2>2 DEF OneStrikeEach
  <1>7. ASSUME EndsWith(f, v) PROVE EndsWith(g, v)
    <2> SUFFICES ASSUME NEW i \in DOMAIN g, g[i].type = "image",
                        \A k \in DOMAIN g : k > i => g[k].type # "header"
                 PROVE  g[i].of = v
      BY DEF EndsWith
    <2>1. i \in Int /\ i >= 1 /\ i + 1 \in DOMAIN f /\ g[i] = f[i + 1]
      BY <1>2
    <2>2. ASSUME NEW k \in DOMAIN f, k > i + 1 PROVE f[k].type # "header"
      <3>1. k \in Int /\ k # 1 /\ k - 1 > i
        BY <1>3, <2>1, <2>2
      <3>2. k - 1 \in DOMAIN g /\ g[k - 1] = f[k]
        BY <1>4, <3>1
      <3>3. QED
        BY <3>1, <3>2
    <2>3. QED
      BY <1>7, <2>1, <2>2 DEF EndsWith
  <1>8. ASSUME StartsWith(f, v), h.type # "header" PROVE StartsWith(g, v)
    <2> SUFFICES ASSUME NEW i \in DOMAIN g, g[i].type = "image",
                        \A k \in DOMAIN g : k < i => g[k].type # "header"
                 PROVE  g[i].of = v
      BY DEF StartsWith
    <2>1. i \in Int /\ i >= 1 /\ i + 1 \in DOMAIN f /\ g[i] = f[i + 1]
      BY <1>2
    <2>2. ASSUME NEW k \in DOMAIN f, k < i + 1 PROVE f[k].type # "header"
      <3>1. CASE k = 1
        BY <1>5, <1>8, <3>1
      <3>2. CASE k # 1
        <4>1. k \in Int /\ k - 1 < i
          BY <1>3, <2>1, <2>2
        <4>2. k - 1 \in DOMAIN g /\ g[k - 1] = f[k]
          BY <1>4, <3>2
        <4>3. QED
          BY <4>1, <4>2
      <3>3. QED
        BY <3>1, <3>2
    <2>3. QED
      BY <1>8, <2>1, <2>2 DEF StartsWith
  <1>9. ASSUME NoHeader(g), h.type # "header" PROVE NoHeader(f)
    <2>1. ASSUME NEW k \in DOMAIN f PROVE f[k].type # "header"
      BY <1>4, <1>5, <1>9 DEF NoHeader
    <2>2. QED
      BY <2>1 DEF NoHeader
  <1>10. ASSUME h.type = "image", OneStrikeEach(f) PROVE StartsWith(g, h.of)
    <2> SUFFICES ASSUME NEW i \in DOMAIN g, g[i].type = "image",
                        \A k \in DOMAIN g : k < i => g[k].type # "header"
                 PROVE  f[1].of = g[i].of
      BY <1>5 DEF StartsWith
    <2>1. i \in Int /\ i >= 1 /\ 1 < i + 1 /\ i + 1 \in DOMAIN f /\ g[i] = f[i + 1]
      BY <1>2
    <2>2. ASSUME NEW k \in DOMAIN f, 1 < k, k < i + 1 PROVE f[k].type # "header"
      <3>1. k \in Int /\ k # 1 /\ k - 1 < i
        BY <1>3, <2>1, <2>2
      <3>2. k - 1 \in DOMAIN g /\ g[k - 1] = f[k]
        BY <1>4, <3>1
      <3>3. QED
        BY <3>1, <3>2
    <2>3. QED
      BY <1>3, <1>5, <1>10, <2>1, <2>2 DEF OneStrikeEach
  <1>11. ASSUME h.type = "image", StartsWith(f, v) PROVE h.of = v
    <2>1. \A k \in DOMAIN f : ~(k < 1)
      BY <1>3
    <2>2. QED
      BY <1>3, <1>5, <1>11, <2>1 DEF StartsWith
  <1>12. ASSUME h.type = "image", NoHeader(f), EndsWith(f, v) PROVE h.of = v
    BY <1>3, <1>5, <1>12 DEF NoHeader, EndsWith
  <1>13. QED
    BY <1>6, <1>7, <1>8, <1>9, <1>10, <1>11, <1>12 DEF g, h

\* What is pending goes on with the images on the wire, and they with the box's strike.
StrikeInv ==
    /\ OneStrikeEach(fromBox)
    /\ \A m \in DOMAIN pending.images : StartsWith(fromBox, pending.images[m])
    /\ ImagesOfOneStrike
    /\ link = "up" =>
        /\ EndsWith(fromBox, struck)
        /\ NoHeader(fromBox) => \A m \in DOMAIN pending.images : pending.images[m] = struck

LEMMA EmptyHanded ==
    ASSUME TypeOK
    PROVE  /\ pending.images \in Seq(1..MaxShots)
           /\ NoShot.images = <<>>
  <1>1. NoShot.images = <<>>
    BY DEF NoShot
  <1>2. <<>> \in Seq(1..MaxShots)
    OBVIOUS
  <1>3. pending \in PendingShot => pending.images \in Seq(1..MaxShots)
    BY DEF PendingShot
  <1>4. QED
    BY <1>1, <1>2, <1>3 DEF TypeOK, LocalsTypeOK

\* A link that is closed leaves nothing on the wire and nothing pending.
LEMMA NothingLeft ==
    ASSUME fromBox = <<>>, pending = NoShot
    PROVE  StrikeInv
  <1>1. DOMAIN fromBox = {} /\ DOMAIN pending.images = {}
    BY DEF NoShot
  <1>2. QED
    BY <1>1 DEF StrikeInv, OneStrikeEach, EndsWith, ImagesOfOneStrike

LEMMA NothingLeftNext ==
    ASSUME fromBox' = <<>>, pending' = NoShot
    PROVE  StrikeInv'
  <1>1. DOMAIN fromBox' = {} /\ DOMAIN pending'.images = {}
    BY DEF NoShot
  <1>2. QED
    BY <1>1 DEF StrikeInv, OneStrikeEach, EndsWith, ImagesOfOneStrike

\* The box sends a packet: an image shows its strike, and a header comes with a new one.
LEMMA StrikeSent ==
    ASSUME TypeOK, StrikeInv, NEW p \in BoxPacket, BoxSends(p), UNCHANGED pending,
           p.type = "header" \/ struck' = struck,
           p.type = "image" => p.of = struck
    PROVE  StrikeInv'
  <1>1. /\ fromBox \in Seq(BoxPacket) /\ fromBox' = Append(fromBox, p)
        /\ link = "up" /\ link' = "up"
    BY DEF TypeOK, WireTypeOK, BoxSends
  <1>2. /\ OneStrikeEach(fromBox) /\ EndsWith(fromBox, struck)
        /\ \A m \in DOMAIN pending.images : StartsWith(fromBox, pending.images[m])
        /\ NoHeader(fromBox) => \A m \in DOMAIN pending.images : pending.images[m] = struck
    BY <1>1 DEF StrikeInv
  <1>3. OneStrikeEach(fromBox')
    BY <1>1, <1>2, PacketAppended
  <1>4. ASSUME NEW m \in DOMAIN pending.images PROVE StartsWith(fromBox', pending.images[m])
    BY <1>1, <1>2, PacketAppended
  <1>5. EndsWith(fromBox', struck')
    BY <1>1, <1>2, PacketAppended
  <1>6. NoHeader(fromBox') => NoHeader(fromBox) /\ p.type # "header"
    BY <1>1, PacketAppended
  <1>7. QED
    BY <1>2, <1>3, <1>4, <1>5, <1>6 DEF StrikeInv, ImagesOfOneStrike

\* The driver takes a packet: a header starts anew, an image joins those pending.
LEMMA StrikeTaken ==
    ASSUME TypeOK, StrikeInv, fromBox # <<>>, fromBox' = Tail(fromBox),
           UNCHANGED <<link, struck>>,
           \/ pending' = NoShot
           \/ Head(fromBox).type # "header" /\ pending' = pending
           \/ Head(fromBox).type = "header" /\ pending'.images = <<>>
           \/ /\ Head(fromBox).type = "image"
              /\ pending'.images = Append(pending.images, Head(fromBox).of)
              /\ Head(fromBox).of \in 1..MaxShots
    PROVE  StrikeInv'
  <1> DEFINE h == Head(fromBox)
             old == pending.images
             new == pending'.images
             rest == Tail(fromBox)
  <1>1. /\ fromBox \in Seq(BoxPacket)
        /\ old \in Seq(1..MaxShots)
    BY EmptyHanded DEF TypeOK, WireTypeOK
  <1>2. /\ OneStrikeEach(fromBox) /\ (link = "up" => EndsWith(fromBox, struck))
        /\ \A m \in DOMAIN old : StartsWith(fromBox, old[m])
        /\ link = "up" /\ NoHeader(fromBox) => \A m \in DOMAIN old : old[m] = struck
        /\ \A i, j \in DOMAIN old : old[i] = old[j]
    BY DEF StrikeInv, ImagesOfOneStrike
  <1>3. /\ OneStrikeEach(rest)
        /\ link = "up" => EndsWith(rest, struck)
    BY <1>1, <1>2, PacketTaken
  <1>4. CASE new = <<>>
    <2>1. DOMAIN new = {}
      BY <1>4
    <2>2. QED
      BY <1>3, <2>1 DEF StrikeInv, ImagesOfOneStrike
  <1>5. ASSUME h.type # "header"
        PROVE  /\ \A m \in DOMAIN old : StartsWith(rest, old[m])
               /\ link = "up" /\ NoHeader(rest) => \A m \in DOMAIN old : old[m] = struck
    <2>1. ASSUME NEW m \in DOMAIN old PROVE StartsWith(rest, old[m])
      BY <1>1, <1>2, <1>5, PacketTaken
    <2>2. NoHeader(rest) => NoHeader(fromBox)
      BY <1>1, <1>5, PacketTaken
    <2>3. QED
      BY <1>2, <2>1, <2>2
  <1>6. CASE h.type # "header" /\ pending' = pending
    BY <1>2, <1>3, <1>5, <1>6 DEF StrikeInv, ImagesOfOneStrike
  <1>7. CASE h.type = "image" /\ new = Append(old, h.of) /\ h.of \in 1..MaxShots
    <2>1. /\ StartsWith(rest, h.of)
          /\ \A m \in DOMAIN old : h.of = old[m]
      <3>1. ASSUME NEW m \in DOMAIN old PROVE h.of = old[m]
        BY <1>1, <1>2, <1>7, PacketTaken
      <3>2. QED
        BY <1>1, <1>2, <1>7, <3>1, PacketTaken
    <2>2. link = "up" /\ NoHeader(rest) => h.of = struck
      <3>1. NoHeader(rest) => NoHeader(fromBox)
        BY <1>1, <1>7, PacketTaken
      <3>2. QED
        BY <1>1, <1>2, <1>7, <3>1, PacketTaken
    <2> DEFINE v == h.of
    <2>3. \A m \in DOMAIN new : new[m] = v
      <3>1. new = Append(old, v) /\ v \in 1..MaxShots
        BY <1>7
      <3> HIDE DEF v, new, old
      <3>2. /\ DOMAIN old = 1..Len(old) /\ DOMAIN new = 1..(Len(old) + 1)
            /\ Len(old) \in Nat
            /\ \A m \in DOMAIN old : new[m] = old[m]
            /\ new[Len(old) + 1] = v
        BY <1>1, <3>1, AppendFacts
      <3>3. QED
        BY <2>1, <3>2 DEF v
    <2>4. QED
      BY <1>3, <2>1, <2>2, <2>3 DEF StrikeInv, ImagesOfOneStrike
  <1>8. QED
    BY <1>4, <1>6, <1>7 DEF NoShot

LEMMA StrikeStep ==
    TypeOK /\ FreshWhenIdle /\ BoxInv /\ StrikeInv /\ [SessionNext]_vars => StrikeInv'
  <1> SUFFICES ASSUME TypeOK, FreshWhenIdle, BoxInv, StrikeInv, [SessionNext]_vars
               PROVE  StrikeInv'
    OBVIOUS
  <1>1. ASSUME UNCHANGED <<pending, fromBox, link, struck>> PROVE StrikeInv'
    BY <1>1 DEF StrikeInv, ImagesOfOneStrike
  <1>2. CASE BoxAccepts
    <2>1. UNCHANGED <<fromBox, pending>> /\ phase = "connecting"
      BY <1>2 DEF BoxAccepts, Connect, locals
    <2>2. fromBox' = <<>> /\ pending' = NoShot
      BY <2>1 DEF FreshWhenIdle
    <2>3. QED
      BY <2>2, NothingLeftNext
  <1>3. CASE BoxTakes \/ UNCHANGED vars
    BY <1>1, <1>3 DEF BoxTakes, BoxReads, vars, boxVars, driverVars, locals, wire
  <1>4. CASE BoxStrike
    <2>1. PICK n \in 1..MaxImages, t \in BOOLEAN :
            BoxSends([type |-> "header", whole |-> TRUE, images |-> n, trigger |-> t])
      BY <1>4 DEF BoxStrike
    <2> DEFINE p == [type |-> "header", whole |-> TRUE, images |-> n, trigger |-> t]
    <2>2. p \in BoxPacket /\ p.type = "header"
      BY BoxPackets
    <2>3. BoxSends(p) /\ UNCHANGED pending
      BY <2>1 DEF BoxSends, locals
    <2> HIDE DEF p
    <2>4. QED
      BY <2>2, <2>3, StrikeSent
  <1>5. CASE BoxImage
    <2> DEFINE p == [type |-> "image", of |-> struck]
    <2>1. BoxSends(p) /\ UNCHANGED struck /\ p \in BoxPacket
      BY <1>5, BoxPackets DEF BoxImage
    <2>2. UNCHANGED pending /\ p.type = "image" /\ p.of = struck
      BY <2>1 DEF BoxSends, locals
    <2> HIDE DEF p
    <2>3. QED
      BY <2>1, <2>2, StrikeSent
  <1>6. CASE BoxStatus \/ BoxParams \/ BoxTrigger \/ BoxTransferTimeout \/ BoxOther
    <2>1. UNCHANGED struck
      BY <1>6 DEF BoxStatus, BoxParams, BoxTrigger, BoxTransferTimeout, BoxOther, boxVars
    <2>2. \E p \in BoxPacket : BoxSends(p) /\ p.type \notin {"header", "image"}
      BY <1>6, BoxPackets DEF BoxStatus, BoxParams, BoxTrigger, BoxTransferTimeout, BoxOther
    <2>3. PICK p \in BoxPacket : BoxSends(p) /\ p.type \notin {"header", "image"}
      BY <2>2
    <2>4. UNCHANGED pending
      BY <2>3 DEF BoxSends, locals
    <2>5. QED
      BY <2>1, <2>3, <2>4, StrikeSent
  <1>7. CASE Environment
    <2>1. UNCHANGED struck
      BY <1>7 DEF Environment, boxVars
    <2>2. CASE Issue \/ HangUp \/ Returned
      BY <1>1, <2>1, <2>2 DEF Issue, HangUp, Returned, driverVars, locals, wire
    <2>3. CASE CutLink
      <3>1. fromBox' \in {fromBox, <<>>} /\ link' = "cut" /\ UNCHANGED pending
        BY <2>3 DEF CutLink, locals
      <3>2. CASE fromBox' = fromBox
        BY <3>1, <3>2 DEF StrikeInv, ImagesOfOneStrike
      <3>3. CASE fromBox' = <<>>
        <4>1. DOMAIN fromBox' = {}
          BY <3>3
        <4>2. QED
          BY <3>1, <4>1 DEF StrikeInv, OneStrikeEach, StartsWith, ImagesOfOneStrike
      <3>4. QED
        BY <3>1, <3>2, <3>3
    <2>4. QED
      BY <1>7, <2>2, <2>3 DEF Environment
  <1>8. CASE DriverStep
    <2>1. UNCHANGED struck
      BY <1>8 DEF DriverStep, boxVars
    <2>2. CASE ConnectFails \/ Retry \/ Arm \/ Disarm \/ SetHandedness \/ SetShotMode
                \/ SetChipViaPutting \/ FireShot
      <3>1. UNCHANGED <<pending, fromBox, link>>
        BY <2>2 DEF ConnectFails, Retry, Arm, Disarm, SetHandedness, SetShotMode,
                    SetChipViaPutting, FireShot, locals, wire
      <3>2. QED
        BY <1>1, <2>1, <3>1
    <2>3. CASE Stop \/ CommandSendFails \/ ReplySendFails \/ LinkLost
      <3>1. fromBox' = <<>> /\ pending' = NoShot
        BY <2>3 DEF Stop, CommandSendFails, ReplySendFails, LinkLost, CloseLink, FreshLocals
      <3>2. QED
        BY <3>1, NothingLeftNext
    <2>4. CASE FirstStatus \/ Status \/ Params \/ OtherPacket
      <3>1. /\ fromBox # <<>> /\ fromBox' = Tail(fromBox) /\ UNCHANGED <<pending, link>>
            /\ Head(fromBox).type # "header"
        BY <2>4 DEF FirstStatus, Status, Params, OtherPacket, Receive, locals
      <3>2. QED
        BY <2>1, <3>1, StrikeTaken
    <2>5. CASE ShotHeader
      <3>1. /\ fromBox # <<>> /\ fromBox' = Tail(fromBox) /\ UNCHANGED link
            /\ Head(fromBox).type = "header"
        BY <2>5 DEF ShotHeader, Receive
      <3>2. pending' = NoShot \/ pending'.images = <<>>
        BY <2>5 DEF ShotHeader
      <3>3. QED
        BY <2>1, <3>1, <3>2, StrikeTaken
    <2>6. CASE ShotImage
      <3>1. /\ fromBox # <<>> /\ fromBox' = Tail(fromBox) /\ UNCHANGED link
            /\ Head(fromBox).type = "image"
        BY <2>6 DEF ShotImage, Receive
      <3>2. \/ pending' = NoShot
            \/ pending' = [pending EXCEPT !.images = Append(@, Head(fromBox).of)]
               /\ pending # NoShot
        BY <2>6 DEF ShotImage, FinalizeShot
      <3>3. Head(fromBox).of \in 1..MaxShots
        <4>1. Head(fromBox) \in BoxPacket
          BY <3>1 DEF TypeOK, WireTypeOK
        <4>2. QED
          BY <3>1, <4>1 DEF BoxPacket, StatusPacket, HeaderPacket, PlainPacket, ImagePacket
      <3>4. \/ pending' = NoShot
            \/ pending'.images = Append(pending.images, Head(fromBox).of)
        <4> DEFINE new == Append(pending.images, Head(fromBox).of)
        <4>1. pending # NoShot => pending \in PendingShot
          BY DEF TypeOK, LocalsTypeOK
        <4>2. \/ pending' = NoShot
              \/ pending' = [pending EXCEPT !.images = new] /\ pending \in PendingShot
          BY <3>2, <4>1
        <4> HIDE DEF new
        <4>3. pending' = NoShot \/ pending'.images = new
          BY <4>2 DEF PendingShot
        <4>4. QED
          BY <4>3 DEF new
      <3>5. QED
        BY <2>1, <3>1, <3>3, <3>4, StrikeTaken
    <2>7. CASE Trigger
      <3>1. /\ fromBox # <<>> /\ fromBox' = Tail(fromBox) /\ UNCHANGED link
            /\ Head(fromBox).type = "trigger"
        BY <2>7 DEF Trigger, Receive
      <3>2. pending' = NoShot \/ pending' = pending
        BY <2>7 DEF Trigger, FinalizeShot
      <3>3. QED
        BY <2>1, <3>1, <3>2, StrikeTaken
    <2>8. QED
      BY <1>8, <2>2, <2>3, <2>4, <2>5, <2>6, <2>7 DEF DriverStep, HandleCommand, HandlePacket
  <1>9. QED
    BY <1>2, <1>3, <1>4, <1>5, <1>6, <1>7, <1>8 DEF SessionNext, Box

\* The images of a shot are all of one strike, whatever transfer times out and whenever
\* the link breaks.
THEOREM ImagesAreOfOneStrike == SessionSpec => []ImagesOfOneStrike
  <1>1. SessionInit => StrikeInv
    BY NothingLeft DEF SessionInit, Init
  <1>2. StrikeInv => ImagesOfOneStrike
    BY DEF StrikeInv
  <1>3. QED
    BY <1>1, <1>2, StrikeStep, SessionInvariant, PTL DEF SessionSpec

-----------------------------------------------------------------------------
(* The images of a shot: what is on the wire is a course the box can have run since the
   last packet taken, and what it still owes after the header is what is awaited. *)

Owed == [left : 0..MaxImages, trigger : BOOLEAN]

\* A box that owes a sends p and then owes b.
Owing(a, p, b) ==
    /\ p.type = "header" => b = [left |-> p.images, trigger |-> p.trigger]
    /\ p.type = "image" => a.left > 0 /\ b = [left |-> a.left - 1, trigger |-> a.trigger]
    /\ p.type = "trigger" => a = [left |-> 0, trigger |-> TRUE] /\ b = Idle
    /\ p.type = "status" => b = a \/ b = Idle
    /\ p.type \in {"params", "other"} => b = a

\* What it owed before the packets f, and after each of them.
Course(g, f) ==
    /\ g \in [0..Len(f) -> Owed]
    /\ \A i \in 1..Len(f) : Owing(g[i - 1], f[i], g[i])

\* A shot that is pending waits for what the box owes, unless the box has given up.
Awaits(shot, a) ==
    shot # NoShot /\ a # Idle =>
        /\ shot.trigger = a.trigger
        /\ Len(shot.images) + a.left = shot.expected

WholeInv ==
    \E g \in [0..Len(fromBox) -> Owed] :
        /\ Course(g, fromBox)
        /\ Awaits(pending, g[0])
        /\ link = "up" => g[Len(fromBox)] = shooting

LEMMA IdleIsOwed == Idle \in Owed
  BY DriverAssumption DEF Idle, Owed, DriverAssumption

\* The box sends one more packet.
LEMMA CourseSent ==
    ASSUME NEW T, NEW f \in Seq(T), NEW p \in T, NEW g, Course(g, f),
           NEW b \in Owed, Owing(g[Len(f)], p, b)
    PROVE  \E h \in [0..Len(Append(f, p)) -> Owed] :
              Course(h, Append(f, p)) /\ h[0] = g[0] /\ h[Len(Append(f, p))] = b
  <1> DEFINE n == Len(f)
             e == Append(f, p)
             h == [i \in 0..(n + 1) |-> IF i = n + 1 THEN b ELSE g[i]]
  <1>1. /\ n \in Nat /\ Len(e) = n + 1 /\ e[n + 1] = p
        /\ \A i \in 1..n : e[i] = f[i]
    BY AppendFacts
  <1>2. g \in [0..n -> Owed] /\ \A i \in 1..n : Owing(g[i - 1], f[i], g[i])
    BY DEF Course
  <1>3. \A i \in 0..(n + 1) : i = n + 1 \/ i \in 0..n
    BY <1>1
  <1>4. h \in [0..(n + 1) -> Owed]
    BY <1>2, <1>3
  <1>5. ASSUME NEW i \in 1..(n + 1) PROVE Owing(h[i - 1], e[i], h[i])
    <2>1. i \in Int /\ i - 1 \in 0..(n + 1) /\ i - 1 # n + 1 /\ i \in 0..(n + 1)
      BY <1>1
    <2>2. h[i - 1] = g[i - 1]
      BY <2>1
    <2>3. CASE i = n + 1
      <3>1. i - 1 = n /\ h[i] = b /\ e[i] = p
        BY <1>1, <2>1, <2>3
      <3> QED
        BY <2>2, <3>1
    <2>4. CASE i # n + 1
      <3>1. i \in 1..n /\ h[i] = g[i] /\ e[i] = f[i]
        BY <1>1, <2>1, <2>4
      <3> QED
        BY <1>2, <2>2, <3>1
    <2> QED
      BY <2>3, <2>4
  <1>6. h[0] = g[0] /\ h[n + 1] = b
    BY <1>1
  <1> HIDE DEF h
  <1> QED
    BY <1>1, <1>4, <1>5, <1>6 DEF Course

\* The driver takes the first packet.
LEMMA CourseTaken ==
    ASSUME NEW T, NEW f \in Seq(T), f # <<>>, NEW g, Course(g, f)
    PROVE  /\ g[0] \in Owed /\ g[1] \in Owed /\ Owing(g[0], Head(f), g[1])
           /\ \E h \in [0..Len(Tail(f)) -> Owed] :
                 Course(h, Tail(f)) /\ h[0] = g[1] /\ h[Len(Tail(f))] = g[Len(f)]
  <1> DEFINE n == Len(f)
             e == Tail(f)
             h == [i \in 0..(n - 1) |-> g[i + 1]]
  <1>1. /\ n \in Nat /\ n >= 1 /\ Head(f) = f[1] /\ Len(e) = n - 1
        /\ \A i \in 1..(n - 1) : e[i] = f[i + 1]
    BY TailFacts
  <1>2. g \in [0..n -> Owed] /\ \A i \in 1..n : Owing(g[i - 1], f[i], g[i])
    BY DEF Course
  <1>3. h \in [0..(n - 1) -> Owed]
    <2>1. \A i \in 0..(n - 1) : i + 1 \in 0..n
      BY <1>1
    <2> QED
      BY <1>2, <2>1
  <1>4. ASSUME NEW i \in 1..(n - 1) PROVE Owing(h[i - 1], e[i], h[i])
    <2>1. /\ i - 1 \in 0..(n - 1) /\ i \in 0..(n - 1) /\ i + 1 \in 1..n
          /\ (i - 1) + 1 = i /\ (i + 1) - 1 = i
      BY <1>1
    <2>2. h[i - 1] = g[i] /\ h[i] = g[i + 1] /\ e[i] = f[i + 1]
      BY <1>1, <2>1
    <2> QED
      BY <1>2, <2>1, <2>2
  <1>5. h[0] = g[1] /\ h[n - 1] = g[n]
    BY <1>1
  <1>6. g[0] \in Owed /\ g[1] \in Owed /\ Owing(g[0], f[1], g[1])
    <2>1. 0 \in 0..n /\ 1 \in 0..n /\ 1 \in 1..n /\ 1 - 1 = 0
      BY <1>1
    <2> QED
      BY <1>2, <2>1
  <1> HIDE DEF h
  <1> QED
    BY <1>1, <1>3, <1>4, <1>5, <1>6 DEF Course

\* Nothing is on the wire: the course is what the box owes now.
LEMMA NothingSent ==
    ASSUME NEW a \in Owed
    PROVE  \E h \in [0..Len(<<>>) -> Owed] :
              Course(h, <<>>) /\ h[0] = a /\ h[Len(<<>>)] = a
  <1> DEFINE h == [i \in 0..0 |-> a]
  <1>1. Len(<<>>) = 0 /\ h \in [0..0 -> Owed] /\ h[0] = a
    OBVIOUS
  <1> HIDE DEF h
  <1> QED
    BY <1>1 DEF Course

LEMMA WholeSent ==
    ASSUME TypeOK, WholeInv, NEW p \in BoxPacket, BoxSends(p),
           shooting' \in Owed, Owing(shooting, p, shooting')
    PROVE  WholeInv'
  <1>1. /\ fromBox \in Seq(BoxPacket) /\ fromBox' = Append(fromBox, p)
        /\ link = "up" /\ pending' = pending
    BY DEF TypeOK, WireTypeOK, BoxSends, locals
  <1>2. PICK g \in [0..Len(fromBox) -> Owed] :
            Course(g, fromBox) /\ Awaits(pending, g[0]) /\ g[Len(fromBox)] = shooting
    BY <1>1 DEF WholeInv
  <1>3. PICK h \in [0..Len(fromBox') -> Owed] :
            Course(h, fromBox') /\ h[0] = g[0] /\ h[Len(fromBox')] = shooting'
    BY <1>1, <1>2, CourseSent
  <1> QED
    BY <1>1, <1>2, <1>3 DEF WholeInv

LEMMA WholeTaken ==
    ASSUME TypeOK, WholeInv, fromBox # <<>>, fromBox' = Tail(fromBox),
           UNCHANGED <<link, shooting>>,
           \A a, b \in Owed : Owing(a, Head(fromBox), b) /\ Awaits(pending, a) => Awaits(pending', b)
    PROVE  WholeInv'
  <1>1. fromBox \in Seq(BoxPacket)
    BY DEF TypeOK, WireTypeOK
  <1>2. PICK g \in [0..Len(fromBox) -> Owed] :
            /\ Course(g, fromBox) /\ Awaits(pending, g[0])
            /\ link = "up" => g[Len(fromBox)] = shooting
    BY DEF WholeInv
  <1>3. g[0] \in Owed /\ g[1] \in Owed /\ Owing(g[0], Head(fromBox), g[1])
    BY <1>1, <1>2, CourseTaken
  <1>4. PICK h \in [0..Len(fromBox') -> Owed] :
            Course(h, fromBox') /\ h[0] = g[1] /\ h[Len(fromBox')] = g[Len(fromBox)]
    BY <1>1, <1>2, CourseTaken
  <1>5. Awaits(pending', g[1])
    BY <1>2, <1>3
  <1> QED
    BY <1>2, <1>4, <1>5 DEF WholeInv

\* A link that is closed leaves nothing on the wire, nothing pending and nothing owed.
LEMMA WholeClosed ==
    ASSUME fromBox' = <<>>, pending' = NoShot, link' # "up" \/ shooting' = Idle
    PROVE  WholeInv'
  <1>1. PICK h \in [0..Len(<<>>) -> Owed] : Course(h, <<>>) /\ h[0] = Idle /\ h[Len(<<>>)] = Idle
    BY IdleIsOwed, NothingSent
  <1> QED
    BY <1>1 DEF WholeInv, Awaits

LEMMA WholeBox ==
    ASSUME TypeOK, BoxInv, WholeInv, Box
    PROVE  WholeInv'
  <1>0. /\ shooting \in Owed /\ shooting.left \in 0..MaxImages /\ shooting.trigger \in BOOLEAN
        /\ shooting = [left |-> shooting.left, trigger |-> shooting.trigger]
        /\ MaxImages \in Nat
    BY DriverAssumption DEF BoxInv, BoxTypeOK, Owed, DriverAssumption
  <1>1. CASE BoxTakes
    BY <1>1 DEF BoxTakes, BoxReads, locals, WholeInv
  <1>2. CASE BoxStrike
    <2>1. PICK n \in 1..MaxImages, t \in BOOLEAN :
            /\ BoxSends([type |-> "header", whole |-> TRUE, images |-> n, trigger |-> t])
            /\ shooting' = [left |-> n, trigger |-> t]
      BY <1>2 DEF BoxStrike
    <2> DEFINE p == [type |-> "header", whole |-> TRUE, images |-> n, trigger |-> t]
    <2>2. p \in BoxPacket /\ BoxSends(p)
      BY <2>1, BoxPackets
    <2>3. shooting' \in Owed
      <3>1. n \in 0..MaxImages
        BY <1>0
      <3> QED
        BY <2>1, <3>1 DEF Owed
    <2>4. Owing(shooting, p, shooting')
      BY <2>1 DEF Owing
    <2> HIDE DEF p
    <2> QED
      BY <2>2, <2>3, <2>4, WholeSent
  <1>3. CASE BoxImage
    <2> DEFINE p == [type |-> "image", of |-> struck]
    <2>1. shooting.left > 0 /\ p \in BoxPacket /\ BoxSends(p)
      BY <1>3, BoxPackets DEF BoxImage
    <2>2. shooting' = [left |-> shooting.left - 1, trigger |-> shooting.trigger]
      BY <1>0, <1>3 DEF BoxImage, BoxInv, BoxTypeOK
    <2>3. shooting' \in Owed
      BY <1>0, <2>1, <2>2 DEF Owed
    <2>4. Owing(shooting, p, shooting')
      BY <2>1, <2>2 DEF Owing
    <2> HIDE DEF p
    <2> QED
      BY <2>1, <2>3, <2>4, WholeSent
  <1>4. CASE BoxTrigger
    <2> DEFINE p == [type |-> "trigger"]
    <2>1. /\ p \in BoxPacket /\ BoxSends(p) /\ shooting' \in Owed
          /\ shooting = [left |-> 0, trigger |-> TRUE] /\ shooting' = Idle
      BY <1>4, BoxPackets, IdleIsOwed DEF BoxTrigger
    <2>2. Owing(shooting, p, shooting')
      BY <2>1 DEF Owing
    <2> HIDE DEF p
    <2> QED
      BY <2>1, <2>2, WholeSent
  <1>5. CASE BoxTransferTimeout
    <2> DEFINE p == [type |-> "status", code |-> -1, hand |-> boxSys.hand]
    <2>1. p \in BoxPacket /\ BoxSends(p) /\ shooting' \in Owed /\ shooting' = Idle
      BY <1>5, BoxPackets, IdleIsOwed DEF BoxTransferTimeout
    <2>2. Owing(shooting, p, shooting')
      BY <2>1 DEF Owing
    <2> HIDE DEF p
    <2> QED
      BY <2>1, <2>2, WholeSent
  <1>6. CASE BoxStatus \/ BoxParams \/ BoxOther
    <2>1. shooting' = shooting
      BY <1>6 DEF BoxStatus, BoxParams, BoxOther, boxVars
    <2>2. \E p \in BoxPacket : BoxSends(p) /\ p.type \in {"status", "params", "other"}
      BY <1>6, BoxPackets DEF BoxStatus, BoxParams, BoxOther
    <2>3. PICK p \in BoxPacket : BoxSends(p) /\ p.type \in {"status", "params", "other"}
      BY <2>2
    <2>4. Owing(shooting, p, shooting')
      BY <2>1, <2>3 DEF Owing
    <2> QED
      BY <1>0, <2>1, <2>3, <2>4, WholeSent
  <1> QED
    BY <1>1, <1>2, <1>3, <1>4, <1>5, <1>6 DEF Box

\* A packet handled on the way: what is pending goes on waiting for what is owed.
LEMMA WholePackets ==
    ASSUME TypeOK, BoxInv, WholeInv, UNCHANGED shooting,
           FirstStatus \/ Status \/ Params \/ OtherPacket \/ ShotHeader \/ ShotImage \/ Trigger
    PROVE  WholeInv'
  <1> DEFINE p == Head(fromBox)
  <1>1. /\ fromBox # <<>> /\ fromBox' = Tail(fromBox) /\ UNCHANGED link
    BY DEF FirstStatus, Status, Params, OtherPacket, ShotHeader, ShotImage, Trigger, Receive
  <1>2. SUFFICES ASSUME NEW a \in Owed, NEW b \in Owed, Owing(a, p, b), Awaits(pending, a),
                        pending' # NoShot, b # Idle
                 PROVE  /\ pending'.trigger = b.trigger
                        /\ Len(pending'.images) + b.left = pending'.expected
    BY <1>1, WholeTaken DEF Awaits
  <1>3. CASE FirstStatus \/ Status \/ Params \/ OtherPacket
    <2>1. p.type \in {"status", "params", "other"} /\ pending' = pending
      BY <1>3 DEF FirstStatus, Status, Params, OtherPacket, Receive, locals
    <2>2. b = a
      BY <1>2, <2>1 DEF Owing
    <2> QED
      BY <1>2, <2>1, <2>2 DEF Awaits
  <1>4. CASE ShotHeader
    <2>1. /\ p.type = "header"
          /\ pending' = [expected |-> p.images, trigger |-> p.trigger, images |-> <<>>]
      BY <1>2, <1>4 DEF ShotHeader, Receive
    <2>2. b = [left |-> p.images, trigger |-> p.trigger]
      BY <1>2, <2>1 DEF Owing
    <2>3. p.images \in Nat
      <3>1. p \in HeaderPacket
        BY <1>4, ReceivedHeader DEF ShotHeader, TypeOK
      <3> QED
        BY <3>1, DriverAssumption DEF HeaderPacket, DriverAssumption
    <2> HIDE DEF p
    <2> QED
      BY <2>1, <2>2, <2>3
  <1>5. CASE ShotImage
    <2>1. /\ p.type = "image" /\ pending # NoShot /\ p.of \in 1..MaxShots
          /\ pending' = [pending EXCEPT !.images = Append(@, p.of)]
      BY <1>2, <1>5, ReceivedImage DEF ShotImage, Receive, FinalizeShot, TypeOK
    <2>2. pending \in PendingShot
      BY <2>1 DEF TypeOK, LocalsTypeOK
    <2> DEFINE new == Append(pending.images, p.of)
    <2>3. /\ pending.images \in Seq(1..MaxShots) /\ Len(new) = Len(pending.images) + 1
          /\ Len(pending.images) \in Nat
      <3>1. pending.images \in Seq(1..MaxShots)
        BY <2>2 DEF PendingShot
      <3> QED
        BY <2>1, <3>1, AppendFacts
    <2>4. /\ pending'.images = new /\ pending'.trigger = pending.trigger
          /\ pending'.expected = pending.expected
      <3>1. pending' = [pending EXCEPT !.images = new]
        BY <2>1
      <3> HIDE DEF new
      <3> QED
        BY <2>2, <3>1 DEF PendingShot
    <2>5. a.left \in Nat /\ a.left > 0 /\ b = [left |-> a.left - 1, trigger |-> a.trigger]
      BY <1>2, <2>1, DriverAssumption DEF Owing, Owed, DriverAssumption
    <2>6. a # Idle
      BY <2>5 DEF Idle
    <2>7. /\ pending.trigger = a.trigger /\ Len(pending.images) + a.left = pending.expected
      BY <1>2, <2>1, <2>6 DEF Awaits
    <2> HIDE DEF new, p
    <2>8. b.left = a.left - 1 /\ b.trigger = a.trigger
      BY <2>5
    <2>9. pending'.trigger = b.trigger
      BY <2>4, <2>7, <2>8
    <2>10. Len(pending'.images) = Len(pending.images) + 1
      BY <2>3, <2>4
    <2>11. (Len(pending.images) + 1) + (a.left - 1) = pending.expected
      BY <2>3, <2>5, <2>7
    <2> QED
      BY <2>4, <2>8, <2>9, <2>10, <2>11
  <1>6. CASE Trigger
    <2>1. p.type = "trigger"
      BY <1>6 DEF Trigger, Receive
    <2>2. b = Idle
      BY <1>2, <2>1 DEF Owing
    <2> QED
      BY <1>2, <2>2
  <1> QED
    BY <1>3, <1>4, <1>5, <1>6

LEMMA WholeStep ==
    TypeOK /\ FreshWhenIdle /\ BoxInv /\ WholeInv /\ [SessionNext]_vars => WholeInv'
  <1> SUFFICES ASSUME TypeOK, FreshWhenIdle, BoxInv, WholeInv, [SessionNext]_vars
               PROVE  WholeInv'
    OBVIOUS
  <1>1. ASSUME UNCHANGED <<pending, fromBox, link, shooting>> PROVE WholeInv'
    BY <1>1 DEF WholeInv
  <1>2. CASE BoxAccepts
    <2>1. UNCHANGED <<fromBox, pending>> /\ phase = "connecting" /\ shooting' = Idle
      BY <1>2 DEF BoxAccepts, Connect, locals
    <2>2. fromBox' = <<>> /\ pending' = NoShot
      BY <2>1 DEF FreshWhenIdle
    <2> QED
      BY <2>1, <2>2, WholeClosed
  <1>3. CASE Box
    BY <1>3, WholeBox
  <1>4. CASE UNCHANGED vars
    BY <1>1, <1>4 DEF vars, boxVars, driverVars, locals, wire
  <1>5. CASE Environment
    <2>1. UNCHANGED shooting
      BY <1>5 DEF Environment, boxVars
    <2>2. CASE Issue \/ HangUp \/ Returned
      BY <1>1, <2>1, <2>2 DEF Issue, HangUp, Returned, driverVars, locals, wire
    <2>3. CASE CutLink
      <3>1. fromBox' \in {fromBox, <<>>} /\ link' = "cut" /\ UNCHANGED pending
        BY <2>3 DEF CutLink, locals
      <3>2. PICK g \in [0..Len(fromBox) -> Owed] :
                Course(g, fromBox) /\ Awaits(pending, g[0])
        BY DEF WholeInv
      <3>3. CASE fromBox' = fromBox
        BY <3>1, <3>2, <3>3 DEF WholeInv
      <3>4. CASE fromBox' = <<>>
        <4>1. g[0] \in Owed
          <5>1. Len(fromBox) \in Nat
            BY DEF TypeOK, WireTypeOK
          <5> QED
            BY <5>1
        <4>2. PICK h \in [0..Len(<<>>) -> Owed] : Course(h, <<>>) /\ h[0] = g[0]
          BY <4>1, NothingSent
        <4> QED
          BY <3>1, <3>2, <3>4, <4>2 DEF WholeInv
      <3> QED
        BY <3>1, <3>3, <3>4
    <2> QED
      BY <1>5, <2>2, <2>3 DEF Environment
  <1>6. CASE DriverStep
    <2>1. UNCHANGED shooting
      BY <1>6 DEF DriverStep, boxVars
    <2>2. CASE ConnectFails \/ Retry \/ Arm \/ Disarm \/ SetHandedness \/ SetShotMode
                \/ SetChipViaPutting \/ FireShot
      <3>1. UNCHANGED <<pending, fromBox, link>>
        BY <2>2 DEF ConnectFails, Retry, Arm, Disarm, SetHandedness, SetShotMode,
                    SetChipViaPutting, FireShot, locals, wire
      <3> QED
        BY <1>1, <2>1, <3>1
    <2>3. CASE Stop \/ CommandSendFails \/ ReplySendFails \/ LinkLost
      <3>1. fromBox' = <<>> /\ pending' = NoShot /\ link' = "none"
        BY <2>3 DEF Stop, CommandSendFails, ReplySendFails, LinkLost, CloseLink, FreshLocals
      <3> QED
        BY <3>1, WholeClosed
    <2>4. CASE FirstStatus \/ Status \/ Params \/ OtherPacket \/ ShotHeader \/ ShotImage
                \/ Trigger
      BY <2>1, <2>4, WholePackets
    <2> QED
      BY <1>6, <2>2, <2>3, <2>4 DEF DriverStep, HandleCommand, HandlePacket
  <1> QED
    BY <1>2, <1>3, <1>4, <1>5, <1>6 DEF SessionNext

\* An outcome answers a shot whose images are all there.
LEMMA OutcomeIsWhole ==
    ASSUME TypeOK, FreshWhenIdle, BoxInv, WholeInv, [SessionNext]_vars, Outcomes' > Outcomes
    PROVE  Len(pending.images) + (IF pending.trigger THEN 0 ELSE 1) = pending.expected
  <1>1. [Next]_driverVars
    BY StepOfDriver
  <1>2. tally.shots \in Nat /\ tally.misreads \in Nat
    BY DEF TypeOK, Tally
  <1>3. ~(tally'.shots = tally.shots /\ tally'.misreads = tally.misreads)
    BY <1>2 DEF Outcomes
  <1>4. ~ShotHeader
    <2>1. ASSUME ShotHeader PROVE tally'.shots = tally.shots /\ tally'.misreads = tally.misreads
      BY <2>1 DEF ShotHeader, TypeOK, Tally
    <2> QED
      BY <1>3, <2>1
  <1>5. ShotImage \/ Trigger
    <2>1. ASSUME ~ShotImage, ~Trigger PROVE tally' = tally
      BY <1>1, <1>4, <2>1, NoStrikeStep
    <2> QED
      BY <1>3, <2>1
  <1>6. tally' # tally
    BY <1>3
  <1>7. /\ fromBox # <<>> /\ pending # NoShot
        /\ \/ Head(fromBox).type = "image" /\ LastImage
           \/ Head(fromBox).type = "trigger"
    BY <1>5, <1>6 DEF ShotImage, Trigger, Receive, told
  <1>8. /\ pending.images \in Seq(1..MaxShots) /\ pending.expected \in Nat
        /\ pending.trigger \in BOOLEAN /\ Len(pending.images) \in Nat
    <2>1. pending \in PendingShot
      BY <1>7 DEF TypeOK, LocalsTypeOK
    <2>2. /\ pending.images \in Seq(1..MaxShots) /\ pending.expected \in 0..MaxImages
          /\ pending.trigger \in BOOLEAN
      BY <2>1 DEF PendingShot
    <2> QED
      BY <2>2, DriverAssumption DEF DriverAssumption
  <1>9. PICK a \in Owed, b \in Owed : Owing(a, Head(fromBox), b) /\ Awaits(pending, a)
    <2>1. fromBox \in Seq(BoxPacket)
      BY DEF TypeOK, WireTypeOK
    <2>2. PICK g \in [0..Len(fromBox) -> Owed] : Course(g, fromBox) /\ Awaits(pending, g[0])
      BY DEF WholeInv
    <2> QED
      BY <1>7, <2>1, <2>2, CourseTaken
  <1>10. a.left \in Nat
    BY DriverAssumption DEF Owed, DriverAssumption
  <1>11. CASE Head(fromBox).type = "image" /\ LastImage
    <2>1. a.left > 0 /\ a # Idle
      BY <1>9, <1>10, <1>11 DEF Owing, Idle
    <2>2. Len(pending.images) + a.left = pending.expected
      BY <1>7, <1>9, <2>1 DEF Awaits
    <2>3. ~pending.trigger /\ Len(pending.images) + 1 >= pending.expected
      BY <1>11 DEF LastImage
    <2> QED
      BY <1>8, <1>10, <2>1, <2>2, <2>3
  <1>12. CASE Head(fromBox).type = "trigger"
    <2>1. a = [left |-> 0, trigger |-> TRUE]
      BY <1>9, <1>12 DEF Owing
    <2>2. a # Idle /\ a.left = 0 /\ a.trigger = TRUE
      BY <2>1 DEF Idle
    <2>3. pending.trigger = a.trigger /\ Len(pending.images) + a.left = pending.expected
      BY <1>7, <1>9, <2>2 DEF Awaits
    <2> QED
      BY <1>8, <2>2, <2>3
  <1> QED
    BY <1>7, <1>11, <1>12

\* A shot is decoded with every image its header announced, whatever transfer times out,
\* whenever the link breaks and whether or not the key was known in time.
THEOREM ImagesAreAllThere == SessionSpec => ShotsAreWhole
  <1>1. SessionInit => WholeInv
    <2> SUFFICES ASSUME SessionInit PROVE WholeInv
      OBVIOUS
    <2>1. fromBox = <<>> /\ pending = NoShot /\ shooting = Idle
      BY DEF SessionInit, Init
    <2>2. PICK h \in [0..Len(<<>>) -> Owed] :
              Course(h, <<>>) /\ h[0] = Idle /\ h[Len(<<>>)] = Idle
      BY IdleIsOwed, NothingSent
    <2> QED
      BY <2>1, <2>2 DEF WholeInv, Awaits
  <1>2. TypeOK /\ FreshWhenIdle /\ BoxInv /\ WholeInv /\ [SessionNext]_vars
            => [Outcomes' > Outcomes =>
                  Len(pending.images) + (IF pending.trigger THEN 0 ELSE 1)
                    = pending.expected]_vars
    BY OutcomeIsWhole
  <1>3. QED
    BY <1>1, <1>2, WholeStep, SessionInvariant, PTL DEF SessionSpec, ShotsAreWhole
=============================================================================
