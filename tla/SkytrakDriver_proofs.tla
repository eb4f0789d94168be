------------------------ MODULE SkytrakDriver_proofs ------------------------
(* Proofs about SkytrakDriver, for every value of its constants. *)
EXTENDS SkytrakDriver, TLAPS

(* What the helpers preserve of the types. *)

LEMMA UnchangedTypeOK ==
    /\ SettingsTypeOK /\ UNCHANGED settings => SettingsTypeOK'
    /\ LocalsTypeOK /\ UNCHANGED locals => LocalsTypeOK'
    /\ ChannelTypeOK /\ UNCHANGED channel => ChannelTypeOK'
    /\ WireTypeOK /\ UNCHANGED wire => WireTypeOK'
  <1>1. SettingsTypeOK /\ UNCHANGED settings => SettingsTypeOK'
    BY DEF SettingsTypeOK, settings
  <1>2. LocalsTypeOK /\ UNCHANGED locals => LocalsTypeOK'
    <2> SUFFICES ASSUME LocalsTypeOK, UNCHANGED locals PROVE LocalsTypeOK'
      OBVIOUS
    <2>1. /\ firstStatus' = firstStatus /\ armed' = armed /\ lastStatus' = lastStatus
          /\ aesKey' = aesKey /\ shotSeq' = shotSeq /\ pending' = pending
      BY DEF locals
    <2>2. QED
      BY <2>1 DEF LocalsTypeOK
  <1>3. ChannelTypeOK /\ UNCHANGED channel => ChannelTypeOK'
    BY DEF ChannelTypeOK, channel
  <1>4. WireTypeOK /\ UNCHANGED wire => WireTypeOK'
    BY DEF WireTypeOK, wire
  <1>5. QED
    BY <1>1, <1>2, <1>3, <1>4

LEMMA Received ==
    ASSUME WireTypeOK, NEW type, Receive(type)
    PROVE  /\ Head(fromBox) \in BoxPacket
           /\ Head(fromBox).type = type
           /\ fromBox' \in Seq(BoxPacket)
  BY DEF WireTypeOK, Receive

LEMMA ReceivedStatus ==
    ASSUME WireTypeOK, Receive("status")
    PROVE  Head(fromBox) \in StatusPacket
  BY Received DEF BoxPacket, StatusPacket, HeaderPacket, ImagePacket, PlainPacket

LEMMA ReceivedHeader ==
    ASSUME WireTypeOK, Receive("header")
    PROVE  Head(fromBox) \in HeaderPacket
  BY Received DEF BoxPacket, StatusPacket, HeaderPacket, ImagePacket, PlainPacket

LEMMA ReceivedImage ==
    ASSUME WireTypeOK, Receive("image")
    PROVE  Head(fromBox).of \in 1..MaxShots
  BY Received DEF BoxPacket, StatusPacket, HeaderPacket, ImagePacket, PlainPacket

LEMMA HostPackets ==
    ASSUME SettingsTypeOK
    PROVE  /\ SysConfig \in HostPacket
           /\ CamConfig \in HostPacket
           /\ ArmPacket \in HostPacket
           /\ DisarmPacket \in HostPacket
  BY DEF SettingsTypeOK, HostPacket, SysConfig, CamConfig, ArmPacket, DisarmPacket,
         HwPuttingBit

LEMMA ConfigPackets ==
    ASSUME SettingsTypeOK'
    PROVE  SysConfig' \in HostPacket /\ CamConfig' \in HostPacket
  BY DEF SettingsTypeOK, HostPacket, SysConfig, CamConfig, HwPuttingBit

LEMMA SendTypeOK ==
    ASSUME WireTypeOK, NEW packets \in Seq(HostPacket), Send(packets)
    PROVE  toBox' \in Seq(HostPacket)
  BY DEF WireTypeOK, Send

LEMMA ReplyTypeOK ==
    ASSUME SettingsTypeOK, NEW code
    PROVE  Reply(code) \in Seq(HostPacket)
  <1>1. /\ <<SysConfig>> \in Seq(HostPacket)
        /\ <<CamConfig>> \in Seq(HostPacket)
        /\ <<ArmPacket>> \in Seq(HostPacket)
        /\ <<>> \in Seq(HostPacket)
    BY HostPackets
  <1>2. QED
    BY <1>1 DEF Reply

LEMMA CloseLinkTypeOK ==
    ASSUME CloseLink
    PROVE  LocalsTypeOK' /\ WireTypeOK'
  <1>1. lastStatus' \in -2..3 /\ shotSeq' \in Nat
    BY DEF CloseLink, FreshLocals, NoStatus
  <1>2. WireTypeOK'
    BY DEF CloseLink, WireTypeOK
  <1>3. QED
    BY <1>1, <1>2 DEF CloseLink, FreshLocals, LocalsTypeOK

LEMMA TallyTypeOK ==
    ASSUME NEW t \in Tally
    PROVE  /\ [t EXCEPT !.started = @ + 1] \in Tally
           /\ [t EXCEPT !.shots = @ + 1] \in Tally
           /\ [t EXCEPT !.misreads = @ + 1] \in Tally
  BY DEF Tally

LEMMA ViewTypeOK ==
    ASSUME NEW v \in View
    PROVE  /\ \A b \in BOOLEAN, h \in Handedness, m \in ShotMode :
                 [v EXCEPT !.armed = b, !.hand = h, !.mode = m] \in View
           /\ \A n \in Nat : [v EXCEPT !.shot = n] \in View
           /\ \A m \in ShotMode : [v EXCEPT !.mode = m] \in View
           /\ [v EXCEPT !.ready = FALSE] \in View
           /\ SawReady(v) \in View
           /\ SawDisconnected(v) \in View
  BY DEF View, SawReady, SawDisconnected

LEMMA SawStatusTypeOK ==
    ASSUME view \in View, mode \in ShotMode, NEW b \in BOOLEAN, NEW h \in Handedness
    PROVE  SawStatus(b, h) \in View
  BY ViewTypeOK DEF SawStatus

LEMMA TakeTypeOK ==
    ASSUME ChannelTypeOK, NEW c, Take(c)
    PROVE  ChannelTypeOK' /\ c \in Command
  BY DEF ChannelTypeOK, Take

\* The shot is finished, with however many images.
Finalizes == \E images : FinalizeShot(images)

LEMMA FinalizeTypeOK ==
    ASSUME LocalsTypeOK, view \in View, tally \in Tally, Finalizes
    PROVE  /\ pending' = NoShot /\ armed' = FALSE /\ shotSeq' \in Nat
           /\ view' \in View /\ tally' \in Tally
  <1>1. CASE /\ shotSeq' = shotSeq + 1
             /\ tally' = [tally EXCEPT !.shots = @ + 1]
             /\ view' = [view EXCEPT !.shot = shotSeq + 1]
    <2>1. shotSeq' \in Nat /\ shotSeq + 1 \in Nat
      BY <1>1 DEF LocalsTypeOK
    <2>2. view' \in View
      BY <1>1, <2>1 DEF View
    <2>3. QED
      BY <1>1, <2>1, <2>2, TallyTypeOK DEF Finalizes, FinalizeShot
  <1>2. CASE /\ tally' = [tally EXCEPT !.misreads = @ + 1]
             /\ UNCHANGED <<shotSeq, view>>
    <2>1. tally' \in Tally
      BY <1>2, TallyTypeOK
    <2>2. shotSeq' \in Nat /\ view' \in View
      BY <1>2 DEF LocalsTypeOK
    <2>3. QED
      BY <2>1, <2>2 DEF Finalizes, FinalizeShot
  <1>3. QED
    BY <1>1, <1>2 DEF Finalizes, FinalizeShot

LEMMA InitTypeOK == Init => TypeOK
  <1> SUFFICES ASSUME Init PROVE TypeOK
    OBVIOUS
  <1>1. view \in View
    BY DEF Init, View, Unknown
  <1>2. tally \in Tally
    BY DEF Init, Tally
  <1>3. SettingsTypeOK
    BY DriverAssumption DEF Init, SettingsTypeOK, ShotMode, DriverAssumption
  <1>4. LocalsTypeOK
    <2>1. /\ firstStatus = TRUE /\ armed = FALSE /\ aesKey = FALSE
          /\ lastStatus = -2 /\ shotSeq = 0 /\ pending = NoShot
      BY DEF Init, NoStatus
    <2>2. lastStatus \in -2..3 /\ shotSeq \in Nat
      BY <2>1
    <2>3. QED
      BY <2>1, <2>2 DEF LocalsTypeOK
  <1>5. ChannelTypeOK /\ WireTypeOK
    <2>1. /\ commands \in Seq(Command) /\ issued \in Nat
          /\ toBox \in Seq(HostPacket) /\ fromBox \in Seq(BoxPacket)
      BY DEF Init
    <2>2. QED
      BY <2>1 DEF Init, ChannelTypeOK, WireTypeOK
  <1>6. QED
    BY <1>1, <1>2, <1>3, <1>4, <1>5 DEF Init, TypeOK

-----------------------------------------------------------------------------
(* One lemma per action that changes more than one part of the state. *)

LEMMA ArmTypeOK == TypeOK /\ (Arm \/ Disarm) => TypeOK'
  <1> SUFFICES ASSUME TypeOK, Arm \/ Disarm PROVE TypeOK'
    OBVIOUS
  <1> USE DEF TypeOK
  <1>1. PICK c \in {"arm", "disarm"}, p \in {ArmPacket, DisarmPacket}, b \in BOOLEAN :
          /\ Take(c) /\ Send(<<p>>) /\ armed' = b /\ view' = SawStatus(b, hand)
          /\ UNCHANGED <<phase, settings, firstStatus, lastStatus, aesKey, shotSeq, pending,
                         link, fromBox, tally, faults>>
    BY DEF Arm, Disarm
  <1>2. <<p>> \in Seq(HostPacket)
    BY HostPackets
  <1>3. toBox' \in Seq(HostPacket)
    BY <1>1, <1>2, SendTypeOK
  <1>4. WireTypeOK'
    BY <1>1, <1>3 DEF WireTypeOK
  <1>5. view' \in View
    BY <1>1, SawStatusTypeOK DEF SettingsTypeOK
  <1>6. LocalsTypeOK'
    <2>1. /\ firstStatus' = firstStatus /\ armed' \in BOOLEAN /\ lastStatus' = lastStatus
          /\ aesKey' = aesKey /\ shotSeq' = shotSeq /\ pending' = pending
      BY <1>1
    <2>2. QED
      BY <2>1 DEF LocalsTypeOK
  <1>7. SettingsTypeOK' /\ ChannelTypeOK'
    BY <1>1, UnchangedTypeOK, TakeTypeOK
  <1>8. QED
    BY <1>1, <1>4, <1>5, <1>6, <1>7

LEMMA SetTypeOK ==
    ASSUME TypeOK, SettingsTypeOK', view' \in View,
           NEW c, Take(c), NEW packets \in Seq(HostPacket), Send(packets),
           UNCHANGED <<phase, locals, link, fromBox, tally, faults>>
    PROVE  TypeOK'
  <1> USE DEF TypeOK
  <1>1. toBox' \in Seq(HostPacket)
    BY SendTypeOK
  <1>2. WireTypeOK'
    BY <1>1 DEF WireTypeOK
  <1>3. LocalsTypeOK' /\ ChannelTypeOK'
    BY UnchangedTypeOK, TakeTypeOK
  <1>4. QED
    BY <1>2, <1>3

LEMMA SetHandednessTypeOK == TypeOK /\ SetHandedness => TypeOK'
  <1> SUFFICES ASSUME TypeOK, SetHandedness PROVE TypeOK'
    OBVIOUS
  <1>1. PICK h \in Handedness :
          /\ Take(h)
          /\ hand' = h /\ UNCHANGED <<mode, chipViaPutting>>
          /\ Send(<<SysConfig', CamConfig'>>)
          /\ UNCHANGED <<phase, locals, link, fromBox, told, faults>>
    BY DEF SetHandedness
  <1>2. SettingsTypeOK'
    BY <1>1 DEF TypeOK, SettingsTypeOK
  <1>3. <<SysConfig', CamConfig'>> \in Seq(HostPacket)
    BY <1>2, ConfigPackets
  <1>4. view' \in View /\ UNCHANGED tally
    BY <1>1 DEF TypeOK, told
  <1>5. QED
    BY <1>1, <1>2, <1>3, <1>4, SetTypeOK

LEMMA SetShotModeTypeOK == TypeOK /\ SetShotMode => TypeOK'
  <1> SUFFICES ASSUME TypeOK, SetShotMode PROVE TypeOK'
    OBVIOUS
  <1>1. PICK m \in ShotMode :
          /\ Take(m)
          /\ mode' = m /\ UNCHANGED <<hand, chipViaPutting>>
          /\ Send(<<SysConfig'>>)
          /\ view' = [SawStatus(armed, hand) EXCEPT !.mode = m]
          /\ UNCHANGED <<phase, locals, link, fromBox, tally, faults>>
    BY DEF SetShotMode
  <1>2. SettingsTypeOK'
    BY <1>1 DEF TypeOK, SettingsTypeOK
  <1>3. <<SysConfig'>> \in Seq(HostPacket)
    BY <1>2, ConfigPackets
  <1>4. SawStatus(armed, hand) \in View
    BY SawStatusTypeOK DEF TypeOK, SettingsTypeOK, LocalsTypeOK
  <1>5. view' \in View
    BY <1>1, <1>4, ViewTypeOK
  <1>6. QED
    BY <1>1, <1>2, <1>3, <1>5, SetTypeOK

LEMMA SetChipTypeOK == TypeOK /\ SetChipViaPutting => TypeOK'
  <1> SUFFICES ASSUME TypeOK, SetChipViaPutting PROVE TypeOK'
    OBVIOUS
  <1>1. PICK c \in {"chip_via_putting", "chip_via_normal"} :
          /\ Take(c)
          /\ chipViaPutting' = (c = "chip_via_putting") /\ UNCHANGED <<hand, mode>>
          /\ Send(IF mode = "chipping" THEN <<SysConfig'>> ELSE <<>>)
          /\ UNCHANGED <<phase, locals, link, fromBox, told, faults>>
    BY DEF SetChipViaPutting
  <1>2. SettingsTypeOK'
    BY <1>1 DEF TypeOK, SettingsTypeOK
  <1>3. <<SysConfig'>> \in Seq(HostPacket) /\ <<>> \in Seq(HostPacket)
    BY <1>2, ConfigPackets
  <1>4. view' \in View /\ UNCHANGED tally
    BY <1>1 DEF TypeOK, told
  <1>5. QED
    BY <1>1, <1>2, <1>3, <1>4, SetTypeOK

LEMMA EndTypeOK ==
    TypeOK /\ (Stop \/ CommandSendFails \/ ReplySendFails \/ LinkLost) => TypeOK'
  <1> SUFFICES ASSUME TypeOK, Stop \/ CommandSendFails \/ ReplySendFails \/ LinkLost
               PROVE  TypeOK'
    OBVIOUS
  <1> USE DEF TypeOK
  <1>1. CloseLink /\ phase' \in {"backoff", "stopped"} /\ UNCHANGED <<tally, faults>>
    BY DEF Stop, CommandSendFails, ReplySendFails, LinkLost, told
  <1>2. LocalsTypeOK' /\ WireTypeOK'
    BY <1>1, CloseLinkTypeOK
  <1>3. ChannelTypeOK'
    BY TakeTypeOK, UnchangedTypeOK
       DEF Stop, CommandSendFails, ReplySendFails, LinkLost
  <1>4. SettingsTypeOK'
    <2>1. CASE CommandSendFails
      BY <2>1 DEF CommandSendFails, SettingsTypeOK
    <2>2. CASE Stop \/ ReplySendFails \/ LinkLost
      BY <2>2, UnchangedTypeOK DEF Stop, ReplySendFails, LinkLost
    <2>3. QED
      BY <2>1, <2>2
  <1>5. view' \in View
    <2>1. CASE Stop
      BY <2>1 DEF Stop, told
    <2>2. CASE CommandSendFails \/ LinkLost
      BY <2>2, ViewTypeOK DEF CommandSendFails, LinkLost
    <2>3. CASE ReplySendFails
      <3>1. CASE /\ Head(fromBox).type = "status"
                 /\ view' = SawDisconnected(SawStatus(armed, Head(fromBox).hand))
        <4>1. fromBox # <<>> /\ Head(fromBox) \in BoxPacket
          BY <2>3 DEF ReplySendFails, WireTypeOK
        <4>2. Head(fromBox).hand \in Handedness
          BY <3>1, <4>1 DEF BoxPacket, StatusPacket, HeaderPacket, ImagePacket, PlainPacket
        <4>3. SawStatus(armed, Head(fromBox).hand) \in View
          BY <4>2, SawStatusTypeOK DEF SettingsTypeOK, LocalsTypeOK
        <4>4. QED
          BY <3>1, <4>3, ViewTypeOK
      <3>2. CASE view' = SawDisconnected(view)
        BY <3>2, ViewTypeOK
      <3>3. QED
        BY <2>3, <3>1, <3>2 DEF ReplySendFails
    <2>4. QED
      BY <2>1, <2>2, <2>3
  <1>6. QED
    BY <1>1, <1>2, <1>3, <1>4, <1>5

LEMMA AnswerTypeOK ==
    ASSUME TypeOK, NEW type, Receive(type), NEW packets \in Seq(HostPacket), Send(packets),
           UNCHANGED link
    PROVE  WireTypeOK'
  <1>1. toBox' \in Seq(HostPacket)
    BY SendTypeOK DEF TypeOK
  <1>2. fromBox' \in Seq(BoxPacket)
    BY Received DEF TypeOK
  <1>3. QED
    BY <1>1, <1>2 DEF TypeOK, WireTypeOK

LEMMA ListenTypeOK ==
    ASSUME TypeOK, NEW type, Receive(type), UNCHANGED <<link, toBox>>
    PROVE  WireTypeOK'
  <1>1. fromBox' \in Seq(BoxPacket)
    BY Received DEF TypeOK
  <1>2. QED
    BY <1>1 DEF TypeOK, WireTypeOK

LEMMA SeenTypeOK ==
    ASSUME TypeOK, Receive("status")
    PROVE  /\ Head(fromBox).code \in -2..3
           /\ SawStatus(armed, Head(fromBox).hand) \in View
  <1>1. Head(fromBox) \in StatusPacket
    BY ReceivedStatus DEF TypeOK
  <1>2. Head(fromBox).code \in -1..3 /\ Head(fromBox).hand \in Handedness
    BY <1>1 DEF StatusPacket
  <1>3. Head(fromBox).code \in -2..3
    BY <1>2
  <1>4. SawStatus(armed, Head(fromBox).hand) \in View
    BY <1>2, SawStatusTypeOK DEF TypeOK, SettingsTypeOK, LocalsTypeOK
  <1>5. QED
    BY <1>3, <1>4

LEMMA StatusTypeOK == TypeOK /\ (FirstStatus \/ Status) => TypeOK'
  <1> SUFFICES ASSUME TypeOK, FirstStatus \/ Status PROVE TypeOK'
    OBVIOUS
  <1>1. Receive("status")
    BY DEF FirstStatus, Status
  <1>2. /\ UNCHANGED <<phase, settings, aesKey, shotSeq, pending, channel, link, tally, faults>>
        /\ firstStatus' \in {FALSE, firstStatus} /\ lastStatus' = Head(fromBox).code
    BY DEF FirstStatus, Status
  <1>3. WireTypeOK'
    <2>1. CASE FirstStatus
      <3>1. <<DisarmPacket, SysConfig>> \in Seq(HostPacket)
        BY HostPackets DEF TypeOK
      <3>2. Send(<<DisarmPacket, SysConfig>>)
        BY <2>1 DEF FirstStatus
      <3>3. QED
        BY <1>1, <1>2, <3>1, <3>2, AnswerTypeOK
    <2>2. CASE Status
      <3>1. Reply(Head(fromBox).code) \in Seq(HostPacket)
        BY ReplyTypeOK DEF TypeOK
      <3>2. Send(Reply(Head(fromBox).code))
        BY <2>2 DEF Status
      <3>3. QED
        BY <1>1, <1>2, <3>1, <3>2, AnswerTypeOK
    <2>3. QED
      BY <2>1, <2>2
  <1>4. armed' \in BOOLEAN
    BY DEF FirstStatus, Status, TypeOK, LocalsTypeOK
  <1>5. LocalsTypeOK'
    <2>1. aesKey' = aesKey /\ shotSeq' = shotSeq /\ pending' = pending
      BY <1>2
    <2>2. lastStatus' \in -2..3
      BY <1>1, <1>2, SeenTypeOK
    <2>3. firstStatus' \in BOOLEAN
      BY <1>2 DEF TypeOK, LocalsTypeOK
    <2>4. QED
      BY <1>4, <2>1, <2>2, <2>3 DEF TypeOK, LocalsTypeOK
  <1>6. view' \in View
    <2> DEFINE seen == SawStatus(armed, Head(fromBox).hand)
    <2>1. seen \in View /\ SawReady(seen) \in View
      BY <1>1, SeenTypeOK, ViewTypeOK
    <2>2. view' \in {seen, SawReady(seen)}
      BY DEF FirstStatus, Status
    <2>3. QED
      BY <2>1, <2>2
  <1>7. SettingsTypeOK' /\ ChannelTypeOK'
    BY <1>2, UnchangedTypeOK DEF TypeOK
  <1>8. QED
    BY <1>2, <1>3, <1>5, <1>6, <1>7 DEF TypeOK

LEMMA ParamsTypeOK == TypeOK /\ Params => TypeOK'
  <1> SUFFICES ASSUME TypeOK, Params PROVE TypeOK'
    OBVIOUS
  <1>1. <<SysConfig, CamConfig>> \in Seq(HostPacket)
    BY HostPackets DEF TypeOK
  <1>2. WireTypeOK'
    BY <1>1, AnswerTypeOK DEF Params
  <1>3. LocalsTypeOK'
    <2>1. /\ firstStatus' = firstStatus /\ armed' = armed /\ lastStatus' = lastStatus
          /\ aesKey' \in {aesKey, TRUE} /\ shotSeq' = shotSeq /\ pending' = pending
      BY DEF Params
    <2>2. QED
      BY <2>1 DEF TypeOK, LocalsTypeOK
  <1>4. SettingsTypeOK' /\ ChannelTypeOK'
    BY UnchangedTypeOK DEF Params, TypeOK
  <1>5. UNCHANGED <<phase, view, tally, faults>>
    BY DEF Params, told
  <1>6. QED
    BY <1>2, <1>3, <1>4, <1>5 DEF TypeOK

LEMMA ShotHeaderTypeOK == TypeOK /\ ShotHeader => TypeOK'
  <1> SUFFICES ASSUME TypeOK, ShotHeader PROVE TypeOK'
    OBVIOUS
  <1>1. Receive("header") /\ WireTypeOK'
    BY ListenTypeOK DEF ShotHeader
  <1>2. pending' \in PendingShot \cup {NoShot}
    <2> DEFINE opened == [expected |-> Head(fromBox).images,
                          trigger |-> Head(fromBox).trigger, images |-> <<>>]
    <2>1. Head(fromBox) \in HeaderPacket
      BY <1>1, ReceivedHeader DEF TypeOK
    <2>2. /\ Head(fromBox).images \in 0..MaxImages
          /\ Head(fromBox).trigger \in BOOLEAN
      BY <2>1 DEF HeaderPacket
    <2>3. <<>> \in Seq(1..MaxShots)
      OBVIOUS
    <2>4. opened \in PendingShot
      BY <2>2, <2>3 DEF PendingShot
    <2>5. pending' \in {opened, NoShot}
      BY DEF ShotHeader
    <2>6. QED
      BY <2>4, <2>5
  <1>3. LocalsTypeOK'
    <2>1. /\ firstStatus' = firstStatus /\ armed' = armed /\ lastStatus' = lastStatus
          /\ aesKey' = aesKey /\ shotSeq' = shotSeq
      BY DEF ShotHeader
    <2>2. QED
      BY <1>2, <2>1 DEF TypeOK, LocalsTypeOK
  <1>4. tally' \in Tally
    BY TallyTypeOK DEF ShotHeader, TypeOK
  <1>5. view' \in View
    BY ViewTypeOK DEF ShotHeader, TypeOK
  <1>6. SettingsTypeOK' /\ ChannelTypeOK'
    BY UnchangedTypeOK DEF ShotHeader, TypeOK
  <1>7. UNCHANGED <<phase, faults>>
    BY DEF ShotHeader
  <1>8. QED
    BY <1>1, <1>3, <1>4, <1>5, <1>6, <1>7 DEF TypeOK

LEMMA CollectTypeOK ==
    ASSUME TypeOK, Receive("image"), pending # NoShot,
           pending' = [pending EXCEPT !.images = Append(@, Head(fromBox).of)]
    PROVE  pending' \in PendingShot \cup {NoShot}
  <1>1. Head(fromBox).of \in 1..MaxShots
    BY ReceivedImage DEF TypeOK
  <1>2. pending \in PendingShot
    BY DEF TypeOK, LocalsTypeOK
  <1>3. pending.images \in Seq(1..MaxShots)
    BY <1>2 DEF PendingShot
  <1>4. Append(pending.images, Head(fromBox).of) \in Seq(1..MaxShots)
    BY <1>1, <1>3
  <1>5. QED
    BY <1>2, <1>4 DEF PendingShot

\* Image and trigger packets: the strike is answered, or else nothing but pending changes.
LEMMA AnsweredOrNot ==
    ASSUME ShotImage \/ Trigger
    PROVE  /\ \/ Finalizes /\ pending # NoShot
              \/ /\ pending # NoShot /\ Receive("image") /\ ~LastImage
                 /\ pending' = [pending EXCEPT !.images = Append(@, Head(fromBox).of)]
                 /\ UNCHANGED <<armed, shotSeq, told>>
              \/ UNCHANGED <<pending, armed, shotSeq, told>>
           /\ Receive("image") \/ Receive("trigger")
           /\ UNCHANGED <<phase, settings, firstStatus, lastStatus, aesKey, channel, link, toBox,
                          faults>>
  <1>1. CASE ShotImage
    <2>1. CASE pending # NoShot /\ LastImage
      <3>1. FinalizeShot(Len(pending.images) + 1)
        BY <1>1, <2>1 DEF ShotImage
      <3>2. QED
        BY <1>1, <2>1, <3>1 DEF ShotImage, Finalizes
    <2>2. CASE ~(pending # NoShot /\ LastImage)
      BY <1>1, <2>2 DEF ShotImage
    <2>3. QED
      BY <2>1, <2>2
  <1>2. CASE Trigger
    <2>1. CASE pending # NoShot
      <3>1. FinalizeShot(Len(pending.images))
        BY <1>2, <2>1 DEF Trigger
      <3>2. QED
        BY <1>2, <2>1, <3>1 DEF Trigger, Finalizes
    <2>2. CASE pending = NoShot
      BY <1>2, <2>2 DEF Trigger
    <2>3. QED
      BY <2>1, <2>2
  <1>3. QED
    BY <1>1, <1>2

LEMMA ShotDataTypeOK == TypeOK /\ (ShotImage \/ Trigger) => TypeOK'
  <1> SUFFICES ASSUME TypeOK, ShotImage \/ Trigger PROVE TypeOK'
    OBVIOUS
  <1>1. /\ firstStatus' = firstStatus /\ lastStatus' = lastStatus /\ aesKey' = aesKey
        /\ UNCHANGED <<phase, settings, channel, link, toBox, faults>>
    BY AnsweredOrNot
  <1>2. /\ pending' \in PendingShot \cup {NoShot} /\ armed' \in BOOLEAN
        /\ shotSeq' \in Nat /\ view' \in View /\ tally' \in Tally
    <2>1. CASE Finalizes
      BY <2>1, FinalizeTypeOK DEF TypeOK
    <2>2. CASE /\ pending # NoShot /\ Receive("image")
               /\ pending' = [pending EXCEPT !.images = Append(@, Head(fromBox).of)]
               /\ UNCHANGED <<armed, shotSeq, told>>
      <3>1. pending' \in PendingShot \cup {NoShot}
        BY <2>2, CollectTypeOK
      <3>2. armed' = armed /\ shotSeq' = shotSeq /\ view' = view /\ tally' = tally
        BY <2>2 DEF told
      <3>3. QED
        BY <3>1, <3>2 DEF TypeOK, LocalsTypeOK
    <2>3. CASE UNCHANGED <<pending, armed, shotSeq, told>>
      <3>1. /\ pending' = pending /\ armed' = armed /\ shotSeq' = shotSeq
            /\ view' = view /\ tally' = tally
        BY <2>3 DEF told
      <3>2. QED
        BY <3>1 DEF TypeOK, LocalsTypeOK
    <2>4. QED
      BY <2>1, <2>2, <2>3, AnsweredOrNot
  <1>3. LocalsTypeOK'
    BY <1>1, <1>2 DEF TypeOK, LocalsTypeOK
  <1>4. WireTypeOK'
    BY <1>1, AnsweredOrNot, ListenTypeOK
  <1>5. SettingsTypeOK' /\ ChannelTypeOK'
    BY <1>1, UnchangedTypeOK DEF TypeOK
  <1>6. QED
    BY <1>1, <1>2, <1>3, <1>4, <1>5 DEF TypeOK

LEMMA IdleTypeOK ==
    TypeOK /\ (Connect \/ ConnectFails \/ Retry \/ FireShot \/ OtherPacket) => TypeOK'
  <1> SUFFICES ASSUME TypeOK, Connect \/ ConnectFails \/ Retry \/ FireShot \/ OtherPacket
               PROVE  TypeOK'
    OBVIOUS
  <1>1. /\ UNCHANGED <<settings, locals, tally>>
        /\ phase' \in {phase, "serving", "backoff", "connecting"}
        /\ faults' \in {faults, faults + 1}
    BY DEF Connect, ConnectFails, Retry, FireShot, OtherPacket, told
  <1>2. WireTypeOK'
    <2>1. CASE Connect
      BY <2>1 DEF Connect, TypeOK, WireTypeOK
    <2>2. CASE OtherPacket
      BY <2>2, ListenTypeOK DEF OtherPacket
    <2>3. CASE ConnectFails \/ Retry \/ FireShot
      BY <2>3, UnchangedTypeOK DEF ConnectFails, Retry, FireShot, TypeOK
    <2>4. QED
      BY <2>1, <2>2, <2>3
  <1>3. view' \in View
    <2>1. CASE ConnectFails
      BY <2>1, ViewTypeOK DEF ConnectFails, TypeOK
    <2>2. CASE Connect \/ Retry \/ FireShot \/ OtherPacket
      BY <2>2 DEF Connect, Retry, FireShot, OtherPacket, told, TypeOK
    <2>3. QED
      BY <2>1, <2>2
  <1>4. ChannelTypeOK'
    BY UnchangedTypeOK, TakeTypeOK
       DEF Connect, ConnectFails, Retry, FireShot, OtherPacket, TypeOK
  <1>5. SettingsTypeOK' /\ LocalsTypeOK'
    BY <1>1, UnchangedTypeOK DEF TypeOK
  <1>6. QED
    BY <1>1, <1>2, <1>3, <1>4, <1>5 DEF TypeOK

LEMMA DriverTypeOK == TypeOK /\ Driver => TypeOK'
  BY ArmTypeOK, SetHandednessTypeOK, SetShotModeTypeOK, SetChipTypeOK, EndTypeOK,
     StatusTypeOK, ParamsTypeOK, ShotHeaderTypeOK, ShotDataTypeOK, IdleTypeOK
     DEF Driver, HandleCommand, HandlePacket

LEMMA EnvironmentTypeOK ==
    TypeOK /\ (Issue \/ HangUp \/ CutLink \/ BoxReads \/ \E p \in BoxPacket : BoxSends(p))
        => TypeOK'
  <1> SUFFICES ASSUME TypeOK,
                      \/ Issue \/ HangUp \/ CutLink \/ BoxReads
                      \/ \E p \in BoxPacket : BoxSends(p)
               PROVE  TypeOK'
    OBVIOUS
  <1>1. /\ UNCHANGED <<phase, settings, locals, view, tally>>
        /\ faults' \in {faults, faults + 1}
    BY DEF Issue, HangUp, CutLink, BoxReads, BoxSends, told
  <1>2. ChannelTypeOK'
    <2>1. CASE Issue
      BY <2>1, DriverAssumption DEF Issue, TypeOK, ChannelTypeOK, DriverAssumption
    <2>2. CASE HangUp
      BY <2>2 DEF HangUp, TypeOK, ChannelTypeOK
    <2>3. CASE UNCHANGED channel
      BY <2>3, UnchangedTypeOK DEF TypeOK
    <2>4. QED
      BY <2>1, <2>2, <2>3 DEF CutLink, BoxReads, BoxSends
  <1>3. WireTypeOK'
    <2>1. CASE CutLink
      <3>1. <<>> \in Seq(BoxPacket) /\ <<>> \in Seq(HostPacket)
        OBVIOUS
      <3>2. link' = "cut" /\ toBox' = <<>> /\ fromBox' \in {fromBox, <<>>}
        BY <2>1 DEF CutLink
      <3>3. QED
        BY <3>1, <3>2 DEF TypeOK, WireTypeOK
    <2>2. CASE BoxReads
      BY <2>2 DEF BoxReads, TypeOK, WireTypeOK
    <2>3. ASSUME NEW p \in BoxPacket, BoxSends(p) PROVE WireTypeOK'
      BY <2>3 DEF BoxSends, TypeOK, WireTypeOK
    <2>4. CASE UNCHANGED wire
      BY <2>4, UnchangedTypeOK DEF TypeOK
    <2>5. QED
      BY <2>1, <2>2, <2>3, <2>4 DEF Issue, HangUp
  <1>4. SettingsTypeOK' /\ LocalsTypeOK'
    BY <1>1, UnchangedTypeOK DEF TypeOK
  <1>5. QED
    BY <1>1, <1>2, <1>3, <1>4 DEF TypeOK

LEMMA StutterTypeOK == TypeOK /\ UNCHANGED driverVars => TypeOK'
  <1> SUFFICES ASSUME TypeOK, UNCHANGED driverVars PROVE TypeOK'
    OBVIOUS
  <1>1. UNCHANGED <<phase, settings, locals, channel, wire, view, tally, faults>>
    BY DEF driverVars, told
  <1>2. SettingsTypeOK' /\ LocalsTypeOK' /\ ChannelTypeOK' /\ WireTypeOK'
    BY <1>1, UnchangedTypeOK DEF TypeOK
  <1>3. QED
    BY <1>1, <1>2 DEF TypeOK

\* Every step of the driver and of an arbitrary box keeps the types, whatever the
\* capacities of the channel and the link and whatever the box sends.
THEOREM TypeCorrect == Spec => []TypeOK
  <1>1. Init => TypeOK
    BY InitTypeOK
  <1>2. TypeOK /\ [Next]_driverVars => TypeOK'
    BY DriverTypeOK, EnvironmentTypeOK, StutterTypeOK DEF Next, Returned
  <1>3. QED
    BY <1>1, <1>2, PTL DEF Spec

-----------------------------------------------------------------------------
(* A connection starts with nothing left of the one before. *)

LEMMA Closed ==
    ASSUME CloseLink, phase' # "serving"
    PROVE  FreshWhenIdle'
  BY DEF CloseLink, FreshLocals, FreshWhenIdle

\* What every step of a connection does to its phase and its link.
LEMMA WhileServing ==
    ASSUME \/ Arm \/ Disarm \/ SetHandedness \/ SetShotMode \/ SetChipViaPutting \/ FireShot
           \/ FirstStatus \/ Status \/ Params \/ ShotHeader \/ ShotImage \/ Trigger
           \/ OtherPacket
    PROVE  phase = "serving" /\ phase' = phase /\ link' = link
  BY DEF Arm, Disarm, SetHandedness, SetShotMode, SetChipViaPutting, FireShot, FirstStatus,
         Status, Params, ShotHeader, ShotImage, Trigger, OtherPacket, Take, Receive, wire

LEMMA FreshStep == FreshWhenIdle /\ [Next]_driverVars => FreshWhenIdle'
  <1> SUFFICES ASSUME FreshWhenIdle, [Next]_driverVars PROVE FreshWhenIdle'
    OBVIOUS
  <1>1. CASE \/ Arm \/ Disarm \/ SetHandedness \/ SetShotMode \/ SetChipViaPutting \/ FireShot
             \/ FirstStatus \/ Status \/ Params \/ ShotHeader \/ ShotImage \/ Trigger
             \/ OtherPacket
    BY <1>1, WhileServing DEF FreshWhenIdle
  <1>2. CASE Stop \/ CommandSendFails \/ ReplySendFails \/ LinkLost
    BY <1>2, Closed DEF Stop, CommandSendFails, ReplySendFails, LinkLost
  <1>3. CASE Connect
    BY <1>3 DEF Connect, FreshWhenIdle
  <1>4. CASE ConnectFails \/ Retry
    BY <1>4 DEF ConnectFails, Retry, FreshWhenIdle, locals, wire
  <1>5. CASE Issue \/ HangUp
    BY <1>5 DEF Issue, HangUp, FreshWhenIdle, locals, wire
  <1>6. CASE CutLink
    BY <1>6 DEF CutLink, FreshWhenIdle, locals
  <1>7. CASE BoxReads
    BY <1>7 DEF BoxReads, FreshWhenIdle, locals
  <1>8. ASSUME NEW p \in BoxPacket, BoxSends(p) PROVE FreshWhenIdle'
    BY <1>8 DEF BoxSends, FreshWhenIdle, locals
  <1>9. CASE UNCHANGED driverVars
    BY <1>9 DEF driverVars, FreshWhenIdle, locals, wire
  <1>10. QED
    BY <1>1, <1>2, <1>3, <1>4, <1>5, <1>6, <1>7, <1>8, <1>9
       DEF Next, Driver, HandleCommand, HandlePacket, Returned

LEMMA Fresh == Spec => []FreshWhenIdle
  <1>1. Init => FreshWhenIdle
    BY DEF Init, FreshWhenIdle
  <1>2. QED
    BY <1>1, FreshStep, PTL DEF Spec

-----------------------------------------------------------------------------
(* Strikes and their outcomes. *)

\* The steps that leave what is told about strikes, and the shot pending, alone.
LEMMA NoStrikeStep ==
    ASSUME [Next]_driverVars, ~ShotHeader, ~ShotImage, ~Trigger
    PROVE  /\ UNCHANGED tally
           /\ pending' \in {pending, NoShot}
           /\ pending' = pending => UNCHANGED aesKey \/ Params \/ CloseLink
  <1>1. CASE HandleCommand
    BY <1>1 DEF HandleCommand, Arm, Disarm, SetHandedness, SetShotMode, SetChipViaPutting,
                FireShot, Stop, CommandSendFails, CloseLink, FreshLocals, locals, told
  <1>2. CASE HandlePacket
    BY <1>2 DEF HandlePacket, FirstStatus, Status, Params, OtherPacket, ReplySendFails,
                LinkLost, CloseLink, FreshLocals, locals, told
  <1>3. CASE Connect \/ ConnectFails \/ Retry
    BY <1>3 DEF Connect, ConnectFails, Retry, locals, told
  <1>4. CASE Issue \/ HangUp \/ CutLink \/ BoxReads \/ \E p \in BoxPacket : BoxSends(p)
    BY <1>4 DEF Issue, HangUp, CutLink, BoxReads, BoxSends, locals, told
  <1>5. CASE UNCHANGED driverVars
    BY <1>5 DEF driverVars, locals, told
  <1>6. QED
    BY <1>1, <1>2, <1>3, <1>4, <1>5 DEF Next, Driver, Returned

LEMMA OutcomesStep ==
    TypeOK /\ OutcomesHaveStrikes /\ [Next]_driverVars => OutcomesHaveStrikes'
  <1> SUFFICES ASSUME TypeOK, OutcomesHaveStrikes, [Next]_driverVars
               PROVE  OutcomesHaveStrikes'
    OBVIOUS
  <1> USE DEF OutcomesHaveStrikes, Outcomes, OpenStrikes
  <1>1. tally.started \in Nat /\ tally.shots \in Nat /\ tally.misreads \in Nat
    BY DEF TypeOK, Tally
  <1>2. CASE ShotHeader
    <2>1. tally' = [tally EXCEPT !.started = @ + 1]
      BY <1>2 DEF ShotHeader
    <2>2. /\ tally'.started = tally.started + 1
          /\ tally'.shots = tally.shots /\ tally'.misreads = tally.misreads
      BY <2>1 DEF TypeOK, Tally
    <2>3. QED
      BY <1>1, <2>2
  <1>3. CASE ShotImage \/ Trigger
    <2>1. CASE Finalizes /\ pending # NoShot
      <3>1. \/ tally' = [tally EXCEPT !.shots = @ + 1]
            \/ tally' = [tally EXCEPT !.misreads = @ + 1]
        BY <2>1 DEF Finalizes, FinalizeShot
      <3>2. /\ tally'.started = tally.started
            /\ tally'.shots + tally'.misreads = tally.shots + tally.misreads + 1
        BY <1>1, <3>1 DEF TypeOK, Tally
      <3>3. pending' = NoShot
        BY <2>1 DEF Finalizes, FinalizeShot
      <3>4. QED
        BY <1>1, <2>1, <3>2, <3>3
    <2>2. CASE pending # NoShot /\ UNCHANGED told
      BY <1>1, <2>2 DEF told
    <2>3. CASE UNCHANGED <<pending, armed, shotSeq, told>>
      BY <2>3 DEF told
    <2>4. QED
      BY <1>3, <2>1, <2>2, <2>3, AnsweredOrNot
  <1>4. CASE ~ShotHeader /\ ~ShotImage /\ ~Trigger
    <2>1. tally' = tally /\ pending' \in {pending, NoShot}
      BY <1>4, NoStrikeStep
    <2>2. QED
      BY <1>1, <2>1
  <1>5. QED
    BY <1>2, <1>3, <1>4

\* No order of headers, images, trigger packets, lost links and commands makes the
\* driver answer a strike twice, whatever the box sends.
THEOREM StrikesAnsweredOnce == Spec => []OutcomesHaveStrikes
  <1>1. Init => OutcomesHaveStrikes
    <2> SUFFICES ASSUME Init PROVE OutcomesHaveStrikes
      OBVIOUS
    <2>1. tally = [started |-> 0, shots |-> 0, misreads |-> 0] /\ pending = NoShot
      BY DEF Init
    <2>2. QED
      BY <2>1 DEF OutcomesHaveStrikes, Outcomes, OpenStrikes
  <1>2. QED
    BY <1>1, OutcomesStep, TypeCorrect, PTL DEF Spec

LEMMA PendingStep ==
    TypeOK /\ PendingCanFinish /\ [Next]_driverVars => PendingCanFinish'
  <1> SUFFICES ASSUME TypeOK, PendingCanFinish, [Next]_driverVars, pending' # NoShot
               PROVE  /\ phase' = "serving" /\ aesKey'
                      /\ pending'.images # <<>> /\ ~pending'.trigger
                            => Len(pending'.images) < pending'.expected
    BY DEF PendingCanFinish
  <1>1. CASE ShotHeader
    <2>1. aesKey /\ pending' = [expected |-> Head(fromBox).images,
                                trigger |-> Head(fromBox).trigger, images |-> <<>>]
      BY <1>1 DEF ShotHeader
    <2>2. phase' = "serving" /\ aesKey' = aesKey
      BY <1>1 DEF ShotHeader, Receive
    <2>3. QED
      BY <2>1, <2>2
  <1>2. CASE ShotImage \/ Trigger
    <2>1. phase' = phase /\ aesKey' = aesKey
      BY <1>2, AnsweredOrNot
    <2>2. CASE Finalizes
      BY <2>2 DEF Finalizes, FinalizeShot
    <2>3. CASE /\ pending # NoShot /\ Receive("image") /\ ~LastImage
               /\ pending' = [pending EXCEPT !.images = Append(@, Head(fromBox).of)]
      <3>1. pending \in PendingShot
        BY <2>3 DEF TypeOK, LocalsTypeOK
      <3>2. /\ pending.images \in Seq(1..MaxShots) /\ pending.expected \in Nat
            /\ pending'.images = Append(pending.images, Head(fromBox).of)
            /\ pending'.trigger = pending.trigger /\ pending'.expected = pending.expected
        BY <2>3, <3>1 DEF PendingShot
      <3>3. Len(pending'.images) = Len(pending.images) + 1
        BY <3>2
      <3>4. ~pending.trigger => Len(pending.images) + 1 < pending.expected
        BY <2>3, <3>2 DEF LastImage
      <3>5. QED
        BY <2>1, <2>3, <3>2, <3>3, <3>4 DEF PendingCanFinish
    <2>4. CASE UNCHANGED <<pending, armed, shotSeq, told>>
      BY <2>1, <2>4 DEF PendingCanFinish
    <2>5. QED
      BY <1>2, <2>2, <2>3, <2>4, AnsweredOrNot
  <1>3. CASE ~ShotHeader /\ ~ShotImage /\ ~Trigger
    <2>1. pending' = pending /\ (UNCHANGED aesKey \/ Params \/ CloseLink)
      BY <1>3, NoStrikeStep
    <2>2. phase = "serving" /\ aesKey
      BY <2>1 DEF PendingCanFinish
    <2>3. ~CloseLink
      BY DEF CloseLink, FreshLocals
    <2>4. aesKey'
      BY <2>1, <2>2, <2>3 DEF Params
    <2>5. phase' = "serving"
      BY <2>2, <2>3, WhileServing, <1>3
         DEF Next, Driver, HandleCommand, HandlePacket, Connect, ConnectFails, Retry, Stop,
             CommandSendFails, ReplySendFails, LinkLost, Issue, HangUp, CutLink, BoxReads,
             BoxSends, Returned, driverVars
    <2>6. QED
      BY <2>1, <2>4, <2>5 DEF PendingCanFinish
  <1>4. QED
    BY <1>1, <1>2, <1>3

\* A shot that is being collected can always be finished: the key is known, and the
\* image that completes it is never taken without finishing it.
THEOREM CollectionCompletes == Spec => []PendingCanFinish
  <1>1. Init => PendingCanFinish
    BY DEF Init, PendingCanFinish
  <1>2. QED
    BY <1>1, PendingStep, TypeCorrect, PTL DEF Spec

-----------------------------------------------------------------------------
(* What the consumers of the events believe. *)

LEMMA ViewFields ==
    ASSUME NEW v \in View
    PROVE  /\ \A b, h, m : /\ [v EXCEPT !.armed = b, !.hand = h, !.mode = m].armed = b
                           /\ [v EXCEPT !.armed = b, !.hand = h, !.mode = m].mode = m
           /\ \A n : /\ [v EXCEPT !.shot = n].armed = v.armed
                     /\ [v EXCEPT !.shot = n].mode = v.mode
           /\ \A m : /\ [v EXCEPT !.mode = m].armed = v.armed
                     /\ [v EXCEPT !.mode = m].mode = m
           /\ [v EXCEPT !.ready = FALSE].armed = v.armed
           /\ [v EXCEPT !.ready = FALSE].mode = v.mode
           /\ SawReady(v).armed = TRUE /\ SawReady(v).mode = v.mode
           /\ SawDisconnected(v).armed = FALSE /\ SawDisconnected(v).ready = FALSE
  BY DEF View, SawReady, SawDisconnected

LEMMA SawStatusFields ==
    ASSUME view \in View, NEW b, NEW h
    PROVE  SawStatus(b, h).armed = b /\ SawStatus(b, h).mode = mode
  BY ViewFields DEF SawStatus

\* A mode is announced as soon as it is set, and by the first status packet at the latest.
LEMMA ModeStep ==
    TypeOK /\ FreshWhenIdle /\ ModeBeliefSound /\ [Next]_driverVars => ModeBeliefSound'
  <1> SUFFICES ASSUME TypeOK, FreshWhenIdle, ModeBeliefSound, [Next]_driverVars,
                      phase' = "serving", ~firstStatus'
               PROVE  view'.mode = mode'
    BY DEF ModeBeliefSound
  <1> USE DEF TypeOK
  <1>1. CASE Arm \/ Disarm
    <2>1. view' = SawStatus(TRUE, hand) \/ view' = SawStatus(FALSE, hand)
      BY <1>1 DEF Arm, Disarm
    <2>2. mode' = mode
      BY <1>1 DEF Arm, Disarm, settings
    <2>3. SawStatus(TRUE, hand).mode = mode /\ SawStatus(FALSE, hand).mode = mode
      BY SawStatusFields
    <2>4. QED
      BY <2>1, <2>2, <2>3
  <1>2. CASE SetShotMode
    <2>1. PICK m \in ShotMode : mode' = m /\ view' = [SawStatus(armed, hand) EXCEPT !.mode = m]
      BY <1>2 DEF SetShotMode
    <2>2. SawStatus(armed, hand) \in View
      BY SawStatusTypeOK DEF SettingsTypeOK, LocalsTypeOK
    <2>3. QED
      BY <2>1, <2>2, ViewFields
  <1>3. CASE FirstStatus \/ Status
    <2> DEFINE seen == SawStatus(armed, Head(fromBox).hand)
    <2>1. view' \in {seen, SawReady(seen)} /\ mode' = mode
      BY <1>3 DEF FirstStatus, Status, settings
    <2>2. seen \in View
      BY <1>3, SeenTypeOK DEF FirstStatus, Status
    <2>3. seen.mode = mode
      BY SawStatusFields
    <2>4. SawReady(seen).mode = seen.mode
      BY <2>2, ViewFields
    <2> HIDE DEF seen
    <2>5. QED
      BY <2>1, <2>3, <2>4
  <1>4. CASE ShotHeader
    <2>1. /\ phase = "serving" /\ firstStatus' = firstStatus /\ mode' = mode
          /\ view' = [view EXCEPT !.ready = FALSE]
      BY <1>4 DEF ShotHeader, settings, Receive
    <2>2. QED
      BY <2>1, ViewFields DEF ModeBeliefSound
  <1>5. CASE ShotImage \/ Trigger
    <2>1. phase' = phase /\ firstStatus' = firstStatus /\ mode' = mode
      BY <1>5, AnsweredOrNot DEF settings
    <2>2. view' = view \/ view' = [view EXCEPT !.shot = shotSeq + 1]
      BY <1>5, AnsweredOrNot DEF Finalizes, FinalizeShot, told
    <2>3. [view EXCEPT !.shot = shotSeq + 1].mode = view.mode
      BY ViewFields
    <2>4. QED
      BY <2>1, <2>2, <2>3 DEF ModeBeliefSound
  <1>6. CASE SetHandedness \/ SetChipViaPutting \/ FireShot \/ Params \/ OtherPacket
    BY <1>6 DEF SetHandedness, SetChipViaPutting, FireShot, Params, OtherPacket, locals, told,
                settings, ModeBeliefSound
  <1>7. CASE Stop \/ CommandSendFails \/ ReplySendFails \/ LinkLost
    BY <1>7 DEF Stop, CommandSendFails, ReplySendFails, LinkLost
  <1>8. CASE Connect \/ ConnectFails \/ Retry
    BY <1>8 DEF Connect, ConnectFails, Retry, FreshWhenIdle, locals
  <1>9. CASE \/ Issue \/ HangUp \/ CutLink \/ BoxReads
             \/ \E p \in BoxPacket : BoxSends(p)
             \/ UNCHANGED driverVars
    BY <1>9 DEF Issue, HangUp, CutLink, BoxReads, BoxSends, driverVars, locals, told, settings,
                ModeBeliefSound
  <1>10. QED
    BY <1>1, <1>2, <1>3, <1>4, <1>5, <1>6, <1>7, <1>8, <1>9
       DEF Next, Driver, HandleCommand, HandlePacket, Returned

\* Consumers know the shot mode of a box that has reported in.
THEOREM ModeIsKnown == Spec => []ModeBeliefSound
  <1>1. Init => ModeBeliefSound
    BY DEF Init, ModeBeliefSound
  <1>2. QED
    BY <1>1, ModeStep, TypeCorrect, Fresh, PTL DEF Spec

\* What is announced about arming follows what the driver does, but for the disarming
\* that comes with the outcome of a strike.
LEMMA ArmedStep ==
    TypeOK /\ FreshWhenIdle /\ ArmedBeliefSound /\ [Next]_driverVars => ArmedBeliefSound'
  <1> SUFFICES ASSUME TypeOK, FreshWhenIdle, ArmedBeliefSound, [Next]_driverVars
               PROVE  ArmedBeliefSound'
    OBVIOUS
  <1> USE DEF TypeOK
  <1>1. CASE Arm \/ Disarm
    <2>1. /\ phase' = "serving"
          /\ \/ armed' = TRUE /\ view' = SawStatus(TRUE, hand)
             \/ armed' = FALSE /\ view' = SawStatus(FALSE, hand)
      BY <1>1 DEF Arm, Disarm, Take
    <2>2. SawStatus(TRUE, hand).armed = TRUE /\ SawStatus(FALSE, hand).armed = FALSE
      BY SawStatusFields
    <2>3. QED
      BY <2>1, <2>2 DEF ArmedBeliefSound
  <1>2. CASE SetShotMode
    <2>1. PICK m \in ShotMode : view' = [SawStatus(armed, hand) EXCEPT !.mode = m]
      BY <1>2 DEF SetShotMode
    <2>2. SawStatus(armed, hand) \in View /\ SawStatus(armed, hand).armed = armed
      BY SawStatusTypeOK, SawStatusFields DEF SettingsTypeOK, LocalsTypeOK
    <2>3. view'.armed = armed
      BY <2>1, <2>2, ViewFields
    <2>4. phase' = "serving" /\ armed' = armed
      BY <1>2 DEF SetShotMode, Take, locals
    <2>5. QED
      BY <2>3, <2>4 DEF ArmedBeliefSound
  <1>3. CASE FirstStatus \/ Status
    <2> DEFINE seen == SawStatus(armed, Head(fromBox).hand)
    <2>1. seen \in View /\ seen.armed = armed /\ SawReady(seen).armed = TRUE
      BY <1>3, SeenTypeOK, SawStatusFields, ViewFields DEF FirstStatus, Status
    <2>2. phase' = "serving"
      BY <1>3 DEF FirstStatus, Status, Receive
    <2>3. \/ armed' = armed /\ view' = seen
          \/ armed' = TRUE /\ view' = SawReady(seen)
          \/ armed' = TRUE /\ armed /\ view' = seen
      BY <1>3 DEF FirstStatus, Status, LocalsTypeOK
    <2> HIDE DEF seen
    <2>4. armed' = view'.armed
      BY <2>1, <2>3 DEF LocalsTypeOK
    <2>5. QED
      BY <2>2, <2>4 DEF ArmedBeliefSound
  <1>4. CASE ShotHeader
    <2>1. /\ phase = "serving" /\ phase' = "serving" /\ armed' = armed
          /\ view' = [view EXCEPT !.ready = FALSE]
          /\ tally' = [tally EXCEPT !.started = @ + 1]
      BY <1>4 DEF ShotHeader, Receive
    <2>2. view'.armed = view.armed
      BY <2>1, ViewFields
    <2>3. tally'.shots = tally.shots /\ tally'.misreads = tally.misreads
      BY <2>1 DEF Tally
    <2>4. QED
      BY <2>1, <2>2, <2>3 DEF ArmedBeliefSound, Outcomes
  <1>5. CASE ShotImage \/ Trigger
    <2>1. phase = "serving" /\ phase' = phase
      BY <1>5, AnsweredOrNot DEF Receive
    <2>2. CASE Finalizes
      <3>1. \/ tally' = [tally EXCEPT !.shots = @ + 1]
            \/ tally' = [tally EXCEPT !.misreads = @ + 1]
        BY <2>2 DEF Finalizes, FinalizeShot
      <3>2. tally'.shots + tally'.misreads > 0
        BY <3>1 DEF Tally
      <3>3. armed' = FALSE
        BY <2>2 DEF Finalizes, FinalizeShot
      <3>4. QED
        BY <2>1, <3>2, <3>3 DEF ArmedBeliefSound, Outcomes
    <2>3. CASE UNCHANGED <<armed, view, tally>>
      BY <2>1, <2>3 DEF ArmedBeliefSound, Outcomes
    <2>4. QED
      BY <1>5, <2>2, <2>3, AnsweredOrNot DEF told
  <1>6. CASE SetHandedness \/ SetChipViaPutting \/ FireShot \/ Params \/ OtherPacket
    <2>1. phase' = phase /\ armed' = armed /\ view' = view /\ tally' = tally
      BY <1>6 DEF SetHandedness, SetChipViaPutting, FireShot, Params, OtherPacket, locals, told
    <2>2. QED
      BY <2>1 DEF ArmedBeliefSound, Outcomes
  <1>7. CASE CommandSendFails \/ ReplySendFails \/ LinkLost
    <2>1. phase' = "backoff"
      BY <1>7 DEF CommandSendFails, ReplySendFails, LinkLost
    <2>2. ~view'.armed /\ ~view'.ready
      <3>1. CASE CommandSendFails \/ LinkLost
        BY <3>1, ViewFields DEF CommandSendFails, LinkLost
      <3>2. CASE ReplySendFails /\ Head(fromBox).type = "status"
                 /\ view' = SawDisconnected(SawStatus(armed, Head(fromBox).hand))
        <4>1. fromBox # <<>> /\ Head(fromBox) \in BoxPacket
          BY <3>2 DEF ReplySendFails, WireTypeOK
        <4>2. Head(fromBox).hand \in Handedness
          BY <3>2, <4>1 DEF BoxPacket, StatusPacket, HeaderPacket, ImagePacket, PlainPacket
        <4>3. SawStatus(armed, Head(fromBox).hand) \in View
          BY <4>2, SawStatusTypeOK DEF SettingsTypeOK, LocalsTypeOK
        <4>4. QED
          BY <3>2, <4>3, ViewFields
      <3>3. CASE view' = SawDisconnected(view)
        BY <3>3, ViewFields
      <3>4. QED
        BY <1>7, <3>1, <3>2, <3>3 DEF ReplySendFails
    <2>3. QED
      BY <2>1, <2>2 DEF ArmedBeliefSound
  <1>8. CASE Stop
    BY <1>8 DEF Stop, ArmedBeliefSound
  <1>9. CASE ConnectFails
    <2>1. view' = SawDisconnected(view) /\ phase' = "backoff"
      BY <1>9 DEF ConnectFails
    <2>2. QED
      BY <2>1, ViewFields DEF ArmedBeliefSound
  <1>10. CASE Connect \/ Retry
    BY <1>10 DEF Connect, Retry, FreshWhenIdle, locals, told, ArmedBeliefSound, Outcomes
  <1>11. CASE \/ Issue \/ HangUp \/ CutLink \/ BoxReads
              \/ \E p \in BoxPacket : BoxSends(p)
              \/ UNCHANGED driverVars
    BY <1>11 DEF Issue, HangUp, CutLink, BoxReads, BoxSends, driverVars, locals, told,
                 ArmedBeliefSound, Outcomes
  <1>12. QED
    BY <1>1, <1>2, <1>3, <1>4, <1>5, <1>6, <1>7, <1>8, <1>9, <1>10, <1>11
       DEF Next, Driver, HandleCommand, HandlePacket, Returned

\* Consumers never take an offline box for armed, and take an armed one for armed.
THEOREM ArmedIsKnown == Spec => []ArmedBeliefSound
  <1>1. Init => ArmedBeliefSound
    <2> SUFFICES ASSUME Init PROVE ArmedBeliefSound
      OBVIOUS
    <2>1. phase = "connecting" /\ ~view.armed /\ ~view.ready
      BY DEF Init
    <2>2. QED
      BY <2>1 DEF ArmedBeliefSound
  <1>2. QED
    BY <1>1, ArmedStep, TypeCorrect, Fresh, PTL DEF Spec

-----------------------------------------------------------------------------
(* Refinement: every step is one of the contract's, or changes nothing it mentions. *)

Online == CASE phase = "serving" -> "up"
            [] phase = "stopped" -> "over"
            [] OTHER -> "down"

LEMMA SameContractState ==
    ASSUME UNCHANGED <<armed, shotSeq, pending, tally>>, Online' = Online
    PROVE  UNCHANGED Contract!lmVars
  BY DEF Contract!lmVars, Online

LEMMA LeaveStep ==
    ASSUME phase = "serving", phase' \in {"backoff", "stopped"}, CloseLink, UNCHANGED tally
    PROVE  Contract!Leave
  BY DEF Contract!Leave, CloseLink, FreshLocals

LEMMA SetArmedStep ==
    ASSUME phase = "serving", phase' = "serving", armed' \in BOOLEAN,
           UNCHANGED <<shotSeq, pending, tally>>
    PROVE  Contract!SetArmed
  BY DEF Contract!SetArmed

LEMMA ResolveStep ==
    ASSUME phase = "serving", phase' = "serving", pending # NoShot, Finalizes
    PROVE  Contract!Measure \/ Contract!Misread
  BY DEF Contract!Measure, Contract!Misread, Contract!Resolve, Finalizes, FinalizeShot

LEMMA ContractStep ==
    TypeOK /\ FreshWhenIdle /\ [Next]_driverVars => [Contract!Next]_(Contract!lmVars)
  <1> SUFFICES ASSUME TypeOK, FreshWhenIdle, [Next]_driverVars
               PROVE  Contract!Next \/ UNCHANGED Contract!lmVars
    OBVIOUS
  <1>1. CASE Arm \/ Disarm \/ FirstStatus \/ Status
    <2>1. /\ phase = "serving" /\ phase' = "serving"
          /\ UNCHANGED <<shotSeq, pending, tally>>
      BY <1>1 DEF Arm, Disarm, FirstStatus, Status, Take, Receive
    <2>2. armed' \in BOOLEAN
      BY <1>1 DEF Arm, Disarm, FirstStatus, Status, TypeOK, LocalsTypeOK
    <2>3. QED
      BY <2>1, <2>2, SetArmedStep DEF Contract!Next
  <1>2. CASE \/ SetHandedness \/ SetShotMode \/ SetChipViaPutting \/ FireShot \/ Params
             \/ OtherPacket
    <2>1. UNCHANGED <<phase, armed, shotSeq, pending, tally>>
      BY <1>2 DEF SetHandedness, SetShotMode, SetChipViaPutting, FireShot, Params, OtherPacket,
                  locals, told
    <2>2. QED
      BY <2>1, SameContractState DEF Online
  <1>3. CASE ShotHeader
    <2>1. phase = "serving" /\ phase' = "serving" /\ UNCHANGED <<armed, shotSeq>>
      BY <1>3 DEF ShotHeader, Receive
    <2>2. tally' = [tally EXCEPT !.started = @ + 1]
      BY <1>3 DEF ShotHeader
    <2>3. Contract!Strike
      BY <2>1, <2>2 DEF Contract!Strike
    <2>4. QED
      BY <2>3 DEF Contract!Next
  <1>4. CASE ShotImage \/ Trigger
    <2>1. phase = "serving" /\ phase' = phase
      BY <1>4, AnsweredOrNot DEF Receive
    <2>2. CASE Finalizes /\ pending # NoShot
      BY <2>1, <2>2, ResolveStep DEF Contract!Next
    <2>3. CASE /\ pending # NoShot /\ Receive("image")
               /\ pending' = [pending EXCEPT !.images = Append(@, Head(fromBox).of)]
               /\ UNCHANGED <<armed, shotSeq, told>>
      <3>1. pending'.images # <<>>
        <4>1. pending \in PendingShot
          BY <2>3 DEF TypeOK, LocalsTypeOK
        <4>2. pending'.images = Append(pending.images, Head(fromBox).of)
          BY <2>3, <4>1 DEF PendingShot
        <4>3. pending.images \in Seq(1..MaxShots)
          BY <4>1 DEF PendingShot
        <4>4. QED
          BY <4>2, <4>3
      <3>2. pending' # NoShot
        BY <3>1 DEF NoShot
      <3>3. QED
        BY <2>1, <2>3, <3>2 DEF Contract!lmVars, told
    <2>4. CASE UNCHANGED <<pending, armed, shotSeq, told>>
      BY <2>1, <2>4, SameContractState DEF Online, told
    <2>5. QED
      BY <1>4, <2>2, <2>3, <2>4, AnsweredOrNot
  <1>5. CASE Stop \/ CommandSendFails \/ ReplySendFails \/ LinkLost
    <2>1. /\ phase = "serving" /\ phase' \in {"backoff", "stopped"}
          /\ CloseLink /\ UNCHANGED tally
      BY <1>5 DEF Stop, CommandSendFails, ReplySendFails, LinkLost, Take, told
    <2>2. QED
      BY <2>1, LeaveStep DEF Contract!Next
  <1>6. CASE Connect
    <2>1. /\ phase = "connecting" /\ phase' = "serving"
          /\ UNCHANGED <<armed, shotSeq, pending, tally>>
      BY <1>6 DEF Connect, locals, told
    <2>2. Contract!Connect
      BY <2>1 DEF Contract!Connect
    <2>3. QED
      BY <2>2 DEF Contract!Next
  <1>7. CASE ConnectFails \/ Retry
    <2>1. /\ phase \in {"connecting", "backoff"} /\ phase' \in {"connecting", "backoff"}
          /\ UNCHANGED <<armed, shotSeq, pending, tally>>
      BY <1>7 DEF ConnectFails, Retry, locals, told
    <2>2. QED
      BY <2>1, SameContractState DEF Online
  <1>8. CASE \/ Issue \/ HangUp \/ CutLink \/ BoxReads
             \/ \E p \in BoxPacket : BoxSends(p)
             \/ UNCHANGED driverVars
    <2>1. UNCHANGED <<phase, armed, shotSeq, pending, tally>>
      BY <1>8 DEF Issue, HangUp, CutLink, BoxReads, BoxSends, driverVars, locals, told
    <2>2. QED
      BY <2>1, SameContractState DEF Online
  <1>9. QED
    BY <1>1, <1>2, <1>3, <1>4, <1>5, <1>6, <1>7, <1>8
       DEF Next, Driver, HandleCommand, HandlePacket, Returned

\* The SkyTrak driver, with whatever box, is a launch monitor as trakr-core's consumers
\* expect it: offline until connected, outcomes only for strikes, numbered from 1.
THEOREM DriverIsLaunchMonitor == Spec => IsLaunchMonitor
  <1>1. Init => Contract!Init
    <2> SUFFICES ASSUME Init PROVE Contract!Init
      OBVIOUS
    <2>1. /\ phase = "connecting" /\ armed = FALSE /\ shotSeq = 0 /\ pending = NoShot
          /\ tally = [started |-> 0, shots |-> 0, misreads |-> 0]
      BY DEF Init
    <2>2. QED
      BY <2>1 DEF Contract!Init, Contract!NoEvents
  <1>2. QED
    BY <1>1, ContractStep, TypeCorrect, Fresh, PTL DEF Spec, IsLaunchMonitor, Contract!Spec
=============================================================================
