------------------------- MODULE Connecting_proofs -------------------------
(* Proofs about Connecting, for every number of clients, boxes, networks and faults. *)
EXTENDS Connecting, SequenceFacts

LEMMA Asked ==
    ASSUME NEW up \in SUBSET Interfaces
    PROVE  AddressesToAsk(up) \subseteq Networks \cup {Limited}
  BY ConnectingAssumption DEF AddressesToAsk, ConnectingAssumption

LEMMA Answers ==
    ASSUME ConnectingTypeOK, NEW answering \in SUBSET {a \in Addresses : lease[a] # Nobody}
    PROVE  {[name |-> lease[a], address |-> a] : a \in answering} \subseteq DiscoveredBox
  <1>1. \A a \in answering : a \in Addresses /\ lease[a] \in Boxes
    BY DEF ConnectingTypeOK, Leases
  <1>2. QED
    BY <1>1 DEF DiscoveredBox

LEMMA AttemptsWrap ==
    ASSUME NEW n \in 0..(Attempts - 1)
    PROVE  (n + 1) % Attempts \in 0..(Attempts - 1)
  BY ConnectingAssumption DEF ConnectingAssumption

\* What a client of the settings is doing stays within its type.
UpdateType == [step : {"none", "changed", "same", "telling"}, value : BOOLEAN]

\* From resolve on the driver has an address to connect to.
PickedIsKnown == phase \in {"confirming", "pacing", "serving"} => picked \in DiscoveredBox

LEMMA PickedIsKnownNext ==
    ConnectingTypeOK /\ PickedIsKnown /\ [Next]_vars => PickedIsKnown'
  <1> SUFFICES ASSUME ConnectingTypeOK, PickedIsKnown, [Next]_vars PROVE PickedIsKnown'
    OBVIOUS
  <1>1. CASE ConnectSpawns
    <2>1. phase' = "looking" \/ (picked' \in Targets /\ picked' # Discover)
      BY <1>1 DEF ConnectSpawns, Resolving
    <2>2. QED
      BY <2>1, ConnectingAssumption DEF PickedIsKnown, ConnectingAssumption
  <1>2. CASE Retry
    BY <1>2 DEF Retry, Resolving, PickedIsKnown, ConnectingTypeOK
  <1>3. CASE WindowEnds
    <2>1. found # <<>> => Head(found) \in DiscoveredBox
      BY TailFacts DEF ConnectingTypeOK
    <2>2. QED
      BY <1>3, <2>1 DEF WindowEnds, PickedIsKnown
  <1>4. ASSUME UNCHANGED picked,
               \/ phase' = phase
               \/ phase' \notin {"confirming", "pacing", "serving"}
               \/ phase \in {"confirming", "pacing", "serving"}
        PROVE  PickedIsKnown'
    BY <1>4 DEF PickedIsKnown
  <1>5. CASE \E c \in Clients : UpdateReads(c) \/ UpdatePublishes(c) \/ UpdateTells(c)
    BY <1>4, <1>5 DEF UpdateReads, UpdatePublishes, UpdateTells
  <1>6. CASE ConnectStores \/ Disconnect \/ ScanStarts \/ Ask \/ ScanFails \/ ReplyArrives
               \/ LookAgain \/ SetChipViaPutting \/ Readdress \/ UNCHANGED vars
    BY <1>4, <1>6 DEF ConnectStores, Disconnect, ScanStarts, Ask, ScanFails, ReplyArrives,
                      LookAgain, SetChipViaPutting, Readdress, vars
  <1>7. CASE Confirmed \/ NotConfirmed \/ TcpConnects \/ TcpFails \/ ConnectionFails
    BY <1>4, <1>7 DEF Confirmed, NotConfirmed, TcpConnects, TcpFails, ConnectionFails
  <1>8. CASE DriverEnds
    BY <1>8 DEF DriverEnds, PickedIsKnown
  <1>9. QED
    BY <1>1, <1>2, <1>3, <1>5, <1>6, <1>7, <1>8 DEF Next, DriverStep, Quiet

\* Types: the queue is never longer than its capacity, the driver connects to no box but
\* those there are, and gives up after so many attempts.
THEOREM ConnectingTypeCorrect == Spec => []ConnectingTypeOK
  <1>1. Init => ConnectingTypeOK
    <2> SUFFICES ASSUME Init PROVE ConnectingTypeOK
      OBVIOUS
    <2>1. update \in [Clients -> UpdateType]
      BY DEF Init, NoUpdate, UpdateType
    <2>2. 0 \in 0..(Attempts - 1) /\ 0 \in 0..MaxUpdates /\ 0 \in 0..MaxConnects
            /\ 0 \in 0..MaxFaults
      BY ConnectingAssumption DEF ConnectingAssumption
    <2>3. queue = <<>> /\ found = <<>> /\ CommandCap \in Nat
      BY ConnectingAssumption DEF ConnectingAssumption, Init
    <2>4. queue \in Seq(BOOLEAN) /\ Len(queue) <= CommandCap /\ found \in Seq(DiscoveredBox)
      BY <2>3
    <2>5. phase = "ended" /\ session = "none" /\ setting \in BOOLEAN /\ said \in BOOLEAN
          /\ mapping \in BOOLEAN /\ moved \in BOOLEAN /\ raced \in BOOLEAN
          /\ overridden \in BOOLEAN
      BY DEF Init
    <2>6. QED
      BY <2>1, <2>2, <2>4, <2>5 DEF Init, ConnectingTypeOK, UpdateType, Phase
  <1>2. Init => PickedIsKnown
    BY DEF Init, PickedIsKnown
  <1>3. ConnectingTypeOK /\ PickedIsKnown /\ [Next]_vars => PickedIsKnown'
    BY PickedIsKnownNext
  <1>4. ASSUME ConnectingTypeOK, PickedIsKnown, [Next]_vars PROVE ConnectingTypeOK'
    <2> USE <1>4
    <2>1. CASE UNCHANGED vars
      BY <2>1 DEF vars, daemon, scan, world, ConnectingTypeOK
    <2>2. ASSUME NEW c \in Clients, UpdateReads(c) PROVE ConnectingTypeOK'
      <3>1. PICK v \in BOOLEAN :
              update' = [update EXCEPT ![c] =
                            [step |-> IF v # setting THEN "changed" ELSE "same", value |-> v]]
        BY <2>2 DEF UpdateReads
      <3>2. [step |-> IF v # setting THEN "changed" ELSE "same", value |-> v] \in UpdateType
        BY DEF UpdateType
      <3>3. update' \in [Clients -> UpdateType]
        BY <3>1, <3>2 DEF ConnectingTypeOK, UpdateType
      <3>4. updates' \in 0..MaxUpdates
        BY <2>2, ConnectingAssumption DEF UpdateReads, ConnectingTypeOK, ConnectingAssumption
      <3>5. raced' \in BOOLEAN
        BY <2>2 DEF UpdateReads, ConnectingTypeOK, Updating
      <3>6. QED
        BY <2>2, <3>3, <3>4, <3>5 DEF UpdateReads, ConnectingTypeOK, UpdateType, scan, world
    <2>3. ASSUME NEW c \in Clients, UpdatePublishes(c) PROVE ConnectingTypeOK'
      <3> DEFINE next == IF update[c].step = "changed"
                         THEN [update[c] EXCEPT !.step = "telling"] ELSE NoUpdate
      <3>1. next \in UpdateType /\ update[c].value \in BOOLEAN
        BY DEF ConnectingTypeOK, UpdateType, NoUpdate
      <3>2. update' = [update EXCEPT ![c] = next]
        BY <2>3 DEF UpdatePublishes
      <3> HIDE DEF next
      <3>3. update' \in [Clients -> UpdateType]
        BY <3>1, <3>2 DEF ConnectingTypeOK, UpdateType
      <3>4. QED
        BY <2>3, <3>1, <3>3
           DEF UpdatePublishes, ConnectingTypeOK, UpdateType, scan, world
    <2>4. ASSUME NEW c \in Clients, UpdateTells(c) PROVE ConnectingTypeOK'
      <3>1. update' = [update EXCEPT ![c] = NoUpdate]
        BY <2>4 DEF UpdateTells
      <3>2. update' \in [Clients -> UpdateType] /\ update[c].value \in BOOLEAN
        BY <3>1 DEF ConnectingTypeOK, UpdateType, NoUpdate
      <3>3. queue' \in Seq(BOOLEAN) /\ Len(queue') <= CommandCap
        <4> DEFINE v == update[c].value
        <4>1. queue' = queue \/ (Len(queue) < CommandCap /\ queue' = Append(queue, v))
          <5>1. CASE session = "stored" /\ phase # "ended"
            BY <2>4, <5>1 DEF UpdateTells
          <5>2. CASE ~(session = "stored" /\ phase # "ended")
            BY <2>4, <5>2 DEF UpdateTells
          <5>3. QED
            BY <5>1, <5>2
        <4>2. /\ queue \in Seq(BOOLEAN) /\ Len(queue) <= CommandCap /\ CommandCap \in Nat
              /\ v \in BOOLEAN
          BY <3>2, ConnectingAssumption DEF ConnectingTypeOK, ConnectingAssumption
        <4> HIDE DEF v
        <4>3. QED
          BY <4>1, <4>2, AppendFacts
      <3>4. QED
        BY <2>4, <3>2, <3>3 DEF UpdateTells, ConnectingTypeOK, UpdateType, scan, world
    <2>5. CASE ConnectSpawns
      <3>1. /\ target' \in Targets
            /\ \/ phase' = "looking" /\ picked' = NoBox
               \/ phase' = "confirming" /\ picked' = target' /\ target' # Discover
        BY <2>5 DEF ConnectSpawns, Resolving
      <3>2. /\ target' \in {Discover} \cup DiscoveredBox
            /\ picked' \in DiscoveredBox \cup {NoBox} /\ phase' \in Phase
        BY <3>1, ConnectingAssumption DEF ConnectingAssumption, Phase
      <3>3. /\ mapping' \in BOOLEAN /\ overridden' \in BOOLEAN /\ said' \in BOOLEAN
            /\ raced' \in BOOLEAN
        BY <2>5, ConnectingAssumption
           DEF ConnectSpawns, ConnectingAssumption, ConnectingTypeOK, Updating
      <3>4. connects' \in 0..MaxConnects
        BY <2>5, ConnectingAssumption DEF ConnectSpawns, ConnectingTypeOK, ConnectingAssumption
      <3>5. QED
        BY <2>5, <3>2, <3>3, <3>4 DEF ConnectSpawns, ConnectingTypeOK, scan, world
    <2>6. CASE ConnectStores \/ Disconnect
      BY <2>6 DEF ConnectStores, Disconnect, ConnectingTypeOK, scan, world
    <2>7. CASE DriverEnds
      <3>1. 0 \in 0..(Attempts - 1) /\ CommandCap \in Nat
        BY ConnectingAssumption DEF ConnectingAssumption
      <3>2. queue' = <<>> /\ found' = <<>>
        BY <2>7 DEF DriverEnds
      <3>3. queue' \in Seq(BOOLEAN) /\ Len(queue') <= CommandCap
              /\ found' \in Seq(DiscoveredBox)
        BY <3>1, <3>2
      <3>4. QED
        BY <2>7, <3>1, <3>3
           DEF DriverEnds, ConnectingTypeOK, daemon, world, Phase, Discover
    <2>8. ASSUME Fault PROVE faults' \in 0..MaxFaults
      BY <2>8, ConnectingAssumption DEF Fault, ConnectingTypeOK, ConnectingAssumption
    <2>9. CASE ScanStarts
      <3>1. toAsk' \subseteq Networks \cup {Limited}
        BY <2>9, Asked DEF ScanStarts
      <3>2. faults' \in 0..MaxFaults
        BY <2>8, <2>9 DEF ScanStarts, ConnectingTypeOK
      <3>3. QED
        BY <2>9, <3>1, <3>2 DEF ScanStarts, ConnectingTypeOK, daemon, world, Phase
    <2>10. CASE Ask
      <3>1. PICK n \in toAsk :
              /\ toAsk' = toAsk \ {n}
              /\ \E answering \in SUBSET {a \in Addresses :
                                             lease[a] # Nobody /\ n \in {NetworkOf[a], Limited}} :
                    heard' = heard \cup {[name |-> lease[a], address |-> a] : a \in answering}
        BY <2>10 DEF Ask
      <3>2. PICK answering \in SUBSET {a \in Addresses : lease[a] # Nobody} :
              heard' = heard \cup {[name |-> lease[a], address |-> a] : a \in answering}
        BY <3>1
      <3>3. heard' \subseteq DiscoveredBox
        BY <3>2, Answers DEF ConnectingTypeOK
      <3>4. faults' \in 0..MaxFaults
        BY <2>8, <2>10 DEF Ask, ConnectingTypeOK
      <3>5. /\ phase' \in Phase /\ toAsk' \subseteq Networks \cup {Limited}
            /\ UNCHANGED <<daemon, target, mapping, queue, found, picked, attempt, served, world>>
        BY <2>10, <3>1 DEF Ask, ConnectingTypeOK, Phase
      <3>6. QED
        BY <3>3, <3>4, <3>5 DEF ConnectingTypeOK, daemon, world
    <2>11. CASE ScanFails
      <3>1. found' \in Seq(DiscoveredBox)
        BY <2>11 DEF ScanFails
      <3>2. QED
        BY <2>8, <2>11, <3>1 DEF ScanFails, ConnectingTypeOK, daemon, world, Phase
    <2>12. CASE ReplyArrives
      <3>1. found' \in Seq(DiscoveredBox)
        BY <2>12 DEF ReplyArrives, ConnectingTypeOK
      <3>2. QED
        BY <2>12, <3>1 DEF ReplyArrives, ConnectingTypeOK, daemon, world
    <2>13. CASE WindowEnds
      <3>1. picked' \in DiscoveredBox \cup {NoBox} /\ phase' \in Phase
        <4>1. found # <<>> => Head(found) \in DiscoveredBox
          BY TailFacts DEF ConnectingTypeOK
        <4>2. QED
          BY <2>13, <4>1 DEF WindowEnds, ConnectingTypeOK, Phase
      <3>2. faults' \in 0..MaxFaults /\ found' \in Seq(DiscoveredBox)
        BY <2>8, <2>13 DEF WindowEnds, ConnectingTypeOK
      <3>3. QED
        BY <2>13, <3>1, <3>2 DEF WindowEnds, ConnectingTypeOK, daemon, world
    <2>14. CASE LookAgain \/ TcpFails
      BY <2>14 DEF LookAgain, TcpFails, ConnectingTypeOK, daemon, scan, world, Phase
    <2>15. CASE Confirmed
      <3>1. 0 \in 0..(Attempts - 1)
        BY ConnectingAssumption DEF ConnectingAssumption
      <3>2. QED
        BY <2>15, <3>1 DEF Confirmed, ConnectingTypeOK, daemon, scan, Phase
    <2>16. CASE NotConfirmed
      <3>1. attempt' \in 0..(Attempts - 1)
        BY <2>16, AttemptsWrap DEF NotConfirmed, ConnectingTypeOK
      <3>2. faults' \in 0..MaxFaults /\ phase' \in Phase
        BY <2>8, <2>16 DEF NotConfirmed, ConnectingTypeOK, Phase
      <3>3. QED
        BY <2>16, <3>1, <3>2 DEF NotConfirmed, ConnectingTypeOK, daemon, scan, world
    <2>17. CASE TcpConnects
      <3>1. lease[picked.address] \in Boxes \cup {Nobody}
        <4>1. picked.address \in Addresses
          BY <2>17 DEF TcpConnects, PickedIsKnown, DiscoveredBox
        <4>2. QED
          BY <4>1 DEF ConnectingTypeOK, Leases
      <3>2. QED
        BY <2>17, <3>1 DEF TcpConnects, ConnectingTypeOK, daemon, scan, world, Phase
    <2>18. CASE ConnectionFails
      <3>1. 0 \in 0..(Attempts - 1)
        BY ConnectingAssumption DEF ConnectingAssumption
      <3>2. faults' \in 0..MaxFaults
        BY <2>8, <2>18 DEF ConnectionFails, ConnectingTypeOK
      <3>3. QED
        BY <2>18, <3>1, <3>2 DEF ConnectionFails, ConnectingTypeOK, daemon, scan, world, Phase
    <2>19. CASE Retry
      BY <2>19 DEF Retry, Resolving, ConnectingTypeOK, daemon, scan, world, Phase
    <2>20. CASE SetChipViaPutting
      <3>1. /\ queue \in Seq(BOOLEAN) /\ queue # <<>> /\ Len(queue) <= CommandCap
            /\ mapping' = Head(queue) /\ queue' = Tail(queue) /\ CommandCap \in Nat
        BY <2>20, ConnectingAssumption
           DEF SetChipViaPutting, ConnectingTypeOK, ConnectingAssumption
      <3>2. /\ mapping' \in BOOLEAN /\ queue' \in Seq(BOOLEAN) /\ Len(queue') <= CommandCap
        BY <3>1, TailFacts
      <3>3. QED
        BY <2>20, <3>2 DEF SetChipViaPutting, ConnectingTypeOK, daemon, scan, world
    <2>21. CASE Readdress
      BY <2>8, <2>21 DEF Readdress, ConnectingTypeOK, daemon, scan
    <2>22. QED
      BY <2>1, <2>2, <2>3, <2>4, <2>5, <2>6, <2>7, <2>9, <2>10, <2>11, <2>12, <2>13, <2>14,
         <2>15, <2>16, <2>17, <2>18, <2>19, <2>20, <2>21 DEF Next, DriverStep, Quiet
  <1>5. QED
    BY <1>1, <1>2, <1>3, <1>4, PTL DEF Spec

-----------------------------------------------------------------------------
(* The box that is connected to *)

\* The box was at its address when confirmed, and the link is to whoever is there.
NamedInv ==
    /\ phase = "pacing" => lease[picked.address] = picked.name \/ moved
    /\ DeviceIsNamed

\* The device announced is the one at the other end, whatever networks do to addresses,
\* but for a lease that changes between the confirmation and the TCP connect.
THEOREM TheDeviceIsNamed == Spec => []DeviceIsNamed
  <1>1. Init => NamedInv
    BY DEF Init, NamedInv, DeviceIsNamed
  <1>2. NamedInv /\ [Next]_vars => NamedInv'
    <2> SUFFICES ASSUME NamedInv, [Next]_vars PROVE NamedInv'
      OBVIOUS
    <2> USE DEF NamedInv, DeviceIsNamed
    <2>1. CASE Confirmed
      BY <2>1 DEF Confirmed
    <2>2. CASE TcpConnects
      BY <2>2 DEF TcpConnects, world
    <2>3. CASE Readdress
      BY <2>3 DEF Readdress
    <2>4. CASE \/ ConnectSpawns \/ DriverEnds \/ ScanStarts \/ Ask \/ ScanFails \/ WindowEnds
               \/ LookAgain \/ NotConfirmed \/ TcpFails \/ ConnectionFails \/ Retry
      <3>1. phase' \notin {"pacing", "serving"}
        BY <2>4 DEF ConnectSpawns, Resolving, DriverEnds, ScanStarts, Ask, ScanFails, WindowEnds,
                    LookAgain, NotConfirmed, TcpFails, ConnectionFails, Retry
      <3>2. QED
        BY <3>1
    <2>5. ASSUME UNCHANGED <<phase, picked, served, world>> PROVE NamedInv'
      BY <2>5 DEF world
    <2>6. CASE \E c \in Clients : UpdateReads(c) \/ UpdatePublishes(c) \/ UpdateTells(c)
      BY <2>5, <2>6 DEF UpdateReads, UpdatePublishes, UpdateTells
    <2>7. CASE ConnectStores \/ Disconnect \/ ReplyArrives \/ SetChipViaPutting \/ UNCHANGED vars
      BY <2>5, <2>7 DEF ConnectStores, Disconnect, ReplyArrives, SetChipViaPutting, vars
    <2>8. QED
      BY <2>1, <2>2, <2>3, <2>4, <2>6, <2>7 DEF Next, DriverStep, Quiet
  <1>3. NamedInv => DeviceIsNamed
    BY DEF NamedInv
  <1>4. QED
    BY <1>1, <1>2, <1>3, PTL DEF Spec

\* A scan starts with no answer, what it finds are answers, and only a driver that
\* discovers scans.
ScanInv ==
    /\ phase \in {"looking", "asking", "listening", "pause"} => target = Discover
    /\ phase # "listening" => found = <<>>
    /\ \A i \in DOMAIN found : found[i] \in heard
    /\ PickedIsCurrent

LEMMA ScanStep == ConnectingTypeOK /\ ScanInv /\ [Next]_vars => ScanInv'
  <1> SUFFICES ASSUME ConnectingTypeOK, ScanInv, [Next]_vars PROVE ScanInv'
    OBVIOUS
  <1> USE DEF ScanInv, PickedIsCurrent
  <1>1. ASSUME UNCHANGED <<target, found, heard, picked>>,
               \/ phase' = phase
               \/ phase \in {"confirming", "pacing", "serving"}
                    /\ phase' \in {"confirming", "pacing", "serving", "backoff"}
               \/ phase = "pause" /\ phase' = "looking"
        PROVE  ScanInv'
    BY <1>1
  <1>2. ASSUME found' = <<>>,
               phase' \in {"looking", "asking", "listening", "pause"} => target' = Discover,
               phase' \in {"confirming", "pacing", "serving"} =>
                    IF target' = Discover THEN picked' \in heard' ELSE picked' = target'
        PROVE  ScanInv'
    BY <1>2
  <1>3. CASE ConnectSpawns
    <2>1. /\ found' = found /\ found = <<>>
          /\ \/ phase' = "looking" /\ target' = Discover
             \/ phase' = "confirming" /\ picked' = target' /\ target' # Discover
      BY <1>3 DEF ConnectSpawns, Resolving, scan
    <2>2. QED
      BY <1>2, <2>1
  <1>4. CASE DriverEnds
    BY <1>2, <1>4 DEF DriverEnds
  <1>5. CASE ScanStarts
    BY <1>2, <1>5 DEF ScanStarts
  <1>6. CASE Ask
    <2>1. /\ found' = <<>> /\ target' = Discover /\ phase' \in {"asking", "listening"}
      BY <1>6 DEF Ask
    <2>2. QED
      BY <1>2, <2>1
  <1>7. CASE ScanFails
    BY <1>2, <1>7 DEF ScanFails
  <1>8. CASE ReplyArrives
    <2>1. PICK box \in heard : found' = Append(found, box)
      BY <1>8 DEF ReplyArrives
    <2>2. /\ phase = "listening" /\ UNCHANGED <<target, phase, heard, picked>>
          /\ found \in Seq(DiscoveredBox) /\ box \in DiscoveredBox
      BY <1>8 DEF ReplyArrives, ConnectingTypeOK
    <2>3. \A i \in DOMAIN found' : found'[i] \in heard
      <3>1. /\ DOMAIN found = 1..Len(found) /\ DOMAIN found' = 1..(Len(found) + 1)
            /\ Len(found) \in Nat
            /\ \A i \in DOMAIN found : found'[i] = found[i]
            /\ found'[Len(found) + 1] = box
        BY <2>1, <2>2, AppendFacts
      <3>2. ASSUME NEW i \in DOMAIN found' PROVE i \in DOMAIN found \/ i = Len(found) + 1
        BY <3>1
      <3>3. QED
        BY <3>1, <3>2
    <2>4. QED
      BY <2>2, <2>3
  <1>9. CASE WindowEnds
    <2>1. /\ found' = <<>> /\ target' = Discover /\ heard' = heard \cap {picked'}
          /\ \/ phase' = "pause"
             \/ found # <<>> /\ phase' = "confirming" /\ picked' = Head(found)
      BY <1>9 DEF WindowEnds
    <2>2. found # <<>> => Head(found) \in heard
      <3>1. found # <<>> => Head(found) = found[1] /\ 1 \in DOMAIN found
        <4>1. found \in Seq(DiscoveredBox)
          BY DEF ConnectingTypeOK
        <4>2. QED
          BY <4>1, TailFacts
      <3>2. QED
        BY <3>1
    <2>3. QED
      BY <1>2, <2>1, <2>2
  <1>10. CASE Retry
    <2>1. /\ found' = <<>> /\ target' = target
          /\ \/ phase' = "looking" /\ target = Discover
             \/ phase' = "confirming" /\ picked' = target /\ target # Discover
      BY <1>10 DEF Retry, Resolving, scan
    <2>2. QED
      BY <1>2, <2>1
  <1>11. CASE \E c \in Clients : UpdateReads(c) \/ UpdatePublishes(c) \/ UpdateTells(c)
    BY <1>1, <1>11 DEF UpdateReads, UpdatePublishes, UpdateTells, scan
  <1>12. CASE ConnectStores \/ Disconnect \/ SetChipViaPutting \/ Readdress \/ UNCHANGED vars
    BY <1>1, <1>12 DEF ConnectStores, Disconnect, SetChipViaPutting, Readdress, vars, scan
  <1>13. CASE LookAgain \/ Confirmed \/ NotConfirmed \/ TcpConnects \/ TcpFails \/ ConnectionFails
    BY <1>1, <1>13 DEF LookAgain, Confirmed, NotConfirmed, TcpConnects, TcpFails,
                       ConnectionFails, scan
  <1>14. QED
    BY <1>3, <1>4, <1>5, <1>6, <1>7, <1>8, <1>9, <1>10, <1>11, <1>12, <1>13
       DEF Next, DriverStep, Quiet

\* No answer of an earlier scan, and no earlier box, is connected to after a lost link.
THEOREM ThePickIsCurrent == Spec => []PickedIsCurrent
  <1>1. Init => ScanInv
    BY DEF Init, ScanInv, PickedIsCurrent
  <1>2. ScanInv => PickedIsCurrent
    BY DEF ScanInv
  <1>3. QED
    BY <1>1, <1>2, ScanStep, ConnectingTypeCorrect, PTL DEF Spec

-----------------------------------------------------------------------------
(* The chip mapping *)

\* Until requests overlap there is one at a time, none while a session begins; its
\* change is on its way to the driver once it is told.
MappingInv ==
    /\ session # "none" => phase # "ended"
    /\ phase = "ended" => queue = <<>>
    /\ ~raced =>
        /\ \A c, d \in Clients : update[c].step # "none" /\ update[d].step # "none" => c = d
        /\ session = "spawned" => ~Updating
        /\ \A c \in Clients :
              /\ update[c].step = "telling" => update[c].value = setting
              /\ update[c].step = "same" => update[c].value = setting
        /\ session # "none" /\ ~overridden /\ (\A c \in Clients : update[c].step # "telling")
              => MappingAhead = setting

LEMMA AheadAppended ==
    ASSUME queue \in Seq(BOOLEAN), NEW v \in BOOLEAN, queue' = Append(queue, v)
    PROVE  MappingAhead' = v
  <1>1. queue' # <<>> /\ Last(queue') = v
    BY DEF Last
  <1>2. QED
    BY <1>1 DEF MappingAhead

LEMMA AheadTaken ==
    ASSUME queue \in Seq(BOOLEAN), queue # <<>>, mapping' = Head(queue), queue' = Tail(queue)
    PROVE  MappingAhead' = MappingAhead
  <1>1. CASE Len(queue) = 1
    <2>1. Tail(queue) = <<>> /\ Last(queue) = Head(queue)
      BY <1>1 DEF Last
    <2>2. QED
      BY <2>1 DEF MappingAhead
  <1>2. CASE Len(queue) # 1
    <2>1. /\ Len(queue) \in Nat /\ Len(queue) >= 1 /\ Len(Tail(queue)) = Len(queue) - 1
          /\ DOMAIN Tail(queue) = 1..(Len(queue) - 1)
          /\ \A i \in DOMAIN Tail(queue) : Tail(queue)[i] = queue[i + 1]
      BY TailFacts
    <2>2. Len(queue) - 1 \in DOMAIN Tail(queue) /\ (Len(queue) - 1) + 1 = Len(queue)
      BY <1>2, <2>1
    <2>3. Tail(queue)[Len(queue) - 1] = queue[Len(queue)]
      BY <2>1, <2>2
    <2>4. Tail(queue) # <<>>
      <3>1. SUFFICES ASSUME Tail(queue) = <<>> PROVE FALSE
        OBVIOUS
      <3>2. Len(<<>>) = 0 /\ Len(Tail(queue)) # 0
        BY <1>2, <2>1
      <3>3. QED
        BY <3>1, <3>2
    <2>5. Last(Tail(queue)) = Last(queue)
      BY <2>1, <2>3 DEF Last
    <2>6. QED
      BY <2>4, <2>5 DEF MappingAhead
  <1>3. QED
    BY <1>1, <1>2

LEMMA MappingStep == ConnectingTypeOK /\ MappingInv /\ [Next]_vars => MappingInv'
  <1> SUFFICES ASSUME ConnectingTypeOK, MappingInv, [Next]_vars PROVE MappingInv'
    OBVIOUS
  <1>1. /\ queue \in Seq(BOOLEAN) /\ DOMAIN update = Clients
        /\ \A c \in Clients : update[c].value \in BOOLEAN
    BY DEF ConnectingTypeOK
  <1>2. ASSUME NEW c \in Clients, UpdateReads(c) PROVE MappingInv'
    <2>1. /\ update[c].step = "none"
          /\ raced' = (raced \/ Updating \/ session = "spawned")
          /\ UNCHANGED <<setting, session, overridden, phase, mapping, queue>>
      BY <1>2 DEF UpdateReads
    <2>2. PICK v \in BOOLEAN :
            update' = [update EXCEPT ![c] =
                          [step |-> IF v # setting THEN "changed" ELSE "same", value |-> v]]
      BY <1>2 DEF UpdateReads
    <2>3. /\ update'[c].step \in {"changed", "same"} /\ update'[c].value = v
          /\ update'[c].step = "same" => v = setting
          /\ \A d \in Clients \ {c} : update'[d] = update[d]
      BY <1>1, <2>2
    <2>4. ASSUME ~raced' PROVE ~raced /\ (\A d \in Clients : update[d].step = "none")
                               /\ session # "spawned"
      BY <2>1, <2>4 DEF Updating
    <2>5. MappingAhead' = MappingAhead
      BY <2>1 DEF MappingAhead
    <2>6. QED
      BY <2>1, <2>3, <2>4, <2>5 DEF MappingInv
  <1>3. ASSUME NEW c \in Clients, UpdatePublishes(c) PROVE MappingInv'
    <2>1. /\ update[c].step \in {"changed", "same"} /\ setting' = update[c].value
          /\ update' = [update EXCEPT ![c] =
                           IF @.step = "changed" THEN [@ EXCEPT !.step = "telling"] ELSE NoUpdate]
          /\ UNCHANGED <<session, raced, overridden, phase, mapping, queue>>
      BY <1>3 DEF UpdatePublishes
    <2>2. /\ \A d \in Clients \ {c} : update'[d] = update[d]
          /\ update[c].step = "same" => update'[c] = NoUpdate
          /\ update[c].step = "changed" => update'[c] = [update[c] EXCEPT !.step = "telling"]
      BY <1>1, <2>1
    <2>3. update[c].step = "changed"
            => update'[c].step = "telling" /\ update'[c].value = update[c].value
      BY <2>2 DEF ConnectingTypeOK
    <2>4. update[c].step = "same" => update'[c].step = "none"
      BY <2>2 DEF NoUpdate
    <2>5. MappingAhead' = MappingAhead /\ Updating
      BY <2>1 DEF MappingAhead, Updating
    <2>6. ASSUME ~raced PROVE \A d \in Clients \ {c} : update[d].step = "none"
      BY <2>1, <2>6 DEF MappingInv
    <2>7. QED
      BY <2>1, <2>2, <2>3, <2>4, <2>5, <2>6 DEF MappingInv
  <1>4. ASSUME NEW c \in Clients, UpdateTells(c) PROVE MappingInv'
    <2>1. /\ update[c].step = "telling" /\ update' = [update EXCEPT ![c] = NoUpdate]
          /\ UNCHANGED <<setting, session, raced, overridden, phase, mapping>>
      BY <1>4 DEF UpdateTells
    <2>2. /\ \A d \in Clients \ {c} : update'[d] = update[d]
          /\ update'[c].step = "none"
      BY <1>1, <2>1 DEF NoUpdate
    <2>3. CASE session = "stored" /\ phase # "ended"
      <3>1. queue' = Append(queue, update[c].value)
        BY <1>4, <2>3 DEF UpdateTells
      <3>2. MappingAhead' = update[c].value
        BY <1>1, <3>1, AheadAppended
      <3>3. ASSUME ~raced
            PROVE  (\A d \in Clients \ {c} : update[d].step = "none") /\ update[c].value = setting
        BY <2>1, <3>3 DEF MappingInv
      <3>4. phase' # "ended" /\ session' = "stored"
        BY <2>1, <2>3
      <3>5. QED
        BY <2>1, <2>2, <3>2, <3>3, <3>4 DEF MappingInv, Updating
    <2>4. CASE ~(session = "stored" /\ phase # "ended")
      <3>1. queue' = queue
        BY <1>4, <2>4 DEF UpdateTells
      <3>2. ASSUME ~raced
            PROVE  session = "none" /\ (\A d \in Clients \ {c} : update[d].step = "none")
        BY <2>1, <2>4, <3>2 DEF MappingInv, Updating, ConnectingTypeOK
      <3>3. QED
        BY <2>1, <2>2, <3>1, <3>2 DEF MappingInv, Updating
    <2>5. QED
      BY <2>3, <2>4
  <1>5. CASE ConnectSpawns
    <2>1. /\ session' = "spawned" /\ phase = "ended" /\ phase' \in {"looking", "confirming"}
          /\ raced' = Updating
          /\ (mapping' = setting \/ overridden' = TRUE)
          /\ UNCHANGED <<setting, update, queue>>
      BY <1>5 DEF ConnectSpawns, Resolving
    <2>2. queue' = <<>> /\ MappingAhead' = mapping'
      BY <2>1 DEF MappingInv, MappingAhead
    <2>3. QED
      BY <2>1, <2>2 DEF MappingInv, Updating
  <1>6. CASE ConnectStores
    <2>1. /\ session = "spawned" /\ session' = "stored"
          /\ UNCHANGED <<setting, update, raced, overridden, phase, mapping, queue>>
      BY <1>6 DEF ConnectStores
    <2>2. QED
      BY <2>1 DEF MappingInv, MappingAhead, Updating
  <1>7. CASE Disconnect
    <2>1. /\ session' = "none"
          /\ UNCHANGED <<setting, update, raced, overridden, phase, mapping, queue>>
      BY <1>7 DEF Disconnect
    <2>2. QED
      BY <2>1 DEF MappingInv, MappingAhead, Updating
  <1>8. CASE DriverEnds
    <2>1. /\ session = "none" /\ phase' = "ended" /\ queue' = <<>>
          /\ UNCHANGED <<setting, update, session, raced, overridden>>
      BY <1>8 DEF DriverEnds, daemon
    <2>2. QED
      BY <2>1 DEF MappingInv, Updating
  <1>9. CASE SetChipViaPutting
    <2>1. /\ queue # <<>> /\ mapping' = Head(queue) /\ queue' = Tail(queue)
          /\ phase = "serving"
          /\ UNCHANGED <<setting, update, session, raced, overridden, phase>>
      BY <1>9 DEF SetChipViaPutting, daemon
    <2>2. MappingAhead' = MappingAhead
      BY <1>1, <2>1, AheadTaken
    <2>3. QED
      BY <2>1, <2>2 DEF MappingInv, Updating
  <1>10. ASSUME UNCHANGED <<daemon, mapping, queue>>,
                (phase' = phase \/ (phase # "ended" /\ phase' # "ended"))
         PROVE  MappingInv'
    BY <1>10 DEF daemon, MappingInv, MappingAhead, Updating
  <1>11. CASE ScanStarts \/ Ask \/ ScanFails \/ ReplyArrives \/ WindowEnds \/ LookAgain
    BY <1>10, <1>11 DEF ScanStarts, Ask, ScanFails, ReplyArrives, WindowEnds, LookAgain
  <1>12. CASE Confirmed \/ NotConfirmed \/ TcpConnects \/ TcpFails \/ ConnectionFails \/ Readdress
    <2>1. /\ UNCHANGED <<daemon, mapping, queue>>
          /\ (phase' = phase \/ (phase # "ended" /\ phase' # "ended"))
      BY <1>12 DEF Confirmed, NotConfirmed, TcpConnects, TcpFails, ConnectionFails, Readdress
    <2>2. QED
      BY <1>10, <2>1
  <1>13. CASE Retry
    <2>1. UNCHANGED <<daemon, mapping, queue>> /\ phase = "backoff" /\ phase' # "ended"
      BY <1>13 DEF Retry, Resolving
    <2>2. QED
      BY <1>10, <2>1
  <1>14. CASE UNCHANGED vars
    <2>1. UNCHANGED <<daemon, mapping, queue>> /\ phase' = phase
      BY <1>14 DEF vars
    <2>2. QED
      BY <1>10, <2>1
  <1>15. QED
    BY <1>2, <1>3, <1>4, <1>5, <1>6, <1>7, <1>8, <1>9, <1>11, <1>12, <1>13, <1>14
       DEF Next, DriverStep, Quiet

\* A change of the mapping reaches the driver, whatever the driver is at: none made one
\* after the other is dropped while it scans, confirms or waits to try again.
THEOREM TheMappingIsKept == Spec => []MappingKept
  <1>1. Init => MappingInv
    BY DEF Init, MappingInv, NoUpdate, Updating
  <1>2. MappingInv => MappingKept
    BY DEF MappingInv, MappingKept, SessionAtRest, Updating
  <1>3. QED
    BY <1>1, <1>2, MappingStep, ConnectingTypeCorrect, PTL DEF Spec
=============================================================================
