----------------------------- MODULE Connecting -----------------------------
(***************************************************************************)
(* How a session comes to be served: AppState::connect and                 *)
(* update_chip_settings of crates/trakr-daemon/src/state.rs, which run at  *)
(* the same time, and what the driver does before it has a link, while     *)
(* commands wait: discover of crates/trakr-skytrak/src/discovery.rs,       *)
(* resolve, confirm_udp and the TCP connect of session.rs.                 *)
(*                                                                         *)
(* Boxes have names and, on some network, an address each; addresses are   *)
(* leased anew now and then.  One session at a time is modelled, and it    *)
(* starts after the tasks of the one before have ended (SessionManager has *)
(* their overlap).  Of the commands only SetChipViaPutting appears, which  *)
(* is known by its value.                                                  *)
(***************************************************************************)
EXTENDS Integers, SequencesExt

CONSTANTS
    Clients,        \* POST /v1/settings requests at once
    Overrides,      \* values of chip_via_putting given with POST /v1/session
    Boxes, Addresses, Networks,
    NetworkOf,      \* the network of each address
    Interfaces,     \* networks the host is on
    Explicit,       \* networks of the broadcast addresses given in the request
    Targets,        \* what the requests ask to connect to
    CommandCap,     \* capacity of the command channel (16 in the code)
    Attempts,       \* of confirm_udp (5 in the code)
    MaxUpdates, MaxConnects,    \* bounds: requests
    MaxFaults       \* bound: lost or failed datagrams, links, interfaces, leases

Nobody == "nobody"
DiscoveredBox == [name : Boxes, address : Addresses]
NoBox == [name |-> Nobody, address |-> Nobody]
Discover == NoBox   \* neither name nor address given

ASSUME ConnectingAssumption ==
    /\ Overrides \subseteq BOOLEAN
    /\ Nobody \notin Boxes \cup Addresses
    /\ NetworkOf \in [Addresses -> Networks]
    /\ Interfaces \subseteq Networks /\ Explicit \subseteq Networks
    /\ Targets \subseteq {Discover} \cup DiscoveredBox
    /\ CommandCap \in Nat \ {0} /\ Attempts \in Nat \ {0}
    /\ MaxUpdates \in Nat /\ MaxConnects \in Nat /\ MaxFaults \in Nat

VARIABLES
    (* the daemon *)
    setting,    \* chip_settings.chip_via_putting
    update,     \* what each settings request is doing
    session,    \* "none", "spawned" by a connect that has yet to store it, or "stored"
    (* the driver *)
    target, phase, mapping,     \* mapping: SkytrakDriver::chip_via_putting
    queue,      \* its command channel
    toAsk,      \* broadcast addresses discover has yet to send to
    found,      \* its answers
    picked,     \* what resolve returned
    attempt,    \* of confirm_udp
    served,     \* the box at the other end of the TCP link
    (* the networks *)
    lease,      \* the box at each address
    (* bounds *)
    updates, connects, faults,
    (* history *)
    said,       \* the mapping the user last asked for
    raced,      \* requests overlapped, in this session or as it began
    overridden, \* the session began with a mapping of its own
    heard,      \* the boxes that have answered this scan; after it, of them the one picked
    moved       \* leases have changed since the box was confirmed

daemon == <<setting, update, session, updates, connects, said, raced, overridden>>
scan == <<toAsk, found, heard>>
world == <<lease, moved>>
vars == <<daemon, target, phase, mapping, queue, scan, picked, attempt, served, world, faults>>

NoUpdate == [step |-> "none", value |-> TRUE]
Updating == \E c \in Clients : update[c].step # "none"

\* No two addresses have the same box.
Leases ==
    {l \in [Addresses -> Boxes \cup {Nobody}] :
        \A a, b \in Addresses : l[a] = l[b] => a = b \/ l[a] = Nobody}

Init ==
    /\ setting \in BOOLEAN /\ said = setting
    /\ update = [c \in Clients |-> NoUpdate]
    /\ session = "none"
    /\ target = Discover /\ phase = "ended" /\ mapping = TRUE /\ queue = <<>>
    /\ toAsk = {} /\ found = <<>> /\ heard = {}
    /\ picked = NoBox /\ attempt = 0 /\ served = Nobody
    /\ lease \in Leases /\ moved = FALSE
    /\ updates = 0 /\ connects = 0 /\ faults = 0
    /\ raced = FALSE /\ overridden = FALSE

Fault == faults < MaxFaults /\ faults' = faults + 1

-----------------------------------------------------------------------------
(* POST /v1/settings: update_chip_settings *)

\* The settings are read, and compared with what is asked for.
UpdateReads(c) ==
    /\ update[c].step = "none" /\ updates < MaxUpdates
    /\ updates' = updates + 1
    /\ \E v \in BOOLEAN :
        update' = [update EXCEPT ![c] =
                      [step |-> IF v # setting THEN "changed" ELSE "same", value |-> v]]
    /\ raced' = (raced \/ Updating \/ session = "spawned")
    /\ UNCHANGED <<setting, session, connects, said, overridden, target, phase, mapping, queue,
                   scan, picked, attempt, served, world, faults>>

\* send_replace, whether anything changed or not.
UpdatePublishes(c) ==
    /\ update[c].step \in {"changed", "same"}
    /\ setting' = update[c].value
    /\ said' = update[c].value
    /\ update' = [update EXCEPT ![c] =
                     IF @.step = "changed" THEN [@ EXCEPT !.step = "telling"] ELSE NoUpdate]
    /\ UNCHANGED <<session, updates, connects, raced, overridden, target, phase, mapping, queue,
                   scan, picked, attempt, served, world, faults>>

\* Mutant: the command does not wait for a driver that is still looking for its box.
UpdateTellsServing(c) ==
    /\ update[c].step = "telling"
    /\ IF session = "stored" /\ phase = "serving"
       THEN Len(queue) < CommandCap /\ queue' = Append(queue, update[c].value)
       ELSE UNCHANGED queue
    /\ update' = [update EXCEPT ![c] = NoUpdate]
    /\ UNCHANGED <<setting, session, updates, connects, said, raced, overridden, target, phase,
                   mapping, scan, picked, attempt, served, world, faults>>

\* send_command waits for room; without a session, or without a driver any more, the
\* command is dropped.
UpdateTells(c) ==
    /\ update[c].step = "telling"
    /\ IF session = "stored" /\ phase # "ended"
       THEN Len(queue) < CommandCap /\ queue' = Append(queue, update[c].value)
       ELSE UNCHANGED queue
    /\ update' = [update EXCEPT ![c] = NoUpdate]
    /\ UNCHANGED <<setting, session, updates, connects, said, raced, overridden, target, phase,
                   mapping, scan, picked, attempt, served, world, faults>>

-----------------------------------------------------------------------------
(* POST and DELETE /v1/session *)

\* What the driver does first: resolve.
Resolving(t) ==
    IF t = Discover
    THEN /\ phase' = "looking" /\ picked' = NoBox
    ELSE /\ phase' = "confirming" /\ picked' = t

\* connect: the mapping of the request, or else of the settings, is read and the driver
\* is spawned with it.
ConnectSpawns ==
    /\ session = "none" /\ phase = "ended" /\ connects < MaxConnects
    /\ connects' = connects + 1
    /\ session' = "spawned"
    /\ \E t \in Targets : target' = t /\ Resolving(t)
    /\ \/ mapping' = setting /\ overridden' = FALSE
       \/ mapping' \in Overrides /\ overridden' = TRUE
    /\ said' = mapping'
    /\ raced' = Updating
    /\ UNCHANGED <<setting, update, updates, queue, scan, attempt, served, world, faults>>

ConnectStores ==
    /\ session = "spawned"
    /\ session' = "stored"
    /\ UNCHANGED <<setting, update, updates, connects, said, raced, overridden, target, phase,
                   mapping, queue, scan, picked, attempt, served, world, faults>>

\* The session is dropped, which aborts the driver: it need not read the Disconnect.
Disconnect ==
    /\ session = "stored"
    /\ session' = "none"
    /\ UNCHANGED <<setting, update, updates, connects, said, raced, overridden, target, phase,
                   mapping, queue, scan, picked, attempt, served, world, faults>>

DriverEnds ==
    /\ session = "none" /\ phase # "ended"
    /\ phase' = "ended"
    /\ target' = NoBox /\ queue' = <<>>
    /\ toAsk' = {} /\ found' = <<>> /\ heard' = {}
    /\ picked' = NoBox /\ attempt' = 0 /\ served' = Nobody
    /\ UNCHANGED <<daemon, mapping, world, faults>>

-----------------------------------------------------------------------------
(* discover *)

Limited == "255.255.255.255"

\* local_broadcast_addresses and the addresses given; failing both, the limited one.
AddressesToAsk(up) == IF up \cup Explicit = {} THEN {Limited} ELSE up \cup Explicit

\* Some interfaces may be down just now.
ScanStarts ==
    /\ phase = "looking"
    /\ phase' = "asking"
    /\ \/ toAsk' = AddressesToAsk(Interfaces) /\ UNCHANGED faults
       \/ Fault /\ \E up \in SUBSET Interfaces : toAsk' = AddressesToAsk(up)
    /\ heard' = {}
    /\ UNCHANGED <<daemon, target, mapping, queue, found, picked, attempt, served, world>>

\* send_to: the boxes on that network answer, unless a datagram is lost.
Ask ==
    /\ phase = "asking"
    /\ \E n \in toAsk :
        LET asked == {a \in Addresses : lease[a] # Nobody /\ n \in {NetworkOf[a], Limited}}
        IN  /\ toAsk' = toAsk \ {n}
            /\ \E answering \in SUBSET asked :
                /\ heard' = heard \cup {[name |-> lease[a], address |-> a] : a \in answering}
                /\ IF answering = asked THEN UNCHANGED faults ELSE Fault
    /\ phase' = IF toAsk' = {} THEN "listening" ELSE phase
    /\ UNCHANGED <<daemon, target, mapping, queue, found, picked, attempt, served, world>>

\* Mutant: what a scan that failed has found is kept.
ScanFailsKeeping ==
    /\ phase \in {"asking", "listening"}
    /\ Fault
    /\ phase' = "pause" /\ toAsk' = {} /\ heard' = {}
    /\ UNCHANGED <<daemon, target, mapping, queue, found, picked, attempt, served, world>>

\* The first send or receive that fails ends the scan, with what it has found.
ScanFails ==
    /\ phase \in {"asking", "listening"}
    /\ Fault
    /\ phase' = "pause" /\ toAsk' = {} /\ found' = <<>> /\ heard' = {}
    /\ UNCHANGED <<daemon, target, mapping, queue, picked, attempt, served, world>>

AddressesFound == {found[i].address : i \in DOMAIN found}

\* A second answer from one address is passed over, and so is what is no status packet.
ReplyArrives ==
    /\ phase = "listening"
    /\ \E box \in heard :
        /\ box.address \notin AddressesFound
        /\ found' = Append(found, box)
    /\ UNCHANGED <<daemon, target, phase, mapping, queue, toAsk, heard, picked, attempt, served,
                   world, faults>>

\* resolve takes the first answer, whoever it is from, or tries again in a second. An
\* answer may be too late.
WindowEnds ==
    /\ phase = "listening"
    /\ IF \A box \in heard : box.address \in AddressesFound THEN UNCHANGED faults ELSE Fault
    /\ IF found = <<>>
       THEN phase' = "pause" /\ UNCHANGED picked
       ELSE phase' = "confirming" /\ picked' = Head(found)
    /\ found' = <<>> /\ heard' = heard \cap {picked'}
    /\ UNCHANGED <<daemon, target, mapping, queue, toAsk, attempt, served, world>>

LookAgain ==
    /\ phase = "pause"
    /\ phase' = "looking"
    /\ UNCHANGED <<daemon, target, mapping, queue, scan, picked, attempt, served, world, faults>>

-----------------------------------------------------------------------------
(* connect_and_serve, up to its loop; run, which tries again *)

\* Mutant: any box at the address will do.
ConfirmedByAny ==
    /\ phase = "confirming"
    /\ lease[picked.address] # Nobody
    /\ phase' = "pacing" /\ attempt' = 0 /\ moved' = FALSE
    /\ UNCHANGED <<daemon, target, mapping, queue, scan, picked, served, lease, faults>>

\* confirm_udp: the box at the address answers with the name expected.
Confirmed ==
    /\ phase = "confirming"
    /\ lease[picked.address] = picked.name
    /\ phase' = "pacing" /\ attempt' = 0 /\ moved' = FALSE
    /\ UNCHANGED <<daemon, target, mapping, queue, scan, picked, served, lease, faults>>

\* Mutant: an attempt too many.
ConfirmsOn ==
    /\ phase = "confirming"
    /\ IF lease[picked.address] = picked.name THEN Fault ELSE UNCHANGED faults
    /\ attempt' = attempt + 1
    /\ phase' = IF attempt' = Attempts + 1 THEN "backoff" ELSE phase
    /\ UNCHANGED <<daemon, target, mapping, queue, scan, picked, served, world>>

\* Another name, another packet or nothing within four seconds: one attempt less.
NotConfirmed ==
    /\ phase = "confirming"
    /\ IF lease[picked.address] = picked.name THEN Fault ELSE UNCHANGED faults
    /\ attempt' = (attempt + 1) % Attempts
    /\ phase' = IF attempt' = 0 THEN "backoff" ELSE phase
    /\ UNCHANGED <<daemon, target, mapping, queue, scan, picked, served, world>>

\* A second later, the TCP connect to whoever is at the address now.
TcpConnects ==
    /\ phase = "pacing"
    /\ lease[picked.address] # Nobody
    /\ phase' = "serving" /\ served' = lease[picked.address]
    /\ UNCHANGED <<daemon, target, mapping, queue, scan, picked, attempt, world, faults>>

\* Nobody is there any more.
TcpFails ==
    /\ phase = "pacing"
    /\ lease[picked.address] = Nobody
    /\ phase' = "backoff"
    /\ UNCHANGED <<daemon, target, mapping, queue, scan, picked, attempt, served, world, faults>>

\* An I/O error in any of the three, or on a link that was up.
ConnectionFails ==
    /\ phase \in {"confirming", "pacing", "serving"}
    /\ IF phase = "serving" /\ lease[picked.address] # served THEN UNCHANGED faults ELSE Fault
    /\ phase' = "backoff" /\ attempt' = 0 /\ served' = Nobody
    /\ UNCHANGED <<daemon, target, mapping, queue, scan, picked, world>>

\* Mutant: run goes back to the box it had.
RetrySameBox ==
    /\ phase = "backoff"
    /\ phase' = "confirming"
    /\ UNCHANGED <<daemon, target, mapping, queue, scan, picked, attempt, served, world, faults>>

\* After two seconds, from resolve on.
Retry ==
    /\ phase = "backoff"
    /\ Resolving(target)
    /\ UNCHANGED <<daemon, target, mapping, queue, scan, attempt, served, world, faults>>

\* Commands wait until there is a link.
SetChipViaPutting ==
    /\ phase = "serving" /\ queue # <<>>
    /\ mapping' = Head(queue) /\ queue' = Tail(queue)
    /\ UNCHANGED <<daemon, target, phase, scan, picked, attempt, served, world, faults>>

-----------------------------------------------------------------------------
\* The networks lease addresses anew.
Readdress ==
    /\ Fault
    /\ lease' \in Leases \ {lease}
    /\ moved' = TRUE
    /\ UNCHANGED <<daemon, target, phase, mapping, queue, scan, picked, attempt, served>>

Settled ==
    /\ ~Updating /\ session # "spawned" /\ queue = <<>>
    /\ phase = (IF session = "stored" THEN "serving" ELSE "ended")

\* Nothing is under way.
Quiet == Settled /\ UNCHANGED vars

DriverStep ==
    ScanStarts \/ Ask \/ ReplyArrives \/ WindowEnds \/ LookAgain \/ Confirmed \/ NotConfirmed
        \/ TcpConnects \/ TcpFails \/ Retry \/ SetChipViaPutting

Next ==
    \/ \E c \in Clients : UpdateReads(c) \/ UpdatePublishes(c) \/ UpdateTells(c)
    \/ ConnectSpawns \/ ConnectStores \/ Disconnect \/ DriverEnds
    \/ DriverStep \/ ScanFails \/ ConnectionFails
    \/ Readdress
    \/ Quiet

(***************************************************************************)
(* Fairness.  tokio runs the tasks that can run, and every wait of the     *)
(* driver has a timeout.  That boxes answer, in time, but for a bounded    *)
(* number of faults is in the guards.                                      *)
(***************************************************************************)
Fairness ==
    /\ WF_vars(DriverStep) /\ WF_vars(ConnectStores) /\ WF_vars(DriverEnds)
    /\ \A c \in Clients : WF_vars(UpdatePublishes(c) \/ UpdateTells(c))

Spec == Init /\ [][Next]_vars
FairSpec == Spec /\ Fairness

-----------------------------------------------------------------------------
Phase ==
    {"looking", "asking", "listening", "pause", "confirming", "pacing", "serving", "backoff",
     "ended"}

ConnectingTypeOK ==
    /\ setting \in BOOLEAN /\ said \in BOOLEAN
    /\ raced \in BOOLEAN /\ overridden \in BOOLEAN /\ moved \in BOOLEAN
    /\ update \in [Clients -> [step : {"none", "changed", "same", "telling"},
                               value : BOOLEAN]]
    /\ session \in {"none", "spawned", "stored"}
    /\ target \in {Discover} \cup DiscoveredBox
    /\ phase \in Phase
    /\ mapping \in BOOLEAN
    /\ queue \in Seq(BOOLEAN) /\ Len(queue) <= CommandCap
    /\ toAsk \subseteq Networks \cup {Limited}
    /\ found \in Seq(DiscoveredBox)
    /\ heard \subseteq DiscoveredBox
    /\ picked \in DiscoveredBox \cup {NoBox}
    /\ attempt \in 0..(Attempts - 1)
    /\ served \in Boxes \cup {Nobody}
    /\ lease \in Leases
    /\ updates \in 0..MaxUpdates /\ connects \in 0..MaxConnects /\ faults \in 0..MaxFaults

\* The mapping the driver will have once it has read its commands.
MappingAhead == IF queue = <<>> THEN mapping ELSE Last(queue)

SessionAtRest == session = "stored" /\ ~Updating

\* The driver's chip mapping is, or is about to be, the one of the settings, however long
\* it looks for its box and however often its link breaks, unless the session was started
\* with a mapping of its own, or settings requests overlapped each other or the connect
\* (state.rs:118-131 and 195-197).
MappingKept == SessionAtRest /\ ~raced /\ ~overridden => MappingAhead = setting

\* "if a session is connected, applies `chip_via_putting` immediately" (state.rs:103-104):
\* without any overlap of requests, the mapping is the one last asked for.
MappingApplied == SessionAtRest /\ ~raced => MappingAhead = said

\* The device a session announces is the one it is connected to: the box at the other end
\* of the link is the one that was named, unless addresses were leased anew after it was
\* confirmed (session.rs:193-206).
DeviceIsNamed == phase = "serving" => served = picked.name \/ moved

\* A driver that discovers connects to a box that answered its latest scan, also after a
\* lost link; one that was told its box stays with it (session.rs:163-181).
PickedIsCurrent ==
    phase \in {"confirming", "pacing", "serving"} =>
        IF target = Discover THEN picked \in heard ELSE picked = target

InReach ==
    IF target = Discover
    THEN \E a \in Addresses : lease[a] # Nobody /\ NetworkOf[a] \in Interfaces \cup Explicit
    ELSE lease[target.address] = target.name

\* A session is served as long as its box, or for one that discovers any box, is within
\* reach, after failed scans, silent boxes, lost links and new addresses, and the settings
\* requests made meanwhile have then had their effect (session.rs:133-160).
BoxIsServed ==
    session = "stored" /\ InReach
        ~> \/ session # "stored" \/ ~InReach
           \/ phase = "serving" /\ (raced \/ overridden \/ Updating \/ mapping = setting)
=============================================================================
