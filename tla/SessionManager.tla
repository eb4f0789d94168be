--------------------------- MODULE SessionManager ---------------------------
(***************************************************************************)
(* The daemon's session manager: AppState::connect, disconnect,            *)
(* send_command and apply of crates/trakr-daemon/src/state.rs, called by   *)
(* concurrent API requests, with the simulated driver of                   *)
(* crates/trakr-core/src/simulated.rs and an outline of the hardware one   *)
(* (module SkytrakDriver has its detail).                                  *)
(*                                                                         *)
(* tokio's RwLock queues its waiters; here any waiter may be next, which   *)
(* allows every order the queue does.  An aborted task may go on until it  *)
(* next has to wait, so it ends at any later time.                         *)
(***************************************************************************)
EXTENDS Naturals, Sequences, FiniteSets

CONSTANTS
    Clients,        \* API requests in progress at once
    Kinds,          \* the kinds of session asked for
    Commands,       \* the commands sent through the API
    CommandCap,     \* capacity of a session's command channel (16 in the code)
    EventCap,       \* capacity of the event bus (EVENT_BUS_CAPACITY)
    MaxSessions,    \* bound: sessions started
    MaxRequests,    \* bound: requests
    MaxFaults       \* bound: lost links, and requests given up by the client

Command == {"arm", "disarm", "set", "chip", "fire_shot"}

ASSUME ManagerAssumption ==
    /\ Kinds \subseteq {"simulated", "skytrak"}
    /\ Commands \subseteq Command
    /\ CommandCap \in Nat \ {0} /\ EventCap \in Nat \ {0}
    /\ MaxSessions \in Nat /\ MaxRequests \in Nat /\ MaxFaults \in Nat
    /\ Clients \cap Nat = {}

\* A session is named by the driver task that serves it.
Session == 1..MaxSessions
None == 0

VARIABLES
    (* RwLock<Option<Session>> and the fields of the Session in it *)
    session,    \* None, or the current session
    device,     \* None, or the driver whose Connected was applied
    status,     \* the armed flag shown, and the driver that set it
    lastShot,   \* the driver and the sequence number of the shot shown
    readers,    \* clients that hold the lock for reading across an await
    writer,     \* the client that holds it for writing, or None
    (* tasks and channels of each session ever started *)
    driver,     \* kind, phase, armed flag and shot counter of the driver
    queue,      \* its command channel
    tracker,    \* whether its tracker task runs, and the events it has yet to read
    simTasks,   \* sessions whose Open Connect output runs
    aborted,    \* sessions whose tasks have been aborted
    abandoned,  \* sessions started by a request that was then given up
    (* requests *)
    request,    \* what each client's request is doing
    started, issued, faults     \* bounds

shown == <<session, device, status, lastShot>>
lock == <<readers, writer>>
tasks == <<driver, queue, tracker, simTasks, aborted, abandoned>>
bounds == <<started, issued, faults>>
managerVars == <<shown, lock, tasks, request, bounds>>

NoRequest == [op |-> "none", of |-> None]
NoDriver == [kind |-> "none", phase |-> "absent", armed |-> FALSE, sequence |-> 0]
NoTracker == [alive |-> FALSE, events |-> <<>>]
NothingShown == [armed |-> FALSE, from |-> None]
NoShotShown == [from |-> None, sequence |-> 0]

Init ==
    /\ session = None /\ device = None /\ status = NothingShown /\ lastShot = NoShotShown
    /\ readers = {} /\ writer = None
    /\ driver = [s \in Session |-> NoDriver]
    /\ queue = [s \in Session |-> <<>>]
    /\ tracker = [s \in Session |-> NoTracker]
    /\ simTasks = {} /\ aborted = {} /\ abandoned = {}
    /\ request = [c \in Clients |-> NoRequest]
    /\ started = 0 /\ issued = 0 /\ faults = 0

CanRead == writer = None
CanWrite == writer = None /\ readers = {}

-----------------------------------------------------------------------------
(* The event bus *)

\* An event that shows in the session: what the driver was when it sent it.
Event(type, s, d) ==
    [type |-> type, from |-> s, armed |-> d.armed, sequence |-> d.sequence]

\* Every subscriber has its own place in the bus. A tracker that falls behind
\* the capacity gets Lagged, which ends its loop.
Received(t, events) ==
    IF ~t.alive THEN t
    ELSE IF Len(t.events \o events) > EventCap THEN NoTracker
    ELSE [t EXCEPT !.events = @ \o events]

Emit(events) == tracker' = [s \in Session |-> Received(tracker[s], events)]

\* A driver that has returned no longer receives.
SetDriver(s, d, rest) ==
    /\ driver' = [driver EXCEPT ![s] = d]
    /\ queue' = [queue EXCEPT ![s] = IF d.phase = "ended" THEN <<>> ELSE rest]

-----------------------------------------------------------------------------
(* Requests *)

\* POST /v1/session: refused while there is a session. The lock is let go again.
ConnectCheck(c) ==
    /\ request[c] = NoRequest /\ issued < MaxRequests
    /\ CanRead
    /\ session = None
    /\ started + Cardinality({b \in Clients : request[b].op = "checked"}) < MaxSessions
    /\ request' = [request EXCEPT ![c] = [op |-> "checked", of |-> None]]
    /\ issued' = issued + 1
    /\ UNCHANGED <<shown, lock, tasks, started, faults>>

\* The driver task is spawned first, and runs at once.
SpawnDriver(c) ==
    /\ request[c].op = "checked"
    /\ started' = started + 1
    /\ \E kind \in Kinds :
        driver' = [driver EXCEPT ![started'] = [NoDriver EXCEPT !.kind = kind,
                                                                !.phase = "starting"]]
    /\ request' = [request EXCEPT ![c] = [op |-> "spawned", of |-> started']]
    /\ UNCHANGED <<shown, lock, queue, tracker, simTasks, aborted, abandoned, issued, faults>>

\* Then the sim output and the tracker subscribe to the bus, and are spawned.
SpawnConsumers(c) ==
    /\ request[c].op = "spawned"
    /\ LET s == request[c].of
       IN  /\ simTasks' = simTasks \cup {s}
           /\ tracker' = [tracker EXCEPT ![s] = [alive |-> TRUE, events |-> <<>>]]
           /\ request' = [request EXCEPT ![c] = [op |-> "storing", of |-> s]]
    /\ UNCHANGED <<shown, lock, driver, queue, aborted, abandoned, bounds>>

\* Mutant: the session is stored without waiting for the lock.
StoreUnlocked(c) ==
    /\ request[c].op = "storing"
    /\ session' = request[c].of
    /\ device' = None /\ status' = NothingShown /\ lastShot' = NoShotShown
    /\ aborted' = aborted \cup ({session} \ {None})
    /\ request' = [request EXCEPT ![c] = NoRequest]
    /\ UNCHANGED <<lock, driver, queue, tracker, simTasks, abandoned, bounds>>

\* `*guard = Some(Session { .. })`: a session that is there already is dropped,
\* and its tasks are aborted.
Store(c) ==
    /\ request[c].op = "storing"
    /\ CanWrite
    /\ session' = request[c].of
    /\ device' = None /\ status' = NothingShown /\ lastShot' = NoShotShown
    /\ aborted' = aborted \cup ({session} \ {None})
    /\ request' = [request EXCEPT ![c] = NoRequest]
    /\ UNCHANGED <<lock, driver, queue, tracker, simTasks, abandoned, bounds>>

\* Mutant: the session is taken while commands are still being sent to it.
DisconnectTakesEarly(c) ==
    /\ request[c] = NoRequest /\ issued < MaxRequests
    /\ CanRead
    /\ session # None
    /\ writer' = c
    /\ session' = None
    /\ device' = None /\ status' = NothingShown /\ lastShot' = NoShotShown
    /\ request' = [request EXCEPT ![c] = [op |-> "disconnecting", of |-> session]]
    /\ issued' = issued + 1
    /\ UNCHANGED <<readers, tasks, started, faults>>

\* DELETE /v1/session takes the session, then keeps the write lock while it waits
\* for room to send Disconnect.
DisconnectTakes(c) ==
    /\ request[c] = NoRequest /\ issued < MaxRequests
    /\ CanWrite
    /\ session # None
    /\ writer' = c
    /\ session' = None
    /\ device' = None /\ status' = NothingShown /\ lastShot' = NoShotShown
    /\ request' = [request EXCEPT ![c] = [op |-> "disconnecting", of |-> session]]
    /\ issued' = issued + 1
    /\ UNCHANGED <<readers, tasks, started, faults>>

\* Mutant: the tasks of the session are detached, as a dropped JoinHandle is.
DisconnectDetaches(c) ==
    /\ request[c].op = "disconnecting"
    /\ LET s == request[c].of
       IN  \/ /\ driver[s].phase # "ended" /\ Len(queue[s]) < CommandCap
              /\ queue' = [queue EXCEPT ![s] = Append(@, "disconnect")]
           \/ driver[s].phase = "ended" /\ UNCHANGED queue
    /\ writer' = None
    /\ request' = [request EXCEPT ![c] = NoRequest]
    /\ UNCHANGED <<shown, readers, driver, tracker, simTasks, aborted, abandoned, bounds>>

\* The Session is dropped right after: the driver may or may not see Disconnect.
DisconnectEnds(c) ==
    /\ request[c].op = "disconnecting"
    /\ LET s == request[c].of
       IN  /\ \/ /\ driver[s].phase # "ended" /\ Len(queue[s]) < CommandCap
                 /\ queue' = [queue EXCEPT ![s] = Append(@, "disconnect")]
              \/ driver[s].phase = "ended" /\ UNCHANGED queue
           /\ aborted' = aborted \cup {s}
    /\ writer' = None
    /\ request' = [request EXCEPT ![c] = NoRequest]
    /\ UNCHANGED <<shown, readers, driver, tracker, simTasks, abandoned, bounds>>

\* POST /v1/session/arm and the like: 404 without a session, else the read lock is
\* kept while the command waits for room.
CommandTaken(c, command) ==
    /\ request[c] = NoRequest /\ issued < MaxRequests
    /\ command # "fire_shot"
    /\ CanRead
    /\ session # None
    /\ readers' = readers \cup {c}
    /\ request' = [request EXCEPT ![c] = [op |-> command, of |-> session]]
    /\ issued' = issued + 1
    /\ UNCHANGED <<shown, writer, tasks, started, faults>>

\* POST /v1/session/shot first looks whether the session is a simulated one; one
\* whose device is not known yet counts as hardware.
FireShotCheck(c) ==
    /\ request[c] = NoRequest /\ issued < MaxRequests
    /\ "fire_shot" \in Commands
    /\ CanRead
    /\ session # None /\ device # None /\ driver[device].kind = "simulated"
    /\ request' = [request EXCEPT ![c] = [op |-> "may_fire", of |-> session]]
    /\ issued' = issued + 1
    /\ UNCHANGED <<shown, lock, tasks, started, faults>>

\* The lock was let go in between: the shot goes to the session there is now.
FireShotTaken(c) ==
    /\ request[c].op = "may_fire"
    /\ CanRead
    /\ IF session = None
       THEN request' = [request EXCEPT ![c] = NoRequest] /\ UNCHANGED readers
       ELSE /\ request' = [request EXCEPT ![c] = [op |-> "fire_shot", of |-> session]]
            /\ readers' = readers \cup {c}
    /\ UNCHANGED <<shown, writer, tasks, bounds>>

\* There is room; or the receiver is gone, and the answer is driver_task_gone.
SendEnds(c) ==
    /\ request[c].op \in Command
    /\ LET s == request[c].of
       IN  \/ /\ driver[s].phase # "ended" /\ Len(queue[s]) < CommandCap
              /\ queue' = [queue EXCEPT ![s] = Append(@, request[c].op)]
           \/ driver[s].phase = "ended" /\ UNCHANGED queue
    /\ readers' = readers \ {c}
    /\ request' = [request EXCEPT ![c] = NoRequest]
    /\ UNCHANGED <<shown, writer, driver, tracker, simTasks, aborted, abandoned, bounds>>

\* The client hangs up, and the handler is dropped where it waits: a lock it holds
\* is let go, a session it has taken is dropped, one it has not stored yet is not.
GiveUp(c) ==
    /\ request[c].op \in Command \cup {"storing", "disconnecting"}
    /\ faults < MaxFaults
    /\ faults' = faults + 1
    /\ readers' = readers \ {c}
    /\ writer' = IF writer = c THEN None ELSE writer
    /\ aborted' = IF request[c].op = "disconnecting" THEN aborted \cup {request[c].of}
                  ELSE aborted
    /\ abandoned' = IF request[c].op = "storing" THEN abandoned \cup {request[c].of}
                    ELSE abandoned
    /\ request' = [request EXCEPT ![c] = NoRequest]
    /\ UNCHANGED <<shown, driver, queue, tracker, simTasks, started, issued>>

-----------------------------------------------------------------------------
(* Tasks *)

\* The simulated driver is connected as soon as it runs; the hardware one looks
\* for its box first.
DriverStarts(s) ==
    /\ driver[s].phase = "starting"
    /\ IF driver[s].kind = "simulated"
       THEN /\ driver' = [driver EXCEPT ![s].phase = "serving"]
            /\ Emit(<<Event("connected", s, driver[s])>>)
       ELSE /\ driver' = [driver EXCEPT ![s].phase = "connecting"]
            /\ UNCHANGED tracker
    /\ UNCHANGED <<shown, lock, queue, simTasks, aborted, abandoned, request, bounds>>

\* One command of SimulatedDriver::run. A shot fires only while it is armed:
\* ShotStarted, which shows nothing in the session, and then the shot.
SimulatedHandles(s) ==
    LET c == Head(queue[s])
        d == driver[s]
        new == CASE c = "arm" -> [d EXCEPT !.armed = TRUE]
                 [] c = "disarm" -> [d EXCEPT !.armed = FALSE]
                 [] c = "fire_shot" /\ d.armed -> [d EXCEPT !.phase = "firing"]
                 [] c = "disconnect" -> [d EXCEPT !.phase = "ended"]
                 [] OTHER -> d
        report == Event("status", s, new)
    IN  /\ d.kind = "simulated" /\ d.phase = "serving" /\ queue[s] # <<>>
        /\ SetDriver(s, new, Tail(queue[s]))
        /\ Emit(CASE c = "arm" -> <<report, Event("ready", s, new)>>
                  [] c \in {"disarm", "set"} -> <<report>>
                  [] c = "disconnect" -> <<Event("disconnected", s, new)>>
                  [] OTHER -> <<>>)
        /\ UNCHANGED <<shown, lock, simTasks, aborted, abandoned, request, bounds>>

\* Mutant: the status is sent before the shot disarms the driver.
SimulatedStatusFirst(s) ==
    LET d == driver[s]
        new == [d EXCEPT !.phase = "serving", !.armed = FALSE, !.sequence = d.sequence + 1]
    IN  /\ d.phase = "firing"
        /\ SetDriver(s, new, queue[s])
        /\ Emit(<<Event("shot", s, new), Event("status", s, d)>>)
        /\ UNCHANGED <<shown, lock, simTasks, aborted, abandoned, request, bounds>>

\* The shot disarms it. Nothing is awaited between the two.
SimulatedShoots(s) ==
    LET d == driver[s]
        new == [d EXCEPT !.phase = "serving", !.armed = FALSE, !.sequence = d.sequence + 1]
    IN  /\ d.phase = "firing"
        /\ SetDriver(s, new, queue[s])
        /\ Emit(<<Event("shot", s, new), Event("status", s, new)>>)
        /\ UNCHANGED <<shown, lock, simTasks, aborted, abandoned, request, bounds>>

\* Mutant: the commands branch of select! is left out while the box is armed.
HardwareHandlesUnarmed(s) ==
    LET c == Head(queue[s])
        d == driver[s]
        new == CASE c = "arm" -> [d EXCEPT !.armed = TRUE]
                 [] c = "disconnect" -> [d EXCEPT !.phase = "ended"]
                 [] OTHER -> d
    IN  /\ d.kind = "skytrak" /\ d.phase = "serving" /\ ~d.armed /\ queue[s] # <<>>
        /\ SetDriver(s, new, Tail(queue[s]))
        /\ Emit(IF c \in {"arm", "disarm", "set"} THEN <<Event("status", s, new)>> ELSE <<>>)
        /\ UNCHANGED <<shown, lock, simTasks, aborted, abandoned, request, bounds>>

\* One command of the hardware driver, which takes them only while it has a link.
\* It says nothing when it is told to disconnect.
HardwareHandles(s) ==
    LET c == Head(queue[s])
        d == driver[s]
        new == CASE c = "arm" -> [d EXCEPT !.armed = TRUE]
                 [] c = "disarm" -> [d EXCEPT !.armed = FALSE]
                 [] c = "disconnect" -> [d EXCEPT !.phase = "ended"]
                 [] OTHER -> d
    IN  /\ d.kind = "skytrak" /\ d.phase = "serving" /\ queue[s] # <<>>
        /\ SetDriver(s, new, Tail(queue[s]))
        /\ Emit(IF c \in {"arm", "disarm", "set"} THEN <<Event("status", s, new)>> ELSE <<>>)
        /\ UNCHANGED <<shown, lock, simTasks, aborted, abandoned, request, bounds>>

HardwareConnects(s) ==
    /\ driver[s].phase = "connecting"
    /\ driver' = [driver EXCEPT ![s].phase = "serving"]
    /\ Emit(<<Event("connected", s, driver[s])>>)
    /\ UNCHANGED <<shown, lock, queue, simTasks, aborted, abandoned, request, bounds>>

\* Mutant: the armed flag outlives the connection.
HardwareLosesLinkArmed(s) ==
    /\ driver[s].kind = "skytrak" /\ driver[s].phase = "serving"
    /\ faults < MaxFaults
    /\ faults' = faults + 1
    /\ driver' = [driver EXCEPT ![s].phase = "connecting"]
    /\ Emit(<<Event("disconnected", s, driver'[s])>>)
    /\ UNCHANGED <<shown, lock, queue, simTasks, aborted, abandoned, request, started, issued>>

HardwareLosesLink(s) ==
    /\ driver[s].kind = "skytrak" /\ driver[s].phase = "serving"
    /\ faults < MaxFaults
    /\ faults' = faults + 1
    /\ driver' = [driver EXCEPT ![s].phase = "connecting", ![s].armed = FALSE]
    /\ Emit(<<Event("disconnected", s, driver'[s])>>)
    /\ UNCHANGED <<shown, lock, queue, simTasks, aborted, abandoned, request, started, issued>>

\* The Open Connect output of a session turns what the sim says into commands.
SimSends(s) ==
    /\ s \in simTasks
    /\ issued < MaxRequests
    /\ driver[s].phase # "ended" /\ Len(queue[s]) < CommandCap
    /\ queue' = [queue EXCEPT ![s] = Append(@, "set")]
    /\ issued' = issued + 1
    /\ UNCHANGED <<shown, lock, driver, tracker, simTasks, aborted, abandoned, request, started,
                   faults>>

\* apply, with the write lock, to whatever session there is now.
Apply(e) ==
    IF session = None THEN UNCHANGED shown
    ELSE /\ device' = IF e.type = "connected" THEN e.from ELSE device
         /\ status' = CASE e.type \in {"status", "ready"} -> [armed |-> e.armed, from |-> e.from]
                        [] e.type = "disconnected" -> [armed |-> FALSE, from |-> e.from]
                        [] OTHER -> status
         /\ lastShot' = IF e.type = "shot" THEN [from |-> e.from, sequence |-> e.sequence]
                        ELSE lastShot
         /\ UNCHANGED session

TrackerApplies(s) ==
    /\ tracker[s].events # <<>>
    /\ CanWrite
    /\ Apply(Head(tracker[s].events))
    /\ tracker' = [tracker EXCEPT ![s].events = Tail(@)]
    /\ UNCHANGED <<lock, driver, queue, simTasks, aborted, abandoned, request, bounds>>

\* Every sender is gone before the abort took effect: recv() returns None, which
\* only the simulated driver reports.
ChannelCloses(s) ==
    /\ driver[s].phase = "serving" /\ queue[s] = <<>>
    /\ s \in aborted /\ s \notin simTasks
    /\ SetDriver(s, [driver[s] EXCEPT !.phase = "ended"], <<>>)
    /\ Emit(IF driver[s].kind = "simulated" THEN <<Event("disconnected", s, driver[s])>>
            ELSE <<>>)
    /\ UNCHANGED <<shown, lock, simTasks, aborted, abandoned, request, bounds>>

\* The tasks of a dropped session stop, each where it next waits and without a word.
AbortTakesEffect(s) ==
    /\ s \in aborted
    /\ \/ /\ driver[s].phase \notin {"absent", "firing", "ended"}
          /\ SetDriver(s, [driver[s] EXCEPT !.phase = "ended"], <<>>)
          /\ UNCHANGED <<tracker, simTasks>>
       \/ /\ tracker[s].alive
          /\ tracker' = [tracker EXCEPT ![s] = NoTracker]
          /\ UNCHANGED <<driver, queue, simTasks>>
       \/ /\ s \in simTasks
          /\ simTasks' = simTasks \ {s}
          /\ UNCHANGED <<driver, queue, tracker>>
    /\ UNCHANGED <<shown, lock, aborted, abandoned, request, bounds>>

-----------------------------------------------------------------------------
Handler(c) ==
    SpawnDriver(c) \/ SpawnConsumers(c) \/ Store(c) \/ DisconnectEnds(c) \/ FireShotTaken(c)
        \/ SendEnds(c)

NewRequest(c) ==
    ConnectCheck(c) \/ DisconnectTakes(c) \/ FireShotCheck(c)
        \/ \E command \in Commands : CommandTaken(c, command)

DriverTask(s) ==
    DriverStarts(s) \/ SimulatedHandles(s) \/ SimulatedShoots(s) \/ HardwareHandles(s)
        \/ HardwareConnects(s) \/ ChannelCloses(s)

Task(s) ==
    DriverTask(s) \/ HardwareLosesLink(s) \/ SimSends(s) \/ TrackerApplies(s)
        \/ AbortTakesEffect(s)

\* Nothing is under way: no request, command or event waits.
Quiet ==
    /\ \A c \in Clients : request[c] = NoRequest
    /\ \A s \in Session : queue[s] = <<>> /\ tracker[s].events = <<>>
    /\ UNCHANGED managerVars

Next ==
    \/ \E c \in Clients : NewRequest(c) \/ Handler(c) \/ GiveUp(c)
    \/ \E s \in Session : Task(s)
    \/ Quiet

(***************************************************************************)
(* Fairness.  tokio runs every task that can run.  A lock is granted to    *)
(* its waiters in turn, so a request or a tracker that waits for it gets   *)
(* it if it is free again and again; so does a send that waits for room.   *)
(* HardwareConnects is among the fair steps: the box comes within reach.   *)
(***************************************************************************)
Fairness ==
    /\ \A c \in Clients : SF_managerVars(Handler(c))
    /\ \A s \in Session :
        /\ WF_managerVars(DriverTask(s))
        /\ SF_managerVars(TrackerApplies(s))
        /\ WF_managerVars(AbortTakesEffect(s))

Spec == Init /\ [][Next]_managerVars
FairSpec == Spec /\ Fairness

-----------------------------------------------------------------------------
Op == Command \cup {"none", "checked", "spawned", "storing", "disconnecting", "may_fire"}
Phase == {"absent", "starting", "connecting", "serving", "firing", "ended"}
EventType == {"connected", "status", "ready", "shot", "disconnected"}

\* Who holds the lock, and how: a request that sends a command holds it for reading,
\* one that disconnects for writing, and never both at once.
LockHeld ==
    /\ readers = {c \in Clients : request[c].op \in Command}
    /\ \A c \in Clients : request[c].op = "disconnecting" <=> writer = c
    /\ writer # None => readers = {}

\* Types, with the lock and the channels within their bounds (state.rs:84, 162-182).
ManagerTypeOK ==
    /\ LockHeld
    /\ \A s \in Session : Len(queue[s]) <= CommandCap /\ Len(tracker[s].events) <= EventCap
    /\ session \in Session \cup {None}
    /\ device \in Session \cup {None}
    /\ status \in [armed : BOOLEAN, from : Session \cup {None}]
    /\ lastShot \in [from : Session \cup {None}, sequence : Nat]
    /\ readers \subseteq Clients /\ writer \in Clients \cup {None}
    /\ driver \in [Session -> [kind : {"simulated", "skytrak", "none"}, phase : Phase,
                               armed : BOOLEAN, sequence : Nat]]
    /\ queue \in [Session -> Seq(Command \cup {"disconnect"})]
    /\ tracker \in [Session ->
                       [alive : BOOLEAN,
                        events : Seq([type : EventType, from : Session, armed : BOOLEAN,
                                      sequence : Nat])]]
    /\ simTasks \subseteq Session /\ aborted \subseteq Session /\ abandoned \subseteq Session
    /\ request \in [Clients -> [op : Op, of : Session \cup {None}]]
    /\ started \in 0..MaxSessions /\ issued \in Nat /\ faults \in Nat

\* No driver runs on without an owner: it serves the current session, belongs to a
\* request that is still starting or ending it, has been aborted, or was started by
\* a request its client gave up before the session was stored (state.rs:251-263).
\* Two connects that both passed the check do not leave the loser's tasks behind.
EveryDriverHasAnOwner ==
    \A s \in Session :
        driver[s].phase \notin {"absent", "ended"} /\ s \notin aborted =>
            \/ session = s
            \/ \E c \in Clients : request[c].of = s
                                    /\ request[c].op \in {"spawned", "storing", "disconnecting"}
            \/ s \in abandoned

\* A command waits for room in the channel of the session it was accepted for, and
\* that session stays the current one meanwhile: neither DELETE nor a second connect
\* takes it away from under the send (state.rs:162-172).
CommandsStayCurrent ==
    \A c \in Clients : request[c].op \in Command => session = request[c].of

\* What GET /v1/session shows of a simulated device follows the device: once its
\* events are applied, the armed flag shown is its own.  A shot disarms it and the
\* session says so; a Ready does not outlive the arming it reports.  (A second
\* connect spoils this before it is stored: its tracker applies the same events
\* again, later.)
StatusFollowsDevice ==
    session # None /\ started = 1 /\ tracker[session].alive =>
        \/ driver[session].kind # "simulated"
        \/ tracker[session].events # <<>>
        \/ status.armed = driver[session].armed

\* Every accepted request is answered, even when the command channel is full and the
\* driver does not read it for want of a link, provided the box comes within reach.
RequestsReturn == \A c \in Clients : request[c] # NoRequest ~> request[c] = NoRequest

\* Once its driver is connected and every event has been applied, the session shows
\* the device ("Current device + status", docs/api.md:23).
DeviceIsKnown ==
    session # None =>
        \/ driver[session].phase # "serving"
        \/ ~tracker[session].alive \/ tracker[session].events # <<>>
        \/ device # None

\* What the events of each driver say, as LaunchMonitor puts it.
Online(s) ==
    CASE driver[s].phase \in {"absent", "starting", "connecting"} -> "down"
      [] driver[s].phase \in {"serving", "firing"} -> "up"
      [] OTHER -> "over"

Struck(s) == driver[s].phase = "firing"

Monitor(s) == INSTANCE LaunchMonitor WITH
    online <- Online(s),
    strike <- Struck(s),
    armed <- (Online(s) = "up" /\ driver[s].armed),
    sequence <- (IF Online(s) = "up" THEN driver[s].sequence ELSE 0),
    tally <- [started |-> driver[s].sequence + (IF Struck(s) THEN 1 ELSE 0),
              shots |-> driver[s].sequence, misreads |-> 0]

\* Every driver a session is started with, the simulated one included, is a launch
\* monitor (module LaunchMonitor): it speaks only while connected, answers each strike
\* once, is disarmed by it, numbers its shots from 1, and ends for good, though its
\* session may be dropped and its task aborted at any time.
DriversAreLaunchMonitors ==
    /\ \A s \in Session : Monitor(s)!Init
    /\ [][\A s \in Session :
              driver'[s] # driver[s] =>
                  Monitor(s)!Next \/ UNCHANGED Monitor(s)!lmVars]_managerVars
=============================================================================
