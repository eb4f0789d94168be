------------------------ MODULE SessionManager_proofs ------------------------
(* Proofs about SessionManager, for every value of its constants. *)
EXTENDS SessionManager, SequenceFacts, FiniteSetTheorems, TLAPS

(* The part of the types the proofs need. *)
Driver == [kind : {"simulated", "skytrak", "none"}, phase : Phase, armed : BOOLEAN,
           sequence : Nat]

Shape ==
    /\ request \in [Clients -> [op : Op, of : Nat]]
    /\ session \in Nat /\ started \in Nat
    /\ driver \in [Session -> Driver]

\* Two requests differ by what one of them does.
LEMMA RequestSet ==
    ASSUME request \in [Clients -> [op : Op, of : Nat]], NEW c \in Clients,
           NEW r, request' = [request EXCEPT ![c] = r]
    PROVE  /\ request'[c] = r
           /\ \A b \in Clients \ {c} : request'[b] = request[b]
           /\ r \in [op : Op, of : Nat] => request' \in [Clients -> [op : Op, of : Nat]]
  OBVIOUS

LEMMA DriverFields ==
    ASSUME NEW d \in Driver
    PROVE  /\ [d EXCEPT !.armed = TRUE] \in Driver
           /\ [d EXCEPT !.armed = FALSE] \in Driver
           /\ [d EXCEPT !.phase = "firing"] \in Driver
           /\ [d EXCEPT !.phase = "ended"] \in Driver
  BY DEF Driver, Phase

LEMMA AfterShot ==
    ASSUME NEW d \in Driver, NEW new,
           new = [d EXCEPT !.phase = "serving", !.armed = FALSE, !.sequence = d.sequence + 1]
    PROVE  /\ new \in Driver /\ new.kind = d.kind /\ new.phase = "serving"
           /\ new.armed = FALSE /\ new.sequence = d.sequence + 1
  <1>1. d.sequence + 1 \in Nat /\ "serving" \in Phase
    BY DEF Driver, Phase
  <1>2. ASSUME NEW n \in Nat, new = [d EXCEPT !.phase = "serving", !.armed = FALSE,
                                              !.sequence = n]
        PROVE  /\ new \in Driver /\ new.kind = d.kind /\ new.phase = "serving"
               /\ new.armed = FALSE /\ new.sequence = n
    BY <1>1, <1>2 DEF Driver
  <1>3. QED
    BY <1>1, <1>2

LEMMA NoClientIsNone == None \notin Clients
  BY ManagerAssumption DEF None

\* Every step has the shape of requests, session and drivers kept.
LEMMA ShapeKept == Spec => []Shape
  <1>1. Init => Shape
    BY DEF Init, Shape, Driver, NoDriver, NoRequest, None, Op, Phase, Command
  <1>2. ASSUME Shape, [Next]_managerVars PROVE Shape'
    <2> USE <1>2
    <2>1. CASE UNCHANGED managerVars
      BY <2>1 DEF Shape, managerVars, shown, tasks, bounds
    <2>2. ASSUME NEW c \in Clients, NewRequest(c) PROVE Shape'
      <3>1. CASE ConnectCheck(c)
        BY <3>1 DEF ConnectCheck, Shape, shown, tasks, Op, None
      <3>2. CASE DisconnectTakes(c)
        BY <3>2 DEF DisconnectTakes, Shape, shown, tasks, Op, None
      <3>3. CASE FireShotCheck(c)
        BY <3>3 DEF FireShotCheck, Shape, shown, tasks, Op, None
      <3>4. ASSUME NEW command \in Commands, CommandTaken(c, command) PROVE Shape'
        BY <3>4, ManagerAssumption DEF CommandTaken, Shape, shown, tasks, Op, None
      <3>5. QED
        BY <2>2, <3>1, <3>2, <3>3, <3>4 DEF NewRequest
    <2>3. ASSUME NEW c \in Clients, Handler(c) PROVE Shape'
      <3>1. CASE SpawnDriver(c)
        <4>1. PICK kind \in Kinds :
                 driver' = [driver EXCEPT ![started'] = [NoDriver EXCEPT !.kind = kind,
                                                                         !.phase = "starting"]]
          BY <3>1 DEF SpawnDriver
        <4>2. [NoDriver EXCEPT !.kind = kind, !.phase = "starting"] \in Driver
          BY ManagerAssumption DEF NoDriver, Driver, Phase
        <4>3. driver' \in [Session -> Driver]
          BY <4>1, <4>2 DEF Shape
        <4>4. QED
          BY <3>1, <4>3 DEF SpawnDriver, Shape, shown, Op
      <3>2. CASE SpawnConsumers(c)
        BY <3>2 DEF SpawnConsumers, Shape, shown, bounds, Op
      <3>3. CASE Store(c)
        BY <3>3 DEF Store, Shape, bounds, NoRequest, None, Op
      <3>4. CASE DisconnectEnds(c)
        BY <3>4 DEF DisconnectEnds, Shape, shown, bounds, NoRequest, None, Op
      <3>5. CASE FireShotTaken(c)
        BY <3>5 DEF FireShotTaken, Shape, shown, tasks, bounds, NoRequest, None, Op, Command
      <3>6. CASE SendEnds(c)
        BY <3>6 DEF SendEnds, Shape, shown, bounds, NoRequest, None, Op
      <3>7. QED
        BY <2>3, <3>1, <3>2, <3>3, <3>4, <3>5, <3>6 DEF Handler
    <2>4. ASSUME NEW c \in Clients, GiveUp(c) PROVE Shape'
      BY <2>4 DEF GiveUp, Shape, shown, NoRequest, None, Op
    <2>5. ASSUME NEW s \in Session, Task(s) PROVE Shape'
      <3>1. UNCHANGED <<request, started>>
        BY <2>5 DEF Task, DriverTask, DriverStarts, SimulatedHandles, SimulatedShoots,
              HardwareHandles,
              HardwareConnects, ChannelCloses, HardwareLosesLink, SimSends, TrackerApplies,
              AbortTakesEffect, bounds
      <3>2. UNCHANGED session
        BY <2>5 DEF Task, DriverTask, DriverStarts, SimulatedHandles, SimulatedShoots,
              HardwareHandles,
              HardwareConnects, ChannelCloses, HardwareLosesLink, SimSends, TrackerApplies,
              AbortTakesEffect, Apply, shown
      <3>3. driver[s] \in Driver
        BY DEF Shape
      <3>4. driver' \in [Session -> Driver]
        <4>1. CASE DriverStarts(s)
          BY <3>3, <4>1 DEF DriverStarts, Shape, Driver, Phase
        <4>2. CASE SimulatedHandles(s)
          <5> DEFINE c == Head(queue[s])
                     d == driver[s]
                     new == CASE c = "arm" -> [d EXCEPT !.armed = TRUE]
                              [] c = "disarm" -> [d EXCEPT !.armed = FALSE]
                              [] c = "fire_shot" /\ d.armed -> [d EXCEPT !.phase = "firing"]
                              [] c = "disconnect" -> [d EXCEPT !.phase = "ended"]
                              [] OTHER -> d
          <5>1. driver' = [driver EXCEPT ![s] = new]
            BY <4>2, Zenon DEF SimulatedHandles, SetDriver
          <5>2. /\ [d EXCEPT !.armed = TRUE] \in Driver
                /\ [d EXCEPT !.armed = FALSE] \in Driver
                /\ [d EXCEPT !.phase = "firing"] \in Driver
                /\ [d EXCEPT !.phase = "ended"] \in Driver
            BY <3>3, DriverFields
          <5>3. new \in Driver
            <6> HIDE DEF d
            <6>1. CASE c = "arm"
              BY <6>1, <5>2
            <6>2. CASE c = "disarm"
              BY <6>2, <5>2
            <6>3. CASE c = "fire_shot" /\ d.armed
              BY <6>3, <5>2
            <6>4. CASE c = "disconnect"
              BY <6>4, <5>2
            <6>5. CASE c \notin {"arm", "disarm", "disconnect"} /\ ~(c = "fire_shot" /\ d.armed)
              <7> HIDE DEF c
              <7>1. new = d
                BY <6>5
              <7>2. QED
                BY <3>3, <7>1 DEF d
            <6>6. QED
              BY <6>1, <6>2, <6>3, <6>4, <6>5
          <5>4. QED
            <6> HIDE DEF new
            <6>1. QED
              BY <5>1, <5>3 DEF Shape
        <4>3. CASE HardwareHandles(s)
          BY <3>3, <4>3 DEF HardwareHandles, SetDriver, Shape, Driver, Phase
        <4>4. CASE HardwareConnects(s)
          BY <3>3, <4>4 DEF HardwareConnects, Shape, Driver, Phase
        <4>5. CASE HardwareLosesLink(s)
          BY <3>3, <4>5 DEF HardwareLosesLink, Shape, Driver, Phase
        <4>6. CASE SimSends(s)
          BY <4>6 DEF SimSends, Shape
        <4>7. CASE TrackerApplies(s)
          BY <4>7 DEF TrackerApplies, Shape
        <4>8. CASE ChannelCloses(s)
          BY <3>3, <4>8 DEF ChannelCloses, SetDriver, Shape, Driver, Phase
        <4>9. CASE AbortTakesEffect(s)
          <5>1. CASE SetDriver(s, [driver[s] EXCEPT !.phase = "ended"], <<>>)
            BY <3>3, <5>1 DEF SetDriver, Shape, Driver, Phase
          <5>2. CASE UNCHANGED driver
            BY <5>2 DEF Shape
          <5>3. QED
            BY <4>9, <5>1, <5>2 DEF AbortTakesEffect
        <4>10. CASE SimulatedShoots(s)
          <5> DEFINE new == [driver[s] EXCEPT !.phase = "serving", !.armed = FALSE,
                                              !.sequence = driver[s].sequence + 1]
          <5>1. driver' = [driver EXCEPT ![s] = new]
            BY <4>10, Zenon DEF SimulatedShoots, SetDriver
          <5>2. new \in Driver
            BY <3>3, AfterShot
          <5> HIDE DEF new
          <5>3. QED
            BY <5>1, <5>2 DEF Shape
        <4>11. QED
          BY <2>5, <4>1, <4>2, <4>3, <4>4, <4>5, <4>6, <4>7, <4>8, <4>9, <4>10
            DEF Task, DriverTask
      <3>5. QED
        BY <3>1, <3>2, <3>4 DEF Shape
    <2>6. QED
      BY <2>1, <2>2, <2>3, <2>4, <2>5 DEF Next, Quiet
  <1>3. QED
    BY <1>1, <1>2, PTL DEF Spec

-----------------------------------------------------------------------------
(* The lock *)

\* The lock after a request took or gave up a step, by what the step left.
LEMMA LockStep ==
    ASSUME Shape, LockHeld, NEW c \in Clients, NEW r \in [op : Op, of : Nat],
           request' = [request EXCEPT ![c] = r],
           readers' = IF r.op \in Command THEN readers \cup {c} ELSE readers \ {c},
           writer' = IF r.op = "disconnecting" THEN c ELSE IF writer = c THEN None ELSE writer,
           r.op = "disconnecting" => writer = None,
           writer' # None => readers' = {}
    PROVE  LockHeld'
  <1>1. /\ request'[c] = r
        /\ \A b \in Clients \ {c} : request'[b] = request[b]
    BY RequestSet DEF Shape
  <1>2. readers' = {b \in Clients : request'[b].op \in Command}
    BY <1>1 DEF LockHeld
  <1>3. ASSUME NEW b \in Clients PROVE request'[b].op = "disconnecting" <=> writer' = b
    <2>1. CASE b = c
      BY <1>1, <2>1, NoClientIsNone DEF LockHeld
    <2>2. CASE b # c /\ r.op = "disconnecting"
      BY <1>1, <2>2, NoClientIsNone DEF LockHeld
    <2>3. CASE b # c /\ r.op # "disconnecting"
      BY <1>1, <2>3, NoClientIsNone DEF LockHeld
    <2>4. QED
      BY <2>1, <2>2, <2>3
  <1>4. QED
    BY <1>2, <1>3 DEF LockHeld

\* What a step of a task leaves alone.
LEMMA TaskKeeps ==
    ASSUME NEW s \in Session, Task(s)
    PROVE  UNCHANGED <<lock, request, session, abandoned, aborted>>
  <1>1. UNCHANGED <<lock, request, abandoned, aborted>>
    BY DEF Task, DriverTask, DriverStarts, SimulatedHandles, SimulatedShoots,
              HardwareHandles,
          HardwareConnects, ChannelCloses, HardwareLosesLink, SimSends, TrackerApplies,
          AbortTakesEffect, lock
  <1>2. UNCHANGED session
    BY DEF Task, DriverTask, DriverStarts, SimulatedHandles, SimulatedShoots,
              HardwareHandles,
          HardwareConnects, ChannelCloses, HardwareLosesLink, SimSends, TrackerApplies,
          AbortTakesEffect, Apply, shown
  <1>3. QED
    BY <1>1, <1>2

\* The session lock is held for reading by the requests that send a command, for
\* writing by the one that ends the session, and never both ways at once
\* (state.rs:162-182), clients that hang up in the middle included.
THEOREM LockIsHeld == Spec => []LockHeld
  <1>1. Init => LockHeld
    BY NoClientIsNone DEF Init, LockHeld, NoRequest, Command
  <1>2. ASSUME Shape, LockHeld, [Next]_managerVars PROVE LockHeld'
    <2> USE <1>2
    <2>1. CASE UNCHANGED managerVars
      BY <2>1 DEF LockHeld, managerVars, lock
    <2>2. ASSUME NEW c \in Clients, NewRequest(c) PROVE LockHeld'
      <3>1. request[c] = NoRequest /\ c \notin readers /\ writer # c
        BY <2>2 DEF NewRequest, ConnectCheck, DisconnectTakes, FireShotCheck, CommandTaken,
              LockHeld, NoRequest, Command
      <3>2. session \in Nat /\ None \in Nat
        BY DEF Shape, None
      <3>3. CASE ConnectCheck(c)
        BY <3>1, <3>2, <3>3, LockStep DEF ConnectCheck, CanRead, lock, Op, Command
      <3>4. CASE DisconnectTakes(c)
        BY <3>1, <3>2, <3>4, LockStep DEF DisconnectTakes, CanWrite, Op, Command
      <3>5. CASE FireShotCheck(c)
        BY <3>1, <3>2, <3>5, LockStep DEF FireShotCheck, CanRead, lock, Op, Command
      <3>6. ASSUME NEW command \in Commands, CommandTaken(c, command) PROVE LockHeld'
        BY <3>1, <3>2, <3>6, LockStep, ManagerAssumption
          DEF CommandTaken, CanRead, Op, Command
      <3>7. QED
        BY <2>2, <3>3, <3>4, <3>5, <3>6 DEF NewRequest
    <2>3. ASSUME NEW c \in Clients, Handler(c) PROVE LockHeld'
      <3>1. /\ NoRequest \in [op : Op, of : Nat] /\ NoRequest.op = "none"
            /\ session \in Nat /\ request[c].of \in Nat
        BY DEF Shape, None, NoRequest, Op
      <3>2. CASE SpawnDriver(c)
        <4>1. started' \in Nat
          BY <3>2 DEF SpawnDriver, Shape
        <4>2. c \notin readers /\ writer # c
          BY <3>2 DEF SpawnDriver, LockHeld, Command
        <4>3. QED
          BY <3>2, <4>1, <4>2, LockStep DEF SpawnDriver, LockHeld, lock, Op, Command
      <3>3. CASE SpawnConsumers(c)
        <4>1. c \notin readers /\ writer # c
          BY <3>3 DEF SpawnConsumers, LockHeld, Command
        <4>2. QED
          BY <3>1, <3>3, <4>1, LockStep DEF SpawnConsumers, LockHeld, lock, Op, Command
      <3>4. CASE Store(c)
        BY <3>1, <3>4, LockStep DEF Store, CanWrite, lock, Command
      <3>5. CASE DisconnectEnds(c)
        <4>1. writer = c /\ readers = {}
          BY <3>5, NoClientIsNone DEF DisconnectEnds, LockHeld
        <4>2. readers' = {} /\ writer' = None
          BY <3>5, <4>1 DEF DisconnectEnds
        <4>3. QED
          BY <3>1, <3>5, <4>1, <4>2, LockStep DEF DisconnectEnds, Command
      <3>6. CASE FireShotTaken(c)
        <4>1. c \notin readers /\ writer = None
          BY <3>6 DEF FireShotTaken, CanRead, LockHeld, Command
        <4>2. QED
          BY <3>1, <3>6, <4>1, NoClientIsNone, LockStep DEF FireShotTaken, Op, Command
      <3>7. CASE SendEnds(c)
        <4>1. writer # c
          BY <3>7 DEF SendEnds, LockHeld, Command
        <4>2. QED
          BY <3>1, <3>7, <4>1, LockStep DEF SendEnds, LockHeld, Command
      <3>8. QED
        BY <2>3, <3>2, <3>3, <3>4, <3>5, <3>6, <3>7 DEF Handler
    <2>4. ASSUME NEW c \in Clients, GiveUp(c) PROVE LockHeld'
      <3>1. NoRequest \in [op : Op, of : Nat] /\ NoRequest.op = "none"
        BY DEF None, NoRequest, Op
      <3>2. QED
        BY <2>4, <3>1, LockStep DEF GiveUp, LockHeld, Command
    <2>5. ASSUME NEW s \in Session, Task(s) PROVE LockHeld'
      BY <2>5, TaskKeeps DEF LockHeld, lock
    <2>6. QED
      BY <2>1, <2>2, <2>3, <2>4, <2>5 DEF Next, Quiet
  <1>3. QED
    BY <1>1, <1>2, ShapeKept, PTL DEF Spec

-----------------------------------------------------------------------------
(* Sessions *)

\* While the lock is held for writing no command is being sent.
LEMMA WriterExcludesCommands ==
    ASSUME LockHeld, CanWrite, NEW c \in Clients
    PROVE  request[c].op \notin Command
  BY DEF LockHeld, CanWrite

\* A command that waits for room belongs to the session that is current, whatever
\* other requests connect, disconnect or hang up meanwhile (state.rs:162-172).
THEOREM CommandsGoToTheirSession == Spec => []CommandsStayCurrent
  <1>1. Init => CommandsStayCurrent
    BY DEF Init, CommandsStayCurrent, NoRequest, Command
  <1>2. ASSUME Shape, LockHeld, CommandsStayCurrent, [Next]_managerVars
        PROVE  CommandsStayCurrent'
    <2> USE <1>2
    <2> SUFFICES ASSUME NEW b \in Clients, request'[b].op \in Command
                 PROVE  session' = request'[b].of
      BY DEF CommandsStayCurrent
    <2>1. CASE UNCHANGED managerVars
      BY <2>1 DEF CommandsStayCurrent, managerVars, shown
    <2>2. ASSUME NEW c \in Clients, NewRequest(c) PROVE session' = request'[b].of
      <3>1. CASE ConnectCheck(c)
        BY <3>1 DEF ConnectCheck, CommandsStayCurrent, Shape, shown, Command
      <3>2. CASE DisconnectTakes(c)
        BY <3>2, WriterExcludesCommands DEF DisconnectTakes, Shape, Command
      <3>3. CASE FireShotCheck(c)
        BY <3>3 DEF FireShotCheck, CommandsStayCurrent, Shape, shown, Command
      <3>4. ASSUME NEW command \in Commands, CommandTaken(c, command)
            PROVE  session' = request'[b].of
        BY <3>4 DEF CommandTaken, CommandsStayCurrent, Shape, shown
      <3>5. QED
        BY <2>2, <3>1, <3>2, <3>3, <3>4 DEF NewRequest
    <2>3. ASSUME NEW c \in Clients, Handler(c) PROVE session' = request'[b].of
      <3>1. CASE SpawnDriver(c)
        BY <3>1 DEF SpawnDriver, CommandsStayCurrent, Shape, shown, Command
      <3>2. CASE SpawnConsumers(c)
        BY <3>2 DEF SpawnConsumers, CommandsStayCurrent, Shape, shown, Command
      <3>3. CASE Store(c)
        BY <3>3, WriterExcludesCommands DEF Store, Shape, NoRequest, Command
      <3>4. CASE DisconnectEnds(c)
        BY <3>4 DEF DisconnectEnds, CommandsStayCurrent, Shape, shown, NoRequest, Command
      <3>5. CASE FireShotTaken(c)
        BY <3>5 DEF FireShotTaken, CommandsStayCurrent, Shape, shown, NoRequest, Command
      <3>6. CASE SendEnds(c)
        BY <3>6 DEF SendEnds, CommandsStayCurrent, Shape, shown, NoRequest, Command
      <3>7. QED
        BY <2>3, <3>1, <3>2, <3>3, <3>4, <3>5, <3>6 DEF Handler
    <2>4. ASSUME NEW c \in Clients, GiveUp(c) PROVE session' = request'[b].of
      BY <2>4 DEF GiveUp, CommandsStayCurrent, Shape, shown, NoRequest, Command
    <2>5. ASSUME NEW s \in Session, Task(s) PROVE session' = request'[b].of
      BY <2>5, TaskKeeps DEF CommandsStayCurrent
    <2>6. QED
      BY <2>1, <2>2, <2>3, <2>4, <2>5 DEF Next, Quiet
  <1>3. QED
    BY <1>1, <1>2, ShapeKept, LockIsHeld, PTL DEF Spec

\* The driver of a session that has been started and has not ended.
Runs(s) == driver[s].phase \notin {"absent", "ended"}

Starting(s) ==
    \E c \in Clients : request[c].of = s
                          /\ request[c].op \in {"spawned", "storing", "disconnecting"}

Owned(s) == s \in aborted \/ session = s \/ Starting(s) \/ s \in abandoned

\* A step of a task starts no driver that had not been started.
LEMMA TaskStartsNone ==
    ASSUME Shape, NEW t \in Session, Task(t), NEW s \in Session, Runs(s)'
    PROVE  Runs(s)
  <1>1. CASE UNCHANGED driver
    BY <1>1 DEF Runs
  <1>2. CASE Runs(t) /\ \A u \in Session \ {t} : driver'[u] = driver[u]
    BY <1>2 DEF Runs
  <1>3. CASE DriverStarts(t)
    BY <1>2, <1>3 DEF DriverStarts, Shape, Runs
  <1>4. CASE SimulatedHandles(t)
    BY <1>2, <1>4 DEF SimulatedHandles, SetDriver, Shape, Runs
  <1>5. CASE HardwareHandles(t)
    BY <1>2, <1>5 DEF HardwareHandles, SetDriver, Shape, Runs
  <1>6. CASE HardwareConnects(t)
    BY <1>2, <1>6 DEF HardwareConnects, Shape, Runs
  <1>7. CASE HardwareLosesLink(t)
    BY <1>2, <1>7 DEF HardwareLosesLink, Shape, Runs
  <1>8. CASE SimSends(t) \/ TrackerApplies(t)
    BY <1>1, <1>8 DEF SimSends, TrackerApplies
  <1>9. CASE ChannelCloses(t)
    BY <1>2, <1>9 DEF ChannelCloses, SetDriver, Shape, Runs
  <1>10. CASE AbortTakesEffect(t)
    <2>1. CASE driver' = [driver EXCEPT ![t] = [driver[t] EXCEPT !.phase = "ended"]]
      <3>1. s # t
        BY <2>1 DEF Shape, Driver, Runs
      <3>2. QED
        BY <2>1, <3>1 DEF Shape, Runs
    <2>2. QED
      BY <1>1, <1>10, <2>1 DEF AbortTakesEffect, SetDriver
  <1>11. CASE SimulatedShoots(t)
    BY <1>2, <1>11 DEF SimulatedShoots, SetDriver, Shape, Runs
  <1>12. QED
    BY <1>3, <1>4, <1>5, <1>6, <1>7, <1>8, <1>9, <1>10, <1>11 DEF Task, DriverTask

\* A running driver serves the current session, belongs to a request that is still
\* starting or ending it, has been aborted, or was left by a request its client gave
\* up (state.rs:184-267): connects that race never leave a driver behind.
THEOREM DriversAreOwned == Spec => []EveryDriverHasAnOwner
  <1> DEFINE AllOwned == \A s \in Session : Runs(s) => Owned(s)
  <1>1. EveryDriverHasAnOwner <=> AllOwned
    BY DEF EveryDriverHasAnOwner, Runs, Owned, Starting
  <1>2. Init => AllOwned
    BY DEF Init, NoDriver, Runs
  <1>3. ASSUME Shape, AllOwned, [Next]_managerVars PROVE AllOwned'
    <2> USE <1>3
    <2> SUFFICES ASSUME NEW s \in Session, Runs(s)' PROVE Owned(s)'
      OBVIOUS
    <2>1. s # None
      BY ManagerAssumption DEF Session, None
    <2>2. CASE UNCHANGED managerVars
      <3>1. UNCHANGED <<driver, session, request, aborted, abandoned>>
        BY <2>2 DEF managerVars, shown, tasks
      <3>2. QED
        BY <3>1 DEF Runs, Owned, Starting
    <2>3. ASSUME NEW c \in Clients, NewRequest(c) PROVE Owned(s)'
      <3>1. /\ request[c].op \notin {"spawned", "storing", "disconnecting"}
            /\ UNCHANGED <<driver, aborted, abandoned>>
        BY <2>3 DEF NewRequest, ConnectCheck, DisconnectTakes, FireShotCheck, CommandTaken,
              NoRequest, tasks
      <3>2. Owned(s)
        BY <3>1 DEF Runs
      <3>3. Starting(s) => Starting(s)'
        BY <2>3, <3>1
          DEF Starting, Shape, NewRequest, ConnectCheck, DisconnectTakes, FireShotCheck,
              CommandTaken
      <3>4. session = s => session' = s \/ Starting(s)'
        <4>1. CASE DisconnectTakes(c)
          <5>1. request'[c] = [op |-> "disconnecting", of |-> session]
            BY <4>1 DEF DisconnectTakes, Shape
          <5>2. QED
            BY <5>1 DEF Starting
        <4>2. CASE ~DisconnectTakes(c)
          BY <2>3, <4>2 DEF NewRequest, ConnectCheck, FireShotCheck, CommandTaken, shown
        <4>3. QED
          BY <4>1, <4>2
      <3>5. QED
        BY <3>1, <3>2, <3>3, <3>4 DEF Owned
    <2>4. ASSUME NEW c \in Clients, Handler(c) PROVE Owned(s)'
      <3>1. CASE SpawnDriver(c)
        <4>1. CASE s = started'
          <5>1. request'[c] = [op |-> "spawned", of |-> s]
            BY <3>1, <4>1 DEF SpawnDriver, Shape
          <5>2. QED
            BY <5>1 DEF Starting, Owned
        <4>2. CASE s # started'
          <5>1. driver'[s] = driver[s]
            BY <3>1, <4>2 DEF SpawnDriver, Shape
          <5>2. Owned(s)
            BY <5>1 DEF Runs
          <5>3. Starting(s) => Starting(s)'
            BY <3>1 DEF Starting, Shape, SpawnDriver
          <5>4. QED
            BY <3>1, <5>2, <5>3 DEF Owned, SpawnDriver, shown
        <4>3. QED
          BY <4>1, <4>2
      <3>2. CASE SpawnConsumers(c)
        <4>1. Owned(s)
          BY <3>2 DEF SpawnConsumers, Runs
        <4>2. Starting(s) => Starting(s)'
          BY <3>2 DEF Starting, Shape, SpawnConsumers
        <4>3. QED
          BY <3>2, <4>1, <4>2 DEF Owned, SpawnConsumers, shown
      <3>3. CASE Store(c)
        <4>1. Owned(s)
          BY <3>3 DEF Store, Runs
        <4>2. Starting(s) => Starting(s)' \/ session' = s
          BY <3>3 DEF Starting, Shape, Store
        <4>3. session = s => s \in aborted'
          BY <2>1, <3>3 DEF Store
        <4>4. QED
          BY <3>3, <4>1, <4>2, <4>3 DEF Owned, Store
      <3>4. CASE DisconnectEnds(c)
        <4>1. Owned(s)
          BY <3>4 DEF DisconnectEnds, Runs
        <4>2. Starting(s) => Starting(s)' \/ s \in aborted'
          BY <3>4 DEF Starting, Shape, DisconnectEnds
        <4>3. QED
          BY <3>4, <4>1, <4>2 DEF Owned, DisconnectEnds, shown
      <3>5. CASE FireShotTaken(c)
        <4>1. Owned(s)
          BY <3>5 DEF FireShotTaken, Runs, tasks
        <4>2. Starting(s) => Starting(s)'
          BY <3>5 DEF Starting, Shape, FireShotTaken
        <4>3. QED
          BY <3>5, <4>1, <4>2 DEF Owned, FireShotTaken, shown, tasks
      <3>6. CASE SendEnds(c)
        <4>1. Owned(s)
          BY <3>6 DEF SendEnds, Runs
        <4>2. Starting(s) => Starting(s)'
          BY <3>6 DEF Starting, Shape, SendEnds, Command
        <4>3. QED
          BY <3>6, <4>1, <4>2 DEF Owned, SendEnds, shown
      <3>7. QED
        BY <2>4, <3>1, <3>2, <3>3, <3>4, <3>5, <3>6 DEF Handler
    <2>5. ASSUME NEW c \in Clients, GiveUp(c) PROVE Owned(s)'
      <3>1. Owned(s)
        BY <2>5 DEF GiveUp, Runs
      <3>2. Starting(s) => Starting(s)' \/ s \in aborted' \/ s \in abandoned'
        BY <2>5 DEF Starting, Shape, GiveUp, Command
      <3>3. aborted \subseteq aborted' /\ abandoned \subseteq abandoned'
        BY <2>5 DEF GiveUp
      <3>4. QED
        BY <2>5, <3>1, <3>2, <3>3 DEF Owned, GiveUp, shown
    <2>6. ASSUME NEW t \in Session, Task(t) PROVE Owned(s)'
      <3>1. Owned(s)
        BY <2>6, TaskStartsNone
      <3>2. UNCHANGED <<request, session, abandoned, aborted>>
        BY <2>6, TaskKeeps
      <3>3. QED
        BY <3>1, <3>2 DEF Owned, Starting
    <2>7. QED
      BY <2>2, <2>3, <2>4, <2>5, <2>6 DEF Next, Quiet
  <1>4. QED
    <2>1. Spec => []AllOwned
      <3> HIDE DEF AllOwned
      <3>1. QED
        BY <1>2, <1>3, ShapeKept, PTL DEF Spec
    <2>2. QED
      BY <1>1, <2>1, PTL

-----------------------------------------------------------------------------
(* The drivers *)

\* A driver that has not been started, and what one has before it is connected.
DriverSound(s) ==
    /\ s > started => driver[s].phase = "absent"
    /\ driver[s].phase \in {"absent", "starting", "connecting"} =>
           ~driver[s].armed /\ driver[s].sequence = 0
    /\ driver[s].kind = "skytrak" => driver[s].sequence = 0 /\ driver[s].phase # "firing"

DriversSound == \A s \in Session : DriverSound(s)

\* The moves of a driver, by what they do to its record.
Starts(d, e) ==
    /\ d.phase = "absent" /\ e.phase = "starting"
    /\ ~d.armed /\ ~e.armed /\ d.sequence = 0 /\ e.sequence = 0
Waits(d, e) ==
    /\ d.phase = "starting" /\ e.phase = "connecting"
    /\ ~d.armed /\ ~e.armed /\ d.sequence = 0 /\ e.sequence = 0
GoesOnline(d, e) ==
    /\ d.phase \in {"starting", "connecting"} /\ e.phase = "serving"
    /\ ~d.armed /\ ~e.armed /\ d.sequence = 0 /\ e.sequence = 0
Arms(d, e) ==
    d.phase = "serving" /\ e.phase = "serving" /\ e.sequence = d.sequence
Fires(d, e) ==
    /\ d.phase = "serving" /\ e.phase = "firing"
    /\ e.armed = d.armed /\ e.sequence = d.sequence
Shoots(d, e) ==
    /\ d.phase = "firing" /\ e.phase = "serving"
    /\ ~e.armed /\ e.sequence = d.sequence + 1
LosesLink(d, e) ==
    /\ d.phase = "serving" /\ e.phase = "connecting"
    /\ ~e.armed /\ e.sequence = d.sequence /\ d.sequence = 0
Ends(d, e) ==
    /\ d.phase \notin {"absent", "firing", "ended"} /\ e.phase = "ended"
    /\ e.sequence = d.sequence

Move(d, e) ==
    \/ Starts(d, e) \/ Waits(d, e) \/ GoesOnline(d, e) \/ Arms(d, e) \/ Fires(d, e)
    \/ Shoots(d, e) \/ LosesLink(d, e) \/ Ends(d, e)

\* A move keeps a driver sound.
LEMMA MoveIsSound ==
    ASSUME NEW d \in Driver, NEW e \in Driver, Move(d, e), e.kind = d.kind \/ Starts(d, e),
           d.phase \in {"absent", "starting", "connecting"} => ~d.armed /\ d.sequence = 0,
           d.kind = "skytrak" => d.sequence = 0 /\ ~Fires(d, e) /\ ~Shoots(d, e)
    PROVE  /\ e.phase \in {"absent", "starting", "connecting"} => ~e.armed /\ e.sequence = 0
           /\ e.kind = "skytrak" => e.sequence = 0 /\ e.phase # "firing"
           /\ e.phase # "absent"
  BY DEF Move, Starts, Waits, GoesOnline, Arms, Fires, Shoots, LosesLink, Ends, Driver

\* Each move is a step of a launch monitor, or shows in none of its events.
LEMMA MoveIsMonitorStep ==
    ASSUME NEW s \in Session, driver \in [Session -> Driver], driver' \in [Session -> Driver],
           Move(driver[s], driver'[s])
    PROVE  Monitor(s)!Next \/ UNCHANGED Monitor(s)!lmVars
  <1> DEFINE d == driver[s]
             e == driver'[s]
  <1>1. /\ d \in Driver /\ e \in Driver /\ d.sequence \in Nat /\ e.sequence \in Nat
        /\ d.armed \in BOOLEAN /\ e.armed \in BOOLEAN
    BY DEF Driver
  <1>2. CASE Starts(d, e) \/ Waits(d, e)
    BY <1>1, <1>2 DEF Starts, Waits, Monitor!lmVars, Online, Struck
  <1>3. CASE GoesOnline(d, e)
    BY <1>1, <1>3 DEF GoesOnline, Monitor!Next, Monitor!Connect, Online, Struck
  <1>4. CASE Arms(d, e)
    BY <1>1, <1>4 DEF Arms, Monitor!Next, Monitor!SetArmed, Online, Struck
  <1>5. CASE Fires(d, e)
    BY <1>1, <1>5 DEF Fires, Monitor!Next, Monitor!Strike, Online, Struck
  <1>6. CASE Shoots(d, e)
    BY <1>1, <1>6 DEF Shoots, Monitor!Next, Monitor!Measure, Monitor!Resolve, Online, Struck
  <1>7. CASE LosesLink(d, e)
    BY <1>1, <1>7 DEF LosesLink, Monitor!Next, Monitor!Leave, Online, Struck
  <1>8. CASE Ends(d, e)
    BY <1>1, <1>8 DEF Ends, Monitor!Next, Monitor!Leave, Online, Struck, Driver, Phase
  <1>9. QED
    BY <1>2, <1>3, <1>4, <1>5, <1>6, <1>7, <1>8 DEF Move

\* What a step of a task does to its driver is a move, and it touches no other driver.
LEMMA TaskMoves ==
    ASSUME Shape, NEW s \in Session, DriverSound(s), Task(s)
    PROVE  /\ \A t \in Session \ {s} : driver'[t] = driver[t]
           /\ \/ driver'[s] = driver[s]
              \/ /\ Move(driver[s], driver'[s])
                 /\ driver[s].phase # "absent" /\ driver'[s].kind = driver[s].kind
                 /\ driver[s].kind = "skytrak" =>
                        ~Fires(driver[s], driver'[s]) /\ ~Shoots(driver[s], driver'[s])
  <1> DEFINE d == driver[s]
             e == driver'[s]
  <1>1. d \in Driver /\ driver \in [Session -> Driver]
    BY DEF Shape
  <1>2. CASE DriverStarts(s)
    BY <1>1, <1>2 DEF DriverStarts, DriverSound, Move, Waits, GoesOnline, Fires, Shoots, Driver
  <1>3. CASE SimulatedHandles(s)
    <2> DEFINE c == Head(queue[s])
               new == CASE c = "arm" -> [d EXCEPT !.armed = TRUE]
                        [] c = "disarm" -> [d EXCEPT !.armed = FALSE]
                        [] c = "fire_shot" /\ d.armed -> [d EXCEPT !.phase = "firing"]
                        [] c = "disconnect" -> [d EXCEPT !.phase = "ended"]
                        [] OTHER -> d
    <2>1. driver' = [driver EXCEPT ![s] = new] /\ d.phase = "serving" /\ d.kind = "simulated"
      BY <1>3, Zenon DEF SimulatedHandles, SetDriver
    <2>2. new \in {[d EXCEPT !.armed = TRUE], [d EXCEPT !.armed = FALSE],
                   [d EXCEPT !.phase = "firing"], [d EXCEPT !.phase = "ended"], d}
      <3> HIDE DEF c, d
      <3>1. QED
        OBVIOUS
    <2> HIDE DEF new
    <2>3. e = new /\ \A t \in Session \ {s} : driver'[t] = driver[t]
      BY <1>1, <2>1
    <2>4. QED
      BY <1>1, <2>1, <2>2, <2>3 DEF Move, Arms, Fires, Ends, Driver
  <1>4. CASE SimulatedShoots(s)
    <2> DEFINE new == [d EXCEPT !.phase = "serving", !.armed = FALSE,
                                !.sequence = d.sequence + 1]
    <2>1. driver' = [driver EXCEPT ![s] = new] /\ d.phase = "firing"
      BY <1>4, Zenon DEF SimulatedShoots, SetDriver
    <2>2. /\ new.kind = d.kind /\ new.phase = "serving"
          /\ new.armed = FALSE /\ new.sequence = d.sequence + 1
      BY <1>1, AfterShot
    <2> HIDE DEF new
    <2>3. e = new /\ \A t \in Session \ {s} : driver'[t] = driver[t]
      BY <1>1, <2>1
    <2>4. QED
      BY <2>1, <2>2, <2>3 DEF DriverSound, Move, Shoots
  <1>5. CASE HardwareHandles(s)
    <2> DEFINE c == Head(queue[s])
               new == CASE c = "arm" -> [d EXCEPT !.armed = TRUE]
                        [] c = "disarm" -> [d EXCEPT !.armed = FALSE]
                        [] c = "disconnect" -> [d EXCEPT !.phase = "ended"]
                        [] OTHER -> d
    <2>1. driver' = [driver EXCEPT ![s] = new] /\ d.phase = "serving"
      BY <1>5, Zenon DEF HardwareHandles, SetDriver
    <2>2. new \in {[d EXCEPT !.armed = TRUE], [d EXCEPT !.armed = FALSE],
                   [d EXCEPT !.phase = "ended"], d}
      <3> HIDE DEF c, d
      <3>1. QED
        OBVIOUS
    <2> HIDE DEF new
    <2>3. e = new /\ \A t \in Session \ {s} : driver'[t] = driver[t]
      BY <1>1, <2>1
    <2>4. QED
      BY <1>1, <2>1, <2>2, <2>3 DEF Move, Arms, Ends, Fires, Shoots, Driver
  <1>6. CASE HardwareConnects(s)
    BY <1>1, <1>6 DEF HardwareConnects, DriverSound, Move, GoesOnline, Fires, Shoots, Driver
  <1>7. CASE HardwareLosesLink(s)
    BY <1>1, <1>7 DEF HardwareLosesLink, DriverSound, Move, LosesLink, Fires, Shoots, Driver
  <1>8. CASE SimSends(s) \/ TrackerApplies(s)
    BY <1>8 DEF SimSends, TrackerApplies
  <1>9. CASE ChannelCloses(s)
    BY <1>1, <1>9 DEF ChannelCloses, SetDriver, Move, Ends, Fires, Shoots, Driver
  <1>10. CASE AbortTakesEffect(s)
    BY <1>1, <1>10 DEF AbortTakesEffect, SetDriver, Move, Ends, Fires, Shoots, Driver
  <1>11. QED
    BY <1>2, <1>3, <1>4, <1>5, <1>6, <1>7, <1>8, <1>9, <1>10 DEF Task, DriverTask

\* Every step leaves a driver alone or moves it, and keeps it sound.
LEMMA StepMoves ==
    ASSUME Shape, Shape', DriversSound, [Next]_managerVars, NEW t \in Session
    PROVE  /\ driver'[t] = driver[t] \/ Move(driver[t], driver'[t])
           /\ DriverSound(t)'
  <1>1. /\ started \in Nat /\ driver \in [Session -> Driver] /\ driver' \in [Session -> Driver]
        /\ DriverSound(t) /\ t \in Nat
    BY DEF Shape, DriversSound, Session
  <1>2. ASSUME driver'[t] = driver[t], started' = started
        PROVE  DriverSound(t)'
    BY <1>1, <1>2 DEF DriverSound
  <1>3. CASE UNCHANGED <<driver, started>>
    BY <1>2, <1>3
  <1>4. ASSUME NEW c \in Clients, SpawnDriver(c)
        PROVE  /\ driver'[t] = driver[t] \/ Move(driver[t], driver'[t])
               /\ DriverSound(t)'
    <2>1. PICK kind \in Kinds :
             driver' = [driver EXCEPT ![started'] = [NoDriver EXCEPT !.kind = kind,
                                                                     !.phase = "starting"]]
      BY <1>4 DEF SpawnDriver
    <2>2. started' = started + 1
      BY <1>4 DEF SpawnDriver
    <2>3. CASE t = started'
      <3>1. driver'[t] = [NoDriver EXCEPT !.kind = kind, !.phase = "starting"]
        BY <1>1, <2>1, <2>3
      <3>2. driver[t].phase = "absent" /\ ~driver[t].armed /\ driver[t].sequence = 0
        BY <1>1, <2>2, <2>3 DEF DriverSound
      <3>3. QED
        BY <1>1, <2>3, <3>1, <3>2 DEF Move, Starts, DriverSound, NoDriver
    <2>4. CASE t # started'
      <3>1. driver'[t] = driver[t]
        BY <1>1, <2>1, <2>4
      <3>2. QED
        BY <1>1, <2>2, <3>1 DEF DriverSound
    <2>5. QED
      BY <2>3, <2>4
  <1>5. ASSUME NEW s \in Session, Task(s)
        PROVE  /\ driver'[t] = driver[t] \/ Move(driver[t], driver'[t])
               /\ DriverSound(t)'
    <2>1. started' = started
      BY <1>5 DEF Task, DriverTask, DriverStarts, SimulatedHandles, SimulatedShoots,
            HardwareHandles, HardwareConnects, ChannelCloses, HardwareLosesLink, SimSends,
            TrackerApplies, AbortTakesEffect, bounds
    <2>2. /\ \A u \in Session \ {s} : driver'[u] = driver[u]
          /\ \/ driver'[s] = driver[s]
             \/ /\ Move(driver[s], driver'[s])
                /\ driver[s].phase # "absent" /\ driver'[s].kind = driver[s].kind
                /\ driver[s].kind = "skytrak" =>
                       ~Fires(driver[s], driver'[s]) /\ ~Shoots(driver[s], driver'[s])
      BY <1>5, TaskMoves DEF DriversSound
    <2>3. CASE driver'[t] = driver[t]
      BY <1>2, <2>1, <2>3
    <2>4. CASE driver'[t] # driver[t]
      <3>1. /\ Move(driver[t], driver'[t])
            /\ driver[t].phase # "absent" /\ driver'[t].kind = driver[t].kind
            /\ driver[t].kind = "skytrak" =>
                   ~Fires(driver[t], driver'[t]) /\ ~Shoots(driver[t], driver'[t])
        BY <2>2, <2>4
      <3>2. /\ driver'[t].phase \in {"absent", "starting", "connecting"} =>
                   ~driver'[t].armed /\ driver'[t].sequence = 0
            /\ driver'[t].kind = "skytrak" =>
                   driver'[t].sequence = 0 /\ driver'[t].phase # "firing"
        BY <1>1, <3>1, MoveIsSound DEF DriverSound
      <3>3. ~(t > started)
        BY <1>1, <3>1 DEF DriverSound
      <3>4. QED
        BY <2>1, <3>1, <3>2, <3>3 DEF DriverSound
    <2>5. QED
      BY <2>3, <2>4
  <1>6. QED
    BY <1>3, <1>4, <1>5
      DEF Next, Quiet, NewRequest, Handler, ConnectCheck, DisconnectTakes, FireShotCheck,
          CommandTaken, SpawnConsumers, Store, DisconnectEnds, FireShotTaken, SendEnds, GiveUp,
          tasks, bounds, managerVars

LEMMA DriversStaySound == Spec => []DriversSound
  <1>1. Init => DriversSound
    BY DEF Init, DriversSound, DriverSound, NoDriver, Session
  <1>2. ASSUME Shape, Shape', DriversSound, [Next]_managerVars PROVE DriversSound'
    BY <1>2, StepMoves DEF DriversSound
  <1>3. QED
    BY <1>1, <1>2, ShapeKept, PTL DEF Spec

\* Whatever requests, aborts and lost links do to the sessions, every driver that was
\* started keeps to the contract of a launch monitor.
THEOREM DriversImplementLaunchMonitor == Spec => DriversAreLaunchMonitors
  <1>1. Init => \A s \in Session : Monitor(s)!Init
    BY DEF Init, NoDriver, Monitor!Init, Monitor!NoEvents, Online, Struck
  <1>2. ASSUME Shape, Shape', DriversSound, [Next]_managerVars
        PROVE  \A s \in Session : driver'[s] # driver[s] =>
                   Monitor(s)!Next \/ UNCHANGED Monitor(s)!lmVars
    BY <1>2, StepMoves, MoveIsMonitorStep DEF Shape
  <1>3. QED
    BY <1>1, <1>2, ShapeKept, DriversStaySound, PTL DEF Spec, DriversAreLaunchMonitors

-----------------------------------------------------------------------------
(* Types *)

\* Requests that are about to start a session.
Checked == {c \in Clients : request[c].op = "checked"}

\* There is a session left for each of them (the bound of the model).
RoomForChecked ==
    /\ IsFiniteSet(Checked)
    /\ started + Cardinality(Checked) <= MaxSessions

\* A request that has to do with a session knows it.
RequestsOK ==
    /\ request \in [Clients -> [op : Op, of : Session \cup {None}]]
    /\ \A c \in Clients :
        request[c].op \in {"spawned", "storing", "disconnecting"} => request[c].of \in Session

LEMMA StillChecked ==
    ASSUME NEW c \in Clients, \A b \in Clients \ {c} : request'[b] = request[b]
    PROVE  /\ request[c].op # "checked" /\ request'[c].op # "checked" => Checked' = Checked
           /\ request[c].op # "checked" /\ request'[c].op = "checked" =>
                  Checked' = Checked \cup {c}
           /\ request[c].op = "checked" /\ request'[c].op # "checked" =>
                  Checked' = Checked \ {c} /\ c \in Checked
  BY DEF Checked

LEMMA RoomIsKept == Spec => []RoomForChecked
  <1>1. Init => RoomForChecked
    <2> SUFFICES ASSUME Init PROVE RoomForChecked
      OBVIOUS
    <2>1. Checked = {} /\ started = 0
      BY DEF Init, Checked, NoRequest
    <2>2. QED
      BY <2>1, FS_EmptySet, ManagerAssumption DEF RoomForChecked
  <1>2. ASSUME Shape, RoomForChecked, [Next]_managerVars PROVE RoomForChecked'
    <2> USE <1>2
    <2>1. IsFiniteSet(Checked) /\ Cardinality(Checked) \in Nat /\ started \in Nat
          /\ MaxSessions \in Nat
      BY FS_CardinalityType, ManagerAssumption DEF RoomForChecked, Shape
    <2>2. ASSUME Checked' = Checked, started' = started PROVE RoomForChecked'
      BY <2>2 DEF RoomForChecked
    <2>3. CASE UNCHANGED managerVars
      BY <2>2, <2>3 DEF managerVars, bounds, Checked
    <2>4. ASSUME NEW c \in Clients, ConnectCheck(c) PROVE RoomForChecked'
      <3>1. Checked' = Checked \cup {c} /\ started' = started
        BY <2>4, StillChecked DEF ConnectCheck, NoRequest, Shape
      <3>2. c \notin Checked
        BY <2>4 DEF ConnectCheck, NoRequest, Checked
      <3>3. started + Cardinality(Checked) < MaxSessions
        BY <2>4 DEF ConnectCheck, Checked
      <3>4. IsFiniteSet(Checked') /\ Cardinality(Checked') = Cardinality(Checked) + 1
        BY <2>1, <3>1, <3>2, FS_AddElement
      <3>5. QED
        BY <2>1, <3>1, <3>3, <3>4 DEF RoomForChecked
    <2>5. ASSUME NEW c \in Clients, SpawnDriver(c) PROVE RoomForChecked'
      <3>1. Checked' = Checked \ {c} /\ c \in Checked /\ started' = started + 1
        BY <2>5, StillChecked DEF SpawnDriver, Shape
      <3>2. IsFiniteSet(Checked') /\ Cardinality(Checked') = Cardinality(Checked) - 1
        BY <2>1, <3>1, FS_RemoveElement
      <3>3. QED
        BY <2>1, <3>1, <3>2 DEF RoomForChecked
    <2>6. ASSUME NEW c \in Clients,
                 DisconnectTakes(c) \/ FireShotCheck(c)
                     \/ \E command \in Commands : CommandTaken(c, command)
          PROVE  RoomForChecked'
      <3>1. request[c].op # "checked" /\ started' = started
        BY <2>6 DEF DisconnectTakes, FireShotCheck, CommandTaken, NoRequest
      <3>2. PICK op \in Op \ {"checked"} :
               request' = [request EXCEPT ![c] = [op |-> op, of |-> session]]
        BY <2>6, ManagerAssumption DEF DisconnectTakes, FireShotCheck, CommandTaken, Op, Command
      <3>3. QED
        BY <2>2, <3>1, <3>2, StillChecked DEF Shape
    <2>7. ASSUME NEW c \in Clients,
                 SpawnConsumers(c) \/ Store(c) \/ DisconnectEnds(c) \/ FireShotTaken(c)
                     \/ SendEnds(c) \/ GiveUp(c)
          PROVE  RoomForChecked'
      <3>1. request[c].op # "checked" /\ started' = started
        BY <2>7 DEF SpawnConsumers, Store, DisconnectEnds, FireShotTaken, SendEnds, GiveUp,
              Command, bounds
      <3>2. PICK r : r.op # "checked" /\ request' = [request EXCEPT ![c] = r]
        BY <2>7 DEF SpawnConsumers, Store, DisconnectEnds, FireShotTaken, SendEnds, GiveUp,
              NoRequest, Op, Command
      <3>3. QED
        BY <2>2, <3>1, <3>2, StillChecked DEF Shape
    <2>8. ASSUME NEW s \in Session, Task(s) PROVE RoomForChecked'
      <3>1. request' = request
        BY <2>8, TaskKeeps
      <3>2. started' = started
        BY <2>8 DEF Task, DriverTask, DriverStarts, SimulatedHandles, SimulatedShoots,
              HardwareHandles, HardwareConnects, ChannelCloses, HardwareLosesLink, SimSends,
              TrackerApplies, AbortTakesEffect, bounds
      <3>3. QED
        BY <2>2, <3>1, <3>2 DEF Checked
    <2>9. QED
      BY <2>3, <2>4, <2>5, <2>6, <2>7, <2>8 DEF Next, Quiet, NewRequest, Handler
  <1>3. QED
    BY <1>1, <1>2, ShapeKept, PTL DEF Spec

\* The current session is one that was started, and so is one a request is about.
KnownSessions == RequestsOK /\ session \in Session \cup {None}

LEMMA SessionsAreKnown == Spec => []KnownSessions
  <1>1. Init => KnownSessions
    BY DEF Init, KnownSessions, RequestsOK, NoRequest, None, Op
  <1>2. ASSUME KnownSessions, Shape, RoomForChecked, [Next]_managerVars PROVE KnownSessions'
    <2> USE <1>2
    <2>1. CASE UNCHANGED managerVars
      BY <2>1 DEF KnownSessions, RequestsOK, managerVars, shown
    <2>2. ASSUME NEW c \in Clients, NEW r \in [op : Op, of : Session \cup {None}],
                 request' = [request EXCEPT ![c] = r],
                 r.op \in {"spawned", "storing", "disconnecting"} => r.of \in Session,
                 session' \in Session \cup {None}
          PROVE  KnownSessions'
      BY <2>2 DEF KnownSessions, RequestsOK
    <2>3. ASSUME NEW c \in Clients, NewRequest(c) PROVE KnownSessions'
      <3>1. session' \in Session \cup {None}
        BY <2>3 DEF NewRequest, ConnectCheck, DisconnectTakes, FireShotCheck, CommandTaken,
              shown, KnownSessions
      <3>2. CASE ConnectCheck(c)
        BY <2>2, <3>1, <3>2 DEF ConnectCheck, Op
      <3>3. CASE DisconnectTakes(c)
        BY <2>2, <3>1, <3>3 DEF DisconnectTakes, Op, KnownSessions
      <3>4. CASE FireShotCheck(c)
        BY <2>2, <3>1, <3>4 DEF FireShotCheck, Op, KnownSessions
      <3>5. ASSUME NEW command \in Commands, CommandTaken(c, command) PROVE KnownSessions'
        BY <2>2, <3>1, <3>5, ManagerAssumption DEF CommandTaken, Op, Command, KnownSessions
      <3>6. QED
        BY <2>3, <3>2, <3>3, <3>4, <3>5 DEF NewRequest
    <2>4. ASSUME NEW c \in Clients, Handler(c) PROVE KnownSessions'
      <3>1. /\ NoRequest \in [op : Op, of : Session \cup {None}] /\ NoRequest.op = "none"
            /\ request[c] \in [op : Op, of : Session \cup {None}]
        BY DEF NoRequest, Op, KnownSessions, RequestsOK
      <3>2. CASE SpawnDriver(c)
        <4>1. started' \in Session
          <5>1. started \in Nat /\ MaxSessions \in Nat /\ Cardinality(Checked) \in Nat
            BY FS_CardinalityType, ManagerAssumption DEF RoomForChecked, Shape
          <5>2. Cardinality(Checked) # 0
            BY <3>2, FS_EmptySet DEF SpawnDriver, Checked, RoomForChecked
          <5>3. started + 1 <= MaxSessions
            BY <5>1, <5>2 DEF RoomForChecked
          <5>4. QED
            BY <3>2, <5>1, <5>3 DEF SpawnDriver, Session
        <4>2. QED
          BY <2>2, <3>2, <4>1 DEF SpawnDriver, Op, KnownSessions, shown
      <3>3. CASE SpawnConsumers(c)
        BY <2>2, <3>3 DEF SpawnConsumers, Op, KnownSessions, RequestsOK, shown
      <3>4. CASE Store(c)
        BY <2>2, <3>1, <3>4 DEF Store, KnownSessions, RequestsOK
      <3>5. CASE DisconnectEnds(c)
        BY <2>2, <3>1, <3>5 DEF DisconnectEnds, KnownSessions, shown
      <3>6. CASE FireShotTaken(c)
        BY <2>2, <3>1, <3>6 DEF FireShotTaken, KnownSessions, shown, Op, Command
      <3>7. CASE SendEnds(c)
        BY <2>2, <3>1, <3>7 DEF SendEnds, KnownSessions, shown
      <3>8. QED
        BY <2>4, <3>2, <3>3, <3>4, <3>5, <3>6, <3>7 DEF Handler
    <2>5. ASSUME NEW c \in Clients, GiveUp(c) PROVE KnownSessions'
      BY <2>2, <2>5 DEF GiveUp, KnownSessions, shown, NoRequest, Op
    <2>6. ASSUME NEW s \in Session, Task(s) PROVE KnownSessions'
      BY <2>6, TaskKeeps DEF KnownSessions, RequestsOK
    <2>7. QED
      BY <2>1, <2>3, <2>4, <2>5, <2>6 DEF Next, Quiet
  <1>3. QED
    BY <1>1, <1>2, ShapeKept, RoomIsKept, PTL DEF Spec

-----------------------------------------------------------------------------
(* Events and channels *)

BusEvent == [type : EventType, from : Session, armed : BOOLEAN, sequence : Nat]
Tracker == [alive : BOOLEAN, events : Seq(BusEvent)]

QueuesOK ==
    /\ queue \in [Session -> Seq(Command \cup {"disconnect"})]
    /\ \A s \in Session : Len(queue[s]) <= CommandCap

TrackersOK ==
    /\ tracker \in [Session -> Tracker]
    /\ \A s \in Session : Len(tracker[s].events) <= EventCap

RestOK ==
    /\ device \in Session \cup {None}
    /\ status \in [armed : BOOLEAN, from : Session \cup {None}]
    /\ lastShot \in [from : Session \cup {None}, sequence : Nat]
    /\ simTasks \subseteq Session /\ aborted \subseteq Session /\ abandoned \subseteq Session
    /\ issued \in Nat /\ faults \in Nat

LEMMA EventFacts ==
    ASSUME NEW type \in EventType, NEW s \in Session, NEW d \in Driver
    PROVE  Event(type, s, d) \in BusEvent
  BY DEF Event, BusEvent, Driver

LEMMA FewEvents ==
    ASSUME NEW x \in BusEvent, NEW y \in BusEvent
    PROVE  <<>> \in Seq(BusEvent) /\ <<x>> \in Seq(BusEvent) /\ <<x, y>> \in Seq(BusEvent)
  OBVIOUS

LEMMA ReceivedFacts ==
    ASSUME NEW t \in Tracker, Len(t.events) <= EventCap, NEW events \in Seq(BusEvent)
    PROVE  /\ Received(t, events) \in Tracker
           /\ Len(Received(t, events).events) <= EventCap
           /\ Received(t, events).alive =>
                  t.alive /\ Received(t, events).events = t.events \o events
           /\ Received(t, events).events \in {t.events, t.events \o events, <<>>}
  <1>1. NoTracker \in Tracker /\ Len(NoTracker.events) = 0 /\ NoTracker.events = <<>>
        /\ ~NoTracker.alive
    BY DEF NoTracker, Tracker
  <1>2. EventCap \in Nat
    BY ManagerAssumption
  <1>3. CASE ~t.alive
    <2>1. Received(t, events) = t
      BY <1>3 DEF Received
    <2>2. QED
      BY <1>3, <2>1
  <1>4. CASE t.alive /\ Len(t.events \o events) > EventCap
    <2>1. Received(t, events) = NoTracker
      BY <1>4 DEF Received
    <2>2. QED
      BY <1>1, <1>2, <2>1
  <1>5. CASE t.alive /\ ~(Len(t.events \o events) > EventCap)
    <2> DEFINE new == t.events \o events
    <2>1. Received(t, events) = [t EXCEPT !.events = @ \o events]
      BY <1>5 DEF Received
    <2>2. t.events \in Seq(BusEvent) /\ new \in Seq(BusEvent) /\ Len(new) \in Nat
      BY DEF Tracker
    <2>3. Received(t, events) = [t EXCEPT !.events = new]
      BY <2>1
    <2>4. Len(new) <= EventCap
      BY <1>2, <1>5, <2>2
    <2> HIDE DEF new
    <2>5. Received(t, events).events = new /\ Received(t, events) \in Tracker
      BY <2>2, <2>3 DEF Tracker
    <2>6. QED
      BY <1>5, <2>4, <2>5 DEF new
  <1>6. QED
    BY <1>3, <1>4, <1>5

LEMMA EmitFacts ==
    ASSUME TrackersOK, NEW events \in Seq(BusEvent), Emit(events)
    PROVE  /\ TrackersOK'
           /\ \A s \in Session :
                /\ tracker'[s].alive =>
                       tracker[s].alive /\ tracker'[s].events = tracker[s].events \o events
                /\ tracker'[s].events \in
                       {tracker[s].events, tracker[s].events \o events, <<>>}
  <1>1. \A s \in Session : tracker[s] \in Tracker /\ Len(tracker[s].events) <= EventCap
    BY DEF TrackersOK
  <1>2. \A s \in Session : tracker'[s] = Received(tracker[s], events)
    BY DEF Emit
  <1>3. \A s \in Session : tracker'[s] \in Tracker /\ Len(tracker'[s].events) <= EventCap
    BY <1>1, <1>2, ReceivedFacts
  <1>4. tracker' \in [Session -> Tracker]
    BY <1>3 DEF Emit
  <1>5. \A s \in Session :
            /\ tracker'[s].alive =>
                   tracker[s].alive /\ tracker'[s].events = tracker[s].events \o events
            /\ tracker'[s].events \in
                   {tracker[s].events, tracker[s].events \o events, <<>>}
    BY <1>1, <1>2, ReceivedFacts
  <1>6. QED
    BY <1>3, <1>4, <1>5 DEF TrackersOK

\* What a driver says in a step of its own, by what the step does to its armed flag.
Reports(s, events) ==
    LET d == driver[s]
        e == driver'[s]
    IN  \/ events = <<>> /\ e.armed = d.armed
        \/ events = <<Event("connected", s, d)>> /\ e.armed = d.armed
        \/ events = <<Event("status", s, e)>>
        \/ events = <<Event("status", s, e), Event("ready", s, e)>>
        \/ events = <<Event("shot", s, e), Event("status", s, e)>>
        \/ /\ events = <<Event("disconnected", s, e)>>
           /\ ~e.armed \/ s \in aborted \/ (queue[s] # <<>> /\ Head(queue[s]) = "disconnect")

\* It is armed by an arm command alone.
ArmedByCommand(s) ==
    driver'[s].armed => driver[s].armed \/ (queue[s] # <<>> /\ Head(queue[s]) = "arm")

LEMMA DriverReports ==
    ASSUME Shape, NEW s \in Session, DriverTask(s) \/ HardwareLosesLink(s)
    PROVE  /\ ArmedByCommand(s)
           /\ \/ UNCHANGED tracker /\ driver'[s].armed = driver[s].armed
              \/ \E events : Emit(events) /\ Reports(s, events)
  <1> DEFINE d == driver[s]
             e == driver'[s]
             c == Head(queue[s])
  <1>1. d \in Driver /\ driver \in [Session -> Driver]
    BY DEF Shape
  <1>2. CASE DriverStarts(s)
    <2>1. e.armed = d.armed
      BY <1>1, <1>2 DEF DriverStarts, Driver
    <2>2. QED
      BY <1>2, <2>1 DEF DriverStarts, Reports, ArmedByCommand
  <1>3. CASE SimulatedHandles(s)
    <2> DEFINE new == CASE c = "arm" -> [d EXCEPT !.armed = TRUE]
                        [] c = "disarm" -> [d EXCEPT !.armed = FALSE]
                        [] c = "fire_shot" /\ d.armed -> [d EXCEPT !.phase = "firing"]
                        [] c = "disconnect" -> [d EXCEPT !.phase = "ended"]
                        [] OTHER -> d
               report == Event("status", s, new)
               told == CASE c = "arm" -> <<report, Event("ready", s, new)>>
                         [] c \in {"disarm", "set"} -> <<report>>
                         [] c = "disconnect" -> <<Event("disconnected", s, new)>>
                         [] OTHER -> <<>>
    <2>1. Emit(told) /\ driver' = [driver EXCEPT ![s] = new] /\ queue[s] # <<>>
      BY <1>3, Zenon DEF SimulatedHandles, SetDriver
    <2>2. e = new
      BY <1>1, <2>1
    <2>3. c = "arm" \/ (new.armed => d.armed)
      <3> HIDE DEF c
      <3>1. QED
        BY <1>1 DEF Driver
    <2>4. c \in {"arm", "disarm", "set", "disconnect"} \/ new.armed = d.armed
      <3> HIDE DEF c
      <3>1. QED
        BY <1>1 DEF Driver
    <2>5. \/ told = <<report, Event("ready", s, new)>>
          \/ told = <<report>>
          \/ c = "disconnect" /\ told = <<Event("disconnected", s, new)>>
          \/ c \notin {"arm", "disarm", "set", "disconnect"} /\ told = <<>>
      <3> HIDE DEF c, new
      <3>1. QED
        OBVIOUS
    <2> HIDE DEF new, told
    <2>6. Reports(s, told)
      BY <2>1, <2>2, <2>4, <2>5 DEF Reports
    <2>7. QED
      BY <2>1, <2>2, <2>3, <2>6 DEF ArmedByCommand
  <1>4. CASE SimulatedShoots(s)
    <2> DEFINE new == [d EXCEPT !.phase = "serving", !.armed = FALSE,
                                !.sequence = d.sequence + 1]
    <2>1. /\ Emit(<<Event("shot", s, new), Event("status", s, new)>>)
          /\ driver' = [driver EXCEPT ![s] = new]
      BY <1>4, Zenon DEF SimulatedShoots, SetDriver
    <2>2. new.armed = FALSE
      BY <1>1, AfterShot
    <2> HIDE DEF new
    <2>3. e = new
      BY <1>1, <2>1
    <2>4. QED
      BY <2>1, <2>2, <2>3 DEF Reports, ArmedByCommand
  <1>5. CASE HardwareHandles(s)
    <2> DEFINE new == CASE c = "arm" -> [d EXCEPT !.armed = TRUE]
                        [] c = "disarm" -> [d EXCEPT !.armed = FALSE]
                        [] c = "disconnect" -> [d EXCEPT !.phase = "ended"]
                        [] OTHER -> d
               told == IF c \in {"arm", "disarm", "set"} THEN <<Event("status", s, new)>>
                       ELSE <<>>
    <2>1. Emit(told) /\ driver' = [driver EXCEPT ![s] = new] /\ queue[s] # <<>>
      BY <1>5, Zenon DEF HardwareHandles, SetDriver
    <2>2. e = new
      BY <1>1, <2>1
    <2>3. c = "arm" \/ (new.armed => d.armed)
      <3> HIDE DEF c
      <3>1. QED
        BY <1>1 DEF Driver
    <2>4. c \in {"arm", "disarm"} \/ new.armed = d.armed
      <3> HIDE DEF c
      <3>1. QED
        BY <1>1 DEF Driver
    <2> HIDE DEF new
    <2>5. Reports(s, told)
      BY <2>2, <2>4 DEF Reports
    <2> HIDE DEF told
    <2>6. QED
      BY <2>1, <2>2, <2>3, <2>5 DEF ArmedByCommand
  <1>6. CASE HardwareConnects(s)
    <2>1. e.armed = d.armed
      BY <1>1, <1>6 DEF HardwareConnects, Driver
    <2>2. QED
      BY <1>6, <2>1 DEF HardwareConnects, Reports, ArmedByCommand
  <1>7. CASE HardwareLosesLink(s)
    <2>1. ~e.armed
      BY <1>1, <1>7 DEF HardwareLosesLink, Driver
    <2>2. QED
      BY <1>7, <2>1 DEF HardwareLosesLink, Reports, ArmedByCommand
  <1>8. CASE ChannelCloses(s)
    <2>1. e.armed = d.armed /\ e.sequence = d.sequence
      BY <1>1, <1>8 DEF ChannelCloses, SetDriver, Driver
    <2>2. QED
      BY <1>8, <2>1 DEF ChannelCloses, Reports, ArmedByCommand, Event
  <1>9. QED
    BY <1>2, <1>3, <1>4, <1>5, <1>6, <1>7, <1>8 DEF DriverTask

LEMMA DriverTells ==
    ASSUME Shape, Shape', NEW s \in Session, NEW events, Reports(s, events)
    PROVE  events \in Seq(BusEvent)
  <1>1. driver[s] \in Driver /\ driver'[s] \in Driver
    BY DEF Shape
  <1>2. /\ Event("connected", s, driver[s]) \in BusEvent
        /\ Event("status", s, driver'[s]) \in BusEvent
        /\ Event("ready", s, driver'[s]) \in BusEvent
        /\ Event("shot", s, driver'[s]) \in BusEvent
        /\ Event("disconnected", s, driver'[s]) \in BusEvent
    BY <1>1, EventFacts DEF EventType
  <1>3. QED
    BY <1>2, FewEvents DEF Reports

Sent == Command \cup {"disconnect"}

LEMMA QueueGrows ==
    ASSUME QueuesOK, NEW s, NEW x \in Sent, Len(queue[s]) < CommandCap,
           queue' = [queue EXCEPT ![s] = Append(@, x)]
    PROVE  QueuesOK'
  <1>1. CASE s \notin Session
    BY <1>1 DEF QueuesOK
  <1>2. CASE s \in Session
    <2>1. queue[s] \in Seq(Sent) /\ CommandCap \in Nat
      BY <1>2, ManagerAssumption DEF QueuesOK, Sent
    <2>2. Append(queue[s], x) \in Seq(Sent) /\ Len(Append(queue[s], x)) <= CommandCap
      BY <2>1
    <2>3. QED
      BY <1>2, <2>2 DEF QueuesOK, Sent
  <1>3. QED
    BY <1>1, <1>2

LEMMA QueueShrinks ==
    ASSUME QueuesOK, NEW s \in Session, NEW d,
           \/ SetDriver(s, d, queue[s]) \/ SetDriver(s, d, <<>>)
           \/ SetDriver(s, d, Tail(queue[s])) /\ queue[s] # <<>>
    PROVE  /\ QueuesOK'
           /\ \A t \in Session \ {s} : queue'[t] = queue[t]
           /\ \/ queue'[s] \in {queue[s], <<>>}
              \/ queue[s] # <<>> /\ queue'[s] = Tail(queue[s])
  <1>1. queue[s] \in Seq(Sent) /\ Len(queue[s]) <= CommandCap /\ CommandCap \in Nat
    BY ManagerAssumption DEF QueuesOK, Sent
  <1>2. queue[s] # <<>> => Tail(queue[s]) \in Seq(Sent) /\ Len(Tail(queue[s])) <= CommandCap
    BY <1>1
  <1>3. <<>> \in Seq(Sent) /\ Len(<<>>) <= CommandCap
    BY <1>1
  <1>4. PICK q : /\ queue' = [queue EXCEPT ![s] = q]
                 /\ \/ q \in {queue[s], <<>>}
                    \/ queue[s] # <<>> /\ q = Tail(queue[s])
    BY DEF SetDriver
  <1>5. q \in Seq(Sent) /\ Len(q) <= CommandCap
    BY <1>1, <1>2, <1>3, <1>4
  <1>6. QED
    BY <1>4, <1>5 DEF QueuesOK, Sent

LEMMA DriverQueue ==
    ASSUME QueuesOK, NEW s \in Session, DriverTask(s) \/ HardwareLosesLink(s)
    PROVE  /\ QueuesOK'
           /\ \A t \in Session \ {s} : queue'[t] = queue[t]
           /\ \/ queue'[s] \in {queue[s], <<>>}
              \/ queue[s] # <<>> /\ queue'[s] = Tail(queue[s])
  <1>1. CASE UNCHANGED queue
    BY <1>1 DEF QueuesOK
  <1>2. CASE DriverStarts(s) \/ HardwareConnects(s) \/ HardwareLosesLink(s)
    BY <1>1, <1>2 DEF DriverStarts, HardwareConnects, HardwareLosesLink
  <1>3. CASE SimulatedHandles(s)
    <2>1. queue[s] # <<>> /\ \E d : SetDriver(s, d, Tail(queue[s]))
      BY <1>3, Zenon DEF SimulatedHandles
    <2>2. QED
      BY <2>1, QueueShrinks
  <1>4. CASE SimulatedShoots(s)
    <2>1. \E d : SetDriver(s, d, queue[s])
      BY <1>4, Zenon DEF SimulatedShoots
    <2>2. QED
      BY <2>1, QueueShrinks
  <1>5. CASE HardwareHandles(s)
    <2>1. queue[s] # <<>> /\ \E d : SetDriver(s, d, Tail(queue[s]))
      BY <1>5, Zenon DEF HardwareHandles
    <2>2. QED
      BY <2>1, QueueShrinks
  <1>6. CASE ChannelCloses(s)
    <2>1. \E d : SetDriver(s, d, <<>>)
      BY <1>6, Zenon DEF ChannelCloses
    <2>2. QED
      BY <2>1, QueueShrinks
  <1>7. QED
    BY <1>2, <1>3, <1>4, <1>5, <1>6 DEF DriverTask

\* Applying an event keeps the types of what is shown.
LEMMA AppliesFacts ==
    ASSUME TrackersOK, RestOK, NEW s \in Session, TrackerApplies(s)
    PROVE  TrackersOK' /\ RestOK'
  <1> DEFINE t == tracker[s]
             e == Head(t.events)
  <1>1. t \in Tracker /\ Len(t.events) <= EventCap /\ t.events # <<>> /\ EventCap \in Nat
    BY ManagerAssumption DEF TrackersOK, TrackerApplies
  <1>2. /\ t.events \in Seq(BusEvent) /\ e \in BusEvent
        /\ Tail(t.events) \in Seq(BusEvent) /\ Len(Tail(t.events)) <= EventCap
    BY <1>1, TailFacts DEF Tracker
  <1>3. tracker' = [tracker EXCEPT ![s] = [t EXCEPT !.events = Tail(t.events)]]
    BY DEF TrackerApplies
  <1>4. [t EXCEPT !.events = Tail(t.events)] \in Tracker
        /\ [t EXCEPT !.events = Tail(t.events)].events = Tail(t.events)
    BY <1>1, <1>2 DEF Tracker
  <1>5. TrackersOK'
    <2> HIDE DEF t
    <2>1. QED
      BY <1>2, <1>3, <1>4 DEF TrackersOK
  <1>6. Apply(e) /\ UNCHANGED <<simTasks, aborted, abandoned, issued, faults>>
    BY DEF TrackerApplies, bounds
  <1>7. /\ e.from \in Session /\ e.armed \in BOOLEAN /\ e.sequence \in Nat
    BY <1>2 DEF BusEvent
  <1> HIDE DEF e
  <1>8. /\ device' \in {device, e.from}
        /\ status' \in {[armed |-> e.armed, from |-> e.from],
                        [armed |-> FALSE, from |-> e.from], status}
        /\ lastShot' \in {[from |-> e.from, sequence |-> e.sequence], lastShot}
    <2>1. CASE session = None
      BY <1>6, <2>1 DEF Apply, shown
    <2>2. CASE session # None
      BY <1>6, <2>2 DEF Apply
    <2>3. QED
      BY <2>1, <2>2
  <1>9. RestOK'
    <2>1. device' \in Session \cup {None}
      BY <1>7, <1>8 DEF RestOK
    <2>2. status' \in [armed : BOOLEAN, from : Session \cup {None}]
      <3>1. /\ [armed |-> e.armed, from |-> e.from] \in
                   [armed : BOOLEAN, from : Session \cup {None}]
            /\ [armed |-> FALSE, from |-> e.from] \in
                   [armed : BOOLEAN, from : Session \cup {None}]
        BY <1>7
      <3>2. QED
        BY <1>8, <3>1 DEF RestOK
    <2>3. lastShot' \in [from : Session \cup {None}, sequence : Nat]
      BY <1>7, <1>8 DEF RestOK
    <2>4. QED
      BY <1>6, <2>1, <2>2, <2>3 DEF RestOK
  <1>10. QED
    BY <1>5, <1>9

ChannelsOK == QueuesOK /\ TrackersOK /\ RestOK

LEMMA ChannelsTyped == Spec => []ChannelsOK
  <1>1. Init => ChannelsOK
    <2> SUFFICES ASSUME Init PROVE ChannelsOK
      OBVIOUS
    <2>1. CommandCap \in Nat /\ EventCap \in Nat
      BY ManagerAssumption
    <2>2. NoTracker \in Tracker /\ Len(NoTracker.events) = 0
      BY DEF NoTracker, Tracker
    <2>3. QueuesOK
      BY <2>1 DEF Init, QueuesOK
    <2>4. TrackersOK
      BY <2>1, <2>2 DEF Init, TrackersOK
    <2>5. RestOK
      BY DEF Init, RestOK, NothingShown, NoShotShown, None
    <2>6. QED
      BY <2>3, <2>4, <2>5 DEF ChannelsOK
  <1>2. ASSUME ChannelsOK, KnownSessions, Shape, Shape', [Next]_managerVars
        PROVE  ChannelsOK'
    <2> USE <1>2 DEF ChannelsOK
    <2>1. ASSUME UNCHANGED queue PROVE QueuesOK'
      BY <2>1 DEF QueuesOK
    <2>2. ASSUME UNCHANGED tracker PROVE TrackersOK'
      BY <2>2 DEF TrackersOK
    <2>3. ASSUME UNCHANGED <<device, status, lastShot, simTasks, aborted, abandoned>>,
                 issued' \in Nat, faults' \in Nat
          PROVE  RestOK'
      BY <2>3 DEF RestOK
    <2>4. issued \in Nat /\ faults \in Nat /\ issued + 1 \in Nat /\ faults + 1 \in Nat
      BY DEF RestOK
    <2>5. CASE UNCHANGED managerVars
      BY <2>1, <2>2, <2>3, <2>4, <2>5 DEF managerVars, shown, tasks, bounds
    <2>6. ASSUME NEW c \in Clients, NewRequest(c) PROVE ChannelsOK'
      <3>1. UNCHANGED tasks /\ issued' \in Nat /\ faults' \in Nat
        BY <2>4, <2>6 DEF NewRequest, ConnectCheck, DisconnectTakes, FireShotCheck, CommandTaken
      <3>2. CASE DisconnectTakes(c)
        BY <2>1, <2>2, <3>1, <3>2
          DEF DisconnectTakes, tasks, RestOK, NothingShown, NoShotShown, None
      <3>3. CASE ~DisconnectTakes(c)
        <4>1. UNCHANGED shown
          BY <2>6, <3>3 DEF NewRequest, ConnectCheck, FireShotCheck, CommandTaken
        <4>2. QED
          BY <2>1, <2>2, <2>3, <3>1, <4>1 DEF tasks, shown
      <3>4. QED
        BY <3>2, <3>3
    <2>7. ASSUME NEW c \in Clients, Handler(c) PROVE ChannelsOK'
      <3>1. CASE SpawnDriver(c)
        BY <2>1, <2>2, <2>3, <2>4, <3>1 DEF SpawnDriver, shown
      <3>2. CASE SpawnConsumers(c)
        <4> DEFINE s == request[c].of
                   new == [alive |-> TRUE, events |-> <<>>]
        <4>1. s \in Session
          BY <3>2 DEF SpawnConsumers, KnownSessions, RequestsOK
        <4>2. new \in Tracker /\ Len(new.events) <= EventCap
          BY ManagerAssumption DEF Tracker
        <4>3. tracker' = [tracker EXCEPT ![s] = new] /\ simTasks' = simTasks \cup {s}
          BY <3>2 DEF SpawnConsumers
        <4> HIDE DEF s, new
        <4>4. TrackersOK'
          BY <4>1, <4>2, <4>3 DEF TrackersOK
        <4>5. RestOK'
          BY <2>4, <3>2, <4>1, <4>3 DEF SpawnConsumers, RestOK, shown, bounds
        <4>6. QED
          BY <2>1, <3>2, <4>4, <4>5 DEF SpawnConsumers
      <3>3. CASE Store(c)
        <4>1. RestOK'
          BY <3>3 DEF Store, RestOK, KnownSessions, bounds, NothingShown, NoShotShown, None
        <4>2. QED
          BY <2>1, <2>2, <3>3, <4>1 DEF Store
      <3>4. CASE DisconnectEnds(c)
        <4>1. QueuesOK'
          BY <2>1, <3>4, QueueGrows DEF DisconnectEnds, Sent
        <4>2. RestOK'
          BY <3>4 DEF DisconnectEnds, RestOK, KnownSessions, RequestsOK, shown, bounds
        <4>3. QED
          BY <2>2, <3>4, <4>1, <4>2 DEF DisconnectEnds
      <3>5. CASE FireShotTaken(c)
        BY <2>1, <2>2, <2>3, <2>4, <3>5 DEF FireShotTaken, shown, tasks, bounds
      <3>6. CASE SendEnds(c)
        <4>1. QueuesOK'
          BY <2>1, <3>6, QueueGrows DEF SendEnds, Sent
        <4>2. QED
          BY <2>2, <2>3, <2>4, <3>6, <4>1 DEF SendEnds, shown, bounds
      <3>7. QED
        BY <2>7, <3>1, <3>2, <3>3, <3>4, <3>5, <3>6 DEF Handler
    <2>8. ASSUME NEW c \in Clients, GiveUp(c) PROVE ChannelsOK'
      <3>1. RestOK'
        BY <2>4, <2>8 DEF GiveUp, RestOK, KnownSessions, RequestsOK, shown
      <3>2. QED
        BY <2>1, <2>2, <2>8, <3>1 DEF GiveUp
    <2>9. ASSUME NEW s \in Session, Task(s) PROVE ChannelsOK'
      <3>1. CASE DriverTask(s) \/ HardwareLosesLink(s)
        <4>1. UNCHANGED <<shown, simTasks, aborted, abandoned, issued>>
              /\ faults' \in {faults, faults + 1}
          BY <3>1 DEF DriverTask, DriverStarts, SimulatedHandles, SimulatedShoots,
                HardwareHandles, HardwareConnects, ChannelCloses, HardwareLosesLink, bounds
        <4>2. TrackersOK'
          BY <2>2, <3>1, DriverReports, DriverTells, EmitFacts
        <4>3. QED
          BY <2>3, <2>4, <3>1, <4>1, <4>2, DriverQueue DEF shown
      <3>2. CASE SimSends(s)
        <4>1. QueuesOK'
          BY <3>2, QueueGrows DEF SimSends, Sent, Command
        <4>2. QED
          BY <2>2, <2>3, <2>4, <3>2, <4>1 DEF SimSends, shown
      <3>3. CASE TrackerApplies(s)
        BY <2>1, <3>3, AppliesFacts DEF TrackerApplies
      <3>4. CASE AbortTakesEffect(s)
        <4>1. QueuesOK'
          BY <2>1, <3>4, QueueShrinks DEF AbortTakesEffect
        <4>2. NoTracker \in Tracker /\ Len(NoTracker.events) <= EventCap
          BY ManagerAssumption DEF NoTracker, Tracker
        <4>3. TrackersOK'
          BY <2>2, <3>4, <4>2 DEF AbortTakesEffect, TrackersOK
        <4>4. RestOK'
          BY <2>4, <3>4 DEF AbortTakesEffect, RestOK, shown, bounds
        <4>5. QED
          BY <4>1, <4>3, <4>4
      <3>5. QED
        BY <2>9, <3>1, <3>2, <3>3, <3>4 DEF Task
    <2>10. QED
      BY <2>5, <2>6, <2>7, <2>8, <2>9 DEF Next, Quiet
  <1>3. QED
    BY <1>1, <1>2, ShapeKept, SessionsAreKnown, PTL DEF Spec

WriterOK == writer \in Clients \cup {None}

LEMMA WriterIsClient == Spec => []WriterOK
  <1>1. Init => WriterOK
    BY DEF Init, WriterOK
  <1>2. ASSUME WriterOK, [Next]_managerVars PROVE WriterOK'
    <2>1. \A s \in Session : Task(s) => UNCHANGED writer
      BY TaskKeeps DEF lock
    <2>2. QED
      BY <1>2, <2>1
        DEF Next, Quiet, NewRequest, Handler, ConnectCheck, DisconnectTakes, FireShotCheck,
            CommandTaken, SpawnDriver, SpawnConsumers, Store, DisconnectEnds, FireShotTaken,
            SendEnds, GiveUp, lock, managerVars, WriterOK
  <1>3. QED
    BY <1>1, <1>2, PTL DEF Spec

\* The variables of the session manager keep their types, the lock is held as the code
\* holds it, and neither the command channels nor the bus hold more than they have room
\* for (state.rs:84, 162-182).
THEOREM ManagerTypeCorrect == Spec => []ManagerTypeOK
  <1>1. ASSUME Shape, LockHeld, RoomForChecked, KnownSessions, ChannelsOK, WriterOK
        PROVE  ManagerTypeOK
    <2> USE <1>1
    <2>1. started \in 0..MaxSessions
      <3>1. started \in Nat /\ MaxSessions \in Nat /\ Cardinality(Checked) \in Nat
        BY FS_CardinalityType, ManagerAssumption DEF RoomForChecked, Shape
      <3>2. QED
        BY <3>1 DEF RoomForChecked
    <2>2. readers \subseteq Clients /\ writer \in Clients \cup {None}
      BY DEF LockHeld, WriterOK
    <2>3. QED
      BY <2>1, <2>2 DEF ManagerTypeOK, Shape, Driver, KnownSessions, RequestsOK, ChannelsOK,
            QueuesOK, TrackersOK, RestOK, Tracker, BusEvent
  <1>2. QED
    BY <1>1, ShapeKept, LockIsHeld, RoomIsKept, SessionsAreKnown, ChannelsTyped,
       WriterIsClient, PTL

-----------------------------------------------------------------------------
(* What is shown *)

StartsIt(r, s) == r.of = s /\ r.op \in {"spawned", "storing"}
Beginning(s) == \E c \in Clients : StartsIt(request[c], s)
Ending(s) == \E c \in Clients : request[c].of = s /\ request[c].op = "disconnecting"

\* A session is to come, or begins, or is current, or has been taken or replaced.
ToCome(s) ==
    s > started =>
        /\ ~Beginning(s) /\ ~Ending(s) /\ session # s
        /\ s \notin aborted /\ s \notin simTasks
        /\ queue[s] = <<>> /\ tracker[s] = NoTracker
Begins(s) ==
    /\ Beginning(s) => session # s /\ ~Ending(s) /\ s \notin aborted
    /\ \A b, c \in Clients : StartsIt(request[b], s) /\ StartsIt(request[c], s) => b = c
Serves(s) == session = s => ~Ending(s) /\ s \notin aborted

Staged == \A s \in Session : ToCome(s) /\ Begins(s) /\ Serves(s)

\* The tasks of a session to come have nothing to do.
LEMMA NothingToDo ==
    ASSUME NEW s \in Session, ToCome(s), DriverSound(s), s > started
    PROVE  ~Task(s)
  BY DEF ToCome, DriverSound, Task, DriverTask, DriverStarts, SimulatedHandles,
      SimulatedShoots, HardwareHandles, HardwareConnects, ChannelCloses, HardwareLosesLink,
      SimSends, TrackerApplies, AbortTakesEffect, NoTracker

\* Which requests begin or end a session, and which session they make current or abort.
LEMMA ClientMoves ==
    ASSUME KnownSessions, KnownSessions', Staged, CommandsStayCurrent, Shape, ChannelsOK,
           NEW c \in Clients, NewRequest(c) \/ Handler(c) \/ GiveUp(c), NEW s \in Session
    PROVE  /\ \A b \in Clients \ {c} : request'[b] = request[b]
           /\ StartsIt(request'[c], s) =>
                  StartsIt(request[c], s) \/ (SpawnDriver(c) /\ s = started')
           /\ Beginning(s)' => Beginning(s) \/ (SpawnDriver(c) /\ s = started')
           /\ Ending(s)' => Ending(s) \/ (DisconnectTakes(c) /\ session = s)
           /\ started' = (IF SpawnDriver(c) THEN started + 1 ELSE started)
           /\ session' = s => session = s \/ (Store(c) /\ StartsIt(request[c], s))
           /\ s \in aborted' =>
                  \/ s \in aborted
                  \/ Store(c) /\ session = s
                  \/ request[c].of = s /\ request[c].op = "disconnecting"
           /\ DisconnectTakes(c) => session' # s
  <1>1. /\ s \in Nat /\ s # None /\ started \in Nat
        /\ ToCome(s) /\ Begins(s) /\ Serves(s)
        /\ request \in [Clients -> [op : Op, of : Session \cup {None}]]
        /\ queue \in [Session -> Seq(Command \cup {"disconnect"})]
        /\ tracker \in [Session -> Tracker]
    BY ManagerAssumption
      DEF Session, None, Shape, Staged, KnownSessions, RequestsOK, ChannelsOK, QueuesOK,
          TrackersOK
  <1>2. \A b \in Clients \ {c} : request'[b] = request[b]
    BY <1>1 DEF NewRequest, Handler, ConnectCheck, DisconnectTakes, FireShotCheck, CommandTaken,
            SpawnDriver, SpawnConsumers, Store, DisconnectEnds, FireShotTaken, SendEnds, GiveUp
  <1>3. /\ StartsIt(request'[c], s) => StartsIt(request[c], s) \/ (SpawnDriver(c) /\ s = started')
        /\ request'[c].of = s /\ request'[c].op = "disconnecting" =>
               DisconnectTakes(c) /\ session = s
    <2>1. CASE NewRequest(c)
      BY <1>1, <2>1, ManagerAssumption
        DEF NewRequest, ConnectCheck, DisconnectTakes, FireShotCheck, CommandTaken, StartsIt,
            Command
    <2>2. CASE Handler(c)
      <3>1. CASE SpawnDriver(c)
        BY <1>1, <3>1 DEF SpawnDriver, StartsIt
      <3>2. CASE SpawnConsumers(c)
        BY <1>1, <3>2 DEF SpawnConsumers, StartsIt
      <3>3. CASE Store(c) \/ DisconnectEnds(c) \/ SendEnds(c)
        BY <1>1, <3>3 DEF Store, DisconnectEnds, SendEnds, StartsIt, NoRequest
      <3>4. CASE FireShotTaken(c)
        BY <1>1, <3>4 DEF FireShotTaken, StartsIt, NoRequest
      <3>5. QED
        BY <2>2, <3>1, <3>2, <3>3, <3>4 DEF Handler
    <2>3. CASE GiveUp(c)
      BY <1>1, <2>3 DEF GiveUp, StartsIt, NoRequest
    <2>4. QED
      BY <2>1, <2>2, <2>3
  <1>4. Beginning(s)' => Beginning(s) \/ (SpawnDriver(c) /\ s = started')
    <2> SUFFICES ASSUME Beginning(s)', ~Beginning(s) PROVE SpawnDriver(c) /\ s = started'
      OBVIOUS
    <2>1. PICK b \in Clients : StartsIt(request'[b], s)
      BY DEF Beginning
    <2>2. ~StartsIt(request[b], s) /\ ~StartsIt(request[c], s)
      BY DEF Beginning
    <2>3. b = c
      BY <1>2, <2>1, <2>2
    <2>4. QED
      BY <1>3, <2>1, <2>2, <2>3
  <1>5. Ending(s)' => Ending(s) \/ (DisconnectTakes(c) /\ session = s)
    <2> SUFFICES ASSUME Ending(s)', ~Ending(s) PROVE DisconnectTakes(c) /\ session = s
      OBVIOUS
    <2>1. PICK b \in Clients : request'[b].of = s /\ request'[b].op = "disconnecting"
      BY DEF Ending
    <2>2. ~(request[b].of = s /\ request[b].op = "disconnecting")
      BY DEF Ending
    <2>3. b = c
      BY <1>2, <2>1, <2>2
    <2>4. QED
      BY <1>3, <2>1, <2>3
  <1>6. started' = (IF SpawnDriver(c) THEN started + 1 ELSE started)
    BY DEF NewRequest, Handler, ConnectCheck, DisconnectTakes, FireShotCheck, CommandTaken,
        SpawnDriver, SpawnConsumers, Store, DisconnectEnds, FireShotTaken, SendEnds, GiveUp,
        bounds
  <1>7. session' = s => session = s \/ (Store(c) /\ StartsIt(request[c], s))
    <2>1. CASE NewRequest(c)
      BY <1>1, <2>1
        DEF NewRequest, ConnectCheck, DisconnectTakes, FireShotCheck, CommandTaken, shown
    <2>2. CASE Store(c)
      BY <1>1, <2>2 DEF Store, StartsIt
    <2>3. CASE Handler(c) /\ ~Store(c)
      BY <1>1, <2>3
        DEF Handler, SpawnDriver, SpawnConsumers, DisconnectEnds, FireShotTaken, SendEnds, shown
    <2>4. CASE GiveUp(c)
      BY <1>1, <2>4 DEF GiveUp, shown
    <2>5. QED
      BY <2>1, <2>2, <2>3, <2>4
  <1>8. s \in aborted' =>
            \/ s \in aborted
            \/ Store(c) /\ session = s
            \/ request[c].of = s /\ request[c].op = "disconnecting"
    <2>1. CASE NewRequest(c)
      BY <1>1, <2>1
        DEF NewRequest, ConnectCheck, DisconnectTakes, FireShotCheck, CommandTaken, tasks
    <2>2. CASE Store(c)
      BY <1>1, <2>2 DEF Store
    <2>3. CASE DisconnectEnds(c)
      BY <1>1, <2>3 DEF DisconnectEnds
    <2>4. CASE Handler(c) /\ ~Store(c) /\ ~DisconnectEnds(c)
      BY <1>1, <2>4
        DEF Handler, SpawnDriver, SpawnConsumers, FireShotTaken, SendEnds, tasks
    <2>5. CASE GiveUp(c)
      BY <1>1, <2>5 DEF GiveUp
    <2>6. QED
      BY <2>1, <2>2, <2>3, <2>4, <2>5
  <1>9. DisconnectTakes(c) => session' # s
    BY <1>1 DEF DisconnectTakes
  <1>10. QED
    BY <1>2, <1>3, <1>4, <1>5, <1>6, <1>7, <1>8, <1>9

LEMMA ClientStages ==
    ASSUME KnownSessions, KnownSessions', Staged, CommandsStayCurrent, Shape, ChannelsOK,
           NEW c \in Clients, NewRequest(c) \/ Handler(c) \/ GiveUp(c), NEW s \in Session
    PROVE  (ToCome(s) /\ Begins(s) /\ Serves(s))'
  <1>1. /\ s \in Nat /\ s # None /\ started \in Nat
        /\ ToCome(s) /\ Begins(s) /\ Serves(s)
        /\ request \in [Clients -> [op : Op, of : Session \cup {None}]]
        /\ queue \in [Session -> Seq(Command \cup {"disconnect"})]
        /\ tracker \in [Session -> Tracker]
    BY ManagerAssumption
      DEF Session, None, Shape, Staged, KnownSessions, RequestsOK, ChannelsOK, QueuesOK,
          TrackersOK
  <1>2. /\ \A b \in Clients \ {c} : request'[b] = request[b]
        /\ StartsIt(request'[c], s) =>
               StartsIt(request[c], s) \/ (SpawnDriver(c) /\ s = started')
    BY ClientMoves
  <1>3. /\ Beginning(s)' => Beginning(s) \/ (SpawnDriver(c) /\ s = started')
        /\ Ending(s)' => Ending(s) \/ (DisconnectTakes(c) /\ session = s)
    BY ClientMoves
  <1>4. started' = (IF SpawnDriver(c) THEN started + 1 ELSE started)
    BY ClientMoves
  <1>5. /\ session' = s => session = s \/ (Store(c) /\ StartsIt(request[c], s))
        /\ DisconnectTakes(c) => session' # s
    BY ClientMoves
  <1>6. s \in aborted' =>
            \/ s \in aborted
            \/ Store(c) /\ session = s
            \/ request[c].of = s /\ request[c].op = "disconnecting"
    BY ClientMoves
  <1>7. /\ StartsIt(request[c], s) => Beginning(s)
        /\ request[c].of = s /\ request[c].op = "disconnecting" => Ending(s)
    BY DEF Beginning, Ending
  <1>8. ToCome(s)'
    <2> SUFFICES ASSUME s > started'
                 PROVE  /\ ~Beginning(s)' /\ ~Ending(s)' /\ session' # s
                        /\ s \notin aborted' /\ s \notin simTasks'
                        /\ queue'[s] = <<>> /\ tracker'[s] = NoTracker
      BY DEF ToCome
    <2>1. s > started
      BY <1>1, <1>4
    <2>2. /\ ~Beginning(s) /\ ~Ending(s) /\ session # s /\ s \notin aborted
          /\ s \notin simTasks /\ queue[s] = <<>> /\ tracker[s] = NoTracker
      BY <1>1, <2>1 DEF ToCome
    <2>3. ~Beginning(s)' /\ ~Ending(s)' /\ session' # s /\ s \notin aborted'
      BY <1>1, <1>3, <1>5, <1>6, <1>7, <2>2
    <2>4. ~StartsIt(request[c], s) /\ request[c].of = s => request[c].op \notin Command
      BY <2>2 DEF CommandsStayCurrent
    <2>5. s \notin simTasks' /\ tracker'[s] = tracker[s]
      BY <1>1, <1>7, <2>2
        DEF NewRequest, Handler, ConnectCheck, DisconnectTakes, FireShotCheck, CommandTaken,
            SpawnDriver, SpawnConsumers, Store, DisconnectEnds, FireShotTaken, SendEnds, GiveUp,
            tasks, StartsIt
    <2>6. queue'[s] = queue[s]
      BY <1>1, <1>7, <2>2, <2>4
        DEF NewRequest, Handler, ConnectCheck, DisconnectTakes, FireShotCheck, CommandTaken,
            SpawnDriver, SpawnConsumers, Store, DisconnectEnds, FireShotTaken, SendEnds, GiveUp,
            tasks, StartsIt
    <2>7. QED
      BY <2>2, <2>3, <2>5, <2>6
  <1>9. Begins(s)'
    <2>1. \A b, d \in Clients :
              StartsIt(request'[b], s) /\ StartsIt(request'[d], s) => b = d
      <3>1. CASE SpawnDriver(c) /\ s = started'
        <4>1. ~Beginning(s)
          BY <1>1, <1>4, <3>1 DEF ToCome
        <4>2. QED
          BY <1>2, <4>1 DEF Beginning
      <3>2. CASE ~(SpawnDriver(c) /\ s = started')
        BY <1>1, <1>2, <3>2 DEF Begins
      <3>3. QED
        BY <3>1, <3>2
    <2>2. ASSUME Beginning(s)' PROVE session' # s /\ ~Ending(s)' /\ s \notin aborted'
      <3>1. CASE SpawnDriver(c) /\ s = started'
        <4>1. ~Ending(s) /\ session # s /\ s \notin aborted
          BY <1>1, <1>4, <3>1 DEF ToCome
        <4>2. request[c].op = "checked" /\ ~Store(c)
          BY <3>1 DEF SpawnDriver, Store
        <4>3. QED
          BY <1>3, <1>5, <1>6, <4>1, <4>2
      <3>2. CASE Beginning(s) /\ ~(SpawnDriver(c) /\ s = started')
        <4>1. ~Ending(s) /\ session # s /\ s \notin aborted
          BY <1>1, <3>2 DEF Begins
        <4>2. ~(Store(c) /\ StartsIt(request[c], s))
          <5> SUFFICES ASSUME Store(c), StartsIt(request[c], s) PROVE FALSE
            OBVIOUS
          <5>1. ~StartsIt(request'[c], s)
            BY <1>1 DEF Store, NoRequest, StartsIt
          <5>2. PICK b \in Clients : StartsIt(request'[b], s)
            BY <2>2 DEF Beginning
          <5>3. b # c /\ StartsIt(request[b], s)
            BY <1>2, <5>1, <5>2
          <5>4. QED
            BY <1>1, <5>3 DEF Begins
        <4>3. QED
          BY <1>3, <1>5, <1>6, <1>7, <4>1, <4>2
      <3>3. QED
        BY <1>3, <2>2, <3>1, <3>2
    <2>3. QED
      BY <2>1, <2>2 DEF Begins
  <1>10. Serves(s)'
    <2> SUFFICES ASSUME session' = s PROVE ~Ending(s)' /\ s \notin aborted'
      BY DEF Serves
    <2>1. CASE Store(c) /\ StartsIt(request[c], s)
      <3>1. session # s /\ ~Ending(s) /\ s \notin aborted
        BY <1>1, <1>7, <2>1 DEF Begins
      <3>2. ~DisconnectTakes(c)
        BY <1>5
      <3>3. QED
        BY <1>3, <1>6, <1>7, <3>1, <3>2
    <2>2. CASE session = s /\ ~Store(c)
      BY <1>1, <1>3, <1>6, <1>5, <1>7, <2>2 DEF Serves
    <2>3. CASE session = s /\ Store(c)
      <3>1. request[c].of = s /\ StartsIt(request[c], s)
        BY <2>3 DEF Store, StartsIt
      <3>2. QED
        BY <1>1, <1>7, <2>3, <3>1 DEF Begins
    <2>4. QED
      BY <1>5, <2>1, <2>2, <2>3
  <1>11. QED
    BY <1>8, <1>9, <1>10

\* What a step of one session's task leaves alone of another session.
LEMMA OtherSessions ==
    ASSUME Shape, Shape', ChannelsOK, NEW t \in Session, Task(t), NEW s \in Session, s # t
    PROVE  /\ queue'[s] = queue[s]
           /\ ~tracker[s].alive => tracker'[s] = tracker[s]
           /\ s \in simTasks' => s \in simTasks
  <1> USE DEF ChannelsOK
  <1>1. queue \in [Session -> Seq(Command \cup {"disconnect"})] /\ tracker \in [Session -> Tracker]
    BY DEF QueuesOK, TrackersOK
  <1>2. CASE DriverTask(t) \/ HardwareLosesLink(t)
    <2>1. queue'[s] = queue[s]
      BY <1>2, DriverQueue
    <2>2. UNCHANGED simTasks
      BY <1>2 DEF DriverTask, DriverStarts, SimulatedHandles, SimulatedShoots, HardwareHandles,
            HardwareConnects, ChannelCloses, HardwareLosesLink
    <2>3. UNCHANGED tracker \/ \E events : Emit(events)
      BY <1>2, DriverReports
    <2>4. ~tracker[s].alive => tracker'[s] = tracker[s]
      BY <2>3 DEF Emit, Received
    <2>5. QED
      BY <2>1, <2>2, <2>4
  <1>3. CASE SimSends(t) \/ TrackerApplies(t)
    BY <1>1, <1>3 DEF SimSends, TrackerApplies
  <1>4. CASE AbortTakesEffect(t)
    BY <1>1, <1>4 DEF AbortTakesEffect, SetDriver
  <1>5. QED
    BY <1>2, <1>3, <1>4 DEF Task

LEMMA TaskStages ==
    ASSUME Staged, Shape, Shape', ChannelsOK, DriversSound, NEW t \in Session, Task(t),
           NEW s \in Session
    PROVE  (ToCome(s) /\ Begins(s) /\ Serves(s))'
  <1>1. /\ UNCHANGED <<request, session, aborted>> /\ started' = started
        /\ ToCome(s) /\ Begins(s) /\ Serves(s)
    BY TaskKeeps
      DEF Staged, Task, DriverTask, DriverStarts, SimulatedHandles, SimulatedShoots,
          HardwareHandles, HardwareConnects, ChannelCloses, HardwareLosesLink, SimSends,
          TrackerApplies, AbortTakesEffect, bounds
  <1>2. (Beginning(s)' <=> Beginning(s)) /\ (Ending(s)' <=> Ending(s))
    BY <1>1 DEF Beginning, Ending
  <1>3. ToCome(s)'
    <2> SUFFICES ASSUME s > started
                 PROVE  s \notin simTasks' /\ queue'[s] = <<>> /\ tracker'[s] = NoTracker
      BY <1>1, <1>2 DEF ToCome
    <2>1. s # t
      BY <1>1, NothingToDo DEF DriversSound
    <2>2. s \notin simTasks /\ queue[s] = <<>> /\ tracker[s] = NoTracker
      BY <1>1 DEF ToCome
    <2>3. QED
      BY <2>1, <2>2, OtherSessions DEF NoTracker
  <1>4. QED
    BY <1>1, <1>2, <1>3 DEF Begins, Serves

LEMMA StagesHold == Spec => []Staged
  <1>1. Init => Staged
    BY DEF Init, Staged, ToCome, Begins, Serves, Beginning, Ending, StartsIt, NoRequest, Session,
        None, NoTracker
  <1>2. ASSUME KnownSessions, KnownSessions', Staged, CommandsStayCurrent, Shape, Shape',
               ChannelsOK, DriversSound, [Next]_managerVars
        PROVE  Staged'
    <2> SUFFICES ASSUME NEW s \in Session PROVE (ToCome(s) /\ Begins(s) /\ Serves(s))'
      BY DEF Staged
    <2>1. CASE UNCHANGED managerVars
      BY <1>2, <2>1 DEF managerVars, shown, tasks, bounds, Staged, ToCome, Begins, Serves,
            Beginning, Ending
    <2>2. ASSUME NEW c \in Clients, NewRequest(c) \/ Handler(c) \/ GiveUp(c)
          PROVE  (ToCome(s) /\ Begins(s) /\ Serves(s))'
      BY <1>2, <2>2, ClientStages
    <2>3. ASSUME NEW t \in Session, Task(t) PROVE (ToCome(s) /\ Begins(s) /\ Serves(s))'
      BY <1>2, <2>3, TaskStages
    <2>4. QED
      BY <1>2, <2>1, <2>2, <2>3 DEF Next, Quiet
  <1>3. QED
    BY <1>1, <1>2, ShapeKept, SessionsAreKnown, CommandsGoToTheirSession, ChannelsTyped,
       DriversStaySound, PTL DEF Spec

-----------------------------------------------------------------------------
(* The status shown *)

\* The events that say whether the device is armed, and what they say.
Shows ==
    [e \in {x \in BusEvent : x.type \in {"status", "ready", "disconnected"}}
        |-> e.type # "disconnected" /\ e.armed]

Unarmed(events) == \A i \in DOMAIN events : ~events[i].armed

\* Until the session is stored its driver is not armed, nor told to be: there is no
\* session to send a command to, and the sim output sends settings alone.
BegunUnarmed ==
    Beginning(1) =>
        /\ ~driver[1].armed
        /\ \A i \in DOMAIN queue[1] : queue[1][i] = "set"
        /\ Unarmed(tracker[1].events)

\* From then on the last thing the driver said, shown or yet to be applied, is so.
ToldLast ==
    session = 1 =>
        /\ \A i \in DOMAIN queue[1] : queue[1][i] # "disconnect"
        /\ tracker[1].alive /\ driver[1].kind = "simulated" =>
               LastWord(tracker[1].events, Shows, status.armed, driver[1].armed)

StatusSound == started = 1 => BegunUnarmed /\ ToldLast

LEMMA ShownEvents ==
    ASSUME NEW s \in Session, NEW d \in Driver
    PROVE  /\ Event("connected", s, d) \notin DOMAIN Shows
           /\ Event("shot", s, d) \notin DOMAIN Shows
           /\ Event("status", s, d) \in DOMAIN Shows /\ Shows[Event("status", s, d)] = d.armed
           /\ Event("ready", s, d) \in DOMAIN Shows /\ Shows[Event("ready", s, d)] = d.armed
           /\ Event("disconnected", s, d) \in DOMAIN Shows
           /\ Shows[Event("disconnected", s, d)] = FALSE
  <1>1. \A type \in EventType : /\ Event(type, s, d) \in BusEvent
                                /\ Event(type, s, d).type = type
                                /\ Event(type, s, d).armed = d.armed
    BY EventFacts DEF Event
  <1>2. d.armed \in BOOLEAN
    BY DEF Driver
  <1> HIDE DEF Event
  <1>3. QED
    BY <1>1, <1>2 DEF Shows, EventType

LEMMA SaidLast ==
    ASSUME NEW q \in Seq(BusEvent), NEW x \in BusEvent, NEW y \in BusEvent, NEW v, NEW w
    PROVE  /\ x \notin DOMAIN Shows /\ LastWord(q, Shows, v, w) =>
                  LastWord(q \o <<x>>, Shows, v, w)
           /\ x \in DOMAIN Shows => LastWord(q \o <<x>>, Shows, v, Shows[x])
           /\ y \in DOMAIN Shows => LastWord(q \o <<x, y>>, Shows, v, Shows[y])
  <1>1. /\ q \o <<x>> = Append(q, x) /\ Append(q, x) \in Seq(BusEvent)
        /\ q \o <<x, y>> = Append(Append(q, x), y)
    OBVIOUS
  <1>2. /\ x \notin DOMAIN Shows /\ LastWord(q, Shows, v, w) =>
               LastWord(Append(q, x), Shows, v, w)
        /\ x \in DOMAIN Shows => LastWord(Append(q, x), Shows, v, Shows[x])
    BY LastWordAppended
  <1>3. y \in DOMAIN Shows => LastWord(Append(Append(q, x), y), Shows, v, Shows[y])
    BY <1>1, LastWordAppended
  <1>4. QED
    BY <1>1, <1>2, <1>3

LEMMA LastReported ==
    ASSUME Shape, Shape', NEW s \in Session, NEW q \in Seq(BusEvent), NEW v,
           s \notin aborted, queue[s] # <<>> => Head(queue[s]) # "disconnect",
           LastWord(q, Shows, v, driver[s].armed), NEW events, Reports(s, events)
    PROVE  LastWord(q \o events, Shows, v, driver'[s].armed)
  <1> DEFINE d == driver[s]
             e == driver'[s]
  <1>1. d \in Driver /\ e \in Driver
    BY DEF Shape
  <1> HIDE DEF d, e
  <1>2. /\ Event("connected", s, d) \in BusEvent
        /\ Event("status", s, e) \in BusEvent
        /\ Event("ready", s, e) \in BusEvent
        /\ Event("shot", s, e) \in BusEvent
        /\ Event("disconnected", s, e) \in BusEvent
    BY <1>1, EventFacts DEF EventType
  <1>3. LastWord(q, Shows, v, d.armed)
    BY DEF d
  <1>4. CASE events = <<>> /\ e.armed = d.armed
    <2>1. q \o events = q
      BY <1>4
    <2>2. QED
      BY <1>3, <1>4, <2>1 DEF e
  <1>5. CASE events = <<Event("connected", s, d)>> /\ e.armed = d.armed
    <2>1. LastWord(q \o <<Event("connected", s, d)>>, Shows, v, d.armed)
      BY <1>1, <1>2, <1>3, ShownEvents, SaidLast
    <2>2. QED
      BY <1>5, <2>1 DEF e
  <1>6. CASE events = <<Event("status", s, e)>>
    <2>1. LastWord(q \o <<Event("status", s, e)>>, Shows, v, e.armed)
      BY <1>1, <1>2, ShownEvents, SaidLast
    <2>2. QED
      BY <1>6, <2>1 DEF e
  <1>7. CASE events = <<Event("status", s, e), Event("ready", s, e)>>
    <2>1. LastWord(q \o <<Event("status", s, e), Event("ready", s, e)>>, Shows, v, e.armed)
      BY <1>1, <1>2, ShownEvents, SaidLast
    <2>2. QED
      BY <1>7, <2>1 DEF e
  <1>8. CASE events = <<Event("shot", s, e), Event("status", s, e)>>
    <2>1. LastWord(q \o <<Event("shot", s, e), Event("status", s, e)>>, Shows, v, e.armed)
      BY <1>1, <1>2, ShownEvents, SaidLast
    <2>2. QED
      BY <1>8, <2>1 DEF e
  <1>9. CASE events = <<Event("disconnected", s, e)>> /\ ~e.armed
    <2>1. LastWord(q \o <<Event("disconnected", s, e)>>, Shows, v, FALSE)
      BY <1>1, <1>2, ShownEvents, SaidLast
    <2>2. e.armed = FALSE
      BY <1>1, <1>9 DEF Driver
    <2>3. QED
      BY <1>9, <2>1, <2>2 DEF e
  <1>10. QED
    BY <1>4, <1>5, <1>6, <1>7, <1>8, <1>9 DEF Reports, d, e

LEMMA NothingSaid == Unarmed(<<>>)
  BY DEF Unarmed

\* As long as nothing arms the driver it says nothing but that.
LEMMA UnarmedReported ==
    ASSUME Shape, Shape', NEW s \in Session, NEW q \in Seq(BusEvent),
           Unarmed(q), ~driver[s].armed, ~driver'[s].armed,
           NEW events, Reports(s, events)
    PROVE  Unarmed(q \o events)
  <1>1. events \in Seq(BusEvent) /\ \A i \in DOMAIN events : ~events[i].armed
    BY DriverTells DEF Reports, Event
  <1>2. QED
    BY <1>1 DEF Unarmed

\* Nothing in the channel but x, or nothing but other things, once one is taken out.
LEMMA TakenOut ==
    ASSUME NEW q \in Seq(Sent), NEW r, NEW x,
           r \in {q, <<>>} \/ (q # <<>> /\ r = Tail(q))
    PROVE  /\ (\A i \in DOMAIN q : q[i] = x) => \A i \in DOMAIN r : r[i] = x
           /\ (\A i \in DOMAIN q : q[i] # x) => \A i \in DOMAIN r : r[i] # x
           /\ q # <<>> => /\ (\A i \in DOMAIN q : q[i] = x) => Head(q) = x
                          /\ (\A i \in DOMAIN q : q[i] # x) => Head(q) # x
  <1>1. q # <<>> => /\ Head(q) = q[1] /\ 1 \in DOMAIN q
                    /\ \A i \in DOMAIN Tail(q) : i + 1 \in DOMAIN q /\ Tail(q)[i] = q[i + 1]
    BY TailFacts
  <1>2. QED
    BY <1>1

\* While one session was started no other has a driver, or a request that starts it.
LEMMA OnlySession ==
    ASSUME KnownSessions, Staged, Shape, DriversSound, started = 1, 1 \in Session
    PROVE  /\ \A s \in Session \ {1} : ~Task(s) /\ ~Beginning(s) /\ ~Ending(s)
           /\ \A c \in Clients :
                /\ request[c].op \in {"spawned", "storing"} =>
                       StartsIt(request[c], 1) /\ Beginning(1)
                /\ request[c].op = "disconnecting" => request[c].of = 1 /\ Ending(1)
  <1>1. \A s \in Session \ {1} : s > started
    BY DEF Session
  <1>2. \A s \in Session \ {1} : ~Task(s) /\ ~Beginning(s) /\ ~Ending(s)
    BY <1>1, NothingToDo DEF Staged, DriversSound, ToCome
  <1>3. ASSUME NEW c \in Clients, request[c].op \in {"spawned", "storing"}
        PROVE  StartsIt(request[c], 1) /\ Beginning(1)
    <2>1. request[c].of \in Session /\ StartsIt(request[c], request[c].of)
      BY <1>3 DEF KnownSessions, RequestsOK, StartsIt
    <2>2. Beginning(request[c].of)
      BY <2>1 DEF Beginning
    <2>3. QED
      BY <1>2, <2>1, <2>2
  <1>4. ASSUME NEW c \in Clients, request[c].op = "disconnecting"
        PROVE  request[c].of = 1 /\ Ending(1)
    <2>1. request[c].of \in Session /\ Ending(request[c].of)
      BY <1>4 DEF KnownSessions, RequestsOK, Ending
    <2>2. QED
      BY <1>2, <2>1
  <1>5. QED
    BY <1>2, <1>3, <1>4

LEMMA FirstSession ==
    ASSUME Staged, Shape, ChannelsOK, NEW c \in Clients, SpawnDriver(c), started' = 1,
           1 \in Session
    PROVE  BegunUnarmed' /\ ToldLast'
  <1>1. 1 > started /\ started \in Nat
    BY DEF SpawnDriver, Shape
  <1>2. session # 1 /\ queue[1] = <<>> /\ tracker[1] = NoTracker
    BY <1>1 DEF Staged, ToCome
  <1>3. UNCHANGED <<session, queue, tracker>>
    BY DEF SpawnDriver, shown
  <1>4. ~driver'[1].armed
    BY DEF SpawnDriver, Shape, NoDriver
  <1>5. QED
    BY <1>2, <1>3, <1>4 DEF BegunUnarmed, ToldLast, NoTracker, Unarmed

LEMMA ClientSaysNothing ==
    ASSUME KnownSessions, KnownSessions', Staged, CommandsStayCurrent, Shape, ChannelsOK,
           DriversSound, StatusSound, started = 1, 1 \in Session,
           NEW c \in Clients, NewRequest(c) \/ Handler(c) \/ GiveUp(c), ~SpawnDriver(c)
    PROVE  BegunUnarmed' /\ ToldLast'
  <1>1. /\ BegunUnarmed /\ ToldLast
        /\ Begins(1) /\ Serves(1)
        /\ queue[1] \in Seq(Sent) /\ queue \in [Session -> Seq(Sent)]
        /\ tracker \in [Session -> Tracker]
        /\ request[c].of \in Session \cup {None}
    BY DEF StatusSound, Staged, ChannelsOK, QueuesOK, TrackersOK, Sent, KnownSessions, RequestsOK
  <1>2. UNCHANGED driver
    BY DEF NewRequest, Handler, ConnectCheck, DisconnectTakes, FireShotCheck, CommandTaken,
        SpawnConsumers, Store, DisconnectEnds, FireShotTaken, SendEnds, GiveUp, tasks
  <1>3. /\ request[c].op \in {"spawned", "storing"} => StartsIt(request[c], 1) /\ Beginning(1)
        /\ request[c].op = "disconnecting" => request[c].of = 1 /\ Ending(1)
    BY OnlySession
  <1>4. BegunUnarmed'
    <2> SUFFICES ASSUME Beginning(1)'
                 PROVE  /\ ~driver'[1].armed
                        /\ \A i \in DOMAIN queue'[1] : queue'[1][i] = "set"
                        /\ Unarmed(tracker'[1].events)
      BY DEF BegunUnarmed
    <2>1. Beginning(1)
      BY ClientMoves
    <2>2. session # 1 /\ ~Ending(1)
      BY <1>1, <2>1 DEF Begins
    <2>3. queue'[1] = queue[1]
      <3>1. request[c].op \in Command => request[c].of # 1
        BY <2>2 DEF CommandsStayCurrent
      <3>2. request[c].op # "disconnecting"
        BY <1>3, <2>2
      <3>3. QED
        BY <1>1, <3>1, <3>2
          DEF NewRequest, Handler, ConnectCheck, DisconnectTakes, FireShotCheck, CommandTaken,
              SpawnConsumers, Store, DisconnectEnds, FireShotTaken, SendEnds, GiveUp, tasks
    <2>4. tracker'[1].events \in {tracker[1].events, <<>>}
      <3>1. CASE SpawnConsumers(c)
        <4>1. PICK s : tracker' = [tracker EXCEPT ![s] = [alive |-> TRUE, events |-> <<>>]]
          BY <3>1 DEF SpawnConsumers
        <4>2. QED
          BY <1>1, <4>1
      <3>2. CASE ~SpawnConsumers(c)
        BY <3>2
          DEF NewRequest, Handler, ConnectCheck, DisconnectTakes, FireShotCheck, CommandTaken,
              Store, DisconnectEnds, FireShotTaken, SendEnds, GiveUp, tasks
      <3>3. QED
        BY <3>1, <3>2
    <2>5. QED
      BY <1>1, <1>2, <2>1, <2>3, <2>4 DEF BegunUnarmed, Unarmed
  <1>5. CASE Store(c) /\ session' = 1
    <2>1. Beginning(1) /\ UNCHANGED <<queue, tracker, driver>> /\ status' = NothingShown
      BY <1>3, <1>5 DEF Store
    <2>2. /\ ~driver[1].armed
          /\ \A i \in DOMAIN queue[1] : queue[1][i] # "disconnect"
          /\ Unarmed(tracker[1].events)
      BY <1>1, <2>1 DEF BegunUnarmed
    <2>3. driver[1].armed = FALSE /\ status'.armed = FALSE
      BY <2>1, <2>2 DEF Shape, Driver, NothingShown
    <2>4. LastWord(tracker[1].events, Shows, FALSE, FALSE)
      <3>1. \A e \in DOMAIN Shows : ~e.armed => Shows[e] = FALSE
        BY DEF Shows
      <3>2. QED
        BY <2>2, <3>1 DEF LastWord, Unarmed
    <2>5. QED
      BY <1>4, <2>1, <2>2, <2>3, <2>4 DEF ToldLast
  <1>6. CASE session = 1 /\ session' = 1 /\ ~Store(c)
    <2>1. ~Beginning(1) /\ ~Ending(1)
      BY <1>1, <1>6 DEF Begins, Serves
    <2>2. ~SpawnConsumers(c) /\ ~DisconnectEnds(c) /\ ~DisconnectTakes(c)
      BY <1>3, <1>6, <2>1 DEF SpawnConsumers, DisconnectEnds, DisconnectTakes, None
    <2>3. UNCHANGED <<tracker, status>>
      BY <1>6, <2>2
        DEF NewRequest, Handler, ConnectCheck, FireShotCheck, CommandTaken, FireShotTaken,
            SendEnds, GiveUp, tasks, shown
    <2>4. queue'[1] = queue[1] \/ \E x \in Command : queue'[1] = Append(queue[1], x)
      BY <1>1, <1>6, <2>2
        DEF NewRequest, Handler, ConnectCheck, FireShotCheck, CommandTaken, FireShotTaken,
            SendEnds, GiveUp, tasks
    <2>5. \A i \in DOMAIN queue'[1] : queue'[1][i] # "disconnect"
      <3>1. \A i \in DOMAIN queue[1] : queue[1][i] # "disconnect"
        BY <1>1, <1>6 DEF ToldLast
      <3>2. ASSUME NEW x \in Command, queue'[1] = Append(queue[1], x)
            PROVE  \A i \in DOMAIN queue'[1] : queue'[1][i] # "disconnect"
        BY <1>1, <3>1, <3>2, AppendFacts DEF Sent, Command
      <3>3. QED
        BY <2>4, <3>1, <3>2
    <2>6. QED
      BY <1>1, <1>2, <1>4, <1>6, <2>3, <2>5 DEF ToldLast
  <1>7. CASE session' # 1
    BY <1>4, <1>7 DEF ToldLast
  <1>8. session' = 1 => session = 1 \/ Store(c)
    BY ClientMoves
  <1>9. ~(session = 1 /\ Store(c))
    BY <1>1, <1>3 DEF Store, Begins
  <1>10. QED
    BY <1>5, <1>6, <1>7, <1>8, <1>9

LEMMA TaskSaysSo ==
    ASSUME KnownSessions, Staged, Shape, Shape', ChannelsOK, DriversSound, StatusSound,
           started = 1, 1 \in Session, NEW t \in Session, Task(t)
    PROVE  BegunUnarmed' /\ ToldLast'
  <1>1. t = 1
    BY OnlySession
  <1>2. /\ BegunUnarmed /\ ToldLast
        /\ Begins(1) /\ Serves(1)
        /\ queue[1] \in Seq(Sent) /\ queue \in [Session -> Seq(Sent)]
        /\ tracker \in [Session -> Tracker] /\ tracker[1].events \in Seq(BusEvent)
        /\ TrackersOK /\ QueuesOK
    BY DEF StatusSound, Staged, ChannelsOK, QueuesOK, TrackersOK, Sent, Tracker
  <1>3. UNCHANGED <<request, session, aborted>> /\ (Beginning(1)' <=> Beginning(1))
    BY TaskKeeps DEF Beginning
  <1>4. /\ Beginning(1) => 1 \notin aborted
        /\ session = 1 => 1 \notin aborted
    BY <1>2 DEF Begins, Serves
  <1>5. driver'[1].kind = driver[1].kind
    BY <1>1, TaskMoves DEF DriversSound
  <1>6. CASE DriverTask(1) \/ HardwareLosesLink(1)
    <2> DEFINE q == tracker[1].events
    <2>1. /\ ArmedByCommand(1)
          /\ \/ UNCHANGED tracker /\ driver'[1].armed = driver[1].armed
             \/ \E events : Emit(events) /\ Reports(1, events)
      BY <1>6, DriverReports
    <2>2. queue'[1] \in {queue[1], <<>>} \/ (queue[1] # <<>> /\ queue'[1] = Tail(queue[1]))
      BY <1>2, <1>6, DriverQueue
    <2>3. \A x : /\ (\A i \in DOMAIN queue[1] : queue[1][i] = x) =>
                       /\ \A i \in DOMAIN queue'[1] : queue'[1][i] = x
                       /\ queue[1] # <<>> => Head(queue[1]) = x
                 /\ (\A i \in DOMAIN queue[1] : queue[1][i] # x) =>
                       /\ \A i \in DOMAIN queue'[1] : queue'[1][i] # x
                       /\ queue[1] # <<>> => Head(queue[1]) # x
      <3> DEFINE a == queue[1]
                 b == queue'[1]
      <3>1. a \in Seq(Sent) /\ (b \in {a, <<>>} \/ (a # <<>> /\ b = Tail(a)))
        BY <1>2, <2>2
      <3> HIDE DEF a, b
      <3>2. \A x : /\ (\A i \in DOMAIN a : a[i] = x) =>
                         /\ \A i \in DOMAIN b : b[i] = x
                         /\ a # <<>> => Head(a) = x
                   /\ (\A i \in DOMAIN a : a[i] # x) =>
                         /\ \A i \in DOMAIN b : b[i] # x
                         /\ a # <<>> => Head(a) # x
        BY <3>1, TakenOut
      <3>3. QED
        BY <3>2 DEF a, b
    <2>4. UNCHANGED status
      BY <1>6 DEF DriverTask, DriverStarts, SimulatedHandles, SimulatedShoots, HardwareHandles,
            HardwareConnects, ChannelCloses, HardwareLosesLink, shown
    <2>5. ASSUME NEW events, Emit(events), Reports(1, events)
          PROVE  /\ tracker'[1].alive => tracker[1].alive /\ tracker'[1].events = q \o events
                 /\ tracker'[1].events \in {q, q \o events, <<>>}
      BY <1>2, <2>5, DriverTells, EmitFacts
    <2>6. BegunUnarmed'
      <3> SUFFICES ASSUME Beginning(1)
                   PROVE  /\ ~driver'[1].armed
                          /\ \A i \in DOMAIN queue'[1] : queue'[1][i] = "set"
                          /\ Unarmed(tracker'[1].events)
        BY <1>3 DEF BegunUnarmed
      <3>1. /\ ~driver[1].armed
            /\ \A i \in DOMAIN queue[1] : queue[1][i] = "set"
            /\ Unarmed(q)
        BY <1>2 DEF BegunUnarmed
      <3>2. /\ \A i \in DOMAIN queue'[1] : queue'[1][i] = "set"
            /\ queue[1] # <<>> => Head(queue[1]) = "set"
        BY <2>3, <3>1
      <3>3. ~driver'[1].armed
        BY <2>1, <3>1, <3>2 DEF ArmedByCommand
      <3>4. ASSUME NEW events, Emit(events), Reports(1, events)
            PROVE  Unarmed(tracker'[1].events)
        <4>1. Unarmed(q \o events)
          BY <1>2, <3>1, <3>3, <3>4, UnarmedReported
        <4>2. QED
          BY <2>5, <3>1, <3>4, <4>1, NothingSaid
      <3>5. QED
        BY <2>1, <3>1, <3>2, <3>3, <3>4
    <2>7. ToldLast'
      <3> SUFFICES ASSUME session = 1
                   PROVE  /\ \A i \in DOMAIN queue'[1] : queue'[1][i] # "disconnect"
                          /\ tracker'[1].alive /\ driver'[1].kind = "simulated" =>
                                 LastWord(tracker'[1].events, Shows, status'.armed,
                                          driver'[1].armed)
        BY <1>3 DEF ToldLast
      <3>1. \A i \in DOMAIN queue[1] : queue[1][i] # "disconnect"
        BY <1>2 DEF ToldLast
      <3>2. /\ \A i \in DOMAIN queue'[1] : queue'[1][i] # "disconnect"
            /\ queue[1] # <<>> => Head(queue[1]) # "disconnect"
        BY <2>3, <3>1
      <3>3. ASSUME tracker'[1].alive, driver'[1].kind = "simulated"
            PROVE  LastWord(tracker'[1].events, Shows, status'.armed, driver'[1].armed)
        <4>1. tracker[1].alive => LastWord(q, Shows, status.armed, driver[1].armed)
          BY <1>2, <1>5, <3>3 DEF ToldLast
        <4>2. CASE UNCHANGED tracker /\ driver'[1].armed = driver[1].armed
          BY <2>4, <3>3, <4>1, <4>2
        <4>3. ASSUME NEW events, Emit(events), Reports(1, events)
              PROVE  LastWord(tracker'[1].events, Shows, status'.armed, driver'[1].armed)
          <5>1. tracker[1].alive /\ tracker'[1].events = q \o events
            BY <2>5, <3>3, <4>3
          <5>2. LastWord(q \o events, Shows, status.armed, driver'[1].armed)
            BY <1>2, <1>4, <3>2, <4>1, <4>3, <5>1, LastReported
          <5>3. QED
            BY <2>4, <5>1, <5>2
        <4>4. QED
          BY <2>1, <4>2, <4>3
      <3>4. QED
        BY <3>2, <3>3
    <2>8. QED
      BY <2>6, <2>7
  <1>7. CASE SimSends(1)
    <2>1. UNCHANGED <<driver, tracker, status>> /\ queue'[1] = Append(queue[1], "set")
      BY <1>2, <1>7 DEF SimSends, shown
    <2>2. "set" \in Sent
      BY DEF Sent, Command
    <2>3. /\ (\A i \in DOMAIN queue[1] : queue[1][i] = "set") =>
                 \A i \in DOMAIN queue'[1] : queue'[1][i] = "set"
          /\ (\A i \in DOMAIN queue[1] : queue[1][i] # "disconnect") =>
                 \A i \in DOMAIN queue'[1] : queue'[1][i] # "disconnect"
      BY <1>2, <2>1, <2>2, AppendFacts
    <2>4. QED
      BY <1>2, <1>3, <2>1, <2>3 DEF BegunUnarmed, ToldLast
  <1>8. CASE TrackerApplies(1)
    <2> DEFINE q == tracker[1].events
               h == Head(q)
    <2>1. q # <<>> /\ Apply(h) /\ UNCHANGED <<driver, queue>>
          /\ tracker' = [tracker EXCEPT ![1].events = Tail(q)]
      BY <1>2, <1>8 DEF TrackerApplies
    <2>2. tracker'[1].events = Tail(q) /\ tracker'[1].alive = tracker[1].alive
      BY <1>2, <2>1 DEF Tracker
    <2>3. BegunUnarmed'
      <3>1. Unarmed(q) => Unarmed(Tail(q))
        BY <1>2, <2>1, TailFacts DEF Unarmed
      <3>2. QED
        BY <1>2, <1>3, <2>1, <2>2, <3>1 DEF BegunUnarmed
    <2>4. ToldLast'
      <3> SUFFICES ASSUME session = 1
                   PROVE  /\ \A i \in DOMAIN queue'[1] : queue'[1][i] # "disconnect"
                          /\ tracker'[1].alive /\ driver'[1].kind = "simulated" =>
                                 LastWord(tracker'[1].events, Shows, status'.armed,
                                          driver'[1].armed)
        BY <1>3 DEF ToldLast
      <3>1. h \in BusEvent
        BY <1>2, <2>1, TailFacts
      <3>2. /\ h \in DOMAIN Shows => status'.armed = Shows[h]
            /\ h \notin DOMAIN Shows => status' = status
        <4>1. status' = CASE h.type \in {"status", "ready"} -> [armed |-> h.armed, from |-> h.from]
                          [] h.type = "disconnected" -> [armed |-> FALSE, from |-> h.from]
                          [] OTHER -> status
          BY <2>1 DEF Apply, None
        <4>2. h.armed \in BOOLEAN
          BY <3>1 DEF BusEvent
        <4> HIDE DEF h
        <4>3. CASE h.type \in {"status", "ready"}
          BY <3>1, <4>1, <4>2, <4>3 DEF Shows
        <4>4. CASE h.type = "disconnected"
          BY <3>1, <4>1, <4>2, <4>4 DEF Shows
        <4>5. CASE h.type \notin {"status", "ready", "disconnected"}
          BY <3>1, <4>1, <4>5 DEF Shows
        <4>6. QED
          BY <4>3, <4>4, <4>5
      <3>3. ASSUME LastWord(q, Shows, status.armed, driver[1].armed)
            PROVE  LastWord(Tail(q), Shows, status'.armed, driver[1].armed)
        BY <1>2, <2>1, <3>2, <3>3, LastWordTaken
      <3>4. QED
        BY <1>2, <2>1, <2>2, <3>3 DEF ToldLast
    <2>5. QED
      BY <2>3, <2>4
  <1>9. CASE AbortTakesEffect(1)
    BY <1>2, <1>3, <1>4, <1>9 DEF AbortTakesEffect, BegunUnarmed, ToldLast
  <1>10. QED
    BY <1>1, <1>6, <1>7, <1>8, <1>9 DEF Task

LEMMA StatusStaysSound == Spec => []StatusSound
  <1>1. Init => StatusSound
    BY DEF Init, StatusSound
  <1>2. ASSUME KnownSessions, KnownSessions', Staged, CommandsStayCurrent, Shape, Shape',
               ChannelsOK, DriversSound, StatusSound, ManagerTypeOK', [Next]_managerVars
        PROVE  StatusSound'
    <2> USE <1>2
    <2> SUFFICES ASSUME started' = 1 PROVE BegunUnarmed' /\ ToldLast'
      BY DEF StatusSound
    <2>1. 1 \in Session
      BY ManagerAssumption DEF ManagerTypeOK, Session
    <2>2. CASE UNCHANGED managerVars
      BY <2>2 DEF managerVars, shown, tasks, bounds, StatusSound, BegunUnarmed, ToldLast, Beginning
    <2>3. ASSUME NEW c \in Clients, NewRequest(c) \/ Handler(c) \/ GiveUp(c)
          PROVE  BegunUnarmed' /\ ToldLast'
      <3>1. CASE SpawnDriver(c)
        BY <2>1, <3>1, FirstSession
      <3>2. CASE ~SpawnDriver(c)
        <4>1. started = 1
          BY <2>1, <2>3, <3>2, ClientMoves
        <4>2. QED
          BY <2>1, <2>3, <3>2, <4>1, ClientSaysNothing
      <3>3. QED
        BY <3>1, <3>2
    <2>4. ASSUME NEW t \in Session, Task(t) PROVE BegunUnarmed' /\ ToldLast'
      <3>1. started = 1
        BY <2>4 DEF Task, DriverTask, DriverStarts, SimulatedHandles, SimulatedShoots,
              HardwareHandles, HardwareConnects, ChannelCloses, HardwareLosesLink, SimSends,
              TrackerApplies, AbortTakesEffect, bounds
      <3>2. QED
        BY <2>1, <2>4, <3>1, TaskSaysSo
    <2>5. QED
      BY <2>2, <2>3, <2>4 DEF Next, Quiet
  <1>3. QED
    BY <1>1, <1>2, ShapeKept, SessionsAreKnown, StagesHold, CommandsGoToTheirSession,
       ChannelsTyped, DriversStaySound, ManagerTypeCorrect, PTL DEF Spec

\* The armed flag GET /v1/session shows of a simulated device is the device's own once its
\* events are applied (state.rs:354-368), whatever commands, settings of the sim and
\* clients that hang up come between.
THEOREM StatusIsCurrent == Spec => []StatusFollowsDevice
  <1>1. ASSUME StatusSound, ManagerTypeOK, Staged PROVE StatusFollowsDevice
    <2> USE <1>1
    <2> SUFFICES ASSUME session # None, started = 1, tracker[session].alive,
                        driver[session].kind = "simulated", tracker[session].events = <<>>
                 PROVE  status.armed = driver[session].armed
      BY DEF StatusFollowsDevice
    <2>1. session = 1
      <3>1. session \in Session /\ 1 \in Session
        BY ManagerAssumption DEF ManagerTypeOK, Session
      <3>2. ~(session > started)
        BY <3>1 DEF Staged, ToCome
      <3>3. QED
        BY <3>1, <3>2 DEF Session
    <2>2. LastWord(<<>>, Shows, status.armed, driver[1].armed)
      BY <2>1 DEF StatusSound, ToldLast
    <2>3. QED
      BY <2>1, <2>2 DEF LastWord
  <1>2. QED
    BY <1>1, StatusStaysSound, ManagerTypeCorrect, StagesHold, PTL
=============================================================================
