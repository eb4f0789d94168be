--------------------------- MODULE LaunchMonitor ---------------------------
(***************************************************************************)
(* What the rest of trakr may assume of a launch monitor driver, read off  *)
(* the Event stream alone (crates/trakr-core/src/lib.rs): a driver is      *)
(* offline until it says Connected, speaks of arming and of strikes only   *)
(* while it is online, answers a strike at most once, numbers the shots of *)
(* one connection 1, 2, 3, ..., and is silent once its run() has returned. *)
(* Every driver is expected to implement this specification.               *)
(***************************************************************************)
EXTENDS Naturals

VARIABLES
    online,     \* "down", "up", or "over" once run() has returned
    strike,     \* a ShotStarted still waits for its Shot or Misread
    armed,      \* the driver takes the device to be waiting for a ball
    sequence,   \* Shot::sequence of the last shot of this connection
    tally       \* how many of each strike event the driver has sent

lmVars == <<online, strike, armed, sequence, tally>>

TallyType == [started : Nat, shots : Nat, misreads : Nat]
NoEvents == [started |-> 0, shots |-> 0, misreads |-> 0]

Init ==
    /\ online = "down"
    /\ strike = FALSE
    /\ armed = FALSE
    /\ sequence = 0
    /\ tally = NoEvents

\* Event::Connected, the first of a connection.
Connect ==
    /\ online = "down"
    /\ online' = "up"
    /\ UNCHANGED <<strike, armed, sequence, tally>>

\* Event::Status or Event::Ready with a new armed flag.
SetArmed ==
    /\ online = "up"
    /\ armed' \in BOOLEAN
    /\ UNCHANGED <<online, strike, sequence, tally>>

\* Event::ShotStarted: the driver follows the new strike, or gives it up at once.
Strike ==
    /\ online = "up"
    /\ strike' \in BOOLEAN
    /\ tally' = [tally EXCEPT !.started = @ + 1]
    /\ UNCHANGED <<online, armed, sequence>>

\* The outcome of the strike the driver followed disarms it.
Resolve ==
    /\ online = "up"
    /\ strike
    /\ strike' = FALSE
    /\ armed' = FALSE
    /\ UNCHANGED online

Measure ==
    /\ Resolve
    /\ sequence' = sequence + 1
    /\ tally' = [tally EXCEPT !.shots = @ + 1]

Misread ==
    /\ Resolve
    /\ tally' = [tally EXCEPT !.misreads = @ + 1]
    /\ UNCHANGED sequence

\* Event::Disconnected (the driver will try again), or the end of run(). What
\* belonged to the connection is forgotten, a followed strike included.
Leave ==
    /\ online # "over"
    /\ online' \in {"down", "over"}
    /\ strike' = FALSE
    /\ armed' = FALSE
    /\ sequence' = 0
    /\ UNCHANGED tally

Next == Connect \/ SetArmed \/ Strike \/ Measure \/ Misread \/ Leave

Spec == Init /\ [][Next]_lmVars

-----------------------------------------------------------------------------
LmTypeOK ==
    /\ online \in {"down", "up", "over"}
    /\ strike \in BOOLEAN
    /\ armed \in BOOLEAN
    /\ sequence \in Nat
    /\ tally \in TallyType

\* Every Shot and every Misread answers a ShotStarted of its own: a consumer
\* that counts strikes never counts one twice.
OutcomesHaveStrikes ==
    tally.shots + tally.misreads + (IF strike THEN 1 ELSE 0) <= tally.started
=============================================================================
