---------------------------- MODULE DurableStore ----------------------------
(***************************************************************************)
(* What the player roster promises its clients (crates/trakr-daemon/src:   *)
(* state.rs, player_store.rs): one value, changed by one request after the *)
(* other, each change on top of all before it; saved whole or not at all;  *)
(* and after a restart what was saved last.  A save can fail, so that it   *)
(* may come later than the change, or never.                               *)
(***************************************************************************)
CONSTANT Changes    \* what requests ask for

VARIABLES
    value,          \* what requests see: the changes made to it
    durable         \* what a restart would find

storeVars == <<value, durable>>

Init == value = {} /\ durable = {}

Apply(r) == value' = value \cup {r} /\ UNCHANGED durable

Save == durable' = value /\ UNCHANGED value

Restart == value' = durable /\ UNCHANGED durable

Next == (\E r \in Changes : Apply(r)) \/ Save \/ Restart

Spec == Init /\ [][Next]_storeVars
=============================================================================
