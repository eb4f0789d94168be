---------------------------- MODULE Persistence ----------------------------
(***************************************************************************)
(* What the daemon keeps on disk: the chip settings (update_chip_settings  *)
(* in crates/trakr-daemon/src/state.rs, settings.rs) and the player roster *)
(* (create_player ... remove_club, player_store.rs).  Both change a value  *)
(* in memory and save all of it through one temporary file and a rename;   *)
(* a failed save is logged and forgotten.  The roster is changed and saved *)
(* under a lock (Locked), the settings are not: the runtime has several    *)
(* threads, so that two requests can be anywhere in the code at once.      *)
(*                                                                         *)
(* A value is the set of the changes made to it, for each request changes  *)
(* a part of its own.  Requests that are refused change nothing.           *)
(***************************************************************************)
EXTENDS Naturals

CONSTANTS
    Clients,        \* requests in progress at once
    Changes,        \* the changes asked for, each by one request
    Files,          \* bound: files on disk or still open
    Locked,         \* TRUE for the roster, FALSE for the settings
    MaxFaults,      \* bound: crashes and failed saves
    NoFile, NoOne, NoChange

ASSUME PersistenceAssumption ==
    /\ Locked \in BOOLEAN
    /\ MaxFaults \in Nat
    /\ NoFile \notin Files /\ NoOne \notin Clients /\ NoChange \notin Changes

VARIABLES
    memory,     \* the value every request reads
    holder,     \* who holds the write lock
    step,       \* where each request is
    change,     \* the change it makes
    updated,    \* its copy of the value, the change included
    (* the file system *)
    content,    \* what each file holds
    tmp, path,  \* the file at *.json.tmp, and at *.json
    fd,         \* the file a request has open
    (* what has been promised *)
    answered,   \* changes answered since the last start
    saved,      \* changes in a save that succeeded
    asked,      \* changes ever asked for
    faults

disk == <<content, tmp, path, fd>>
requests == <<step, change, updated>>
promised == <<answered, saved, asked>>
vars == <<memory, holder, requests, disk, promised, faults>>

\* Just truncated, and written over by two requests: neither can be parsed.
Empty == [text |-> "empty", value |-> {}]
Mixed == [text |-> "mixed", value |-> {}]
Whole(v) == [text |-> "whole", value |-> v]
Readable(f) == content[f].text = "whole"

Nothing == {}

Init ==
    /\ memory = Nothing /\ holder = NoOne
    /\ step = [c \in Clients |-> "idle"]
    /\ change = [c \in Clients |-> NoChange]
    /\ updated = [c \in Clients |-> Nothing]
    /\ content = [f \in Files |-> Empty]
    /\ tmp = NoFile /\ path = NoFile
    /\ fd = [c \in Clients |-> NoFile]
    /\ answered = {} /\ saved = {} /\ asked = {}
    /\ faults = 0

-----------------------------------------------------------------------------
\* Mutant: the lock is not waited for.
ChangeUnlocked(c, r) ==
    /\ step[c] = "idle" /\ r \notin asked
    /\ holder' = IF Locked THEN c ELSE NoOne
    /\ step' = [step EXCEPT ![c] = "changed"]
    /\ change' = [change EXCEPT ![c] = r]
    /\ updated' = [updated EXCEPT ![c] = memory \cup {r}]
    /\ asked' = asked \cup {r}
    /\ UNCHANGED <<memory, disk, answered, saved, faults>>

\* The request reads the value and changes its copy. The roster is locked from here
\* on, until the request returns.
Change(c, r) ==
    /\ step[c] = "idle" /\ r \notin asked
    /\ holder = NoOne
    /\ holder' = IF Locked THEN c ELSE NoOne
    /\ step' = [step EXCEPT ![c] = "changed"]
    /\ change' = [change EXCEPT ![c] = r]
    /\ updated' = [updated EXCEPT ![c] = memory \cup {r}]
    /\ asked' = asked \cup {r}
    /\ UNCHANGED <<memory, disk, answered, saved, faults>>

\* Mutant: only the change is published.
PublishChangeOnly(c) ==
    /\ step[c] = "changed"
    /\ step' = [step EXCEPT ![c] = "published"]
    /\ memory' = {change[c]}
    /\ UNCHANGED <<holder, change, updated, disk, promised, faults>>

\* Mutant: the change is moved out of the request, which then answers with nothing.
PublishTakes(c) ==
    /\ step[c] = "changed"
    /\ step' = [step EXCEPT ![c] = "published"]
    /\ change' = [change EXCEPT ![c] = NoChange]
    /\ memory' = updated[c]
    /\ UNCHANGED <<holder, updated, disk, promised, faults>>

\* send_replace: whole, whatever the value has become.
Publish(c) ==
    /\ step[c] = "changed"
    /\ step' = [step EXCEPT ![c] = "published"]
    /\ memory' = updated[c]
    /\ UNCHANGED <<holder, change, updated, disk, promised, faults>>

Unused(f) == f \notin {tmp, path} /\ \A c \in Clients : fd[c] # f

\* Mutant: the file itself is written to, without a temporary one.
OpenInPlace(c) ==
    /\ step[c] = "published"
    /\ \E f \in Files :
        /\ IF path = NoFile THEN Unused(f) ELSE f = path
        /\ content' = [content EXCEPT ![f] = Empty]
        /\ path' = f /\ tmp' = f
        /\ fd' = [fd EXCEPT ![c] = f]
    /\ step' = [step EXCEPT ![c] = "opened"]
    /\ UNCHANGED <<memory, holder, change, updated, promised, faults>>

\* fs::write opens *.json.tmp and truncates it, whoever is writing to it...
Open(c) ==
    /\ step[c] = "published"
    /\ \E f \in Files :
        /\ IF tmp = NoFile THEN Unused(f) ELSE f = tmp
        /\ content' = [content EXCEPT ![f] = Empty]
        /\ tmp' = f
        /\ fd' = [fd EXCEPT ![c] = f]
    /\ step' = [step EXCEPT ![c] = "opened"]
    /\ UNCHANGED <<memory, holder, change, updated, path, promised, faults>>

\* ... and writes at its start. What another request has written since stays behind
\* a shorter text.
Write(c) ==
    /\ step[c] = "opened"
    /\ content' \in {[content EXCEPT ![fd[c]] = v] :
                        v \in {Whole(updated[c])}
                              \cup (IF content[fd[c]] = Empty THEN {} ELSE {Mixed})}
    /\ fd' = [fd EXCEPT ![c] = NoFile]
    /\ step' = [step EXCEPT ![c] = "written"]
    /\ UNCHANGED <<memory, holder, change, updated, tmp, path, promised, faults>>

\* The request is answered, whether it was saved or not; the lock is let go.
Return(c) ==
    /\ step' = [step EXCEPT ![c] = "idle"]
    /\ holder' = IF Locked THEN NoOne ELSE holder
    /\ answered' = answered \cup {change[c]}
    /\ change' = [change EXCEPT ![c] = NoChange]
    /\ updated' = [updated EXCEPT ![c] = Nothing]
    /\ UNCHANGED <<memory, asked>>

\* Mutant: the save is taken for done before the rename.
RenameForgotten(c) ==
    /\ step[c] = "written"
    /\ Return(c)
    /\ saved' = saved \cup updated[c]
    /\ UNCHANGED <<disk, faults>>

\* rename fails if another request has renamed the file already.
Rename(c) ==
    /\ step[c] = "written"
    /\ Return(c)
    /\ IF tmp = NoFile THEN UNCHANGED <<path, tmp, saved>>
       ELSE path' = tmp /\ tmp' = NoFile /\ saved' = saved \cup updated[c]
    /\ UNCHANGED <<content, fd, faults>>

\* Any step of save fails, on a full disk say; a write may have been begun.
SaveFails(c) ==
    /\ step[c] \in {"published", "opened", "written"}
    /\ faults < MaxFaults
    /\ faults' = faults + 1
    /\ Return(c)
    /\ IF step[c] = "opened"
       THEN content' \in {content, [content EXCEPT ![fd[c]] = Mixed]}
       ELSE UNCHANGED content
    /\ fd' = [fd EXCEPT ![c] = NoFile]
    /\ UNCHANGED <<tmp, path, saved>>

\* load: no file, or one that cannot be parsed, counts as none.
OnDisk == IF path # NoFile /\ Readable(path) THEN content[path].value ELSE Nothing

\* The daemon has died and starts with v.
StartsWith(v) ==
    /\ faults < MaxFaults
    /\ faults' = faults + 1
    /\ memory' = v
    /\ holder' = NoOne
    /\ step' = [c \in Clients |-> "idle"]
    /\ change' = [c \in Clients |-> NoChange]
    /\ updated' = [c \in Clients |-> Nothing]
    /\ fd' = [c \in Clients |-> NoFile]
    /\ answered' = {}
    /\ UNCHANGED <<content, tmp, path, saved, asked>>

\* Mutant: a start that finds no file takes what a save has left in the temporary one.
CrashRecovers ==
    StartsWith(IF path = NoFile /\ tmp # NoFile THEN content[tmp].value ELSE OnDisk)

\* The daemon dies, and the next one loads what it finds.
Crash == StartsWith(OnDisk)

Request(c) ==
    \/ \E r \in Changes : Change(c, r)
    \/ Publish(c) \/ Open(c) \/ Write(c) \/ Rename(c) \/ SaveFails(c)

\* Every change has been asked for and answered.
Done ==
    /\ asked = Changes /\ \A c \in Clients : step[c] = "idle"
    /\ UNCHANGED vars

Next == (\E c \in Clients : Request(c)) \/ Crash \/ Done

Spec == Init /\ [][Next]_vars

-----------------------------------------------------------------------------
Value == SUBSET Changes
FileOrNone == Files \cup {NoFile}

\* Types; a request under way has its change.
PersistenceTypeOK ==
    /\ memory \in Value
    /\ holder \in Clients \cup {NoOne}
    /\ step \in [Clients -> {"idle", "changed", "published", "opened", "written"}]
    /\ change \in [Clients -> Changes \cup {NoChange}]
    /\ \A c \in Clients : step[c] # "idle" => change[c] \in Changes
    /\ updated \in [Clients -> Value]
    /\ content \in [Files -> [text : {"empty", "mixed", "whole"}, value : Value]]
    /\ tmp \in FileOrNone /\ path \in FileOrNone
    /\ fd \in [Clients -> FileOrNone]
    /\ answered \in Value /\ saved \in Value /\ asked \in Value
    /\ faults \in Nat

\* Whenever the daemon dies it finds a file it can read at the next start: the file
\* at the path is never one that is still being written (settings.rs:47-62,
\* player_store.rs:37-52).  A file it could not read would be taken for none, and
\* overwritten by the next change (player_store.rs:16-31).
FileReadable == path # NoFile => Readable(path)

\* No change is undone by another: what has been answered is in effect until the
\* daemon stops ("Any parameter left `None` is unchanged", state.rs:101).
ChangesKept == answered \subseteq memory

\* A change that has been saved survives later changes, failed saves and restarts
\* ("survives a daemon/app restart", settings.rs:2-3).
SavedSurvives ==
    saved # {} => path # NoFile /\ Readable(path) /\ saved \subseteq content[path].value

Store == INSTANCE DurableStore WITH value <- memory, durable <- OnDisk

\* Whatever requests meet, saves fail and crashes come: to its clients the roster is one
\* value that changes one request at a time and is saved as a whole, and a restart goes
\* back to the last save and no further (state.rs:269-353, player_store.rs:16-53).
RosterIsStore == Store!Spec

\* Strengthens the three to an inductive invariant: the lock is held by the one
\* request under way, whose copy is the value, and the temporary file is its own.
Exclusive ==
    /\ \A c \in Clients :
        /\ step[c] # "idle" => holder = c /\ change[c] \in updated[c]
        /\ step[c] # "idle" => answered \cup saved \subseteq updated[c]
        /\ step[c] \notin {"idle", "changed"} => memory = updated[c]
        /\ step[c] = "opened" => fd[c] = tmp /\ tmp # NoFile /\ content[tmp] = Empty
        /\ step[c] = "written" => tmp # NoFile /\ content[tmp] = Whole(updated[c])
        /\ step[c] # "opened" => fd[c] = NoFile
    /\ tmp # NoFile => tmp # path
    /\ saved \subseteq memory
=============================================================================
