------------------------- MODULE Persistence_proofs -------------------------
(* Proofs about Persistence, for every value of its constants; those on the *)
(* roster assume Locked.                                                    *)
EXTENDS Persistence, TLAPS

\* Types: every value is a set of changes, every file is one of Files.
THEOREM PersistenceTypeCorrect == Spec => []PersistenceTypeOK
  <1>1. Init => PersistenceTypeOK
    BY DEF Init, PersistenceTypeOK, Value, FileOrNone, Empty, Nothing
  <1>2. ASSUME PersistenceTypeOK, [Next]_vars PROVE PersistenceTypeOK'
    <2> USE <1>2
    <2>1. CASE UNCHANGED vars
      BY <2>1 DEF vars, requests, disk, promised, PersistenceTypeOK, Value, FileOrNone
    <2>2. ASSUME NEW c \in Clients, NEW r \in Changes, Change(c, r) PROVE PersistenceTypeOK'
      BY <2>2 DEF Change, PersistenceTypeOK, Value, FileOrNone, disk
    <2>3. ASSUME NEW c \in Clients, Publish(c) PROVE PersistenceTypeOK'
      BY <2>3 DEF Publish, PersistenceTypeOK, Value, FileOrNone, disk, promised
    <2>4. ASSUME NEW c \in Clients, Open(c) PROVE PersistenceTypeOK'
      BY <2>4 DEF Open, PersistenceTypeOK, Value, FileOrNone, promised, Empty
    <2>5. ASSUME NEW c \in Clients, Write(c) PROVE PersistenceTypeOK'
      <3>1. PICK v \in {Whole(updated[c]), Mixed} : content' = [content EXCEPT ![fd[c]] = v]
        BY <2>5 DEF Write
      <3>2. v \in [text : {"empty", "mixed", "whole"}, value : Value]
        BY DEF Whole, Mixed, PersistenceTypeOK, Value
      <3>3. content' \in [Files -> [text : {"empty", "mixed", "whole"}, value : Value]]
        BY <3>1, <3>2 DEF PersistenceTypeOK
      <3>4. QED
        BY <2>5, <3>3 DEF Write, PersistenceTypeOK, Value, FileOrNone, promised
    <2>6. ASSUME NEW c \in Clients, Rename(c) PROVE PersistenceTypeOK'
      <3>1. change[c] \in Changes /\ updated[c] \in Value
        BY <2>6 DEF Rename, PersistenceTypeOK
      <3>2. QED
        BY <2>6, <3>1 DEF Rename, Return, PersistenceTypeOK, Value, FileOrNone, Nothing
    <2>7. ASSUME NEW c \in Clients, SaveFails(c) PROVE PersistenceTypeOK'
      <3>1. content' \in [Files -> [text : {"empty", "mixed", "whole"}, value : Value]]
        BY <2>7 DEF SaveFails, Mixed, PersistenceTypeOK, Value
      <3>2. change[c] \in Changes
        BY <2>7 DEF SaveFails, PersistenceTypeOK
      <3>3. QED
        BY <2>7, <3>1, <3>2 DEF SaveFails, Return, PersistenceTypeOK, Value, FileOrNone, Nothing
    <2>8. CASE Crash
      BY <2>8 DEF Crash, StartsWith, OnDisk, PersistenceTypeOK, Value, FileOrNone, Nothing
    <2>9. QED
      BY <2>1, <2>2, <2>3, <2>4, <2>5, <2>6, <2>7, <2>8 DEF Next, Request, Done
  <1>3. QED
    BY <1>1, <1>2, PTL DEF Spec

-----------------------------------------------------------------------------
(* The roster *)

RosterInv == Exclusive /\ FileReadable /\ ChangesKept /\ SavedSurvives

\* While a request is under way the others are idle.
LEMMA OneAtATime ==
    ASSUME Exclusive, NEW c \in Clients, step[c] # "idle"
    PROVE  \A b \in Clients \ {c} : step[b] = "idle"
  BY DEF Exclusive

\* What a request that ends leaves behind.
LEMMA Returns ==
    ASSUME Locked, PersistenceTypeOK, Exclusive, ChangesKept, NEW c \in Clients,
           step[c] \in {"published", "opened", "written"}, Return(c),
           fd' = [fd EXCEPT ![c] = NoFile]
    PROVE  /\ \A b \in Clients : step'[b] = "idle" /\ fd'[b] = NoFile
           /\ memory' = updated[c]
           /\ ChangesKept'
  <1>1. \A b \in Clients : step'[b] = "idle" /\ fd'[b] = NoFile
    BY OneAtATime DEF Return, Exclusive, PersistenceTypeOK
  <1>2. memory' = updated[c] /\ change[c] \in updated[c] /\ answered \subseteq memory
    BY DEF Return, Exclusive, ChangesKept
  <1>3. memory = updated[c]
    BY DEF Exclusive
  <1>4. QED
    BY <1>1, <1>2, <1>3 DEF Return, ChangesKept

LEMMA RosterInvariant ==
    ASSUME Locked PROVE Spec => []RosterInv
  <1>1. Init => RosterInv
    BY DEF Init, RosterInv, Exclusive, FileReadable, ChangesKept, SavedSurvives, Nothing
  <1>2. ASSUME PersistenceTypeOK, RosterInv, [Next]_vars PROVE RosterInv'
    <2> USE <1>2 DEF RosterInv
    <2>1. CASE UNCHANGED vars
      BY <2>1 DEF vars, requests, disk, promised, Exclusive, FileReadable, ChangesKept,
            SavedSurvives, Readable
    <2>2. ASSUME NEW c \in Clients, NEW r \in Changes, Change(c, r) PROVE RosterInv'
      <3>1. \A b \in Clients : step[b] = "idle"
        BY <2>2, PersistenceAssumption DEF Change, Exclusive
      <3>2. /\ step'[c] = "changed" /\ change'[c] = r /\ updated'[c] = memory \cup {r}
            /\ \A b \in Clients \ {c} : step'[b] = "idle"
        BY <2>2, <3>1 DEF Change, PersistenceTypeOK
      <3>3. Exclusive'
        BY <2>2, <3>1, <3>2 DEF Change, Exclusive, ChangesKept, disk
      <3>4. FileReadable' /\ ChangesKept' /\ SavedSurvives'
        BY <2>2 DEF Change, disk, FileReadable, ChangesKept, SavedSurvives, Readable
      <3>5. QED
        BY <3>3, <3>4
    <2>3. ASSUME NEW c \in Clients, Publish(c) PROVE RosterInv'
      <3>1. /\ step'[c] = "published"
            /\ \A b \in Clients \ {c} : step[b] = "idle" /\ step'[b] = "idle"
        BY <2>3, OneAtATime DEF Publish, PersistenceTypeOK
      <3>2. Exclusive'
        BY <2>3, <3>1 DEF Publish, Exclusive, disk, promised
      <3>3. FileReadable' /\ ChangesKept' /\ SavedSurvives'
        BY <2>3 DEF Publish, Exclusive, disk, promised, FileReadable, ChangesKept,
              SavedSurvives, Readable
      <3>4. QED
        BY <3>2, <3>3
    <2>4. ASSUME NEW c \in Clients, Open(c) PROVE RosterInv'
      <3>1. /\ step'[c] = "opened"
            /\ \A b \in Clients \ {c} : step[b] = "idle" /\ step'[b] = "idle"
        BY <2>4, OneAtATime DEF Open, PersistenceTypeOK
      <3>2. PICK f \in Files : /\ IF tmp = NoFile THEN Unused(f) ELSE f = tmp
                               /\ content' = [content EXCEPT ![f] = Empty]
                               /\ tmp' = f /\ fd' = [fd EXCEPT ![c] = f]
        BY <2>4 DEF Open
      <3>3. f # path /\ f # NoFile
        BY <3>2, PersistenceAssumption DEF Unused, Exclusive
      <3>4. content'[f] = Empty /\ (path # NoFile => content'[path] = content[path])
        BY <3>2, <3>3 DEF PersistenceTypeOK, FileOrNone
      <3>5. Exclusive'
        BY <2>4, <3>1, <3>2, <3>3, <3>4 DEF Open, Exclusive, PersistenceTypeOK, promised
      <3>6. FileReadable' /\ ChangesKept' /\ SavedSurvives'
        BY <2>4, <3>4 DEF Open, promised, FileReadable, ChangesKept, SavedSurvives, Readable
      <3>7. QED
        BY <3>5, <3>6
    <2>5. ASSUME NEW c \in Clients, Write(c) PROVE RosterInv'
      <3>1. /\ step'[c] = "written"
            /\ \A b \in Clients \ {c} : step[b] = "idle" /\ step'[b] = "idle"
        BY <2>5, OneAtATime DEF Write, PersistenceTypeOK
      <3>2. fd[c] = tmp /\ tmp # NoFile /\ tmp # path /\ content[tmp] = Empty
        BY <2>5 DEF Write, Exclusive
      <3>3. content' = [content EXCEPT ![tmp] = Whole(updated[c])]
        BY <2>5, <3>2 DEF Write
      <3>4. /\ content'[tmp] = Whole(updated[c])
            /\ path # NoFile => content'[path] = content[path]
        BY <3>2, <3>3 DEF PersistenceTypeOK, FileOrNone
      <3>5. Exclusive'
        BY <2>5, <3>1, <3>2, <3>4 DEF Write, Exclusive, PersistenceTypeOK, promised
      <3>6. FileReadable' /\ ChangesKept' /\ SavedSurvives'
        BY <2>5, <3>4 DEF Write, promised, FileReadable, ChangesKept, SavedSurvives, Readable
      <3>7. QED
        BY <3>5, <3>6
    <2>6. ASSUME NEW c \in Clients, Rename(c) PROVE RosterInv'
      <3>1. tmp # NoFile /\ content[tmp] = Whole(updated[c]) /\ step[c] = "written"
        BY <2>6 DEF Rename, Exclusive
      <3>2. /\ path' = tmp /\ tmp' = NoFile /\ saved' = saved \cup updated[c]
            /\ UNCHANGED <<content, fd>> /\ Return(c)
        BY <2>6, <3>1 DEF Rename
      <3>3. fd' = [fd EXCEPT ![c] = NoFile]
        BY <3>1, <3>2 DEF Exclusive, PersistenceTypeOK
      <3>4. /\ \A b \in Clients : step'[b] = "idle" /\ fd'[b] = NoFile
            /\ memory' = updated[c] /\ ChangesKept'
        BY <3>1, <3>2, <3>3, Returns
      <3>5. saved \subseteq updated[c]
        BY <3>1 DEF Exclusive
      <3>6. Exclusive'
        BY <3>2, <3>4, <3>5 DEF Exclusive
      <3>7. FileReadable' /\ SavedSurvives'
        BY <3>1, <3>2, <3>5 DEF FileReadable, SavedSurvives, Readable, Whole
      <3>8. QED
        BY <3>4, <3>6, <3>7
    <2>7. ASSUME NEW c \in Clients, SaveFails(c) PROVE RosterInv'
      <3>1. /\ step[c] \in {"published", "opened", "written"} /\ Return(c)
            /\ fd' = [fd EXCEPT ![c] = NoFile] /\ UNCHANGED <<tmp, path, saved>>
        BY <2>7 DEF SaveFails
      <3>2. /\ \A b \in Clients : step'[b] = "idle" /\ fd'[b] = NoFile
            /\ memory' = updated[c] /\ ChangesKept'
        BY <3>1, Returns
      <3>3. saved \subseteq updated[c]
        BY <3>1 DEF Exclusive
      <3>4. path # NoFile => content'[path] = content[path]
        BY <2>7 DEF SaveFails, Exclusive, PersistenceTypeOK, FileOrNone
      <3>5. Exclusive'
        BY <3>1, <3>2, <3>3 DEF Exclusive
      <3>6. FileReadable' /\ SavedSurvives'
        BY <3>1, <3>4 DEF FileReadable, SavedSurvives, Readable
      <3>7. QED
        BY <3>2, <3>5, <3>6
    <2>8. CASE Crash
      <3>1. Exclusive'
        BY <2>8 DEF Crash, StartsWith, OnDisk, Exclusive, SavedSurvives, Nothing
      <3>2. FileReadable' /\ ChangesKept' /\ SavedSurvives'
        BY <2>8 DEF Crash, StartsWith, FileReadable, ChangesKept, SavedSurvives, Readable
      <3>3. QED
        BY <3>1, <3>2
    <2>9. QED
      BY <2>1, <2>2, <2>3, <2>4, <2>5, <2>6, <2>7, <2>8 DEF Next, Request, Done
  <1>3. QED
    BY <1>1, <1>2, PersistenceTypeCorrect, PTL DEF Spec

\* Under a lock the roster's file can be read at any moment, for any number of requests,
\* crashes and failed saves (player_store.rs:37-52).
THEOREM RosterIsReadable == ASSUME Locked PROVE Spec => []FileReadable
  <1>1. RosterInv => FileReadable
    BY DEF RosterInv
  <1>2. QED
    BY <1>1, RosterInvariant, PTL

\* No change undoes another that was answered (state.rs:269-353).
THEOREM RosterKeepsChanges == ASSUME Locked PROVE Spec => []ChangesKept
  <1>1. RosterInv => ChangesKept
    BY DEF RosterInv
  <1>2. QED
    BY <1>1, RosterInvariant, PTL

\* What has been saved once is in every file that takes its place.
THEOREM RosterIsSafe == ASSUME Locked PROVE Spec => []SavedSurvives
  <1>1. RosterInv => SavedSurvives
    BY DEF RosterInv
  <1>2. QED
    BY <1>1, RosterInvariant, PTL

\* The lock's holder alone has a copy, and the temporary file is its own.
THEOREM RosterIsExclusive == ASSUME Locked PROVE Spec => []Exclusive
  <1>1. RosterInv => Exclusive
    BY DEF RosterInv
  <1>2. QED
    BY <1>1, RosterInvariant, PTL

-----------------------------------------------------------------------------
(* The roster as a store *)

\* Between a request's copy and its publication the value stays what it was.
CopyIsCurrent ==
    \A c \in Clients : step[c] = "changed" => updated[c] = memory \cup {change[c]}

LEMMA CopyStep ==
    ASSUME Locked, PersistenceTypeOK, RosterInv, CopyIsCurrent, [Next]_vars
    PROVE  CopyIsCurrent'
  <1>1. Exclusive
    BY DEF RosterInv
  <1>2. CASE UNCHANGED vars
    BY <1>2 DEF vars, requests, CopyIsCurrent
  <1>3. ASSUME NEW c \in Clients, NEW r \in Changes, Change(c, r) PROVE CopyIsCurrent'
    <2>1. \A b \in Clients : step[b] = "idle"
      BY <1>1, <1>3, PersistenceAssumption DEF Change, Exclusive
    <2>2. /\ step'[c] = "changed" /\ change'[c] = r /\ updated'[c] = memory \cup {r}
          /\ \A b \in Clients \ {c} : step'[b] = "idle"
          /\ memory' = memory
      BY <1>3, <2>1 DEF Change, PersistenceTypeOK
    <2> QED
      BY <2>2 DEF CopyIsCurrent
  <1>4. ASSUME NEW c \in Clients, Publish(c) \/ Open(c) \/ Write(c) \/ Rename(c) \/ SaveFails(c)
        PROVE  CopyIsCurrent'
    <2>1. \A b \in Clients \ {c} : step[b] = "idle"
      BY <1>1, <1>4, OneAtATime DEF Publish, Open, Write, Rename, SaveFails
    <2>2. step'[c] # "changed" /\ \A b \in Clients \ {c} : step'[b] = "idle"
      BY <1>4, <2>1 DEF Publish, Open, Write, Rename, SaveFails, Return, PersistenceTypeOK
    <2> QED
      BY <2>2 DEF CopyIsCurrent
  <1>5. CASE Crash
    BY <1>5 DEF Crash, StartsWith, CopyIsCurrent
  <1> QED
    BY <1>2, <1>3, <1>4, <1>5 DEF Next, Request, Done

\* A file that keeps its content keeps what a start would load.
LEMMA DiskKept ==
    ASSUME path' = path, path # NoFile => content'[path] = content[path]
    PROVE  OnDisk' = OnDisk
  BY DEF OnDisk, Readable

\* Each step of a request, and each crash, is one of the store or leaves it alone.
LEMMA StoreStep ==
    ASSUME Locked, PersistenceTypeOK, RosterInv, CopyIsCurrent, [Next]_vars
    PROVE  [Store!Next]_(Store!storeVars)
  <1>1. Exclusive
    BY DEF RosterInv
  <1>2. CASE UNCHANGED vars
    <2>1. memory' = memory /\ OnDisk' = OnDisk
      BY <1>2, DiskKept DEF vars, disk
    <2> QED
      BY <2>1 DEF Store!storeVars
  <1>3. ASSUME NEW c \in Clients, NEW r \in Changes, Change(c, r)
        PROVE  [Store!Next]_(Store!storeVars)
    <2>1. memory' = memory /\ OnDisk' = OnDisk
      BY <1>3, DiskKept DEF Change, disk
    <2> QED
      BY <2>1 DEF Store!storeVars
  <1>4. ASSUME NEW c \in Clients, Publish(c) PROVE [Store!Next]_(Store!storeVars)
    <2>1. memory' = memory \cup {change[c]} /\ change[c] \in Changes
      BY <1>4 DEF Publish, CopyIsCurrent, PersistenceTypeOK
    <2>2. OnDisk' = OnDisk
      BY <1>4, DiskKept DEF Publish, disk
    <2>3. Store!Apply(change[c])
      BY <2>1, <2>2 DEF Store!Apply
    <2> QED
      BY <2>1, <2>3 DEF Store!Next
  <1>5. ASSUME NEW c \in Clients, Open(c) PROVE [Store!Next]_(Store!storeVars)
    <2>1. PICK f \in Files : /\ IF tmp = NoFile THEN Unused(f) ELSE f = tmp
                             /\ content' = [content EXCEPT ![f] = Empty]
      BY <1>5 DEF Open
    <2>2. f # path
      BY <1>1, <2>1, PersistenceAssumption DEF Unused, Exclusive
    <2>3. path # NoFile => content'[path] = content[path]
      BY <2>1, <2>2 DEF PersistenceTypeOK, FileOrNone
    <2>4. memory' = memory /\ OnDisk' = OnDisk
      BY <1>5, <2>3, DiskKept DEF Open
    <2> QED
      BY <2>4 DEF Store!storeVars
  <1>6. ASSUME NEW c \in Clients, Write(c) PROVE [Store!Next]_(Store!storeVars)
    <2>1. fd[c] # path
      BY <1>1, <1>6 DEF Write, Exclusive
    <2>2. path # NoFile => content'[path] = content[path]
      BY <1>6, <2>1 DEF Write, PersistenceTypeOK, FileOrNone
    <2>3. memory' = memory /\ OnDisk' = OnDisk
      BY <1>6, <2>2, DiskKept DEF Write
    <2> QED
      BY <2>3 DEF Store!storeVars
  <1>7. ASSUME NEW c \in Clients, Rename(c) PROVE [Store!Next]_(Store!storeVars)
    <2>1. tmp # NoFile /\ content[tmp] = Whole(updated[c]) /\ memory = updated[c]
      BY <1>1, <1>7 DEF Rename, Exclusive
    <2>2. path' = tmp /\ content' = content /\ memory' = memory
      BY <1>7, <2>1 DEF Rename, Return
    <2>3. OnDisk' = memory
      BY <2>1, <2>2 DEF OnDisk, Readable, Whole
    <2> QED
      BY <2>2, <2>3 DEF Store!Save, Store!Next
  <1>8. ASSUME NEW c \in Clients, SaveFails(c) PROVE [Store!Next]_(Store!storeVars)
    <2>1. path # NoFile => content'[path] = content[path]
      BY <1>1, <1>8 DEF SaveFails, Exclusive, PersistenceTypeOK, FileOrNone
    <2>2. memory' = memory /\ OnDisk' = OnDisk
      BY <1>8, <2>1, DiskKept DEF SaveFails, Return
    <2> QED
      BY <2>2 DEF Store!storeVars
  <1>9. CASE Crash
    <2>1. memory' = OnDisk /\ OnDisk' = OnDisk
      BY <1>9, DiskKept DEF Crash, StartsWith
    <2> QED
      BY <2>1 DEF Store!Restart, Store!Next
  <1> QED
    BY <1>2, <1>3, <1>4, <1>5, <1>6, <1>7, <1>8, <1>9 DEF Next, Request, Done

\* Under its lock the roster is a durable store: for any number of requests, crashes and
\* failed saves (state.rs:269-353, player_store.rs:16-53).
THEOREM RosterImplementsStore == ASSUME Locked PROVE Spec => RosterIsStore
  <1>1. Init => Store!Init /\ CopyIsCurrent
    BY DEF Init, Store!Init, OnDisk, Nothing, CopyIsCurrent
  <1>2. PersistenceTypeOK /\ RosterInv /\ CopyIsCurrent /\ [Next]_vars => CopyIsCurrent'
    BY CopyStep
  <1>3. PersistenceTypeOK /\ RosterInv /\ CopyIsCurrent /\ [Next]_vars
            => [Store!Next]_(Store!storeVars)
    BY StoreStep
  <1> QED
    BY <1>1, <1>2, <1>3, RosterInvariant, PersistenceTypeCorrect, PTL
       DEF Spec, RosterIsStore, Store!Spec
=============================================================================
