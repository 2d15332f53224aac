------------------------------ MODULE Directory ------------------------------
(* Who belongs to a group, on the Hub: requests of several devices, each a chain of queries, while *)
(* a device is removed and taken back. Most requests hold the group's lock from the check to the   *)
(* last read; ListDevices announces the asking device without it.                                  *)
EXTENDS Integers, Sequences

CONSTANTS
    Device,
    Subject,        \* the one that is removed and restored
    MaxClock,       \* bound: removals and restorations
    MaxStored       \* bound: events

Nobody == "nobody"

ASSUME DirectoryAssumption ==
    Subject \in Device /\ Nobody \notin Device /\ MaxClock \in Nat /\ MaxStored \in Nat

VARIABLES
    tombstone,  \* removed_devices: the Hub's entry of the subject
    listed,     \* devices: the announced members
    stored,     \* the origins of the group's events, in cursor order
    holder,     \* group_sync_lock
    request,    \* each device's request and how far its handler is
    knows,      \* each device's own entry of the subject
    place,      \* cloud_cursor of each device
    has,        \* the cursors of the events each device was given or sent
    belongs,    \* the devices that have the group's keys
    time

dirVars == <<tombstone, listed, stored, holder, request, knows, place, has, belongs, time>>

NoMark == [removed |-> 0, restored |-> 0]
Idle == [kind |-> "none", at |-> "idle", told |-> NoMark, page |-> {}, upto |-> 0]

DirInit ==
    /\ tombstone = NoMark /\ listed = {} /\ stored = <<>> /\ holder = Nobody
    /\ request = [d \in Device |-> Idle]
    /\ knows = [d \in Device |-> NoMark]
    /\ place = [d \in Device |-> 0] /\ has = [d \in Device |-> {}]
    /\ belongs = Device /\ time = 0

Newer(m, n) == IF m > n THEN m ELSE n
Joined(a, b) == [removed |-> Newer(a.removed, b.removed), restored |-> Newer(a.restored, b.restored)]
Gone(mark) == mark.removed > mark.restored

\* is_removed_device, is_removed_endpoint
Removed(d) == d = Subject /\ Gone(tombstone)

Goes(d, fields) == request' = [request EXCEPT ![d] = fields]
At(d, step) == Goes(d, [request[d] EXCEPT !.at = step])
Locked(d) == holder = d

----------------------------------------------------------------------------
\* The clients.

Kind == {"sync", "legacy", "retention", "removals", "directory"}
TakesLock == Kind \ {"directory"}

Ask(d, kind) ==
    /\ d \in belongs /\ request[d].at = "idle"
    /\ Goes(d, [Idle EXCEPT !.kind = kind, !.at = "asked", !.told = knows[d], !.upto = place[d]])
    /\ UNCHANGED <<tombstone, listed, stored, holder, knows, place, has, belongs, time>>

RemoveSubject(d) ==
    /\ d # Subject /\ ~Gone(knows[d]) /\ time < MaxClock
    /\ time' = time + 1
    /\ knows' = [knows EXCEPT ![d].removed = time + 1]
    /\ UNCHANGED <<tombstone, listed, stored, holder, request, place, has, belongs>>

\* Approved once more, the subject takes over what the approving member knows.
RestoreSubject(d) ==
    /\ d # Subject /\ Gone(knows[d]) /\ Subject \notin belongs /\ time < MaxClock
    /\ time' = time + 1
    /\ LET mark == [knows[d] EXCEPT !.restored = time + 1] IN
           knows' = [knows EXCEPT ![d] = mark, ![Subject] = mark]
    /\ belongs' = Device
    /\ UNCHANGED <<tombstone, listed, stored, holder, request, place, has>>

\* What a device that finds itself removed keeps: nothing of the group.
Leaves(d, mark) == d = Subject /\ Gone(mark)

TakeAnswer(d) ==
    /\ request[d].at = "answered"
    /\ LET mark == Joined(knows[d], request[d].told) IN
       IF Leaves(d, mark)
       THEN /\ belongs' = belongs \ {d}
            /\ knows' = [knows EXCEPT ![d] = NoMark]
            /\ place' = [place EXCEPT ![d] = 0]
            /\ has' = [has EXCEPT ![d] = {}]
       ELSE /\ knows' = [knows EXCEPT ![d] = mark]
            /\ place' = [place EXCEPT ![d] = Newer(@, request[d].upto)]
            /\ has' = [has EXCEPT ![d] = @ \cup request[d].page]
            /\ UNCHANGED belongs
    /\ Goes(d, Idle)
    /\ UNCHANGED <<tombstone, listed, stored, holder, time>>

\* The connection breaks; the handler may have done its work.
AnswerLost(d) ==
    /\ request[d].at = "answered"
    /\ Goes(d, Idle)
    /\ UNCHANGED <<tombstone, listed, stored, holder, knows, place, has, belongs, time>>

----------------------------------------------------------------------------
\* The handlers.

\* Mutant: only SyncV2 holds the group's lock.
AdmitUnlocked(d) ==
    /\ request[d].at = "asked"
    /\ IF request[d].kind \in {"sync", "removals"}
       THEN /\ holder = Nobody /\ holder' = d /\ At(d, "merging")
       ELSE /\ IF Removed(d) THEN Goes(d, Idle) ELSE At(d, "announcing")
            /\ UNCHANGED holder
    /\ UNCHANGED <<tombstone, listed, stored, knows, place, has, belongs, time>>

\* The group's lock; ensure_endpoint_active instead where there is none.
Admit(d) ==
    /\ request[d].at = "asked"
    /\ IF request[d].kind \in TakesLock
       THEN /\ holder = Nobody /\ holder' = d
            /\ At(d, IF request[d].kind \in {"sync", "removals"} THEN "merging" ELSE "announcing")
       ELSE /\ IF Removed(d) THEN Goes(d, Idle) ELSE At(d, "announcing")
            /\ UNCHANGED holder
    /\ UNCHANGED <<tombstone, listed, stored, knows, place, has, belongs, time>>

Release(d) == holder' = IF Locked(d) THEN Nobody ELSE holder

\* merge_removed_devices, unless the asking device is removed itself; a removal takes the route
\* along. A device that is removed now gets the entries, its own cursor and nothing else.
Merge(d) ==
    /\ request[d].at = "merging"
    /\ LET told == request[d].told
           mark == IF Removed(d) THEN tombstone ELSE Joined(tombstone, told)
           gone == d = Subject /\ Gone(mark) IN
       /\ tombstone' = mark
       /\ listed' = IF ~Removed(d) /\ told # NoMark /\ Gone(mark) THEN listed \ {Subject} ELSE listed
       /\ IF request[d].kind = "sync" /\ ~gone
          THEN /\ Goes(d, [request[d] EXCEPT !.at = "announcing", !.told = mark])
               /\ UNCHANGED holder
          ELSE /\ Goes(d, [request[d] EXCEPT !.at = "answered", !.told = mark])
               /\ Release(d)
    /\ UNCHANGED <<stored, knows, place, has, belongs, time>>

\* upsert_device reads the removals first and writes in a query of its own.
Check(d) ==
    /\ request[d].at = "announcing"
    /\ IF Removed(d)
       THEN Goes(d, Idle) /\ Release(d)
       ELSE At(d, "writing") /\ UNCHANGED holder
    /\ UNCHANGED <<tombstone, listed, stored, knows, place, has, belongs, time>>

Write(d) ==
    /\ request[d].at = "writing"
    /\ listed' = listed \cup {d}
    /\ IF request[d].kind \in {"sync", "legacy"}
       THEN At(d, "storing") /\ UNCHANGED holder
       ELSE Goes(d, [request[d] EXCEPT !.at = "answered", !.told = NoMark]) /\ Release(d)
    /\ UNCHANGED <<tombstone, stored, knows, place, has, belongs, time>>

\* Events the device sends: stored, or known already, or refused for want of room.
StoreEvent(d) ==
    /\ request[d].at = "storing" /\ Len(stored) < MaxStored
    /\ stored' = Append(stored, d)
    /\ At(d, "paging")
    /\ UNCHANGED <<tombstone, listed, holder, knows, place, has, belongs, time>>

StoreNothing(d) ==
    /\ request[d].at = "storing"
    /\ At(d, "paging")
    /\ UNCHANGED <<tombstone, listed, stored, holder, knows, place, has, belongs, time>>

StoreFails(d) ==
    /\ request[d].at = "storing"
    /\ Goes(d, Idle) /\ Release(d)
    /\ UNCHANGED <<tombstone, listed, stored, knows, place, has, belongs, time>>

PageEnds(cursor) == IF Len(stored) > cursor THEN cursor + 1 .. Len(stored) ELSE {cursor}

\* The events after the device's cursor, as many as the page and the frame hold, at least one if
\* there is one: limit_sync_response. The cursor is that of the last one returned.
ReadPage(d) ==
    /\ request[d].at = "paging"
    /\ \E n \in PageEnds(request[d].upto) :
           Goes(d, [request[d] EXCEPT !.at = "answered", !.page = request[d].upto + 1 .. n, !.upto = n,
                         !.told = IF request[d].kind = "sync" THEN @ ELSE NoMark])
    /\ Release(d)
    /\ UNCHANGED <<tombstone, listed, stored, knows, place, has, belongs, time>>

Handler(d) ==
    Admit(d) \/ Merge(d) \/ Check(d) \/ Write(d) \/ StoreEvent(d) \/ StoreNothing(d)
        \/ StoreFails(d) \/ ReadPage(d)

DirNext ==
    \E d \in Device :
        \/ \E kind \in Kind : Ask(d, kind)
        \/ RemoveSubject(d) \/ RestoreSubject(d)
        \/ TakeAnswer(d) \/ AnswerLost(d)
        \/ Handler(d)

DirSpec == DirInit /\ [][DirNext]_dirVars

----------------------------------------------------------------------------

Marks == [removed : 0..MaxClock, restored : 0..MaxClock]

DirTypeOK ==
    /\ tombstone \in Marks /\ knows \in [Device -> Marks]
    /\ listed \subseteq Device /\ belongs \subseteq Device /\ holder \in Device \cup {Nobody}
    /\ stored \in Seq(Device) /\ Len(stored) <= MaxStored
    /\ place \in [Device -> 0..MaxStored] /\ has \in [Device -> SUBSET (1..MaxStored)]
    /\ \A d \in Device :
           /\ request[d].kind \in Kind \cup {"none"} /\ request[d].told \in Marks
           /\ request[d].upto \in 0..MaxStored /\ request[d].page \subseteq 1..MaxStored

\* A cursor passes no event its device was not given, whatever was refused, cut or lost on the way
\* and however often the device was removed and taken back (SyncV2's answers).
NothingPassed == \A d \in Device : 1..place[d] \subseteq has[d]

\* From the moment the Hub has a removal, the removed device stores nothing, is given no event and
\* comes into the directory only by a ListDevices that was let through before.
MembersOnlyStep ==
    /\ Len(stored') > Len(stored) => ~Removed(stored'[Len(stored')])
    /\ \A d \in Device :
           /\ request'[d].page \ request[d].page # {} => ~Removed(d)
           /\ d \in listed' \ listed /\ Removed(d) => request[d].kind = "directory"

DirectoryKept == [][MembersOnlyStep]_dirVars

\* "Removed devices are absent from this directory" (repository.rs:196). A ListDevices whose
\* upsert_device has passed its check brings a removed device back into it.
AbsentWhenRemoved == Gone(tombstone) => Subject \notin listed
=============================================================================
