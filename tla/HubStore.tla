------------------------------ MODULE HubStore ------------------------------
(***************************************************************************)
(* The Hub's store of one sync group: the encrypted event log, the blobs   *)
(* the events refer to, the retention snapshots that protect favourites    *)
(* from pruning, the usage counters behind the quota, and the blob uploads *)
(* in flight.  One action per request handler (sync-server/src/service.rs) *)
(* or cleanup batch; the SQLite transaction each one commits               *)
(* (sync-server/src/repository.rs) is part of the action.                  *)
(*                                                                         *)
(* Every action but ReceiveBlob runs under the group's sync lock, so it is *)
(* atomic; an upload is three steps because the lock is released while the *)
(* payload is received.                                                    *)
(*                                                                         *)
(* Abstractions: all events have the same payload size and all blobs the   *)
(* same size, as nothing here depends on two blobs differing in size; ages *)
(* are the two thresholds the cleanup compares timestamps with.            *)
(***************************************************************************)
EXTENDS Integers, FiniteSets, FiniteSetsExt

CONSTANTS
    Event,          \* event ids
    Blob,           \* blob ids (a blob id is the hash of its content)
    Device,         \* devices of the group
    Key,            \* retention keys: the identity of a clipboard item
    NoKey,          \* an event whose sender registered no identity
    Stream,         \* concurrent upload streams
    Slot,           \* (origin device, origin sequence) of each event
    Required,       \* blobs that must be stored before the event
    Optional,       \* blobs listed by the event that may arrive later
    KeyOf,          \* retention key sent with the event, or NoKey
    Identity,       \* the key a device registers after decoding the event
    EventBytes, BlobBytes,
    MaxGroupBytes,  \* quota of the group; 0 means unlimited
    FrameBytes,     \* slack left for the events of an already stored blob
    MaxEvents,      \* retained events limit; 0 means unlimited
    BatchSize,      \* events or stale blobs handled by one cleanup batch
    MaxCursor,      \* bound on the AUTOINCREMENT cursor, for TLC only
    MaxGeneration   \* bound on the retention generation, for TLC only

ASSUME FiniteAssumption ==
    /\ IsFiniteSet(Event) /\ IsFiniteSet(Blob) /\ IsFiniteSet(Stream)
ASSUME NoKeyAssumption == NoKey \notin Key
ASSUME EventAssumption ==
    /\ Required \in [Event -> SUBSET Blob]
    /\ Optional \in [Event -> SUBSET Blob]
    /\ KeyOf \in [Event -> Key \cup {NoKey}]
    /\ Identity \in [Event -> Key]
    /\ \A e \in Event : KeyOf[e] \in {NoKey, Identity[e]}
ASSUME BoundAssumption ==
    /\ EventBytes \in Nat \ {0} /\ BlobBytes \in Nat \ {0}
    /\ MaxGroupBytes \in Nat /\ FrameBytes \in Nat /\ MaxEvents \in Nat
    /\ BatchSize \in Nat \ {0}
    /\ MaxCursor \in Nat /\ MaxGeneration \in Nat

VARIABLES
    cursorOf,     \* the cursor of each retained event, 0 when not stored
    keyOf,        \* events.retention_key
    refs,         \* event_blob_refs
    issued,       \* the last cursor handed out to the group
    assigned,     \* history: every cursor the group's events ever had
    pruned,       \* sync_groups.pruned_through_cursor
    expired,      \* every event up to this cursor is past the retention age
    stored,       \* blobs: the ids with a metadata row
    legacy,       \* blobs.gc_protected
    age,          \* 0: within the orphan grace, 1: past it, 2: past retention
    files,        \* the payload files under the blob directory
    usage,        \* the counters of sync_groups
    upload,       \* the uploads in flight
    reserved,     \* BlobQuotaState of the group, in memory only
    generation,   \* retention_devices: the snapshot number of each device
    protections   \* retention_protections

logVars == <<cursorOf, keyOf, refs, issued, assigned, pruned, expired>>
blobVars == <<stored, legacy, age, files>>
uploadVars == <<upload, reserved>>
retentionVars == <<generation, protections>>
vars == <<logVars, blobVars, usage, uploadVars, retentionVars>>

Idle == [stage |-> "idle"]
UploadState ==
    {Idle} \cup [stage : {"receiving", "renamed"}, blob : Blob,
                 charged : BOOLEAN, managed : BOOLEAN]

\* A device without a row in retention_devices.
Unregistered == -1

Typed ==
    /\ cursorOf \in [Event -> Nat]
    /\ keyOf \in [Event -> Key \cup {NoKey}]
    /\ refs \in [Event -> SUBSET Blob]
    /\ issued \in Nat /\ assigned \in SUBSET Nat /\ pruned \in Nat /\ expired \in Nat
    /\ stored \in SUBSET Blob
    /\ legacy \in SUBSET Blob
    /\ age \in [Blob -> 0..2]
    /\ files \in SUBSET Blob
    /\ usage \in [eventBytes : Nat, eventCount : Nat, blobBytes : Nat, blobCount : Nat]
    /\ upload \in [Stream -> UploadState]
    /\ reserved \in [bytes : Nat, active : Nat]
    /\ generation \in [Device -> Nat \cup {Unregistered}]
    /\ protections \in [Device -> SUBSET Key]

Retained == {e \in Event : cursorOf[e] # 0}
Active == {s \in Stream : upload[s] # Idle}
Charged == {s \in Active : upload[s].charged}
UsedBytes == usage.eventBytes + usage.blobBytes

\* Every row has the row it depends on, over pruning, cleanup and removals.
RowsHaveParents ==
    /\ \A e \in Event \ Retained : keyOf[e] = NoKey /\ refs[e] = {}
    /\ legacy \subseteq stored /\ \A b \in Blob \ stored : age[b] = 0
    /\ \A d \in Device : generation[d] = Unregistered => protections[d] = {}

\* The cells keep their types and the tables their foreign keys: what a pruned
\* event or a removed device owned goes with it, so that nothing protects an
\* item in the name of a device that is gone.
TypeOK == Typed /\ RowsHaveParents

\* saturating_sub, and SQL's MAX(0, a - b).
Monus(a, b) == IF a >= b THEN a - b ELSE 0

Init ==
    /\ cursorOf = [e \in Event |-> 0]
    /\ keyOf = [e \in Event |-> NoKey]
    /\ refs = [e \in Event |-> {}]
    /\ issued = 0 /\ assigned = {} /\ pruned = 0 /\ expired = 0
    /\ stored = {} /\ legacy = {} /\ files = {}
    /\ age = [b \in Blob |-> 0]
    /\ usage = [eventBytes |-> 0, eventCount |-> 0, blobBytes |-> 0, blobCount |-> 0]
    /\ upload = [s \in Stream |-> Idle]
    /\ reserved = [bytes |-> 0, active |-> 0]
    /\ generation = [d \in Device |-> Unregistered]
    /\ protections = [d \in Device |-> {}]

\* The counters once `events` events and `blobs` blobs were added.
UsageAfter(events, blobs) ==
    [eventBytes |-> usage.eventBytes + events * EventBytes,
     eventCount |-> usage.eventCount + events,
     blobBytes |-> usage.blobBytes + blobs * BlobBytes,
     blobCount |-> usage.blobCount + blobs]

-----------------------------------------------------------------------------
(* Blob uploads *)

\* Mutant: the bytes of a finished upload stay reserved.
ReleaseForgetsBytes(s) == reserved' = [reserved EXCEPT !.active = Monus(@, 1)]

\* BlobQuotaReservation::drop.
Release(s) ==
    LET left == Monus(reserved.active, 1)
        bytes == IF upload[s].charged THEN BlobBytes ELSE 0
    IN  reserved' = [active |-> left,
                     bytes |-> IF left = 0 THEN 0 ELSE Monus(reserved.bytes, bytes)]

\* Mutants: every upload counts as new; events may use promised bytes.
EveryUploadGrows(b) == BlobBytes
EventQuotaIgnoresUploads == MaxGroupBytes + FrameBytes

\* What storing the blob adds to the group.
Growth(b) == IF b \in stored THEN 0 ELSE BlobBytes

\* Leaves one request frame of slack to reference an uploaded blob.
EventQuotaLimit == Monus(MaxGroupBytes + FrameBytes, reserved.bytes)

\* The blob is already stored: its orphan grace starts again.
ReuseBlob(b) ==
    /\ b \in stored /\ b \in files
    /\ age' = [age EXCEPT ![b] = 0]
    /\ UNCHANGED <<logVars, stored, legacy, files, usage, uploadVars, retentionVars>>

\* reserve_blob_quota_locked: only the growth of the stored bytes is charged.
ReserveBlob(s, b, managed) ==
    /\ upload[s] = Idle
    /\ ~(b \in stored /\ b \in files)
    /\ MaxGroupBytes > 0 => UsedBytes + reserved.bytes + Growth(b) <= MaxGroupBytes
    /\ reserved' = [active |-> reserved.active + 1, bytes |-> reserved.bytes + Growth(b)]
    /\ upload' = [upload EXCEPT ![s] = [stage |-> "receiving", blob |-> b,
                                        charged |-> Growth(b) > 0, managed |-> managed]]
    /\ UNCHANGED <<logVars, blobVars, usage, retentionVars>>

\* receive_blob: the verified temporary file is renamed, outside the lock.
ReceiveBlob(s) ==
    /\ upload[s] # Idle
    /\ upload[s].stage = "receiving"
    /\ files' = files \cup {upload[s].blob}
    /\ upload' = [upload EXCEPT ![s].stage = "renamed"]
    /\ UNCHANGED <<logVars, stored, legacy, age, usage, reserved, retentionVars>>

\* record_blob, then the reservation is dropped under the same lock.
RecordBlob(s) ==
    LET b == upload[s].blob
        growth == Growth(b)
    IN  /\ upload[s] # Idle
        /\ upload[s].stage = "renamed"
        /\ stored' = stored \cup {b}
        /\ legacy' = IF growth > 0 /\ ~upload[s].managed THEN legacy \cup {b} ELSE legacy
        /\ age' = [age EXCEPT ![b] = 0]
        /\ usage' = UsageAfter(0, IF growth > 0 THEN 1 ELSE 0)
        /\ Release(s)
        /\ upload' = [upload EXCEPT ![s] = Idle]
        /\ UNCHANGED <<logVars, files, retentionVars>>

\* The stream fails: the temporary file is removed, a renamed one stays.
AbortUpload(s) ==
    /\ upload[s] # Idle
    /\ Release(s)
    /\ upload' = [upload EXCEPT ![s] = Idle]
    /\ UNCHANGED <<logVars, blobVars, usage, retentionVars>>

\* The process stops; the database and the files survive.
Crash ==
    /\ Active # {}
    /\ upload' = [s \in Stream |-> Idle]
    /\ reserved' = [bytes |-> 0, active |-> 0]
    /\ UNCHANGED <<logVars, blobVars, usage, retentionVars>>

-----------------------------------------------------------------------------
(* Events *)

\* INSERT OR IGNORE: an event is ignored when its id or its origin slot is
\* taken, by a retained event or by an earlier one of the batch.
Accepts(batch, new) ==
    /\ new \subseteq batch \ Retained
    /\ \A e \in new : \A f \in new \cup Retained : Slot[e] = Slot[f] => e = f
    /\ \A e \in batch \ (new \cup Retained) :
          \E f \in new \cup Retained : Slot[e] = Slot[f]

\* Mutant: the key is not AUTOINCREMENT, so a pruned row's cursor is used again.
RowidAgain(S) ==
    LET top == Max({0} \cup {cursorOf[e] : e \in Event})
    IN  {at \in [S -> (top + 1)..MaxCursor] : \A e, f \in S : at[e] = at[f] => e = f}

\* The cursors a set of accepted events may get: AUTOINCREMENT is shared by all
\* groups, so the numbers grow but are not consecutive.
Cursors(S) == {at \in [S -> (issued + 1)..MaxCursor] : \A e, f \in S : at[e] = at[f] => e = f}

\* insert_events: one transaction for the whole batch.
InsertEvents(batch, new, at) ==
    LET n == Cardinality(new)
    IN  /\ \A e \in batch : Required[e] \subseteq stored
        /\ Accepts(batch, new)
        /\ new # {}
        /\ MaxGroupBytes > 0 => UsedBytes + n * EventBytes <= EventQuotaLimit
        /\ cursorOf' = [e \in Event |-> IF e \in new THEN at[e] ELSE cursorOf[e]]
        /\ keyOf' = [e \in Event |-> IF e \in new THEN KeyOf[e] ELSE keyOf[e]]
        /\ refs' = [e \in Event |-> IF e \in new THEN Required[e] \cup Optional[e]
                                                ELSE refs[e]]
        /\ issued' \in {at[e] : e \in new} /\ \A e \in new : at[e] <= issued'
        /\ assigned' = assigned \cup {at[e] : e \in new}
        /\ usage' = UsageAfter(n, 0)
        /\ UNCHANGED <<pruned, expired, blobVars, uploadVars, retentionVars>>

-----------------------------------------------------------------------------
(* Retention *)

Unmapped == {e \in Retained : keyOf[e] = NoKey}
Protected == UNION {protections[d] : d \in Device}

\* The protected keys a request may carry; those of a snapshot that is not newer
\* are ignored, so one value stands for them all.
Snapshots(d, g) == IF generation[d] < g THEN SUBSET Key ELSE {{}}

\* set_retention: a snapshot is taken only with a newer generation (a request
\* without a snapshot has g = Unregistered); mappings of events the Hub no
\* longer has are skipped; legacy blobs become managed once no event is left
\* without an identity.
SetRetention(d, g, keys, mapped) ==
    /\ IF generation[d] < g
       THEN /\ generation' = [generation EXCEPT ![d] = g]
            /\ protections' = [protections EXCEPT ![d] = keys]
       ELSE UNCHANGED retentionVars
    /\ LET known == mapped \cap Retained
       IN  /\ keyOf' = [e \in Event |-> IF e \in known THEN Identity[e] ELSE keyOf[e]]
           /\ refs' = [e \in Event |-> IF e \in known
                                       THEN refs[e] \cup Required[e] \cup Optional[e]
                                       ELSE refs[e]]
           /\ legacy' = IF Unmapped \subseteq known THEN {} ELSE legacy
    /\ UNCHANGED <<cursorOf, issued, assigned, pruned, expired, stored, age, files, usage,
                   uploadVars>>

\* Mutant: without foreign keys the snapshot of a purged device stays.
RemoveDeviceAlone(d) ==
    /\ generation[d] # Unregistered
    /\ generation' = [generation EXCEPT ![d] = Unregistered]
    /\ UNCHANGED <<logVars, blobVars, usage, uploadVars, protections>>

\* merge_removed_devices purges the device; its snapshot goes with it
\* (FOREIGN KEY ... ON DELETE CASCADE).
RemoveDevice(d) ==
    /\ generation[d] # Unregistered
    /\ generation' = [generation EXCEPT ![d] = Unregistered]
    /\ protections' = [protections EXCEPT ![d] = {}]
    /\ UNCHANGED <<logVars, blobVars, usage, uploadVars>>

-----------------------------------------------------------------------------
(* Cleanup: one batch of cleanup_group *)

Referenced(b) == \E e \in Retained : b \in refs[e]
\* Unreferenced blobs past their cutoff; `aged` is the cutoff of legacy blobs.
Stale == {b \in stored : ~Referenced(b) /\ IF b \in legacy THEN age[b] = 2 ELSE age[b] > 0}

\* Mutants: favourites are pruned too; a shared blob goes with its first
\* event; the floor stays behind the deleted events; uploads are not awaited.
AnyMapped == {e \in Retained : keyOf[e] # NoKey}
ReleasedBySome(S) == {b \in stored \ legacy : \E e \in S : b \in refs[e]}
FloorStays(through) == pruned
UploadsIgnored == FALSE

\* Events that may be pruned, oldest first, and the first n of them.
Eligible == {e \in Retained : keyOf[e] # NoKey /\ keyOf[e] \notin Protected}
Rank(e) == Cardinality({f \in Eligible : cursorOf[f] <= cursorOf[e]})
Oldest(n) == {e \in Eligible : Rank(e) <= n}
Candidates == Oldest(BatchSize)

\* Blobs that only events of S refer to.
ReleasedBy(S) ==
    {b \in stored \ legacy : Referenced(b) /\ \A e \in Retained \ S : b \notin refs[e]}
\* The pruned floor after a batch that deleted up to cursor `through`.
Floor(through) == IF through > pruned THEN through ELSE pruned
UploadActive == Active # {}

FreedBytes(n) ==
    Cardinality(Oldest(n)) * EventBytes + Cardinality(ReleasedBy(Oldest(n))) * BlobBytes

CountExcess ==
    IF MaxEvents = 0 THEN 0 ELSE Monus(Cardinality(Eligible), MaxEvents)
TimeExcess == Cardinality({e \in Candidates : cursorOf[e] <= expired})

\* Candidates deleted to bring `used` bytes down to `goal`: the first one if
\* that is enough, otherwise the whole batch.
QuotaExcess(used, goal) ==
    IF MaxGroupBytes = 0 \/ used <= goal THEN 0
    ELSE IF FreedBytes(1) >= used - goal THEN 1 ELSE Cardinality(Candidates)

DeleteCount(used, goal) ==
    Max({Min({Max({CountExcess, TimeExcess}), BatchSize}), QuotaExcess(used, goal)})

\* The batch: first the stale blobs, then the oldest eligible events and the
\* blobs they release.  The removal of a file may fail, which is only logged, or
\* be cut short by a crash after the commit.  `through` is the cursor of the
\* last deleted event, 0 when none is.
Cleanup(goal, stale, through) ==
    LET usedAfterStale == UsedBytes - Cardinality(stale) * BlobBytes
        count == DeleteCount(usedAfterStale, goal)
        gone == Oldest(count)
        released == ReleasedBy(gone)
        blobs == stale \cup released
    IN  /\ ~UploadActive
        /\ Unmapped = {}
        /\ stale \subseteq Stale
        /\ Cardinality(stale) = Min({BatchSize, Cardinality(Stale)})
        /\ gone \cup blobs # {}
        /\ IF gone = {} THEN through = 0 ELSE \E e \in gone : cursorOf[e] = through
        /\ \A e \in gone : cursorOf[e] <= through
        /\ cursorOf' = [e \in Event |-> IF e \in gone THEN 0 ELSE cursorOf[e]]
        /\ keyOf' = [e \in Event |-> IF e \in gone THEN NoKey ELSE keyOf[e]]
        /\ refs' = [e \in Event |-> IF e \in gone THEN {} ELSE refs[e]]
        /\ pruned' = Floor(through)
        /\ stored' = stored \ blobs
        /\ legacy' = legacy \ blobs
        /\ age' = [b \in Blob |-> IF b \in blobs THEN 0 ELSE age[b]]
        /\ files' \in {files \ removed : removed \in SUBSET blobs}
        /\ usage' = [eventBytes |-> Monus(usage.eventBytes, Cardinality(gone) * EventBytes),
                     eventCount |-> Monus(usage.eventCount, Cardinality(gone)),
                     blobBytes |-> Monus(usage.blobBytes, Cardinality(blobs) * BlobBytes),
                     blobCount |-> Monus(usage.blobCount, Cardinality(blobs))]
        /\ UNCHANGED <<issued, assigned, expired, uploadVars, retentionVars>>

-----------------------------------------------------------------------------
(* Time *)

AgeBlob(b) ==
    /\ b \in stored /\ age[b] < 2
    /\ age' = [age EXCEPT ![b] = @ + 1]
    /\ UNCHANGED <<logVars, stored, legacy, files, usage, uploadVars, retentionVars>>

ExpireEvents(c) ==
    /\ c > expired
    /\ expired' = c
    /\ UNCHANGED <<cursorOf, keyOf, refs, issued, assigned, pruned, blobVars, usage, uploadVars,
                   retentionVars>>

Next ==
    \/ \E b \in Blob : ReuseBlob(b) \/ AgeBlob(b)
    \/ \E s \in Stream, b \in Blob, managed \in BOOLEAN : ReserveBlob(s, b, managed)
    \/ \E s \in Stream : ReceiveBlob(s) \/ RecordBlob(s) \/ AbortUpload(s)
    \/ Crash
    \/ \E batch \in SUBSET Event : \E new \in SUBSET batch : \E at \in Cursors(new) :
          InsertEvents(batch, new, at)
    \/ \E d \in Device : RemoveDevice(d)
    \/ \E d \in Device, g \in Unregistered..MaxGeneration :
          \E keys \in Snapshots(d, g), mapped \in SUBSET Retained : SetRetention(d, g, keys, mapped)
    \/ \E goal \in 0..MaxGroupBytes, stale \in SUBSET Stale :
          \E through \in assigned \cup {0} : Cleanup(goal, stale, through)
    \/ \E c \in assigned : ExpireEvents(c)

Spec == Init /\ [][Next]_vars

-----------------------------------------------------------------------------
(* Properties *)

\* The incremental counters equal the logical content of the group, so no
\* sequence of uploads, batches and cleanups makes the quota drift.
Accounting ==
    /\ usage.eventCount = Cardinality(Retained)
    /\ usage.eventBytes = Cardinality(Retained) * EventBytes
    /\ usage.blobCount = Cardinality(stored)
    /\ usage.blobBytes = Cardinality(stored) * BlobBytes

\* The in-memory reservations are exactly those of the uploads in flight,
\* whatever order streams finish, fail or crash in.
ReservationsMatch ==
    /\ reserved.active = Cardinality(Active)
    /\ reserved.bytes = Cardinality(Charged) * BlobBytes

\* Bytes stored plus bytes promised to uploads never exceed the quota by more
\* than one request frame of events.
QuotaBound ==
    MaxGroupBytes > 0 => UsedBytes + reserved.bytes <= MaxGroupBytes + FrameBytes

\* Every attachment a retained event requires can be downloaded: the event
\* references it, its metadata is there and so is its file.
AttachmentsAvailable ==
    \A e \in Retained : Required[e] \subseteq refs[e] \cap stored \cap files

\* A blob the database offers has its payload file (GetBlob opens it), even
\* though an upload renames its file before it records the metadata.
StoredHasFile == stored \subseteq files

\* An event the Hub once listed is missing only below the pruned floor, which
\* is what lets ensure_cursor_available recognise a client that missed events.
HolesBelowFloor ==
    /\ pruned <= issued
    /\ assigned \subseteq 1..issued
    /\ \A c \in assigned : c <= pruned \/ \E e \in Retained : cursorOf[e] = c
    /\ \A e \in Retained : cursorOf[e] \in assigned

\* Pruning never takes an event whose item some device protects, nor any
\* event or blob while an event without identity could be protected later.
ProtectedSurvive ==
    [][/\ \A e \in Retained : keyOf[e] \in Protected => e \in Retained'
       /\ Unmapped # {} => Retained \subseteq Retained' /\ stored \subseteq stored']_vars

\* The Hub's store, with all its other state, is an append-only log whose
\* readers are told of every gap (HubLog): re-used cursors, an event deleted
\* above the floor or a floor that moves on its own would break it.
Log == INSTANCE HubLog WITH Event <- Event, MaxCursor <- MaxCursor,
                            cursorOf <- cursorOf, issued <- issued,
                            assigned <- assigned, pruned <- pruned
ImplementsLog == Log!LogSpec
=============================================================================
