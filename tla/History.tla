------------------------------ MODULE History ------------------------------
(* The local history: records, and the images and attachments they refer to, written by captures,   *)
(* synchronization and shares, deleted by the user, and cut back by the retention policies and the *)
(* limit on the size of the data directory. The files lock keeps a payload from being reclaimed    *)
(* before the record that refers to it is stored.                                                   *)
EXTENDS Integers, FiniteSets, FiniteSetsExt

CONSTANTS
    Record,          \* records, numbered in the order of their creation times
    PayloadOf,       \* the file a record refers to, or none
    Pictures,          \* files that are images; the others are attachments the application owns
    Limits,          \* values of the setting for the size of the data directory; 0 is off
    MaxInserts,      \* bound: records written
    MaxMoves,        \* bound: changes of the limit, shares, recaptures and cache cleanings
    MaxTroubles      \* bound: crashes and cleanups that fail

NoPayload == "none"
Payload == {PayloadOf[r] : r \in Record} \ {NoPayload}
Trigger == {"scheduled", "capacity", "bootstrap"}

ASSUME HistoryAssumption ==
    /\ Record \in SUBSET Nat /\ IsFiniteSet(Record) /\ DOMAIN PayloadOf = Record
    /\ Pictures \subseteq Payload /\ Limits \subseteq Nat
    /\ MaxInserts \in Nat /\ MaxMoves \in Nat /\ MaxTroubles \in Nat

VARIABLES
    rows,       \* the records of the history
    favorites, pins,
    shared,     \* records with a manual share that is not an event yet
    dangling,   \* records that were stored without the files lock
    disk,       \* the files
    free,       \* pages of the database that deletions left
    limit,      \* the setting
    boot,       \* the first download of a group from the Hub goes on
    holder,     \* who has the files lock
    writer,     \* a capture, synchronization or share between its file and its record
    doomed,     \* files a deletion by the user is about to reclaim
    cleanup,    \* a run of apply_retention
    spent       \* inserts, moves and troubles so far

historyVars == <<rows, favorites, pins, shared, dangling, disk, free, limit, boot, holder, writer,
                 doomed, cleanup, spent>>

NoWriter == [kind |-> "none", row |-> 0]
NoCleanup == [at |-> "idle", trigger |-> "scheduled", limit |-> 0, quota |-> FALSE]

HistoryInit ==
    /\ rows = {} /\ favorites = {} /\ pins = {} /\ shared = {} /\ dangling = {}
    /\ disk = {} /\ free = 0 /\ limit \in Limits /\ boot = FALSE
    /\ holder = "nobody" /\ writer = NoWriter /\ doomed = {} /\ cleanup = NoCleanup
    /\ spent = [inserts |-> 0, moves |-> 0, troubles |-> 0]

Spend(what, bound) == spent[what] < bound /\ spent' = [spent EXCEPT ![what] = @ + 1]

----------------------------------------------------------------------------
References(records) == {PayloadOf[r] : r \in records} \ {NoPayload}

\* What the data directory takes: a page for a record, one for every file, and the free pages.
Live(records, files) == Cardinality(records) + Cardinality(files)
Usage == Live(rows, disk) + free

\* quota_low_watermark: a fifth stays free.
LowWatermark(bytes) == bytes - (bytes + 4) \div 5

\* Retention and the limit keep these.
Protected == favorites \cup pins \cup shared

\* Mutant: a share that waits is forgotten.
EvictableShared(records) == records \ (favorites \cup pins)

Evictable(records) == records \ Protected

OverLimit == limit > 0 /\ Usage > limit

----------------------------------------------------------------------------
\* Records are written. A new one takes a free page; an equal one is only used again.
Insert(r) ==
    /\ rows' = rows \cup {r}
    /\ free' = IF r \in rows \/ free = 0 THEN free ELSE free - 1

\* Text needs no file.
InsertText(r) ==
    /\ PayloadOf[r] = NoPayload /\ Spend("inserts", MaxInserts) /\ Insert(r)
    /\ shared' \in {shared, shared \cup {r}}
    /\ UNCHANGED <<favorites, pins, dangling, disk, limit, boot, holder, writer, doomed, cleanup>>

\* Files that the clipboard lists are stored as they are: their paths, without the lock, may lead
\* into the application's own directory, and what is there may be gone.
InsertPaths(r) ==
    /\ PayloadOf[r] \notin Pictures \cup {NoPayload} /\ Spend("moves", MaxMoves) /\ Insert(r)
    /\ dangling' = IF r \in rows THEN dangling ELSE dangling \cup {r}
    /\ UNCHANGED <<favorites, pins, shared, disk, limit, boot, holder, writer, doomed, cleanup>>

\* Mutant: the file is written before the lock is asked for.
StoreFileUnlocked(kind, r) ==
    /\ PayloadOf[r] # NoPayload /\ writer = NoWriter /\ Spend("inserts", MaxInserts)
    /\ disk' = disk \cup {PayloadOf[r]} /\ writer' = [kind |-> kind, row |-> r]
    /\ UNCHANGED <<rows, favorites, pins, shared, dangling, free, limit, boot, holder, doomed, cleanup>>

\* An image is captured, a received item decrypted or an attachment imported, under the lock.
StoreFile(kind, r) ==
    /\ PayloadOf[r] # NoPayload /\ writer = NoWriter /\ holder = "nobody" /\ Spend("inserts", MaxInserts)
    /\ holder' = "writer"
    /\ disk' = disk \cup {PayloadOf[r]} /\ writer' = [kind |-> kind, row |-> r]
    /\ UNCHANGED <<rows, favorites, pins, shared, dangling, free, limit, boot, doomed, cleanup>>

Unlock == holder' = IF holder = "writer" THEN "nobody" ELSE holder

StoreRecord ==
    /\ writer # NoWriter /\ Insert(writer.row)
    /\ shared' = IF writer.kind = "share" THEN shared \cup {writer.row} ELSE shared
    /\ dangling' = IF writer.row \in rows THEN dangling ELSE dangling \ {writer.row}
    /\ writer' = NoWriter /\ Unlock
    /\ UNCHANGED <<favorites, pins, disk, limit, boot, doomed, cleanup, spent>>

\* The application's own write, a resampled image or an error: the file is left to the next cleanup.
\* A share that fails takes its attachments along.
NoRecord ==
    /\ writer # NoWriter /\ writer' = NoWriter /\ Unlock
    /\ disk' = IF writer.kind = "share" THEN disk \ ((Payload \ Pictures) \ References(rows)) ELSE disk
    /\ UNCHANGED <<rows, favorites, pins, shared, dangling, free, limit, boot, doomed, cleanup, spent>>

\* The user marks a record.
ToggleFavorite(r) ==
    /\ r \in rows /\ Spend("moves", MaxMoves)
    /\ favorites' = SymDiff(favorites, {r})
    /\ UNCHANGED <<rows, pins, shared, dangling, disk, free, limit, boot, holder, writer, doomed, cleanup>>

TogglePinned(r) ==
    /\ r \in rows /\ Spend("moves", MaxMoves)
    /\ pins' = SymDiff(pins, {r})
    /\ UNCHANGED <<rows, favorites, shared, dangling, disk, free, limit, boot, holder, writer, doomed, cleanup>>

\* A note makes the record a favourite, if the settings say so.
Annotate(r) ==
    /\ r \in rows /\ Spend("moves", MaxMoves)
    /\ favorites' = favorites \cup {r}
    /\ UNCHANGED <<rows, pins, shared, dangling, disk, free, limit, boot, holder, writer, doomed, cleanup>>

\* The share becomes an event.
ShareSent(r) ==
    /\ r \in shared /\ shared' = shared \ {r}
    /\ UNCHANGED <<rows, favorites, pins, dangling, disk, free, limit, boot, holder, writer, doomed, cleanup, spent>>

----------------------------------------------------------------------------
\* Mutant: the marks of a deleted record stay.
DropRowsOnly(records) ==
    /\ rows' = rows \ records /\ free' = free + Cardinality(records)
    /\ favorites' = favorites /\ pins' = pins /\ shared' = shared \ records /\ dangling' = dangling \ records

\* Rows go, in one transaction, with what belongs to them; their pages stay.
Drop(records) ==
    /\ rows' = rows \ records /\ free' = free + Cardinality(records)
    /\ favorites' = favorites \ records /\ pins' = pins \ records
    /\ shared' = shared \ records /\ dangling' = dangling \ records

\* The user deletes a record or clears the history.
DeleteRecords(records) ==
    /\ holder = "nobody" /\ records # {} /\ records \subseteq rows /\ Drop(records)
    /\ holder' = "deletion" /\ doomed' = References(records) \cap Pictures
    /\ UNCHANGED <<disk, limit, boot, writer, cleanup, spent>>

Clear(keepFavorites, keepPinned) ==
    DeleteRecords(rows \ ((IF keepFavorites THEN favorites ELSE {}) \cup (IF keepPinned THEN pins ELSE {})))

CleanCache ==
    /\ holder = "nobody" /\ Spend("moves", MaxMoves)
    /\ holder' = "deletion" /\ doomed' = Pictures
    /\ UNCHANGED <<rows, favorites, pins, shared, dangling, disk, free, limit, boot, writer, cleanup>>

\* Files to reclaim: of these images, and of all attachments, what no record refers to.
Unreferenced(pictures) == (pictures \cup (Payload \ Pictures)) \ References(rows)

Reclaim ==
    /\ holder = "deletion" /\ disk' = disk \ Unreferenced(doomed)
    /\ holder' = "nobody" /\ doomed' = {}
    /\ UNCHANGED <<rows, favorites, pins, shared, dangling, free, limit, boot, writer, cleanup, spent>>

----------------------------------------------------------------------------
\* A cleanup has every lock of synchronization and that of the files. While the first download from
\* the Hub goes on only the cleanup at its end runs.
CleanupBegins(trigger) ==
    /\ holder = "nobody" /\ cleanup.at = "idle"
    /\ trigger = "capacity" => OverLimit
    /\ boot = (trigger = "bootstrap")
    /\ cleanup' = [at |-> IF trigger = "capacity" THEN "reclaiming" ELSE "retaining",
                   trigger |-> trigger, limit |-> limit, quota |-> OverLimit]
    /\ holder' = "cleanup"
    /\ UNCHANGED <<rows, favorites, pins, shared, dangling, disk, free, limit, boot, writer, doomed, spent>>

\* The policies: records created before the cutoff, and those beyond the newest of a number.
BeyondNewest(records, count) == {r \in records : Cardinality({o \in records : o > r}) >= count}

Retain(cutoff, count) ==
    /\ cleanup.at = "retaining"
    /\ LET young == {r \in Evictable(rows) : r >= cutoff}
       IN Drop((Evictable(rows) \ young) \cup (IF count = 0 THEN {} ELSE BeyondNewest(young, count)))
    /\ cleanup' = [cleanup EXCEPT !.at = "reclaiming"]
    /\ UNCHANGED <<disk, limit, boot, holder, writer, doomed, spent>>

\* Every file that no record refers to goes, whatever left it.
ReclaimOrphans ==
    /\ cleanup.at \in {"reclaiming", "evicted"}
    /\ disk' = disk \ Unreferenced(Pictures)
    /\ cleanup' = [cleanup EXCEPT !.at = IF @ = "evicted" THEN "weighing" ELSE "measuring"]
    /\ UNCHANGED <<rows, favorites, pins, shared, dangling, free, limit, boot, holder, writer, doomed, spent>>

\* The end of a run; that of the first download ends the download.
EndCleanup == cleanup' = NoCleanup /\ holder' = "nobody"

Succeed == EndCleanup /\ boot' = (boot /\ cleanup.trigger # "bootstrap")

Target == LowWatermark(cleanup.limit)

Measure ==
    /\ cleanup.at = "measuring"
    /\ IF cleanup.quota /\ Usage > Target
       THEN cleanup' = [cleanup EXCEPT !.at = "weighing"] /\ UNCHANGED <<boot, holder>>
       ELSE Succeed
    /\ UNCHANGED <<rows, favorites, pins, shared, dangling, disk, free, limit, writer, doomed, spent>>

\* Free pages are discounted.
CompactedUsage == Usage - free

\* The database is rewritten once its free pages suffice.
Weigh ==
    /\ cleanup.at = "weighing"
    /\ free' = IF Usage > Target /\ CompactedUsage =< Target THEN 0 ELSE free
    /\ IF CompactedUsage > Target /\ limit = cleanup.limit
       THEN cleanup' = [cleanup EXCEPT !.at = "evicting"] /\ UNCHANGED <<boot, holder>>
       ELSE Succeed
    /\ UNCHANGED <<rows, favorites, pins, shared, dangling, disk, limit, writer, doomed, spent>>

\* A batch of the oldest records that make up for the excess, each counted as one. Attachments have no
\* size: a record with some ends the batch.
Sized(r) == PayloadOf[r] \in Pictures \cup {NoPayload}

Oldest(excess) ==
    {r \in Evictable(rows) :
        LET older == {o \in Evictable(rows) : o < r}
        IN Cardinality(older) < excess /\ \A o \in older : Sized(o)}

\* A batch of the oldest goes, or nothing is left to go and the database is rewritten.
Evict ==
    /\ cleanup.at = "evicting"
    /\ IF Evictable(rows) # {}
       THEN /\ Drop(Oldest(CompactedUsage - Target))
            /\ cleanup' = [cleanup EXCEPT !.at = "evicted"] /\ UNCHANGED <<boot, holder>>
       ELSE /\ free' = 0 /\ Succeed
            /\ UNCHANGED <<rows, favorites, pins, shared, dangling>>
    /\ UNCHANGED <<disk, limit, writer, doomed, spent>>

\* The log of the database cannot be written back, or another step fails: the next run goes on.
CleanupFails ==
    /\ cleanup.at # "idle" /\ Spend("troubles", MaxTroubles) /\ EndCleanup
    /\ UNCHANGED <<rows, favorites, pins, shared, dangling, disk, free, limit, boot, writer, doomed>>

----------------------------------------------------------------------------
SetLimit(bytes) ==
    /\ bytes # limit /\ Spend("moves", MaxMoves) /\ limit' = bytes
    /\ UNCHANGED <<rows, favorites, pins, shared, dangling, disk, free, boot, holder, writer, doomed, cleanup>>

\* The client joins a group with a history on the Hub, or leaves it before it has it.
Bootstrap(to) ==
    /\ boot # to /\ cleanup.at = "idle" /\ boot' = to
    /\ to => spent.moves < MaxMoves
    /\ spent' = IF to THEN [spent EXCEPT !.moves = @ + 1] ELSE spent
    /\ UNCHANGED <<rows, favorites, pins, shared, dangling, disk, free, limit, holder, writer, doomed, cleanup>>

\* The process dies; what is not stored is gone.
HistoryCrash ==
    /\ Spend("troubles", MaxTroubles)
    /\ holder' = "nobody" /\ writer' = NoWriter /\ doomed' = {} /\ cleanup' = NoCleanup
    /\ UNCHANGED <<rows, favorites, pins, shared, dangling, disk, free, limit, boot>>

CleanupStep ==
    \/ \E trigger \in Trigger : CleanupBegins(trigger)
    \/ \E cutoff \in Record \cup {0}, count \in 0 .. 2 : Retain(cutoff, count)
    \/ ReclaimOrphans \/ Measure \/ Weigh \/ Evict

UserTurn ==
    \/ \E r \in rows : ToggleFavorite(r) \/ TogglePinned(r) \/ Annotate(r) \/ DeleteRecords({r})
    \/ \E keepFavorites, keepPinned \in BOOLEAN : Clear(keepFavorites, keepPinned)
    \/ CleanCache
    \/ \E bytes \in Limits : SetLimit(bytes)

HistoryNext ==
    \/ \E r \in Record : \/ InsertText(r) \/ InsertPaths(r)
                         \/ \E kind \in {"capture", "receive", "share"} : StoreFile(kind, r)
    \/ StoreRecord \/ NoRecord
    \/ \E r \in shared : ShareSent(r)
    \/ UserTurn \/ Reclaim \/ CleanupStep \/ CleanupFails
    \/ \E to \in BOOLEAN : Bootstrap(to)
    \/ HistoryCrash

----------------------------------------------------------------------------
\* The file of a record is there as long as the record is, however the steps of captures, deletions
\* and cleanups mix; records made of paths are excepted.
PayloadsSurvive == References(rows \ dangling) \subseteq disk

\* A cleanup takes no record that is protected at that moment; the limit takes the oldest first, and
\* only while what is really used is above the low watermark.
EvictsOldest ==
    cleanup.at # "idle" /\ rows \ rows' # {} =>
        /\ (rows \ rows') \cap (favorites \cup pins \cup shared) = {}
        /\ cleanup.at = "evicting" =>
              /\ \A r \in rows \ rows', o \in Evictable(rows) \cap rows' : r < o
              /\ Live(rows, disk) > Target

\* Whatever the limit is set to, the data comes below it or nothing is left that may go, unless the
\* first download from the Hub is never finished.
WithinLimit == ~OverLimit \/ Evictable(rows) = {} \/ boot

HistoryTypeOK ==
    /\ favorites \cup pins \cup shared \cup dangling \subseteq rows /\ rows \subseteq Record
    /\ disk \cup doomed \subseteq Payload /\ free \in Nat /\ limit \in Limits /\ boot \in BOOLEAN
    /\ holder = "writer" => writer # NoWriter
    /\ holder = "cleanup" <=> cleanup.at # "idle"
    /\ cleanup.at \in {"idle", "retaining", "reclaiming", "measuring", "weighing", "evicting", "evicted"}
=============================================================================
