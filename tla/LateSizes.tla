------------------------------ MODULE LateSizes ------------------------------
(* The sizes of copied folders, which are counted in the background after the record is shown          *)
(* (clipboard/ingest.rs, clipboard/watcher.rs), while the files change, the record is copied again or   *)
(* deleted, and its upload counts and packs the same files (sync/manager.rs). At most two walks run.   *)
EXTENDS Naturals, FiniteSets

CONSTANTS
    Folder,         \* records of copied folders,
    Unsized,        \* SUBSET Folder: those an earlier version left without a size
    SizeLimit,      \* auto_upload_max_mb; a folder grows by one with every change
    Permits,        \* of calculate_current_file_item_size
    LateTask,       \* the tasks of the copies of one record: as many of its walks can be under way
    MaxFolderSteps, \* bounds: copies, deletions and changes of the files,
    MaxSizeFaults   \* failures and restarts

ASSUME SizeAssumption ==
    /\ Unsized \subseteq Folder /\ SizeLimit \in Nat /\ Permits \in Nat \ {0}
    /\ {"backfill", "upload"} \cap LateTask = {}

\* Who counts: the task of a copy, the backfill of the start, and the upload.
SizeTask == LateTask \cup {"backfill", "upload"}

VARIABLES
    grown,          \* what the files of a folder come to: never less than before
    records,        \* clipboard_items: the revision (0 without a record), the size (0 is NULL),
                    \* and what the files came to when it was copied
    showing,        \* the size the list shows
    walks,          \* the tasks, by kind and record
    missing,        \* the records the backfill found, in a set: NotLoaded before
    toSend,         \* sync_content_outbox: the revision to send, 0 without
    uploaded,       \* the last event of each record
    tooLarge,       \* sync_pending_items
    givenUp,        \* history: records whose walk failed since the start
    sizeTally       \* history: the numbers of steps taken against the bounds

sizeVars == <<grown, records, showing, walks, missing, toSend, uploaded, tooLarge, givenUp, sizeTally>>

NoWalk == [at |-> "none", rev |-> 0, sum |-> 0]
NoFolderRecord == [rev |-> 0, size |-> 0, since |-> 0]
NotLoaded == [loaded |-> FALSE, left |-> {}]

SizeTypeOK ==
    /\ \A f \in Folder : grown[f] \in Nat \ {0} /\ records[f].rev \in Nat /\ records[f].size \in 0..grown[f]
                         /\ showing[f] \in 0..grown[f] /\ toSend[f] \in Nat
    /\ \A k \in SizeTask, f \in Folder : walks[k][f].at \in {"none", "waiting", "walking", "counted", "packed"}
    /\ missing.left \subseteq Folder /\ tooLarge \subseteq Folder

SizeInit ==
    /\ grown = [f \in Folder |-> 1]
    /\ records = [f \in Folder |-> IF f \in Unsized THEN [rev |-> 1, size |-> 0, since |-> 1] ELSE NoFolderRecord]
    /\ showing = [f \in Folder |-> 0]
    /\ walks = [k \in SizeTask |-> [f \in Folder |-> NoWalk]]
    /\ missing = NotLoaded
    /\ toSend = [f \in Folder |-> 0]
    /\ uploaded = [f \in Folder |-> [rev |-> 0, size |-> 0]]
    /\ tooLarge = {} /\ givenUp = {}
    /\ sizeTally = [steps |-> 0, faults |-> 0, revs |-> 1]

EditRecord == sizeTally.steps < MaxFolderSteps
Edited == sizeTally' = [sizeTally EXCEPT !.steps = @ + 1]

FilesGrow(f) ==
    /\ EditRecord /\ Edited
    /\ grown' = [grown EXCEPT ![f] = @ + 1]
    /\ UNCHANGED <<records, showing, walks, missing, toSend, uploaded, tooLarge, givenUp>>

\* inspect_file_payload leaves the size of a folder open; the record is shown, staged, and counted by
\* a task of its own, with the revision of this copy, while those of earlier copies go on.
CopyFolder(f, staged) ==
    /\ EditRecord
    /\ \E k \in LateTask : walks[k][f] = NoWalk
    /\ LET rev == sizeTally.revs + 1
           k == CHOOSE j \in LateTask : walks[j][f] = NoWalk
       IN  /\ sizeTally' = [sizeTally EXCEPT !.steps = @ + 1, !.revs = rev]
           /\ records' = [records EXCEPT ![f] = [rev |-> rev, size |-> 0, since |-> grown[f]]]
           /\ walks' = [walks EXCEPT ![k][f] = [at |-> "waiting", rev |-> rev, sum |-> 0]]
           /\ toSend' = IF staged THEN [toSend EXCEPT ![f] = rev] ELSE toSend
    /\ showing' = [showing EXCEPT ![f] = 0]
    /\ givenUp' = givenUp \ {f}
    /\ UNCHANGED <<grown, missing, uploaded, tooLarge>>

DeleteFolder(f) ==
    /\ EditRecord /\ Edited
    /\ records[f].rev # 0 /\ records' = [records EXCEPT ![f] = NoFolderRecord]
    /\ showing' = [showing EXCEPT ![f] = 0]
    /\ tooLarge' = tooLarge \ {f}
    /\ UNCHANGED <<grown, walks, missing, toSend, uploaded, givenUp>>

-----------------------------------------------------------------------------
(* The walks *)

Walking == {w \in SizeTask \X Folder : walks[w[1]][w[2]].at = "walking"}
Ends(k, f, from) == walks[k][f].at = from /\ walks' = [walks EXCEPT ![k][f] = NoWalk]
Current(k, f) == records[f].rev = walks[k][f].rev

\* A permit is free and the record still has the revision: the directories are walked, and what was
\* there when an entry was met is counted.
BeginWalk(k, f) ==
    /\ walks[k][f].at = "waiting" /\ Cardinality(Walking) < Permits
    /\ walks' = [walks EXCEPT ![k][f].at = IF Current(k, f) THEN "walking" ELSE "counted", ![k][f].sum = 0]
    /\ UNCHANGED <<grown, records, showing, missing, toSend, uploaded, tooLarge, givenUp, sizeTally>>

EndWalk(k, f) ==
    /\ walks[k][f].at = "walking"
    /\ walks' = [walks EXCEPT ![k][f].at = "counted", ![k][f].sum = grown[f]]
    /\ UNCHANGED <<grown, records, showing, missing, toSend, uploaded, tooLarge, givenUp, sizeTally>>

\* The revision is looked at every 250 ms, and a walk for another is cancelled.
CancelWalk(k, f) ==
    /\ ~Current(k, f) /\ walks[k][f].at = "walking"
    /\ walks' = [walks EXCEPT ![k][f].at = "counted"]
    /\ UNCHANGED <<grown, records, showing, missing, toSend, uploaded, tooLarge, givenUp, sizeTally>>

\* fill_file_item_size: the same revision, and still no size.
Fills(f, rev) == records[f].rev = rev /\ records[f].size = 0

Filled(k, f) ==
    LET fills == walks[k][f].sum # 0 /\ Fills(f, walks[k][f].rev)
    IN  records' = IF fills THEN [records EXCEPT ![f].size = walks[k][f].sum] ELSE records

\* resolve_file_size_and_enqueue: the list is told of what was filled in.
FillLate(k, f) ==
    /\ Ends(k, f, "counted")
    /\ Filled(k, f)
    /\ showing' = [showing EXCEPT ![f] = records'[f].size]
    /\ UNCHANGED <<grown, missing, toSend, uploaded, tooLarge, givenUp, sizeTally>>

\* Mutant: the list is told when none was left before the last record.
BackfillTellsNobody(f) ==
    /\ missing' = [missing EXCEPT !.left = @ \ {f}]
    /\ showing' = IF missing.left = {} THEN [o \in Folder |-> records'[o].size] ELSE showing

\* The list is told once, in the end.
BackfillGoesOn(f) ==
    /\ missing' = [missing EXCEPT !.left = @ \ {f}]
    /\ showing' = IF missing'.left = {} THEN [o \in Folder |-> records'[o].size] ELSE showing

\* A path that is gone or cannot be read.
WalkFails(k, f) ==
    /\ sizeTally.faults < MaxSizeFaults /\ sizeTally' = [sizeTally EXCEPT !.faults = @ + 1]
    /\ Ends(k, f, "walking")
    /\ givenUp' = IF Current(k, f) THEN givenUp \cup {f} ELSE givenUp
    /\ records' = records
    /\ IF k = "backfill" THEN BackfillGoesOn(f) ELSE UNCHANGED <<missing, showing>>
    /\ UNCHANGED <<grown, toSend, uploaded, tooLarge>>

-----------------------------------------------------------------------------
(* The backfill of the start *)

LoadMissing ==
    /\ ~missing.loaded
    /\ missing' = [loaded |-> TRUE, left |-> {f \in Folder : records[f].rev # 0 /\ records[f].size = 0}]
    /\ walks' = [walks EXCEPT !["backfill"] =
            [f \in Folder |-> IF f \in missing'.left THEN [NoWalk EXCEPT !.rev = records[f].rev] ELSE NoWalk]]
    /\ UNCHANGED <<grown, records, showing, toSend, uploaded, tooLarge, givenUp, sizeTally>>

\* One record after the other.
NextMissing(f) ==
    /\ f \in missing.left /\ \A o \in Folder : walks["backfill"][o].at = "none"
    /\ walks' = [walks EXCEPT !["backfill"][f].at = "waiting"]
    /\ UNCHANGED <<grown, records, showing, missing, toSend, uploaded, tooLarge, givenUp, sizeTally>>

FillMissing(f) ==
    /\ Ends("backfill", f, "counted")
    /\ Filled("backfill", f)
    /\ BackfillGoesOn(f)
    /\ UNCHANGED <<grown, toSend, uploaded, tooLarge, givenUp, sizeTally>>

-----------------------------------------------------------------------------
(* The upload *)

BeginUpload(f) ==
    /\ toSend[f] # 0 /\ \A o \in Folder : walks["upload"][o] = NoWalk
    /\ IF records[f].rev = toSend[f]
       THEN walks' = [walks EXCEPT !["upload"][f] = [NoWalk EXCEPT !.at = "waiting", !.rev = toSend[f]]] /\ UNCHANGED toSend
       ELSE toSend' = [toSend EXCEPT ![f] = 0] /\ UNCHANGED walks
    /\ UNCHANGED <<grown, records, showing, missing, uploaded, tooLarge, givenUp, sizeTally>>

LeaveIt(f) ==
    /\ tooLarge' = tooLarge \cup {f}
    /\ toSend' = [toSend EXCEPT ![f] = IF @ = walks["upload"][f].rev THEN 0 ELSE @]
    /\ walks' = [walks EXCEPT !["upload"][f] = NoWalk]

\* The walk was cancelled, or counted too much: the record waits for the user.
CountedTooMuch(f) ==
    /\ walks["upload"][f].at = "counted"
    /\ walks["upload"][f].sum = 0 \/ walks["upload"][f].sum > SizeLimit
    /\ LeaveIt(f)
    /\ UNCHANGED <<grown, records, showing, missing, uploaded, givenUp, sizeTally>>

\* The files are read again, and may have grown.
Pack(f) ==
    /\ walks["upload"][f].at = "counted" /\ walks["upload"][f].sum \in 1..SizeLimit
    /\ walks' = [walks EXCEPT !["upload"][f].at = "packed", !["upload"][f].sum = grown[f]]
    /\ UNCHANGED <<grown, records, showing, missing, toSend, uploaded, tooLarge, givenUp, sizeTally>>

PackedTooMuch(sum) == sum > SizeLimit

\* What was packed is the size of the record from now on, and the event is stored.
SendPacked(f) ==
    /\ walks["upload"][f].at = "packed"
    /\ LET up == walks["upload"][f]
       IN  IF PackedTooMuch(up.sum)
           THEN LeaveIt(f) /\ UNCHANGED <<records, showing, uploaded>>
           ELSE /\ records' = IF records[f].rev = up.rev THEN [records EXCEPT ![f].size = up.sum] ELSE records
                /\ showing' = [showing EXCEPT ![f] = records'[f].size]
                /\ uploaded' = [uploaded EXCEPT ![f] = [rev |-> up.rev, size |-> up.sum]]
                /\ tooLarge' = tooLarge \ {f}
                /\ toSend' = [toSend EXCEPT ![f] = IF @ = up.rev THEN 0 ELSE @]
                /\ walks' = [walks EXCEPT !["upload"][f] = NoWalk]
    /\ UNCHANGED <<grown, missing, givenUp, sizeTally>>

\* The tasks are gone; the backfill finds what they left.
RestartSizes ==
    /\ sizeTally.faults < MaxSizeFaults /\ sizeTally' = [sizeTally EXCEPT !.faults = @ + 1]
    /\ walks' = [k \in SizeTask |-> [f \in Folder |-> NoWalk]]
    /\ missing' = NotLoaded /\ givenUp' = {}
    /\ showing' = [f \in Folder |-> records[f].size]
    /\ UNCHANGED <<grown, records, toSend, uploaded, tooLarge>>

-----------------------------------------------------------------------------
SizeStep ==
    \/ LoadMissing
    \/ \E f \in Folder :
          \/ NextMissing(f) \/ FillMissing(f) \/ \E k \in LateTask : FillLate(k, f)
          \/ BeginUpload(f) \/ CountedTooMuch(f) \/ Pack(f) \/ SendPacked(f)
          \/ \E k \in SizeTask : BeginWalk(k, f) \/ EndWalk(k, f) \/ CancelWalk(k, f)

SizeNext ==
    \/ SizeStep \/ RestartSizes
    \/ \E f \in Folder :
          \/ FilesGrow(f) \/ DeleteFolder(f) \/ \E staged \in BOOLEAN : CopyFolder(f, staged)
          \/ \E k \in SizeTask : WalkFails(k, f)

-----------------------------------------------------------------------------
(* Properties *)

\* A size was counted after the copy it is shown for, although walks outlive the copy they began for;
\* and no walk that began earlier takes back the size an upload found.
SizesAreOfTheirCopy ==
    \A f \in Folder : records[f].size # 0 =>
        /\ records[f].size >= records[f].since
        /\ records[f].rev = uploaded[f].rev => records[f].size >= uploaded[f].size

\* Nothing above the limit is sent without the user, although folders grow while they are counted and packed.
SentWithinLimit == \A f \in Folder : uploaded[f].size <= SizeLimit

SizesSound == SizesAreOfTheirCopy /\ SentWithinLimit

\* Every record has a size in the end, and the list shows it, unless its files could not be read.
SizesKnown == \A f \in Folder : records[f].rev # 0 /\ f \notin givenUp => records[f].size # 0 /\ showing[f] = records[f].size
=============================================================================
