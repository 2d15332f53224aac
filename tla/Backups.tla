------------------------------ MODULE Backups -------------------------------
(***************************************************************************)
(* A backup is written, carried to another computer, and merged into the   *)
(* history there while that goes on (backup/mod.rs,                        *)
(* clipboard/shared_files.rs).  Records of files name attachments of the   *)
(* application by a reference; older versions named them by the absolute   *)
(* path of the day, and a received file keeps the identity its sender gave *)
(* it.  The merge has to recognize what is already there in any of these   *)
(* forms.  (Moving the data and replacing it by a backup: Storage.)        *)
(***************************************************************************)
EXTENDS Integers, FiniteSets, Sequences, SequencesExt

CONSTANTS Note,         \* contents that are text
          Attachment,   \* contents that are a file the application may own
          Root,         \* resource directories of the past, here and elsewhere
          Received,     \* events of other devices that bring a file: each has a directory of its own
          SentKey,      \* the identity of the record each of them is of
          OldArchive,   \* backups brought from elsewhere
          MaxBackupSteps, \* bound: captures, deletions, receipts
          MaxBackups,   \* bound: exports, backups brought and imports
          MaxBackupFaults \* bound: failures and crashes

(* A path is where the file lies and what it is called: a shared file goes *)
(* by its content, a received one has the directory of its event.  A       *)
(* reference holds wherever the resources are; a Root of the day went      *)
(* before it.  Outside is a file where the user has it.                    *)
Name == {"file"} \cup Received
Outside == <<"user", "file">>
Shared == <<"resource", "file">>
Reference == {"resource"} \X Name
Path == Reference \cup (Root \X Name) \cup {Outside}

RowOf(c, key, path) == [content |-> c, key |-> key, path |-> path]
Row == [content : Note \cup Attachment, key : (Note \cup Attachment) \X Path, path : Path]

\* The identity of a record is the hash of its path when it was copied, here or at the sender of a
\* received file. A path of the day became a reference since; a user's file stays where it is.
CopiedAs(path) ==
  CASE path = Outside -> {Outside} [] path = Shared -> {Shared} \cup (Root \X {"file"}) [] OTHER -> Root \X {"file"}

RowFits(r) ==
  /\ r.key[1] = r.content
  /\ IF r.path[2] \in Received THEN r.key = SentKey[r.path[2]] ELSE r.key[2] \in CopiedAs(r.path)
  /\ r.content \in Note => r.path = Shared

\* content_hash: files are recognized by the paths of the record, today's or what they become.
HashOf(r) == <<r.content, r.path>>
Settled(r) == <<r.content, IF r.path = Outside THEN Outside ELSE <<"resource", r.path[2]>>>>

ASSUME BackupAssumption ==
  /\ "here" \in Root /\ Root \cap {"resource", "user"} = {}
  /\ "file" \notin Received /\ Note \cap Attachment = {}
  /\ SentKey \in [Received -> Attachment \X {path \in Path : path[2] = "file"}]
  /\ MaxBackupSteps \in Nat /\ MaxBackups \in Nat /\ MaxBackupFaults \in Nat
  /\ \A a \in OldArchive :
       /\ a.root \in Root \cup {"unknown"} /\ a.encrypted \in BOOLEAN /\ a.whole
       /\ a.rows \in Seq(Row) /\ a.files \subseteq Attachment \X Reference
       \* The exporting computer held its files lock: attachments are there, and
       \* a backup that names its root uses no other.
       /\ \A i \in 1..Len(a.rows) :
            /\ RowFits(a.rows[i])
            /\ a.rows[i].content \in Attachment /\ a.rows[i].path # Outside => Settled(a.rows[i]) \in a.files
            /\ a.rows[i].path[1] \in Root => a.root \in {"unknown", a.rows[i].path[1]}

VARIABLES rows,        \* clipboard_items, as they were inserted
          attached,    \* the attachments in the resources directory
          resLock,     \* who holds the files lock
          archive,     \* the backup file the user exports to and imports from
          packing,     \* the export that runs
          incoming,    \* the import that runs
          merged,      \* history: the rows the last merge took, and whether it ended well
          taken,       \* history: keys and hashes of rows deleted since
          backupTally

backupVars == <<rows, attached, resLock, archive, packing, incoming, merged, taken, backupTally>>

NoArchive == [there |-> FALSE, whole |-> TRUE, brought |-> FALSE, encrypted |-> FALSE, root |-> "unknown",
              rows |-> <<>>, files |-> {}]
NoPacking == [at |-> "idle", encrypted |-> FALSE, rows |-> <<>>, files |-> {}]
NoMerging == [at |-> "idle", rows |-> <<>>, files |-> {}, root |-> "unknown"]
NoMerge == [ok |-> FALSE, rows |-> <<>>]

BackupsInit ==
  /\ rows = <<>> /\ attached = {}
  /\ resLock = "nobody"
  /\ archive = NoArchive
  /\ packing = NoPacking /\ incoming = NoMerging
  /\ merged = NoMerge /\ taken = {}
  /\ backupTally = [steps |-> 0, backups |-> 0, faults |-> 0]

Tallied(what, bound) ==
  backupTally[what] < bound /\ backupTally' = [backupTally EXCEPT ![what] = @ + 1]

-----------------------------------------------------------------------------
(* Records.                                                                *)

RowsOf(s) == {s[i] : i \in 1..Len(s)}

HasHash(s, h) == \E r \in RowsOf(s) : HashOf(r) = h
HasKey(s, k) == \E r \in RowsOf(s) : r.key = k

\* A copy made here (upsert_item_with_sync_outbox): only the hash is looked for, and a new record
\* gets it as its key, which a received record may have already.
WithCopy(c, path) ==
  IF HasHash(rows, <<c, path>>) THEN rows ELSE Append(rows, RowOf(c, <<c, path>>, path))

CopyNote(c) ==
  /\ Tallied("steps", MaxBackupSteps)
  /\ rows' = WithCopy(c, Shared)
  /\ UNCHANGED <<attached, resLock, archive, packing, incoming, merged, taken>>

\* A file of the user's is copied: the record names it where it is, and nothing is stored.
CopyOutside(c) ==
  /\ Tallied("steps", MaxBackupSteps)
  /\ rows' = WithCopy(c, Outside)
  /\ UNCHANGED <<attached, resLock, archive, packing, incoming, merged, taken>>

\* An attachment is stored with its record, under the files lock.
CopyAttachment(c) ==
  /\ Tallied("steps", MaxBackupSteps)
  /\ resLock = "nobody"
  /\ rows' = WithCopy(c, Shared) /\ attached' = attached \cup {<<c, Shared>>}
  /\ UNCHANGED <<resLock, archive, packing, incoming, merged, taken>>

\* Another device's file arrives: the record keeps the key it has there, the hash of a reference, of
\* a path of the day or of a user's path; only the key is looked for (upsert_synced_item). The file
\* of a key that is there is stored too, and reclaimed.
ReceiveFile(e) ==
  /\ Tallied("steps", MaxBackupSteps)
  /\ resLock = "nobody"
  /\ rows' = IF HasKey(rows, SentKey[e]) THEN rows
             ELSE Append(rows, RowOf(SentKey[e][1], SentKey[e], <<"resource", e>>))
  /\ attached' = attached \cup {<<SentKey[e][1], <<"resource", e>>>>}
  /\ UNCHANGED <<resLock, archive, packing, incoming, merged, taken>>

\* cleanup_resources_locked: what no record refers to is removed.
Referred(s) == {HashOf(r) : r \in {x \in RowsOf(s) : x.path \in Reference /\ x.content \in Attachment}}

RemoveRow(i) ==
  /\ Tallied("steps", MaxBackupSteps)
  /\ resLock = "nobody"
  /\ rows' = RemoveAt(rows, i)
  /\ attached' = attached \cap Referred(rows')
  /\ taken' = taken \cup {rows[i].key, HashOf(rows[i])}
  /\ UNCHANGED <<resLock, archive, packing, incoming, merged>>

Reclaim ==
  /\ resLock = "nobody" /\ attached # attached \cap Referred(rows)
  /\ attached' = attached \cap Referred(rows)
  /\ UNCHANGED <<rows, resLock, archive, packing, incoming, merged, taken, backupTally>>

-----------------------------------------------------------------------------
(* References (ReferenceMigration).                                        *)

\* rewrite: an absolute path under the named root, or under any when none is
\* named, becomes a reference if the attachment is there.
Rewritten(r, root, files) ==
  IF r.path[1] \in Root /\ root \in {"unknown", r.path[1]} /\ Settled(r) \in files
  THEN Settled(r)[2] ELSE r.path

\* apply, at the start: paths change, keys stay.
Migrated(s, files) == [i \in 1..Len(s) |-> [s[i] EXCEPT !.path = Rewritten(s[i], "unknown", files)]]

-----------------------------------------------------------------------------
(* The export (export_history_backup, write_container).                    *)

BeginPacking(encrypted) ==
  /\ packing.at = "idle" /\ resLock = "nobody"
  /\ Tallied("backups", MaxBackups)
  /\ resLock' = "export"
  /\ packing' = [NoPacking EXCEPT !.at = "packing", !.encrypted = encrypted]
  /\ UNCHANGED <<rows, attached, archive, incoming, merged, taken>>

\* The database and the resources are put into a temporary file.
PackPayload ==
  /\ packing.at = "packing"
  /\ packing' = [packing EXCEPT !.at = "packed", !.rows = rows, !.files = attached]
  /\ UNCHANGED <<rows, attached, resLock, archive, incoming, merged, taken, backupTally>>

\* The container is written to a temporary file beside the target.
OpenedTemporary == archive

WriteContainer ==
  /\ packing.at = "packed"
  /\ packing' = [packing EXCEPT !.at = "written"]
  /\ archive' = OpenedTemporary
  /\ UNCHANGED <<rows, attached, resLock, incoming, merged, taken, backupTally>>

\* Flushed, synced and renamed over the target.
PersistContainer ==
  /\ packing.at = "written"
  /\ archive' = [NoArchive EXCEPT !.there = TRUE, !.root = "here", !.encrypted = packing.encrypted,
                                !.rows = packing.rows, !.files = packing.files]
  /\ packing' = NoPacking
  /\ resLock' = "nobody"
  /\ UNCHANGED <<rows, attached, incoming, merged, taken, backupTally>>

PackingFails ==
  /\ Tallied("faults", MaxBackupFaults)
  /\ packing.at # "idle"
  /\ packing' = NoPacking
  /\ resLock' = "nobody"
  /\ UNCHANGED <<rows, attached, archive, incoming, merged, taken>>

\* The user brings a backup from another computer, all of it or a part.
BringArchive(a, whole) ==
  /\ Tallied("backups", MaxBackups)
  /\ archive' = [there |-> TRUE, whole |-> whole, brought |-> TRUE,
                 encrypted |-> a.encrypted, root |-> a.root, rows |-> a.rows, files |-> a.files]
  /\ UNCHANGED <<rows, attached, resLock, packing, incoming, merged, taken>>

-----------------------------------------------------------------------------
(* The import (import_history_backup, merge_import).                       *)

\* The header and the password are looked at, and the payload is decrypted and
\* unpacked into a directory of its own: a part of a backup or a wrong password
\* ends the import here.
Opens(password) == archive.there /\ archive.whole /\ (archive.encrypted <=> password)

PrepareImport(password) ==
  /\ incoming.at = "idle" /\ Opens(password)
  /\ Tallied("backups", MaxBackups)
  /\ incoming' = [at |-> "prepared", rows |-> archive.rows, files |-> archive.files, root |-> archive.root]
  /\ merged' = NoMerge /\ taken' = {}
  /\ UNCHANGED <<rows, attached, resLock, archive, packing>>

HoldsFiles == resLock = "nobody" /\ resLock' = "import"

\* copy_dir_missing: attachments that are there are left alone.
CopyMissing ==
  /\ incoming.at = "prepared"
  /\ HoldsFiles
  /\ attached' = attached \cup incoming.files
  /\ incoming' = [incoming EXCEPT !.at = "copied"]
  /\ UNCHANGED <<rows, archive, packing, merged, taken, backupTally>>

\* The same identity, or the same content.
Duplicate(s, r) == HasKey(s, r.key) \/ HasHash(s, HashOf(r))

\* merge_items: row by row, what was just inserted is seen.
Imported(r) == [r EXCEPT !.path = Rewritten(r, incoming.root, attached)]
WithRow(s, r) == IF Duplicate(s, Imported(r)) THEN s ELSE Append(s, Imported(r))

RowsAfter[n \in 0..Len(incoming.rows)] ==
  IF n = 0 THEN rows ELSE WithRow(RowsAfter[n - 1], incoming.rows[n])

MergedRows == RowsAfter[Len(incoming.rows)]

\* One transaction, which fails if it was overtaken (ImportBreaks).
MergeHistory ==
  /\ incoming.at = "copied"
  /\ rows' = MergedRows
  /\ incoming' = [incoming EXCEPT !.at = "merged"]
  /\ UNCHANGED <<attached, resLock, archive, packing, merged, taken, backupTally>>

LetsGo == resLock' = IF resLock = "import" THEN "nobody" ELSE resLock

\* The settings of the backup are merged too, and the import has ended well.
EndImport ==
  /\ incoming.at = "merged"
  /\ merged' = [ok |-> TRUE, rows |-> incoming.rows]
  /\ incoming' = NoMerging
  /\ LetsGo
  /\ UNCHANGED <<rows, attached, archive, packing, taken, backupTally>>

\* An error in any step: what the steps before it did stays.
ImportBreaks ==
  /\ Tallied("faults", MaxBackupFaults)
  /\ incoming.at # "idle"
  /\ incoming' = NoMerging
  /\ LetsGo
  /\ UNCHANGED <<rows, attached, archive, packing, merged, taken>>

\* The application stops, and starts by migrating the references.
RestartApplication ==
  /\ Tallied("faults", MaxBackupFaults)
  /\ packing' = NoPacking /\ incoming' = NoMerging /\ resLock' = "nobody"
  /\ rows' = Migrated(rows, attached)
  /\ UNCHANGED <<attached, archive, merged, taken>>

BackupsNext ==
  \/ \E c \in Note : CopyNote(c)
  \/ \E c \in Attachment : CopyAttachment(c) \/ CopyOutside(c)
  \/ \E e \in Received : ReceiveFile(e)
  \/ \E i \in 1..Len(rows) : RemoveRow(i)
  \/ Reclaim
  \/ \E encrypted \in BOOLEAN : BeginPacking(encrypted)
  \/ PackPayload \/ WriteContainer \/ PersistContainer \/ PackingFails
  \/ \E a \in OldArchive, whole \in BOOLEAN : BringArchive(a, whole)
  \/ \E password \in BOOLEAN : PrepareImport(password)
  \/ CopyMissing \/ MergeHistory \/ EndImport \/ ImportBreaks
  \/ RestartApplication

-----------------------------------------------------------------------------
BackupsTypeOK ==
  /\ \A r \in RowsOf(rows) : r.content \in Note \cup Attachment /\ r.path \in Path
  /\ attached \subseteq Attachment \X Reference
  /\ resLock \in {"nobody", "export", "import"}
  /\ packing.at \in {"idle", "packing", "packed", "written"}
  /\ incoming.at \in {"idle", "prepared", "copied", "merged"}
  /\ archive.whole \in BOOLEAN

\* A copy was made here of what had been received under the same identity.
CopiedAnyway(r, q) == r.path[2] \in Received /\ q.path[2] \notin Received /\ HashOf(q) = q.key

\* However often a backup of this computer or another is merged, whichever
\* version wrote it, a content is in the history once under each name it has,
\* and an identity once: a merge and a receipt know it whatever name it has
\* here. A copy looks for its hash alone, so that one copy may join what was
\* received; there is never a third.
OneOfEach ==
  \A i, j \in 1..Len(rows) : i < j =>
    /\ HashOf(rows[i]) # HashOf(rows[j])
    /\ rows[i].key = rows[j].key => CopiedAnyway(rows[i], rows[j])

\* A record that refers to an attachment has it, although the merge copies
\* the attachments before it has the records and the cleanup runs meanwhile.
AttachmentsThere == Referred(rows) \subseteq attached

\* After a merge that ended well every row of the backup is in the history,
\* unless the user deleted it since.
MergedAll ==
  merged.ok =>
    \A r \in RowsOf(merged.rows) :
      \/ HasKey(rows, r.key) \/ HasHash(rows, Settled(r))
      \/ {r.key, Settled(r)} \cap taken # {}

\* An export that fails or is killed leaves the last backup as it was: the file
\* is whole unless the user brought a part of one.
BackupUsable == archive.whole \/ archive.brought

BackupsSound == OneOfEach /\ AttachmentsThere /\ MergedAll /\ BackupUsable
=============================================================================
