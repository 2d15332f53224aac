------------------------------ MODULE Storage ------------------------------
(* The data directory: the history with its files, and the preferences (the settings and the        *)
(* positions of the windows), in the default directory or one of the user's, as a manifest says. It *)
(* is moved while the application runs, exported to a backup and imported from one, and the process *)
(* may die at any step. The disk with the user's directory may be unplugged.                        *)
EXTENDS Integers, FiniteSets

CONSTANTS
    Datum,           \* records of the history
    Kept,            \* of them, those with a file of their own
    MaxEdits,        \* bound: changes of the preferences
    MaxJobs,        \* bound: moves, exports and imports
    MaxFaults        \* bound: crashes, errors and unplugged disks

ASSUME StorageAssumption ==
    Kept \subseteq Datum /\ MaxEdits \in Nat /\ MaxJobs \in Nat /\ MaxFaults \in Nat

Dir == {"default", "custom"}

VARIABLES
    dirs,       \* what each directory holds
    manifest,   \* the directory that storage.json names
    pool,       \* where the database is open, or closed
    prefs,      \* SettingsStore: the path it writes to and the values in memory; where ImageStore writes
    reset,      \* a reset of the settings between the file and memory
    lock,       \* who has the files lock
    work,        \* a move, export or import
    backup,     \* the backup file
    saved,      \* the records the user saved
    wanted,     \* the preferences the user last set
    marks,      \* what went wrong that the code cannot make good: see below
    used        \* edits, moves and faults so far

storageVars == <<dirs, manifest, pool, prefs, reset, lock, work, backup, saved, wanted, marks, used>>

\* An empty directory; an identity makes it one of the application's.
Empty == [there |-> TRUE, identity |-> FALSE, whole |-> TRUE, rows |-> {}, files |-> {}, prefs |-> 0]
NoWork == [at |-> "idle", from |-> "default", to |-> "default", prefs |-> 0]
NoBackup == [there |-> FALSE, rows |-> {}, files |-> {}, prefs |-> 0]

StorageInit ==
    /\ dirs = [d \in Dir |-> [Empty EXCEPT !.identity = (d = "default")]]
    /\ manifest = "default" /\ pool = "default"
    /\ prefs = [path |-> "default", value |-> 0, images |-> "default"] /\ reset = FALSE
    /\ lock = "nobody" /\ work = NoWork /\ backup = NoBackup
    /\ saved = {} /\ wanted = 0 /\ marks = {}
    /\ used = [edits |-> 0, moves |-> 0, faults |-> 0]

Use(what, bound) == used[what] < bound /\ used' = [used EXCEPT ![what] = @ + 1]

\* A directory of the user's that is missing or has no identity is given up for the default one.
Leads(d) == IF d = "custom" /\ dirs["custom"].there /\ dirs["custom"].identity THEN "custom" ELSE "default"
Resolved == Leads(manifest)

Idle == work.at = "idle"

\* What is written elsewhere than to the data directory is not found there.
Astray(d) == IF d # manifest THEN {"astray"} ELSE {}
Overlap(met) == IF met THEN {"overlap"} ELSE {}

----------------------------------------------------------------------------
\* Records. The state of the database is held while it is closed: writers wait.
StoreEntry(r) ==
    /\ pool # "closed" /\ dirs[pool].there /\ dirs[pool].whole
    /\ r \in Kept => lock = "nobody" /\ dirs[prefs.images].there
    /\ r \notin saved
    /\ dirs' = [d \in Dir |->
                  [dirs[d] EXCEPT !.rows = IF d = pool THEN @ \cup {r} ELSE @,
                                  !.files = IF d = prefs.images /\ r \in Kept THEN @ \cup {r} ELSE @]]
    /\ saved' = saved \cup {r}
    /\ marks' = IF r \in Kept THEN marks \cup Astray(prefs.images) ELSE marks
    /\ UNCHANGED <<manifest, pool, prefs, reset, lock, work, backup, wanted, used>>

\* A deletion takes the file along, under the lock.
DeleteEntry(r) ==
    /\ pool # "closed" /\ dirs[pool].there /\ r \in dirs[pool].rows /\ lock = "nobody"
    /\ dirs' = [dirs EXCEPT ![pool].rows = @ \ {r}, ![prefs.images].files = @ \ {r}]
    /\ saved' = saved \ {r}
    /\ UNCHANGED <<manifest, pool, prefs, reset, lock, work, backup, wanted, marks, used>>

\* Preferences. An edit has the lock of the values from reading to the file and back.
Edit ==
    /\ Use("edits", MaxEdits) /\ dirs[prefs.path].there
    /\ LET new == used.edits + 1
       IN /\ dirs' = [dirs EXCEPT ![prefs.path].prefs = new]
          /\ prefs' = [prefs EXCEPT !.value = new] /\ wanted' = new
    /\ marks' = marks \cup Overlap(reset \/ ~Idle) \cup Astray(prefs.path)
    /\ UNCHANGED <<manifest, pool, reset, lock, work, backup, saved>>

\* A reset writes the file first, without that lock.
ResetFile ==
    /\ ~reset /\ Use("edits", MaxEdits) /\ dirs[prefs.path].there
    /\ dirs' = [dirs EXCEPT ![prefs.path].prefs = 0] /\ wanted' = 0 /\ reset' = TRUE
    /\ marks' = marks \cup Overlap(~Idle) \cup Astray(prefs.path)
    /\ UNCHANGED <<manifest, pool, prefs, lock, work, backup, saved>>

ResetMemory ==
    /\ reset /\ reset' = FALSE /\ prefs' = [prefs EXCEPT !.value = 0]
    /\ UNCHANGED <<dirs, manifest, pool, lock, work, backup, saved, wanted, marks, used>>

\* Every use of a path resolves the manifest, and rewrites one that names no directory.
Resolve ==
    /\ manifest # Resolved /\ manifest' = Resolved
    /\ UNCHANGED <<dirs, pool, prefs, reset, lock, work, backup, saved, wanted, marks, used>>

----------------------------------------------------------------------------
\* Moving the data. The lock of the files and the state of the database are held until the database
\* is open again.
Take(kind) == lock = "nobody" /\ Idle /\ lock' = kind

MayMoveTo(to) == dirs[to].there /\ (to = "default" \/ dirs[to].identity \/ dirs[to] = Empty)

BeginMove(to) ==
    /\ Take("move") /\ manifest = Resolved /\ to # manifest /\ MayMoveTo(to)
    /\ Use("moves", MaxJobs)
    /\ pool' = "closed" /\ work' = [NoWork EXCEPT !.at = "copying", !.from = manifest, !.to = to]
    /\ marks' = marks \cup Overlap(reset)
    /\ UNCHANGED <<dirs, manifest, prefs, reset, backup, saved, wanted>>

\* The contents of the target go before each is copied.
Overwrite ==
    /\ work.at = "copying" /\ work' = [work EXCEPT !.at = "written"]
    /\ dirs' = [dirs EXCEPT ![work.to] = [Empty EXCEPT !.identity = dirs[work.to].identity, !.whole = FALSE]]
    /\ UNCHANGED <<manifest, pool, prefs, reset, lock, backup, saved, wanted, marks, used>>

Copied ==
    /\ work.at = "written" /\ dirs[work.from].there /\ work' = [work EXCEPT !.at = "copied"]
    /\ dirs' = [dirs EXCEPT ![work.to] = [dirs[work.from] EXCEPT !.identity = TRUE]]
    /\ UNCHANGED <<manifest, pool, prefs, reset, lock, backup, saved, wanted, marks, used>>

\* storage.json is replaced by a rename.
SetManifest ==
    /\ work.at = "copied" /\ manifest' = work.to /\ work' = [work EXCEPT !.at = "switched"]
    /\ UNCHANGED <<dirs, pool, prefs, reset, lock, backup, saved, wanted, marks, used>>

\* The database is opened where the manifest leads, and its references are rewritten.
Reopen ==
    /\ work.at = "switched" /\ manifest = Resolved /\ dirs[manifest].whole
    /\ pool' = manifest /\ work' = [work EXCEPT !.at = "opened"]
    /\ UNCHANGED <<dirs, manifest, prefs, reset, lock, backup, saved, wanted, marks, used>>

\* An error on the way is gone back on: the manifest names the old directory again, and the database
\* is opened where that leads. When this fails too the database stays closed, until a move, an import
\* or a start opens one.
GiveUpMove ==
    /\ work.at \in {"copying", "written", "copied", "switched"} /\ Use("faults", MaxFaults)
    /\ LET back == Leads(work.from)
       IN /\ \/ dirs[back].whole /\ manifest' = back /\ pool' = back
             \/ manifest' \in {manifest, work.from} /\ UNCHANGED pool
          /\ marks' = marks \cup (IF manifest' # work.from THEN {"stranded"} ELSE {})
                           \cup (IF back # work.from THEN {"unplugged"} ELSE {})
    /\ work' = NoWork /\ lock' = "nobody"
    /\ UNCHANGED <<dirs, prefs, reset, backup, saved, wanted>>

\* The stores are led to the new place one after the other. The settings are read there, then their
\* path and values are set.
LoadPrefs ==
    /\ work.at = "opened" /\ work' = [work EXCEPT !.at = "loaded", !.prefs = dirs[manifest].prefs]
    /\ UNCHANGED <<dirs, manifest, pool, prefs, reset, lock, backup, saved, wanted, marks, used>>

\* Mutant: the store goes on writing to the old place.
RebaseValueOnly ==
    /\ work.at = "loaded" /\ prefs' = [prefs EXCEPT !.value = work.prefs] /\ work' = [work EXCEPT !.at = "rebased"]
    /\ UNCHANGED <<dirs, manifest, pool, reset, lock, backup, saved, wanted, marks, used>>

Rebase ==
    /\ work.at = "loaded"
    /\ prefs' = [prefs EXCEPT !.path = manifest, !.value = work.prefs]
    /\ work' = [work EXCEPT !.at = "rebased"]
    /\ UNCHANGED <<dirs, manifest, pool, reset, lock, backup, saved, wanted, marks, used>>

\* The stores of images and icons follow.
RebaseImages ==
    /\ work.at = "rebased" /\ prefs' = [prefs EXCEPT !.images = manifest]
    /\ work' = [work EXCEPT !.at = "based"] /\ marks' = marks \ {"stranded"}
    /\ UNCHANGED <<dirs, manifest, pool, reset, lock, backup, saved, wanted, used>>

\* An error there ends the move: nothing is gone back on, and the stores that were not led to the new
\* place go on writing to the old one, until the next move or start.
RebaseFails ==
    /\ work.at \in {"opened", "loaded", "rebased"} /\ Use("faults", MaxFaults)
    /\ work' = NoWork /\ lock' = "nobody" /\ marks' = marks \cup {"stranded"}
    /\ UNCHANGED <<dirs, manifest, pool, prefs, reset, backup, saved, wanted>>

\* The old directory is removed; the default one keeps the manifest. An error leaves all or some of it.
RemoveOld ==
    /\ work.at = "based" /\ work' = NoWork /\ lock' = "nobody"
    /\ \/ /\ UNCHANGED used
          /\ dirs' = IF dirs[work.from].there THEN [dirs EXCEPT ![work.from] = Empty] ELSE dirs
       \/ /\ Use("faults", MaxFaults)
          /\ \/ UNCHANGED dirs
             \/ /\ dirs[work.from].there
                /\ \E known \in BOOLEAN :
                     dirs' = [dirs EXCEPT ![work.from] = [Empty EXCEPT !.identity = known, !.whole = FALSE]]
    /\ UNCHANGED <<manifest, pool, prefs, reset, backup, saved, wanted, marks>>

----------------------------------------------------------------------------
\* Exporting a backup: the rows, the files and the settings one after the other, to a temporary file.
BeginExport ==
    /\ Take("export") /\ pool # "closed" /\ Use("moves", MaxJobs)
    /\ dirs[pool].there /\ manifest = Resolved /\ manifest = pool
    /\ work' = [NoWork EXCEPT !.at = "export"]
    /\ backup' = [NoBackup EXCEPT !.rows = dirs[pool].rows]
    /\ UNCHANGED <<dirs, manifest, pool, prefs, reset, saved, wanted, marks>>

FinishExport ==
    /\ work.at = "export" /\ dirs[pool].there
    /\ backup' = [backup EXCEPT !.there = TRUE, !.files = dirs[pool].files, !.prefs = dirs[pool].prefs]
    /\ work' = NoWork /\ lock' = "nobody"
    /\ UNCHANGED <<dirs, manifest, pool, prefs, reset, saved, wanted, marks, used>>

\* Merging a backup: the files that are missing, then the rows in a transaction, then the settings.
BeginMerge ==
    /\ Take("import") /\ backup.there /\ pool # "closed" /\ Use("moves", MaxJobs)
    /\ dirs[pool].there /\ manifest = pool
    /\ work' = [NoWork EXCEPT !.at = "merging"]
    /\ dirs' = [dirs EXCEPT ![pool].files = @ \cup backup.files]
    /\ UNCHANGED <<manifest, pool, prefs, reset, backup, saved, wanted, marks>>

MergeRows ==
    /\ work.at = "merging" /\ dirs[pool].there /\ work' = [work EXCEPT !.at = "merged"]
    /\ dirs' = [dirs EXCEPT ![pool].rows = @ \cup backup.rows] /\ saved' = saved \cup backup.rows
    /\ UNCHANGED <<manifest, pool, prefs, reset, lock, backup, wanted, marks, used>>

MergePrefs ==
    /\ work.at = "merged" /\ dirs[prefs.path].there /\ work' = NoWork /\ lock' = "nobody"
    /\ dirs' = [dirs EXCEPT ![prefs.path].prefs = backup.prefs]
    /\ prefs' = [prefs EXCEPT !.value = backup.prefs] /\ wanted' = backup.prefs
    /\ marks' = marks \cup Overlap(reset) \cup Astray(prefs.path)
    /\ UNCHANGED <<manifest, pool, reset, backup, saved, used>>

\* Replacing everything by a backup: the database is closed, copied over and opened again.
BeginReplace ==
    /\ Take("import") /\ backup.there /\ Use("moves", MaxJobs)
    /\ dirs[manifest].there /\ pool \in {manifest, "closed"}
    /\ pool' = "closed" /\ work' = [NoWork EXCEPT !.at = "replacing"]
    /\ dirs' = [dirs EXCEPT ![manifest].whole = FALSE]
    /\ marks' = marks \cup Overlap(reset)
    /\ UNCHANGED <<manifest, prefs, reset, backup, saved, wanted>>

ReplaceRows ==
    /\ work.at = "replacing" /\ dirs[manifest].there /\ work' = [work EXCEPT !.at = "replaced"]
    /\ dirs' = [dirs EXCEPT ![manifest].whole = TRUE, ![manifest].rows = backup.rows]
    /\ UNCHANGED <<manifest, pool, prefs, reset, lock, backup, saved, wanted, marks, used>>

ReplaceFiles ==
    /\ work.at = "replaced" /\ dirs[manifest].there /\ work' = [work EXCEPT !.at = "restored"]
    /\ dirs' = [dirs EXCEPT ![manifest].files = backup.files]
    /\ pool' = manifest /\ saved' = backup.rows
    /\ UNCHANGED <<manifest, prefs, reset, lock, backup, wanted, marks, used>>

\* The file of the settings is written, then their values in memory are set.
ReplacePrefs ==
    /\ \/ /\ work.at = "restored" /\ dirs[prefs.path].there /\ work' = [work EXCEPT !.at = "written back"]
          /\ dirs' = [dirs EXCEPT ![prefs.path].prefs = backup.prefs] /\ wanted' = backup.prefs
          /\ marks' = marks \cup Astray(prefs.path) /\ UNCHANGED <<prefs, lock>>
       \/ /\ work.at = "written back" /\ work' = NoWork /\ lock' = "nobody"
          /\ prefs' = [prefs EXCEPT !.value = backup.prefs] /\ UNCHANGED <<dirs, wanted, marks>>
    /\ UNCHANGED <<manifest, pool, reset, backup, saved, used>>

\* What an import that stops in the middle of the database or the files leaves is not put right.
Wrecks == IF work.at \in {"replacing", "replaced"} THEN {"wrecked"} ELSE {}

\* An export or import fails; a database that was closed for it stays closed.
GiveUp ==
    /\ work.at \in {"export", "merging", "merged", "replacing", "replaced", "restored"}
    /\ Use("faults", MaxFaults) /\ work' = NoWork /\ lock' = "nobody"
    /\ marks' = marks \cup Wrecks
    /\ backup' = IF work.at = "export" THEN NoBackup ELSE backup
    /\ UNCHANGED <<dirs, manifest, pool, prefs, reset, saved, wanted>>

----------------------------------------------------------------------------
Unplug ==
    /\ dirs["custom"].there /\ dirs["custom"].identity /\ Use("faults", MaxFaults)
    /\ dirs' = [dirs EXCEPT !["custom"].there = FALSE]
    /\ marks' = IF manifest = "custom" \/ work.to = "custom" THEN marks \cup {"unplugged"} ELSE marks
    /\ UNCHANGED <<manifest, pool, prefs, reset, lock, work, backup, saved, wanted>>

PlugIn ==
    /\ ~dirs["custom"].there /\ dirs' = [dirs EXCEPT !["custom"].there = TRUE]
    /\ UNCHANGED <<manifest, pool, prefs, reset, lock, work, backup, saved, wanted, marks, used>>

\* The process dies and starts again: it opens what the manifest leads to.
StorageCrash ==
    /\ Use("faults", MaxFaults)
    /\ manifest' = Resolved /\ pool' = (IF dirs[Resolved].whole THEN Resolved ELSE "closed")
    /\ prefs' = [path |-> Resolved, value |-> dirs[Resolved].prefs, images |-> Resolved]
    /\ reset' = FALSE /\ lock' = "nobody" /\ work' = NoWork
    /\ marks' = (marks \cup Wrecks) \ {"stranded"}
    /\ backup' = IF work.at = "export" THEN NoBackup ELSE backup
    /\ UNCHANGED <<dirs, saved, wanted>>

StorageNext ==
    \/ \E r \in Datum : StoreEntry(r) \/ DeleteEntry(r)
    \/ Edit \/ ResetFile \/ ResetMemory \/ Resolve
    \/ \E to \in Dir : BeginMove(to)
    \/ Overwrite \/ Copied \/ SetManifest \/ Reopen \/ GiveUpMove \/ LoadPrefs \/ Rebase
    \/ RebaseImages \/ RebaseFails \/ RemoveOld
    \/ BeginExport \/ FinishExport \/ BeginMerge \/ MergeRows \/ MergePrefs
    \/ BeginReplace \/ ReplaceRows \/ ReplaceFiles \/ ReplacePrefs \/ GiveUp
    \/ Unplug \/ PlugIn \/ StorageCrash

----------------------------------------------------------------------------
\* Wherever a move is, or is given up or cut off, the directory a start would open has the whole
\* history, and the files of its records unless one was written elsewhere: after a move that ended
\* before the stores were led to the new place. Excepted are an import that is cut off, and a disk that
\* was unplugged: the manifest then names the default directory for good.
HistoryFollows ==
    {"wrecked", "unplugged"} \cap marks = {} /\ work.at \notin {"replacing", "replaced"} =>
        /\ dirs[Resolved].whole /\ dirs[Resolved].rows = saved
        /\ "astray" \notin marks => saved \cap Kept \subseteq dirs[Resolved].files

\* The preferences in use, those a start would read and those the user set last are the same, unless
\* an edit came while a move, an import or a reset was under way, or was written elsewhere. What is
\* written goes to the data directory, except from a failed move to the next move or start.
PrefsFollow ==
    Idle /\ ~reset /\ {"overlap", "unplugged", "astray"} \cap marks = {} =>
        /\ prefs.value = dirs[Resolved].prefs /\ prefs.value = wanted
        /\ "stranded" \notin marks => prefs.path = manifest /\ prefs.images = manifest

\* A backup has the files of all its records, whatever was stored while it was written.
BackupWhole ==
    backup.there /\ {"wrecked", "unplugged", "astray"} \cap marks = {} => backup.rows \cap Kept \subseteq backup.files

\* What a start would open follows the moves, and backups are whole.
DataFollows == HistoryFollows /\ PrefsFollow /\ BackupWhole

StorageTypeOK ==
    /\ \A d \in Dir : dirs[d].rows \cup dirs[d].files \subseteq Datum /\ dirs[d].prefs \in 0 .. MaxEdits
    /\ manifest \in Dir /\ pool \in Dir \cup {"closed"} /\ saved \subseteq Datum
    /\ Idle => lock = "nobody"
=============================================================================
