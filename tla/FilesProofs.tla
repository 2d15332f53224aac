---------------------------- MODULE FilesProofs ----------------------------
(***************************************************************************)
(* What holds of the data directory, the configuration files, thumbnails   *)
(* and the sizes of folders, by inductive invariants of each: StorageInv,  *)
(* ConfigInv, ThumbInv and SizeInv. The theorems about the client as a     *)
(* whole are in LocalProofs.                                               *)
(***************************************************************************)
EXTENDS Storage, ConfigFiles, Thumbnails, LateSizes, TLAPS
-----------------------------------------------------------------------------
(* The data directory.                                                     *)
(*                                                                         *)
(* While data moves there are two directories a start may open, depending  *)
(* on where the move is cut off, and three places that name one: the       *)
(* manifest, the open database, the store of the preferences.              *)

\* What the preferences are told by: 0 are the defaults.
Edition == 0 .. MaxEdits

Place == [there : BOOLEAN, identity : BOOLEAN, whole : BOOLEAN, rows : SUBSET Datum, files : SUBSET Datum, prefs : Edition]

Moving == {"copying", "written", "copied", "switched"}      \* the old directory may be gone back to
Switching == {"switched", "opened", "loaded"}               \* the store still writes to the old one
Importing == {"merging", "merged", "replacing", "replaced", "restored", "written back"}

Based == {"rebased", "based"}

Works == [at : {"idle", "export"} \cup Based \cup Moving \cup Switching \cup Importing,
          from : Dir, to : Dir, prefs : Edition]
Copies == [there : BOOLEAN, rows : SUBSET Datum, files : SUBSET Datum, prefs : Edition]
Counts == [edits : Nat, moves : Nat, faults : Nat]

PlacesShape == dirs \in [Dir -> Place] /\ dirs["default"].there

CourseShape ==
    /\ manifest \in Dir /\ pool \in Dir \cup {"closed"}
    /\ prefs \in [path : Dir, value : Edition, images : Dir] /\ reset \in BOOLEAN
    /\ work \in Works /\ backup \in Copies
    /\ saved \in SUBSET Datum /\ wanted \in Edition
    /\ used \in Counts
    /\ Idle <=> lock = "nobody"
    /\ work.at \in Moving \cup Switching \cup Based => work.from # work.to
    /\ work.at \in Importing => backup.there
    /\ work.at \in {"export", "merging", "merged"} => pool # "closed"

StorageShape == PlacesShape /\ CourseShape

\* No disk was unplugged while it was in use: what is open and what is written to is what the
\* manifest names.
InPlace ==
    /\ manifest = "custom" => dirs["custom"].there /\ dirs["custom"].identity
    /\ work.to = "custom" => dirs["custom"].there
    /\ work.at \in {"copying", "written", "copied"} => manifest = work.from
    /\ work.at \in Switching \cup Based => manifest = work.to
    /\ \/ pool = IF work.at \in Moving \cup {"replacing", "replaced"} THEN "closed" ELSE manifest
       \/ pool = "closed" /\ Idle
    /\ "stranded" \notin marks =>
          /\ prefs.path = IF work.at \in Switching THEN work.from ELSE manifest
          /\ prefs.images = IF work.at \in Switching \cup {"rebased"} THEN work.from ELSE manifest
    /\ work.at \in Based => prefs.path = manifest
    /\ work.at = "based" => prefs.images = manifest
    /\ work.at \in {"copied", "switched"} => dirs[work.to].identity
    /\ work.at \in Moving /\ work.from = "custom" => dirs["custom"].identity

\* The history, and the files of its records unless some were written elsewhere.
Filed(d) == "astray" \notin marks => saved \cap Kept \subseteq dirs[d].files
Whole(d) == dirs[d].whole /\ dirs[d].rows = saved /\ Filed(d)

\* Beyond that, no import was cut off: every directory that may be opened has the history.
HistoryKept ==
    /\ work.at \notin {"replacing", "replaced"} => Whole(manifest)
    /\ work.at \in Moving => Whole(work.from)
    /\ work.at \in {"copied", "switched"} => Whole(work.to)
    /\ "astray" \notin marks =>
          /\ backup.there => backup.rows \cap Kept \subseteq backup.files
          /\ work.at = "export" => backup.rows \cap Kept \subseteq dirs[manifest].files
    /\ work.at = "export" => ~backup.there
    /\ work.at \in {"merging", "merged"} => backup.files \subseteq dirs[manifest].files
    /\ work.at = "replaced" => dirs[manifest].whole /\ dirs[manifest].rows = backup.rows

\* The preferences last set are in memory, and in every directory that may be opened, unless they were
\* written elsewhere.
PrefsKept ==
    /\ dirs[manifest].prefs = wanted
    /\ work.at \in Moving => dirs[work.from].prefs = wanted
    /\ work.at \in {"copied", "switched"} => dirs[work.to].prefs = wanted
    /\ ~reset /\ work.at # "written back" => prefs.value = wanted
    /\ reset => wanted = 0 /\ work.at \in {"idle", "export", "merging", "merged"}
    /\ work.at = "loaded" => work.prefs = wanted
    /\ work.at = "written back" => wanted = backup.prefs

StorageInv ==
    /\ StorageShape
    /\ "unplugged" \notin marks => InPlace
    /\ "wrecked" \notin marks /\ "unplugged" \notin marks => HistoryKept
    /\ {"overlap", "unplugged", "astray"} \cap marks = {} => PrefsKept

\* The defaults are an edition, and each change of the preferences gives the next.
LEMMA Editions == 0 \in Edition
  BY StorageAssumption DEF Edition
LEMMA NextEdition == ASSUME NEW n \in Nat, n < MaxEdits PROVE n + 1 \in Edition
  BY StorageAssumption DEF Edition

\* An installation that was just started.
LEMMA StorageStarts == StorageInit => StorageInv
  <1> SUFFICES ASSUME StorageInit PROVE StorageInv
    OBVIOUS
  <1>1. \A d \in Dir : dirs[d] = [there |-> TRUE, identity |-> (d = "default"), whole |-> TRUE, rows |-> {},
                                  files |-> {}, prefs |-> 0]
    BY DEF StorageInit, Empty
  <1>2. dirs \in [Dir -> Place]
    BY Editions, <1>1 DEF StorageInit, Place, Empty
  <1>3. StorageShape
    BY Editions, <1>1, <1>2 DEF StorageInit, StorageShape, PlacesShape, CourseShape, Works, Copies, Counts, NoWork, NoBackup,
       Dir, Idle, Moving, Switching, Based, Importing
  <1>4. InPlace /\ HistoryKept /\ PrefsKept
    BY <1>1, <1>3 DEF StorageInit, InPlace, HistoryKept, PrefsKept, Whole, Filed, NoWork, NoBackup, Dir, Idle, Moving,
       Switching, Based, Importing
  <1> QED  BY <1>3, <1>4 DEF StorageInv

\* What a directory holds next, while the other stays.
Now(d, there, known, whole, entries, files, value) ==
    /\ dirs' \in [Dir -> Place]
    /\ \A o \in Dir : /\ dirs'[o].there = IF o = d THEN there ELSE dirs[o].there
                      /\ dirs'[o].identity = IF o = d THEN known ELSE dirs[o].identity
                      /\ dirs'[o].whole = IF o = d THEN whole ELSE dirs[o].whole
                      /\ dirs'[o].rows = IF o = d THEN entries ELSE dirs[o].rows
                      /\ dirs'[o].files = IF o = d THEN files ELSE dirs[o].files
                      /\ dirs'[o].prefs = IF o = d THEN value ELSE dirs[o].prefs

\* The work under way goes on.
Turns(at, from, to) == work'.at = at /\ work'.from = from /\ work'.to = to

\* One directory is given other contents.
LEMMA PutOne ==
  ASSUME dirs \in [Dir -> Place], NEW d \in Dir, NEW p \in Place, dirs' = [dirs EXCEPT ![d] = p]
  PROVE  Now(d, p.there, p.identity, p.whole, p.rows, p.files, p.prefs)
  BY DEF Now


\* What each step does to the directories and to what goes with them.
LEMMA EditDoes ==
  ASSUME StorageShape, Edit
  PROVE  /\ Now(prefs.path, dirs[prefs.path].there, dirs[prefs.path].identity, dirs[prefs.path].whole,
                dirs[prefs.path].rows, dirs[prefs.path].files, wanted')
         /\ UNCHANGED <<manifest, pool, reset, work, backup, saved>>
         /\ prefs'.path = prefs.path /\ prefs'.images = prefs.images /\ prefs'.value = wanted'
         /\ "overlap" \notin marks' => ~reset /\ Idle
         /\ "astray" \notin marks' => prefs.path = manifest
  <1> DEFINE new == [dirs[prefs.path] EXCEPT !.prefs = wanted']
  <1>1. prefs.path \in Dir /\ dirs \in [Dir -> Place] /\ dirs[prefs.path] \in Place
    BY DEF StorageShape, PlacesShape, CourseShape, Works, Copies, Dir
  <1>2. dirs' = [dirs EXCEPT ![prefs.path] = new]
    BY <1>1 DEF Edit
  <1>3. wanted' \in Edition
    <2>1. used.edits \in Nat /\ used.edits < MaxEdits
      BY DEF StorageShape, CourseShape, Counts, Edit, Use
    <2>2. wanted' = used.edits + 1
      BY DEF Edit
    <2> QED  BY <2>1, <2>2, NextEdition
  <1>4. /\ new \in Place
        /\ new.there = dirs[prefs.path].there /\ new.identity = dirs[prefs.path].identity /\ new.whole =
           dirs[prefs.path].whole /\ new.rows = dirs[prefs.path].rows /\ new.files = dirs[prefs.path].files /\
           new.prefs = wanted'
    BY <1>1, <1>3 DEF Place
  <1>5. /\ UNCHANGED <<manifest, pool, reset, work, backup, saved>>
        /\ prefs'.path = prefs.path /\ prefs'.images = prefs.images /\ prefs'.value = wanted'
        /\ "overlap" \notin marks' => ~reset /\ Idle
        /\ "astray" \notin marks' => prefs.path = manifest
    BY DEF StorageShape, PlacesShape, CourseShape, Works, Copies, Idle, Turns, Edit, Use, Overlap, Astray
  <1> HIDE DEF new
  <1> QED  BY <1>1, <1>2, <1>4, <1>5, PutOne

LEMMA ResetFileDoes ==
  ASSUME StorageShape, ResetFile
  PROVE  /\ Now(prefs.path, dirs[prefs.path].there, dirs[prefs.path].identity, dirs[prefs.path].whole,
                dirs[prefs.path].rows, dirs[prefs.path].files, 0)
         /\ UNCHANGED <<manifest, pool, prefs, work, backup, saved>> /\ reset' = TRUE /\ wanted' = 0
         /\ "overlap" \notin marks' => Idle
         /\ "astray" \notin marks' => prefs.path = manifest
  <1> DEFINE new == [dirs[prefs.path] EXCEPT !.prefs = 0]
  <1>1. prefs.path \in Dir /\ dirs \in [Dir -> Place] /\ dirs[prefs.path] \in Place
    BY DEF StorageShape, PlacesShape, CourseShape, Works, Copies, Dir
  <1>2. dirs' = [dirs EXCEPT ![prefs.path] = new]
    BY <1>1 DEF ResetFile
  <1>3. 0 \in Edition
    BY Editions, <1>1 DEF Place, StorageShape, PlacesShape, CourseShape, Works, Copies, ResetFile
  <1>4. /\ new \in Place
        /\ new.there = dirs[prefs.path].there /\ new.identity = dirs[prefs.path].identity /\ new.whole =
           dirs[prefs.path].whole /\ new.rows = dirs[prefs.path].rows /\ new.files = dirs[prefs.path].files /\
           new.prefs = 0
    BY <1>1, <1>3 DEF Place
  <1>5. /\ UNCHANGED <<manifest, pool, prefs, work, backup, saved>> /\ reset' = TRUE /\ wanted' = 0
        /\ "overlap" \notin marks' => Idle
        /\ "astray" \notin marks' => prefs.path = manifest
    BY DEF StorageShape, PlacesShape, CourseShape, Works, Copies, Idle, Turns, ResetFile, Use, Overlap, Astray
  <1> HIDE DEF new
  <1> QED  BY <1>1, <1>2, <1>4, <1>5, PutOne

LEMMA OverwriteDoes ==
  ASSUME StorageShape, Overwrite
  PROVE  /\ Now(work.to, TRUE, dirs[work.to].identity, FALSE, {}, {}, 0)
         /\ UNCHANGED <<manifest, pool, prefs, reset, backup, saved, wanted>>
         /\ work.at = "copying" /\ Turns("written", work.from, work.to)
  <1> DEFINE new == [Empty EXCEPT !.identity = dirs[work.to].identity, !.whole = FALSE]
  <1>1. work.to \in Dir /\ dirs \in [Dir -> Place] /\ dirs[work.to] \in Place
    BY DEF StorageShape, PlacesShape, CourseShape, Works, Copies, Dir
  <1>2. dirs' = [dirs EXCEPT ![work.to] = new]
    BY <1>1 DEF Overwrite
  <1>3. Empty.rows = {}
    BY DEF Empty
  <1>4. /\ new \in Place
        /\ new.there = TRUE /\ new.identity = dirs[work.to].identity /\ new.whole = FALSE /\ new.rows = {} /\
           new.files = {} /\ new.prefs = 0
    BY Editions, <1>1, <1>3 DEF Place, Empty
  <1>5. /\ UNCHANGED <<manifest, pool, prefs, reset, backup, saved, wanted>>
        /\ work.at = "copying" /\ Turns("written", work.from, work.to)
    BY DEF StorageShape, PlacesShape, CourseShape, Works, Copies, Idle, Turns, Empty, Overwrite
  <1> HIDE DEF new
  <1> QED  BY <1>1, <1>2, <1>4, <1>5, PutOne

LEMMA CopiedDoes ==
  ASSUME StorageShape, Copied
  PROVE  /\ Now(work.to, dirs[work.from].there, TRUE, dirs[work.from].whole, dirs[work.from].rows,
                dirs[work.from].files, dirs[work.from].prefs)
         /\ UNCHANGED <<manifest, pool, prefs, reset, backup, saved, wanted>>
         /\ work.at = "written" /\ dirs[work.from].there /\ Turns("copied", work.from, work.to)
  <1> DEFINE new == [dirs[work.from] EXCEPT !.identity = TRUE]
  <1>1. work.to \in Dir /\ dirs \in [Dir -> Place] /\ dirs[work.to] \in Place
    BY DEF StorageShape, PlacesShape, CourseShape, Works, Copies, Dir
  <1>2. dirs' = [dirs EXCEPT ![work.to] = new]
    BY <1>1 DEF Copied
  <1>3. work.from \in Dir /\ dirs[work.from] \in Place
    BY <1>1 DEF StorageShape, PlacesShape, CourseShape, Works, Copies
  <1>4. /\ new \in Place
        /\ new.there = dirs[work.from].there /\ new.identity = TRUE /\ new.whole = dirs[work.from].whole /\ new.rows =
           dirs[work.from].rows /\ new.files = dirs[work.from].files /\ new.prefs = dirs[work.from].prefs
    BY <1>1, <1>3 DEF Place
  <1>5. /\ UNCHANGED <<manifest, pool, prefs, reset, backup, saved, wanted>>
        /\ work.at = "written" /\ dirs[work.from].there /\ Turns("copied", work.from, work.to)
    BY DEF StorageShape, PlacesShape, CourseShape, Works, Copies, Idle, Turns, Copied
  <1> HIDE DEF new
  <1> QED  BY <1>1, <1>2, <1>4, <1>5, PutOne

LEMMA BeginMergeDoes ==
  ASSUME StorageShape, BeginMerge
  PROVE  /\ Now(pool, dirs[pool].there, dirs[pool].identity, dirs[pool].whole, dirs[pool].rows, dirs[pool].files
                \cup backup.files, dirs[pool].prefs)
         /\ UNCHANGED <<manifest, pool, prefs, reset, backup, saved, wanted>>
         /\ Idle /\ backup.there /\ manifest = pool /\ Turns("merging", "default", "default")
  <1> DEFINE new == [dirs[pool] EXCEPT !.files = dirs[pool].files \cup backup.files]
  <1>1. pool \in Dir /\ dirs \in [Dir -> Place] /\ dirs[pool] \in Place
    BY DEF StorageShape, PlacesShape, CourseShape, Works, Copies, Dir, BeginMerge
  <1>2. dirs' = [dirs EXCEPT ![pool] = new]
    BY <1>1 DEF BeginMerge
  <1>3. (dirs[pool].files \cup backup.files) \in SUBSET Datum
    BY <1>1 DEF Place, StorageShape, PlacesShape, CourseShape, Works, Copies, BeginMerge
  <1>4. /\ new \in Place
        /\ new.there = dirs[pool].there /\ new.identity = dirs[pool].identity /\ new.whole = dirs[pool].whole /\
           new.rows = dirs[pool].rows /\ new.files = dirs[pool].files \cup backup.files /\ new.prefs =
           dirs[pool].prefs
    BY <1>1, <1>3 DEF Place
  <1>5. /\ UNCHANGED <<manifest, pool, prefs, reset, backup, saved, wanted>>
        /\ Idle /\ backup.there /\ manifest = pool /\ Turns("merging", "default", "default")
    BY DEF StorageShape, PlacesShape, CourseShape, Works, Copies, Idle, Turns, BeginMerge, NoWork, Take, Use
  <1> HIDE DEF new
  <1> QED  BY <1>1, <1>2, <1>4, <1>5, PutOne

LEMMA MergeRowsDoes ==
  ASSUME StorageShape, MergeRows
  PROVE  /\ Now(pool, dirs[pool].there, dirs[pool].identity, dirs[pool].whole, dirs[pool].rows \cup backup.rows,
                dirs[pool].files, dirs[pool].prefs)
         /\ UNCHANGED <<manifest, pool, prefs, reset, backup, wanted>> /\ saved' = saved \cup backup.rows
         /\ work.at = "merging" /\ Turns("merged", work.from, work.to)
  <1> DEFINE new == [dirs[pool] EXCEPT !.rows = dirs[pool].rows \cup backup.rows]
  <1>1. pool \in Dir /\ dirs \in [Dir -> Place] /\ dirs[pool] \in Place
    BY DEF StorageShape, PlacesShape, CourseShape, Works, Copies, Dir, MergeRows
  <1>2. dirs' = [dirs EXCEPT ![pool] = new]
    BY <1>1 DEF MergeRows
  <1>3. (dirs[pool].rows \cup backup.rows) \in SUBSET Datum
    BY <1>1 DEF Place, StorageShape, PlacesShape, CourseShape, Works, Copies, MergeRows
  <1>4. /\ new \in Place
        /\ new.there = dirs[pool].there /\ new.identity = dirs[pool].identity /\ new.whole = dirs[pool].whole /\
           new.rows = dirs[pool].rows \cup backup.rows /\ new.files = dirs[pool].files /\ new.prefs = dirs[pool].prefs
    BY <1>1, <1>3 DEF Place
  <1>5. /\ UNCHANGED <<manifest, pool, prefs, reset, backup, wanted>> /\ saved' = saved \cup backup.rows
        /\ work.at = "merging" /\ Turns("merged", work.from, work.to)
    BY DEF StorageShape, PlacesShape, CourseShape, Works, Copies, Idle, Turns, MergeRows
  <1> HIDE DEF new
  <1> QED  BY <1>1, <1>2, <1>4, <1>5, PutOne

LEMMA MergePrefsDoes ==
  ASSUME StorageShape, MergePrefs
  PROVE  /\ Now(prefs.path, dirs[prefs.path].there, dirs[prefs.path].identity, dirs[prefs.path].whole,
                dirs[prefs.path].rows, dirs[prefs.path].files, backup.prefs)
         /\ UNCHANGED <<manifest, pool, reset, backup, saved>>
         /\ prefs'.path = prefs.path /\ prefs'.images = prefs.images
         /\ prefs'.value = backup.prefs /\ wanted' = backup.prefs
         /\ work.at = "merged" /\ Turns("idle", "default", "default")
         /\ "overlap" \notin marks' => ~reset
         /\ "astray" \notin marks' => prefs.path = manifest
  <1> DEFINE new == [dirs[prefs.path] EXCEPT !.prefs = backup.prefs]
  <1>1. prefs.path \in Dir /\ dirs \in [Dir -> Place] /\ dirs[prefs.path] \in Place
    BY DEF StorageShape, PlacesShape, CourseShape, Works, Copies, Dir
  <1>2. dirs' = [dirs EXCEPT ![prefs.path] = new]
    BY <1>1 DEF MergePrefs
  <1>3. backup.prefs \in Edition
    BY <1>1 DEF Place, StorageShape, PlacesShape, CourseShape, Works, Copies, MergePrefs
  <1>4. /\ new \in Place
        /\ new.there = dirs[prefs.path].there /\ new.identity = dirs[prefs.path].identity /\ new.whole =
           dirs[prefs.path].whole /\ new.rows = dirs[prefs.path].rows /\ new.files = dirs[prefs.path].files /\
           new.prefs = backup.prefs
    BY <1>1, <1>3 DEF Place
  <1>5. /\ UNCHANGED <<manifest, pool, reset, backup, saved>>
        /\ prefs'.path = prefs.path /\ prefs'.images = prefs.images
        /\ prefs'.value = backup.prefs /\ wanted' = backup.prefs
        /\ work.at = "merged" /\ Turns("idle", "default", "default")
        /\ "overlap" \notin marks' => ~reset
        /\ "astray" \notin marks' => prefs.path = manifest
    BY DEF StorageShape, PlacesShape, CourseShape, Works, Copies, Idle, Turns, MergePrefs, NoWork, Overlap, Astray
  <1> HIDE DEF new
  <1> QED  BY <1>1, <1>2, <1>4, <1>5, PutOne

LEMMA BeginReplaceDoes ==
  ASSUME StorageShape, BeginReplace
  PROVE  /\ Now(manifest, dirs[manifest].there, dirs[manifest].identity, FALSE, dirs[manifest].rows,
                dirs[manifest].files, dirs[manifest].prefs)
         /\ UNCHANGED <<manifest, prefs, reset, backup, saved, wanted>> /\ pool' = "closed"
         /\ Idle /\ backup.there /\ Turns("replacing", "default", "default")
         /\ "overlap" \notin marks' => ~reset
  <1> DEFINE new == [dirs[manifest] EXCEPT !.whole = FALSE]
  <1>1. manifest \in Dir /\ dirs \in [Dir -> Place] /\ dirs[manifest] \in Place
    BY DEF StorageShape, PlacesShape, CourseShape, Works, Copies, Dir
  <1>2. dirs' = [dirs EXCEPT ![manifest] = new]
    BY <1>1 DEF BeginReplace
  <1>3. FALSE \in BOOLEAN
    BY <1>1 DEF Place, StorageShape, PlacesShape, CourseShape, Works, Copies, BeginReplace
  <1>4. /\ new \in Place
        /\ new.there = dirs[manifest].there /\ new.identity = dirs[manifest].identity /\ new.whole = FALSE /\ new.rows
           = dirs[manifest].rows /\ new.files = dirs[manifest].files /\ new.prefs = dirs[manifest].prefs
    BY <1>1, <1>3 DEF Place
  <1>5. /\ UNCHANGED <<manifest, prefs, reset, backup, saved, wanted>> /\ pool' = "closed"
        /\ Idle /\ backup.there /\ Turns("replacing", "default", "default")
        /\ "overlap" \notin marks' => ~reset
    BY DEF StorageShape, PlacesShape, CourseShape, Works, Copies, Idle, Turns, BeginReplace, NoWork, Take, Use, Overlap
  <1> HIDE DEF new
  <1> QED  BY <1>1, <1>2, <1>4, <1>5, PutOne

LEMMA ReplaceRowsDoes ==
  ASSUME StorageShape, ReplaceRows
  PROVE  /\ Now(manifest, dirs[manifest].there, dirs[manifest].identity, TRUE, backup.rows, dirs[manifest].files,
                dirs[manifest].prefs)
         /\ UNCHANGED <<manifest, pool, prefs, reset, backup, saved, wanted>>
         /\ work.at = "replacing" /\ Turns("replaced", work.from, work.to)
  <1> DEFINE new == [dirs[manifest] EXCEPT !.whole = TRUE, !.rows = backup.rows]
  <1>1. manifest \in Dir /\ dirs \in [Dir -> Place] /\ dirs[manifest] \in Place
    BY DEF StorageShape, PlacesShape, CourseShape, Works, Copies, Dir
  <1>2. dirs' = [dirs EXCEPT ![manifest] = new]
    BY <1>1 DEF ReplaceRows
  <1>3. TRUE \in BOOLEAN /\ backup.rows \in SUBSET Datum
    BY <1>1 DEF Place, StorageShape, PlacesShape, CourseShape, Works, Copies, ReplaceRows
  <1>4. /\ new \in Place
        /\ new.there = dirs[manifest].there /\ new.identity = dirs[manifest].identity /\ new.whole = TRUE /\ new.rows
           = backup.rows /\ new.files = dirs[manifest].files /\ new.prefs = dirs[manifest].prefs
    BY <1>1, <1>3 DEF Place
  <1>5. /\ UNCHANGED <<manifest, pool, prefs, reset, backup, saved, wanted>>
        /\ work.at = "replacing" /\ Turns("replaced", work.from, work.to)
    BY DEF StorageShape, PlacesShape, CourseShape, Works, Copies, Idle, Turns, ReplaceRows
  <1> HIDE DEF new
  <1> QED  BY <1>1, <1>2, <1>4, <1>5, PutOne

LEMMA ReplaceFilesDoes ==
  ASSUME StorageShape, ReplaceFiles
  PROVE  /\ Now(manifest, dirs[manifest].there, dirs[manifest].identity, dirs[manifest].whole,
                dirs[manifest].rows, backup.files, dirs[manifest].prefs)
         /\ UNCHANGED <<manifest, prefs, reset, backup, wanted>> /\ pool' = manifest /\ saved' = backup.rows
         /\ work.at = "replaced" /\ Turns("restored", work.from, work.to)
  <1> DEFINE new == [dirs[manifest] EXCEPT !.files = backup.files]
  <1>1. manifest \in Dir /\ dirs \in [Dir -> Place] /\ dirs[manifest] \in Place
    BY DEF StorageShape, PlacesShape, CourseShape, Works, Copies, Dir
  <1>2. dirs' = [dirs EXCEPT ![manifest] = new]
    BY <1>1 DEF ReplaceFiles
  <1>3. backup.files \in SUBSET Datum
    BY <1>1 DEF Place, StorageShape, PlacesShape, CourseShape, Works, Copies, ReplaceFiles
  <1>4. /\ new \in Place
        /\ new.there = dirs[manifest].there /\ new.identity = dirs[manifest].identity /\ new.whole =
           dirs[manifest].whole /\ new.rows = dirs[manifest].rows /\ new.files = backup.files /\ new.prefs =
           dirs[manifest].prefs
    BY <1>1, <1>3 DEF Place
  <1>5. /\ UNCHANGED <<manifest, prefs, reset, backup, wanted>> /\ pool' = manifest /\ saved' = backup.rows
        /\ work.at = "replaced" /\ Turns("restored", work.from, work.to)
    BY DEF StorageShape, PlacesShape, CourseShape, Works, Copies, Idle, Turns, ReplaceFiles
  <1> HIDE DEF new
  <1> QED  BY <1>1, <1>2, <1>4, <1>5, PutOne

LEMMA ReplacePrefsDoes ==
  ASSUME StorageShape, work.at = "restored", ReplacePrefs
  PROVE  /\ Now(prefs.path, dirs[prefs.path].there, dirs[prefs.path].identity, dirs[prefs.path].whole,
                dirs[prefs.path].rows, dirs[prefs.path].files, backup.prefs)
         /\ UNCHANGED <<manifest, pool, prefs, reset, backup, saved>> /\ wanted' = backup.prefs
         /\ Turns("written back", work.from, work.to)
         /\ "astray" \notin marks' => prefs.path = manifest
  <1> DEFINE new == [dirs[prefs.path] EXCEPT !.prefs = backup.prefs]
  <1>1. prefs.path \in Dir /\ dirs \in [Dir -> Place] /\ dirs[prefs.path] \in Place
    BY DEF StorageShape, PlacesShape, CourseShape, Works, Copies, Dir
  <1>2. dirs' = [dirs EXCEPT ![prefs.path] = new]
    BY <1>1 DEF ReplacePrefs
  <1>3. backup.prefs \in Edition
    BY <1>1 DEF Place, StorageShape, PlacesShape, CourseShape, Works, Copies, ReplacePrefs
  <1>4. /\ new \in Place
        /\ new.there = dirs[prefs.path].there /\ new.identity = dirs[prefs.path].identity /\ new.whole =
           dirs[prefs.path].whole /\ new.rows = dirs[prefs.path].rows /\ new.files = dirs[prefs.path].files /\
           new.prefs = backup.prefs
    BY <1>1, <1>3 DEF Place
  <1>5. /\ UNCHANGED <<manifest, pool, prefs, reset, backup, saved>> /\ wanted' = backup.prefs
        /\ Turns("written back", work.from, work.to)
        /\ "astray" \notin marks' => prefs.path = manifest
    BY DEF StorageShape, PlacesShape, CourseShape, Works, Copies, Idle, Turns, NoWork, ReplacePrefs, Astray
  <1> HIDE DEF new
  <1> QED  BY <1>1, <1>2, <1>4, <1>5, PutOne

LEMMA RemoveOldDoes ==
  ASSUME StorageShape, RemoveOld
  PROVE  /\ UNCHANGED <<manifest, pool, prefs, reset, backup, saved, wanted, marks>>
         /\ work.at = "based" /\ work' = NoWork
         /\ dirs' \in [Dir -> Place]
         /\ \A o \in Dir : dirs'[o].there = dirs[o].there /\ (o # work.from => dirs'[o] = dirs[o])
  <1>1. dirs \in [Dir -> Place] /\ work.from \in Dir
    BY DEF StorageShape, PlacesShape, CourseShape, Works
  <1>2. Empty \in Place /\ Empty.there = TRUE
    BY Editions DEF Empty, Place
  <1>3. \A known \in BOOLEAN : [Empty EXCEPT !.identity = known, !.whole = FALSE] \in Place
    BY Editions DEF Empty, Place
  <1>4. \A known \in BOOLEAN : [Empty EXCEPT !.identity = known, !.whole = FALSE].there = TRUE
    BY DEF Empty
  <1>5. /\ UNCHANGED <<manifest, pool, prefs, reset, backup, saved, wanted, marks>>
        /\ work.at = "based" /\ work' = NoWork
    BY DEF RemoveOld
  <1>6. \/ UNCHANGED dirs
        \/ /\ dirs[work.from].there
           /\ \E p \in Place : p.there = TRUE /\ dirs' = [dirs EXCEPT ![work.from] = p]
    BY <1>2, <1>3, <1>4 DEF RemoveOld
  <1>7. CASE UNCHANGED dirs
    BY <1>1, <1>5, <1>7
  <1>8. CASE /\ dirs[work.from].there
             /\ \E p \in Place : p.there = TRUE /\ dirs' = [dirs EXCEPT ![work.from] = p]
    <2>1. PICK p \in Place : p.there = TRUE /\ dirs' = [dirs EXCEPT ![work.from] = p]
      BY <1>8
    <2>2. dirs[work.from].there = TRUE
      BY <1>1, <1>8 DEF Place
    <2> QED  BY <1>1, <1>5, <2>1, <2>2
  <1> QED  BY <1>6, <1>7, <1>8

LEMMA UnplugDoes ==
  ASSUME StorageShape, Unplug
  PROVE  /\ Now("custom", FALSE, dirs["custom"].identity, dirs["custom"].whole, dirs["custom"].rows,
                dirs["custom"].files, dirs["custom"].prefs)
         /\ UNCHANGED <<manifest, pool, prefs, reset, work, backup, saved, wanted>>
         /\ "unplugged" \notin marks' => manifest # "custom" /\ work.to # "custom"
  <1> DEFINE new == [dirs["custom"] EXCEPT !.there = FALSE]
  <1>1. "custom" \in Dir /\ dirs \in [Dir -> Place] /\ dirs["custom"] \in Place
    BY DEF StorageShape, PlacesShape, CourseShape, Works, Copies, Dir
  <1>2. dirs' = [dirs EXCEPT !["custom"] = new]
    BY <1>1 DEF Unplug
  <1>3. FALSE \in BOOLEAN
    BY <1>1 DEF Place, StorageShape, PlacesShape, CourseShape, Works, Copies, Unplug
  <1>4. /\ new \in Place
        /\ new.there = FALSE /\ new.identity = dirs["custom"].identity /\ new.whole = dirs["custom"].whole /\ new.rows
           = dirs["custom"].rows /\ new.files = dirs["custom"].files /\ new.prefs = dirs["custom"].prefs
    BY <1>1, <1>3 DEF Place
  <1>5. /\ UNCHANGED <<manifest, pool, prefs, reset, work, backup, saved, wanted>>
        /\ "unplugged" \notin marks' => manifest # "custom" /\ work.to # "custom"
    BY DEF StorageShape, PlacesShape, CourseShape, Works, Copies, Idle, Turns, Unplug, Use
  <1> HIDE DEF new
  <1> QED  BY <1>1, <1>2, <1>4, <1>5, PutOne

LEMMA PlugInDoes ==
  ASSUME StorageShape, PlugIn
  PROVE  /\ Now("custom", TRUE, dirs["custom"].identity, dirs["custom"].whole, dirs["custom"].rows,
                dirs["custom"].files, dirs["custom"].prefs)
         /\ UNCHANGED <<manifest, pool, prefs, reset, work, backup, saved, wanted>>
  <1> DEFINE new == [dirs["custom"] EXCEPT !.there = TRUE]
  <1>1. "custom" \in Dir /\ dirs \in [Dir -> Place] /\ dirs["custom"] \in Place
    BY DEF StorageShape, PlacesShape, CourseShape, Works, Copies, Dir
  <1>2. dirs' = [dirs EXCEPT !["custom"] = new]
    BY <1>1 DEF PlugIn
  <1>3. TRUE \in BOOLEAN
    BY <1>1 DEF Place, StorageShape, PlacesShape, CourseShape, Works, Copies, PlugIn
  <1>4. /\ new \in Place
        /\ new.there = TRUE /\ new.identity = dirs["custom"].identity /\ new.whole = dirs["custom"].whole /\ new.rows
           = dirs["custom"].rows /\ new.files = dirs["custom"].files /\ new.prefs = dirs["custom"].prefs
    BY <1>1, <1>3 DEF Place
  <1>5. /\ UNCHANGED <<manifest, pool, prefs, reset, work, backup, saved, wanted>>
    BY DEF StorageShape, PlacesShape, CourseShape, Works, Copies, Idle, Turns, PlugIn
  <1> HIDE DEF new
  <1> QED  BY <1>1, <1>2, <1>4, <1>5, PutOne

\* The above, for each disjunct of the next-state relation that touches the directories.
LEMMA EntryEffects ==
  ASSUME StorageShape, NEW r \in Datum
  PROVE  /\ StoreEntry(r) =>
              /\ dirs' \in [Dir -> Place]
              /\ \A d \in Dir : /\ dirs'[d].there = dirs[d].there /\ dirs'[d].identity = dirs[d].identity
                                /\ dirs'[d].whole = dirs[d].whole /\ dirs'[d].prefs = dirs[d].prefs
                                /\ dirs'[d].rows = dirs[d].rows \cup (IF d = pool THEN {r} ELSE {})
                                /\ dirs'[d].files = dirs[d].files \cup (IF d = prefs.images /\ r \in Kept THEN {r} ELSE {})
         /\ DeleteEntry(r) =>
              /\ dirs' \in [Dir -> Place]
              /\ \A d \in Dir : /\ dirs'[d].there = dirs[d].there /\ dirs'[d].identity = dirs[d].identity
                                /\ dirs'[d].whole = dirs[d].whole /\ dirs'[d].prefs = dirs[d].prefs
                                /\ dirs'[d].rows = dirs[d].rows \ (IF d = pool THEN {r} ELSE {})
                                /\ dirs'[d].files = dirs[d].files \ (IF d = prefs.images THEN {r} ELSE {})
  <1>1. dirs \in [Dir -> Place] /\ (\A d \in Dir : dirs[d] \in Place) /\ prefs.images \in Dir
    BY DEF StorageShape, PlacesShape, CourseShape, Works, Copies
  <1> DEFINE Same(d) == /\ dirs'[d] \in Place /\ dirs'[d].there = dirs[d].there
                        /\ dirs'[d].identity = dirs[d].identity /\ dirs'[d].whole = dirs[d].whole
                        /\ dirs'[d].prefs = dirs[d].prefs
  <1>2. ASSUME StoreEntry(r), NEW d \in Dir
        PROVE  /\ Same(d)
               /\ dirs'[d].rows = dirs[d].rows \cup (IF d = pool THEN {r} ELSE {})
               /\ dirs'[d].files = dirs[d].files \cup (IF d = prefs.images /\ r \in Kept THEN {r} ELSE {})
    <2> DEFINE New(x) == [dirs[x] EXCEPT !.rows = IF x = pool THEN @ \cup {r} ELSE @,
                                         !.files = IF x = prefs.images /\ r \in Kept THEN @ \cup {r} ELSE @]
    <2>1. dirs' = [x \in Dir |-> New(x)]
      BY <1>2 DEF StoreEntry
    <2>2. /\ New(d) \in Place
          /\ New(d).there = dirs[d].there /\ New(d).identity = dirs[d].identity /\ New(d).whole = dirs[d].whole
          /\ New(d).prefs = dirs[d].prefs
          /\ New(d).rows = dirs[d].rows \cup (IF d = pool THEN {r} ELSE {})
          /\ New(d).files = dirs[d].files \cup (IF d = prefs.images /\ r \in Kept THEN {r} ELSE {})
      BY <1>1 DEF Place
    <2> HIDE DEF New
    <2> QED  BY <1>2, <2>1, <2>2
  <1>3. ASSUME DeleteEntry(r), NEW d \in Dir
        PROVE  /\ Same(d)
               /\ dirs'[d].rows = dirs[d].rows \ (IF d = pool THEN {r} ELSE {})
               /\ dirs'[d].files = dirs[d].files \ (IF d = prefs.images THEN {r} ELSE {})
    <2> DEFINE one == [dirs EXCEPT ![pool] = [dirs[pool] EXCEPT !.rows = @ \ {r}]]
    <2>1. pool \in Dir /\ dirs[pool] \in Place
      BY <1>1, <1>3 DEF DeleteEntry, StorageShape, PlacesShape, CourseShape, Works, Copies
    <2>2. dirs' = [one EXCEPT ![prefs.images] = [one[prefs.images] EXCEPT !.files = @ \ {r}]]
      BY <1>3 DEF DeleteEntry
    <2>3. one \in [Dir -> Place] /\ one[d] = IF d = pool THEN [dirs[d] EXCEPT !.rows = @ \ {r}] ELSE dirs[d]
      BY <1>1, <2>1 DEF Place
    <2>4. dirs'[d] = IF d = prefs.images THEN [one[d] EXCEPT !.files = @ \ {r}] ELSE one[d]
      BY <1>1, <2>2, <2>3
    <2> HIDE DEF one
    <2> QED  BY <1>1, <2>1, <2>3, <2>4 DEF Place
  <1>4. StoreEntry(r) \/ DeleteEntry(r) => \E f : dirs' = [d \in Dir |-> f[d]]
    BY <1>1 DEF StoreEntry, DeleteEntry
  <1> QED  BY <1>2, <1>3, <1>4

\* A step of any other kind leaves the directories alone.
LEMMA EntriesFrame ==
  ASSUME NEW r \in Datum, StoreEntry(r) \/ DeleteEntry(r)
  PROVE  /\ UNCHANGED <<manifest, pool, prefs, reset, work, backup, wanted>> /\ pool # "closed"
         /\ StoreEntry(r) => /\ saved' = saved \cup {r}
                             /\ r \in Kept => lock = "nobody" /\ ("astray" \notin marks' => prefs.images = manifest)
         /\ DeleteEntry(r) => saved' = saved \ {r} /\ lock = "nobody"
  <1>1. UNCHANGED <<manifest, pool, prefs, reset, work, backup, wanted>> /\ pool # "closed"
    BY DEF StoreEntry, DeleteEntry
  <1>2. StoreEntry(r) => /\ saved' = saved \cup {r}
                         /\ r \in Kept => lock = "nobody" /\ ("astray" \notin marks' => prefs.images = manifest)
    BY DEF StoreEntry, Astray
  <1>3. DeleteEntry(r) => saved' = saved \ {r} /\ lock = "nobody"
    BY DEF DeleteEntry
  <1> QED  BY <1>1, <1>2, <1>3

\* What went wrong stays noted, but for stores that were led elsewhere again.
LEMMA MarksStay == [StorageNext]_storageVars => marks \ {"stranded"} \subseteq marks'
  BY DEF StorageNext, storageVars, StoreEntry, DeleteEntry, Edit, ResetFile, ResetMemory, Resolve, BeginMove,
     Overwrite,
         Copied, SetManifest, Reopen, GiveUpMove, LoadPrefs, Rebase, RebaseImages, RebaseFails, RemoveOld, BeginExport, FinishExport, BeginMerge,
         MergeRows, MergePrefs, BeginReplace, ReplaceRows, ReplaceFiles, ReplacePrefs, GiveUp, Unplug, PlugIn,
         StorageCrash, Astray, Overlap

\* One more is counted.
LEMMA UseCounts ==
  ASSUME used \in Counts, NEW what \in {"edits", "moves", "faults"}, NEW bound, Use(what, bound)
  PROVE  used' \in Counts
  BY DEF Use, Counts

\* The data keeps its shape.
LEMMA StorageShapeStays ==
  ASSUME StorageShape, [StorageNext]_storageVars
  PROVE  StorageShape'
  <1>0. StorageShape
    OBVIOUS
  <1>2. CASE UNCHANGED storageVars
    BY <1>0, <1>2 DEF storageVars, StorageShape, PlacesShape, CourseShape, Idle
  <1>3. CASE \E r \in Datum : StoreEntry(r)
    <2>1. PlacesShape'
      BY <1>0, <1>3, EntryEffects DEF Dir, StorageShape, CourseShape, Works, Copies, PlacesShape
    <2>2. CourseShape'
      BY <1>0, <1>3 DEF StoreEntry, StorageShape, PlacesShape, Place, Dir, CourseShape, Works, Copies, Idle,
         Moving, Switching, Based, Importing
    <2> QED  BY <2>1, <2>2 DEF StorageShape
  <1>4. CASE \E r \in Datum : DeleteEntry(r)
    <2>1. PlacesShape'
      BY <1>0, <1>4, EntryEffects DEF Dir, StorageShape, CourseShape, Works, Copies, PlacesShape
    <2>2. CourseShape'
      BY <1>0, <1>4 DEF DeleteEntry, StorageShape, PlacesShape, Place, Dir, CourseShape, Works, Copies, Idle,
         Moving, Switching, Based, Importing
    <2> QED  BY <2>1, <2>2 DEF StorageShape
  <1>5. CASE Edit
    <2>1. PlacesShape'
      BY <1>0, <1>5, EditDoes DEF Now, StorageShape, PlacesShape, CourseShape, Dir
    <2>2. CourseShape'
      <3>1. UNCHANGED <<manifest, pool, reset, lock, work, backup, saved>>
        BY <1>0, <1>5 DEF Edit, Counts, StorageShape, CourseShape
      <3>2. used.edits \in Nat /\ used.edits < MaxEdits /\ used \in Counts
        BY <1>0, <1>5 DEF StorageShape, CourseShape, Counts, Edit, Use
      <3>3. used.edits + 1 \in Edition
        BY <3>2, NextEdition
      <3>4. used' \in Counts /\ wanted' \in Edition /\ prefs' \in [path : Dir, value : Edition, images : Dir]
        BY <1>0, <1>5, <3>2, <3>3, UseCounts DEF Edit, StorageShape, CourseShape
      <3> QED  BY <1>0, <3>1, <3>4 DEF StorageShape, CourseShape, NoWork, Idle, Moving, Switching, Based, Importing
    <2> QED  BY <2>1, <2>2 DEF StorageShape
  <1>6. CASE ResetFile
    <2>1. PlacesShape'
      BY <1>0, <1>6, ResetFileDoes DEF Now, StorageShape, PlacesShape, CourseShape, Dir
    <2>2. CourseShape'
      <3>1. UNCHANGED <<manifest, pool, prefs, lock, work, backup, saved>> /\ reset' = TRUE /\ wanted' = 0
        BY <1>6 DEF ResetFile
      <3>2. used' \in Counts
        BY <1>0, <1>6, UseCounts DEF ResetFile, StorageShape, CourseShape
      <3> QED  BY Editions, <1>0, <3>1, <3>2 DEF StorageShape, CourseShape, Idle, Moving, Switching, Based, Importing
    <2> QED  BY <2>1, <2>2 DEF StorageShape
  <1>7. CASE ResetMemory
    <2>1. PlacesShape'
      BY <1>0, <1>7 DEF ResetMemory, StorageShape, PlacesShape, CourseShape, Dir
    <2>2. CourseShape'
      BY Editions, <1>0, <1>7 DEF ResetMemory, StorageShape, Dir, CourseShape, Works, Copies, Idle, Moving, Switching, Based, Importing
    <2> QED  BY <2>1, <2>2 DEF StorageShape
  <1>8. CASE Resolve
    <2>1. PlacesShape'
      BY <1>0, <1>8 DEF Resolve, Resolved, Leads, StorageShape, PlacesShape, CourseShape, Dir
    <2>2. CourseShape'
      <3>1. manifest' \in Dir /\ UNCHANGED <<pool, prefs, reset, lock, work, backup, saved, wanted, used>>
        BY <1>8 DEF Resolve, Resolved, Leads, Dir
      <3> QED  BY <1>0, <3>1 DEF StorageShape, CourseShape, Idle, Moving, Switching, Based, Importing
    <2> QED  BY <2>1, <2>2 DEF StorageShape
  <1>9. CASE \E to \in Dir : BeginMove(to)
    <2>1. PlacesShape'
      BY <1>0, <1>9 DEF BeginMove, Overlap, Take, MayMoveTo, Use, NoWork, StorageShape, PlacesShape, CourseShape, Dir
    <2>2. CourseShape'
      <3> PICK to \in Dir : BeginMove(to)
        BY <1>9
      <3>1. UNCHANGED <<manifest, prefs, reset, backup, saved, wanted>>
        BY <1>0, <1>9 DEF BeginMove, Overlap, Take, NoWork, Works, Moving, StorageShape, CourseShape
      <3>2. used' \in Counts /\ pool' = "closed" /\ lock' = "move"
        BY <1>0, <1>9, UseCounts DEF BeginMove, Overlap, Take, NoWork, Works, Moving, StorageShape, CourseShape
      <3>3. work' \in Works /\ work'.at = "copying" /\ work'.from # work'.to
        BY Editions, <1>0, <1>9 DEF BeginMove, Overlap, Take, NoWork, Works, Moving, StorageShape, CourseShape
      <3> QED  BY <1>0, <3>1, <3>2, <3>3 DEF StorageShape, CourseShape, NoWork, Idle, Moving, Switching, Based, Importing
    <2> QED  BY <2>1, <2>2 DEF StorageShape
  <1>10. CASE Overwrite
    <2>1. PlacesShape'
      BY <1>0, <1>10, OverwriteDoes DEF Now, StorageShape, PlacesShape, CourseShape, Dir
    <2>2. CourseShape'
      BY <1>0, <1>10 DEF Overwrite, Empty, StorageShape, Dir, CourseShape, Works, Copies, Idle, Moving, Switching, Based,
         Importing
    <2> QED  BY <2>1, <2>2 DEF StorageShape
  <1>11. CASE Copied
    <2>1. PlacesShape'
      BY <1>0, <1>11, CopiedDoes DEF Now, StorageShape, PlacesShape, CourseShape, Dir
    <2>2. CourseShape'
      BY <1>0, <1>11 DEF Copied, StorageShape, Dir, CourseShape, Works, Copies, Idle, Moving, Switching, Based, Importing
    <2> QED  BY <2>1, <2>2 DEF StorageShape
  <1>12. CASE SetManifest
    <2>1. PlacesShape'
      BY <1>0, <1>12 DEF SetManifest, StorageShape, PlacesShape, CourseShape, Dir
    <2>2. CourseShape'
      BY <1>0, <1>12 DEF SetManifest, StorageShape, Dir, CourseShape, Works, Copies, Idle, Moving, Switching, Based,
         Importing
    <2> QED  BY <2>1, <2>2 DEF StorageShape
  <1>13. CASE Reopen
    <2>1. PlacesShape'
      BY <1>0, <1>13 DEF Reopen, Resolved, Leads, StorageShape, PlacesShape, CourseShape, Dir
    <2>2. CourseShape'
      BY <1>0, <1>13 DEF Reopen, Resolved, Leads, StorageShape, Dir, CourseShape, Works, Copies, Idle, Moving, Switching, Based,
         Importing
    <2> QED  BY <2>1, <2>2 DEF StorageShape
  <1>14. CASE GiveUpMove
    <2>1. PlacesShape'
      BY <1>0, <1>14 DEF GiveUpMove, Use, NoWork, StorageShape, PlacesShape, CourseShape, Dir
    <2>2. CourseShape'
      <3>1. UNCHANGED <<prefs, reset, backup, saved, wanted>> /\ work' = NoWork /\ lock' = "nobody"
        BY <1>14 DEF GiveUpMove
      <3>2. manifest' \in Dir /\ pool' \in Dir \cup {"closed"}
        BY <1>0, <1>14 DEF GiveUpMove, Leads, Dir, StorageShape, CourseShape, Works
      <3>3. used' \in Counts
        BY <1>0, <1>14, UseCounts DEF GiveUpMove, StorageShape, CourseShape
      <3>4. NoWork \in Works /\ NoWork.at = "idle"
        BY Editions DEF NoWork, Works, Dir
      <3> QED  BY <1>0, <3>1, <3>2, <3>3, <3>4 DEF StorageShape, CourseShape, Idle, Moving, Switching, Based, Importing
    <2> QED  BY <2>1, <2>2 DEF StorageShape
  <1>15. CASE LoadPrefs
    <2>1. PlacesShape'
      BY <1>0, <1>15 DEF LoadPrefs, StorageShape, PlacesShape, CourseShape, Dir
    <2>2. CourseShape'
      BY <1>0, <1>15 DEF LoadPrefs, StorageShape, PlacesShape, Place, Dir, CourseShape, Works, Copies, Idle,
         Moving, Switching, Based, Importing
    <2> QED  BY <2>1, <2>2 DEF StorageShape
  <1>16. CASE Rebase
    <2>1. PlacesShape'
      BY <1>0, <1>16 DEF Rebase, StorageShape, PlacesShape, CourseShape, Dir
    <2>2. CourseShape'
      BY <1>0, <1>16 DEF Rebase, StorageShape, Dir, CourseShape, Works, Copies, Idle, Moving, Switching, Based, Importing
    <2> QED  BY <2>1, <2>2 DEF StorageShape
  <1>17. CASE RemoveOld
    <2>1. /\ UNCHANGED <<manifest, pool, prefs, reset, backup, saved, wanted>> /\ work' = NoWork
          /\ dirs' \in [Dir -> Place] /\ dirs'["default"].there = dirs["default"].there
      BY <1>0, <1>17, RemoveOldDoes DEF Dir
    <2>2. used' \in Counts /\ lock' = "nobody"
      BY <1>0, <1>17, UseCounts DEF RemoveOld, StorageShape, CourseShape
    <2>3. NoWork \in Works /\ NoWork.at = "idle"
      BY Editions DEF NoWork, Works, Dir
    <2> QED  BY <1>0, <2>1, <2>2, <2>3 DEF StorageShape, PlacesShape, CourseShape, Idle, Moving, Switching, Based,
                Importing
  <1>18. CASE BeginExport
    <2>1. PlacesShape'
      BY <1>0, <1>18 DEF BeginExport, Take, Use, NoWork, NoBackup, StorageShape, PlacesShape, CourseShape, Dir
    <2>2. CourseShape'
      <3>1. UNCHANGED <<manifest, pool, prefs, reset, saved, wanted>>
        BY <1>0, <1>18 DEF BeginExport, Take, NoWork, NoBackup, Works, Copies, PlacesShape, Place, Dir,
           StorageShape, CourseShape
      <3>2. used' \in Counts /\ pool # "closed" /\ lock' = "export"
        BY <1>0, <1>18, UseCounts DEF BeginExport, Take, NoWork, NoBackup, Works, Copies, PlacesShape, Place, Dir,
           StorageShape, CourseShape
      <3>3. work' \in Works /\ work'.at = "export"
        BY Editions, <1>0, <1>18 DEF BeginExport, Take, NoWork, NoBackup, Works, Copies, PlacesShape, Place, Dir,
           StorageShape, CourseShape
      <3>4. backup' \in Copies
        BY Editions, <1>0, <1>18 DEF BeginExport, Take, NoWork, NoBackup, Works, Copies, PlacesShape, Place, Dir,
           StorageShape, CourseShape
      <3> QED  BY <1>0, <3>1, <3>2, <3>3, <3>4 DEF StorageShape, CourseShape, NoWork, Idle, Moving, Switching, Based, Importing
    <2> QED  BY <2>1, <2>2 DEF StorageShape
  <1>19. CASE FinishExport
    <2>1. PlacesShape'
      BY <1>0, <1>19 DEF FinishExport, NoWork, StorageShape, PlacesShape, CourseShape, Dir
    <2>2. CourseShape'
      <3>1. UNCHANGED <<manifest, pool, prefs, reset, saved, wanted, used>>
        BY <1>0, <1>19 DEF FinishExport, NoWork, Works, Copies, PlacesShape, Place, Dir, StorageShape, CourseShape
      <3>2. work' = NoWork /\ NoWork \in Works /\ lock' = "nobody"
        BY Editions, <1>0, <1>19 DEF FinishExport, NoWork, Works, Copies, PlacesShape, Place, Dir, StorageShape, CourseShape
      <3>3. backup' \in Copies
        BY <1>0, <1>19 DEF FinishExport, NoWork, Works, Copies, PlacesShape, Place, Dir, StorageShape, CourseShape
      <3> QED  BY <1>0, <3>1, <3>2, <3>3 DEF StorageShape, CourseShape, NoWork, Idle, Moving, Switching, Based, Importing
    <2> QED  BY <2>1, <2>2 DEF StorageShape
  <1>20. CASE BeginMerge
    <2>1. PlacesShape'
      BY <1>0, <1>20, BeginMergeDoes DEF Now, StorageShape, PlacesShape, CourseShape, Dir
    <2>2. CourseShape'
      BY Editions, <1>0, <1>20, UseCounts DEF BeginMerge, Take, NoWork, StorageShape, Dir, CourseShape, Works, Copies, Idle,
         Moving, Switching, Based, Importing
    <2> QED  BY <2>1, <2>2 DEF StorageShape
  <1>21. CASE MergeRows
    <2>1. PlacesShape'
      BY <1>0, <1>21, MergeRowsDoes DEF Now, StorageShape, PlacesShape, CourseShape, Dir
    <2>2. CourseShape'
      BY <1>0, <1>21 DEF MergeRows, StorageShape, PlacesShape, Place, Dir, CourseShape, Works, Copies, Idle,
         Moving, Switching, Based, Importing
    <2> QED  BY <2>1, <2>2 DEF StorageShape
  <1>22. CASE MergePrefs
    <2>1. PlacesShape'
      BY <1>0, <1>22, MergePrefsDoes DEF Now, StorageShape, PlacesShape, CourseShape, Dir
    <2>2. CourseShape'
      BY Editions, <1>0, <1>22 DEF MergePrefs, NoWork, StorageShape, Dir, CourseShape, Works, Copies, Idle, Moving,
         Switching, Based, Importing
    <2> QED  BY <2>1, <2>2 DEF StorageShape
  <1>23. CASE BeginReplace
    <2>1. PlacesShape'
      BY <1>0, <1>23, BeginReplaceDoes DEF Now, StorageShape, PlacesShape, CourseShape, Dir
    <2>2. CourseShape'
      BY Editions, <1>0, <1>23, UseCounts DEF BeginReplace, Take, NoWork, StorageShape, Dir, CourseShape, Works, Copies,
         Idle, Moving, Switching, Based, Importing
    <2> QED  BY <2>1, <2>2 DEF StorageShape
  <1>24. CASE ReplaceRows
    <2>1. PlacesShape'
      BY <1>0, <1>24, ReplaceRowsDoes DEF Now, StorageShape, PlacesShape, CourseShape, Dir
    <2>2. CourseShape'
      BY <1>0, <1>24 DEF ReplaceRows, StorageShape, Dir, CourseShape, Works, Copies, Idle, Moving, Switching, Based,
         Importing
    <2> QED  BY <2>1, <2>2 DEF StorageShape
  <1>25. CASE ReplaceFiles
    <2>1. PlacesShape'
      BY <1>0, <1>25, ReplaceFilesDoes DEF Now, StorageShape, PlacesShape, CourseShape, Dir
    <2>2. CourseShape'
      BY <1>0, <1>25 DEF ReplaceFiles, StorageShape, Dir, CourseShape, Works, Copies, Idle, Moving, Switching, Based,
         Importing
    <2> QED  BY <2>1, <2>2 DEF StorageShape
  <1>26. CASE ReplacePrefs
    <2>1. PlacesShape'
      BY <1>0, <1>26, ReplacePrefsDoes DEF Now, ReplacePrefs, StorageShape, PlacesShape, CourseShape, Dir
    <2>2. CourseShape'
      <3>1. UNCHANGED <<manifest, pool, reset, backup, saved, used>> /\ backup.prefs \in Edition /\ wanted \in Edition
        BY <1>0, <1>26 DEF ReplacePrefs, StorageShape, CourseShape, Copies
      <3>2. prefs' \in [path : Dir, value : Edition, images : Dir] /\ wanted' \in Edition
        BY <1>0, <1>26, <3>1 DEF ReplacePrefs, StorageShape, CourseShape
      <3>3. \/ work' = [work EXCEPT !.at = "written back"] /\ lock' = lock /\ work.at = "restored"
            \/ work' = NoWork /\ lock' = "nobody"
        BY <1>26 DEF ReplacePrefs
      <3>4. CASE work' = NoWork /\ lock' = "nobody"
        BY Editions, <1>0, <3>1, <3>2, <3>4 DEF StorageShape, CourseShape, Works, NoWork, Idle, Dir, Moving, Switching, Based,
           Importing
      <3>5. CASE work' = [work EXCEPT !.at = "written back"] /\ lock' = lock /\ work.at = "restored"
        <4>1. work' \in Works /\ work'.at = "written back" /\ work.at = "restored" /\ lock' = lock
          BY <1>0, <3>5 DEF StorageShape, CourseShape, Works, Importing
        <4> QED  BY <1>0, <3>1, <3>2, <4>1 DEF StorageShape, CourseShape, Idle, Moving, Switching, Based, Importing
      <3> QED  BY <3>3, <3>4, <3>5
    <2> QED  BY <2>1, <2>2 DEF StorageShape
  <1>27. CASE GiveUp
    <2>1. PlacesShape'
      BY <1>0, <1>27 DEF GiveUp, Use, NoWork, NoBackup, Wrecks, StorageShape, PlacesShape, CourseShape, Dir
    <2>2. CourseShape'
      BY Editions, <1>0, <1>27, UseCounts DEF GiveUp, NoWork, NoBackup, Wrecks, StorageShape, Dir, CourseShape, Works,
         Copies, Idle, Moving, Switching, Based, Importing
    <2> QED  BY <2>1, <2>2 DEF StorageShape
  <1>28. CASE Unplug
    <2>1. PlacesShape'
      BY <1>0, <1>28, UnplugDoes DEF Now, StorageShape, PlacesShape, CourseShape, Dir
    <2>2. CourseShape'
      <3>1. UNCHANGED <<manifest, pool, prefs, reset, lock, work, backup, saved, wanted>>
        BY <1>0, <1>28 DEF Unplug, StorageShape, CourseShape
      <3>2. used' \in Counts
        BY <1>0, <1>28, UseCounts DEF Unplug, StorageShape, CourseShape
      <3> QED  BY <1>0, <3>1, <3>2 DEF StorageShape, CourseShape, NoWork, Idle, Moving, Switching, Based, Importing
    <2> QED  BY <2>1, <2>2 DEF StorageShape
  <1>29. CASE PlugIn
    <2>1. PlacesShape'
      BY <1>0, <1>29, PlugInDoes DEF Now, StorageShape, PlacesShape, CourseShape, Dir
    <2>2. CourseShape'
      <3>1. UNCHANGED <<manifest, pool, prefs, reset, lock, work, backup, saved, wanted, used>>
        BY <1>0, <1>29 DEF PlugIn, StorageShape, CourseShape
      <3> QED  BY <1>0, <3>1 DEF StorageShape, CourseShape, NoWork, Idle, Moving, Switching, Based, Importing
    <2> QED  BY <2>1, <2>2 DEF StorageShape
  <1>30. CASE StorageCrash
    <2>1. PlacesShape'
      BY <1>0, <1>30 DEF StorageCrash, Use, NoWork, NoBackup, Wrecks, Resolved, Leads, StorageShape, PlacesShape,
         CourseShape, Dir
    <2>2. CourseShape'
      BY Editions, <1>0, <1>30, UseCounts DEF StorageCrash, NoWork, NoBackup, Wrecks, Resolved, Leads, StorageShape, PlacesShape,
         Place, Dir, CourseShape, Works, Copies, Idle, Moving, Switching, Based, Importing
    <2> QED  BY <2>1, <2>2 DEF StorageShape
  <1>31. CASE RebaseImages
    <2>1. PlacesShape'
      BY <1>0, <1>31 DEF RebaseImages, StorageShape, PlacesShape, CourseShape, Dir
    <2>2. CourseShape'
      BY <1>0, <1>31 DEF RebaseImages, StorageShape, Dir, CourseShape, Works, Copies, Idle, Moving, Switching, Based,
         Importing
    <2> QED  BY <2>1, <2>2 DEF StorageShape
  <1>32. CASE RebaseFails
    <2>1. PlacesShape'
      BY <1>0, <1>32 DEF RebaseFails, Use, NoWork, StorageShape, PlacesShape, CourseShape, Dir
    <2>2. CourseShape'
      BY Editions, <1>0, <1>32, UseCounts DEF RebaseFails, NoWork, StorageShape, Dir, CourseShape, Works, Copies, Idle,
         Moving, Switching, Based, Importing
    <2> QED  BY <2>1, <2>2 DEF StorageShape
  <1> QED  BY <1>0, <1>2, <1>3, <1>4, <1>5, <1>6, <1>7, <1>8, <1>9, <1>10, <1>11, <1>12, <1>13, <1>14, <1>15, <1>16,
                <1>17, <1>18, <1>19, <1>20, <1>21, <1>22, <1>23, <1>24, <1>25, <1>26, <1>27, <1>28, <1>29, <1>30,
                <1>31, <1>32 DEF StorageNext

\* A step that leads the stores elsewhere, or a start, is what ends their being stranded.
LEMMA StrandedStays == [StorageNext]_storageVars => RebaseImages \/ StorageCrash \/ marks \subseteq marks'
  BY DEF StorageNext, storageVars, StoreEntry, DeleteEntry, Edit, ResetFile, ResetMemory, Resolve, BeginMove,
         Overwrite, Copied, SetManifest, Reopen, GiveUpMove, LoadPrefs, Rebase, RebaseFails, RemoveOld, BeginExport,
         FinishExport, BeginMerge, MergeRows, MergePrefs, BeginReplace, ReplaceRows, ReplaceFiles, ReplacePrefs,
         GiveUp, Unplug, PlugIn, Astray, Overlap

\* While no disk is unplugged, the manifest, the database and the stores agree as far as the move has
\* come: after a step that leads them,
LEMMA InPlaceLed ==
  ASSUME StorageShape, InPlace, RebaseImages \/ StorageCrash
  PROVE  InPlace'
  <1>1. CASE RebaseImages
    BY <1>1 DEF RebaseImages, InPlace, Dir, Idle, Moving, Switching, Based, Importing, StorageShape,
       PlacesShape, CourseShape, Works, Copies
  <1>2. CASE StorageCrash
    BY <1>2 DEF StorageCrash, Use, NoWork, NoBackup, Wrecks, Resolved, Leads, InPlace, Dir, Idle, Moving,
       Switching, Based, Importing, StorageShape, PlacesShape, CourseShape, Works, Copies
  <1> QED  BY <1>1, <1>2

\* and after any other.
LEMMA InPlaceStays ==
  ASSUME StorageShape, "unplugged" \notin marks => InPlace, "unplugged" \notin marks', [StorageNext]_storageVars,
         marks \subseteq marks'
  PROVE  InPlace'
  <1>0. StorageShape /\ InPlace /\ "unplugged" \notin marks'
    BY MarksStay
  <1>1. /\ manifest \in Dir /\ pool \in Dir \cup {"closed"} /\ prefs.path \in Dir /\ work.from \in Dir /\ work.to \in Dir
        /\ work.at \in Moving \cup Switching \cup Based => work.from # work.to
        /\ work.at \in Importing => backup.there
        /\ work.at \in {"export", "merging", "merged"} => pool # "closed"
        /\ dirs["default"].there /\ (Idle <=> lock = "nobody")
    BY <1>0 DEF StorageShape, PlacesShape, CourseShape, Works, Copies
  <1>2. CASE UNCHANGED storageVars
    BY <1>0, <1>2 DEF storageVars, InPlace, Dir, Idle, Moving, Switching, Based, Importing
  <1>3. CASE \E r \in Datum : StoreEntry(r)
    <2> PICK r \in Datum : StoreEntry(r)
      BY <1>3
    <2>1. \A o \in Dir : /\ dirs'[o].there = dirs[o].there
                         /\ dirs'[o].identity = dirs[o].identity
      BY <1>0, EntryEffects
    <2>2. /\ UNCHANGED <<manifest, pool, prefs, reset, work, backup, wanted>> /\ pool # "closed"
      BY EntriesFrame
    <2> QED  BY <1>0, <1>1, <2>1, <2>2 DEF InPlace, Dir, Idle, Moving, Switching, Based, Importing
  <1>4. CASE \E r \in Datum : DeleteEntry(r)
    <2> PICK r \in Datum : DeleteEntry(r)
      BY <1>4
    <2>1. \A o \in Dir : /\ dirs'[o].there = dirs[o].there
                         /\ dirs'[o].identity = dirs[o].identity
      BY <1>0, EntryEffects
    <2>2. /\ UNCHANGED <<manifest, pool, prefs, reset, work, backup, wanted>> /\ pool # "closed"
      BY EntriesFrame
    <2> QED  BY <1>0, <1>1, <2>1, <2>2 DEF InPlace, Dir, Idle, Moving, Switching, Based, Importing
  <1>5. CASE Edit
    <2>1. \A o \in Dir : /\ dirs'[o].there = dirs[o].there
                         /\ dirs'[o].identity = dirs[o].identity
      BY <1>0, <1>5, EditDoes DEF Now
    <2>2. /\ UNCHANGED <<manifest, pool, reset, work, backup, saved>>
          /\ prefs'.path = prefs.path /\ prefs'.images = prefs.images /\ prefs'.value = wanted'
          /\ "overlap" \notin marks' => ~reset /\ Idle
          /\ "astray" \notin marks' => prefs.path = manifest
      BY <1>0, <1>5, EditDoes
    <2> QED  BY <1>0, <1>5, <1>1, <2>1, <2>2 DEF Turns, InPlace, Dir, Idle, Moving, Switching, Based, Importing
  <1>6. CASE ResetFile
    <2>1. \A o \in Dir : /\ dirs'[o].there = dirs[o].there
                         /\ dirs'[o].identity = dirs[o].identity
      BY <1>0, <1>6, ResetFileDoes DEF Now
    <2>2. /\ UNCHANGED <<manifest, pool, prefs, work, backup, saved>> /\ reset' = TRUE /\ wanted' = 0
          /\ "overlap" \notin marks' => Idle
          /\ "astray" \notin marks' => prefs.path = manifest
      BY <1>0, <1>6, ResetFileDoes
    <2> QED  BY <1>0, <1>6, <1>1, <2>1, <2>2 DEF Turns, InPlace, Dir, Idle, Moving, Switching, Based, Importing
  <1>7. CASE ResetMemory
    BY <1>0, <1>1, <1>7 DEF ResetMemory, InPlace, Dir, Idle, Moving, Switching, Based, Importing, StorageShape,
       PlacesShape, CourseShape, Works, Copies
  <1>8. CASE Resolve
    BY <1>0, <1>1, <1>8 DEF Resolve, Resolved, Leads, InPlace, Dir
  <1>9. CASE \E to \in Dir : BeginMove(to)
    <2> PICK to \in Dir : BeginMove(to)
      BY <1>9
    <2>1. /\ UNCHANGED <<dirs, manifest, prefs>> /\ work.at = "idle" /\ pool' = "closed"
          /\ work'.at = "copying" /\ work'.from = manifest /\ work'.to = to /\ dirs[to].there
      BY DEF BeginMove, Take, Idle, NoWork, MayMoveTo
    <2> QED  BY <1>0, <1>1, <2>1 DEF InPlace, Dir, Idle, Moving, Switching, Based, Importing
  <1>10. CASE Overwrite
    <2>1. \A o \in Dir : /\ dirs'[o].there = IF o = work.to THEN TRUE ELSE dirs[o].there
                         /\ dirs'[o].identity = dirs[o].identity
      BY <1>0, <1>10, OverwriteDoes DEF Now
    <2>2. /\ UNCHANGED <<manifest, pool, prefs, reset, backup, saved, wanted>>
          /\ work.at = "copying" /\ Turns("written", work.from, work.to)
      BY <1>0, <1>10, OverwriteDoes
    <2> QED  BY <1>0, <1>10, <1>1, <2>1, <2>2 DEF Turns, InPlace, Dir, Idle, Moving, Switching, Based, Importing
  <1>11. CASE Copied
    <2>1. \A o \in Dir : /\ dirs'[o].there = IF o = work.to THEN dirs[work.from].there ELSE dirs[o].there
                         /\ dirs'[o].identity = IF o = work.to THEN TRUE ELSE dirs[o].identity
      BY <1>0, <1>11, CopiedDoes DEF Now
    <2>2. /\ UNCHANGED <<manifest, pool, prefs, reset, backup, saved, wanted>>
          /\ work.at = "written" /\ dirs[work.from].there /\ Turns("copied", work.from, work.to)
      BY <1>0, <1>11, CopiedDoes
    <2> QED  BY <1>0, <1>11, <1>1, <2>1, <2>2 DEF Turns, InPlace, Dir, Idle, Moving, Switching, Based, Importing
  <1>12. CASE SetManifest
    BY <1>0, <1>1, <1>12 DEF SetManifest, InPlace, Dir, Idle, Moving, Switching, Based, Importing, StorageShape,
       PlacesShape, CourseShape, Works, Copies
  <1>13. CASE Reopen
    BY <1>0, <1>1, <1>13 DEF Reopen, Resolved, Leads, InPlace, Dir, Idle, Moving, Switching, Based, Importing, StorageShape,
       PlacesShape, CourseShape, Works, Copies
  <1>14. CASE GiveUpMove
    <2>1. /\ UNCHANGED <<dirs, prefs>> /\ work.at \in Moving /\ work'.at = "idle" /\ work'.to = "default"
          /\ manifest' \in {manifest, work.from, Leads(work.from)} /\ pool' \in {manifest', pool}
          /\ manifest' # work.from => "stranded" \in marks'
      BY <1>14 DEF GiveUpMove, NoWork, Moving
    <2>2. Leads(work.from) = work.from
      BY <1>0, <1>14 DEF GiveUpMove
    <2>3. pool = "closed"
      BY <1>0, <2>1 DEF InPlace, Moving, Idle
    <2>4. manifest' = "custom" => dirs["custom"].there /\ dirs["custom"].identity
      BY <1>0, <1>1, <2>1, <2>2 DEF InPlace, Leads, Dir
    <2>5. "stranded" \notin marks' => prefs.path = manifest' /\ prefs.images = manifest'
      BY <1>0, <1>1, <2>1, <2>2 DEF InPlace, Moving, Switching
    <2> QED  BY <2>1, <2>2, <2>3, <2>4, <2>5 DEF InPlace, Dir, Idle, Moving, Switching, Based
  <1>15. CASE LoadPrefs
    BY <1>0, <1>1, <1>15 DEF LoadPrefs, InPlace, Dir, Idle, Moving, Switching, Based, Importing, StorageShape,
       PlacesShape, CourseShape, Works, Copies
  <1>16. CASE Rebase
    BY <1>0, <1>1, <1>16 DEF Rebase, InPlace, Dir, Idle, Moving, Switching, Based, Importing, StorageShape, PlacesShape,
       CourseShape, Works, Copies
  <1>17. CASE RemoveOld
    <2>1. /\ UNCHANGED <<manifest, pool, prefs, reset, backup, saved, wanted, marks>>
          /\ work.at = "based" /\ work'.at = "idle" /\ work'.to = "default"
          /\ \A o \in Dir : dirs'[o].there = dirs[o].there /\ (o # work.from => dirs'[o] = dirs[o])
      BY <1>0, <1>17, RemoveOldDoes DEF NoWork
    <2>2. manifest = work.to /\ work.from # work.to
      BY <1>0, <1>1, <2>1 DEF InPlace, Based
    <2> QED  BY <1>0, <1>1, <2>1, <2>2 DEF InPlace, Dir, Idle, Moving, Switching, Based, Importing
  <1>18. CASE BeginExport
    BY <1>0, <1>1, <1>18 DEF BeginExport, Take, Use, NoWork, NoBackup, InPlace, Dir, Idle, Moving, Switching, Based,
       Importing, StorageShape, PlacesShape, CourseShape, Works, Copies
  <1>19. CASE FinishExport
    BY <1>0, <1>1, <1>19 DEF FinishExport, NoWork, InPlace, Dir, Idle, Moving, Switching, Based, Importing, StorageShape,
       PlacesShape, CourseShape, Works, Copies
  <1>20. CASE BeginMerge
    <2>1. \A o \in Dir : /\ dirs'[o].there = dirs[o].there
                         /\ dirs'[o].identity = dirs[o].identity
      BY <1>0, <1>20, BeginMergeDoes DEF Now
    <2>2. /\ UNCHANGED <<manifest, pool, prefs, reset, backup, saved, wanted>>
          /\ Idle /\ backup.there /\ manifest = pool /\ Turns("merging", "default", "default")
      BY <1>0, <1>20, BeginMergeDoes
    <2> QED  BY <1>0, <1>20, <1>1, <2>1, <2>2 DEF Turns, InPlace, Dir, Idle, Moving, Switching, Based, Importing
  <1>21. CASE MergeRows
    <2>1. \A o \in Dir : /\ dirs'[o].there = dirs[o].there
                         /\ dirs'[o].identity = dirs[o].identity
      BY <1>0, <1>21, MergeRowsDoes DEF Now
    <2>2. /\ UNCHANGED <<manifest, pool, prefs, reset, backup, wanted>> /\ saved' = saved \cup backup.rows
          /\ work.at = "merging" /\ Turns("merged", work.from, work.to)
      BY <1>0, <1>21, MergeRowsDoes
    <2> QED  BY <1>0, <1>21, <1>1, <2>1, <2>2 DEF Turns, InPlace, Dir, Idle, Moving, Switching, Based, Importing
  <1>22. CASE MergePrefs
    <2>1. \A o \in Dir : /\ dirs'[o].there = dirs[o].there
                         /\ dirs'[o].identity = dirs[o].identity
      BY <1>0, <1>22, MergePrefsDoes DEF Now
    <2>2. /\ UNCHANGED <<manifest, pool, reset, backup, saved>>
          /\ prefs'.path = prefs.path /\ prefs'.images = prefs.images
          /\ prefs'.value = backup.prefs /\ wanted' = backup.prefs
          /\ work.at = "merged" /\ Turns("idle", "default", "default")
          /\ "overlap" \notin marks' => ~reset
          /\ "astray" \notin marks' => prefs.path = manifest
      BY <1>0, <1>22, MergePrefsDoes
    <2> QED  BY <1>0, <1>22, <1>1, <2>1, <2>2 DEF Turns, InPlace, Dir, Idle, Moving, Switching, Based, Importing
  <1>23. CASE BeginReplace
    <2>1. \A o \in Dir : /\ dirs'[o].there = dirs[o].there
                         /\ dirs'[o].identity = dirs[o].identity
      BY <1>0, <1>23, BeginReplaceDoes DEF Now
    <2>2. /\ UNCHANGED <<manifest, prefs, reset, backup, saved, wanted>> /\ pool' = "closed"
          /\ Idle /\ backup.there /\ Turns("replacing", "default", "default")
          /\ "overlap" \notin marks' => ~reset
      BY <1>0, <1>23, BeginReplaceDoes
    <2> QED  BY <1>0, <1>23, <1>1, <2>1, <2>2 DEF Turns, InPlace, Dir, Idle, Moving, Switching, Based, Importing
  <1>24. CASE ReplaceRows
    <2>1. \A o \in Dir : /\ dirs'[o].there = dirs[o].there
                         /\ dirs'[o].identity = dirs[o].identity
      BY <1>0, <1>24, ReplaceRowsDoes DEF Now
    <2>2. /\ UNCHANGED <<manifest, pool, prefs, reset, backup, saved, wanted>>
          /\ work.at = "replacing" /\ Turns("replaced", work.from, work.to)
      BY <1>0, <1>24, ReplaceRowsDoes
    <2> QED  BY <1>0, <1>24, <1>1, <2>1, <2>2 DEF Turns, InPlace, Dir, Idle, Moving, Switching, Based, Importing
  <1>25. CASE ReplaceFiles
    <2>1. \A o \in Dir : /\ dirs'[o].there = dirs[o].there
                         /\ dirs'[o].identity = dirs[o].identity
      BY <1>0, <1>25, ReplaceFilesDoes DEF Now
    <2>2. /\ UNCHANGED <<manifest, prefs, reset, backup, wanted>> /\ pool' = manifest /\ saved' = backup.rows
          /\ work.at = "replaced" /\ Turns("restored", work.from, work.to)
      BY <1>0, <1>25, ReplaceFilesDoes
    <2> QED  BY <1>0, <1>25, <1>1, <2>1, <2>2 DEF Turns, InPlace, Dir, Idle, Moving, Switching, Based, Importing
  <1>26. CASE ReplacePrefs
    <2>1. CASE work.at = "restored"
      <3>1. \A o \in Dir : /\ dirs'[o].there = dirs[o].there
                           /\ dirs'[o].identity = dirs[o].identity
        BY <1>0, <1>26, <2>1, ReplacePrefsDoes DEF Now
      <3>2. /\ UNCHANGED <<manifest, pool, prefs, reset, backup, saved>> /\ wanted' = backup.prefs
            /\ Turns("written back", work.from, work.to)
            /\ "astray" \notin marks' => prefs.path = manifest
        BY <1>0, <1>26, <2>1, ReplacePrefsDoes
      <3> QED  BY <1>0, <1>26, <2>1, <1>1, <3>1, <3>2 DEF Turns, InPlace, Dir, Idle, Moving, Switching, Based, Importing
    <2>2. CASE work.at = "written back"
      <3>1. /\ UNCHANGED <<dirs, manifest, pool, reset, backup, saved, wanted>> /\ work' = NoWork
            /\ prefs'.path = prefs.path /\ prefs'.images = prefs.images /\ prefs'.value = backup.prefs
            /\ UNCHANGED marks
        BY <1>0, <1>26, <2>2 DEF ReplacePrefs, StorageShape, PlacesShape, CourseShape, Works, Copies
      <3> QED  BY <1>0, <1>1, <2>2, <3>1 DEF NoWork, InPlace, Dir, Idle, Moving, Switching, Based, Importing
    <2> QED  BY <1>26, <2>1, <2>2 DEF ReplacePrefs
  <1>27. CASE GiveUp
    BY <1>0, <1>1, <1>27 DEF GiveUp, Use, NoWork, NoBackup, Wrecks, InPlace, Dir, Idle, Moving, Switching, Based,
       Importing, StorageShape, PlacesShape, CourseShape, Works, Copies
  <1>28. CASE Unplug
    <2>1. \A o \in Dir : /\ dirs'[o].there = IF o = "custom" THEN FALSE ELSE dirs[o].there
                         /\ dirs'[o].identity = dirs[o].identity
      BY <1>0, <1>28, UnplugDoes DEF Now
    <2>2. /\ UNCHANGED <<manifest, pool, prefs, reset, work, backup, saved, wanted>>
          /\ "unplugged" \notin marks' => manifest # "custom" /\ work.to # "custom"
      BY <1>0, <1>28, UnplugDoes
    <2> QED  BY <1>0, <1>28, <1>1, <2>1, <2>2 DEF Turns, InPlace, Dir, Idle, Moving, Switching, Based, Importing
  <1>29. CASE PlugIn
    <2>1. \A o \in Dir : /\ dirs'[o].there = IF o = "custom" THEN TRUE ELSE dirs[o].there
                         /\ dirs'[o].identity = dirs[o].identity
      BY <1>0, <1>29, PlugInDoes DEF Now
    <2>2. /\ UNCHANGED <<manifest, pool, prefs, reset, work, backup, saved, wanted>>
      BY <1>0, <1>29, PlugInDoes
    <2> QED  BY <1>0, <1>29, <1>1, <2>1, <2>2 DEF Turns, InPlace, Dir, Idle, Moving, Switching, Based, Importing
  <1>30. CASE StorageCrash
    BY <1>0, <1>30, InPlaceLed
  <1>31. CASE RebaseImages
    BY <1>0, <1>31, InPlaceLed
  <1>32. CASE RebaseFails
    BY <1>0, <1>1, <1>32 DEF RebaseFails, Use, NoWork, InPlace, Dir, Idle, Moving, Switching, Based, Importing,
       StorageShape, PlacesShape, CourseShape, Works, Copies
  <1> QED  BY <1>2, <1>3, <1>4, <1>5, <1>6, <1>7, <1>8, <1>9, <1>10, <1>11, <1>12, <1>13, <1>14, <1>15, <1>16, <1>17,
                <1>18, <1>19, <1>20, <1>21, <1>22, <1>23, <1>24, <1>25, <1>26, <1>27, <1>28, <1>29, <1>30,
                <1>31, <1>32 DEF StorageNext

\* And while no import is cut off, the directories that may be opened have the whole history.
LEMMA HistoryKeptStays ==
  ASSUME StorageInv, "wrecked" \notin marks', "unplugged" \notin marks', [StorageNext]_storageVars
  PROVE  HistoryKept'
  <1>0. /\ StorageShape /\ InPlace /\ HistoryKept /\ "unplugged" \notin marks' /\ "wrecked" \notin marks'
        /\ "astray" \notin marks' => "astray" \notin marks
    BY MarksStay DEF StorageInv
  <1>1. /\ manifest \in Dir /\ pool \in Dir \cup {"closed"} /\ prefs.path \in Dir /\ work.from \in Dir /\ work.to \in Dir
        /\ work.at \in Moving \cup Switching \cup Based => work.from # work.to
        /\ work.at \in Importing => backup.there
        /\ work.at \in {"export", "merging", "merged"} => pool # "closed"
        /\ dirs["default"].there /\ (Idle <=> lock = "nobody")
    BY <1>0 DEF StorageShape, PlacesShape, CourseShape, Works, Copies
  <1>2. CASE UNCHANGED storageVars
    BY <1>0, <1>2 DEF storageVars, HistoryKept, InPlace, Whole, Filed, Dir, Idle, Moving, Switching, Based, Importing
  <1>3. CASE \E r \in Datum : StoreEntry(r)
    <2> PICK r \in Datum : StoreEntry(r)
      BY <1>3
    <2>1. \A o \in Dir : /\ dirs'[o].whole = dirs[o].whole
                         /\ dirs'[o].rows = dirs[o].rows \cup (IF o = pool THEN {r} ELSE {})
                         /\ dirs'[o].files = dirs[o].files \cup (IF o = prefs.images /\ r \in Kept THEN {r} ELSE {})
      BY <1>0, EntryEffects
    <2>2. /\ UNCHANGED <<manifest, pool, prefs, reset, work, backup, wanted>> /\ pool # "closed"
          /\ saved' = saved \cup {r}
          /\ r \in Kept => lock = "nobody" /\ ("astray" \notin marks' => prefs.images = manifest)
      BY EntriesFrame
    <2>3. pool = manifest /\ work.at \notin Moving \cup {"replacing", "replaced"}
      BY <1>0, <1>1, <2>2 DEF InPlace, Idle
    <2>4. lock = "nobody" => Idle
      BY <1>1
    <2>5. Whole(manifest)'
      BY <1>0, <1>1, <2>1, <2>2, <2>3, <2>4 DEF Whole, Filed, HistoryKept
    <2> QED  BY <1>0, <1>1, <2>1, <2>2, <2>3, <2>4, <2>5 DEF HistoryKept, Moving, Idle
  <1>4. CASE \E r \in Datum : DeleteEntry(r)
    <2> PICK r \in Datum : DeleteEntry(r)
      BY <1>4
    <2>1. \A o \in Dir : /\ dirs'[o].whole = dirs[o].whole
                         /\ dirs'[o].rows = dirs[o].rows \ (IF o = pool THEN {r} ELSE {})
                         /\ dirs'[o].files = dirs[o].files \ (IF o = prefs.images THEN {r} ELSE {})
      BY <1>0, EntryEffects
    <2>2. /\ UNCHANGED <<manifest, pool, prefs, reset, work, backup, wanted>> /\ pool # "closed"
          /\ saved' = saved \ {r} /\ lock = "nobody"
      BY EntriesFrame
    <2>3. pool = manifest /\ work.at \notin Moving \cup {"replacing", "replaced"}
      BY <1>0, <1>1, <2>2 DEF InPlace, Idle
    <2>4. lock = "nobody" => Idle
      BY <1>1
    <2>5. Whole(manifest)'
      BY <1>0, <1>1, <2>1, <2>2, <2>3, <2>4 DEF Whole, Filed, HistoryKept
    <2> QED  BY <1>0, <1>1, <2>1, <2>2, <2>3, <2>4, <2>5 DEF HistoryKept, Moving, Idle
  <1>5. CASE Edit
    <2>1. \A o \in Dir : /\ dirs'[o].whole = dirs[o].whole
                         /\ dirs'[o].rows = dirs[o].rows
                         /\ dirs'[o].files = dirs[o].files
      BY <1>0, <1>5, EditDoes DEF Now
    <2>2. /\ UNCHANGED <<manifest, pool, reset, work, backup, saved>>
          /\ prefs'.path = prefs.path /\ prefs'.images = prefs.images /\ prefs'.value = wanted'
          /\ "overlap" \notin marks' => ~reset /\ Idle
          /\ "astray" \notin marks' => prefs.path = manifest
      BY <1>0, <1>5, EditDoes
    <2> QED  BY <1>0, <1>5, <1>1, <2>1, <2>2 DEF Turns, HistoryKept, InPlace, Whole, Filed, Dir, Idle, Moving, Switching, Based, Importing
  <1>6. CASE ResetFile
    <2>1. \A o \in Dir : /\ dirs'[o].whole = dirs[o].whole
                         /\ dirs'[o].rows = dirs[o].rows
                         /\ dirs'[o].files = dirs[o].files
      BY <1>0, <1>6, ResetFileDoes DEF Now
    <2>2. /\ UNCHANGED <<manifest, pool, prefs, work, backup, saved>> /\ reset' = TRUE /\ wanted' = 0
          /\ "overlap" \notin marks' => Idle
          /\ "astray" \notin marks' => prefs.path = manifest
      BY <1>0, <1>6, ResetFileDoes
    <2> QED  BY <1>0, <1>6, <1>1, <2>1, <2>2 DEF Turns, HistoryKept, InPlace, Whole, Filed, Dir, Idle, Moving, Switching, Based, Importing
  <1>7. CASE ResetMemory
    BY <1>0, <1>1, <1>7 DEF ResetMemory, HistoryKept, InPlace, Whole, Filed, Dir, Idle, Moving, Switching, Based, Importing,
       StorageShape, PlacesShape, CourseShape, Works, Copies
  <1>8. CASE Resolve
    BY <1>0, <1>1, <1>8 DEF Resolve, Resolved, Leads, HistoryKept, InPlace, Whole, Filed, Dir, Idle, Moving, Switching, Based,
       Importing, StorageShape, PlacesShape, CourseShape, Works, Copies
  <1>9. CASE \E to \in Dir : BeginMove(to)
    <2> PICK to \in Dir : BeginMove(to)
      BY <1>9
    <2>1. /\ UNCHANGED <<dirs, manifest, prefs, reset, backup, saved, wanted>>
          /\ work.at = "idle" /\ work'.at = "copying" /\ work'.from = manifest /\ work'.to = to
      BY DEF BeginMove, Overlap, Take, Idle, NoWork
    <2>2. Whole(manifest) /\ ("astray" \notin marks /\ backup.there => backup.rows \cap Kept \subseteq backup.files)
      BY <1>0, <2>1 DEF HistoryKept
    <2>3. Whole(manifest)' /\ Whole(work.from)'
      BY <1>0, <2>1, <2>2 DEF Whole, Filed
    <2> QED  BY <1>0, <2>1, <2>2, <2>3 DEF HistoryKept, Moving
  <1>10. CASE Overwrite
    <2>1. \A o \in Dir : /\ dirs'[o].whole = IF o = work.to THEN FALSE ELSE dirs[o].whole
                         /\ dirs'[o].rows = IF o = work.to THEN {} ELSE dirs[o].rows
                         /\ dirs'[o].files = IF o = work.to THEN {} ELSE dirs[o].files
      BY <1>0, <1>10, OverwriteDoes DEF Now
    <2>2. /\ UNCHANGED <<manifest, pool, prefs, reset, backup, saved, wanted>>
          /\ work.at = "copying" /\ Turns("written", work.from, work.to)
      BY <1>0, <1>10, OverwriteDoes
    <2> QED  BY <1>0, <1>10, <1>1, <2>1, <2>2 DEF Turns, HistoryKept, InPlace, Whole, Filed, Dir, Idle, Moving, Switching, Based, Importing
  <1>11. CASE Copied
    <2>1. \A o \in Dir : /\ dirs'[o].whole = IF o = work.to THEN dirs[work.from].whole ELSE dirs[o].whole
                         /\ dirs'[o].rows = IF o = work.to THEN dirs[work.from].rows ELSE dirs[o].rows
                         /\ dirs'[o].files = IF o = work.to THEN dirs[work.from].files ELSE dirs[o].files
      BY <1>0, <1>11, CopiedDoes DEF Now
    <2>2. /\ UNCHANGED <<manifest, pool, prefs, reset, backup, saved, wanted>>
          /\ work.at = "written" /\ dirs[work.from].there /\ Turns("copied", work.from, work.to)
      BY <1>0, <1>11, CopiedDoes
    <2> QED  BY <1>0, <1>11, <1>1, <2>1, <2>2 DEF Turns, HistoryKept, InPlace, Whole, Filed, Dir, Idle, Moving, Switching, Based, Importing
  <1>12. CASE SetManifest
    BY <1>0, <1>1, <1>12 DEF SetManifest, HistoryKept, InPlace, Whole, Filed, Dir, Idle, Moving, Switching, Based, Importing,
       StorageShape, PlacesShape, CourseShape, Works, Copies
  <1>13. CASE Reopen
    BY <1>0, <1>1, <1>13 DEF Reopen, Resolved, Leads, HistoryKept, InPlace, Whole, Filed, Dir, Idle, Moving, Switching, Based,
       Importing, StorageShape, PlacesShape, CourseShape, Works, Copies
  <1>14. CASE GiveUpMove
    BY <1>0, <1>1, <1>14 DEF GiveUpMove, Use, NoWork, HistoryKept, InPlace, Whole, Filed, Dir, Idle, Moving, Switching, Based,
       Importing, StorageShape, PlacesShape, CourseShape, Works, Copies
  <1>15. CASE LoadPrefs
    BY <1>0, <1>1, <1>15 DEF LoadPrefs, HistoryKept, InPlace, Whole, Filed, Dir, Idle, Moving, Switching, Based, Importing,
       StorageShape, PlacesShape, CourseShape, Works, Copies
  <1>16. CASE Rebase
    BY <1>0, <1>1, <1>16 DEF Rebase, HistoryKept, InPlace, Whole, Filed, Dir, Idle, Moving, Switching, Based, Importing,
       StorageShape, PlacesShape, CourseShape, Works, Copies
  <1>17. CASE RemoveOld
    <2>1. /\ UNCHANGED <<manifest, pool, prefs, reset, backup, saved, wanted, marks>>
          /\ work.at = "based" /\ work'.at = "idle" /\ work'.to = "default"
          /\ \A o \in Dir : dirs'[o].there = dirs[o].there /\ (o # work.from => dirs'[o] = dirs[o])
      BY <1>0, <1>17, RemoveOldDoes DEF NoWork
    <2>2. manifest = work.to /\ work.from # work.to
      BY <1>0, <1>1, <2>1 DEF InPlace, Based
    <2> QED  BY <1>0, <1>1, <2>1, <2>2 DEF HistoryKept, InPlace, Whole, Filed, Dir, Idle, Moving, Switching, Based, Importing
  <1>18. CASE BeginExport
    BY <1>0, <1>1, <1>18 DEF BeginExport, Take, Use, NoWork, NoBackup, HistoryKept, InPlace, Whole, Filed, Dir, Idle,
       Moving, Switching, Based, Importing, StorageShape, PlacesShape, CourseShape, Works, Copies
  <1>19. CASE FinishExport
    <2>1. /\ UNCHANGED <<dirs, manifest, pool, saved, marks>> /\ work' = NoWork /\ work.at = "export"
          /\ backup'.rows = backup.rows /\ backup'.files = dirs[pool].files
      BY <1>0, <1>19 DEF FinishExport, StorageShape, PlacesShape, CourseShape, Works, Copies
    <2>2. pool = manifest
      BY <1>0, <1>1, <2>1 DEF InPlace, Moving, Idle
    <2>3. "astray" \notin marks => backup.rows \cap Kept \subseteq dirs[manifest].files
      BY <1>0, <2>1 DEF HistoryKept
    <2> QED  BY <1>0, <1>1, <2>1, <2>2, <2>3 DEF NoWork, HistoryKept, Whole, Filed, Moving
  <1>20. CASE BeginMerge
    <2>1. \A o \in Dir : /\ dirs'[o].whole = dirs[o].whole
                         /\ dirs'[o].rows = dirs[o].rows
                         /\ dirs'[o].files = IF o = pool THEN dirs[pool].files \cup backup.files ELSE dirs[o].files
      BY <1>0, <1>20, BeginMergeDoes DEF Now
    <2>2. /\ UNCHANGED <<manifest, pool, prefs, reset, backup, saved, wanted>>
          /\ Idle /\ backup.there /\ manifest = pool /\ Turns("merging", "default", "default")
      BY <1>0, <1>20, BeginMergeDoes
    <2> QED  BY <1>0, <1>20, <1>1, <2>1, <2>2 DEF Turns, HistoryKept, InPlace, Whole, Filed, Dir, Idle, Moving, Switching, Based, Importing
  <1>21. CASE MergeRows
    <2>1. \A o \in Dir : /\ dirs'[o].whole = dirs[o].whole
                         /\ dirs'[o].rows = IF o = pool THEN dirs[pool].rows \cup backup.rows ELSE dirs[o].rows
                         /\ dirs'[o].files = dirs[o].files
      BY <1>0, <1>21, MergeRowsDoes DEF Now
    <2>2. /\ UNCHANGED <<manifest, pool, prefs, reset, backup, wanted>> /\ saved' = saved \cup backup.rows
          /\ work.at = "merging" /\ Turns("merged", work.from, work.to)
      BY <1>0, <1>21, MergeRowsDoes
    <2> QED  BY <1>0, <1>21, <1>1, <2>1, <2>2 DEF Turns, HistoryKept, InPlace, Whole, Filed, Dir, Idle, Moving, Switching, Based, Importing
  <1>22. CASE MergePrefs
    <2>1. \A o \in Dir : /\ dirs'[o].whole = dirs[o].whole
                         /\ dirs'[o].rows = dirs[o].rows
                         /\ dirs'[o].files = dirs[o].files
      BY <1>0, <1>22, MergePrefsDoes DEF Now
    <2>2. /\ UNCHANGED <<manifest, pool, reset, backup, saved>>
          /\ prefs'.path = prefs.path /\ prefs'.images = prefs.images
          /\ prefs'.value = backup.prefs /\ wanted' = backup.prefs
          /\ work.at = "merged" /\ Turns("idle", "default", "default")
          /\ "overlap" \notin marks' => ~reset
          /\ "astray" \notin marks' => prefs.path = manifest
      BY <1>0, <1>22, MergePrefsDoes
    <2> QED  BY <1>0, <1>22, <1>1, <2>1, <2>2 DEF Turns, HistoryKept, InPlace, Whole, Filed, Dir, Idle, Moving, Switching, Based, Importing
  <1>23. CASE BeginReplace
    <2>1. \A o \in Dir : /\ dirs'[o].whole = IF o = manifest THEN FALSE ELSE dirs[o].whole
                         /\ dirs'[o].rows = dirs[o].rows
                         /\ dirs'[o].files = dirs[o].files
      BY <1>0, <1>23, BeginReplaceDoes DEF Now
    <2>2. /\ UNCHANGED <<manifest, prefs, reset, backup, saved, wanted>> /\ pool' = "closed"
          /\ Idle /\ backup.there /\ Turns("replacing", "default", "default")
          /\ "overlap" \notin marks' => ~reset
      BY <1>0, <1>23, BeginReplaceDoes
    <2> QED  BY <1>0, <1>23, <1>1, <2>1, <2>2 DEF Turns, HistoryKept, InPlace, Whole, Filed, Dir, Idle, Moving, Switching, Based, Importing
  <1>24. CASE ReplaceRows
    <2>1. \A o \in Dir : /\ dirs'[o].whole = IF o = manifest THEN TRUE ELSE dirs[o].whole
                         /\ dirs'[o].rows = IF o = manifest THEN backup.rows ELSE dirs[o].rows
                         /\ dirs'[o].files = dirs[o].files
      BY <1>0, <1>24, ReplaceRowsDoes DEF Now
    <2>2. /\ UNCHANGED <<manifest, pool, prefs, reset, backup, saved, wanted>>
          /\ work.at = "replacing" /\ Turns("replaced", work.from, work.to)
      BY <1>0, <1>24, ReplaceRowsDoes
    <2> QED  BY <1>0, <1>24, <1>1, <2>1, <2>2 DEF Turns, HistoryKept, InPlace, Whole, Filed, Dir, Idle, Moving, Switching, Based, Importing
  <1>25. CASE ReplaceFiles
    <2>1. \A o \in Dir : /\ dirs'[o].whole = dirs[o].whole
                         /\ dirs'[o].rows = dirs[o].rows
                         /\ dirs'[o].files = IF o = manifest THEN backup.files ELSE dirs[o].files
      BY <1>0, <1>25, ReplaceFilesDoes DEF Now
    <2>2. /\ UNCHANGED <<manifest, prefs, reset, backup, wanted>> /\ pool' = manifest /\ saved' = backup.rows
          /\ work.at = "replaced" /\ Turns("restored", work.from, work.to)
      BY <1>0, <1>25, ReplaceFilesDoes
    <2> QED  BY <1>0, <1>25, <1>1, <2>1, <2>2 DEF Turns, HistoryKept, InPlace, Whole, Filed, Dir, Idle, Moving, Switching, Based, Importing
  <1>26. CASE ReplacePrefs
    <2>1. CASE work.at = "restored"
      <3>1. \A o \in Dir : /\ dirs'[o].whole = dirs[o].whole
                           /\ dirs'[o].rows = dirs[o].rows
                           /\ dirs'[o].files = dirs[o].files
        BY <1>0, <1>26, <2>1, ReplacePrefsDoes DEF Now
      <3>2. /\ UNCHANGED <<manifest, pool, prefs, reset, backup, saved>> /\ wanted' = backup.prefs
            /\ Turns("written back", work.from, work.to)
            /\ "astray" \notin marks' => prefs.path = manifest
        BY <1>0, <1>26, <2>1, ReplacePrefsDoes
      <3> QED  BY <1>0, <1>26, <2>1, <1>1, <3>1, <3>2 DEF Turns, HistoryKept, InPlace, Whole, Filed, Dir, Idle, Moving, Switching, Based, Importing
    <2>2. CASE work.at = "written back"
      <3>1. /\ UNCHANGED <<dirs, manifest, pool, reset, backup, saved, wanted>> /\ work' = NoWork
            /\ prefs'.path = prefs.path /\ prefs'.images = prefs.images /\ prefs'.value = backup.prefs
            /\ UNCHANGED marks
        BY <1>0, <1>26, <2>2 DEF ReplacePrefs, StorageShape, PlacesShape, CourseShape, Works, Copies
      <3> QED  BY <1>0, <1>1, <2>2, <3>1 DEF NoWork, HistoryKept, InPlace, Whole, Filed, Dir, Idle, Moving, Switching, Based, Importing
    <2> QED  BY <1>26, <2>1, <2>2 DEF ReplacePrefs
  <1>27. CASE GiveUp
    BY <1>0, <1>1, <1>27 DEF GiveUp, Use, NoWork, NoBackup, Wrecks, HistoryKept, InPlace, Whole, Filed, Dir, Idle, Moving,
       Switching, Based, Importing, StorageShape, PlacesShape, CourseShape, Works, Copies
  <1>28. CASE Unplug
    <2>1. \A o \in Dir : /\ dirs'[o].whole = dirs[o].whole
                         /\ dirs'[o].rows = dirs[o].rows
                         /\ dirs'[o].files = dirs[o].files
      BY <1>0, <1>28, UnplugDoes DEF Now
    <2>2. /\ UNCHANGED <<manifest, pool, prefs, reset, work, backup, saved, wanted>>
          /\ "unplugged" \notin marks' => manifest # "custom" /\ work.to # "custom"
      BY <1>0, <1>28, UnplugDoes
    <2> QED  BY <1>0, <1>28, <1>1, <2>1, <2>2 DEF Turns, HistoryKept, InPlace, Whole, Filed, Dir, Idle, Moving, Switching, Based, Importing
  <1>29. CASE PlugIn
    <2>1. \A o \in Dir : /\ dirs'[o].whole = dirs[o].whole
                         /\ dirs'[o].rows = dirs[o].rows
                         /\ dirs'[o].files = dirs[o].files
      BY <1>0, <1>29, PlugInDoes DEF Now
    <2>2. /\ UNCHANGED <<manifest, pool, prefs, reset, work, backup, saved, wanted>>
      BY <1>0, <1>29, PlugInDoes
    <2> QED  BY <1>0, <1>29, <1>1, <2>1, <2>2 DEF Turns, HistoryKept, InPlace, Whole, Filed, Dir, Idle, Moving, Switching, Based, Importing
  <1>30. CASE StorageCrash
    BY <1>0, <1>1, <1>30 DEF StorageCrash, Use, NoWork, NoBackup, Wrecks, Resolved, Leads, HistoryKept, InPlace, Whole, Filed,
       Dir, Idle, Moving, Switching, Based, Importing, StorageShape, PlacesShape, CourseShape, Works, Copies
  <1>31. CASE RebaseImages
    BY <1>0, <1>1, <1>31 DEF RebaseImages, HistoryKept, InPlace, Whole, Filed, Dir, Idle, Moving, Switching, Based, Importing, StorageShape,
       PlacesShape, CourseShape, Works, Copies
  <1>32. CASE RebaseFails
    BY <1>0, <1>1, <1>32 DEF RebaseFails, Use, NoWork, HistoryKept, InPlace, Whole, Filed, Dir, Idle, Moving, Switching, Based, Importing,
       StorageShape, PlacesShape, CourseShape, Works, Copies
  <1> QED  BY <1>2, <1>3, <1>4, <1>5, <1>6, <1>7, <1>8, <1>9, <1>10, <1>11, <1>12, <1>13, <1>14, <1>15, <1>16, <1>17,
                <1>18, <1>19, <1>20, <1>21, <1>22, <1>23, <1>24, <1>25, <1>26, <1>27, <1>28, <1>29, <1>30,
                <1>31, <1>32 DEF StorageNext

\* And while no preference is written during a move, they have the preferences last set.
LEMMA PrefsKeptStays ==
  ASSUME StorageInv, {"overlap", "unplugged", "astray"} \cap marks' = {}, [StorageNext]_storageVars
  PROVE  PrefsKept'
  <1>0. /\ StorageShape /\ InPlace /\ PrefsKept
        /\ "unplugged" \notin marks' /\ "overlap" \notin marks' /\ "astray" \notin marks'
    BY MarksStay DEF StorageInv
  <1>1. /\ manifest \in Dir /\ pool \in Dir \cup {"closed"} /\ prefs.path \in Dir /\ work.from \in Dir /\ work.to \in Dir
        /\ work.at \in Moving \cup Switching \cup Based => work.from # work.to
        /\ work.at \in Importing => backup.there
        /\ work.at \in {"export", "merging", "merged"} => pool # "closed"
        /\ dirs["default"].there /\ (Idle <=> lock = "nobody")
    BY <1>0 DEF StorageShape, PlacesShape, CourseShape, Works, Copies
  <1>2. CASE UNCHANGED storageVars
    BY <1>0, <1>2 DEF storageVars, PrefsKept, InPlace, Dir, Idle, Moving, Switching, Based, Importing
  <1>3. CASE \E r \in Datum : StoreEntry(r)
    <2> PICK r \in Datum : StoreEntry(r)
      BY <1>3
    <2>1. \A o \in Dir : /\ dirs'[o].prefs = dirs[o].prefs
      BY <1>0, EntryEffects
    <2>2. /\ UNCHANGED <<manifest, pool, prefs, reset, work, backup, wanted>> /\ pool # "closed"
      BY EntriesFrame
    <2> QED  BY <1>0, <1>1, <2>1, <2>2 DEF PrefsKept, InPlace, Dir, Idle, Moving, Switching, Based, Importing
  <1>4. CASE \E r \in Datum : DeleteEntry(r)
    <2> PICK r \in Datum : DeleteEntry(r)
      BY <1>4
    <2>1. \A o \in Dir : /\ dirs'[o].prefs = dirs[o].prefs
      BY <1>0, EntryEffects
    <2>2. /\ UNCHANGED <<manifest, pool, prefs, reset, work, backup, wanted>> /\ pool # "closed"
      BY EntriesFrame
    <2> QED  BY <1>0, <1>1, <2>1, <2>2 DEF PrefsKept, InPlace, Dir, Idle, Moving, Switching, Based, Importing
  <1>5. CASE Edit
    <2>1. \A o \in Dir : /\ dirs'[o].prefs = IF o = prefs.path THEN wanted' ELSE dirs[o].prefs
      BY <1>0, <1>5, EditDoes DEF Now
    <2>2. /\ UNCHANGED <<manifest, pool, reset, work, backup, saved>>
          /\ prefs'.path = prefs.path /\ prefs'.images = prefs.images /\ prefs'.value = wanted'
          /\ "overlap" \notin marks' => ~reset /\ Idle
          /\ "astray" \notin marks' => prefs.path = manifest
      BY <1>0, <1>5, EditDoes
    <2> QED  BY <1>0, <1>5, <1>1, <2>1, <2>2 DEF Turns, PrefsKept, InPlace, Dir, Idle, Moving, Switching, Based, Importing
  <1>6. CASE ResetFile
    <2>1. \A o \in Dir : /\ dirs'[o].prefs = IF o = prefs.path THEN 0 ELSE dirs[o].prefs
      BY <1>0, <1>6, ResetFileDoes DEF Now
    <2>2. /\ UNCHANGED <<manifest, pool, prefs, work, backup, saved>> /\ reset' = TRUE /\ wanted' = 0
          /\ "overlap" \notin marks' => Idle
          /\ "astray" \notin marks' => prefs.path = manifest
      BY <1>0, <1>6, ResetFileDoes
    <2> QED  BY <1>0, <1>6, <1>1, <2>1, <2>2 DEF Turns, PrefsKept, InPlace, Dir, Idle, Moving, Switching, Based, Importing
  <1>7. CASE ResetMemory
    BY <1>0, <1>1, <1>7 DEF ResetMemory, PrefsKept, InPlace, Dir, Idle, Moving, Switching, Based, Importing, StorageShape,
       PlacesShape, CourseShape, Works, Copies
  <1>8. CASE Resolve
    BY <1>0, <1>1, <1>8 DEF Resolve, Resolved, Leads, PrefsKept, InPlace, Dir, Idle, Moving, Switching, Based, Importing,
       StorageShape, PlacesShape, CourseShape, Works, Copies
  <1>9. CASE \E to \in Dir : BeginMove(to)
    <2>1. /\ UNCHANGED <<dirs, manifest, prefs, reset, backup, wanted>> /\ ~reset /\ Idle
          /\ work'.at = "copying" /\ work'.from = manifest
      BY <1>0, <1>9 DEF BeginMove, Overlap, Take, NoWork, CourseShape, StorageShape, Idle
    <2> QED  BY <1>0, <1>1, <2>1 DEF PrefsKept, Idle, Moving
  <1>10. CASE Overwrite
    <2>1. \A o \in Dir : /\ dirs'[o].prefs = IF o = work.to THEN 0 ELSE dirs[o].prefs
      BY <1>0, <1>10, OverwriteDoes DEF Now
    <2>2. /\ UNCHANGED <<manifest, pool, prefs, reset, backup, saved, wanted>>
          /\ work.at = "copying" /\ Turns("written", work.from, work.to)
      BY <1>0, <1>10, OverwriteDoes
    <2> QED  BY <1>0, <1>10, <1>1, <2>1, <2>2 DEF Turns, PrefsKept, InPlace, Dir, Idle, Moving, Switching, Based, Importing
  <1>11. CASE Copied
    <2>1. \A o \in Dir : /\ dirs'[o].prefs = IF o = work.to THEN dirs[work.from].prefs ELSE dirs[o].prefs
      BY <1>0, <1>11, CopiedDoes DEF Now
    <2>2. /\ UNCHANGED <<manifest, pool, prefs, reset, backup, saved, wanted>>
          /\ work.at = "written" /\ dirs[work.from].there /\ Turns("copied", work.from, work.to)
      BY <1>0, <1>11, CopiedDoes
    <2> QED  BY <1>0, <1>11, <1>1, <2>1, <2>2 DEF Turns, PrefsKept, InPlace, Dir, Idle, Moving, Switching, Based, Importing
  <1>12. CASE SetManifest
    BY <1>0, <1>1, <1>12 DEF SetManifest, PrefsKept, InPlace, Dir, Idle, Moving, Switching, Based, Importing,
       StorageShape, PlacesShape, CourseShape, Works, Copies
  <1>13. CASE Reopen
    BY <1>0, <1>1, <1>13 DEF Reopen, Resolved, Leads, PrefsKept, InPlace, Dir, Idle, Moving, Switching, Based, Importing,
       StorageShape, PlacesShape, CourseShape, Works, Copies
  <1>14. CASE GiveUpMove
    BY <1>0, <1>1, <1>14 DEF GiveUpMove, Use, NoWork, PrefsKept, InPlace, Dir, Idle, Moving, Switching, Based, Importing,
       StorageShape, PlacesShape, CourseShape, Works, Copies
  <1>15. CASE LoadPrefs
    BY <1>0, <1>1, <1>15 DEF LoadPrefs, PrefsKept, InPlace, Dir, Idle, Moving, Switching, Based, Importing, StorageShape,
       PlacesShape, CourseShape, Works, Copies
  <1>16. CASE Rebase
    BY <1>0, <1>1, <1>16 DEF Rebase, PrefsKept, InPlace, Dir, Idle, Moving, Switching, Based, Importing, StorageShape,
       PlacesShape, CourseShape, Works, Copies
  <1>17. CASE RemoveOld
    <2>1. /\ UNCHANGED <<manifest, pool, prefs, reset, backup, saved, wanted, marks>>
          /\ work.at = "based" /\ work'.at = "idle" /\ work'.to = "default"
          /\ \A o \in Dir : dirs'[o].there = dirs[o].there /\ (o # work.from => dirs'[o] = dirs[o])
      BY <1>0, <1>17, RemoveOldDoes DEF NoWork
    <2>2. manifest = work.to /\ work.from # work.to
      BY <1>0, <1>1, <2>1 DEF InPlace, Based
    <2> QED  BY <1>0, <1>1, <2>1, <2>2 DEF PrefsKept, InPlace, Dir, Idle, Moving, Switching, Based, Importing
  <1>18. CASE BeginExport
    BY <1>0, <1>1, <1>18 DEF BeginExport, Take, Use, NoWork, NoBackup, PrefsKept, InPlace, Dir, Idle, Moving,
       Switching, Based, Importing, StorageShape, PlacesShape, CourseShape, Works, Copies
  <1>19. CASE FinishExport
    BY <1>0, <1>1, <1>19 DEF FinishExport, NoWork, PrefsKept, InPlace, Dir, Idle, Moving, Switching, Based, Importing,
       StorageShape, PlacesShape, CourseShape, Works, Copies
  <1>20. CASE BeginMerge
    <2>1. \A o \in Dir : /\ dirs'[o].prefs = dirs[o].prefs
      BY <1>0, <1>20, BeginMergeDoes DEF Now
    <2>2. /\ UNCHANGED <<manifest, pool, prefs, reset, backup, saved, wanted>>
          /\ Idle /\ backup.there /\ manifest = pool /\ Turns("merging", "default", "default")
      BY <1>0, <1>20, BeginMergeDoes
    <2> QED  BY <1>0, <1>20, <1>1, <2>1, <2>2 DEF Turns, PrefsKept, InPlace, Dir, Idle, Moving, Switching, Based, Importing
  <1>21. CASE MergeRows
    <2>1. \A o \in Dir : /\ dirs'[o].prefs = dirs[o].prefs
      BY <1>0, <1>21, MergeRowsDoes DEF Now
    <2>2. /\ UNCHANGED <<manifest, pool, prefs, reset, backup, wanted>> /\ saved' = saved \cup backup.rows
          /\ work.at = "merging" /\ Turns("merged", work.from, work.to)
      BY <1>0, <1>21, MergeRowsDoes
    <2> QED  BY <1>0, <1>21, <1>1, <2>1, <2>2 DEF Turns, PrefsKept, InPlace, Dir, Idle, Moving, Switching, Based, Importing
  <1>22. CASE MergePrefs
    <2>1. \A o \in Dir : /\ dirs'[o].prefs = IF o = prefs.path THEN backup.prefs ELSE dirs[o].prefs
      BY <1>0, <1>22, MergePrefsDoes DEF Now
    <2>2. /\ UNCHANGED <<manifest, pool, reset, backup, saved>>
          /\ prefs'.path = prefs.path /\ prefs'.images = prefs.images
          /\ prefs'.value = backup.prefs /\ wanted' = backup.prefs
          /\ work.at = "merged" /\ Turns("idle", "default", "default")
          /\ "overlap" \notin marks' => ~reset
          /\ "astray" \notin marks' => prefs.path = manifest
      BY <1>0, <1>22, MergePrefsDoes
    <2> QED  BY <1>0, <1>22, <1>1, <2>1, <2>2 DEF Turns, PrefsKept, InPlace, Dir, Idle, Moving, Switching, Based, Importing
  <1>23. CASE BeginReplace
    <2>1. \A o \in Dir : /\ dirs'[o].prefs = dirs[o].prefs
      BY <1>0, <1>23, BeginReplaceDoes DEF Now
    <2>2. /\ UNCHANGED <<manifest, prefs, reset, backup, saved, wanted>> /\ pool' = "closed"
          /\ Idle /\ backup.there /\ Turns("replacing", "default", "default")
          /\ "overlap" \notin marks' => ~reset
      BY <1>0, <1>23, BeginReplaceDoes
    <2> QED  BY <1>0, <1>23, <1>1, <2>1, <2>2 DEF Turns, PrefsKept, InPlace, Dir, Idle, Moving, Switching, Based, Importing
  <1>24. CASE ReplaceRows
    <2>1. \A o \in Dir : /\ dirs'[o].prefs = dirs[o].prefs
      BY <1>0, <1>24, ReplaceRowsDoes DEF Now
    <2>2. /\ UNCHANGED <<manifest, pool, prefs, reset, backup, saved, wanted>>
          /\ work.at = "replacing" /\ Turns("replaced", work.from, work.to)
      BY <1>0, <1>24, ReplaceRowsDoes
    <2> QED  BY <1>0, <1>24, <1>1, <2>1, <2>2 DEF Turns, PrefsKept, InPlace, Dir, Idle, Moving, Switching, Based, Importing
  <1>25. CASE ReplaceFiles
    <2>1. \A o \in Dir : /\ dirs'[o].prefs = dirs[o].prefs
      BY <1>0, <1>25, ReplaceFilesDoes DEF Now
    <2>2. /\ UNCHANGED <<manifest, prefs, reset, backup, wanted>> /\ pool' = manifest /\ saved' = backup.rows
          /\ work.at = "replaced" /\ Turns("restored", work.from, work.to)
      BY <1>0, <1>25, ReplaceFilesDoes
    <2> QED  BY <1>0, <1>25, <1>1, <2>1, <2>2 DEF Turns, PrefsKept, InPlace, Dir, Idle, Moving, Switching, Based, Importing
  <1>26. CASE ReplacePrefs
    <2>1. CASE work.at = "restored"
      <3>1. \A o \in Dir : /\ dirs'[o].prefs = IF o = prefs.path THEN backup.prefs ELSE dirs[o].prefs
        BY <1>0, <1>26, <2>1, ReplacePrefsDoes DEF Now
      <3>2. /\ UNCHANGED <<manifest, pool, prefs, reset, backup, saved>> /\ wanted' = backup.prefs
            /\ Turns("written back", work.from, work.to)
            /\ "astray" \notin marks' => prefs.path = manifest
        BY <1>0, <1>26, <2>1, ReplacePrefsDoes
      <3> QED  BY <1>0, <1>26, <2>1, <1>1, <3>1, <3>2 DEF Turns, PrefsKept, InPlace, Dir, Idle, Moving, Switching, Based, Importing
    <2>2. CASE work.at = "written back"
      <3>1. /\ UNCHANGED <<dirs, manifest, pool, reset, backup, saved, wanted>> /\ work' = NoWork
            /\ prefs'.path = prefs.path /\ prefs'.images = prefs.images /\ prefs'.value = backup.prefs
            /\ UNCHANGED marks
        BY <1>0, <1>26, <2>2 DEF ReplacePrefs, StorageShape, PlacesShape, CourseShape, Works, Copies
      <3> QED  BY <1>0, <1>1, <2>2, <3>1 DEF NoWork, PrefsKept, InPlace, Dir, Idle, Moving, Switching, Based, Importing
    <2> QED  BY <1>26, <2>1, <2>2 DEF ReplacePrefs
  <1>27. CASE GiveUp
    BY <1>0, <1>1, <1>27 DEF GiveUp, Use, NoWork, NoBackup, Wrecks, PrefsKept, InPlace, Dir, Idle, Moving,
       Switching, Based, Importing, StorageShape, PlacesShape, CourseShape, Works, Copies
  <1>28. CASE Unplug
    <2>1. \A o \in Dir : /\ dirs'[o].prefs = dirs[o].prefs
      BY <1>0, <1>28, UnplugDoes DEF Now
    <2>2. /\ UNCHANGED <<manifest, pool, prefs, reset, work, backup, saved, wanted>>
          /\ "unplugged" \notin marks' => manifest # "custom" /\ work.to # "custom"
      BY <1>0, <1>28, UnplugDoes
    <2> QED  BY <1>0, <1>28, <1>1, <2>1, <2>2 DEF Turns, PrefsKept, InPlace, Dir, Idle, Moving, Switching, Based, Importing
  <1>29. CASE PlugIn
    <2>1. \A o \in Dir : /\ dirs'[o].prefs = dirs[o].prefs
      BY <1>0, <1>29, PlugInDoes DEF Now
    <2>2. /\ UNCHANGED <<manifest, pool, prefs, reset, work, backup, saved, wanted>>
      BY <1>0, <1>29, PlugInDoes
    <2> QED  BY <1>0, <1>29, <1>1, <2>1, <2>2 DEF Turns, PrefsKept, InPlace, Dir, Idle, Moving, Switching, Based, Importing
  <1>30. CASE StorageCrash
    BY <1>0, <1>1, <1>30 DEF StorageCrash, Use, NoWork, NoBackup, Wrecks, Resolved, Leads, PrefsKept, InPlace, Dir, Idle,
       Moving, Switching, Based, Importing, StorageShape, PlacesShape, CourseShape, Works, Copies
  <1>31. CASE RebaseImages
    BY <1>0, <1>1, <1>31 DEF RebaseImages, PrefsKept, InPlace, Dir, Idle, Moving, Switching, Based, Importing, StorageShape,
       PlacesShape, CourseShape, Works, Copies
  <1>32. CASE RebaseFails
    BY <1>0, <1>1, <1>32 DEF RebaseFails, Use, NoWork, PrefsKept, InPlace, Dir, Idle, Moving, Switching, Based, Importing,
       StorageShape, PlacesShape, CourseShape, Works, Copies
  <1> QED  BY <1>2, <1>3, <1>4, <1>5, <1>6, <1>7, <1>8, <1>9, <1>10, <1>11, <1>12, <1>13, <1>14, <1>15, <1>16, <1>17,
                <1>18, <1>19, <1>20, <1>21, <1>22, <1>23, <1>24, <1>25, <1>26, <1>27, <1>28, <1>29, <1>30,
                <1>31, <1>32 DEF StorageNext

\* What a step keeps, put together.
LEMMA StorageStays == StorageInv /\ [StorageNext]_storageVars => StorageInv'
  <1> SUFFICES ASSUME StorageInv, [StorageNext]_storageVars PROVE StorageInv'
    OBVIOUS
  <1>1. StorageShape'
    BY StorageShapeStays DEF StorageInv
  <1>2. ASSUME "unplugged" \notin marks' PROVE InPlace'
    BY <1>2, InPlaceStays, InPlaceLed, StrandedStays, MarksStay DEF StorageInv
  <1>3. "wrecked" \notin marks' /\ "unplugged" \notin marks' => HistoryKept'
    BY HistoryKeptStays
  <1>4. {"overlap", "unplugged", "astray"} \cap marks' = {} => PrefsKept'
    BY PrefsKeptStays
  <1> QED  BY <1>1, <1>2, <1>3, <1>4 DEF StorageInv

\* A start opens the directory the manifest names, whose history and preferences are whole.
LEMMA StorageServes == StorageInv => DataFollows /\ StorageTypeOK
  <1> SUFFICES ASSUME StorageInv PROVE DataFollows /\ StorageTypeOK
    OBVIOUS
  <1>1. "unplugged" \notin marks => Resolved = manifest
    BY DEF StorageInv, StorageShape, CourseShape, InPlace, Resolved, Leads, Dir
  <1>2. HistoryFollows
    BY <1>1 DEF HistoryFollows, StorageInv, HistoryKept, Whole, Filed
  <1>3. PrefsFollow
    BY <1>1 DEF PrefsFollow, StorageInv, PrefsKept, InPlace, Idle, Switching
  <1>4. BackupWhole
    BY DEF BackupWhole, StorageInv, HistoryKept
  <1>5. StorageTypeOK
    BY DEF StorageInv, StorageShape, PlacesShape, CourseShape, Place, Edition, StorageTypeOK
  <1> QED  BY <1>2, <1>3, <1>4, <1>5 DEF DataFollows

-----------------------------------------------------------------------------
(* The configuration files. Until two writes of the settings meet there is  *)
(* one writer of them at most, and the temporary file is its own.           *)

Writes == {"none", "create", "write", "rename", "set"}
Savers == [at : Writes, value : Settings, file : {"none", "temp", "main", "gone"}]

Pending == [at : {"none", "create", "rename"}, value : Value]
Identities == [memory : Value, main : Value, failed : BOOLEAN, write : Pending]

SettingsShape ==
    /\ memory \in Settings /\ mainFile \in Settings \cup {Torn} /\ tempFile \in Settings \cup {Torn, Absent}
    /\ settingsLock \in BOOLEAN /\ met \in BOOLEAN
    /\ writes \in 0..MaxWrites /\ faults \in 0..MaxFileFaults

ConfigShape == SettingsShape /\ saver \in [FileWriter -> Savers] /\ identity \in Identities

\* The writer of the settings and what it has on disk.
OneWriter ==
    /\ mainFile \in Settings
    /\ \A v, w \in FileWriter : Writing(v) /\ Writing(w) => v = w
    /\ \A w \in FileWriter :
          /\ saver[w].at = "write" => saver[w].file = "temp" /\ tempFile = Torn
          /\ saver[w].at = "rename" => tempFile = saver[w].value
          /\ saver[w].at = "set" => mainFile = saver[w].value
    /\ (\A w \in FileWriter : saver[w].at # "set") => mainFile = memory

IdentityWritten ==
    /\ identity.write.at # "none" => identity.write.value = identity.memory
    /\ identity.write.at = "none" /\ ~identity.failed => identity.main = identity.memory

ConfigInv == ConfigShape /\ (~met => OneWriter) /\ IdentityWritten

\* Settings are told from whatever else a file may be.
LEMMA SettingsDiffer == Torn \notin Settings /\ Absent \notin Settings /\ Defaults \in Settings /\ Torn # Absent
  <1>1. PICK f \in Setting : TRUE
    BY ConfigAssumption
  <1>2. -1 \notin Value /\ -2 \notin Value
    BY ConfigAssumption
  <1> QED  BY <1>1, <1>2, ConfigAssumption DEF Torn, Absent, Settings, Defaults

\* Files as the installation left them.
LEMMA ConfigStarts == ConfigInit => ConfigInv
  <1> SUFFICES ASSUME ConfigInit PROVE ConfigInv
    OBVIOUS
  <1>1. AtRest \in Savers
    BY SettingsDiffer DEF AtRest, Savers, Writes
  <1>2. identity \in Identities
    BY ConfigAssumption DEF ConfigInit, Identities, Pending, IdentityAtRest
  <1>3. SettingsShape
    <2>1. 0 \in 0..MaxWrites /\ 0 \in 0..MaxFileFaults
      BY ConfigAssumption
    <2> QED  BY <2>1, SettingsDiffer DEF ConfigInit, SettingsShape
  <1>4. saver \in [FileWriter -> Savers]
    BY <1>1 DEF ConfigInit
  <1> QED  BY <1>2, <1>3, <1>4, SettingsDiffer
           DEF ConfigInit, ConfigInv, ConfigShape, OneWriter, IdentityWritten, AtRest, IdentityAtRest, Writing, FileWriter

\* A writer moves on.
LEMMA SaverMoves ==
  ASSUME saver \in [FileWriter -> Savers], NEW w \in FileWriter, NEW s \in Savers, saver' = [saver EXCEPT ![w] = s]
  PROVE  saver' \in [FileWriter -> Savers] /\ saver'[w] = s /\ \A v \in FileWriter \ {w} : saver'[v] = saver[v]
  OBVIOUS

\* A writer at rest.
LEMMA AtRestIsSaver == AtRest \in Savers /\ AtRest.at = "none"
  BY SettingsDiffer DEF AtRest, Savers, Writes

\* What each step of a writer does.
LEMMA WriterSteps ==
  ASSUME ConfigShape
  PROVE  /\ \A f \in Setting, v \in Value : BeginUpdate(f, v) =>
              /\ saver' \in [FileWriter -> Savers] /\ \A w \in FileWriter \ {"update"} : saver'[w] = saver[w]
              /\ saver'["update"].at = "create"
         /\ \A w \in FileWriter, settings \in Settings : BeginReplacement(w, settings) =>
              /\ saver' \in [FileWriter -> Savers] /\ \A v \in FileWriter \ {w} : saver'[v] = saver[v]
              /\ saver'[w].at = "create"
         /\ \A w \in FileWriter : Create(w) =>
              /\ saver' \in [FileWriter -> Savers] /\ \A v \in FileWriter \ {w} : saver'[v] = saver[v]
              /\ saver'[w].at = "write" /\ saver'[w].value = saver[w].value /\ saver'[w].file = "temp"
         /\ \A w \in FileWriter : WriteText(w) =>
              /\ saver' \in [FileWriter -> Savers] /\ \A v \in FileWriter \ {w} : saver'[v] = saver[v]
              /\ saver'[w].at = "rename" /\ saver'[w].value = saver[w].value
         /\ \A w \in FileWriter : Rename(w) =>
              /\ saver' \in [FileWriter -> Savers]
              /\ \A v \in FileWriter : /\ saver'[v].at = IF v = w THEN "set" ELSE saver[v].at
                                       /\ saver'[v].value = saver[v].value
         /\ \A w \in FileWriter : SetMemory(w) \/ NothingToRename(w) \/ WriteFails(w) =>
              /\ saver' \in [FileWriter -> Savers] /\ \A v \in FileWriter \ {w} : saver'[v] = saver[v]
              /\ saver'[w].at = "none"
         /\ Restart => saver' \in [FileWriter -> Savers] /\ \A v \in FileWriter : saver'[v].at = "none"
  <1>0. saver \in [FileWriter -> Savers] /\ memory \in Settings /\ "update" \in FileWriter
    BY DEF ConfigShape, SettingsShape, FileWriter
  <1>1. ASSUME NEW f \in Setting, NEW v \in Value, BeginUpdate(f, v)
        PROVE  /\ saver' \in [FileWriter -> Savers] /\ \A w \in FileWriter \ {"update"} : saver'[w] = saver[w]
               /\ saver'["update"].at = "create"
    <2> DEFINE new == [AtRest EXCEPT !.at = "create", !.value = [memory EXCEPT ![f] = v]]
    <2>1. [memory EXCEPT ![f] = v] \in Settings
      BY <1>0 DEF Settings
    <2>2. new \in Savers /\ new.at = "create"
      BY <2>1 DEF AtRest, Savers, Writes
    <2>3. saver' = [saver EXCEPT !["update"] = new]
      BY <1>1 DEF BeginUpdate
    <2> HIDE DEF new
    <2> QED  BY <1>0, <2>2, <2>3, SaverMoves
  <1>2. ASSUME NEW w \in FileWriter, NEW settings \in Settings, BeginReplacement(w, settings)
        PROVE  /\ saver' \in [FileWriter -> Savers] /\ \A v \in FileWriter \ {w} : saver'[v] = saver[v]
               /\ saver'[w].at = "create"
    <2> DEFINE new == [AtRest EXCEPT !.at = "create", !.value = settings]
    <2>1. new \in Savers /\ new.at = "create"
      BY DEF AtRest, Savers, Writes
    <2>2. saver' = [saver EXCEPT ![w] = new]
      BY <1>2 DEF BeginReplacement
    <2> HIDE DEF new
    <2> QED  BY <1>0, <2>1, <2>2, SaverMoves
  <1>3. ASSUME NEW w \in FileWriter, Create(w)
        PROVE  /\ saver' \in [FileWriter -> Savers] /\ \A v \in FileWriter \ {w} : saver'[v] = saver[v]
               /\ saver'[w].at = "write" /\ saver'[w].value = saver[w].value /\ saver'[w].file = "temp"
    BY <1>0, <1>3 DEF Create, Savers, Writes
  <1>4. ASSUME NEW w \in FileWriter, WriteText(w)
        PROVE  /\ saver' \in [FileWriter -> Savers] /\ \A v \in FileWriter \ {w} : saver'[v] = saver[v]
               /\ saver'[w].at = "rename" /\ saver'[w].value = saver[w].value
    <2>1. saver' = [saver EXCEPT ![w].at = "rename"]
      BY <1>4 DEF WriteText, Step
    <2> QED  BY <1>0, <2>1 DEF Savers, Writes
  <1>5. ASSUME NEW w \in FileWriter, Rename(w)
        PROVE  /\ saver' \in [FileWriter -> Savers]
               /\ \A v \in FileWriter : /\ saver'[v].at = IF v = w THEN "set" ELSE saver[v].at
                                        /\ saver'[v].value = saver[v].value
    <2> DEFINE New(v) == [saver[v] EXCEPT !.at = IF v = w THEN "set" ELSE @, !.file = Elsewhere(@)]
    <2>1. saver' = [v \in FileWriter |-> New(v)]
      BY <1>5 DEF Rename
    <2>2. \A v \in FileWriter : /\ New(v) \in Savers /\ New(v).at = (IF v = w THEN "set" ELSE saver[v].at)
                                /\ New(v).value = saver[v].value
      <3>1. \A file \in {"none", "temp", "main", "gone"} : Elsewhere(file) \in {"none", "temp", "main", "gone"}
        BY DEF Elsewhere
      <3> QED  BY <1>0, <3>1 DEF Savers, Writes
    <2> HIDE DEF New
    <2> QED  BY <2>1, <2>2
  <1>6. ASSUME NEW w \in FileWriter, SetMemory(w) \/ NothingToRename(w) \/ WriteFails(w)
        PROVE  /\ saver' \in [FileWriter -> Savers] /\ \A v \in FileWriter \ {w} : saver'[v] = saver[v]
               /\ saver'[w].at = "none"
    <2>1. saver' = [saver EXCEPT ![w] = AtRest]
      BY <1>6 DEF SetMemory, NothingToRename, WriteFails, GiveUpWriting
    <2> QED  BY <1>0, <2>1, SaverMoves, AtRestIsSaver
  <1>7. ASSUME Restart
        PROVE  saver' \in [FileWriter -> Savers] /\ \A v \in FileWriter : saver'[v].at = "none"
    BY <1>7, AtRestIsSaver DEF Restart
  <1> QED  BY <1>1, <1>2, <1>3, <1>4, <1>5, <1>6, <1>7

\* The kinds of steps.
LEMMA ConfigSteps ==
  ASSUME [ConfigNext]_configVars
  PROVE  \/ UNCHANGED configVars
         \/ \E f \in Setting, v \in Value : BeginUpdate(f, v)
         \/ \E w \in FileWriter, settings \in Settings : BeginReplacement(w, settings)
         \/ \E w \in FileWriter : Create(w)
         \/ \E w \in FileWriter : WriteText(w)
         \/ \E w \in FileWriter : Rename(w)
         \/ \E w \in FileWriter : SetMemory(w)
         \/ \E w \in FileWriter : NothingToRename(w)
         \/ \E w \in FileWriter : WriteFails(w)
         \/ \E v \in Value : ChangeIdentity(v)
         \/ WriteIdentity \/ IdentityFails \/ Restart
  <1>1. CASE \E r \in Reset : BeginReplacement(r, Defaults)
    BY <1>1, SettingsDiffer DEF FileWriter
  <1>2. CASE \E settings \in Settings : BeginReplacement("import", settings)
    BY <1>2 DEF FileWriter
  <1> QED  BY <1>1, <1>2 DEF ConfigNext, WriterStep

\* The cells of the writers keep their shape.
LEMMA SaversStay ==
  ASSUME ConfigShape, [ConfigNext]_configVars
  PROVE  saver' \in [FileWriter -> Savers]
  <1>1. CASE UNCHANGED configVars
    BY <1>1 DEF configVars, ConfigShape
  <1>2. CASE \E f \in Setting, v \in Value : BeginUpdate(f, v)
    BY <1>2, WriterSteps DEF BeginUpdate, ConfigShape
  <1>3. CASE \E w \in FileWriter, settings \in Settings : BeginReplacement(w, settings)
    BY <1>3, WriterSteps DEF BeginReplacement, ConfigShape
  <1>4. CASE \E w \in FileWriter : Create(w)
    BY <1>4, WriterSteps DEF Create, ConfigShape
  <1>5. CASE \E w \in FileWriter : WriteText(w)
    BY <1>5, WriterSteps DEF WriteText, Step, Texts, ConfigShape
  <1>6. CASE \E w \in FileWriter : Rename(w)
    BY <1>6, WriterSteps DEF Rename, Elsewhere, ConfigShape
  <1>7. CASE \E w \in FileWriter : SetMemory(w)
    BY <1>7, WriterSteps DEF SetMemory, ConfigShape
  <1>8. CASE \E w \in FileWriter : NothingToRename(w)
    BY <1>8, WriterSteps DEF NothingToRename, GiveUpWriting, ConfigShape
  <1>9. CASE \E w \in FileWriter : WriteFails(w)
    BY <1>9, WriterSteps DEF WriteFails, GiveUpWriting, ConfigShape
  <1>10. CASE \E v \in Value : ChangeIdentity(v)
    BY <1>10, WriterSteps DEF ChangeIdentity, Goes, settingsVars, ConfigShape
  <1>11. CASE WriteIdentity
    BY <1>11, WriterSteps DEF WriteIdentity, Goes, IdentityAtRest, settingsVars, ConfigShape
  <1>12. CASE IdentityFails
    BY <1>12, WriterSteps DEF IdentityFails, Goes, IdentityAtRest, settingsVars, ConfigShape
  <1>13. CASE Restart
    BY <1>13, WriterSteps DEF Restart, Goes, IdentityAtRest, Loaded, ConfigShape
  <1> QED  BY <1>1, <1>2, <1>3, <1>4, <1>5, <1>6, <1>7, <1>8, <1>9, <1>10, <1>11, <1>12, <1>13, ConfigSteps

\* The identity keeps its shape, and so does its write under way.
LEMMA IdentityStays ==
  ASSUME ConfigShape, [ConfigNext]_configVars
  PROVE  identity' \in Identities
  <1>1. CASE UNCHANGED configVars
    BY <1>1 DEF configVars, ConfigShape, Identities, Pending
  <1>2. CASE \E f \in Setting, v \in Value : BeginUpdate(f, v)
    BY <1>2, ConfigAssumption DEF BeginUpdate, ConfigShape, Identities, Pending
  <1>3. CASE \E w \in FileWriter, settings \in Settings : BeginReplacement(w, settings)
    BY <1>3, ConfigAssumption DEF BeginReplacement, ConfigShape, Identities, Pending
  <1>4. CASE \E w \in FileWriter : Create(w)
    BY <1>4, ConfigAssumption DEF Create, ConfigShape, Identities, Pending
  <1>5. CASE \E w \in FileWriter : WriteText(w)
    BY <1>5, ConfigAssumption DEF WriteText, Step, Texts, ConfigShape, Identities, Pending
  <1>6. CASE \E w \in FileWriter : Rename(w)
    BY <1>6, ConfigAssumption DEF Rename, Elsewhere, ConfigShape, Identities, Pending
  <1>7. CASE \E w \in FileWriter : SetMemory(w)
    BY <1>7, ConfigAssumption DEF SetMemory, ConfigShape, Identities, Pending
  <1>8. CASE \E w \in FileWriter : NothingToRename(w)
    BY <1>8, ConfigAssumption DEF NothingToRename, GiveUpWriting, ConfigShape, Identities, Pending
  <1>9. CASE \E w \in FileWriter : WriteFails(w)
    BY <1>9, ConfigAssumption DEF WriteFails, GiveUpWriting, ConfigShape, Identities, Pending
  <1>10. CASE \E v \in Value : ChangeIdentity(v)
    <2> PICK v \in Value : ChangeIdentity(v)
      BY <1>10
    <2> DEFINE next == [at |-> "create", value |-> v]
    <2>1. next \in Pending /\ identity' = [identity EXCEPT !.memory = v, !.write = next]
      BY DEF ChangeIdentity, Goes, Pending
    <2> HIDE DEF next
    <2> QED  BY <2>1 DEF ConfigShape, Identities
  <1>11. CASE WriteIdentity
    <2>1. CASE identity' = [identity EXCEPT !.write.at = "rename"]
      <3>1. [identity.write EXCEPT !.at = "rename"] \in Pending
        BY DEF ConfigShape, Identities, Pending
      <3>2. identity' = [identity EXCEPT !.write = [identity.write EXCEPT !.at = "rename"]]
        BY <2>1
      <3> QED  BY <3>1, <3>2 DEF ConfigShape, Identities
    <2>2. CASE identity' = [identity EXCEPT !.main = identity.write.value, !.failed = FALSE, !.write = IdentityAtRest]
      <3>1. IdentityAtRest \in Pending /\ identity.write.value \in Value
        BY ConfigAssumption DEF ConfigShape, Identities, Pending, IdentityAtRest
      <3> QED  BY <2>2, <3>1 DEF ConfigShape, Identities
    <2> QED  BY <1>11, <2>1, <2>2 DEF WriteIdentity, Goes
  <1>12. CASE IdentityFails
    BY <1>12, ConfigAssumption DEF IdentityFails, Goes, IdentityAtRest, settingsVars, ConfigShape, Identities, Pending
  <1>13. CASE Restart
    BY <1>13, ConfigAssumption DEF Restart, Goes, IdentityAtRest, Loaded, ConfigShape, Identities, Pending
  <1> QED  BY <1>1, <1>2, <1>3, <1>4, <1>5, <1>6, <1>7, <1>8, <1>9, <1>10, <1>11, <1>12, <1>13, ConfigSteps

\* Settings stay settings, on disk as well unless a write of them was cut off.
LEMMA SettingsShapeStays ==
  ASSUME ConfigShape, [ConfigNext]_configVars
  PROVE  SettingsShape'
  <1>1. CASE UNCHANGED configVars
    BY <1>1 DEF configVars, ConfigShape, SettingsShape, Savers, Writes
  <1>2. CASE \E f \in Setting, v \in Value : BeginUpdate(f, v)
    BY <1>2, SettingsDiffer, ConfigAssumption DEF BeginUpdate, ConfigShape, SettingsShape, Savers, Writes
  <1>3. CASE \E w \in FileWriter, settings \in Settings : BeginReplacement(w, settings)
    BY <1>3, SettingsDiffer, ConfigAssumption DEF BeginReplacement, ConfigShape, SettingsShape, Savers, Writes
  <1>4. CASE \E w \in FileWriter : Create(w)
    BY <1>4, SettingsDiffer, ConfigAssumption DEF Create, ConfigShape, SettingsShape, Savers, Writes
  <1>5. CASE \E w \in FileWriter : WriteText(w)
    BY <1>5, SettingsDiffer, ConfigAssumption DEF WriteText, Step, Texts, ConfigShape, SettingsShape, Savers, Writes
  <1>6. CASE \E w \in FileWriter : Rename(w)
    BY <1>6, SettingsDiffer, ConfigAssumption DEF Rename, Elsewhere, ConfigShape, SettingsShape, Savers, Writes
  <1>7. CASE \E w \in FileWriter : SetMemory(w)
    BY <1>7, SettingsDiffer, ConfigAssumption DEF SetMemory, ConfigShape, SettingsShape, Savers, Writes
  <1>8. CASE \E w \in FileWriter : NothingToRename(w)
    BY <1>8, SettingsDiffer, ConfigAssumption DEF NothingToRename, GiveUpWriting, ConfigShape, SettingsShape, Savers, Writes
  <1>9. CASE \E w \in FileWriter : WriteFails(w)
    BY <1>9, SettingsDiffer, ConfigAssumption DEF WriteFails, GiveUpWriting, ConfigShape, SettingsShape, Savers, Writes
  <1>10. CASE \E v \in Value : ChangeIdentity(v)
    BY <1>10, SettingsDiffer, ConfigAssumption DEF ChangeIdentity, Goes, settingsVars, ConfigShape, SettingsShape, Savers, Writes
  <1>11. CASE WriteIdentity
    BY <1>11, SettingsDiffer, ConfigAssumption DEF WriteIdentity, Goes, IdentityAtRest, settingsVars, ConfigShape, SettingsShape, Savers, Writes
  <1>12. CASE IdentityFails
    BY <1>12, SettingsDiffer, ConfigAssumption DEF IdentityFails, Goes, IdentityAtRest, settingsVars, ConfigShape, SettingsShape, Savers, Writes
  <1>13. CASE Restart
    <2>1. Loaded \in Settings
      BY SettingsDiffer DEF ConfigShape, SettingsShape, Loaded
    <2>2. faults' \in 0..MaxFileFaults
      BY <1>13, ConfigAssumption DEF Restart, ConfigShape, SettingsShape
    <2> QED  BY <1>13, <2>1, <2>2 DEF Restart, ConfigShape, SettingsShape
  <1> QED  BY <1>1, <1>2, <1>3, <1>4, <1>5, <1>6, <1>7, <1>8, <1>9, <1>10, <1>11, <1>12, <1>13, ConfigSteps

\* One writer: a temporary file is its writer's until it is renamed.
LEMMA OneWriterStays ==
  ASSUME ConfigShape, ~met => OneWriter, ~met', [ConfigNext]_configVars
  PROVE  OneWriter'
  <1>0. /\ "update" \in FileWriter
        /\ \A w \in FileWriter : saver[w].value \in Settings
    BY DEF FileWriter, ConfigShape, Savers
  <1>1. CASE UNCHANGED configVars
    BY <1>1 DEF configVars, OneWriter, Writing
  <1>2. CASE \E f \in Setting, v \in Value : BeginUpdate(f, v)
    <2> PICK f \in Setting, v \in Value : BeginUpdate(f, v)
      BY <1>2
    <2>1. /\ \A w \in FileWriter \ {"update"} : saver'[w] = saver[w]
          /\ saver'["update"].at = "create" /\ UNCHANGED <<memory, mainFile, tempFile>> /\ ~met
          /\ \A w \in FileWriter : saver[w].at = "none"
      BY WriterSteps DEF BeginUpdate, Writing
    <2> QED  BY <1>0, <2>1 DEF OneWriter, Writing
  <1>3. CASE \E w \in FileWriter, settings \in Settings : BeginReplacement(w, settings)
    <2> PICK w \in FileWriter, settings \in Settings : BeginReplacement(w, settings)
      BY <1>3
    <2>1. /\ \A v \in FileWriter \ {w} : saver'[v] = saver[v]
          /\ saver'[w].at = "create" /\ UNCHANGED <<memory, mainFile, tempFile>> /\ ~met
          /\ \A v \in FileWriter : saver[v].at = "none"
      BY WriterSteps DEF BeginReplacement, Writing
    <2> QED  BY <1>0, <2>1 DEF OneWriter, Writing
  <1>4. CASE \E w \in FileWriter : Create(w)
    <2> PICK w \in FileWriter : Create(w)
      BY <1>4
    <2>1. /\ \A v \in FileWriter \ {w} : saver'[v] = saver[v]
          /\ saver'[w].at = "write" /\ saver'[w].value = saver[w].value /\ saver'[w].file = "temp"
      BY WriterSteps
    <2>2. /\ UNCHANGED <<memory, mainFile, met>> /\ tempFile' = Torn /\ saver[w].at = "create"
      BY DEF Create
    <2>3. OneWriter
      BY <2>2
    <2>4. \A v \in FileWriter \ {w} : saver[v].at = "none"
      BY <1>0, <2>2, <2>3 DEF OneWriter, Writing
    <2> QED  BY <1>0, <2>1, <2>2, <2>3, <2>4 DEF OneWriter, Writing
  <1>5. CASE \E w \in FileWriter : WriteText(w)
    <2> PICK w \in FileWriter : WriteText(w)
      BY <1>5
    <2>1. /\ \A v \in FileWriter \ {w} : saver'[v] = saver[v]
          /\ saver'[w].at = "rename" /\ saver'[w].value = saver[w].value
      BY WriterSteps
    <2>2. /\ UNCHANGED <<memory, met>> /\ saver[w].at = "write"
          /\ mainFile' = mainFile /\ tempFile' = saver[w].value
      BY DEF WriteText, Texts, OneWriter
    <2>3. OneWriter
      BY <2>2
    <2>4. \A v \in FileWriter \ {w} : saver[v].at = "none"
      BY <1>0, <2>2, <2>3 DEF OneWriter, Writing
    <2> QED  BY <1>0, <2>1, <2>2, <2>3, <2>4 DEF OneWriter, Writing
  <1>6. CASE \E w \in FileWriter : Rename(w)
    <2> PICK w \in FileWriter : Rename(w)
      BY <1>6
    <2>1. /\ \A v \in FileWriter : /\ saver'[v].at = IF v = w THEN "set" ELSE saver[v].at
                                   /\ saver'[v].value = saver[v].value
      BY WriterSteps
    <2>2. /\ UNCHANGED <<memory, met>> /\ saver[w].at = "rename" /\ mainFile' = tempFile
      BY DEF Rename
    <2>3. OneWriter
      BY <2>2
    <2>4. \A v \in FileWriter \ {w} : saver[v].at = "none"
      BY <1>0, <2>2, <2>3 DEF OneWriter, Writing
    <2> QED  BY <1>0, <2>1, <2>2, <2>3, <2>4 DEF OneWriter, Writing
  <1>7. CASE \E w \in FileWriter : SetMemory(w)
    <2> PICK w \in FileWriter : SetMemory(w)
      BY <1>7
    <2>1. /\ \A v \in FileWriter \ {w} : saver'[v] = saver[v]
          /\ saver'[w].at = "none"
      BY WriterSteps
    <2>2. /\ UNCHANGED <<mainFile, tempFile, met>> /\ saver[w].at = "set" /\ memory' = saver[w].value
      BY DEF SetMemory
    <2>3. OneWriter
      BY <2>2
    <2>4. \A v \in FileWriter \ {w} : saver[v].at = "none"
      BY <1>0, <2>2, <2>3 DEF OneWriter, Writing
    <2> QED  BY <1>0, <2>1, <2>2, <2>3, <2>4 DEF OneWriter, Writing
  <1>8. CASE \E w \in FileWriter : NothingToRename(w)
    BY <1>8, SettingsDiffer, WriterSteps, <1>0 DEF NothingToRename, GiveUpWriting, OneWriter, Writing
  <1>9. CASE \E w \in FileWriter : WriteFails(w)
    <2> PICK w \in FileWriter : WriteFails(w)
      BY <1>9
    <2>1. /\ \A v \in FileWriter \ {w} : saver'[v] = saver[v]
          /\ saver'[w].at = "none"
      BY WriterSteps
    <2>2. /\ UNCHANGED <<memory, mainFile, tempFile, met>> /\ saver[w].at \in {"create", "write", "rename"}
      BY DEF WriteFails
    <2>3. OneWriter
      BY <2>2
    <2>4. \A v \in FileWriter \ {w} : saver[v].at = "none"
      BY <1>0, <2>2, <2>3 DEF OneWriter, Writing
    <2> QED  BY <1>0, <2>1, <2>2, <2>3, <2>4 DEF OneWriter, Writing
  <1>10. CASE \E v \in Value : ChangeIdentity(v)
    BY <1>10, SettingsDiffer, WriterSteps, <1>0 DEF ChangeIdentity, Goes, settingsVars, OneWriter, Writing
  <1>11. CASE WriteIdentity
    BY <1>11, SettingsDiffer, WriterSteps, <1>0 DEF WriteIdentity, Goes, IdentityAtRest, settingsVars, OneWriter, Writing
  <1>12. CASE IdentityFails
    BY <1>12, SettingsDiffer, WriterSteps, <1>0 DEF IdentityFails, Goes, IdentityAtRest, settingsVars, OneWriter, Writing
  <1>13. CASE Restart
    BY <1>13, SettingsDiffer, WriterSteps, <1>0 DEF Restart, Goes, IdentityAtRest, Loaded, OneWriter, Writing
  <1> QED  BY <1>1, <1>2, <1>3, <1>4, <1>5, <1>6, <1>7, <1>8, <1>9, <1>10, <1>11, <1>12, <1>13, ConfigSteps

\* What is written of the identity is what memory has, unless a write failed.
LEMMA IdentityWrittenStays ==
  ASSUME ConfigShape, IdentityWritten, [ConfigNext]_configVars
  PROVE  IdentityWritten'
  <1>1. CASE UNCHANGED configVars
    BY <1>1 DEF configVars, IdentityWritten, ConfigShape, Identities, Pending
  <1>2. CASE \E f \in Setting, v \in Value : BeginUpdate(f, v)
    BY <1>2 DEF BeginUpdate, IdentityWritten, ConfigShape, Identities, Pending
  <1>3. CASE \E w \in FileWriter, settings \in Settings : BeginReplacement(w, settings)
    BY <1>3 DEF BeginReplacement, IdentityWritten, ConfigShape, Identities, Pending
  <1>4. CASE \E w \in FileWriter : Create(w)
    BY <1>4 DEF Create, IdentityWritten, ConfigShape, Identities, Pending
  <1>5. CASE \E w \in FileWriter : WriteText(w)
    BY <1>5 DEF WriteText, Step, Texts, IdentityWritten, ConfigShape, Identities, Pending
  <1>6. CASE \E w \in FileWriter : Rename(w)
    BY <1>6 DEF Rename, Elsewhere, IdentityWritten, ConfigShape, Identities, Pending
  <1>7. CASE \E w \in FileWriter : SetMemory(w)
    BY <1>7 DEF SetMemory, IdentityWritten, ConfigShape, Identities, Pending
  <1>8. CASE \E w \in FileWriter : NothingToRename(w)
    BY <1>8 DEF NothingToRename, GiveUpWriting, IdentityWritten, ConfigShape, Identities, Pending
  <1>9. CASE \E w \in FileWriter : WriteFails(w)
    BY <1>9 DEF WriteFails, GiveUpWriting, IdentityWritten, ConfigShape, Identities, Pending
  <1>10. CASE \E v \in Value : ChangeIdentity(v)
    BY <1>10 DEF ChangeIdentity, Goes, settingsVars, IdentityWritten, ConfigShape, Identities, Pending
  <1>11. CASE WriteIdentity
    <2>1. CASE identity.write.at = "create" /\ identity' = [identity EXCEPT !.write.at = "rename"]
      <3>1. identity'.memory = identity.memory /\ identity'.write.at = "rename" /\ identity'.write.value = identity.write.value
        BY <2>1 DEF ConfigShape, Identities, Pending
      <3> QED  BY <2>1, <3>1 DEF IdentityWritten
    <2>2. CASE identity.write.at = "rename"
               /\ identity' = [identity EXCEPT !.main = identity.write.value, !.failed = FALSE, !.write = IdentityAtRest]
      <3>1. identity'.memory = identity.memory /\ identity'.write.at = "none" /\ identity'.main = identity.write.value
        BY <2>2 DEF ConfigShape, Identities, IdentityAtRest
      <3> QED  BY <2>2, <3>1 DEF IdentityWritten
    <2> QED  BY <1>11, <2>1, <2>2 DEF WriteIdentity, Goes
  <1>12. CASE IdentityFails
    BY <1>12 DEF IdentityFails, Goes, IdentityAtRest, settingsVars, IdentityWritten, ConfigShape, Identities, Pending
  <1>13. CASE Restart
    BY <1>13 DEF Restart, Goes, IdentityAtRest, Loaded, IdentityWritten, ConfigShape, Identities, Pending
  <1> QED  BY <1>1, <1>2, <1>3, <1>4, <1>5, <1>6, <1>7, <1>8, <1>9, <1>10, <1>11, <1>12, <1>13, ConfigSteps

\* Every step of the configuration keeps the invariant.
LEMMA ConfigStays == ConfigInv /\ [ConfigNext]_configVars => ConfigInv'
  <1> SUFFICES ASSUME ConfigInv, [ConfigNext]_configVars PROVE ConfigInv'
    OBVIOUS
  <1>1. ConfigShape'
    BY SaversStay, IdentityStays, SettingsShapeStays DEF ConfigInv, ConfigShape
  <1>2. (~met => OneWriter)'
    BY OneWriterStays DEF ConfigInv
  <1> QED  BY <1>1, <1>2, IdentityWrittenStays DEF ConfigInv

\* It says what was promised of the configuration.
LEMMA ConfigServes == ConfigInv => ConfigSound /\ ConfigTypeOK
  <1> SUFFICES ASSUME ConfigInv PROVE ConfigSound /\ ConfigTypeOK
    OBVIOUS
  <1>1. KeptWhole
    BY SettingsDiffer DEF ConfigInv, OneWriter, KeptWhole, FileWhole
  <1>2. IdentityKept
    BY DEF ConfigInv, IdentityWritten, IdentityKept
  <1>3. ConfigTypeOK
    BY DEF ConfigInv, ConfigShape, SettingsShape, Savers, Writes, Identities, ConfigTypeOK
  <1> QED  BY <1>1, <1>2, <1>3 DEF ConfigSound

-----------------------------------------------------------------------------
(* Thumbnails. A task reads for a version that was the file's when it was    *)
(* asked for, and the file's version only grows.                             *)

Results == {"error", "half", "whole", "original"}
Makings == [at : {"none", "queued", "reading", "decoded", "checked", "writing", "filling", "published"},
            first : 0..MaxVersion, result : Results \cup {"none"}]
Cells == [at : Results \cup {"none", "awaiting"}, key : Key]

ThumbShape ==
    /\ origins \subseteq Image /\ removal \in Image \cup {NoImage} /\ version \in Versions
    /\ thumb \in [Key -> {"absent", "half", "whole", "original"}]
    /\ displays \in [Versions -> 0..MaxVersion] /\ flying \subseteq Key
    /\ making \in [Key -> Makings] /\ cells \in [Asker -> Cells]

\* What a task has read.
WasRead(v) ==
    /\ making[v].at \in {"queued", "reading", "decoded", "checked"} => v <= version
    /\ making[v].at = "reading" => making[v].first \in v..version
    /\ making[v].at = "decoded" => (making[v].first = Mixed /\ v < version) \/ making[v].first \in v..version
    /\ making[v].at = "checked" => making[v].first = v

Flies(k) ==
    /\ k \in flying <=> making[k].at # "none"
    /\ making[k].at = "published" =>
          /\ making[k].result \in Results
          /\ \A a \in Asker : cells[a].key = k => cells[a].at # "awaiting"

ThumbInv ==
    /\ ThumbShape /\ OfItsVersion
    /\ \A v \in Versions : WasRead(v)
    /\ \A k \in Key : Flies(k)
    /\ WaitsForTask

\* Images have keys of their own.
LEMMA KeysDiffer == /\ Image \cap Versions = {} /\ 1 \in Versions /\ Image \subseteq Key /\ Versions \subseteq Key
                    /\ 0 \in 0..MaxVersion /\ Versions \subseteq 0..MaxVersion
  BY ThumbnailAssumption DEF Versions, Key

\* Nothing is made yet.
LEMMA ThumbStarts == ThumbInit => ThumbInv
  <1> SUFFICES ASSUME ThumbInit PROVE ThumbInv
    OBVIOUS
  <1>1. Unmade \in Makings /\ Unasked \in Cells
    BY KeysDiffer DEF Unmade, Unasked, Makings, Cells, Mixed
  <1>2. ThumbShape
    BY <1>1, KeysDiffer DEF ThumbInit, ThumbShape
  <1> QED  BY <1>2, KeysDiffer DEF ThumbInit, ThumbInv, OfItsVersion, WasRead, Flies, WaitsForTask, Unmade, Unasked

\* A step of one task. Whoever waited for it has the result once it is sent.
Turn(k, at) ==
    /\ making' \in [Key -> Makings]
    /\ making'[k].at = at
    /\ \A o \in Key \ {k} : making'[o] = making[o]

ResultIs(k, result) ==
    /\ Turn(k, "published") /\ making'[k].result = result
    /\ cells' \in [Asker -> Cells]
    /\ \A a \in Asker :
          /\ cells'[a].key = cells[a].key
          /\ cells'[a].at = IF cells[a].at = "awaiting" /\ cells[a].key = k THEN result ELSE cells[a].at

\* Whoever waited has the result.
LEMMA ResultSent ==
  ASSUME ThumbShape, NEW k \in Key, NEW result \in Results, SendResult(k, result)
  PROVE  ResultIs(k, result)
  <1> DEFINE new == [Unmade EXCEPT !.at = "published", !.result = result]
  <1>1. new \in Makings /\ new.at = "published" /\ new.result = result
    BY KeysDiffer DEF Unmade, Makings, Mixed
  <1>2. making' = [making EXCEPT ![k] = new]
    BY DEF SendResult
  <1> HIDE DEF new
  <1>3. Turn(k, "published") /\ making'[k].result = result
    BY <1>1, <1>2 DEF ThumbShape, Turn
  <1>4. \A a \in Asker :
           /\ cells'[a] = IF cells[a].at = "awaiting" /\ cells[a].key = k THEN [cells[a] EXCEPT !.at = result] ELSE cells[a]
           /\ cells[a] \in Cells
    BY DEF SendResult, ThumbShape
  <1>5. \A a \in Asker : cells'[a] \in Cells
    BY <1>4 DEF Cells
  <1>6. cells' \in [Asker -> Cells]
    BY <1>5 DEF SendResult
  <1>7. ASSUME NEW a \in Asker
        PROVE  /\ cells'[a].key = cells[a].key
               /\ cells'[a].at = IF cells[a].at = "awaiting" /\ cells[a].key = k THEN result ELSE cells[a].at
    BY <1>4 DEF Cells
  <1> QED  BY <1>3, <1>6, <1>7 DEF ResultIs

\* A cell is given another state.
LEMMA CellTakes ==
  ASSUME ThumbShape, NEW a \in Asker, NEW c \in Cells, cells' = [cells EXCEPT ![a] = c]
  PROVE  cells' \in [Asker -> Cells] /\ cells'[a] = c /\ \A b \in Asker \ {a} : cells'[b] = cells[b]
  BY DEF ThumbShape

\* The task goes to another step.
LEMMA TaskTurns ==
  ASSUME ThumbShape, NEW k \in Key, NEW at \in {"checked", "writing", "filling"}, Task(k, at)
  PROVE  Turn(k, at) /\ making'[k].first = making[k].first
  <1>1. making[k] \in Makings /\ making' = [making EXCEPT ![k] = [making[k] EXCEPT !.at = at]]
    BY DEF ThumbShape, Task
  <1>2. [making[k] EXCEPT !.at = at] \in Makings
    BY <1>1 DEF Makings
  <1> QED  BY <1>1, <1>2 DEF Turn, ThumbShape, Makings

\* Each step of a task either sends a result or goes on.
TaskMoves(k) == \/ \E result \in Results : ResultIs(k, result)
            \/ /\ cells' = cells /\ making[k].at \notin {"none", "published"}
               /\ \E at \in {"reading", "decoded", "checked", "writing", "filling"} : Turn(k, at)

LEMMA TasksStep ==
  ASSUME ThumbShape, NEW k \in Key
  PROVE  /\ Permit(k) => TaskMoves(k) /\ making'[k].at = "reading" /\ making'[k].first = version /\ UNCHANGED <<version, thumb, displays>>
         /\ CheckFile(k) => /\ TaskMoves(k) /\ UNCHANGED <<version, thumb, displays>>
                            /\ \/ making'[k].at = "published"
                               \/ making'[k].at = "checked" /\ version = k /\ making'[k].first = making[k].first
         /\ k \in Image /\ ReadImage(k) => TaskMoves(k) /\ UNCHANGED <<version, thumb, displays>>
         /\ k \in Image /\ CreateThumb(k) => TaskMoves(k) /\ UNCHANGED <<version, displays>>
         /\ k \in Image /\ FillThumb(k) => TaskMoves(k) /\ UNCHANGED <<version, displays>>
         /\ k \in Versions /\ ReadFile(k) =>
               /\ TaskMoves(k) /\ UNCHANGED <<version, thumb, displays>>
               /\ \/ making'[k].at = "published"
                  \/ /\ making'[k].at = "decoded" /\ making[k].at = "reading"
                     /\ making'[k].first = (IF making[k].first = version THEN making[k].first ELSE Mixed)
         /\ k \in Versions /\ KeepFile(k) => TaskMoves(k) /\ making'[k].at = "published" /\ UNCHANGED version
         /\ k \in Versions /\ KeepOriginal(k) => TaskMoves(k) /\ making'[k].at = "published" /\ UNCHANGED <<version, displays>>
         /\ Fails(k) => TaskMoves(k) /\ making'[k].at = "published" /\ UNCHANGED <<version, thumb, displays>>
  <1>0. /\ making[k] \in Makings /\ making \in [Key -> Makings] /\ version \in 0..MaxVersion
        /\ thumb[k] \in {"absent", "half", "whole", "original"} /\ Results = {"error", "half", "whole", "original"}
    BY KeysDiffer DEF ThumbShape, Results
  <1>1. ASSUME Permit(k)
        PROVE  TaskMoves(k) /\ making'[k].at = "reading" /\ making'[k].first = version /\ UNCHANGED <<version, thumb, displays>>
    <2> DEFINE new == [Unmade EXCEPT !.at = "reading", !.first = version]
    <2>1. new \in Makings /\ new.at = "reading" /\ new.first = version
      BY <1>0 DEF Unmade, Makings
    <2>2. making' = [making EXCEPT ![k] = new] /\ making[k].at = "queued" /\ UNCHANGED <<version, thumb, displays, cells>>
      BY <1>1 DEF Permit
    <2> HIDE DEF new
    <2> QED  BY <1>0, <2>1, <2>2 DEF TaskMoves, Turn
  <1>2. ASSUME CheckFile(k)
        PROVE  /\ TaskMoves(k) /\ UNCHANGED <<version, thumb, displays>>
               /\ \/ making'[k].at = "published"
                  \/ making'[k].at = "checked" /\ version = k /\ making'[k].first = making[k].first
    <2>1. /\ making[k].at = "decoded" /\ UNCHANGED <<version, thumb, displays>>
          /\ \/ version = k /\ Task(k, "checked") /\ UNCHANGED cells
             \/ SendResult(k, "original")
      <3>1. CASE StillVersion(k)
        BY <1>2, <3>1 DEF CheckFile, StillVersion
      <3>2. CASE ~StillVersion(k)
        BY <1>2, <3>2 DEF CheckFile
      <3> QED  BY <3>1, <3>2
    <2> QED  BY <1>0, <2>1, TaskTurns, ResultSent DEF TaskMoves, Turn, ResultIs
  <1>3. ASSUME k \in Image, ReadImage(k)
        PROVE  TaskMoves(k) /\ UNCHANGED <<version, thumb, displays>>
    <2>1. /\ making[k].at = "reading" /\ UNCHANGED <<version, thumb, displays>>
          /\ \/ thumb[k] # "absent" /\ SendResult(k, thumb[k])
             \/ SendResult(k, "error")
             \/ Task(k, "writing") /\ UNCHANGED cells
      BY <1>3 DEF ReadImage
    <2> QED  BY <1>0, <2>1, TaskTurns, ResultSent DEF TaskMoves
  <1>4. ASSUME k \in Image, CreateThumb(k)
        PROVE  TaskMoves(k) /\ UNCHANGED <<version, displays>>
    BY <1>0, <1>4, TaskTurns DEF CreateThumb, TaskMoves
  <1>5. ASSUME k \in Image, FillThumb(k)
        PROVE  TaskMoves(k) /\ UNCHANGED <<version, displays>>
    BY <1>0, <1>5, ResultSent DEF FillThumb, TaskMoves
  <1>6. ASSUME k \in Versions, ReadFile(k)
        PROVE  /\ TaskMoves(k) /\ UNCHANGED <<version, thumb, displays>>
               /\ \/ making'[k].at = "published"
                  \/ /\ making'[k].at = "decoded" /\ making[k].at = "reading"
                     /\ making'[k].first = (IF making[k].first = version THEN making[k].first ELSE Mixed)
    <2> DEFINE new == [making[k] EXCEPT !.at = "decoded", !.first = IF making[k].first = version THEN making[k].first ELSE Mixed]
    <2>1. /\ making[k].at = "reading" /\ UNCHANGED <<version, thumb, displays>>
          /\ \/ thumb[k] # "absent" /\ SendResult(k, thumb[k])
             \/ making' = [making EXCEPT ![k] = new] /\ UNCHANGED cells
      BY <1>0, <1>6 DEF ReadFile
    <2>2. /\ new \in Makings /\ new.at = "decoded"
          /\ new.first = (IF making[k].first = version THEN making[k].first ELSE Mixed)
      BY <1>0, KeysDiffer DEF Makings, Mixed
    <2> HIDE DEF new
    <2> QED  BY <1>0, <2>1, <2>2, ResultSent DEF TaskMoves, Turn, ResultIs
  <1>7. ASSUME k \in Versions, KeepFile(k)
        PROVE  TaskMoves(k) /\ making'[k].at = "published" /\ UNCHANGED version
    BY <1>0, <1>7, ResultSent DEF KeepFile, TaskMoves, ResultIs, Turn
  <1>8. ASSUME k \in Versions, KeepOriginal(k)
        PROVE  TaskMoves(k) /\ making'[k].at = "published" /\ UNCHANGED <<version, displays>>
    BY <1>0, <1>8, ResultSent DEF KeepOriginal, TaskMoves, ResultIs, Turn
  <1>9. ASSUME Fails(k)
        PROVE  TaskMoves(k) /\ making'[k].at = "published" /\ UNCHANGED <<version, thumb, displays>>
    BY <1>0, <1>9, ResultSent DEF Fails, TaskMoves, ResultIs, Turn
  <1> QED  BY <1>1, <1>2, <1>3, <1>4, <1>5, <1>6, <1>7, <1>8, <1>9

\* What may happen, sorted by what it touches.
TaskWorks(k) ==
    \/ Permit(k) \/ CheckFile(k) \/ Fails(k)
    \/ k \in Image /\ (ReadImage(k) \/ CreateThumb(k) \/ FillThumb(k))
    \/ k \in Versions /\ (ReadFile(k) \/ KeepFile(k) \/ KeepOriginal(k))
FilesOnly == Rewrite \/ (\E i \in Image : RemoveOrigin(i)) \/ RemoveThumb

LEMMA ThumbCases ==
  ASSUME ThumbShape, [ThumbNext]_thumbVars
  PROVE  \/ \E a \in Asker, k \in Key : FoundAtOnce(a, k)
         \/ \E a \in Asker, k \in Key : Await(a, k) /\ (k \in Versions => k = version)
         \/ \E a \in Asker : Shown(a) \/ CancelCall(a)
         \/ \E k \in Key : TaskWorks(k)
         \/ \E k \in Key : Lands(k)
         \/ FilesOnly \/ StartAgain \/ UNCHANGED thumbVars
  <1>1. version \in Versions /\ version \in Key
    BY KeysDiffer DEF ThumbShape
  <1>2. CASE \E a \in Asker : (\E i \in Image : AskImage(a, i)) \/ AskFile(a) \/ Shown(a) \/ CancelCall(a)
    <2> PICK a \in Asker : (\E i \in Image : AskImage(a, i)) \/ AskFile(a) \/ Shown(a) \/ CancelCall(a)
      BY <1>2
    <2>1. ASSUME NEW i \in Image, AskImage(a, i)
          PROVE  (\E k \in Key : FoundAtOnce(a, k)) \/ (\E k \in Key : Await(a, k) /\ (k \in Versions => k = version))
      BY <2>1, KeysDiffer DEF AskImage
    <2>2. CASE AskFile(a)
      BY <1>1, <2>2 DEF AskFile
    <2> QED  BY <2>1, <2>2
  <1>3. CASE \E k \in Key : TaskStep(k) \/ Fails(k)
    BY <1>3 DEF TaskStep, TaskWorks
  <1> QED  BY <1>2, <1>3 DEF ThumbNext, FilesOnly

\* A task only reads what is there.
LEMMA WorksMove ==
  ASSUME ThumbShape, NEW k \in Key, TaskWorks(k)
  PROVE  TaskMoves(k) /\ UNCHANGED <<origins, removal, version, flying>>
  <1>1. TaskMoves(k)
    BY TasksStep DEF TaskWorks
  <1>2. UNCHANGED <<origins, removal, version, flying>>
    BY DEF TaskWorks, Permit, CheckFile, Fails, ReadImage, CreateThumb, FillThumb, ReadFile, KeepFile, KeepOriginal
  <1> QED  BY <1>1, <1>2

\* Whoever waits is in the air.
LEMMA FlightsStay ==
  ASSUME ThumbShape, \A k \in Key : Flies(k), WaitsForTask, [ThumbNext]_thumbVars
  PROVE  (\A k \in Key : Flies(k))' /\ WaitsForTask'
  <1>0. \A a \in Asker : cells[a] \in Cells /\ cells[a].key \in Key
    BY DEF ThumbShape, Cells
  <1>1. ASSUME NEW a \in Asker, NEW k \in Key, FoundAtOnce(a, k)
        PROVE  (\A j \in Key : Flies(j))' /\ WaitsForTask'
    <2> DEFINE c == [at |-> thumb[k], key |-> k]
    <2>1. c \in Cells /\ c.at # "awaiting" /\ cells' = [cells EXCEPT ![a] = c] /\ UNCHANGED <<flying, making>>
      BY <1>1 DEF FoundAtOnce, ThumbShape, Cells, Results
    <2> HIDE DEF c
    <2>2. cells'[a] = c /\ \A b \in Asker \ {a} : cells'[b] = cells[b]
      BY <2>1, CellTakes
    <2> QED  BY <1>0, <2>1, <2>2 DEF Flies, WaitsForTask
  <1>2. ASSUME NEW a \in Asker, NEW k \in Key, Await(a, k)
        PROVE  (\A j \in Key : Flies(j))' /\ WaitsForTask'
    <2> DEFINE c == [at |-> IF making[k].at = "published" THEN making[k].result ELSE "awaiting", key |-> k]
    <2>1. cells' = [cells EXCEPT ![a] = c] /\ flying' = flying \cup {k}
      BY <1>2 DEF Await
    <2>2. c \in Cells /\ c.key = k /\ (making[k].at = "published" => c.at # "awaiting")
      BY DEF Flies, Cells, Results
    <2> HIDE DEF c
    <2>3. cells'[a] = c /\ \A b \in Asker \ {a} : cells'[b] = cells[b]
      BY <2>1, <2>2, CellTakes
    <2>4. CASE k \in flying
      <3>1. making' = making /\ flying' = flying
        BY <1>2, <2>1, <2>4 DEF Await
      <3> QED  BY <1>0, <2>2, <2>3, <2>4, <3>1 DEF Flies, WaitsForTask
    <2>5. CASE k \notin flying
      <3>1. making' = [making EXCEPT ![k].at = "queued"] /\ making \in [Key -> Makings]
        BY <1>2, <2>5 DEF Await, ThumbShape
      <3>2. making'[k].at = "queued" /\ \A j \in Key \ {k} : making'[j] = making[j]
        BY <3>1 DEF Makings
      <3> QED  BY <1>0, <2>1, <2>2, <2>3, <2>5, <3>2 DEF Flies, WaitsForTask
    <2> QED  BY <2>4, <2>5
  <1>3. ASSUME NEW a \in Asker, Shown(a) \/ CancelCall(a)
        PROVE  (\A j \in Key : Flies(j))' /\ WaitsForTask'
    <2>1. cells' = [cells EXCEPT ![a] = Unasked] /\ UNCHANGED <<flying, making>>
      BY <1>3 DEF Shown, CancelCall
    <2>2. Unasked \in Cells /\ Unasked.at = "none"
      BY KeysDiffer DEF Unasked, Cells
    <2>3. cells'[a] = Unasked /\ \A b \in Asker \ {a} : cells'[b] = cells[b]
      BY <2>1, <2>2, CellTakes
    <2> QED  BY <1>0, <2>1, <2>2, <2>3 DEF Flies, WaitsForTask
  <1>4. ASSUME NEW k \in Key, TaskWorks(k)
        PROVE  (\A j \in Key : Flies(j))' /\ WaitsForTask'
    <2>1. TaskMoves(k) /\ flying' = flying
      BY <1>4, WorksMove
    <2>2. making[k].at # "none"
      BY <1>4 DEF TaskWorks, Permit, CheckFile, Fails, ReadImage, CreateThumb, FillThumb, ReadFile, KeepFile, KeepOriginal
    <2>3. ASSUME NEW result \in Results, ResultIs(k, result)
          PROVE  (\A j \in Key : Flies(j))' /\ WaitsForTask'
      <3>1. result # "awaiting"
        BY DEF Results
      <3> QED  BY <1>0, <2>1, <2>2, <2>3, <3>1 DEF ResultIs, Turn, Flies, WaitsForTask
    <2>4. ASSUME cells' = cells, NEW at \in {"reading", "decoded", "checked", "writing", "filling"}, Turn(k, at)
          PROVE  (\A j \in Key : Flies(j))' /\ WaitsForTask'
      BY <1>0, <2>1, <2>2, <2>4 DEF Turn, Flies, WaitsForTask
    <2> QED  BY <2>1, <2>3, <2>4 DEF TaskMoves
  <1>5. ASSUME NEW k \in Key, Lands(k)
        PROVE  (\A j \in Key : Flies(j))' /\ WaitsForTask'
    <2>1. /\ making[k].at = "published" /\ making' = [making EXCEPT ![k] = Unmade] /\ flying' = flying \ {k} /\ cells' = cells
          /\ making \in [Key -> Makings] /\ Unmade.at = "none"
      BY <1>5 DEF Lands, ThumbShape, Unmade
    <2> QED  BY <1>0, <2>1 DEF Flies, WaitsForTask
  <1>6. CASE FilesOnly \/ UNCHANGED thumbVars
    BY <1>6 DEF FilesOnly, Rewrite, RemoveOrigin, RemoveThumb, thumbVars, Flies, WaitsForTask
  <1>7. CASE StartAgain
    BY <1>7 DEF StartAgain, Flies, WaitsForTask, Unmade, Unasked
  <1> QED  BY <1>1, <1>2, <1>3, <1>4, <1>5, <1>6, <1>7, ThumbCases

\* What is read is of the version asked for, or is not kept.
LEMMA ReadStays ==
  ASSUME ThumbShape, \A v \in Versions : WasRead(v), [ThumbNext]_thumbVars
  PROVE  (\A v \in Versions : WasRead(v))'
  <1>0. version \in Nat /\ Versions \subseteq Nat /\ Versions \subseteq Key /\ making \in [Key -> Makings]
    BY ThumbnailAssumption, KeysDiffer DEF ThumbShape, Versions
  <1>1. ASSUME making' = making, version' \in Nat, version <= version'
        PROVE  (\A v \in Versions : WasRead(v))'
    BY <1>0, <1>1 DEF WasRead, Mixed
  <1>2. ASSUME NEW a \in Asker, NEW k \in Key, Await(a, k), k \in Versions => k = version
        PROVE  (\A v \in Versions : WasRead(v))'
    <2>1. version' = version /\ (making' = making \/ making' = [making EXCEPT ![k].at = "queued"])
      BY <1>2 DEF Await
    <2>2. CASE making' = [making EXCEPT ![k].at = "queued"]
      <3>1. making'[k].at = "queued" /\ \A j \in Key \ {k} : making'[j] = making[j]
        BY <1>0, <2>2 DEF Makings
      <3> QED  BY <1>0, <1>2, <2>1, <3>1 DEF WasRead
    <2> QED  BY <1>0, <1>1, <2>1, <2>2
  <1>3. ASSUME NEW k \in Key, TaskWorks(k)
        PROVE  (\A v \in Versions : WasRead(v))'
    <2>1. TaskMoves(k) /\ version' = version
      BY <1>3, WorksMove
    <2>2. \A j \in Key \ {k} : making'[j] = making[j]
      BY <2>1 DEF TaskMoves, ResultIs, Turn
    <2>3. k \in Versions => WasRead(k)'
      <3> SUFFICES ASSUME k \in Versions PROVE WasRead(k)'
        OBVIOUS
      <3>1. k \in Nat /\ WasRead(k) /\ k \notin Image
        BY <1>0, KeysDiffer
      <3>2. CASE Permit(k)
        <4>1. making[k].at = "queued"
          BY <3>2 DEF Permit
        <4> QED  BY <1>0, <2>1, <3>1, <3>2, <4>1, TasksStep DEF WasRead
      <3>3. CASE CheckFile(k)
        <4>1. making[k].at = "decoded"
          BY <3>3 DEF CheckFile
        <4>2. making'[k].at = "published" \/ (making'[k].at = "checked" /\ version = k /\ making'[k].first = making[k].first)
          BY <3>3, TasksStep
        <4> QED  BY <1>0, <2>1, <3>1, <4>1, <4>2 DEF WasRead
      <3>4. CASE ReadFile(k)
        <4>1. \/ making'[k].at = "published"
              \/ /\ making'[k].at = "decoded" /\ making[k].at = "reading"
                 /\ making'[k].first = (IF making[k].first = version THEN making[k].first ELSE Mixed)
          BY <3>4, TasksStep
        <4>2. making[k].at = "reading" => making[k].first \in k..version
          BY <3>1 DEF WasRead
        <4> QED  BY <1>0, <2>1, <3>1, <4>1, <4>2 DEF WasRead
      <3>5. CASE Fails(k) \/ KeepFile(k) \/ KeepOriginal(k)
        <4>1. making'[k].at = "published"
          BY <3>5, TasksStep
        <4> QED  BY <4>1 DEF WasRead
      <3> QED  BY <1>3, <3>1, <3>2, <3>3, <3>4, <3>5 DEF TaskWorks
    <2> QED  BY <1>0, <2>1, <2>2, <2>3 DEF WasRead
  <1>4. ASSUME NEW k \in Key, Lands(k)
        PROVE  (\A v \in Versions : WasRead(v))'
    BY <1>0, <1>4 DEF Lands, Unmade, WasRead
  <1>5. CASE StartAgain
    BY <1>0, <1>5 DEF StartAgain, Unmade, WasRead
  <1>6. CASE FilesOnly \/ UNCHANGED thumbVars
    BY <1>0, <1>1, <1>6 DEF FilesOnly, Rewrite, RemoveOrigin, RemoveThumb, thumbVars
  <1>7. ASSUME NEW a \in Asker, (\E k \in Key : FoundAtOnce(a, k)) \/ Shown(a) \/ CancelCall(a)
        PROVE  (\A v \in Versions : WasRead(v))'
    BY <1>0, <1>1, <1>7 DEF FoundAtOnce, Shown, CancelCall
  <1> QED  BY <1>2, <1>3, <1>4, <1>5, <1>6, <1>7, ThumbCases

\* A thumbnail is kept under the version it shows.
LEMMA OfItsVersionStays ==
  ASSUME ThumbShape, OfItsVersion, \A v \in Versions : WasRead(v), [ThumbNext]_thumbVars
  PROVE  OfItsVersion' /\ thumb' \in [Key -> {"absent", "half", "whole", "original"}] /\ displays' \in [Versions -> 0..MaxVersion]
  <1> DEFINE Goal == /\ OfItsVersion' /\ thumb' \in [Key -> {"absent", "half", "whole", "original"}]
                     /\ displays' \in [Versions -> 0..MaxVersion]
  <1>0. /\ thumb \in [Key -> {"absent", "half", "whole", "original"}] /\ displays \in [Versions -> 0..MaxVersion]
        /\ Versions \subseteq Key /\ Image \cap Versions = {} /\ Image \subseteq Key
    BY KeysDiffer DEF ThumbShape
  <1>1. ASSUME UNCHANGED <<thumb, displays>> PROVE Goal
    BY <1>0, <1>1 DEF OfItsVersion
  <1>2. ASSUME NEW i \in Image, NEW what \in {"absent", "half", "whole"}, thumb' = [thumb EXCEPT ![i] = what], displays' = displays
        PROVE  Goal
    BY <1>0, <1>2 DEF OfItsVersion
  <1>3. ASSUME NEW k \in Key, TaskWorks(k) PROVE Goal
    <2>1. CASE Permit(k) \/ CheckFile(k) \/ Fails(k) \/ (k \in Image /\ ReadImage(k)) \/ (k \in Versions /\ ReadFile(k))
      BY <1>1, <2>1, TasksStep
    <2>2. CASE k \in Image /\ CreateThumb(k)
      BY <1>2, <2>2 DEF CreateThumb
    <2>3. CASE k \in Image /\ FillThumb(k)
      <3>1. thumb' = [thumb EXCEPT ![k] = IF thumb[k] = "half" THEN "whole" ELSE thumb[k]] /\ displays' = displays
        BY <2>3 DEF FillThumb
      <3> QED  BY <1>0, <2>3, <3>1 DEF OfItsVersion
    <2>4. ASSUME k \in Versions, NEW what \in {"whole", "original"}, Keep(k, what),
                 \A v \in Versions \ {k} : displays'[v] = displays[v], displays' \in [Versions -> 0..MaxVersion],
                 what = "whole" => displays'[k] = k
          PROVE  Goal
      <3>1. PICK gone \in Trimmed(k) : thumb' = [j \in Key |-> CASE j = k -> what [] j \in gone -> "absent" [] OTHER -> thumb[j]]
        BY <2>4 DEF Keep
      <3>0. k \notin gone
        BY DEF Trimmed
      <3>2. \A j \in Key : /\ thumb'[j] = IF j = k THEN what ELSE IF j \in gone THEN "absent" ELSE thumb[j]
                           /\ thumb'[j] \in {"absent", "half", "whole", "original"}
        <4> SUFFICES ASSUME NEW j \in Key
                     PROVE  /\ thumb'[j] = IF j = k THEN what ELSE IF j \in gone THEN "absent" ELSE thumb[j]
                            /\ thumb'[j] \in {"absent", "half", "whole", "original"}
          OBVIOUS
        <4>1. thumb'[j] = IF j = k THEN what ELSE IF j \in gone THEN "absent" ELSE thumb[j]
          BY <3>1, <3>0
        <4> QED  BY <1>0, <4>1
      <3>3. OfItsVersion'
        BY <1>0, <2>4, <3>2 DEF OfItsVersion
      <3> QED  BY <2>4, <3>1, <3>2, <3>3
    <2>5. CASE k \in Versions /\ KeepFile(k)
      <3>1. Keep(k, "whole") /\ displays' = [displays EXCEPT ![k] = making[k].first] /\ making[k].at = "checked"
        BY <2>5 DEF KeepFile
      <3>2. making[k].first = k /\ k \in 0..MaxVersion
        BY <2>5, <3>1, KeysDiffer DEF WasRead
      <3> QED  BY <1>0, <2>4, <2>5, <3>1, <3>2
    <2>6. CASE k \in Versions /\ KeepOriginal(k)
      BY <1>0, <2>4, <2>6 DEF KeepOriginal
    <2> QED  BY <1>3, <2>1, <2>2, <2>3, <2>5, <2>6 DEF TaskWorks
  <1>4. CASE RemoveThumb
    BY <1>2, <1>4 DEF RemoveThumb, ThumbShape
  <1>5. ASSUME NEW k \in Key, Lands(k) PROVE Goal
    BY <1>1, <1>5 DEF Lands
  <1>6. ASSUME NEW a \in Asker, NEW k \in Key, FoundAtOnce(a, k) \/ Await(a, k) PROVE Goal
    BY <1>1, <1>6 DEF FoundAtOnce, Await
  <1>7. ASSUME NEW a \in Asker, Shown(a) \/ CancelCall(a) PROVE Goal
    BY <1>1, <1>7 DEF Shown, CancelCall
  <1>8. CASE Rewrite \/ (\E i \in Image : RemoveOrigin(i)) \/ StartAgain \/ UNCHANGED thumbVars
    BY <1>1, <1>8 DEF Rewrite, RemoveOrigin, StartAgain, thumbVars
  <1> QED  BY <1>3, <1>4, <1>5, <1>6, <1>7, <1>8, ThumbCases DEF FilesOnly

\* The cells of askers and tasks keep their shape.
LEMMA ThumbShapeStays ==
  ASSUME ThumbShape, \A k \in Key : Flies(k), [ThumbNext]_thumbVars
  PROVE  /\ origins' \subseteq Image /\ removal' \in Image \cup {NoImage} /\ version' \in Versions /\ flying' \subseteq Key
         /\ making' \in [Key -> Makings] /\ cells' \in [Asker -> Cells]
  <1> DEFINE Around == /\ origins' \subseteq Image /\ removal' \in Image \cup {NoImage} /\ version' \in Versions
                       /\ flying' \subseteq Key
             Inside == making' \in [Key -> Makings] /\ cells' \in [Asker -> Cells]
  <1>0. /\ making \in [Key -> Makings] /\ cells \in [Asker -> Cells] /\ Unmade \in Makings /\ Unasked \in Cells
        /\ origins \subseteq Image /\ removal \in Image \cup {NoImage} /\ version \in Versions /\ flying \subseteq Key
    BY KeysDiffer DEF ThumbShape, Unmade, Unasked, Makings, Cells, Mixed
  <1>1. ASSUME NEW a \in Asker, NEW k \in Key, FoundAtOnce(a, k) PROVE Around /\ Inside
    <2>1. thumb[k] \in Results
      BY <1>1 DEF ThumbShape, FoundAtOnce, Results
    <2>2. [at |-> thumb[k], key |-> k] \in Cells
      BY <2>1 DEF Cells
    <2> QED  BY <1>0, <1>1, <2>2 DEF FoundAtOnce
  <1>2. ASSUME NEW a \in Asker, NEW k \in Key, Await(a, k) PROVE Around /\ Inside
    <2>1. [at |-> IF making[k].at = "published" THEN making[k].result ELSE "awaiting", key |-> k] \in Cells
      BY DEF Flies, Cells, Results
    <2>2. [making[k] EXCEPT !.at = "queued"] \in Makings
      BY <1>0 DEF Makings
    <2>3. making' = making \/ making' = [making EXCEPT ![k] = [making[k] EXCEPT !.at = "queued"]]
      BY <1>2 DEF Await
    <2> QED  BY <1>0, <1>2, <2>1, <2>2, <2>3 DEF Await
  <1>3. ASSUME NEW a \in Asker, Shown(a) \/ CancelCall(a) PROVE Around /\ Inside
    BY <1>0, <1>3 DEF Shown, CancelCall
  <1>4. ASSUME NEW k \in Key, TaskWorks(k) PROVE Around /\ Inside
    BY <1>0, <1>4, WorksMove DEF TaskMoves, ResultIs, Turn
  <1>5. ASSUME NEW k \in Key, Lands(k) PROVE Around /\ Inside
    BY <1>0, <1>5 DEF Lands
  <1>6. CASE FilesOnly
    <2>1. CASE Rewrite
      BY <1>0, <2>1, ThumbnailAssumption DEF Rewrite, Versions
    <2> QED  BY <1>0, <1>6, <2>1 DEF FilesOnly, RemoveOrigin, RemoveThumb
  <1>7. CASE StartAgain
    BY <1>0, <1>7 DEF StartAgain
  <1>8. CASE UNCHANGED thumbVars
    BY <1>0, <1>8 DEF thumbVars
  <1> QED  BY <1>1, <1>2, <1>3, <1>4, <1>5, <1>6, <1>7, <1>8, ThumbCases

\* Every step of the thumbnails keeps the invariant.
LEMMA ThumbsStay == ThumbInv /\ [ThumbNext]_thumbVars => ThumbInv'
  <1> SUFFICES ASSUME ThumbInv, [ThumbNext]_thumbVars PROVE ThumbInv'
    OBVIOUS
  <1>1. ThumbShape /\ OfItsVersion /\ (\A v \in Versions : WasRead(v)) /\ (\A k \in Key : Flies(k)) /\ WaitsForTask
    BY DEF ThumbInv
  <1>2. ThumbShape' /\ OfItsVersion'
    BY <1>1, ThumbShapeStays, OfItsVersionStays DEF ThumbShape
  <1> QED  BY <1>1, <1>2, ReadStays, FlightsStay DEF ThumbInv

\* It says what was promised of them.
LEMMA ThumbsServe == ThumbInv => ThumbsSound /\ ThumbTypeOK
  BY DEF ThumbInv, ThumbsSound, ThumbTypeOK, ThumbShape, Makings, Cells, Results

-----------------------------------------------------------------------------
(* The sizes of folders. A walk that counted for the revision a record has   *)
(* began after that copy, so what it found is at least what was copied.      *)

WalkSteps == {"none", "waiting", "walking", "counted", "packed"}
Walks == [at : WalkSteps, rev : Nat, sum : Nat]
FolderRecords == [rev : Nat, size : Nat, since : Nat]
Uploads == [rev : Nat, size : Nat]

SizeShape ==
    /\ grown \in [Folder -> Nat \ {0}] /\ records \in [Folder -> FolderRecords]
    /\ showing \in [Folder -> Nat] /\ toSend \in [Folder -> Nat]
    /\ walks \in [SizeTask -> [Folder -> Walks]]
    /\ missing \in [loaded : BOOLEAN, left : SUBSET Folder]
    /\ uploaded \in [Folder -> Uploads] /\ tooLarge \subseteq Folder
    /\ sizeTally \in [steps : Nat, faults : Nat, revs : Nat]

\* Revisions are given out in order, and sizes are counted.
Counted(f) ==
    /\ records[f].rev <= sizeTally.revs /\ toSend[f] <= sizeTally.revs /\ uploaded[f].rev <= sizeTally.revs
    /\ records[f].since <= grown[f] /\ records[f].size <= grown[f] /\ showing[f] <= grown[f]
    /\ records[f].size # 0 => records[f].size >= records[f].since
    /\ uploaded[f].rev = 0 => uploaded[f].size = 0
    /\ uploaded[f].size <= SizeLimit
    /\ records[f].rev = uploaded[f].rev => records[f].size >= uploaded[f].size
    /\ f \in missing.left => walks["backfill"][f].rev # 0

WalkSound(k, f) ==
    /\ walks[k][f].rev <= sizeTally.revs /\ walks[k][f].sum <= grown[f]
    /\ walks[k][f].at # "none" => walks[k][f].rev # 0
    /\ walks[k][f].at \in {"none", "waiting", "walking"} => walks[k][f].sum = 0
    /\ walks[k][f].at = "packed" => walks[k][f].sum # 0
    /\ walks[k][f].rev = records[f].rev /\ walks[k][f].sum # 0 => walks[k][f].sum >= records[f].since

SizeInv ==
    /\ SizeShape
    /\ \A f \in Folder : Counted(f)
    /\ \A k \in SizeTask, f \in Folder : WalkSound(k, f)

\* A walk is put into another state.
LEMMA PutWalk ==
  ASSUME walks \in [SizeTask -> [Folder -> Walks]], NEW k \in SizeTask, NEW f \in Folder, NEW w \in Walks,
         walks' = [walks EXCEPT ![k][f] = w]
  PROVE  /\ walks' \in [SizeTask -> [Folder -> Walks]] /\ walks'[k][f] = w
         /\ \A j \in SizeTask, g \in Folder : j # k \/ g # f => walks'[j][g] = walks[j][g]
  OBVIOUS

\* A record is changed.
LEMMA PutRecord ==
  ASSUME records \in [Folder -> FolderRecords], NEW f \in Folder, NEW r \in FolderRecords, records' = [records EXCEPT ![f] = r]
  PROVE  /\ records' \in [Folder -> FolderRecords] /\ records'[f] = r
         /\ \A g \in Folder : g # f => records'[g] = records[g]
  OBVIOUS

\* No walk is one as well.
LEMMA NoWalkIsWalk == NoWalk \in Walks /\ NoWalk.at = "none" /\ NoWalk.rev = 0 /\ NoWalk.sum = 0
  BY DEF NoWalk, Walks, WalkSteps

\* The numbers are numbers.
LEMMA SizeTyped ==
  ASSUME SizeShape, NEW f \in Folder
  PROVE  /\ grown[f] \in Nat /\ grown[f] # 0 /\ showing[f] \in Nat /\ toSend[f] \in Nat
         /\ records[f] \in FolderRecords /\ records[f].rev \in Nat /\ records[f].size \in Nat /\ records[f].since \in Nat
         /\ uploaded[f].rev \in Nat /\ uploaded[f].size \in Nat
         /\ \A k \in SizeTask : /\ walks[k][f] \in Walks /\ walks[k][f].at \in WalkSteps
                                /\ walks[k][f].rev \in Nat /\ walks[k][f].sum \in Nat
         /\ sizeTally.revs \in Nat /\ SizeLimit \in Nat
  BY SizeAssumption DEF SizeShape, FolderRecords, Walks, Uploads

\* Nothing is counted yet.
LEMMA SizesStart == SizeInit => SizeInv
  <1> SUFFICES ASSUME SizeInit PROVE SizeInv
    OBVIOUS
  <1>1. \A f \in Folder : records[f] \in FolderRecords
    BY DEF SizeInit, FolderRecords, NoFolderRecord
  <1>2. walks \in [SizeTask -> [Folder -> Walks]] /\ \A k \in SizeTask, f \in Folder : walks[k][f] = NoWalk
    BY NoWalkIsWalk DEF SizeInit
  <1>3. SizeShape
    BY <1>1, <1>2 DEF SizeInit, SizeShape, Uploads, NotLoaded
  <1>4. ASSUME NEW f \in Folder PROVE Counted(f)
    BY SizeAssumption DEF SizeInit, Counted, NotLoaded, NoFolderRecord
  <1>5. ASSUME NEW k \in SizeTask, NEW f \in Folder PROVE WalkSound(k, f)
    <2>1. grown[f] = 1 /\ sizeTally.revs = 1 /\ records[f].since \in Nat
      BY <1>1 DEF SizeInit, FolderRecords
    <2> QED  BY <1>2, <2>1, NoWalkIsWalk DEF WalkSound
  <1> QED  BY <1>3, <1>4, <1>5 DEF SizeInv

\* One lemma for each action: what it changes is what the invariant speaks of.
LEMMA FilesGrowKeeps ==
  ASSUME SizeInv, NEW f \in Folder, FilesGrow(f)
  PROVE  SizeInv'
  <1>0. SizeShape /\ (\A g \in Folder : Counted(g)) /\ (\A j \in SizeTask, g \in Folder : WalkSound(j, g))
    BY DEF SizeInv
  <1>1. /\ grown' = [grown EXCEPT ![f] = grown[f] + 1] /\ UNCHANGED <<records, showing, walks, missing, toSend, uploaded, tooLarge>>
        /\ sizeTally' = [sizeTally EXCEPT !.steps = sizeTally.steps + 1] /\ sizeTally'.revs = sizeTally.revs
    BY <1>0 DEF FilesGrow, Edited, SizeShape
  <1>2. \A g \in Folder : grown'[g] \in Nat /\ grown[g] <= grown'[g]
    BY <1>0, <1>1 DEF SizeShape
  <1>7. SizeShape'
    BY <1>0, <1>1 DEF SizeShape
  <1>8. ASSUME NEW g \in Folder PROVE Counted(g)'
    BY <1>0, <1>1, <1>2, SizeTyped DEF Counted
  <1>9. ASSUME NEW j \in SizeTask, NEW g \in Folder PROVE WalkSound(j, g)'
    BY <1>0, <1>1, <1>2, SizeTyped DEF WalkSound
  <1> QED  BY <1>7, <1>8, <1>9 DEF SizeInv

LEMMA DeleteFolderKeeps ==
  ASSUME SizeInv, NEW f \in Folder, DeleteFolder(f)
  PROVE  SizeInv'
  <1>0. SizeShape /\ (\A g \in Folder : Counted(g)) /\ (\A j \in SizeTask, g \in Folder : WalkSound(j, g))
    BY DEF SizeInv
  <1>1. /\ UNCHANGED <<grown, walks, missing, toSend, uploaded>> /\ tooLarge' \subseteq tooLarge
        /\ sizeTally' = [sizeTally EXCEPT !.steps = sizeTally.steps + 1] /\ sizeTally'.revs = sizeTally.revs
        /\ showing' = [showing EXCEPT ![f] = 0] /\ records' = [records EXCEPT ![f] = NoFolderRecord]
    BY <1>0 DEF DeleteFolder, Edited, SizeShape
  <1>2. NoFolderRecord \in FolderRecords /\ NoFolderRecord.rev = 0 /\ NoFolderRecord.size = 0 /\ NoFolderRecord.since = 0
    BY DEF NoFolderRecord, FolderRecords
  <1>3. records' \in [Folder -> FolderRecords] /\ records'[f] = NoFolderRecord /\ \A g \in Folder : g # f => records'[g] = records[g]
    BY <1>0, <1>1, <1>2, PutRecord DEF SizeShape
  <1>4. \A g \in Folder : showing'[g] = IF g = f THEN 0 ELSE showing[g]
    BY <1>0, <1>1 DEF SizeShape
  <1>7. SizeShape'
    BY <1>0, <1>1, <1>3 DEF SizeShape
  <1>8. ASSUME NEW g \in Folder PROVE Counted(g)'
    BY <1>0, <1>1, <1>2, <1>3, <1>4, SizeTyped DEF Counted
  <1>9. ASSUME NEW j \in SizeTask, NEW g \in Folder PROVE WalkSound(j, g)'
    BY <1>0, <1>1, <1>2, <1>3, SizeTyped DEF WalkSound
  <1> QED  BY <1>7, <1>8, <1>9 DEF SizeInv

LEMMA CopyFolderKeeps ==
  ASSUME SizeInv, NEW f \in Folder, NEW staged \in BOOLEAN, CopyFolder(f, staged)
  PROVE  SizeInv'
  <1>0. SizeShape /\ (\A g \in Folder : Counted(g)) /\ (\A j \in SizeTask, g \in Folder : WalkSound(j, g))
    BY DEF SizeInv
  <1>t. \E j \in LateTask : walks[j][f] = NoWalk
    BY DEF CopyFolder
  <1> DEFINE k == CHOOSE j \in LateTask : walks[j][f] = NoWalk
             rev == sizeTally.revs + 1
             r == [rev |-> rev, size |-> 0, since |-> grown[f]]
             w == [at |-> "waiting", rev |-> rev, sum |-> 0]
  <1>1. /\ UNCHANGED <<grown, missing, uploaded, tooLarge>>
        /\ records' = [records EXCEPT ![f] = r] /\ walks' = [walks EXCEPT ![k][f] = w]
        /\ showing' = [showing EXCEPT ![f] = 0] /\ (toSend' = toSend \/ toSend' = [toSend EXCEPT ![f] = rev])
        /\ sizeTally' = [sizeTally EXCEPT !.steps = sizeTally.steps + 1, !.revs = rev]
    BY DEF CopyFolder
  <1>k. k \in LateTask
    BY <1>t
  <1> HIDE DEF k
  <1>2. /\ r \in FolderRecords /\ r.rev = rev /\ r.size = 0 /\ r.since = grown[f] /\ rev \in Nat /\ rev # 0
        /\ w \in Walks /\ w.at = "waiting" /\ w.rev = rev /\ w.sum = 0
    BY <1>0, SizeTyped DEF FolderRecords, Walks, WalkSteps
  <1>4. rev > sizeTally.revs
    BY <1>0, SizeTyped
  <1>p. sizeTally \in [steps : Nat, faults : Nat, revs : Nat]
    BY <1>0 DEF SizeShape
  <1> HIDE DEF r, w, rev
  <1>3. sizeTally'.revs = rev /\ sizeTally' \in [steps : Nat, faults : Nat, revs : Nat]
    <2>1. sizeTally' = [[sizeTally EXCEPT !.steps = sizeTally.steps + 1] EXCEPT !.revs = rev]
      BY <1>1
    <2>2. [sizeTally EXCEPT !.steps = sizeTally.steps + 1] \in [steps : Nat, faults : Nat, revs : Nat]
      BY <1>p
    <2> QED  BY <1>2, <2>1, <2>2
  <1>5. records' \in [Folder -> FolderRecords] /\ records'[f] = r /\ \A g \in Folder : g # f => records'[g] = records[g]
    BY <1>0, <1>1, <1>2, PutRecord DEF SizeShape
  <1>6. /\ walks' \in [SizeTask -> [Folder -> Walks]] /\ walks'[k][f] = w
        /\ \A j \in SizeTask, g \in Folder : j # k \/ g # f => walks'[j][g] = walks[j][g]
    <2>1. k \in SizeTask
      BY <1>k DEF SizeTask
    <2> QED  BY <1>0, <1>1, <1>2, <2>1, PutWalk DEF SizeShape
  <1>7. SizeShape'
    BY <1>0, <1>1, <1>2, <1>3, <1>5, <1>6 DEF SizeShape
  <1>8. ASSUME NEW g \in Folder PROVE Counted(g)'
    <2>1. /\ showing'[g] = (IF g = f THEN 0 ELSE showing[g]) /\ toSend'[g] \in {toSend[g], rev}
          /\ walks'["backfill"][g] = walks["backfill"][g]
      <3>1. "backfill" # k /\ "backfill" \in SizeTask
        BY <1>k, SizeAssumption DEF SizeTask
      <3> QED  BY <1>0, <1>1, <1>6, <3>1 DEF SizeShape
    <2> QED  BY <1>0, <1>1, <1>2, <1>3, <1>4, <1>5, <2>1, SizeTyped DEF Counted
  <1>9. ASSUME NEW j \in SizeTask, NEW g \in Folder PROVE WalkSound(j, g)'
    BY <1>0, <1>1, <1>2, <1>3, <1>4, <1>5, <1>6, SizeTyped DEF WalkSound
  <1> QED  BY <1>7, <1>8, <1>9 DEF SizeInv

\* A walk of task k goes on; the records and the rest stay.
LEMMA WalkGoesOn ==
  ASSUME SizeInv, NEW k \in SizeTask, NEW f \in Folder, NEW w \in Walks, walks' = [walks EXCEPT ![k][f] = w],
         UNCHANGED <<grown, records, missing, uploaded, sizeTally>>, tooLarge' \subseteq Folder,
         showing' \in [Folder -> Nat], \A g \in Folder : showing'[g] = showing[g],
         toSend' \in [Folder -> Nat], \A g \in Folder : toSend'[g] \in {0, toSend[g]},
         w.rev <= sizeTally.revs, w.sum <= grown[f], w.at # "none" => w.rev # 0,
         w.at \in {"none", "waiting", "walking"} => w.sum = 0, w.at = "packed" => w.sum # 0,
         w.rev = records[f].rev /\ w.sum # 0 => w.sum >= records[f].since,
         k = "backfill" /\ f \in missing.left => w.rev # 0
  PROVE  SizeInv'
  <1>0. SizeShape /\ (\A g \in Folder : Counted(g)) /\ (\A j \in SizeTask, g \in Folder : WalkSound(j, g))
    BY DEF SizeInv
  <1>1. /\ walks' \in [SizeTask -> [Folder -> Walks]] /\ walks'[k][f] = w
        /\ \A j \in SizeTask, g \in Folder : j # k \/ g # f => walks'[j][g] = walks[j][g]
    BY <1>0, PutWalk DEF SizeShape
  <1>2. SizeShape'
    BY <1>0, <1>1 DEF SizeShape
  <1>3. ASSUME NEW g \in Folder PROVE Counted(g)'
    <2>1. g \in missing.left => walks'["backfill"][g].rev # 0
      BY <1>0, <1>1 DEF SizeTask, Counted
    <2> QED  BY <1>0, <2>1, SizeTyped DEF Counted
  <1>4. ASSUME NEW j \in SizeTask, NEW g \in Folder PROVE WalkSound(j, g)'
    BY <1>0, <1>1 DEF WalkSound
  <1> QED  BY <1>2, <1>3, <1>4 DEF SizeInv

LEMMA BeginWalkKeeps ==
  ASSUME SizeInv, NEW k \in SizeTask, NEW f \in Folder, BeginWalk(k, f)
  PROVE  SizeInv'
  <1>0. SizeShape /\ Counted(f) /\ WalkSound(k, f) /\ k \in SizeTask
    BY DEF SizeInv, SizeTask
  <1> DEFINE old == walks[k][f]
             w == [old EXCEPT !.at = IF Current(k, f) THEN "walking" ELSE "counted", !.sum = 0]
  <1>1. old \in Walks
    BY <1>0, SizeTyped
  <1>2. w \in Walks /\ w.at \in {"walking", "counted"} /\ w.rev = old.rev /\ w.sum = 0
    BY <1>0, <1>1, SizeTyped DEF Walks, WalkSteps
  <1>3. /\ walks' = [walks EXCEPT ![k][f] = w] /\ UNCHANGED <<grown, records, missing, uploaded, sizeTally>>
        /\ UNCHANGED <<showing, tooLarge, toSend>>
    BY <1>0 DEF BeginWalk, SizeShape
  <1>4. /\ showing' \in [Folder -> Nat] /\ toSend' \in [Folder -> Nat] /\ tooLarge' \subseteq Folder
        /\ \A g \in Folder : showing'[g] = showing[g] /\ toSend'[g] \in {0, toSend[g]}
    BY <1>0, <1>3 DEF SizeShape
  <1>5. /\ w.rev <= sizeTally.revs /\ w.sum <= grown[f] /\ (w.at # "none" => w.rev # 0)
        /\ (w.at \in {"none", "waiting", "walking"} => w.sum = 0) /\ (w.at = "packed" => w.sum # 0)
        /\ (w.rev = records[f].rev /\ w.sum # 0 => w.sum >= records[f].since)
        /\ (k = "backfill" /\ f \in missing.left => w.rev # 0)
    BY <1>0, <1>2, SizeTyped DEF BeginWalk, WalkSound, Counted, WalkSteps
  <1> HIDE DEF w, old
  <1> QED  BY <1>0, <1>2, <1>3, <1>4, <1>5, WalkGoesOn

LEMMA EndWalkKeeps ==
  ASSUME SizeInv, NEW k \in SizeTask, NEW f \in Folder, EndWalk(k, f)
  PROVE  SizeInv'
  <1>0. SizeShape /\ Counted(f) /\ WalkSound(k, f) /\ k \in SizeTask
    BY DEF SizeInv, SizeTask
  <1> DEFINE old == walks[k][f]
             w == [old EXCEPT !.at = "counted", !.sum = grown[f]]
  <1>1. old \in Walks
    BY <1>0, SizeTyped
  <1>2. w \in Walks /\ w.at = "counted" /\ w.rev = old.rev /\ w.sum = grown[f]
    BY <1>0, <1>1, SizeTyped DEF Walks, WalkSteps
  <1>3. /\ walks' = [walks EXCEPT ![k][f] = w] /\ UNCHANGED <<grown, records, missing, uploaded, sizeTally>>
        /\ UNCHANGED <<showing, tooLarge, toSend>>
    <2>1. walks \in [SizeTask -> [Folder -> Walks]] /\ walks[k] \in [Folder -> Walks] /\ walks[k][f] = old
      BY <1>0 DEF SizeShape
    <2>2. walks' = [walks EXCEPT ![k] = [walks[k] EXCEPT ![f] = [[walks[k][f] EXCEPT !.at = "counted"] EXCEPT !.sum = grown[f]]]]
      BY <2>1 DEF EndWalk
    <2>3. [[walks[k][f] EXCEPT !.at = "counted"] EXCEPT !.sum = grown[f]] = w
      BY <1>1, <2>1 DEF Walks
    <2> HIDE DEF w, old
    <2> QED  BY <2>1, <2>2, <2>3 DEF EndWalk
  <1>4. /\ showing' \in [Folder -> Nat] /\ toSend' \in [Folder -> Nat] /\ tooLarge' \subseteq Folder
        /\ \A g \in Folder : showing'[g] = showing[g] /\ toSend'[g] \in {0, toSend[g]}
    BY <1>0, <1>3 DEF SizeShape
  <1>5. /\ w.rev <= sizeTally.revs /\ w.sum <= grown[f] /\ (w.at # "none" => w.rev # 0)
        /\ (w.at \in {"none", "waiting", "walking"} => w.sum = 0) /\ (w.at = "packed" => w.sum # 0)
        /\ (w.rev = records[f].rev /\ w.sum # 0 => w.sum >= records[f].since)
        /\ (k = "backfill" /\ f \in missing.left => w.rev # 0)
    BY <1>0, <1>2, SizeTyped DEF EndWalk, WalkSound, Counted, WalkSteps
  <1> HIDE DEF w, old
  <1> QED  BY <1>0, <1>2, <1>3, <1>4, <1>5, WalkGoesOn

LEMMA CancelWalkKeeps ==
  ASSUME SizeInv, NEW k \in SizeTask, NEW f \in Folder, CancelWalk(k, f)
  PROVE  SizeInv'
  <1>0. SizeShape /\ Counted(f) /\ WalkSound(k, f) /\ k \in SizeTask
    BY DEF SizeInv, SizeTask
  <1> DEFINE old == walks[k][f]
             w == [old EXCEPT !.at = "counted"]
  <1>1. old \in Walks
    BY <1>0, SizeTyped
  <1>2. w \in Walks /\ w.at = "counted" /\ w.rev = old.rev /\ w.sum = old.sum
    BY <1>0, <1>1, SizeTyped DEF Walks, WalkSteps
  <1>3. /\ walks' = [walks EXCEPT ![k][f] = w] /\ UNCHANGED <<grown, records, missing, uploaded, sizeTally>>
        /\ UNCHANGED <<showing, tooLarge, toSend>>
    BY <1>0 DEF CancelWalk, SizeShape
  <1>4. /\ showing' \in [Folder -> Nat] /\ toSend' \in [Folder -> Nat] /\ tooLarge' \subseteq Folder
        /\ \A g \in Folder : showing'[g] = showing[g] /\ toSend'[g] \in {0, toSend[g]}
    BY <1>0, <1>3 DEF SizeShape
  <1>5. /\ w.rev <= sizeTally.revs /\ w.sum <= grown[f] /\ (w.at # "none" => w.rev # 0)
        /\ (w.at \in {"none", "waiting", "walking"} => w.sum = 0) /\ (w.at = "packed" => w.sum # 0)
        /\ (w.rev = records[f].rev /\ w.sum # 0 => w.sum >= records[f].since)
        /\ (k = "backfill" /\ f \in missing.left => w.rev # 0)
    BY <1>0, <1>2, SizeTyped DEF CancelWalk, WalkSound, Counted, WalkSteps
  <1> HIDE DEF w, old
  <1> QED  BY <1>0, <1>2, <1>3, <1>4, <1>5, WalkGoesOn

LEMMA NextMissingKeeps ==
  ASSUME SizeInv, NEW f \in Folder, NextMissing(f)
  PROVE  SizeInv'
  <1>0. SizeShape /\ Counted(f) /\ WalkSound("backfill", f) /\ "backfill" \in SizeTask
    BY DEF SizeInv, SizeTask
  <1> DEFINE old == walks["backfill"][f]
             w == [old EXCEPT !.at = "waiting"]
  <1>1. old \in Walks
    BY <1>0, SizeTyped
  <1>2. w \in Walks /\ w.at = "waiting" /\ w.rev = old.rev /\ w.sum = old.sum
    BY <1>0, <1>1, SizeTyped DEF Walks, WalkSteps
  <1>3. /\ walks' = [walks EXCEPT !["backfill"][f] = w] /\ UNCHANGED <<grown, records, missing, uploaded, sizeTally>>
        /\ UNCHANGED <<showing, tooLarge, toSend>>
    BY <1>0 DEF NextMissing, SizeShape
  <1>4. /\ showing' \in [Folder -> Nat] /\ toSend' \in [Folder -> Nat] /\ tooLarge' \subseteq Folder
        /\ \A g \in Folder : showing'[g] = showing[g] /\ toSend'[g] \in {0, toSend[g]}
    BY <1>0, <1>3 DEF SizeShape
  <1>5. /\ w.rev <= sizeTally.revs /\ w.sum <= grown[f] /\ (w.at # "none" => w.rev # 0)
        /\ (w.at \in {"none", "waiting", "walking"} => w.sum = 0) /\ (w.at = "packed" => w.sum # 0)
        /\ (w.rev = records[f].rev /\ w.sum # 0 => w.sum >= records[f].since)
        /\ ("backfill" = "backfill" /\ f \in missing.left => w.rev # 0)
    BY <1>0, <1>2, SizeTyped DEF NextMissing, WalkSound, Counted, WalkSteps
  <1> HIDE DEF w, old
  <1> QED  BY <1>0, <1>2, <1>3, <1>4, <1>5, WalkGoesOn

LEMMA PackKeeps ==
  ASSUME SizeInv, NEW f \in Folder, Pack(f)
  PROVE  SizeInv'
  <1>0. SizeShape /\ Counted(f) /\ WalkSound("upload", f) /\ "upload" \in SizeTask
    BY DEF SizeInv, SizeTask
  <1> DEFINE old == walks["upload"][f]
             w == [old EXCEPT !.at = "packed", !.sum = grown[f]]
  <1>1. old \in Walks
    BY <1>0, SizeTyped
  <1>2. w \in Walks /\ w.at = "packed" /\ w.rev = old.rev /\ w.sum = grown[f]
    BY <1>0, <1>1, SizeTyped DEF Walks, WalkSteps
  <1>3. /\ walks' = [walks EXCEPT !["upload"][f] = w] /\ UNCHANGED <<grown, records, missing, uploaded, sizeTally>>
        /\ UNCHANGED <<showing, tooLarge, toSend>>
    BY <1>0 DEF Pack, SizeShape
  <1>4. /\ showing' \in [Folder -> Nat] /\ toSend' \in [Folder -> Nat] /\ tooLarge' \subseteq Folder
        /\ \A g \in Folder : showing'[g] = showing[g] /\ toSend'[g] \in {0, toSend[g]}
    BY <1>0, <1>3 DEF SizeShape
  <1>5. /\ w.rev <= sizeTally.revs /\ w.sum <= grown[f] /\ (w.at # "none" => w.rev # 0)
        /\ (w.at \in {"none", "waiting", "walking"} => w.sum = 0) /\ (w.at = "packed" => w.sum # 0)
        /\ (w.rev = records[f].rev /\ w.sum # 0 => w.sum >= records[f].since)
        /\ ("upload" = "backfill" /\ f \in missing.left => w.rev # 0)
    BY <1>0, <1>2, SizeTyped DEF Pack, WalkSound, Counted, WalkSteps
  <1> HIDE DEF w, old
  <1> QED  BY <1>0, <1>2, <1>3, <1>4, <1>5, WalkGoesOn

\* Of the records only the size of this one changes, to what was counted since its copy.
SameButSize(f) ==
    /\ records' \in [Folder -> FolderRecords]
    /\ \A g \in Folder : /\ records'[g].rev = records[g].rev /\ records'[g].since = records[g].since
                         /\ g # f => records'[g].size = records[g].size
    /\ records'[f].size <= grown[f] /\ (records'[f].size # 0 => records'[f].size >= records[f].since)

\* A walk of task k ends; of the records only this one's size may change.
LEMMA WalkEnds ==
  ASSUME SizeInv, NEW k \in SizeTask, NEW f \in Folder, walks' = [walks EXCEPT ![k][f] = NoWalk], grown' = grown,
         SameButSize(f), records[f].rev = uploaded'[f].rev => records'[f].size >= uploaded'[f].size,
         uploaded' \in [Folder -> Uploads], \A g \in Folder \ {f} : uploaded'[g] = uploaded[g],
         uploaded'[f].rev <= sizeTally.revs, uploaded'[f].size <= SizeLimit, uploaded'[f].rev = 0 => uploaded'[f].size = 0,
         showing' \in [Folder -> Nat], \A g \in Folder : showing'[g] \in {showing[g], records'[g].size},
         missing' \in [loaded : BOOLEAN, left : SUBSET Folder], missing'.left \subseteq missing.left,
         k = "backfill" => f \notin missing'.left,
         toSend' \in [Folder -> Nat], \A g \in Folder : toSend'[g] \in {0, toSend[g]}, tooLarge' \subseteq Folder,
         sizeTally' \in [steps : Nat, faults : Nat, revs : Nat], sizeTally'.revs = sizeTally.revs
  PROVE  SizeInv'
  <1>0. SizeShape /\ (\A g \in Folder : Counted(g)) /\ (\A j \in SizeTask, g \in Folder : WalkSound(j, g))
    BY DEF SizeInv
  <1>1. /\ walks' \in [SizeTask -> [Folder -> Walks]] /\ walks'[k][f] = NoWalk
        /\ \A j \in SizeTask, g \in Folder : j # k \/ g # f => walks'[j][g] = walks[j][g]
    BY <1>0, NoWalkIsWalk, PutWalk DEF SizeShape
  <1>2. SizeShape'
    BY <1>0, <1>1 DEF SizeShape, SameButSize
  <1>3. ASSUME NEW g \in Folder PROVE Counted(g)'
    <2>1. g \in missing'.left => walks'["backfill"][g].rev # 0
      BY <1>0, <1>1 DEF SizeTask, Counted
    <2>2. CASE g = f
      BY <1>0, <2>1, <2>2, SizeTyped DEF Counted, SameButSize
    <2>3. CASE g # f
      BY <1>0, <2>1, <2>3, SizeTyped DEF Counted, SameButSize
    <2> QED  BY <2>2, <2>3
  <1>4. ASSUME NEW j \in SizeTask, NEW g \in Folder PROVE WalkSound(j, g)'
    <2>1. CASE j = k /\ g = f
      BY <1>1, <2>1, NoWalkIsWalk, SizeTyped, <1>0 DEF WalkSound
    <2>2. CASE j # k \/ g # f
      BY <1>0, <1>1, <2>2 DEF WalkSound, SameButSize
    <2> QED  BY <2>1, <2>2
  <1> QED  BY <1>2, <1>3, <1>4 DEF SizeInv

\* What a task fills in is of the same revision.
LEMMA FillSound ==
  ASSUME SizeInv, NEW k \in SizeTask, NEW f \in Folder, Filled(k, f), walks[k][f].at # "none"
  PROVE  SameButSize(f) /\ (records[f].rev = uploaded[f].rev => records'[f].size >= uploaded[f].size)
  <1>0. SizeShape /\ Counted(f) /\ WalkSound(k, f)
    BY DEF SizeInv
  <1>1. CASE records' = records
    BY <1>0, <1>1 DEF Counted, SameButSize, SizeShape
  <1>2. CASE walks[k][f].sum # 0 /\ Fills(f, walks[k][f].rev) /\ records' = [records EXCEPT ![f].size = walks[k][f].sum]
    <2>1. records \in [Folder -> FolderRecords] /\ records[f] \in FolderRecords /\ walks[k][f].sum \in Nat
      BY <1>0, SizeTyped DEF SizeShape
    <2>2. /\ records' \in [Folder -> FolderRecords]
          /\ \A g \in Folder : /\ records'[g].rev = records[g].rev /\ records'[g].since = records[g].since
                               /\ records'[g].size = IF g = f THEN walks[k][f].sum ELSE records[g].size
      BY <1>2, <2>1 DEF FolderRecords
    <2>3. /\ walks[k][f].sum <= grown[f] /\ walks[k][f].sum >= records[f].since
          /\ records[f].rev = uploaded[f].rev => walks[k][f].sum >= uploaded[f].size
      <3>1. records[f].rev = walks[k][f].rev /\ records[f].size = 0
        BY <1>2 DEF Fills
      <3>2. records[f].rev = uploaded[f].rev => uploaded[f].size = 0
        BY <1>0, <3>1, SizeTyped DEF Counted
      <3> QED  BY <1>0, <1>2, <2>1, <3>1, <3>2 DEF WalkSound
    <2> QED  BY <2>1, <2>2, <2>3 DEF SameButSize
  <1> QED  BY <1>1, <1>2 DEF Filled

LEMMA FillLateKeeps ==
  ASSUME SizeInv, NEW f \in Folder, NEW k \in LateTask, FillLate(k, f)
  PROVE  SizeInv'
  <1>0. SizeShape /\ (\A g \in Folder : Counted(g)) /\ k \in SizeTask /\ k # "backfill"
    BY SizeAssumption DEF SizeInv, SizeTask
  <1>1. /\ walks[k][f].at # "none" /\ walks' = [walks EXCEPT ![k][f] = NoWalk] /\ Filled(k, f)
        /\ UNCHANGED <<grown, toSend, uploaded, tooLarge, sizeTally>>
    BY DEF FillLate, Ends
  <1>2. /\ SameButSize(f) /\ (records[f].rev = uploaded[f].rev => records'[f].size >= uploaded[f].size)
        /\ records' \in [Folder -> FolderRecords]
    BY <1>0, <1>1, FillSound DEF SameButSize
  <1>4. /\ showing' \in [Folder -> Nat] /\ \A g \in Folder : showing'[g] \in {showing[g], records'[g].size}
        /\ missing' = missing
    <2>1. records'[f].size \in Nat /\ showing \in [Folder -> Nat]
      BY <1>0, <1>2 DEF SizeShape, FolderRecords
    <2>2. showing' = [showing EXCEPT ![f] = records'[f].size] /\ missing' = missing
      BY DEF FillLate
    <2> QED  BY <2>1, <2>2
  <1>7. missing' \in [loaded : BOOLEAN, left : SUBSET Folder] /\ missing'.left \subseteq missing.left
    BY <1>0, <1>4 DEF SizeShape
  <1>5. /\ uploaded' \in [Folder -> Uploads] /\ (\A g \in Folder \ {f} : uploaded'[g] = uploaded[g])
        /\ uploaded'[f].rev <= sizeTally.revs /\ uploaded'[f].size <= SizeLimit
        /\ (uploaded'[f].rev = 0 => uploaded'[f].size = 0)
        /\ records[f].rev = uploaded'[f].rev => records'[f].size >= uploaded'[f].size
    BY <1>0, <1>1, <1>2 DEF SizeShape, Counted
  <1>6. /\ toSend' \in [Folder -> Nat] /\ (\A g \in Folder : toSend'[g] \in {0, toSend[g]}) /\ tooLarge' \subseteq Folder
        /\ sizeTally' \in [steps : Nat, faults : Nat, revs : Nat] /\ sizeTally'.revs = sizeTally.revs
    BY <1>0, <1>1 DEF SizeShape
  <1> QED  BY <1>0, <1>1, <1>2, <1>4, <1>5, <1>6, <1>7, WalkEnds

\* The backfill leaves a record behind, and the list is told in the end.
LEMMA BackfillLeaves ==
  ASSUME SizeShape, NEW f \in Folder, BackfillGoesOn(f), records' \in [Folder -> FolderRecords]
  PROVE  /\ missing' \in [loaded : BOOLEAN, left : SUBSET Folder] /\ missing'.left = missing.left \ {f}
         /\ showing' \in [Folder -> Nat] /\ \A g \in Folder : showing'[g] \in {showing[g], records'[g].size}
  <1>1. missing' \in [loaded : BOOLEAN, left : SUBSET Folder] /\ missing'.left = missing.left \ {f}
    <2>1. missing \in [loaded : BOOLEAN, left : SUBSET Folder] /\ missing' = [missing EXCEPT !.left = missing.left \ {f}]
      BY DEF SizeShape, BackfillGoesOn
    <2> QED  BY <2>1
  <1>2. \A g \in Folder : records'[g].size \in Nat
    BY DEF FolderRecords
  <1>3. showing' = showing \/ showing' = [g \in Folder |-> records'[g].size]
    BY DEF BackfillGoesOn
  <1>4. showing \in [Folder -> Nat]
    BY DEF SizeShape
  <1> QED  BY <1>1, <1>2, <1>3, <1>4

LEMMA FillMissingKeeps ==
  ASSUME SizeInv, NEW f \in Folder, FillMissing(f)
  PROVE  SizeInv'
  <1>0. SizeShape /\ (\A g \in Folder : Counted(g)) /\ "backfill" \in SizeTask
    BY DEF SizeInv, SizeTask
  <1>1. /\ walks["backfill"][f].at # "none" /\ walks' = [walks EXCEPT !["backfill"][f] = NoWalk] /\ Filled("backfill", f)
        /\ UNCHANGED <<grown, toSend, uploaded, tooLarge, sizeTally>>
    BY DEF FillMissing, Ends
  <1>2. /\ SameButSize(f) /\ (records[f].rev = uploaded[f].rev => records'[f].size >= uploaded[f].size)
        /\ records' \in [Folder -> FolderRecords]
    BY <1>0, <1>1, FillSound DEF SameButSize
  <1>4. BackfillGoesOn(f)
    BY DEF FillMissing
  <1>7. /\ showing' \in [Folder -> Nat] /\ (\A g \in Folder : showing'[g] \in {showing[g], records'[g].size})
        /\ missing' \in [loaded : BOOLEAN, left : SUBSET Folder] /\ missing'.left \subseteq missing.left /\ f \notin missing'.left
    BY <1>0, <1>2, <1>4, BackfillLeaves
  <1>5. /\ uploaded' \in [Folder -> Uploads] /\ (\A g \in Folder \ {f} : uploaded'[g] = uploaded[g])
        /\ uploaded'[f].rev <= sizeTally.revs /\ uploaded'[f].size <= SizeLimit
        /\ (uploaded'[f].rev = 0 => uploaded'[f].size = 0)
        /\ records[f].rev = uploaded'[f].rev => records'[f].size >= uploaded'[f].size
    BY <1>0, <1>1, <1>2 DEF SizeShape, Counted
  <1>6. /\ toSend' \in [Folder -> Nat] /\ (\A g \in Folder : toSend'[g] \in {0, toSend[g]}) /\ tooLarge' \subseteq Folder
        /\ sizeTally' \in [steps : Nat, faults : Nat, revs : Nat] /\ sizeTally'.revs = sizeTally.revs
    BY <1>0, <1>1 DEF SizeShape
  <1> QED  BY <1>0, <1>1, <1>2, <1>5, <1>6, <1>7, WalkEnds

LEMMA WalkFailsKeeps ==
  ASSUME SizeInv, NEW k \in SizeTask, NEW f \in Folder, WalkFails(k, f)
  PROVE  SizeInv'
  <1>0. SizeShape /\ (\A g \in Folder : Counted(g))
    BY DEF SizeInv
  <1>1. /\ walks' = [walks EXCEPT ![k][f] = NoWalk] /\ records' = records
        /\ UNCHANGED <<grown, toSend, uploaded, tooLarge>> /\ sizeTally' = [sizeTally EXCEPT !.faults = sizeTally.faults + 1]
        /\ IF k = "backfill" THEN BackfillGoesOn(f) ELSE UNCHANGED <<missing, showing>>
    BY DEF WalkFails, Ends
  <1>2. /\ SameButSize(f) /\ (records[f].rev = uploaded[f].rev => records'[f].size >= uploaded[f].size)
        /\ records' \in [Folder -> FolderRecords]
    BY <1>0, <1>1 DEF Counted, SameButSize, SizeShape
  <1>7. /\ showing' \in [Folder -> Nat] /\ (\A g \in Folder : showing'[g] \in {showing[g], records'[g].size})
        /\ missing' \in [loaded : BOOLEAN, left : SUBSET Folder] /\ missing'.left \subseteq missing.left
        /\ k = "backfill" => f \notin missing'.left
    <2>1. CASE k = "backfill"
      BY <1>0, <1>1, <1>2, <2>1, BackfillLeaves
    <2>2. CASE k # "backfill"
      BY <1>0, <1>1, <2>2 DEF SizeShape
    <2> QED  BY <2>1, <2>2
  <1>5. /\ uploaded' \in [Folder -> Uploads] /\ (\A g \in Folder \ {f} : uploaded'[g] = uploaded[g])
        /\ uploaded'[f].rev <= sizeTally.revs /\ uploaded'[f].size <= SizeLimit
        /\ (uploaded'[f].rev = 0 => uploaded'[f].size = 0)
        /\ records[f].rev = uploaded'[f].rev => records'[f].size >= uploaded'[f].size
    BY <1>0, <1>1, <1>2 DEF SizeShape, Counted
  <1>6. /\ toSend' \in [Folder -> Nat] /\ (\A g \in Folder : toSend'[g] \in {0, toSend[g]}) /\ tooLarge' \subseteq Folder
    BY <1>0, <1>1 DEF SizeShape
  <1>8. sizeTally' \in [steps : Nat, faults : Nat, revs : Nat] /\ sizeTally'.revs = sizeTally.revs
    BY <1>0, <1>1 DEF SizeShape
  <1> QED  BY <1>0, <1>1, <1>2, <1>5, <1>6, <1>7, <1>8, WalkEnds

LEMMA LoadMissingKeeps ==
  ASSUME SizeInv, LoadMissing
  PROVE  SizeInv'
  <1>0. SizeShape /\ (\A g \in Folder : Counted(g)) /\ (\A j \in SizeTask, g \in Folder : WalkSound(j, g))
    BY DEF SizeInv
  <1> DEFINE lost == {f \in Folder : records[f].rev # 0 /\ records[f].size = 0}
             row == [f \in Folder |-> IF f \in lost THEN [NoWalk EXCEPT !.rev = records[f].rev] ELSE NoWalk]
  <1>1. /\ missing' = [loaded |-> TRUE, left |-> lost] /\ walks' = [walks EXCEPT !["backfill"] = row]
        /\ UNCHANGED <<grown, records, showing, toSend, uploaded, tooLarge, sizeTally>>
    BY DEF LoadMissing
  <1>2. /\ missing' \in [loaded : BOOLEAN, left : SUBSET Folder] /\ missing'.left = lost
        /\ \A f \in lost : f \in Folder /\ records[f].rev # 0
    BY <1>1
  <1>3. ASSUME NEW f \in Folder
        PROVE  /\ row[f] \in Walks /\ row[f].at = "none" /\ row[f].sum = 0 /\ row[f].rev \in {0, records[f].rev}
               /\ f \in lost => row[f].rev # 0
    <2>1. [NoWalk EXCEPT !.rev = records[f].rev] \in Walks
      BY <1>0, SizeTyped, NoWalkIsWalk DEF Walks
    <2>2. /\ [NoWalk EXCEPT !.rev = records[f].rev].at = "none" /\ [NoWalk EXCEPT !.rev = records[f].rev].sum = 0
          /\ [NoWalk EXCEPT !.rev = records[f].rev].rev = records[f].rev
      BY NoWalkIsWalk DEF Walks
    <2> QED  BY <2>1, <2>2, NoWalkIsWalk
  <1>4. row \in [Folder -> Walks]
    BY <1>3
  <1> HIDE DEF row, lost
  <1>5. /\ walks' \in [SizeTask -> [Folder -> Walks]] /\ walks'["backfill"] = row
        /\ \A j \in SizeTask : j # "backfill" => walks'[j] = walks[j]
    BY <1>0, <1>1, <1>4 DEF SizeShape, SizeTask
  <1>7. SizeShape'
    BY <1>0, <1>1, <1>2, <1>5 DEF SizeShape
  <1>8. ASSUME NEW g \in Folder PROVE Counted(g)'
    BY <1>0, <1>1, <1>2, <1>3, <1>5 DEF Counted
  <1>9. ASSUME NEW j \in SizeTask, NEW g \in Folder PROVE WalkSound(j, g)'
    <2>1. CASE j = "backfill"
      <3>1. walks'[j][g] = row[g] /\ row[g].rev <= sizeTally.revs /\ row[g].sum <= grown[g]
        BY <1>0, <1>3, <1>5, <2>1, SizeTyped DEF Counted
      <3> QED  BY <1>1, <1>3, <3>1 DEF WalkSound
    <2>2. CASE j # "backfill"
      BY <1>0, <1>1, <1>5, <2>2 DEF WalkSound
    <2> QED  BY <2>1, <2>2
  <1> QED  BY <1>7, <1>8, <1>9 DEF SizeInv

LEMMA BeginUploadKeeps ==
  ASSUME SizeInv, NEW f \in Folder, BeginUpload(f)
  PROVE  SizeInv'
  <1>0. SizeShape /\ (\A g \in Folder : Counted(g)) /\ WalkSound("upload", f) /\ "upload" \in SizeTask
    BY DEF SizeInv, SizeTask
  <1>1. toSend[f] # 0 /\ UNCHANGED <<grown, records, showing, missing, uploaded, tooLarge, sizeTally>>
    BY DEF BeginUpload
  <1>2. /\ showing' \in [Folder -> Nat] /\ tooLarge' \subseteq Folder /\ \A g \in Folder : showing'[g] = showing[g]
    BY <1>0, <1>1 DEF SizeShape
  <1>3. CASE /\ toSend' = toSend
             /\ walks' = [walks EXCEPT !["upload"][f] = [NoWalk EXCEPT !.at = "waiting", !.rev = toSend[f]]]
    <2> DEFINE w == [NoWalk EXCEPT !.at = "waiting", !.rev = toSend[f]]
    <2>1. w \in Walks /\ w.at = "waiting" /\ w.rev = toSend[f] /\ w.sum = 0
      BY <1>0, SizeTyped DEF NoWalk, Walks, WalkSteps
    <2>2. /\ w.rev <= sizeTally.revs /\ w.sum <= grown[f] /\ w.rev # 0
      BY <1>0, <1>1, <2>1, SizeTyped DEF Counted
    <2>3. toSend' \in [Folder -> Nat] /\ \A g \in Folder : toSend'[g] \in {0, toSend[g]}
      BY <1>0, <1>3 DEF SizeShape
    <2>4. walks' = [walks EXCEPT !["upload"][f] = w]
      BY <1>3
    <2> HIDE DEF w
    <2> QED  BY <1>0, <1>1, <1>2, <2>1, <2>2, <2>3, <2>4, WalkGoesOn
  <1>4. CASE walks' = walks /\ toSend' = [toSend EXCEPT ![f] = 0]
    <2>1. toSend' \in [Folder -> Nat] /\ \A g \in Folder : toSend'[g] \in {0, toSend[g]}
      BY <1>0, <1>4 DEF SizeShape
    <2>2. SizeShape'
      BY <1>0, <1>1, <1>4, <2>1 DEF SizeShape
    <2>3. ASSUME NEW g \in Folder PROVE Counted(g)'
      BY <1>0, <1>1, <1>4, <2>1, SizeTyped DEF Counted
    <2>4. ASSUME NEW j \in SizeTask, NEW g \in Folder PROVE WalkSound(j, g)'
      BY <1>1, <1>4 DEF SizeInv, WalkSound
    <2> QED  BY <2>2, <2>3, <2>4 DEF SizeInv
  <1> QED  BY <1>3, <1>4 DEF BeginUpload

\* The record is left to the user.
LEMMA LeavingKeeps ==
  ASSUME SizeInv, NEW f \in Folder, LeaveIt(f), UNCHANGED <<grown, records, showing, missing, uploaded, sizeTally>>
  PROVE  SizeInv'
  <1>0. SizeShape /\ Counted(f) /\ "upload" \in SizeTask
    BY DEF SizeInv, SizeTask
  <1>1. /\ tooLarge' = tooLarge \cup {f} /\ walks' = [walks EXCEPT !["upload"][f] = NoWalk]
        /\ toSend' = toSend \/ toSend' = [toSend EXCEPT ![f] = 0]
    <2>1. toSend' = [toSend EXCEPT ![f] = IF toSend[f] = walks["upload"][f].rev THEN 0 ELSE toSend[f]]
      BY DEF LeaveIt
    <2>2. toSend \in [Folder -> Nat]
      BY <1>0 DEF SizeShape
    <2> QED  BY <2>1, <2>2 DEF LeaveIt
  <1>2. /\ showing' \in [Folder -> Nat] /\ tooLarge' \subseteq Folder /\ (\A g \in Folder : showing'[g] = showing[g])
        /\ toSend' \in [Folder -> Nat] /\ \A g \in Folder : toSend'[g] \in {0, toSend[g]}
    BY <1>0, <1>1 DEF SizeShape
  <1>3. /\ NoWalk.rev <= sizeTally.revs /\ NoWalk.sum <= grown[f]
    BY <1>0, NoWalkIsWalk, SizeTyped
  <1> QED  BY <1>0, <1>1, <1>2, <1>3, NoWalkIsWalk, WalkGoesOn

LEMMA CountedTooMuchKeeps ==
  ASSUME SizeInv, NEW f \in Folder, CountedTooMuch(f)
  PROVE  SizeInv'
  BY LeavingKeeps DEF CountedTooMuch

LEMMA SendPackedKeeps ==
  ASSUME SizeInv, NEW f \in Folder, SendPacked(f)
  PROVE  SizeInv'
  <1>0. SizeShape /\ (\A g \in Folder : Counted(g)) /\ WalkSound("upload", f) /\ "upload" \in SizeTask
    BY DEF SizeInv, SizeTask
  <1>1. walks["upload"][f].at = "packed" /\ UNCHANGED <<grown, missing, sizeTally>>
    BY DEF SendPacked
  <1>2. CASE PackedTooMuch(walks["upload"][f].sum)
    BY <1>1, <1>2, LeavingKeeps DEF SendPacked
  <1>3. CASE ~PackedTooMuch(walks["upload"][f].sum)
    <2> DEFINE up == walks["upload"][f]
               n == IF records[f].rev = up.rev THEN up.sum ELSE records[f].size
               u == [rev |-> up.rev, size |-> up.sum]
    <2>1. up.rev \in Nat /\ up.sum \in Nat /\ up.sum <= SizeLimit /\ up.rev # 0 /\ n \in Nat
      BY <1>0, <1>1, <1>3, SizeTyped DEF PackedTooMuch, WalkSound
    <2>2. /\ records' = IF records[f].rev = up.rev THEN [records EXCEPT ![f].size = up.sum] ELSE records
          /\ showing' = [showing EXCEPT ![f] = records'[f].size] /\ uploaded' = [uploaded EXCEPT ![f] = u]
          /\ tooLarge' = tooLarge \ {f} /\ walks' = [walks EXCEPT !["upload"][f] = NoWalk]
          /\ toSend' = [toSend EXCEPT ![f] = IF toSend[f] = up.rev THEN 0 ELSE toSend[f]]
      BY <1>3 DEF SendPacked
    <2>3. /\ records' \in [Folder -> FolderRecords]
          /\ \A g \in Folder : /\ records'[g].rev = records[g].rev /\ records'[g].since = records[g].since
                               /\ records'[g].size = IF g = f THEN n ELSE records[g].size
      <3>1. records \in [Folder -> FolderRecords] /\ records[f] \in FolderRecords
        BY <1>0 DEF SizeShape
      <3>2. CASE records[f].rev = up.rev
        BY <2>1, <2>2, <3>1, <3>2 DEF FolderRecords
      <3>3. CASE records[f].rev # up.rev
        BY <2>1, <2>2, <3>1, <3>3 DEF FolderRecords
      <3> QED  BY <3>2, <3>3
    <2>4. u \in Uploads /\ u.rev = up.rev /\ u.size = up.sum
      BY <2>1 DEF Uploads
    <2>5. /\ n <= grown[f] /\ (n # 0 => n >= records[f].since) /\ up.rev <= sizeTally.revs
          /\ records[f].rev = up.rev => n >= up.sum
      BY <1>0, <1>1, <2>1, SizeTyped DEF Counted, WalkSound
    <2>6. /\ toSend' \in [Folder -> Nat] /\ (\A g \in Folder : toSend'[g] \in {0, toSend[g]})
          /\ tooLarge' \subseteq Folder
      BY <1>0, <2>2 DEF SizeShape
    <2>7. showing' \in [Folder -> Nat] /\ \A g \in Folder : showing'[g] \in {showing[g], records'[g].size}
      <3>1. records'[f].size \in Nat /\ showing \in [Folder -> Nat]
        BY <1>0, <2>3 DEF SizeShape, FolderRecords
      <3> QED  BY <2>2, <3>1
    <2> HIDE DEF u
    <2>8. /\ uploaded' \in [Folder -> Uploads] /\ uploaded'[f] = u
          /\ \A g \in Folder \ {f} : uploaded'[g] = uploaded[g]
      BY <1>0, <2>2, <2>4 DEF SizeShape
    <2>9. /\ missing' \in [loaded : BOOLEAN, left : SUBSET Folder] /\ missing'.left \subseteq missing.left
          /\ sizeTally' \in [steps : Nat, faults : Nat, revs : Nat] /\ sizeTally'.revs = sizeTally.revs
      BY <1>0, <1>1 DEF SizeShape
    <2>10. /\ walks' = [walks EXCEPT !["upload"][f] = NoWalk] /\ grown' = grown
           /\ uploaded'[f].rev <= sizeTally.revs /\ uploaded'[f].size <= SizeLimit
           /\ (uploaded'[f].rev = 0 => uploaded'[f].size = 0)
           /\ records[f].rev = uploaded'[f].rev => records'[f].size >= uploaded'[f].size
      BY <1>1, <2>1, <2>2, <2>3, <2>4, <2>5, <2>8
    <2>11. SameButSize(f)
      BY <2>3, <2>5 DEF SameButSize
    <2> HIDE DEF up, n
    <2> QED  BY <1>0, <2>6, <2>7, <2>8, <2>9, <2>10, <2>11, WalkEnds
  <1> QED  BY <1>2, <1>3

LEMMA RestartSizesKeeps ==
  ASSUME SizeInv, RestartSizes
  PROVE  SizeInv'
  <1>0. SizeShape /\ (\A g \in Folder : Counted(g))
    BY DEF SizeInv
  <1>1. /\ walks' = [k \in SizeTask |-> [f \in Folder |-> NoWalk]] /\ missing' = NotLoaded
        /\ UNCHANGED <<grown, records, toSend, uploaded, tooLarge>> /\ showing' = [f \in Folder |-> records[f].size]
        /\ sizeTally' = [sizeTally EXCEPT !.faults = sizeTally.faults + 1] /\ sizeTally'.revs = sizeTally.revs
    BY <1>0 DEF RestartSizes, SizeShape
  <1>2. walks' \in [SizeTask -> [Folder -> Walks]] /\ \A k \in SizeTask, f \in Folder : walks'[k][f] = NoWalk
    BY <1>1, NoWalkIsWalk
  <1>3. missing' \in [loaded : BOOLEAN, left : SUBSET Folder] /\ missing'.left = {}
    BY <1>1 DEF NotLoaded
  <1>4. showing' \in [Folder -> Nat] /\ \A g \in Folder : showing'[g] = records[g].size
    BY <1>0, <1>1, SizeTyped
  <1>5. sizeTally' \in [steps : Nat, faults : Nat, revs : Nat]
    BY <1>0, <1>1 DEF SizeShape
  <1>7. SizeShape'
    BY <1>0, <1>1, <1>2, <1>3, <1>4, <1>5 DEF SizeShape
  <1>8. ASSUME NEW g \in Folder PROVE Counted(g)'
    BY <1>0, <1>1, <1>3, <1>4 DEF Counted
  <1>9. ASSUME NEW j \in SizeTask, NEW g \in Folder PROVE WalkSound(j, g)'
    BY <1>0, <1>1, <1>2, NoWalkIsWalk, SizeTyped DEF WalkSound
  <1> QED  BY <1>7, <1>8, <1>9 DEF SizeInv

\* Every step of the counting keeps the invariant.
LEMMA SizesStay == SizeInv /\ [SizeNext]_sizeVars => SizeInv'
  <1> SUFFICES ASSUME SizeInv, [SizeNext]_sizeVars PROVE SizeInv'
    OBVIOUS
  <1>1. CASE SizeStep
    <2>1. ASSUME NEW f \in Folder, NEW k \in SizeTask, BeginWalk(k, f) \/ EndWalk(k, f) \/ CancelWalk(k, f)
          PROVE  SizeInv'
      BY <2>1, BeginWalkKeeps, EndWalkKeeps, CancelWalkKeeps
    <2>2. ASSUME NEW f \in Folder,
                 \/ NextMissing(f) \/ FillMissing(f) \/ (\E k \in LateTask : FillLate(k, f))
                 \/ BeginUpload(f) \/ CountedTooMuch(f) \/ Pack(f) \/ SendPacked(f)
          PROVE  SizeInv'
      BY <2>2, NextMissingKeeps, FillMissingKeeps, FillLateKeeps, BeginUploadKeeps, CountedTooMuchKeeps,
         PackKeeps, SendPackedKeeps
    <2> QED  BY <1>1, <2>1, <2>2, LoadMissingKeeps DEF SizeStep
  <1>2. ASSUME NEW f \in Folder, FilesGrow(f) \/ DeleteFolder(f) \/ \E staged \in BOOLEAN : CopyFolder(f, staged)
        PROVE  SizeInv'
    BY <1>2, FilesGrowKeeps, DeleteFolderKeeps, CopyFolderKeeps
  <1>3. ASSUME NEW f \in Folder, NEW k \in SizeTask, WalkFails(k, f) PROVE SizeInv'
    BY <1>3, WalkFailsKeeps
  <1>4. CASE UNCHANGED sizeVars
    BY <1>4 DEF sizeVars, SizeInv, SizeShape, Counted, WalkSound
  <1> QED  BY <1>1, <1>2, <1>3, <1>4, RestartSizesKeeps DEF SizeNext

\* It says what was promised of the sizes.
LEMMA SizesServe == SizeInv => SizesSound /\ SizeTypeOK
  <1> SUFFICES ASSUME SizeInv PROVE SizesSound /\ SizeTypeOK
    OBVIOUS
  <1>0. SizeShape /\ \A f \in Folder : Counted(f)
    BY DEF SizeInv
  <1>1. SizesSound
    BY <1>0 DEF SizesSound, SizesAreOfTheirCopy, SentWithinLimit, Counted
  <1>2. ASSUME NEW f \in Folder
        PROVE  /\ grown[f] \in Nat \ {0} /\ records[f].rev \in Nat /\ records[f].size \in 0..grown[f]
               /\ showing[f] \in 0..grown[f] /\ toSend[f] \in Nat
    BY <1>0, SizeTyped DEF Counted
  <1>3. ASSUME NEW k \in SizeTask, NEW f \in Folder
        PROVE  walks[k][f].at \in {"none", "waiting", "walking", "counted", "packed"}
    BY <1>0, SizeTyped DEF WalkSteps
  <1>4. missing.left \subseteq Folder /\ tooLarge \subseteq Folder
    BY <1>0 DEF SizeShape
  <1> QED  BY <1>1, <1>2, <1>3, <1>4 DEF SizeTypeOK
=============================================================================
