---------------------------- MODULE LegacyImport ----------------------------
(***************************************************************************)
(* The history of an old installation is found, and imported beside what   *)
(* is being copied (commands/onboarding.rs), through the code that makes a *)
(* record of a copy (clipboard/ingest.rs, clipboard/watcher.rs).  The      *)
(* import holds the files lock from its first row to its last; text is     *)
(* captured without that lock, and every record is stored by a transaction *)
(* of its own that looks for equal content first.                          *)
(***************************************************************************)
EXTENDS Integers, Sequences, FiniteSets, FiniteSetsExt

CONSTANTS OldRow,        \* rows of the old databases, in the order of createTime
          OldItem,       \* per row: kind, content, favorite, blank
          OldDatabase,   \* database files of the old installation
          RowsIn,        \* [OldDatabase -> SUBSET OldRow]
          Unreadable,    \* those that cannot be opened or have no history table
          Folders,       \* the folders to look in, in order, without repetition
          FoundIn,       \* [folder -> the databases found under it, in order]
          PicturesIn,    \* [folder -> the images in its directory of images]
          Copied,        \* texts the user copies meanwhile
          Secrets,       \* contents that look like a secret
          Oversized,     \* contents above the limits on texts and images
          TextFormats,   \* per text, the formats the clipboard offers
          CaptureChoice, \* what may be set: enabled kinds and their order, secrets
          MaxImports,    \* bound: imports
          MaxMeanwhile   \* bound: copies, deletions, cleanups and failures

ASSUME LegacyImportAssumption ==
  /\ OldRow \subseteq Nat \ {0} /\ IsFiniteSet(OldRow)
  /\ DOMAIN OldItem = OldRow /\ RowsIn \in [OldDatabase -> SUBSET OldRow]
  /\ Unreadable \subseteq OldDatabase
  /\ Len(Folders) \in Nat /\ \A i \in 1..Len(Folders) : FoundIn[Folders[i]] \in Seq(OldDatabase)
  \* A content is of one kind: only texts look like a secret or are copied as text.
  /\ \A r \in OldRow :
       /\ OldItem[r].favorite \in BOOLEAN
       /\ OldItem[r].kind # "text" => OldItem[r].content \notin Copied \cup Secrets
       /\ \A q \in OldRow : OldItem[q].content = OldItem[r].content => OldItem[q].kind = OldItem[r].kind
  /\ MaxImports \in Nat /\ MaxMeanwhile \in Nat

VARIABLES capture,   \* the settings for captures
          history,   \* the records: id, content (its key), favorite
          pictures,  \* the image files of the application
          filesLock, \* who holds it
          importing, \* the import that runs
          outcome,   \* how the last one ended
          erased,    \* keys of records the user deleted since it began
          importTally

importVars == <<capture, history, pictures, filesLock, importing, outcome,
                erased, importTally>>

NoImport == [at |-> "idle", left |-> {}, folder |-> "", types |-> {}, row |-> 0,
             found |-> FALSE, stale |-> FALSE, imported |-> {}, skipped |-> {}]
NoOutcome == [ended |-> FALSE, rows |-> {}, imported |-> {}, skipped |-> {}]

LegacyImportInit ==
  /\ capture \in CaptureChoice
  /\ history = {} /\ pictures = {}
  /\ filesLock = "nobody"
  /\ importing = NoImport /\ outcome = NoOutcome
  /\ erased = {}
  /\ importTally = [imports |-> 0, meanwhile |-> 0]

Meanwhile ==
  /\ importTally.meanwhile < MaxMeanwhile
  /\ importTally' = [importTally EXCEPT !.meanwhile = @ + 1]

-----------------------------------------------------------------------------
(* Which old database is imported (inspect_legacy_data).                   *)

ItemCount(d) == IF d \in Unreadable THEN 0 ELSE Cardinality(RowsIn[d])

\* inspect_legacy_dir: of the databases under a folder the first of those with
\* the most rows, if one has any.
BestDatabase(f) ==
  LET found == {FoundIn[f][i] : i \in 1..Len(FoundIn[f])}
      most == Max({0} \cup {ItemCount(d) : d \in found})
      first == CHOOSE i \in 1..Len(FoundIn[f]) :
                 /\ ItemCount(FoundIn[f][i]) = most
                 /\ \A j \in 1..i - 1 : ItemCount(FoundIn[f][j]) # most
  IN IF most = 0 THEN {} ELSE {FoundIn[f][first]}

FolderCount(f) == Max({0} \cup {ItemCount(d) : d \in BestDatabase(f)})

\* is_better_legacy_match: of the folders, the first of those with the most.
ChosenFolder ==
  CHOOSE i \in 1..Len(Folders) :
    /\ \A j \in 1..Len(Folders) : FolderCount(Folders[j]) <= FolderCount(Folders[i])
    /\ \A j \in 1..i - 1 : FolderCount(Folders[j]) < FolderCount(Folders[i])

-----------------------------------------------------------------------------
(* What becomes a record (build_item_with_settings, draft_from_text).      *)

\* The first enabled kind, in the order of the settings, that the text has;
\* plain text is always there.
FormatOf(formats) ==
  LET usable == {i \in 1..Len(capture.order) :
                   /\ capture.order[i] \in capture.enabled
                   /\ capture.order[i] \in formats}
  IN IF usable = {} THEN "none" ELSE capture.order[Min(usable)]

\* The settings admit the content.
Admits(kind, content, formats) ==
  /\ content \notin Oversized
  /\ IF kind = "text"
     THEN /\ content \notin Secrets \/ capture.secrets
          /\ FormatOf(formats) # "none"
     ELSE kind \in capture.enabled

\* map_legacy_row_to_item: an old text has no formats but plain text, an image
\* must be in the folder of the database that was chosen.
Importable(r) ==
  /\ OldItem[r].kind \in {"text", "files", "image"}
  /\ ~OldItem[r].blank
  /\ OldItem[r].kind = "image" => OldItem[r].content \in PicturesIn[importing.folder]
  /\ Admits(OldItem[r].kind, OldItem[r].content, {"text"})

\* content_hash: what a record is recognized by, its content in the format it
\* was taken in.
KeyOf(kind, content, formats) ==
  <<content, IF kind = "text" THEN FormatOf(formats) ELSE kind>>

OldKey(r) == KeyOf(OldItem[r].kind, OldItem[r].content, {"text"})

IsPicture(c) == \E r \in OldRow : OldItem[r].kind = "image" /\ OldItem[r].content = c

-----------------------------------------------------------------------------
(* Storing a record: equal content is used again, and stays the favourite  *)
(* that it is.                                                             *)

Known(c) == \E x \in history : x.content = c
FreshId == 1 + Max({0} \cup {x.id : x \in history})

Stored(c, favorite) ==
  IF Known(c) THEN history
  ELSE history \cup {[id |-> FreshId, content |-> c, favorite |-> favorite]}

-----------------------------------------------------------------------------
(* The import.                                                             *)

BeginsLocked == filesLock = "nobody" /\ filesLock' = "import"

\* import_legacy_data: the old history is looked for again; without one, or
\* without a type, nothing is done.
BeginImport(types) ==
  /\ importing.at = "idle" /\ types # {}
  /\ importTally.imports < MaxImports
  /\ \E i \in 1..Len(Folders) : FolderCount(Folders[i]) > 0
  /\ BeginsLocked
  /\ importing' = [NoImport EXCEPT !.at = "rows", !.types = types,
                     !.folder = Folders[ChosenFolder],
                     !.left = UNION {RowsIn[d] : d \in BestDatabase(Folders[ChosenFolder])}]
  /\ outcome' = NoOutcome /\ erased' = {}
  /\ importTally' = [importTally EXCEPT !.imports = @ + 1]
  /\ UNCHANGED <<capture, history, pictures>>

Selected(r) ==
  (IF OldItem[r].favorite THEN "favorite" ELSE "normal") \in importing.types

OldestRow == Min(importing.left)

\* A row of another type is passed over, one that makes no record is skipped.
PassOver ==
  /\ importing.at = "rows" /\ importing.left # {}
  /\ ~Selected(OldestRow) \/ ~Importable(OldestRow)
  /\ importing' = [importing EXCEPT !.left = @ \ {OldestRow},
                     !.skipped = IF Selected(OldestRow) THEN @ \cup {OldestRow} ELSE @]
  /\ UNCHANGED <<capture, history, pictures, filesLock, outcome, erased,
                 importTally>>

\* The record is made; the bytes of an image are stored with it.
MakeRecord ==
  /\ importing.at = "rows" /\ importing.left # {}
  /\ Selected(OldestRow) /\ Importable(OldestRow)
  /\ pictures' = pictures \cup (IF OldItem[OldestRow].kind = "image"
                                THEN {OldItem[OldestRow].content} ELSE {})
  /\ importing' = [importing EXCEPT !.at = "finding", !.row = OldestRow]
  /\ UNCHANGED <<capture, history, filesLock, outcome, erased, importTally>>

\* The transaction looks for equal content ...
FindEqual ==
  /\ importing.at = "finding"
  /\ importing' = [importing EXCEPT !.at = "storing", !.stale = FALSE,
                     !.found = Known(OldKey(importing.row))]
  /\ UNCHANGED <<capture, history, pictures, filesLock, outcome, erased,
                 importTally>>

\* ... and inserts the row or uses the equal one again; it cannot write after
\* another one has since it read.
StoreFound ==
  /\ importing.at = "storing" /\ ~importing.stale
  /\ history' = IF importing.found THEN history
                ELSE history \cup {[id |-> FreshId, content |-> OldKey(importing.row),
                                    favorite |-> OldItem[importing.row].favorite]}
  /\ importing' = [importing EXCEPT !.at = "rows", !.left = @ \ {importing.row},
                     !.imported = IF importing.found THEN @ ELSE @ \cup {importing.row},
                     !.skipped = IF importing.found THEN @ \cup {importing.row} ELSE @]
  /\ UNCHANGED <<capture, pictures, filesLock, outcome, erased, importTally>>

Released == filesLock' = IF filesLock = "import" THEN "nobody" ELSE filesLock

\* An error ends the import; the rows before it stay.  Nothing is noted.
ImportFails ==
  /\ importing.at # "idle"
  /\ IF importing.stale THEN UNCHANGED importTally ELSE Meanwhile
  /\ importing' = NoImport
  /\ Released
  /\ UNCHANGED <<capture, history, pictures, outcome, erased>>

\* The last row is done: the result is noted in the settings.
FinishImport ==
  /\ importing.at = "rows" /\ importing.left = {}
  /\ outcome' = [ended |-> TRUE, imported |-> importing.imported,
                 skipped |-> importing.skipped,
                 rows |-> {r \in importing.imported \cup importing.skipped :
                             Importable(r)}]
  /\ importing' = NoImport
  /\ Released
  /\ UNCHANGED <<capture, history, pictures, erased, importTally>>

-----------------------------------------------------------------------------
(* Meanwhile.                                                              *)

\* A record of a copy is committed; an import that has read is overtaken.
Overtaken == importing' = [importing EXCEPT !.stale = @ \/ importing.at = "storing"]

\* Text needs no lock.
CopyText(c) ==
  /\ Meanwhile
  /\ Admits("text", c, TextFormats[c])
  /\ history' = Stored(KeyOf("text", c, TextFormats[c]), FALSE)
  /\ Overtaken
  /\ UNCHANGED <<capture, pictures, filesLock, outcome, erased>>

\* An image is stored under the lock.
CopyPicture(c) ==
  /\ Meanwhile /\ filesLock = "nobody"
  /\ IsPicture(c) /\ Admits("image", c, {})
  /\ history' = Stored(KeyOf("image", c, {}), FALSE)
  /\ pictures' = pictures \cup {c}
  /\ Overtaken
  /\ UNCHANGED <<capture, filesLock, outcome, erased>>

\* The user deletes a record; its file goes with the last that refers to it.
DeleteRecord(x) ==
  /\ Meanwhile /\ filesLock = "nobody"
  /\ history' = history \ {x}
  /\ pictures' = pictures \ ({x.content[1]} \ {y.content[1] : y \in history \ {x}})
  /\ erased' = erased \cup {x.content}
  /\ Overtaken
  /\ UNCHANGED <<capture, filesLock, outcome>>

\* The cleanup removes the files nothing refers to.
CleanPictures ==
  /\ Meanwhile /\ filesLock = "nobody"
  /\ pictures' = pictures \cap {x.content[1] : x \in history}
  /\ UNCHANGED <<capture, history, filesLock, importing, outcome, erased>>

LegacyImportNext ==
  \/ \E types \in SUBSET {"normal", "favorite"} : BeginImport(types)
  \/ PassOver \/ MakeRecord \/ FindEqual \/ StoreFound \/ ImportFails
  \/ FinishImport
  \/ \E c \in Copied : CopyText(c)
  \/ \E r \in OldRow : CopyPicture(OldItem[r].content)
  \/ \E x \in history : DeleteRecord(x)
  \/ CleanPictures

LegacyImportSpec == LegacyImportInit /\ [][LegacyImportNext]_importVars

-----------------------------------------------------------------------------
OldContent == {OldItem[r].content : r \in OldRow}

LegacyImportTypeOK ==
  /\ capture \in CaptureChoice
  /\ \A x \in history : x.content[1] \in OldContent \cup Copied /\ x.favorite \in BOOLEAN
  /\ pictures \subseteq OldContent
  /\ filesLock \in {"nobody", "import"}
  /\ importing.at \in {"idle", "rows", "finding", "storing"}
  /\ importing.left \cup importing.imported \cup importing.skipped \subseteq OldRow
  /\ outcome.imported \cup outcome.skipped \subseteq OldRow

\* However often the old history is imported, and whatever is copied
\* meanwhile, a content is one record (upsert_item_with_sync_outbox).
OnePerContent == \A x, y \in history : x.content = y.content => x = y

\* An image that was imported has its file, although the file is written before
\* the record that refers to it and the cleanup runs meanwhile.
PicturesThere == \A x \in history : IsPicture(x.content[1]) => x.content[1] \in pictures

\* No secret gets into the history when they are not collected, by copying
\* or by importing.
NoSecrets == ~capture.secrets => \A x \in history : x.content[1] \notin Secrets

\* An import that ended well left nothing out: every row of the selected types
\* that makes a record is in the history, or the user deleted it since; what
\* it inserted and what it skipped are told apart.
ImportedAll ==
  outcome.ended =>
    /\ outcome.imported \cap outcome.skipped = {}
    /\ \A r \in outcome.rows : Known(OldKey(r)) \/ OldKey(r) \in erased

ImportSound == OnePerContent /\ PicturesThere /\ NoSecrets /\ ImportedAll
=============================================================================
