----------------------------- MODULE Thumbnails -----------------------------
(* Thumbnails are made when they are first asked for, once for all that ask meanwhile, a few at a  *)
(* time. Those of stored images lie beside the images and go with them; those of copied files lie  *)
(* in a cache under a name that stands for one version of the file, which others may be rewriting. *)
EXTENDS Integers, FiniteSets

CONSTANTS
    Image,          \* stored images
    MaxVersion,     \* bound: versions of a copied file
    Asker,          \* cells of the list that ask
    Concurrency,    \* THUMBNAIL_CONCURRENCY
    CacheLimit,     \* thumbnails of files the cache holds
    MaxMisfortunes  \* bound: failures, cancelled calls, restarts

ASSUME ThumbnailAssumption ==
    /\ Concurrency \in Nat \ {0} /\ CacheLimit \in Nat \ {0} /\ MaxVersion \in Nat \ {0}
    /\ Image \cap Int = {}

Versions == 1..MaxVersion
Key == Image \cup Versions      \* thumbnail_path of an image, cache_path of the file's version

VARIABLES
    origins,    \* the images that are stored
    removal,    \* the image a cleanup is removing
    version,    \* of the copied file
    thumb,      \* what lies at each key
    displays,   \* the version of the file a cached thumbnail was made from
    flying,     \* in_flight
    making,     \* the task of each key
    cells,      \* what each asker waits for
    misfortunes

thumbVars == <<origins, removal, version, thumb, displays, flying, making, cells, misfortunes>>

NoImage == "no image"
Mixed == 0                      \* read while it was rewritten
Unmade == [at |-> "none", first |-> Mixed, result |-> "none"]
Unasked == [at |-> "none", key |-> 1]

ThumbInit ==
    /\ origins = Image /\ removal = NoImage /\ version = 1
    /\ thumb = [k \in Key |-> "absent"] /\ displays = [v \in Versions |-> v]
    /\ flying = {}
    /\ making = [k \in Key |-> Unmade]
    /\ cells = [a \in Asker |-> Unasked]
    /\ misfortunes = 0

----------------------------------------------------------------------------
\* Asking.

\* What is there is taken at once; for a file that also means the mark that it is shown as it is.
FoundAtOnce(a, k) ==
    /\ cells[a].at = "none" /\ thumb[k] # "absent"
    /\ cells' = [cells EXCEPT ![a] = [at |-> thumb[k], key |-> k]]
    /\ UNCHANGED <<origins, removal, version, thumb, displays, flying, making, misfortunes>>

\* ThumbnailCoordinator::run: the first to ask starts a task of its own, the others join it; who
\* joins after the result was sent has it at once.
Await(a, k) ==
    /\ cells[a].at = "none" /\ thumb[k] = "absent"
    /\ cells' = [cells EXCEPT ![a] = [at |-> IF making[k].at = "published" THEN making[k].result ELSE "awaiting",
                                      key |-> k]]
    /\ flying' = flying \cup {k}
    /\ making' = IF k \in flying THEN making ELSE [making EXCEPT ![k].at = "queued"]
    /\ UNCHANGED <<origins, removal, version, thumb, displays, misfortunes>>

\* file_thumbnail_for_list asks for the version there is and shows the original meanwhile.
AskImage(a, i) == FoundAtOnce(a, i) \/ Await(a, i)
AskFile(a) == FoundAtOnce(a, version) \/ Await(a, version)

\* The cell has what it asked for.
Shown(a) ==
    /\ cells[a].at \notin {"none", "awaiting"}
    /\ cells' = [cells EXCEPT ![a] = Unasked]
    /\ UNCHANGED <<origins, removal, version, thumb, displays, flying, making, misfortunes>>

\* The call for an image is dropped; the task goes on.
CancelCall(a) ==
    /\ cells[a].at = "awaiting" /\ cells[a].key \in Image /\ misfortunes < MaxMisfortunes
    /\ misfortunes' = misfortunes + 1
    /\ cells' = [cells EXCEPT ![a] = Unasked]
    /\ UNCHANGED <<origins, removal, version, thumb, displays, flying, making>>

----------------------------------------------------------------------------
\* Making.

Running == {k \in Key : making[k].at \in {"reading", "decoded", "checked", "writing", "filling"}}
Task(k, at) == making' = [making EXCEPT ![k].at = at]

\* The result is sent: whoever waits has it.
SendResult(k, result) ==
    /\ making' = [making EXCEPT ![k] = [Unmade EXCEPT !.at = "published", !.result = result]]
    /\ cells' = [a \in Asker |-> IF cells[a].at = "awaiting" /\ cells[a].key = k
                                 THEN [cells[a] EXCEPT !.at = result] ELSE cells[a]]

Permit(k) ==
    /\ making[k].at = "queued" /\ Cardinality(Running) < Concurrency
    /\ making' = [making EXCEPT ![k] = [Unmade EXCEPT !.at = "reading", !.first = version]]
    /\ UNCHANGED <<origins, removal, version, thumb, displays, flying, cells, misfortunes>>

\* generate_thumbnail: another task has made it; there is no image; or it is read and resized.
ReadImage(i) ==
    /\ making[i].at = "reading"
    /\ CASE thumb[i] # "absent" -> SendResult(i, thumb[i])
         [] thumb[i] = "absent" /\ i \notin origins -> SendResult(i, "error")
         [] OTHER -> Task(i, "writing") /\ UNCHANGED cells
    /\ UNCHANGED <<origins, removal, version, thumb, displays, flying, misfortunes>>

\* write_if_absent creates the file and fills it.
CreateThumb(i) ==
    /\ making[i].at = "writing" /\ thumb[i] = "absent"
    /\ thumb' = [thumb EXCEPT ![i] = "half"] /\ Task(i, "filling")
    /\ UNCHANGED <<origins, removal, version, displays, flying, cells, misfortunes>>

FillThumb(i) ==
    /\ making[i].at = "filling"
    /\ thumb' = [thumb EXCEPT ![i] = IF @ = "half" THEN "whole" ELSE @]
    /\ SendResult(i, "whole")
    /\ UNCHANGED <<origins, removal, version, displays, flying, misfortunes>>

\* file_thumbnail::generate reads the file, which may be rewritten before the end.
ReadFile(v) ==
    /\ making[v].at = "reading"
    /\ IF thumb[v] # "absent" THEN SendResult(v, thumb[v])
       ELSE /\ making' = [making EXCEPT ![v].at = "decoded",
                                        ![v].first = IF @ = version THEN @ ELSE Mixed]
            /\ UNCHANGED cells
    /\ UNCHANGED <<origins, removal, version, thumb, displays, flying, misfortunes>>

\* Mutant: whatever was read is kept for the version that was asked for.
VersionAnyhow(v) == TRUE

\* The key is computed again: what is being rewritten is not kept for the old one.
StillVersion(v) == version = v

CheckFile(v) ==
    /\ making[v].at = "decoded"
    /\ IF StillVersion(v) THEN Task(v, "checked") /\ UNCHANGED cells ELSE SendResult(v, "original")
    /\ UNCHANGED <<origins, removal, version, thumb, displays, flying, misfortunes>>

\* Others beyond the limit go when one is added, the oldest first: any, as time is left out.
Trimmed(v) ==
    LET others == {w \in Versions \ {v} : thumb[w] # "absent"} IN
    {S \in SUBSET others : Cardinality(others \ S) < CacheLimit /\
        \A T \in SUBSET S : Cardinality(others \ T) < CacheLimit => T = S}

Keep(v, what) ==
    \E gone \in Trimmed(v) :
        thumb' = [k \in Key |-> CASE k = v -> what [] k \in gone -> "absent" [] OTHER -> thumb[k]]

\* atomic_write, then trim_cache.
KeepFile(v) ==
    /\ making[v].at = "checked"
    /\ Keep(v, "whole") /\ displays' = [displays EXCEPT ![v] = making[v].first]
    /\ SendResult(v, "whole")
    /\ UNCHANGED <<origins, removal, version, flying, misfortunes>>

\* keep_original: animated, with a colour profile, or of a format that is not scaled.
KeepOriginal(v) ==
    /\ making[v].at = "reading" /\ thumb[v] = "absent"
    /\ Keep(v, "original")
    /\ SendResult(v, "original")
    /\ UNCHANGED <<origins, removal, version, displays, flying, misfortunes>>

Fails(k) ==
    /\ making[k].at \in {"reading", "checked", "writing", "filling"} /\ misfortunes < MaxMisfortunes
    /\ misfortunes' = misfortunes + 1
    /\ SendResult(k, "error")
    /\ UNCHANGED <<origins, removal, version, thumb, displays, flying>>

Lands(k) ==
    /\ making[k].at = "published"
    /\ making' = [making EXCEPT ![k] = Unmade] /\ flying' = flying \ {k}
    /\ UNCHANGED <<origins, removal, version, thumb, displays, cells, misfortunes>>

----------------------------------------------------------------------------
\* What goes on meanwhile.

Rewrite ==
    /\ version < MaxVersion
    /\ version' = version + 1
    /\ UNCHANGED <<origins, removal, thumb, displays, flying, making, cells, misfortunes>>

\* ImageStore::remove takes the image first, then its thumbnail.
RemoveOrigin(i) ==
    /\ removal = NoImage /\ i \in origins
    /\ origins' = origins \ {i} /\ removal' = i
    /\ UNCHANGED <<version, thumb, displays, flying, making, cells, misfortunes>>

RemoveThumb ==
    /\ removal # NoImage
    /\ thumb' = [thumb EXCEPT ![removal] = "absent"]
    /\ removal' = NoImage
    /\ UNCHANGED <<origins, version, displays, flying, making, cells, misfortunes>>

StartAgain ==
    /\ misfortunes < MaxMisfortunes
    /\ misfortunes' = misfortunes + 1
    /\ flying' = {} /\ removal' = NoImage
    /\ making' = [k \in Key |-> Unmade] /\ cells' = [a \in Asker |-> Unasked]
    /\ UNCHANGED <<origins, version, thumb, displays>>

TaskStep(k) ==
    \/ Permit(k) \/ CheckFile(k) \/ Lands(k)
    \/ k \in Image /\ (ReadImage(k) \/ CreateThumb(k) \/ FillThumb(k))
    \/ k \in Versions /\ (ReadFile(k) \/ KeepFile(k) \/ KeepOriginal(k))

ThumbNext ==
    \/ \E a \in Asker : (\E i \in Image : AskImage(a, i)) \/ AskFile(a) \/ Shown(a) \/ CancelCall(a)
    \/ \E k \in Key : TaskStep(k) \/ Fails(k)
    \/ Rewrite \/ (\E i \in Image : RemoveOrigin(i)) \/ RemoveThumb
    \/ StartAgain

ThumbSpec == ThumbInit /\ [][ThumbNext]_thumbVars

ThumbTypeOK ==
    /\ origins \subseteq Image /\ removal \in Image \cup {NoImage} /\ version \in Versions
    /\ thumb \in [Key -> {"absent", "half", "whole", "original"}]
    /\ displays \in [Versions -> 0..MaxVersion] /\ flying \subseteq Key
    /\ \A k \in Key : making[k].at \in {"none", "queued", "reading", "decoded", "checked", "writing", "filling", "published"}
    /\ \A a \in Asker :
           cells[a].at \in {"none", "awaiting", "error", "half", "whole", "original"} /\ cells[a].key \in Key

\* A cached thumbnail of a file shows the version its name stands for, although the file is read
\* while it may be rewritten (file_thumbnail.rs, cache_path and generate).
OfItsVersion == \A v \in Versions : thumb[v] = "whole" => displays[v] = v

\* Whoever waits waits for a task that is under way: no answer is missed, whoever cancelled, joined
\* late or failed (ThumbnailCoordinator::run).
WaitsForTask ==
    \A a \in Asker : cells[a].at = "awaiting" =>
        cells[a].key \in flying /\ making[cells[a].key].at # "none"

ThumbsSound == OfItsVersion /\ WaitsForTask

\* Every cell that asks is answered.
CellsAnswered == \A a \in Asker : cells[a].at # "awaiting"

\* "The file is there for certain before the path is returned, so that the page never loads a half
\* made one" (clipboard/storage.rs:212). A second cell takes the file that another is still
\* filling for a finished one.
NeverHalf == \A a \in Asker : cells[a].at # "half"
=============================================================================
