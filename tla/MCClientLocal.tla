--------------------------- MODULE MCClientLocal ---------------------------
(* Instances of the parts of a client beside its connections. Each has a state of its own, so that *)
(* a behaviour of the run is one of the clipboard, of the history and its files, of the data       *)
(* directory, of a window, of an item's state on two devices, of the settings and the identity, *)
(* of thumbnails, or of the sizes of copied directories.                                           *)
EXTENDS Capture, History, Storage, Lifecycle, ItemState, ConfigFiles, Thumbnails, LateSizes

CONSTANTS rich, plain, file, image, resampled, picture, attachment, text, note, theme, shortcut

MCPlainOf == [c \in Content |-> IF c = rich THEN plain ELSE c]
MCAlike == {<<image, resampled>>}
MCPayloadOf == [r \in Record |-> CASE r \in {1, 3} -> picture [] r = 2 -> NoPayload [] OTHER -> attachment]

VARIABLE part

LocalInit ==
    /\ part \in {"capture", "history", "storage", "lifecycle", "items", "config", "thumbnails", "sizes"}
    /\ CaptureInit /\ HistoryInit /\ StorageInit /\ LifecycleInit /\ Init /\ ConfigInit /\ ThumbInit /\ SizeInit
    /\ part # "history" => limit = 0

LocalNext ==
    \/ /\ part = "capture" /\ CaptureNext
       /\ UNCHANGED <<part, historyVars, storageVars, lifecycleVars, vars, configVars, thumbVars, sizeVars>>
    \/ /\ part = "history" /\ HistoryNext
       /\ UNCHANGED <<part, captureVars, storageVars, lifecycleVars, vars, configVars, thumbVars, sizeVars>>
    \/ /\ part = "storage" /\ StorageNext
       /\ UNCHANGED <<part, captureVars, historyVars, lifecycleVars, vars, configVars, thumbVars, sizeVars>>
    \/ /\ part = "lifecycle" /\ LifecycleNext
       /\ UNCHANGED <<part, captureVars, historyVars, storageVars, vars, configVars, thumbVars, sizeVars>>
    \/ /\ part = "items" /\ Next
       /\ UNCHANGED <<part, captureVars, historyVars, storageVars, lifecycleVars, configVars, thumbVars, sizeVars>>
    \/ /\ part = "config" /\ ConfigNext
       /\ UNCHANGED <<part, captureVars, historyVars, storageVars, lifecycleVars, vars, thumbVars, sizeVars>>
    \/ /\ part = "thumbnails" /\ ThumbNext
       /\ UNCHANGED <<part, captureVars, historyVars, storageVars, lifecycleVars, vars, configVars, sizeVars>>
    \/ /\ part = "sizes" /\ SizeNext
       /\ UNCHANGED <<part, captureVars, historyVars, storageVars, lifecycleVars, vars, configVars, thumbVars>>

\* The cleanup runs every five minutes and after every capture, and what has the files lock goes on.
\* A page mounts, timers go off, and commands that were called are finished. The workers of an item's
\* changes go on, and directories are walked.
LocalFairness ==
    /\ WF_historyVars(part = "history" /\ CleanupStep)
    /\ WF_historyVars(part = "history" /\ StoreRecord) /\ WF_historyVars(part = "history" /\ Reclaim)
    /\ WF_lifecycleVars(part = "lifecycle" /\ Mount) /\ WF_lifecycleVars(part = "lifecycle" /\ TimerStep)
    /\ \A t \in Thread : WF_lifecycleVars(part = "lifecycle" /\ CallStep(t))
    /\ Fairness
    /\ WF_sizeVars(part = "sizes" /\ SizeStep)

LocalSpec ==
    /\ LocalInit
    /\ [][LocalNext]_<<part, captureVars, historyVars, storageVars, lifecycleVars, vars, configVars, thumbVars, sizeVars>>
    /\ LocalFairness

\* The cells of the parts keep their shape.
LocalTypeOK ==
    /\ CaptureTypeOK /\ HistoryTypeOK /\ StorageTypeOK /\ LifecycleTypeOK /\ TypeOK
    /\ ConfigTypeOK /\ ThumbTypeOK /\ SizeTypeOK

\* A thumbnail and the size of a directory belong to the version of the files they were made from,
\* although they come later, while the files and the records change.
DerivedIsOfItsVersion == ThumbsSound /\ SizesSound

\* A cleanup takes the oldest and nothing protected, and only while there is too much; a window is
\* destroyed only when it is idle.
TakesOnlyIdle == [][EvictsOldest /\ DestroyedIdle]_<<historyVars, lifecycleVars>>

\* The data comes below its limit, a hidden window is destroyed, a request reaches its page,
\* what the user changed is sent and the sizes of directories are known.
EventuallyTidy ==
    []<>(/\ WithinLimit /\ IdleIsDestroyed /\ RequestsArrived /\ AllSent
         /\ part = "sizes" => SizesKnown)
=============================================================================
