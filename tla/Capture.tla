------------------------------ MODULE Capture ------------------------------
(* The system clipboard and what the application knows of it: the watcher that turns changes into   *)
(* records, the writers of the application (the user's and that of synchronization) that change it *)
(* themselves, the guard that tells the one from the other, and the fingerprint of what the         *)
(* clipboard holds. Other applications change the clipboard at any time, and the watcher learns of *)
(* several changes at once.                                                                         *)
EXTENDS Integers, Sequences, SequencesExt

CONSTANTS
    Content,         \* what a clipboard may hold
    Images, Files,   \* of it; the rest is text
    Alike,           \* pairs of images a remote desktop may have resampled
    PlainOf,         \* the plain text of rich text; every other content is its own
    CopyPlain,       \* the setting: keep the plain text only
    RecentLimit,     \* RECENT_SYNCED_IMAGE_LIMIT
    MaxChanges,      \* bound: attempts to change the clipboard
    MaxPauses        \* bound: pauses of the watcher

ASSUME CaptureAssumption ==
    /\ Images \subseteq Content /\ Files \subseteq Content /\ Images \cap Files = {}
    /\ Alike \subseteq Images \X Images
    /\ PlainOf \in [Content -> Content] /\ CopyPlain \in BOOLEAN
    /\ \A c \in Content : PlainOf[PlainOf[c]] = PlainOf[c]
    /\ \A c \in Content : PlainOf[c] # c => {c, PlainOf[c]} \cap (Images \cup Files) = {}
    /\ RecentLimit \in Nat \ {0} /\ MaxChanges \in Nat /\ MaxPauses \in Nat

Nothing == "nothing"
Writer == {"user", "sync"}

VARIABLES
    os,         \* the content of the system clipboard
    news,       \* changes of it the watcher has not been told of
    changes,    \* attempts to change it so far
    guard,      \* WritebackGuard: the hashes of own writes the watcher has not met
    prints,     \* ClipboardFingerprintState: generation, current and write_pending
    recent,     \* its recent_synced_images
    paused,     \* WatcherPause
    pauses,     \* so far
    capture,    \* the change the watcher is at
    tasks,      \* spawned tasks that persist a captured item
    history,    \* the revision of the record of every content; 0 is none
    staged,     \* content operations, with the observation kept for them
    writing     \* what each writer is at

captureVars == <<os, news, changes, guard, prints, recent, paused, pauses, capture, tasks, history, staged, writing>>

NoObservation == [gen |-> 0, previous |-> Nothing, restore |-> FALSE]
IdleCapture == [at |-> "idle", item |-> Nothing, obs |-> NoObservation]
IdleWriter == [at |-> "idle", item |-> Nothing, sets |-> Nothing,
               gen |-> 0, previous |-> Nothing, pending |-> FALSE]

CaptureInit ==
    /\ os = Nothing /\ news = 0 /\ changes = 0
    /\ guard = <<>> /\ recent = <<>>
    /\ prints = [gen |-> 0, current |-> Nothing, pending |-> FALSE]
    /\ paused = FALSE /\ pauses = 0
    /\ capture = IdleCapture /\ tasks = {} /\ staged = {}
    /\ history = [c \in Content |-> 0]
    /\ writing = [w \in Writer |-> IdleWriter]

\* Rich text counts as its plain text: a remote tool may have dropped the format.
PrintOf(c) == PlainOf[c]

\* A sequence without some elements (retain), as a function of places: the proofs speak of it.
Without(s, S) ==
    LET Remaining == {i \in 1 .. Len(s) : s[i] \notin S}
        Nth(n) == CHOOSE i \in Remaining : Cardinality({j \in Remaining : j =< i}) = n
    IN  [n \in 1 .. Cardinality(Remaining) |-> s[Nth(n)]]

\* What the watcher makes of a content.
ReadAs(c) == IF CopyPlain THEN PlainOf[c] ELSE c

----------------------------------------------------------------------------
\* The fingerprint of the clipboard.

\* A change invalidates it; what it was is kept for an own write.
BeginObservation == [prints EXCEPT !.gen = @ + 1, !.current = Nothing, !.pending = FALSE]
Observation == [gen |-> prints.gen + 1, previous |-> prints.current, restore |-> prints.pending]

\* Mutant: an observation is committed whatever happened since.
CommittedLate(obs, print) == [prints EXCEPT !.current = print, !.pending = FALSE]

\* The result of an observation counts unless there was another change or write since.
Committed(obs, print) ==
    IF prints.gen = obs.gen THEN [prints EXCEPT !.current = print, !.pending = FALSE] ELSE prints

\* An own write whose content has no fingerprint of its own gets the one published for it.
Restored(obs) ==
    IF prints.gen = obs.gen /\ prints.current = Nothing /\ obs.restore
    THEN [prints EXCEPT !.current = obs.previous, !.pending = FALSE]
    ELSE prints

RolledBack(w) ==
    IF prints.gen = writing[w].gen
    THEN [prints EXCEPT !.current = writing[w].previous, !.pending = writing[w].pending]
    ELSE prints

Remember(print, gen) ==
    Append(IF Len(recent) = RecentLimit THEN Tail(recent) ELSE recent, [print |-> print, gen |-> gen])

MatchesRecent(print) ==
    \E r \in Range(recent) : r.print # print /\ {<<r.print, print>>, <<print, r.print>>} \cap Alike # {}

----------------------------------------------------------------------------
Attempt == changes < MaxChanges /\ changes' = changes + 1

\* Another application changes the clipboard.
OtherCopies(c) ==
    /\ Attempt
    /\ os' = c /\ news' = news + 1
    /\ UNCHANGED <<guard, prints, recent, paused, pauses, capture, tasks, history, staged, writing>>

\* The watcher is told of a change: macOS polls a counter, which merges changes, Windows tells of each.
Observe ==
    /\ capture.at = "idle" /\ news > 0
    /\ news' \in {0, news - 1}
    /\ prints' = BeginObservation
    /\ capture' = IF paused THEN capture ELSE [at |-> "reading", item |-> Nothing, obs |-> Observation]
    /\ UNCHANGED <<os, changes, guard, recent, paused, pauses, tasks, history, staged, writing>>

\* The application in front is filtered, nothing readable is there, or the retries are used up.
ReadsNothing ==
    /\ capture.at = "reading" /\ capture' = IdleCapture
    /\ UNCHANGED <<os, news, changes, guard, prints, recent, paused, pauses, tasks, history, staged, writing>>

Read ==
    /\ capture.at = "reading" /\ os # Nothing
    /\ capture' = [capture EXCEPT !.at = "read", !.item = ReadAs(os)]
    /\ UNCHANGED <<os, news, changes, guard, prints, recent, paused, pauses, tasks, history, staged, writing>>

\* The guard knows the content as an own write and forgets it, or it is a copy.
Recognize ==
    /\ capture.at = "read"
    /\ IF Contains(guard, capture.item)
       THEN guard' = RemoveFirst(guard, capture.item) /\ capture' = [capture EXCEPT !.at = "own"]
       ELSE capture' = [capture EXCEPT !.at = "copied"] /\ UNCHANGED guard
    /\ UNCHANGED <<os, news, changes, prints, recent, paused, pauses, tasks, history, staged, writing>>

\* An own write only sets the fingerprint.
SettleOwn ==
    /\ capture.at = "own"
    /\ prints' = IF capture.item \in Files THEN Restored(capture.obs)
                 ELSE Committed(capture.obs, PrintOf(capture.item))
    /\ capture' = IdleCapture
    /\ UNCHANGED <<os, news, changes, guard, recent, paused, pauses, tasks, history, staged, writing>>

\* A copy becomes a task, unless it is an image that synchronization brought or sent and a remote
\* desktop resampled. The fingerprint of files is computed later, when they are sent.
SettleCopy ==
    /\ capture.at = "copied"
    /\ LET item == capture.item
       IN /\ prints' = IF item \in Files THEN prints ELSE Committed(capture.obs, PrintOf(item))
          /\ tasks' = IF item \in Images /\ MatchesRecent(PrintOf(item)) THEN tasks
                      ELSE tasks \cup {[item |-> item, obs |-> capture.obs, rev |-> capture.obs.gen]}
    /\ capture' = IdleCapture
    /\ UNCHANGED <<os, news, changes, guard, recent, paused, pauses, history, staged, writing>>

\* The task writes the record, with a new revision, and stages it for sending if the settings say so.
Persist(t) ==
    /\ t \in tasks /\ tasks' = tasks \ {t}
    /\ history' = [history EXCEPT ![t.item] = t.rev]
    /\ staged' \in {staged, staged \cup {t}}
    /\ UNCHANGED <<os, news, changes, guard, prints, recent, paused, pauses, capture, writing>>

\* The operation becomes an event, with the fingerprint of its files, and its observation ends; an
\* operation of an older revision only ends.
Materialize(t) ==
    /\ t \in staged /\ staged' = staged \ {t}
    /\ IF history[t.item] # t.rev THEN UNCHANGED <<prints, recent>>
       ELSE /\ prints' = IF t.item \in Files THEN Committed(t.obs, PrintOf(t.item)) ELSE prints
            /\ recent' = IF t.item \in Images THEN Remember(PrintOf(t.item), 0) ELSE recent
    /\ UNCHANGED <<os, news, changes, guard, paused, pauses, capture, tasks, history, writing>>

\* Registrations live for two seconds: longer than the watcher needs for a change.
GuardExpires ==
    /\ guard # <<>> /\ news = 0 /\ capture.at = "idle" /\ \A w \in Writer : writing[w].at = "idle"
    /\ guard' = Tail(guard)
    /\ UNCHANGED <<os, news, changes, prints, recent, paused, pauses, capture, tasks, history, staged, writing>>

RecentExpires ==
    /\ recent # <<>> /\ recent' = Tail(recent)
    /\ UNCHANGED <<os, news, changes, guard, prints, paused, pauses, capture, tasks, history, staged, writing>>

\* The user stops or resumes the watcher. On macOS what changed in between is skipped.
SetPaused(to) ==
    /\ paused # to /\ (to => pauses < MaxPauses)
    /\ paused' = to /\ pauses' = IF to THEN pauses + 1 ELSE pauses
    /\ prints' = BeginObservation
    /\ news' \in IF to THEN {news} ELSE {news, 0}
    /\ UNCHANGED <<os, changes, guard, recent, capture, tasks, history, staged, writing>>

----------------------------------------------------------------------------
\* Own writes.

\* What a write registers: rich text may be read back as either.
Hashes(c, plain) ==
    IF plain THEN <<PlainOf[c]>> ELSE IF PlainOf[c] = c THEN <<c>> ELSE <<c, PlainOf[c]>>

\* The user copies or pastes a record.
UserWrites(c, plain) ==
    /\ writing["user"].at = "idle" /\ Attempt
    /\ history[c] # 0
    /\ guard' = guard \o Hashes(c, plain)
    /\ writing' = [writing EXCEPT !["user"] =
                      [@ EXCEPT !.at = "registered", !.item = c, !.sets = IF plain THEN PlainOf[c] ELSE c]]
    /\ UNCHANGED <<os, news, prints, recent, paused, pauses, capture, tasks, history, staged>>

\* The newest item of a page is written unless the clipboard has it: its fingerprint is published.
SyncBegins(c) ==
    /\ writing["sync"].at = "idle" /\ Attempt
    /\ prints.current # PrintOf(c)
    /\ prints' = [gen |-> prints.gen + 1, current |-> PrintOf(c), pending |-> TRUE]
    /\ recent' = IF c \in Images THEN Remember(PrintOf(c), prints.gen + 1) ELSE recent
    /\ writing' = [writing EXCEPT !["sync"] =
                      [at |-> "begun", item |-> c, sets |-> c, gen |-> prints.gen + 1,
                       previous |-> prints.current, pending |-> prints.pending]]
    /\ UNCHANGED <<os, news, guard, paused, pauses, capture, tasks, history, staged>>

SyncRegisters ==
    /\ writing["sync"].at = "begun"
    /\ guard' = guard \o Hashes(writing["sync"].item, FALSE)
    /\ writing' = [writing EXCEPT !["sync"].at = "registered"]
    /\ UNCHANGED <<os, news, changes, prints, recent, paused, pauses, capture, tasks, history, staged>>

Set(w) ==
    /\ writing[w].at = "registered"
    /\ os' = writing[w].sets /\ news' = news + 1
    /\ writing' = [writing EXCEPT ![w] = IdleWriter]
    /\ UNCHANGED <<changes, guard, prints, recent, paused, pauses, capture, tasks, history, staged>>

\* The clipboard is busy. A failed image is taken from the guard, and may have cleared the clipboard.
SetFails(w) ==
    /\ writing[w].at = "registered"
    /\ IF writing[w].item \in Images
       THEN /\ guard' = Without(guard, {writing[w].item})
            /\ UNCHANGED <<os, news>> \/ (os' = Nothing /\ news' = news + 1)
       ELSE UNCHANGED <<guard, os, news>>
    /\ IF w = "sync"
       THEN prints' = RolledBack(w) /\ recent' = Without(recent, {r \in Range(recent) : r.gen = writing[w].gen})
       ELSE UNCHANGED <<prints, recent>>
    /\ writing' = [writing EXCEPT ![w] = IdleWriter]
    /\ UNCHANGED <<changes, paused, pauses, capture, tasks, history, staged>>

CaptureNext ==
    \/ \E c \in Content : OtherCopies(c) \/ SyncBegins(c) \/ \E plain \in BOOLEAN : UserWrites(c, plain)
    \/ Observe \/ ReadsNothing \/ Read \/ Recognize \/ SettleOwn \/ SettleCopy
    \/ \E t \in tasks : Persist(t)
    \/ \E t \in staged : Materialize(t)
    \/ GuardExpires \/ RecentExpires
    \/ \E to \in BOOLEAN : SetPaused(to)
    \/ SyncRegisters
    \/ \E w \in Writer : Set(w) \/ SetFails(w)

----------------------------------------------------------------------------
\* The watcher knows of every change and no write is under way.
Quiet == ~paused /\ news = 0 /\ capture.at = "idle" /\ \A w \in Writer : writing[w].at = "idle"

\* What synchronization believes to be on the clipboard is there: otherwise an item that arrives again
\* would not be written. Files are excepted: an own write of files that the watcher meets together
\* with a write of other files restores the fingerprint of the first.
CurrentIsTrue ==
    Quiet => prints.current = Nothing \/ os \in Files \/ prints.current = PrintOf(os)

\* The cells keep their shape, nothing that the clipboard never held is known of it, and an observation
\* is never newer than the state it is committed to.
CaptureTypeOK ==
    /\ os \in Content \cup {Nothing} /\ news \in 0 .. changes
    /\ Range(guard) \subseteq Content /\ Len(recent) =< RecentLimit
    /\ prints.current \in Content \cup {Nothing} /\ prints.pending \in BOOLEAN
    /\ capture.at \in {"idle", "reading", "read", "own", "copied"} /\ capture.obs.gen =< prints.gen
    /\ \A t \in tasks \cup staged : t.item \in Content /\ t.obs.gen \in 1 .. prints.gen
    /\ \A w \in Writer : writing[w].at \in {"idle", "begun", "registered"} /\ writing[w].gen =< prints.gen
=============================================================================
