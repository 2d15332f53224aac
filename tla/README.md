# EcoPaste: verification project

EcoPaste is a clipboard manager that synchronises its history between the
devices of a group, over the local network and through a server called the Hub.
This directory holds TLA+ modules for the parts of it where a mistake is
hardest to test, the TLC configurations that check them on small instances, and
TLAPS proofs of the results that should hold for every instance.

Paths below are relative to the repository. `manager.rs` and `transfer.rs` are
in `src-tauri/src/sync/`, "client repository" is
`src-tauri/src/sync/repository.rs`, "Hub repository" and `service.rs` are in
`sync-server/src/`; other `*.rs` files are below `src-tauri/src/`.

Contents: [inventory](#inventory) ·
[how the modules are built](#how-the-modules-are-built) ·
[modules](#modules) · [runs](#runs) · [bounds](#bounds) ·
[fairness](#fairness) · [findings](#findings) ·
[what the properties leave out](#what-the-properties-leave-out) ·
[proofs](#proofs) · [not modelled](#not-modelled) · [plan](#plan)

## Inventory

| Component | State | Operations | Interacts with | Modules |
|---|---|---|---|---|
| Hub store (Hub repository, `service.rs`) | per group: event log with AUTOINCREMENT cursor, blobs and their files, references, retention snapshots, usage counters, pruned floor; in memory: upload reservations | submit and list events, upload blobs, register retention, remove devices, cleanup batches | clients (QUIC requests), the file system, the cleanup worker | HubStore, HubLog |
| Hub cleanup worker (`service.rs`) | quota targets by group, a wake-up flag | request, coalesce, run, put off, complete | Hub store; requests wait for it when the quota is full | HubQuota |
| Hub watches (`service.rs`), watch client (`manager.rs`) | watchers with their generation, a broadcast per group; watermarks, up to two streams | register, announce, re-read, replace; connect, wake cycles, back off | each other, cloud delivery | Watch |
| Hub directory (both repositories) | devices, tombstones with times, endpoints | list, merge, admit, store for and page to a device | membership | Directory |
| Record list (`manager.rs`, Hub repository) | the pages a user scrolls through | load, scroll, refresh | Hub store, while it changes | Paging |
| Cloud delivery (`manager.rs`, client repository, `transfer.rs`, `upload.rs`) | events, confirmations per route, cloud cursor, bootstrap stage and target, retention snapshot; in memory: the queue of a round, its uploads | record, submit, pull, confirm, plan a bootstrap, upload, register flags | Hub, local storage, apply worker | Delivery, Transfer, Retention |
| LAN delivery, connections (`manager.rs`) | a pull cursor and receipts per peer, suspended peers, an actor per peer, cached connections with watchers; endpoint, session, registration of the group | push, pull, rediscover, reconnect, dial, register, query | peers, discovery, Hub | LanPeer, CloudLink |
| Item state (`db/sync_item_state.rs`) | for every item a version per field, dirty flags, tombstone | local change, serialize, merge a remote patch | outbox, apply worker | ItemState |
| Outbox (`db/sync_queue.rs`) | content operations and dirty states in one order | stage, share, backfill, materialize, retry, commit | item state, cloud delivery | ItemState, Outbox |
| Applying (`manager.rs`) | stored events with applied, rejected and retry marks | state first, then content with attachments | item state, clipboard history | Receive |
| Membership (both repositories, `manager.rs`) | peers, removal tombstones with times, the group identity | remove, restore, merge, leave, join | all of the above: they filter by it | Membership, CloudLink, Directory |
| Pairing (`pairing.rs`, `manager.rs`) | invitations, join requests | invite, ask, approve, confirm, expire | membership | Pairing |
| Source application icons (`manager.rs`, `clipboard/app_store.rs`) | queue of icons to publish, rows of applications | record, publish, resolve, fetch, attach | Hub store, cleanup | Icons |
| Clipboard capture (`clipboard/`) | fingerprint with its observations, the guard for own writes, late sizes of directories | observe, read, suppress, store, write | local storage, outbox, applying | Capture, LateSizes |
| Local storage (`clipboard/cleanup.rs`, `storage.rs`, `shared_files.rs`, `db/items.rs`) | history rows and files, limits, thumbnails | ingest, edit, delete, clean up | cloud delivery (bootstrap), outbox, backups | History, Thumbnails |
| Data directory, backups (`commands/storage.rs`, `backup/mod.rs`) | manifest, data directory, archives | move, export, replace, merge | local storage, settings | Storage, Backups |
| Settings, identity (`settings/store.rs`, `sync/identity.rs`) | two files with their copies in memory | update, reset, replace, rename | read by the others | ConfigFiles |
| Windows (`window/`) | life cycle of a window, requests for its page, the preview | show, hide, protect, destroy, preview | user, timers | Lifecycle, Preview |
| Desktop (`update.rs`, `keyboard/`) | update candidate and downloads; keyboard hook, handoff buffer | check, download, install; catch, buffer, replay | release server, windows | Updates, SearchKeys |
| Import of the old application (`commands/onboarding.rs`) | the old databases and pictures | find, read, copy | clipboard capture, local storage | LegacyImport |
| User interface, Android bridge, Hub start-up | views, platform services, arguments | | | none |

What makes this system hard, and what must hold:

* **Pruning races with reading.** The Hub deletes old events while clients read
  by cursor. A client must never skip a retained event, and must learn of every
  gap (`HolesBelowFloor`, `ImplementsLog`, `NoSkip`, `NothingMissed`).
* **Steps of one operation are separate transactions and awaits.** Replies get
  lost, requests are handled after their sender gave up, the application stops
  in between (`ConfirmedWereTaken`, `ItemOrder`, `NewestApplied`,
  `ValueOfVersion`, `EndsAgree`).
* **What was read before an await is used after it**: settings, the group, the
  session, a fingerprint, the candidate of an update, the size of a directory
  (`LinkSound`, `CurrentIsTrue`, `InstalledIsWhole`, `SizesSound`).
* **Files outlive locks.** Payloads are received, captured or packed without
  the lock under which they are recorded (`StoredHasFile`, `PayloadsSurvive`,
  `Attached`, `HistoryFollows`).
* **Workers wait for being woken.** A wake that is lost is a change nobody
  sends, pulls or cleans up (`PutOffUntilUploadsEnd`, `EventuallyServed`,
  `EventuallySettled`, `EventuallyFlows`).
* **Removal is knowledge that spreads**, by two paths and in any order, with
  times (`RemovalsHold`, `MembersOnlyStep`).

`PROJECT.json` lists every hazard at its line with the properties about it.

## How the modules are built

A module has the state of one component as its variables, one action per
operation, handler or step between two awaits, and its properties at the end.
What an action does is everything the code does up to the next point where
another task may run: the SQLite transaction, the change of memory under a
lock, the wake it sends. Counters that only bound TLC's search are called
`Max...` and are used in guards, never in a property; the proofs hold for every
value of them.

Components that share state are in one module (Watch has the Hub and the client,
Directory the devices and the Hub, Transfer the client's uploads and the Hub's
streams). Those that only meet through an interface are joined by what the one
promises the other:

```
HubStore --implements--> HubLog <--extends-- Delivery      Transfer: what of a round is ready
                                                           Retention: the protections HubStore keeps
ItemState: order and merging  <--  Outbox (what is sent at all), Receive (a newer version wins)
Storage: where the data is    <--  History (what is in it), Backups (what a merge makes of it)
```

`MCHub`, `MCClientSync`, `MCClientLocal` and `MCClientWork` put modules that do
not influence each other side by side in one run: a variable `part` picks one of
them in the initial state and its steps leave the others alone. Invariants of
the parts are conjoined, and a temporal property is `[]<>` of a conjunction
whose other conjuncts hold in their initial states. The theorems are about these
compositions as well as the modules.

Data is abstract throughout: contents, blobs, keys, settings are model values,
times are small numbers, sizes are counts. Encryption, encoding and layout are
left out, except that what cannot be decoded or is not whole is a case of its
own where the code has one.

## Modules

### The Hub

**HubStore** is one sync group. Each request handler that holds the group's lock
(`group_sync_lock`) is one action, with the SQLite transaction it commits; an
upload is three actions (`ReserveBlob`, `ReceiveBlob`, `RecordBlob`), because
`receive_blob` runs without the lock. `Cleanup` is one batch of `cleanup_group`:
the stale blobs, then the oldest unprotected events by count, age or quota, with
the blobs they release, and the removal of files, which may fail. `Crash`
forgets the reservations and the streams. `TypeOK` has the foreign keys of the
schema beside the shapes: rows of references and of protections have their events
and snapshots.

| variables | code |
|---|---|
| `cursorOf`, `keyOf`, `refs` | tables `events`, `event_blob_refs` |
| `pruned`, `usage` | columns of `sync_groups` |
| `stored`, `legacy`, `age`, `files` | table `blobs`, the payload directory |
| `upload`, `reserved` | `BlobQuotaReservation`, `BlobQuotaState` |
| `generation`, `protections` | tables `retention_devices`, `retention_protections` |
| `issued`, `assigned`, `expired` | the AUTOINCREMENT sequence; history; the clock |

All events have one size and so have all blobs; a blob's age is which of the two
cutoffs it is past; the worker asks for any goal up to the quota.

**HubLog** is what the Hub promises a reader: appended events get cursors above
all earlier ones, and an event leaves only by pruning, which moves the floor up
to it. HubStore implements it (`ImplementsLog`, an instance of HubLog under
`cursorOf`, `pruned` and `issued`), Delivery extends it, so what holds of
Delivery rests on the promise and not on the store.

**HubQuota** is the worker: targets that coalesce into the strictest, its pass
over the groups, a group it puts off while an upload is active, the permit of
the `Notify` that brings it back, and clients that try again. Usage is split
into bytes a cleanup may free and bytes it may not.

**Watch** has both ends of a change watch. The Hub announces a commit after the
group's lock is released; a stream subscribes, reads the watermark, registers
with a generation and re-reads before each frame. The client keeps up to two
streams, replaces what fails, and wakes the transfer worker, which has no timer.

**Paging** is the record list: `ListEvents` outside the group's lock, pages cut
to a frame, a drawer that appends, refreshes and drops late answers by their
generation, while events come and go.

**Directory** is the group's devices on the Hub: every request is a chain of
queries, most of them under the lock, `ListDevices` without it, while a device
is removed and restored. Devices keep cursors and leave when told to.

### Exchanging events

**Delivery** runs the cloud cycles of the devices against HubLog. A device's
cycle (`run_cycle_locked`, under `cloud_cycle_lock`) is a small machine:

```
idle -> (plan -> planned ->) round -> exchange -> sent -> received -> delivered -> exchange ...
                                                     \-> gap -> replanned -> exchange
        exchange -> round | ended -> idle
```

`rows`, `confirmed`, `cursor` and `boot` are in SQLite and survive a crash;
`cycle` is the memory of the running cycle. `rows` and `confirmed` only keep the
device's own events. `late` holds requests whose sender gave up. Events whose
origin is not in `Device` are submitted by devices outside the model
(`OtherDevice`), so one modelled device meets everything others can do to it. A
page ends anywhere between its first and its last listed event, as the frame
size decides.

**Transfer** is a round with its attachments (`TransferQueue`): slots for
uploads, blobs shared by events, the Hub's permits and partial streams, stalls
of the network and of the local file, what is shown of each event, the exchange
of ready events beside the uploads, abandoned rounds and kills.

**Retention** tells the Hub which items are protected: pages of old events whose
identity the Hub does not know, the snapshot of flags with generation and
fingerprint, requests that are handled late or whose answer is lost, a group
that was created anew.

**Icons** follows an application's icon from the event that refers to it, over
the queue in the sender's database and the publisher, to the Hub and to the row
of the receiver, with restarts and cleanups on the way.

**Outbox** is the policy of what is sent: staged copies with their options
(sensitive, shared by hand, history), the one-time backfill, batches built with
the settings read at their start, retries, attachments above the limit, and the
times of rows: a row is linked to the events of several entries, each under the
order of its entry, and a remote copy is merged into it once.

**Receive** stores pages and pushed batches and applies them in one pass at a
time: deletions until none is left, then a batch of content, each with its
presence, its attachments and its row; failures are put off with a timer,
invalid events quarantined; a restart forgets the timers.

**ItemState** is one item on every device: the visible row, the row of merged
fields with a version each, staged copies, and the events. User operations are
single transactions; serialization takes three steps and content two, under
different locks (`Interleaved = FALSE` is the program with one lock for all).

### Groups and connections

**Membership**: every device and the Hub keep a ledger of removals and
restorations, merge each other's, keep routes to whoever is not removed, and
leave when told of their own removal; two cycles of a device (cloud and LAN) may
be under way. **Pairing**: an attempt with its two ends, the table of requests,
invitations and the user's answer; either end may break off anywhere. **LanPeer**:
the actor of one peer, its cycle, connections made from both sides that replace
each other, a watcher per connection, suspension and rediscovery. **CloudLink**:
the endpoint, the worker that dials and watches, cycles and queries that use the
cached link, the session that remembers which group is registered over which
link, and everything that changes settings, group and endpoint below them.

### On the device

**Capture**: changes of the system clipboard, the watcher, the guard for own
writes, and the fingerprint with the generations of its observations; two
writers (the user and synchronisation). **History**: records, images and
attachments under the files lock; captures, shares, deletions, retention, the
limit with its batches and rewrites of the database. **LateSizes**: walks over
copied directories by the watcher (one for each copy, as many of a record as
`LateTask` has members), the backfill and the upload, with their cancellation.
**Thumbnails**: the coordinator that makes each once, a few at a time; those of
images beside the image, those of files under the name of a version.
**Storage**: the data directory and its manifest; a move, an export, a merge and
a replacement as sequences of steps that may fail or be cut off, also between
the stores that a move leads to the new directory one after the other (`Rebase`,
`RebaseImages`, `RebaseFails`) and in the removal of the old one. What goes
wrong and is not made good leaves a mark: `astray`, something was written
elsewhere than to the data directory; `stranded`, a move ended before all stores
followed; `overlap`, `wrecked`, `unplugged`. **Backups**: what a merge makes of
records whose attachments are named by reference, by the path of the day or
where the user has them, beside copies that are made here and received files,
which keep their sender's identity. **LegacyImport**: the databases of the old
application in its base and custom folders, duplicates, favourites, secrets and
pictures. **ConfigFiles**: settings and identity with the temporary file each is
written to; an update has the lock of the values, an import and any number of
resets (`Reset`) have none. **Lifecycle**: a window's phases, timers whose
action waits for the main thread, leases and drafts, requests for a page that is
not mounted. **Preview**: shows, replacements, closes and suppression from
several threads, and the place of the panel. **SearchKeys**: the keyboard hook,
handoff sessions, the page's confirmation, timeouts, and the window shown and
hidden around them. **Updates**: checks, candidates, two downloads of one
version into one temporary file, skips and installation, on a desktop and on
Android.

## Runs

| run | what it shows |
|---|---|
| `hub_store` | the seven invariants of the store, `ProtectedSurvive`, and every step is a step of HubLog or none |
| `delivery` | `NoSkip`, `ConfirmedWereTaken`, `ItemOrder`; as long as cycles run, every recorded event is confirmed or dropped and every retained event received or pruned (`EventuallyDelivered`) |
| `hub_service` | MCHub: quota, watches, record list, directory. `HubSound`, `HubSteps`; every upload there is room for is stored and every change pulled (`EventuallyServed`) |
| `client_sync` | MCClientSync: pairing, membership, receiving, LAN peer, cloud link. `SyncSound`, `RemovalsHold`, `DeletionFirst`, `ConnectionsSound`; attempts end, ledgers agree, what is received is applied, ends of connections are noticed, a device that synchronises is linked (`EventuallySettled`) |
| `client_local` | MCClientLocal: capture, history, storage, lifecycle, item state, configuration, thumbnails, sizes. Nine invariants, `TakesOnlyIdle`; data comes below its limit, idle windows go, requests arrive, changes are sent, sizes become known (`EventuallyTidy`) |
| `client_work` | MCClientWork: transfer, outbox, retention, icons, updates, preview, search keys, imports. `FlowSound`, `DesktopSound`, `SensitiveStays`; what waits is sent, an update is offered, a handoff ends (`EventuallyFlows`) |
| `delivery_stuck` | violated: a bootstrap whose target nothing can reach |
| `item_reappears` | violated: a deleted item is written again |
| `link_rows` | violated: rows of a group the device was removed from |
| `retention_lost` | violated: a snapshot whose answer was lost is not corrected |
| `keys_hidden` | violated: keys stay captured with no window |
| `settings_torn` | violated: two writers of one temporary file |

Each property of a passing run has a mutant of the code that breaks it, listed
in `PROJECT.json`: operators whose comment begins with "Mutant" in the modules.

Deadlock is not checked: with its bounds used up an idle system has nothing to
do. `EventuallyDelivered` and the other liveness properties say what deadlock
freedom would, and more.

## Bounds

The interesting cases need few actors, and the instances are chosen to contain
them; the theorems cover the rest.

* `hub_store`: two streams can race for one blob and a third adds nothing to the
  reservations, which are sums; the events share a blob, share an origin
  sequence and lack an identity, so every way of accepting, protecting and
  releasing occurs; the quota is hit by uploads, by events and by both. Cursors
  are only compared: as many as events, plus one for an event accepted twice.
* `delivery`: two events of one item for the order, a third of another device
  for gaps, one failure, since a cycle starts over after any; with `MaxCursor` 4
  a pruned event is accepted again.
* `hub_service`: one group and two uploads of different size against a limit
  between the two; two watch streams in two slots, two commits and one failure;
  three records in pages of two; the removed device and another, two marks of
  time.
* `client_sync`: two devices, two attempts (one may meet the other's remains),
  one invitation and one trouble; two members and the Hub with three times, so a
  removal, a restoration and a removal again; an item with content, a deletion
  and an invalid event, from the Hub and from a peer, in pages and batches of
  one; three connections and two stimuli; two Hubs, two groups, four links.
* `client_local`: the contents cover rich text and its plain form, files, an
  image and its resampled form; four records, of which two share a picture, one
  has none and one has an attachment; two moves, exports or imports, one edit of the
  preferences at any point of them, one failure; two threads with a show and two hides; two devices with one field and three operations; a file
  with two versions and two askers; an update, an import and a reset of the
  settings at once; two directories and two walks of one record by the watcher.
* `client_work`: three events of two items, two blobs of which one is shared, two
  upload slots and one permit; a sensitive and an oversized document; two
  flagged items of which one has an event that cannot be decoded; two icons in
  batches of one; three packages of two versions, one of them published twice;
  two previewed items at two corners of the screen; two sessions and a buffer of
  one key; four old rows with a duplicate, a favourite and a secret; two
  archives, one of another computer and one of an older version.

Every action fires in a passing run. The runs with a violation use the smallest
instance that shows it.

## Fairness

Weak fairness is asked of the steps the program takes by itself, and of nothing
else: not of the user, of other devices, of failures, timeouts of a network that
works, pruning, or the handling of abandoned requests. Failures are bounded, for
with requests that fail for ever nothing can be promised.

* `delivery`: each device's own steps and the Hub's answers.
  `cloud_transfer_worker` runs cycle after cycle (woken by changes, a timer and
  `has_more`), every request has a timeout, and the Hub answers under a lock
  held for a bounded time.
* `hub_service`: the cleanup worker's steps, its short sleep after a failure (the
  hourly interval is not counted on), clients that retry and finish uploads; the
  Hub's handlers, the client's streams and its transfer worker.
* `client_sync`: the two ends of a request, the cycles that learn of removals,
  the pass of received events with its timers, the actor and the watchers of
  connections, the cloud worker, its cycles and queries.
* `client_local`: the cleanup that runs every five minutes and after a capture,
  whoever has the files lock, mounting pages and timers, commands that were
  called, the walks over directories. `Fairness` of ItemState has one strong
  condition: encrypting and recording a content eventually succeeds, since it is
  tried again and again while other operations come in between.
* `client_work`: rounds and uploads, the outbox worker, the cycle that fetches
  plans and registers flags, the publisher of icons, checks and the wanted
  download, the timeout of a handoff.

## Findings

Where the program disagrees with what it says of itself. Each is a run that
TLC ends with a counterexample.

* **A bootstrap may stay pending** (`delivery_stuck`, `BootstrapEnds`). The
  target of a bootstrap is the pruned floor or the last cursor of the log, but
  an empty page leaves the client's cursor where it is. If everything up to the
  target is pruned (cursor 0 is exempt from the gap check), or if only protected
  events below the floor remain, no page brings the cursor to the target before
  some device records a new event. Until then every local cleanup returns at
  once, which `docs/releases/1.1.154.md:7` says cannot happen.
* **A deleted item is written again** (`item_reappears`, `DeletedIsGone`).
  Whether content is suppressed is decided once, when its presence is merged
  (`manager.rs:4330`). A deletion made while its attachments are fetched, or not
  sent yet for an item whose presence never had a version, does not stop the
  row from being written.
* **Rows of a group the device was removed from** (`link_rows`,
  `StoredIsOfSpace`). `leave_after_removal` (`manager.rs:4129`) clears the
  group's rows without `cloud_cycle_lock`; a cycle that read the group before
  stores cursor, bootstrap state and events after it, and joining another group
  without a current one clears nothing: the new group starts behind the old
  group's cursor.
* **A snapshot whose answer was lost is not corrected** (`retention_lost`,
  `ReportedIsProtected`). `refresh_cloud_retention` (`manager.rs:3674`) compares
  the flags with the last acknowledged snapshot. Flags restored after a lost
  answer are equal to it, so nothing is sent and the Hub goes on protecting
  what the lost request said.
* **Keys stay captured with no window** (`keys_hidden`, `HiddenReleases`).
  `show_window` shows the window and enables the hook in two steps
  (`window/windows.rs:141`); a hide on the main thread between them leaves the
  hook on.
* **Two writers of one temporary file** (`settings_torn`, `FileWhole`). `reset`
  and `replace_from_file` write without the lock that `update` holds
  (`settings/store.rs:74`): one truncates the text the other renames.

## What the properties leave out

Exceptions the properties have to make, because the program does not promise
more. Each was met while modelling; where a definition is named, it states the
stronger claim and TLC refutes it on a small instance, without a run of its own.

**Hub and directory.** `ListDevices` refreshes the caller's row outside the
lock, so a device removed meanwhile is listed again (`AbsentWhenRemoved`,
Hub repository:196). The watch of a removed device stays registered until its
next frame. At the end of the record list the handler may still see the cursor
of the last rendering. The digest of an upload is checked, its blob may be
reclaimed between the upload and the completion of the event that needs it.

**Cloud delivery.** A gap inside a cycle moves the stored target while the
cycle compares with the one it started from: a bootstrap may be marked complete
below its target (`BootstrapReachesTarget`, `manager.rs:2746`). An event that
could not be sent to a LAN peer blocks those behind it and keeps showing
"queued" until the next cycle, and the status of an item depends on the order
of its events. `EventuallyReleased` (`manager.rs:6446`): a reply that came from
old settings ends the backfill of icons or of retention identities early.

**Item state.** Merging takes the row's own values as base, so fields are not
independent (`FieldsIndependent`, `db/sync_item_state.rs:503`), the visible row
and the merged fields may differ (`ShownIsMerged`, `db/items.rs:311`), and of two
versions of one device the later need not win after a failed attempt
(`NewestWins`, `manager.rs:2041`). `reconcile_item_timestamps` may set the time
of a row back, and so may merging a remote copy: what was sent of an item is
then staged again (`SentOnce` of Outbox leaves such items out).

**Peers and groups.** Pushing to a peer may stay suspended while its connection
works, and a late `mark_online` may follow the close. Membership assumes clocks
that agree; a removal racing an approval may undo it. Leaving a group can be cut
between its steps and keep rows; the cloud cursor does not say which Hub it is
of; a late query may put an old group back into the session.

**Receiving.** A restart forgets the timers of deferred events until something
else wakes the pass; finding a record and inserting it are two transactions; the
events of a removed origin are filtered while the cursor moves past them.

**Capture and history.** An observation restored after a coalesced event marks
older files as current; a failed write of text or files leaves the guard armed; a
write that lands between an observation and its reading is taken by the earlier
event. Files captured by path are stored without the files lock. A pending
bootstrap suspends local cleanup for as long as it lasts. A thumbnail can be
returned half made, or stay so after a crash (`NeverHalf`, `clipboard/storage.rs:212`),
be left without its record when removal races its making, and nothing says that a
waiting thumbnail gets a permit in bounded time. An upload whose walk was
cancelled marks the directory "over the limit" until its next revision.

**Storage and settings.** A failed or interrupted overwriting import leaves a
partial database and a closed pool; an unplugged custom directory makes the
manifest point to the default one for good; edits between the copy and the
switch of a move are lost. When a store cannot be led to the new directory after
the manifest and the database switched (`commands/storage.rs:237`), nothing is
gone back on: edits and images are written to the old directory until the next
move or start, which then does not find them; when the way back of a move fails
as well, the database stays closed. A reset and an import, or two resets, share
`settings.json.tmp` as an update does with either (`met` of ConfigFiles); an
export copies the database while a checkpoint may run, and counts in its
manifest may differ. After `replace_from_file` the settings in memory are those
from before, and `set_group` changes the identity in memory before a write that
may fail. A copy made here looks for its content hash alone (`db/items.rs:110`)
and gets it as its identity, so it may join a file received from a sender that
had copied it from the same path: two records then have one identity
(`CopiedAnyway` of Backups), and never a third. Merging a backup leaves
truncated copies in place, reports a failure after its commit when a later step
fails, and does not merge the favourite of a duplicate; two imports of the old
application mark everything as new.

**Desktop.** A late timer's cancellation may take the timer of the next hide; a
window may be destroyed between its lookup and its use; a request may be lost
while a window is built and not mounted. A preview's show that passed its check
when suppression begins leaves it visible, and overlapping shows leave state and
page different. A second handoff session may begin beside the first, and a key
that arrives after the hook is off but before the replay goes ahead of the
replayed ones. An update's digest is of what arrived, not of the file; an older
download that ends late removes the newer package. An icon that is fetched
before its application's row is there, or whose row goes before its item is
inserted, does not arrive (`IconArrives`).

## Proofs

Eight modules hold the theorems. They hold for any sets of events, devices,
items and so on (finite where they are counted), any sizes, quotas and limits,
and every value of the bounds. There is one lemma or one step per action; the
case split on `Next` combines them.

**HubStoreProofs.** `Invariant`: `IInv`, the conjunction of the safety properties
with `UploadsSound`, is inductive. The strengthening says that a stream past
its rename has its file on disk and that an upload not charged is of a stored
blob: without the first, `RecordBlob` could record a blob without a file;
without the second, dropping a reservation could free bytes of another. The
corollaries are the single properties, and `FavouritesKept` the action property,
which needs the invariant only for the type of the protections. `RefinesLog`
proves `Spec => ImplementsLog`; `Cleanup` is the only step that needs the
invariant: the floor reaches the last deleted event. The lemmas at the top say
how cardinalities change when a set grows or shrinks, which is what the
counters are compared with.

**DeliveryProofs**.

* `TypeCorrect`, with `RoundsLeft`: a cycle about to start a round has one left.
* `NothingSkipped`. `SkipInv`: every cursor handed out is at most the last one
  issued, the exchanges of a cycle use the stored cursor, a plan starts below
  every retained event, and a received page together with what the device has
  holds everything up to the page's end. The last needs `PageComplete` (a page
  is a prefix of the log above the cursor). All a step of anyone else does to
  the log is `LogGrows`: new events come above the last issued cursor, and old
  ones keep theirs or go. `Frame` then keeps the position of every other device.
* `ConfirmedTaken`. `TakenInv` adds that the log and every page hold only what
  the Hub accepted, and so does a batch once it is answered.
* `ItemsInOrder`. `OrderInv` says of each device that it records in sequence
  order, that the queue holds every pending event before one it holds
  (`QueueClosed`), and that nothing pending precedes, within its item, an event
  that was submitted, where "submitted" counts the log, the batch in flight and
  the abandoned requests.

**LocalProofs** begins with the states of an item, of `ItemState` by itself:
`ValuesAreEvents`, `VersionsAreUnique` and
`OperationsInOrder` rest on `ValueInv` (a sequence is handed out with the event
that uses it, `EventsCounted`; a job is of the state its device is in, or of an
older revision, `JobFresh`) and on `OrderInv` (the operations not yet sent come
after those that were, in the table and in the job: `PendingKnown`, `JobFirst`,
`EventsFirst`). A change between the steps of a job bumps the revision, so the job's
commit leaves the field dirty: that is the case the invariant is for.

It then combines the parts of `client_local`.

* `FingerprintInv`: `CaptureShape`, and while no change of the clipboard is
  unseen (`news = 0`) what is remembered is true and so is the result of every
  read under way. `FingerprintIsTrue` is the quiet case.
* `ListShape` with `CaptureShape`: the guard and the recent images are sequences of
  contents, the latter no longer than its limit, after entries are appended,
  expire, are recognized or are taken back (`WithoutKeeps`, `RemoveFirstKeeps`).
  With the shapes of the other parts it gives `LocalTyped`.
* `HistoryInv`: beside `PayloadsSurvive` itself, what a writer is about to record
  is on disk, and the limit evicts only while the data is above its target.
  `PayloadsNeverLost`.
* `WindowInv`: unless calls have crossed, a window that shows has no timer that
  still counts, and one being destroyed is hidden and nothing guards it;
  `TakenIsIdle` follows.
* From **FilesProofs**: `StorageInv` (what each step of a move, import or
  replacement may find: the place the manifest names holds the data, and each
  store writes there or is still to be led there, `InPlace`; the history,
  `HistoryKept`, and the preferences, `PrefsKept`, are whole; each unless a drive
  was unplugged, an import broke off, two writes overlapped or one went astray:
  `DataFollowsManifest`); `ConfigInv` (one writer of the temporary file unless two have met, and the
  identity is what was written: `ConfigurationKept`); `ThumbInv` and `SizeInv` (a
  flight is of the version it was asked for, a walk counts the files of the
  revision it began with: `DerivedMatches`).

**HubProofs** combines the parts of `hub_service`: `QuotaInv` (the counter is the
number of active uploads, and a target put off has a wake behind it:
`UploadsCounted`, `PutOffWakes`); `WatchInv` (a stream that shows a watermark
behind the Hub's has an announcement in its channel: `Behind`); `PagingInv`
(what each answer under way was asked for, `Answers`; one of them is current,
`OneCurrent`; and nothing retained above the last page is missing,
`ShownAbove`); `DirInv` (a cursor covers what was stored for the device, and who
holds the lock has checked what it acts on: `Covered`, `LockedRight`).

**SyncProofs** combines the parts of `client_sync`: `PairInv` (the phases the two
ends of an attempt may be in together, `EndsFit`, with the table of requests and
the invitations: `TableRight`, `InvitationsRight`); `MemberInv` (no mark is newer
than the clock, and routes lead to whoever is not removed by the ledger:
`RoutesHold`); `RecvInv` (inbox, pages, and at each stage of the pass what it has
read and what it may still miss, `PassRight`, `PassAfterDeletions`, `ItemsRight`);
`LanInv` (a request for a cycle has a cause that has not been served, `Caused`);
`LinkInv` (what a session has registered was registered over that link, and a
cycle's space is of the settings it read: `Registrations`, `CycleOfSpace`).

**WorkProofs** combines the parts of `client_work`. Of the sending half `FlowIsSound` rests on `FlowInvariant`, the conjunction of

* `TransferInv`: what is not confirmed of a round is its queue less what is done
  (`QueueRight`); what is submitted is of that, and once accepted the Hub has it
  (`SubmissionRight`); the earlier events of a submitted event's item are at the
  Hub or in the same request (`SubmittedInOrder`);
* `OutboxInv`: times are told apart by whether they are *known* to an item
  (passed by the clock, or merged from elsewhere); a row carries known times and
  its links rise with their orders (`RowRight`), what was sent of a time a row
  still carries is linked (`SentRight`), and what is being built is the first
  entry of its item, may be sent, and was not sent before (`BuildRight`). The order
  of links and what follows from it except runs in which a time was set back.
  `SensitiveKept` follows: a sensitive copy leaves when the setting allowed it
  at the time it was built, or when it was shared;
* `RetentionInv`: no generation is newer than the last one given
  (`NothingAhead`), a request that is not acknowledged yet is the newest of all
  (`FreshIsNewest`), and what was acknowledged is what the Hub holds unless an
  answer went unheard (`AcknowledgedHolds`);
* `IconInv`: a sender queues only icons that were encrypted, and unless the
  publisher's clearing raced a new entry the icon of an event is at the Hub or
  queued (`Cared`); a receiver shows the icon its row names, and its row is at
  least as new as its copies.

Of the desktop half `DesktopIsSound` rests on `DesktopInvariant`, the conjunction
of the invariants of **DesktopProofs**:

* `UpdateInv`: on a desktop a package kept for the candidate is of its version.
  On Android versions share their files: unless a candidate was replaced while
  its download ran, one download runs, it is the marked candidate's
  (`OneDownload`), the temporary file is its own and whole once written
  (`TemporaryRight`), and a file under its final name is one whole package of
  that version (`PackageRight`);
* `PreviewInv`: request numbers only grow, and no task or state is of a number not
  yet given (`NumbersGiven`); one thread shows or hides the clipboard window and
  suppresses the preview meanwhile (`OneWindows`). Unless requests overlapped or
  slipped past each other, one thread asks, it is the latest, and nothing older
  sleeps or is presented (`OneAsks`); while the clipboard window goes a visible
  preview is about to be hidden (`TakenBack`); and what the state names is
  presented, or a thread is still on its way to it (`Presented`). `PanelIsBeside`
  is arithmetic about the clamping of the panel, for every screen and panel: it
  keeps the margin on the left and at the top always, and on the right and at the
  bottom if the panel fits the screen at all;
* `KeyInv`: every key has its number when typed, so that what reached the search,
  what is being replayed and what is held back are three growing sequences, one
  before the other (`KeysOrdered`), and none has a key of the future
  (`KeysCounted`); while the window shows the list has its keys, or a task, an
  undo or an edit under way gives them back (`NavDue` in `HookRight`). The order
  excepts runs in which replays raced or calls overlapped, as the property does;
* `ImportInv`: an import that runs holds the files lock (`LockHeld`); the row it is
  at makes a record whose picture is there, and what was found of it is so still
  unless the user changed the history meanwhile (`RowRight`); rows done are in the
  history or were deleted there since (`RowsDone`);
* `BackupInv`: a history names no path of the day, has everything once (a copy made
  here beside what was received under the same identity excepted) and has the
  files it refers to (`HistoryRight`), a backup has what its rows refer to, under
  the root they name (`BackupRight`), what is being packed or merged is such a
  backup, and a row that was merged is there or was taken since (`NotLost`).
  A merge takes the rows one after the other, as a function of how many are
  taken: what it does to all of them is shown by a least number of rows that is
  a counterexample.

`WorkTyped` takes the shapes from the same two invariants. TLC found both
invariants to hold in all 780 thousand states of the run, before they were proved.

Lemmas about sets of numbers (`GreatestOf`, `Greatest`, `Smallest`) say that a
finite one has a greatest and a least element, which the orders of links and
entries, the best database and the merge need. They follow from the well-founded
order on finite subsets, for the library's induction takes an operator as a
parameter.

In a composition the parts share nothing: `part` is fixed, and a step of one
leaves the variables of the others alone. So the invariant of a part is
inductive over the composition with its own steps and a frame argument for all
others, and the conjunction follows.

**Assumptions.** What the proofs rest on are the assumptions named in the
modules that declare the constants, which TLC evaluates in the runs: that sets
that are counted are finite, that bounds are numbers, that the values for "none"
are not among the others, what an event is, and that a content of the old history is
of one kind. Two are of substance. `BackupAssumption` says what the rows of a backup
made elsewhere are like (`RowFits`), which `BackupInv` shows of every backup made here.
`DeliveryAssumption` contains that no device gives two events the same origin
sequence, which `VersionsAreUnique` proves of the module that makes them.

### What stays with TLC

* Liveness: `EventuallyDelivered`, `EventuallyServed`, `EventuallySettled`,
  `EventuallyTidy`, `EventuallyFlows`. The prover knows neither `ENABLED` nor fairness.
* Recursive definitions, for every input: the library's induction theorems take an
  operator as a parameter, which the provers cannot instantiate. Where a proof
  needs such a fact it is shown by a least counterexample (the rows of a merge), or
  the definition is a function of places and not recursive (`Without` of Capture).

Every other invariant and action property that a passing run checks is stated by
a theorem.

## Not modelled

* The repair of confirmations an older version left behind (`manager.rs`
  3729–3778, client repository 1101–1186) and Hubs without bounded retention or
  with the one-shot watch: code for other versions of the other side.
* The status of channels as it is shown (`manager.rs` 1437–1553): a view.
* The arithmetic of frames (`limit_sync_request`, `limit_sync_response`):
  the modules let a page end wherever it may.
* Cryptography, key storage, the layout of archives: pure computations.
* Path selection and relays, discovery itself: the network library's.
* Queries, groups and the search index; validation of settings; positions of
  windows, macOS panels, shortcuts, menus, autostart; the Hub's start-up; the user
  interface and the Android bridge: they hold no state that what is modelled
  relies on.

## Plan

The safety properties are proved. What would say more: one module of the visible
row of an item and its row of merged fields, which different paths write
(`db/items.rs`), with what ties the two together; the repair of old confirmations;
and the Android bridge.
