-------------------------------- MODULE Icons --------------------------------
(* The icons of the applications that contents were copied from. An event refers to an icon that is  *)
(* uploaded after it: the queue of the sender and its worker (sync/manager.rs, sync/repository.rs), *)
(* the Hub (service.rs), and the application row of the receiver, its alias and the worker that      *)
(* fetches what is missing (sync/manager.rs, db/apps.rs, clipboard/app_store.rs).                    *)
EXTENDS Naturals, FiniteSets

CONSTANTS
    SourceEvent,    \* events of one source application (numbers: their time and revision)
    Icon,           \* plaintext hashes, each with its encrypted blob
    NoIcon,
    IconOf,         \* [SourceEvent -> Icon \cup {NoIcon}]: the icon when the event was recorded
    IconBatch,      \* MAX_SOURCE_ICON_UPLOADS_PER_BATCH
    MaxMishaps,     \* bounds: failures and restarts,
    MaxRemovals     \* and deletions at the receiver, the Hub and the sender

ASSUME IconAssumption ==
    /\ SourceEvent \subseteq Nat \ {0} /\ IsFiniteSet(SourceEvent)
    /\ NoIcon \notin Icon /\ IconOf \in [SourceEvent -> Icon \cup {NoIcon}]

VARIABLES
    recorded,       \* the sender's events, the attachments of which are still wanted
    delivered,      \* sync_deliveries of the Hub
    exchange,       \* exchange_ready_events
    iconQueue,      \* sync_source_icon_uploads
    encrypted,      \* the sender's sync-blobs
    publisher,      \* source_asset_worker of the sender, while it publishes
    hubIcons,       \* the Hub's events and blobs
    frames,         \* watch frames on their way to the receiver: the Hub's cursor
    pulling,        \* the receiver's watermark, its wake, and what it applies
    sourceApp,      \* clipboard_apps and source_app_sync_aliases of the receiver
    copies,         \* the receiver's items that refer to the row
    iconFiles,      \* AppIconStore
    refresher,      \* source_asset_worker of the receiver, while it refreshes
    mishaps         \* history: the numbers of steps taken against the bounds, and a race of two cleanups

iconVars == <<recorded, delivered, exchange, iconQueue, encrypted, publisher, hubIcons, frames,
              pulling, sourceApp, copies, iconFiles, refresher, mishaps>>

NoApp == [here |-> FALSE, stamp |-> 0, ref |-> NoIcon, shown |-> NoIcon]
NoExchange == [at |-> "idle", event |-> 0]
Sleeping == [at |-> "asleep", batch |-> {}]
Resting == [at |-> "asleep", icon |-> NoIcon]

IconTypeOK ==
    /\ recorded \subseteq SourceEvent /\ delivered \subseteq SourceEvent
    /\ exchange.at \in {"idle", "asked", "answered", "queued"} /\ exchange.event \in SourceEvent \cup {0}
    /\ iconQueue \subseteq Icon /\ encrypted \subseteq Icon
    /\ publisher.at \in {"asleep", "listed", "stored"} /\ publisher.batch \subseteq Icon
    /\ hubIcons.events \subseteq SourceEvent /\ hubIcons.blobs \subseteq Icon
    /\ pulling.inbox \subseteq SourceEvent /\ copies \subseteq SourceEvent
    /\ sourceApp.ref \in Icon \cup {NoIcon} /\ sourceApp.shown \in Icon \cup {NoIcon}
    /\ iconFiles \subseteq Icon
    /\ refresher.at \in {"asleep", "fetching", "attaching"} /\ refresher.icon \in Icon \cup {NoIcon}

IconInit ==
    /\ recorded = {} /\ delivered = {} /\ exchange = NoExchange
    /\ iconQueue = {} /\ encrypted = {}
    /\ publisher = [at |-> "asleep", batch |-> {}, awake |-> TRUE, retry |-> FALSE]
    /\ hubIcons = [events |-> {}, blobs |-> {}, cursor |-> 0]
    /\ frames = {}
    /\ pulling = [seen |-> 0, awake |-> FALSE, taken |-> {}, inbox |-> {}, storing |-> 0]
    /\ sourceApp = NoApp /\ copies = {} /\ iconFiles = {}
    /\ refresher = [at |-> "asleep", icon |-> NoIcon, awake |-> TRUE]
    /\ mishaps = [failed |-> 0, removed |-> 0, raced |-> FALSE]

senderVars == <<recorded, delivered, exchange, iconQueue, encrypted, publisher>>
receiverVars == <<pulling, sourceApp, copies, iconFiles, refresher>>

Mishap(field, bound) == mishaps[field] < bound /\ mishaps' = [mishaps EXCEPT ![field] = @ + 1]
IconsOf(events) == {IconOf[e] : e \in events} \ {NoIcon}

-----------------------------------------------------------------------------
(* The sender *)

\* build_source_app_ref encrypts the icon beside the event.
RecordEvent(e) ==
    /\ e \notin recorded \cup delivered /\ \A f \in SourceEvent : f < e => f \in recorded \cup delivered
    /\ recorded' = recorded \cup {e}
    /\ encrypted' = encrypted \cup IconsOf({e})
    /\ UNCHANGED <<delivered, exchange, iconQueue, publisher, hubIcons, frames, receiverVars, mishaps>>

Ask(e) ==
    /\ exchange.at = "idle" /\ e \in recorded \ delivered
    /\ exchange' = [at |-> "asked", event |-> e]
    /\ UNCHANGED <<recorded, delivered, iconQueue, encrypted, publisher, hubIcons, frames, receiverVars, mishaps>>

\* The Hub stores the event: its optional attachment need not be there.
AcceptEvent ==
    /\ exchange.at = "asked"
    /\ exchange' = [exchange EXCEPT !.at = "answered"]
    /\ IF exchange.event \in hubIcons.events THEN UNCHANGED hubIcons
       ELSE hubIcons' = [hubIcons EXCEPT !.events = @ \cup {exchange.event}]
    /\ UNCHANGED <<recorded, delivered, iconQueue, encrypted, publisher, frames, receiverVars, mishaps>>

ExchangeLost ==
    /\ Mishap("failed", MaxMishaps)
    /\ exchange.at # "idle" /\ exchange' = NoExchange
    /\ UNCHANGED <<recorded, delivered, iconQueue, encrypted, publisher, hubIcons, frames, receiverVars>>

\* enqueue_source_icon_uploads, before the delivery is marked.
EnqueueIcons ==
    /\ exchange.at = "answered"
    /\ exchange' = [exchange EXCEPT !.at = "queued"]
    /\ iconQueue' = iconQueue \cup IconsOf({exchange.event})
    /\ UNCHANGED <<recorded, delivered, encrypted, publisher, hubIcons, frames, receiverVars, mishaps>>

MarkDelivered ==
    /\ exchange.at = "queued"
    /\ delivered' = delivered \cup {exchange.event}
    /\ exchange' = NoExchange
    /\ publisher' = [publisher EXCEPT !.awake = TRUE]
    /\ UNCHANGED <<recorded, iconQueue, encrypted, hubIcons, frames, receiverVars, mishaps>>

\* live_sync_blob_ids.
LiveBlobs(events) == IconsOf(events) \cup iconQueue

\* The items of delivered events are deleted and the cleanup, which holds the cycle's lock, reclaims
\* the events and the files nothing refers to.
ReclaimBlobs(e) ==
    /\ Mishap("removed", MaxRemovals)
    /\ exchange.at = "idle" /\ e \in recorded \cap delivered
    /\ recorded' = recorded \ {e}
    /\ encrypted' = encrypted \cap LiveBlobs(recorded \ {e})
    /\ UNCHANGED <<delivered, exchange, iconQueue, publisher, hubIcons, frames, receiverVars>>

\* publish_pending_source_icons: woken, or when its retry is due.
ListIcons(batch) ==
    /\ publisher.at = "asleep" /\ (publisher.awake \/ publisher.retry)
    /\ batch \subseteq iconQueue /\ Cardinality(batch) <= IconBatch
    /\ Cardinality(iconQueue) <= IconBatch => batch = iconQueue
    /\ Cardinality(iconQueue) > IconBatch => Cardinality(batch) = IconBatch
    /\ publisher' = [publisher EXCEPT !.at = IF batch = {} THEN "asleep" ELSE "listed", !.batch = batch,
                                      !.awake = FALSE, !.retry = FALSE]
    /\ UNCHANGED <<recorded, delivered, exchange, iconQueue, encrypted, hubIcons, frames, receiverVars, mishaps>>

\* PutManagedSourceIcon of the batch.
PublishIcons ==
    /\ publisher.at = "listed" /\ publisher.batch \subseteq encrypted \cup hubIcons.blobs
    /\ hubIcons' = [hubIcons EXCEPT !.blobs = @ \cup publisher.batch]
    /\ publisher' = [publisher EXCEPT !.at = "stored"]
    /\ UNCHANGED <<recorded, delivered, exchange, iconQueue, encrypted, frames, receiverVars, mishaps>>

\* Any failure, a missing file among them, keeps the whole batch for the retry.
PublishFails ==
    /\ publisher.at = "listed"
    /\ IF publisher.batch \subseteq encrypted THEN Mishap("failed", MaxMishaps) ELSE UNCHANGED mishaps
    /\ publisher' = [publisher EXCEPT !.at = "asleep", !.batch = {}, !.retry = TRUE]
    /\ UNCHANGED <<recorded, delivered, exchange, iconQueue, encrypted, hubIcons, frames, receiverVars>>

\* complete_source_icon_uploads; a full batch is followed by the next.
CompleteIcons ==
    /\ publisher.at = "stored"
    /\ iconQueue' = iconQueue \ publisher.batch
    /\ publisher' = [publisher EXCEPT !.at = "asleep", !.batch = {},
                                      !.awake = @ \/ Cardinality(publisher.batch) = IconBatch]
    /\ UNCHANGED <<recorded, delivered, exchange, encrypted, hubIcons, frames, receiverVars, mishaps>>

\* The sender is restarted: its workers begin with a wake.
RestartSender ==
    /\ Mishap("failed", MaxMishaps)
    /\ exchange' = NoExchange
    /\ publisher' = [at |-> "asleep", batch |-> {}, awake |-> TRUE, retry |-> FALSE]
    /\ UNCHANGED <<recorded, delivered, iconQueue, encrypted, hubIcons, frames, receiverVars>>

\* The Hub's cleanup takes an event, and the blobs no event refers to.
HubForgets(e) ==
    /\ mishaps.removed < MaxRemovals /\ e \in hubIcons.events
    /\ mishaps' = [mishaps EXCEPT !.removed = @ + 1, !.raced = @ \/ publisher.at = "stored"]
    /\ hubIcons' = [hubIcons EXCEPT !.events = @ \ {e}, !.blobs = @ \cap IconsOf(hubIcons.events \ {e})]
    /\ UNCHANGED <<senderVars, frames, receiverVars>>

-----------------------------------------------------------------------------
(* The Hub, as a receiver sees it while another device sends *)

\* An event of another device; the watchers are told the new cursor.
OtherSends(e) ==
    /\ e \notin hubIcons.events
    /\ hubIcons' = [hubIcons EXCEPT !.events = @ \cup {e}, !.cursor = @ + 1]
    /\ frames' = frames \cup {hubIcons.cursor + 1}
    /\ UNCHANGED <<senderVars, receiverVars, mishaps>>

\* The upload of its icon: the watchers are told, the cursor is the same.
OtherPublishes(icon) ==
    /\ icon \in IconsOf(hubIcons.events) \ hubIcons.blobs
    /\ hubIcons' = [hubIcons EXCEPT !.blobs = @ \cup {icon}]
    /\ frames' = frames \cup {hubIcons.cursor}
    /\ UNCHANGED <<senderVars, receiverVars, mishaps>>

-----------------------------------------------------------------------------
(* The receiver *)

\* advance_cloud_watch_watermarks: a frame that moves no watermark is dropped.
Moved(frame) == frame > pulling.seen

HeedFrame(frame) ==
    /\ frame \in frames /\ frames' = frames \ {frame}
    /\ pulling' = IF Moved(frame) THEN [pulling EXCEPT !.seen = frame, !.awake = TRUE] ELSE pulling
    /\ refresher' = [refresher EXCEPT !.awake = @ \/ Moved(frame)]
    /\ UNCHANGED <<senderVars, hubIcons, sourceApp, copies, iconFiles, mishaps>>

Pull ==
    /\ pulling.awake /\ pulling.inbox = {}
    /\ pulling' = [pulling EXCEPT !.awake = FALSE, !.inbox = hubIcons.events \ pulling.taken,
                                  !.taken = @ \cup hubIcons.events]
    /\ refresher' = [refresher EXCEPT !.awake = TRUE]
    /\ UNCHANGED <<senderVars, hubIcons, frames, sourceApp, copies, iconFiles, mishaps>>

\* Events are applied in any order (a failed one is retried): the newest wins.
NewerSource(e) == e > sourceApp.stamp

\* resolve_synced_app: the row and the alias in one transaction, before the item.
ResolveSource(e) ==
    /\ pulling.storing = 0 /\ e \in pulling.inbox
    /\ pulling' = [pulling EXCEPT !.storing = e]
    /\ sourceApp' = IF ~sourceApp.here \/ NewerSource(e)
                    THEN [here |-> TRUE, stamp |-> e, ref |-> IconOf[e],
                          shown |-> IF IconOf[e] \in iconFiles THEN IconOf[e] ELSE NoIcon]
                    ELSE sourceApp
    /\ UNCHANGED <<senderVars, hubIcons, frames, copies, iconFiles, refresher, mishaps>>

\* The item is written, unless its application was deleted meanwhile: then it is tried again.
StoreCopy ==
    /\ pulling.storing # 0
    /\ IF sourceApp.here
       THEN /\ copies' = copies \cup {pulling.storing}
            /\ pulling' = [pulling EXCEPT !.storing = 0, !.inbox = @ \ {pulling.storing}]
            /\ refresher' = [refresher EXCEPT !.awake = @ \/ IconOf[pulling.storing] # NoIcon]
       ELSE pulling' = [pulling EXCEPT !.storing = 0] /\ UNCHANGED <<copies, refresher>>
    /\ UNCHANGED <<senderVars, hubIcons, frames, sourceApp, iconFiles, mishaps>>

DeleteCopies ==
    /\ Mishap("removed", MaxRemovals)
    /\ copies # {} /\ copies' = {}
    /\ UNCHANGED <<senderVars, hubIcons, frames, pulling, sourceApp, iconFiles, refresher>>

\* delete_unreferenced_apps; the alias goes with the row.
DeleteApp ==
    /\ Mishap("removed", MaxRemovals)
    /\ sourceApp.here /\ copies = {}
    /\ sourceApp' = NoApp
    /\ UNCHANGED <<senderVars, hubIcons, frames, pulling, copies, iconFiles, refresher>>

\* refresh_source_app_assets lists what is not attached, once per wake.
ListAssets ==
    /\ refresher.at = "asleep" /\ refresher.awake
    /\ refresher' = IF sourceApp.ref # NoIcon /\ sourceApp.shown # sourceApp.ref
                    THEN [at |-> "fetching", icon |-> sourceApp.ref, awake |-> FALSE]
                    ELSE [refresher EXCEPT !.awake = FALSE]
    /\ UNCHANGED <<senderVars, hubIcons, frames, pulling, sourceApp, copies, iconFiles, mishaps>>

\* ensure_source_icon_blob and store_synced_png: cached, or downloaded and verified.
FetchIcon ==
    /\ refresher.at = "fetching" /\ refresher.icon \in iconFiles \cup hubIcons.blobs
    /\ iconFiles' = iconFiles \cup {refresher.icon}
    /\ refresher' = [refresher EXCEPT !.at = "attaching"]
    /\ UNCHANGED <<senderVars, hubIcons, frames, pulling, sourceApp, copies, mishaps>>

\* "remains pending": until the next wake.
FetchFails ==
    /\ refresher.at = "fetching" /\ refresher.icon \notin iconFiles
    /\ IF refresher.icon \in hubIcons.blobs THEN Mishap("failed", MaxMishaps) ELSE UNCHANGED mishaps
    /\ refresher' = [refresher EXCEPT !.at = "asleep", !.icon = NoIcon]
    /\ UNCHANGED <<senderVars, hubIcons, frames, pulling, sourceApp, copies, iconFiles>>

StillReferred(icon) == sourceApp.here /\ sourceApp.ref = icon

\* update_synced_app_icon, if the alias still refers to what was fetched.
AttachIcon ==
    /\ refresher.at = "attaching"
    /\ sourceApp' = IF StillReferred(refresher.icon) THEN [sourceApp EXCEPT !.shown = refresher.icon]
                    ELSE sourceApp
    /\ refresher' = [refresher EXCEPT !.at = "asleep", !.icon = NoIcon]
    /\ UNCHANGED <<senderVars, hubIcons, frames, pulling, copies, iconFiles, mishaps>>

-----------------------------------------------------------------------------
SendStep ==
    \/ \E e \in SourceEvent : RecordEvent(e) \/ Ask(e)
    \/ AcceptEvent \/ EnqueueIcons \/ MarkDelivered

PublishStep ==
    \/ \E batch \in SUBSET Icon : ListIcons(batch)
    \/ PublishIcons \/ CompleteIcons \/ (~(publisher.batch \subseteq encrypted) /\ PublishFails)

OtherStep ==
    \/ \E e \in SourceEvent : OtherSends(e)
    \/ \E icon \in Icon : OtherPublishes(icon)

ReceiveStep ==
    \/ \E frame \in frames : HeedFrame(frame)
    \/ Pull \/ StoreCopy
    \/ \E e \in SourceEvent : ResolveSource(e)

RefreshStep == ListAssets \/ FetchIcon \/ AttachIcon \/ (refresher.icon \notin hubIcons.blobs /\ FetchFails)

\* A device that sends, and one that receives.
IconOutNext ==
    \/ SendStep \/ PublishStep
    \/ PublishFails \/ ExchangeLost \/ RestartSender
    \/ \E e \in SourceEvent : ReclaimBlobs(e) \/ HubForgets(e)

IconInNext ==
    \/ OtherStep \/ ReceiveStep \/ RefreshStep
    \/ FetchFails \/ DeleteCopies \/ DeleteApp

\* Workers that were woken run, what a connection carries arrives, and the other device publishes.
IconInSpec ==
    /\ IconInit /\ [][IconInNext]_iconVars
    /\ WF_iconVars(OtherStep) /\ WF_iconVars(ReceiveStep) /\ WF_iconVars(RefreshStep)

-----------------------------------------------------------------------------
(* Properties *)

\* The icon of an event that counts as delivered is at the Hub or waits in the queue, across every
\* crash between the Hub's answer, the queue and the mark; except that the Hub reclaims it between
\* its upload and the end of its entry in the queue.
IconsNotForgotten ==
    ~mishaps.raced => \A e \in delivered \cap hubIcons.events : IconOf[e] \in hubIcons.blobs \cup iconQueue \cup {NoIcon}

\* What waits in the queue can be uploaded, whatever the local cleanup reclaimed.
QueuedIconsExist == ~mishaps.raced => iconQueue \ hubIcons.blobs \subseteq encrypted

\* The row of an application shows the icon of the newest of its items' events or none, although what was fetched may be an older one's.
ShowsNewest ==
    /\ sourceApp.here => sourceApp.shown \in {NoIcon, sourceApp.ref} /\ sourceApp.ref = IconOf[sourceApp.stamp]
    /\ \A e \in copies : e <= sourceApp.stamp

\* Icons follow their events to the Hub, and a row has those of its newest event.
IconsSound == IconsNotForgotten /\ QueuedIconsExist /\ ShowsNewest

\* What is in the queue gets to the Hub.
IconsPublished == iconQueue = {}

\* A row gets the icon it refers to, once the Hub has it.
IconShown == sourceApp.ref \in hubIcons.blobs => sourceApp.shown = sourceApp.ref

\* A receiver that could not fetch an icon does so after it arrived at the Hub.
IconArrives == []<>IconShown
=============================================================================
