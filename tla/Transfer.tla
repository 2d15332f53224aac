------------------------------ MODULE Transfer ------------------------------
(* The attachments of a device's events on their way to the Hub: the queue of a round             *)
(* (sync/transfer.rs), the uploads that run beside the exchange of events (sync/manager.rs), what   *)
(* an upload does when it stalls (sync/upload.rs), the Hub's side of it (service.rs), and what the  *)
(* delivery of each event is shown as meanwhile (sync/repository.rs).                              *)
(*                                                                                                 *)
(* Delivery takes Ready, the events of a round that may be submitted, as given; here it follows    *)
(* from the uploads.                                                                               *)
EXTENDS Naturals, FiniteSets

CONSTANTS
    Sending,        \* the events to send, in the order of their origin sequence (numbers)
    Payload,        \* the encrypted attachments
    ItemOf,         \* [Sending -> the item of the event]
    Needs,          \* [Sending -> SUBSET Payload]: the blobs of its envelope
    UploadSlots,    \* MAX_CONCURRENT_BLOB_TRANSFERS
    HubSlots,       \* ConnectionLimits.blobs of the Hub
    MaxStalls       \* bound: failures of any kind

ASSUME SendingAssumption ==
    /\ Sending \subseteq Nat /\ IsFiniteSet(Sending)
    /\ Needs \in [Sending -> SUBSET Payload]
    /\ HubSlots \in Nat /\ MaxStalls \in Nat

VARIABLES
    shown,      \* sync_delivery_states, and "confirmed" for sync_deliveries
    round,      \* the round of sync_connection and its TransferQueue
    upload,     \* the stage of the upload task of each blob
    request,    \* the submitted events and what became of the request
    link,       \* is the connection to the Hub open?
    atHub,      \* the blobs and events the Hub stored, and the streams it reads
    stalls

transferVars == <<shown, round, upload, request, link, atHub, stalls>>

NoRound == [on |-> FALSE, killed |-> FALSE, pull |-> FALSE, queue |-> {}, failed |-> {},
            done |-> {}, waiting |-> {}, started |-> {}, stored |-> {}, notices |-> {}]
NoSubmission == [at |-> "none", events |-> {}]

DeliveryState == {"none", "queued", "uploading", "confirming", "error", "confirmed"}
UploadStage == {"none", "asking", "writing", "written", "stored", "broken"}

TransferTypeOK ==
    /\ shown \in [Sending -> DeliveryState]
    /\ round.queue \cup round.failed \cup round.done \subseteq Sending
    /\ round.waiting \cup round.started \cup round.stored \cup round.notices \subseteq Payload
    /\ upload \in [Payload -> UploadStage]
    /\ request.at \in {"none", "sent", "accepted", "refused"} /\ request.events \subseteq Sending
    /\ link \in BOOLEAN
    /\ atHub.blobs \cup atHub.reading \subseteq Payload /\ atHub.events \subseteq Sending
    /\ Cardinality(atHub.reading) <= HubSlots
    /\ stalls \in 0..MaxStalls

TransferInit ==
    /\ shown = [e \in Sending |-> "none"]
    /\ round = NoRound
    /\ upload = [b \in Payload |-> "none"]
    /\ request = NoSubmission
    /\ link = TRUE
    /\ atHub = [blobs |-> {}, events |-> {}, reading |-> {}]
    /\ stalls = 0

ShowState(events, state) == shown' = [e \in Sending |-> IF e \in events THEN state ELSE shown[e]]
SetStage(b, stage) == upload' = [upload EXCEPT ![b] = stage]
Stalling == stalls < MaxStalls /\ stalls' = stalls + 1

\* Not yet confirmed: what pending_origin_events_for_target returns.
Unconfirmed == {e \in Sending : shown[e] # "confirmed"}
Uploading == {b \in Payload : upload[b] # "none"}

-----------------------------------------------------------------------------
(* The queue of a round (TransferQueue) *)

Undecided(r) == r.queue \ (r.failed \cup r.done)

\* events_for_blob.
Requiring(r, b) == {e \in Undecided(r) : b \in Needs[e]}

\* active_events.
ActiveEvents(r) == {e \in Undecided(r) : Needs[e] \cap r.started # {}}

\* Mutants: attachments may still be on their way; an event does not wait for
\* the earlier ones of its item; a failed event does not hold back the later ones.
ReadyAnyhow(r) == {e \in Undecided(r) : \A f \in r.queue \ r.done : ItemOf[f] = ItemOf[e] => f >= e}
ReadyInAnyOrder(r) == {e \in Undecided(r) : Needs[e] \subseteq r.stored}
ReadyPastFailed(r) ==
    {e \in Undecided(r) :
        /\ Needs[e] \subseteq r.stored
        /\ \A f \in Undecided(r) : ItemOf[f] = ItemOf[e] => f >= e}

\* ready_events: the first incomplete event of each item, when all its blobs are stored.
ReadyEvents(r) ==
    {e \in Undecided(r) :
        /\ Needs[e] \subseteq r.stored
        /\ \A f \in r.queue \ r.done : ItemOf[f] = ItemOf[e] => f >= e}

\* next_blob: blobs that only decided events need are skipped.
NextBlobs(r) == {b \in r.waiting : Requiring(r, b) # {}}

\* TransferQueue::new: an event one of whose blobs has no local record fails at once.
BeginRound(lost) ==
    LET failed == {e \in Unconfirmed : Needs[e] \cap lost # {}}
    IN  /\ ~round.on /\ link
        /\ IF lost = {} THEN UNCHANGED stalls ELSE Stalling
        /\ round' = [NoRound EXCEPT !.on = TRUE, !.pull = TRUE, !.queue = Unconfirmed, !.failed = failed,
                        !.waiting = (UNION {Needs[e] : e \in Unconfirmed}) \ lost]
        /\ shown' = [e \in Sending |-> IF e \in failed THEN "error"
                                       ELSE IF e \in Unconfirmed THEN "queued" ELSE shown[e]]
        /\ UNCHANGED <<upload, request, link, atHub>>

\* A slot is free: the next blob gets a stream of its own.
StartUpload(b) ==
    /\ round.on /\ request.at = "none"
    /\ Cardinality(Uploading) < UploadSlots
    /\ b \in NextBlobs(round) /\ upload[b] = "none"
    /\ round' = [round EXCEPT !.waiting = @ \ {b}, !.started = @ \cup {b}]
    /\ SetStage(b, "asking")
    /\ UNCHANGED <<shown, request, link, atHub, stalls>>

-----------------------------------------------------------------------------
(* One upload (upload_blob_inner) and the Hub's side of it *)

\* The Hub has the blob already: nothing is sent.
AlreadyStored(b) ==
    /\ upload[b] = "asking" /\ link /\ b \in atHub.blobs
    /\ SetStage(b, "stored")
    /\ UNCHANGED <<shown, round, request, link, atHub, stalls>>

\* Mutant: a permit is not waited for.
PermitNotNeeded == TRUE

\* ConnectionLimits.blobs.
PermitFree == Cardinality(atHub.reading) < HubSlots

\* The Hub has a free permit and answers BlobReady; the client notifies the round.
AdmitUpload(b) ==
    /\ upload[b] = "asking" /\ link /\ b \notin atHub.blobs \cup atHub.reading
    /\ PermitFree
    /\ atHub' = [atHub EXCEPT !.reading = @ \cup {b}]
    /\ SetStage(b, "writing")
    /\ round' = [round EXCEPT !.notices = @ \cup {b}]
    /\ UNCHANGED <<shown, request, link, stalls>>

\* receive_blob verified the hash and renamed the file, the row is recorded; the
\* client may have given the upload up meanwhile.
UploadStored(b) ==
    /\ b \in atHub.reading
    /\ atHub' = [atHub EXCEPT !.reading = @ \ {b}, !.blobs = @ \cup {b}]
    /\ SetStage(b, IF upload[b] = "writing" THEN "written" ELSE upload[b])
    /\ UNCHANGED <<shown, round, request, link, stalls>>

\* The confirmation arrives.
UploadConfirmed(b) ==
    /\ upload[b] = "written" /\ link
    /\ SetStage(b, "stored")
    /\ UNCHANGED <<shown, round, request, link, atHub, stalls>>

\* The stream was reset, or ended early: the Hub drops its temporary file.
DropStream(b) ==
    /\ b \in atHub.reading /\ upload[b] # "writing"
    /\ atHub' = [atHub EXCEPT !.reading = @ \ {b}]
    /\ UNCHANGED <<shown, round, upload, request, link, stalls>>

\* Nothing moved within the deadline of the phase. A stall of the network is
\* followed by a health probe on the same connection, which is closed when that
\* fails too; the upload failed either way.
Stall(b) ==
    /\ Stalling
    /\ upload[b] \in {"asking", "writing", "written"} /\ link
    /\ SetStage(b, "broken")
    /\ link' \in {link, FALSE}
    /\ UNCHANGED <<shown, round, request, atHub>>

\* The local file cannot be read (in time): the connection is not suspected.
ReadStalls(b) ==
    /\ Stalling
    /\ upload[b] = "writing"
    /\ SetStage(b, "broken")
    /\ UNCHANGED <<shown, round, request, link, atHub>>

\* The connection is gone: the streams fail.
StreamFails(b) ==
    /\ ~link /\ upload[b] \in {"asking", "writing", "written"}
    /\ SetStage(b, "broken")
    /\ UNCHANGED <<shown, round, request, link, atHub, stalls>>

LinkBreaks ==
    /\ Stalling
    /\ link /\ link' = FALSE
    /\ UNCHANGED <<shown, round, upload, request, atHub>>

-----------------------------------------------------------------------------
(* The round goes on *)

\* Nothing can be submitted: the round waits for its uploads.
RoundWaits == round.on /\ request.at = "none" /\ ~round.pull /\ ReadyEvents(round) = {}

UploadNotified(b) ==
    /\ RoundWaits /\ b \in round.notices
    /\ ShowState(Requiring(round, b), "uploading")
    /\ round' = [round EXCEPT !.notices = @ \ {b}]
    /\ UNCHANGED <<upload, request, link, atHub, stalls>>

BlobStored(b) ==
    /\ RoundWaits /\ upload[b] = "stored"
    /\ round' = [round EXCEPT !.stored = @ \cup {b}]
    /\ SetStage(b, "none")
    /\ UNCHANGED <<shown, request, link, atHub, stalls>>

\* What the cycle does with an error: everything still pending is shown with it.
\* Dropping the JoinSet aborts the uploads that run.
AbandonRound ==
    /\ round' = NoRound
    /\ shown' = [e \in Sending |-> IF e \in Unconfirmed THEN "error" ELSE shown[e]]
    /\ upload' = [b \in Payload |-> "none"]
    /\ request' = NoSubmission

\* fail_blob: the events that need it fail, the other uploads go on unless the connection is closed.
BlobFailed(b) ==
    /\ RoundWaits /\ upload[b] = "broken"
    /\ \/ /\ link
          /\ round' = [round EXCEPT !.failed = @ \cup Requiring(round, b)]
          /\ ShowState(Requiring(round, b), "error")
          /\ SetStage(b, "none")
          /\ UNCHANGED request
       \/ ~link /\ AbandonRound
    /\ UNCHANGED <<link, atHub, stalls>>

\* limit_sync_request lets the first events that fit into a frame through; the
\* first exchange of a round also pulls, with or without events.
Submit(batch) ==
    /\ round.on /\ request.at = "none"
    /\ round.pull \/ ReadyEvents(round) # {}
    /\ batch \subseteq ReadyEvents(round)
    /\ \A e \in batch, f \in ReadyEvents(round) \ batch : e < f
    /\ ReadyEvents(round) # {} => batch # {}
    /\ round' = [round EXCEPT !.pull = FALSE]
    /\ request' = [at |-> "sent", events |-> batch]
    /\ ShowState(batch, "confirming")
    /\ UNCHANGED <<upload, link, atHub, stalls>>

\* The Hub takes the whole batch or, when a blob that an event refers to is not
\* there, refuses it.
HubTakes ==
    /\ request.at = "sent" /\ link
    /\ LET complete == \A e \in request.events : Needs[e] \subseteq atHub.blobs
       IN  /\ atHub' = IF complete THEN [atHub EXCEPT !.events = @ \cup request.events] ELSE atHub
           /\ request' = [request EXCEPT !.at = IF complete THEN "accepted" ELSE "refused"]
    /\ UNCHANGED <<shown, round, upload, link, stalls>>

Delivered ==
    /\ request.at = "accepted" /\ link
    /\ round' = [round EXCEPT !.done = @ \cup request.events]
    /\ ShowState(request.events, "confirmed")
    /\ request' = NoSubmission
    /\ UNCHANGED <<upload, link, atHub, stalls>>

\* The request failed: its events do, and the others only with the connection.
\* A refusal needs no further failure; a missing answer is one.
ExchangeFails ==
    /\ request.at # "none"
    /\ IF request.at = "refused" \/ ~link THEN UNCHANGED stalls ELSE Stalling
    /\ \/ /\ link
          /\ round' = [round EXCEPT !.failed = @ \cup request.events]
          /\ ShowState(request.events, "error")
          /\ request' = NoSubmission
          /\ UNCHANGED upload
       \/ ~link /\ AbandonRound
    /\ UNCHANGED <<link, atHub>>

\* Nothing is left to upload or to submit.
FinishRound ==
    /\ RoundWaits /\ Uploading = {} /\ NextBlobs(round) = {}
    /\ IF round.queue = round.done THEN round' = NoRound /\ UNCHANGED <<shown, upload, request>>
                                   ELSE AbandonRound
    /\ UNCHANGED <<link, atHub, stalls>>

Relink ==
    /\ ~round.on /\ ~link
    /\ link' = TRUE
    /\ UNCHANGED <<shown, round, upload, request, atHub, stalls>>

\* The application is stopped: what was shown stays in the database.
Killed ==
    /\ Stalling
    /\ round.on
    /\ round' = [NoRound EXCEPT !.killed = TRUE]
    /\ upload' = [b \in Payload |-> "none"]
    /\ request' = NoSubmission
    /\ UNCHANGED <<shown, link, atHub>>

\* The Hub reclaims a blob no event refers to, while no upload runs (its grace
\* is over, the group is full).
ReclaimOrphan(b) ==
    /\ Stalling
    /\ atHub.reading = {} /\ b \in atHub.blobs
    /\ \A e \in atHub.events : b \notin Needs[e]
    /\ atHub' = [atHub EXCEPT !.blobs = @ \ {b}]
    /\ UNCHANGED <<shown, round, upload, request, link>>

-----------------------------------------------------------------------------
UploadStep(b) ==
    \/ AlreadyStored(b) \/ AdmitUpload(b) \/ UploadStored(b) \/ UploadConfirmed(b) \/ DropStream(b) \/ StreamFails(b)

RoundStep ==
    \/ \E lost \in SUBSET Payload : BeginRound(lost)
    \/ \E b \in Payload : StartUpload(b) \/ UploadNotified(b) \/ BlobStored(b) \/ BlobFailed(b)
    \/ \E batch \in SUBSET Sending : Submit(batch)
    \/ HubTakes \/ Delivered \/ ExchangeFails \/ FinishRound \/ Relink

TransferNext ==
    \/ RoundStep
    \/ \E b \in Payload : UploadStep(b) \/ Stall(b) \/ ReadStalls(b) \/ ReclaimOrphan(b)
    \/ LinkBreaks \/ Killed

-----------------------------------------------------------------------------
(* Properties *)

\* Whatever the Hub has of this device's events, it has their attachments, whether or not it
\* reclaimed some of them between the upload and the event.
Attached == \A e \in atHub.events : Needs[e] \subseteq atHub.blobs

\* An item's later event is at the Hub only after the earlier ones, whichever attachments came
\* first and whichever failed.
EarlierFirst ==
    \A e, f \in Sending : e < f /\ ItemOf[e] = ItemOf[f] /\ f \in atHub.events => e \in atHub.events

\* Once a cycle is over nothing is shown as being sent, unless the application was stopped in it.
NothingActive ==
    ~round.on /\ ~round.killed => \A e \in Sending : shown[e] \in {"none", "error", "confirmed"}

\* Only what the Hub has is shown as delivered.
ConfirmedAreThere == \A e \in Sending : shown[e] = "confirmed" => e \in atHub.events

\* item_statuses: the list shows for an item how far its latest event got.
CloudState(i) ==
    LET latest == CHOOSE e \in Sending : ItemOf[e] = i /\ \A f \in Sending : ItemOf[f] = i => f <= e
    IN  CASE shown[latest] = "none" -> "idle"
          [] shown[latest] = "uploading" -> "syncing"
          [] shown[latest] = "confirmed" -> "success"
          [] OTHER -> shown[latest]

\* An item shown as delivered is at the Hub whole, although only its latest event is looked at.
ItemsAreThere ==
    \A e \in Sending : CloudState(ItemOf[e]) = "success" => e \in atHub.events /\ Needs[e] \subseteq atHub.blobs

\* What users see of the delivery is true, and the Hub gets items whole and in order.
TransferSound == Attached /\ EarlierFirst /\ NothingActive /\ ConfirmedAreThere /\ ItemsAreThere

\* Everything is uploaded.
AllUploaded == \A e \in Sending : shown[e] = "confirmed"
=============================================================================
