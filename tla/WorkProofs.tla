----------------------------- MODULE WorkProofs -----------------------------
(* Proofs of what MCClientWork checks of the parts of a client beside its log, for every value of  *)
(* their constants. A step is of one part and leaves the others alone, so each part has an         *)
(* invariant of its own: of payloads, outbox, flags and icons here, and of the others in           *)
(* DesktopProofs. An icon is of a device that sends or of one that receives.                       *)
EXTENDS MCClientWork, DesktopProofs, FiniteSetTheorems, TLAPS

-----------------------------------------------------------------------------
(* The attachments of a round.                                             *)
(*                                                                         *)
(* What is queued and not done is what is not confirmed; so an event that  *)
(* is ready has nothing unconfirmed before it within its item, and what a  *)
(* request holds that the Hub has not yet taken has its predecessors at    *)
(* the Hub or beside it in the request.                                    *)

RoundCell == [on : BOOLEAN, killed : BOOLEAN, pull : BOOLEAN,
              queue : SUBSET Sending, failed : SUBSET Sending, done : SUBSET Sending,
              waiting : SUBSET Payload, started : SUBSET Payload, stored : SUBSET Payload,
              notices : SUBSET Payload]
Submission == [at : {"none", "sent", "accepted", "refused"}, events : SUBSET Sending]
HubCell == [blobs : SUBSET Payload, events : SUBSET Sending, reading : SUBSET Payload]

TransferShape ==
    /\ shown \in [Sending -> DeliveryState] /\ round \in RoundCell
    /\ upload \in [Payload -> UploadStage] /\ request \in Submission
    /\ link \in BOOLEAN /\ stalls \in 0 .. MaxStalls
    /\ atHub \in HubCell
    /\ IsFiniteSet(atHub.reading) /\ Cardinality(atHub.reading) =< HubSlots

\* The queue of a running round, less what is done, is what is not confirmed.
QueueRight == round.on => Unconfirmed = round.queue \ round.done

\* What is submitted is of the round's open events, and once accepted the Hub has it.
SubmissionRight ==
    /\ request.at # "none" => round.on /\ request.events \subseteq round.queue \ round.done
    /\ request.at = "accepted" => request.events \subseteq atHub.events

\* The earlier events of a submitted event's item are at the Hub or in the same request.
SubmittedInOrder ==
    request.at # "none" =>
        \A f \in request.events : \A e \in Sending :
            e < f /\ ItemOf[e] = ItemOf[f] => e \in atHub.events \cup request.events

TransferInv ==
    /\ TransferShape /\ QueueRight /\ SubmissionRight /\ SubmittedInOrder
    /\ Attached /\ EarlierFirst /\ NothingActive /\ ConfirmedAreThere

LEMMA TransferStarts == TransferInit => TransferInv
  <1> SUFFICES ASSUME TransferInit PROVE TransferInv
    OBVIOUS
  <1>1. TransferShape
    BY SendingAssumption, FS_EmptySet
    DEF TransferInit, TransferShape, RoundCell, Submission, HubCell, NoRound, NoSubmission, DeliveryState, UploadStage
  <1> QED
    BY <1>1 DEF TransferInit, TransferInv, QueueRight, SubmissionRight, SubmittedInOrder, Attached, EarlierFirst,
                NothingActive, ConfirmedAreThere, NoRound, NoSubmission

LEMMA TransferShapeStays == TransferShape /\ [TransferNext]_transferVars => TransferShape'
  <1> SUFFICES ASSUME TransferShape, [TransferNext]_transferVars PROVE TransferShape'
    OBVIOUS
  <1>s. Stalling => stalls' \in 0 .. MaxStalls
    BY SendingAssumption DEF TransferShape, Stalling
  <1> USE SendingAssumption DEF TransferShape, RoundCell, Submission, HubCell, DeliveryState, UploadStage
  <1>1. ASSUME UNCHANGED transferVars PROVE TransferShape'
    BY <1>1 DEF transferVars
  <1>2. ASSUME NEW lost \in SUBSET Payload, BeginRound(lost) PROVE TransferShape'
    <2>1. stalls' \in 0 .. MaxStalls
      BY <1>2, <1>s DEF BeginRound
    <2>2. UNION {Needs[e] : e \in Unconfirmed} \subseteq Payload
      BY DEF Unconfirmed
    <2>3. round' \in RoundCell
      BY <1>2, <2>2 DEF BeginRound, NoRound, Unconfirmed
    <2>4. shown' \in [Sending -> DeliveryState]
      BY <1>2 DEF BeginRound
    <2> QED  BY <1>2, <2>1, <2>3, <2>4 DEF BeginRound
  <1>3. ASSUME NEW b \in Payload, StartUpload(b) PROVE TransferShape'
    BY <1>3 DEF StartUpload, SetStage
  <1>4. ASSUME NEW b \in Payload, UploadNotified(b) PROVE TransferShape'
    BY <1>4 DEF UploadNotified, ShowState, Requiring, Undecided
  <1>5. ASSUME NEW b \in Payload, BlobStored(b) PROVE TransferShape'
    BY <1>5 DEF BlobStored, SetStage
  <1>6. ASSUME AbandonRound, UNCHANGED <<link, atHub>>, stalls' \in 0 .. MaxStalls PROVE TransferShape'
    BY <1>6 DEF AbandonRound, NoRound, NoSubmission
  <1>7. ASSUME NEW b \in Payload, BlobFailed(b) PROVE TransferShape'
    <2>1. CASE AbandonRound
      BY <2>1, <1>6, <1>7 DEF BlobFailed
    <2>2. CASE ~AbandonRound
      BY <2>2, <1>7 DEF BlobFailed, ShowState, SetStage, Requiring, Undecided
    <2> QED  BY <2>1, <2>2
  <1>8. ASSUME NEW batch \in SUBSET Sending, Submit(batch) PROVE TransferShape'
    BY <1>8 DEF Submit, ShowState
  <1>9. ASSUME HubTakes PROVE TransferShape'
    BY <1>9 DEF HubTakes
  <1>10. ASSUME Delivered PROVE TransferShape'
    BY <1>10 DEF Delivered, ShowState, NoSubmission
  <1>11. ASSUME ExchangeFails PROVE TransferShape'
    <2>1. stalls' \in 0 .. MaxStalls
      BY <1>11, <1>s DEF ExchangeFails
    <2>2. CASE AbandonRound
      BY <2>1, <2>2, <1>6, <1>11 DEF ExchangeFails
    <2>3. CASE ~AbandonRound
      BY <2>1, <2>3, <1>11 DEF ExchangeFails, ShowState, NoSubmission
    <2> QED  BY <2>2, <2>3
  <1>12. ASSUME FinishRound PROVE TransferShape'
    <2>1. CASE round.queue = round.done
      <3>1. round' = NoRound /\ UNCHANGED <<shown, upload, request, link, atHub, stalls>>
        BY <1>12, <2>1 DEF FinishRound
      <3> QED  BY <3>1 DEF NoRound
    <2>2. CASE round.queue # round.done
      BY <1>12, <2>2, <1>6 DEF FinishRound
    <2> QED  BY <2>1, <2>2
  <1>13. ASSUME Relink PROVE TransferShape'
    BY <1>13 DEF Relink
  <1>14. ASSUME NEW b \in Payload, AdmitUpload(b) PROVE TransferShape'
    <2>1. /\ IsFiniteSet(atHub.reading \cup {b})
          /\ Cardinality(atHub.reading \cup {b}) = Cardinality(atHub.reading) + 1
      BY <1>14, FS_AddElement DEF AdmitUpload
    <2>2. Cardinality(atHub.reading) \in Nat
      BY FS_CardinalityType
    <2> QED  BY <1>14, <2>1, <2>2 DEF AdmitUpload, PermitFree, SetStage
  <1>15. ASSUME NEW b \in Payload, UploadStored(b) \/ DropStream(b) PROVE TransferShape'
    <2>1. IsFiniteSet(atHub.reading \ {b}) /\ Cardinality(atHub.reading \ {b}) =< Cardinality(atHub.reading)
      BY FS_Subset
    <2>2. Cardinality(atHub.reading) \in Nat /\ Cardinality(atHub.reading \ {b}) \in Nat
      BY <2>1, FS_CardinalityType
    <2>3. Cardinality(atHub.reading \ {b}) =< HubSlots
      BY <2>1, <2>2
    <2>4. CASE UploadStored(b)
      BY <2>4, <2>1, <2>3 DEF UploadStored, SetStage
    <2>5. CASE DropStream(b)
      BY <2>5, <2>1, <2>3 DEF DropStream
    <2> QED  BY <1>15, <2>4, <2>5
  <1>16. ASSUME NEW b \in Payload, AlreadyStored(b) \/ UploadConfirmed(b) \/ StreamFails(b) PROVE TransferShape'
    BY <1>16 DEF AlreadyStored, UploadConfirmed, StreamFails, SetStage
  <1>17. ASSUME NEW b \in Payload, Stall(b) \/ ReadStalls(b) \/ ReclaimOrphan(b) PROVE TransferShape'
    <2>1. stalls' \in 0 .. MaxStalls
      BY <1>17, <1>s DEF Stall, ReadStalls, ReclaimOrphan
    <2>2. link' \in BOOLEAN
      BY <1>17 DEF Stall, ReadStalls, ReclaimOrphan
    <2>3. CASE Stall(b)
      BY <2>1, <2>2, <2>3 DEF Stall, SetStage
    <2>4. CASE ReadStalls(b)
      BY <2>1, <2>4 DEF ReadStalls, SetStage
    <2>5. CASE ReclaimOrphan(b)
      BY <2>1, <2>5 DEF ReclaimOrphan
    <2> QED  BY <1>17, <2>3, <2>4, <2>5
  <1>18. ASSUME LinkBreaks \/ Killed PROVE TransferShape'
    <2>1. stalls' \in 0 .. MaxStalls
      BY <1>18, <1>s DEF LinkBreaks, Killed
    <2>2. CASE LinkBreaks
      BY <2>1, <2>2 DEF LinkBreaks
    <2>3. CASE Killed
      BY <2>1, <2>3 DEF Killed, NoRound, NoSubmission
    <2> QED  BY <1>18, <2>2, <2>3
  <1> QED
    BY <1>1, <1>2, <1>3, <1>4, <1>5, <1>7, <1>8, <1>9, <1>10, <1>11, <1>12, <1>13, <1>14, <1>15, <1>16, <1>17, <1>18
    DEF TransferNext, RoundStep, UploadStep

LEMMA TransferStays == TransferInv /\ [TransferNext]_transferVars => TransferInv'
  <1> SUFFICES ASSUME TransferInv, [TransferNext]_transferVars PROVE TransferInv'
    OBVIOUS
  <1>a. TransferShape /\ TransferShape'
    BY TransferShapeStays DEF TransferInv
  <1>b. /\ Sending \subseteq Nat /\ Needs \in [Sending -> SUBSET Payload]
        /\ shown \in [Sending -> DeliveryState] /\ round \in RoundCell
        /\ upload \in [Payload -> UploadStage] /\ request \in Submission /\ atHub \in HubCell
    BY <1>a, SendingAssumption DEF TransferShape
  <1> DEFINE Rest == QueueRight /\ SubmissionRight /\ SubmittedInOrder /\ Attached /\ EarlierFirst
                     /\ NothingActive /\ ConfirmedAreThere
  <1> SUFFICES Rest'
    BY <1>a DEF TransferInv
  <1>c. QueueRight /\ SubmissionRight /\ SubmittedInOrder /\ Attached /\ EarlierFirst
        /\ NothingActive /\ ConfirmedAreThere
    BY DEF TransferInv
  <1> USE <1>b, <1>c DEF QueueRight, SubmissionRight, SubmittedInOrder, Attached, EarlierFirst, NothingActive,
          ConfirmedAreThere, Unconfirmed, RoundCell, Submission, HubCell, DeliveryState
  \* The Hub's blobs grow, or what is shown and submitted stays: uploads.
  <1>1. ASSUME UNCHANGED <<shown, request>>, UNCHANGED <<round.on, round.killed, round.queue, round.done>>,
               atHub'.events = atHub.events, atHub.blobs \subseteq atHub'.blobs
        PROVE  Rest'
    BY <1>1
  <1>2. ASSUME NEW lost \in SUBSET Payload, BeginRound(lost) PROVE Rest'
    BY <1>2 DEF BeginRound, NoRound
  <1>3. ASSUME NEW b \in Payload, StartUpload(b) \/ BlobStored(b) PROVE Rest'
    BY <1>3, <1>1 DEF StartUpload, BlobStored
  <1>4. ASSUME NEW b \in Payload, UploadNotified(b) PROVE Rest'
    BY <1>4 DEF UploadNotified, RoundWaits, ShowState, Requiring, Undecided
  <1>6. ASSUME AbandonRound, UNCHANGED atHub PROVE Rest'
    BY <1>6 DEF AbandonRound, NoRound, NoSubmission
  <1>7. ASSUME NEW b \in Payload, BlobFailed(b) PROVE Rest'
    <2>1. CASE AbandonRound
      BY <2>1, <1>6, <1>7 DEF BlobFailed
    <2>2. CASE ~AbandonRound
      BY <2>2, <1>7 DEF BlobFailed, RoundWaits, ShowState, Requiring, Undecided
    <2> QED  BY <2>1, <2>2
  <1>8. ASSUME NEW batch \in SUBSET Sending, Submit(batch) PROVE Rest'
    <2>1. \A f \in batch : \A e \in Sending : e < f /\ ItemOf[e] = ItemOf[f] => e \in atHub.events
      <3> SUFFICES ASSUME NEW f \in batch, NEW e \in Sending, e < f, ItemOf[e] = ItemOf[f] PROVE e \in atHub.events
        OBVIOUS
      <3>1. f \in Nat /\ e \in Nat /\ e \notin round.queue \ round.done
        BY <1>8 DEF Submit, ReadyEvents, Undecided
      <3> QED  BY <3>1, <1>8 DEF Submit
    <2>2. batch \subseteq round.queue \ round.done /\ round.on /\ batch \subseteq Sending
      BY <1>8 DEF Submit, ReadyEvents, Undecided
    <2> QED  BY <1>8, <2>1, <2>2 DEF Submit, ShowState
  <1>9. ASSUME HubTakes PROVE Rest'
    BY <1>9 DEF HubTakes
  <1>10. ASSUME Delivered PROVE Rest'
    BY <1>10 DEF Delivered, ShowState, NoSubmission
  <1>11. ASSUME ExchangeFails PROVE Rest'
    <2>1. CASE AbandonRound
      BY <2>1, <1>6, <1>11 DEF ExchangeFails
    <2>2. CASE ~AbandonRound
      BY <2>2, <1>11 DEF ExchangeFails, ShowState, NoSubmission
    <2> QED  BY <2>1, <2>2
  <1>12. ASSUME FinishRound PROVE Rest'
    <2>1. CASE round.queue = round.done
      BY <1>12, <2>1 DEF FinishRound, RoundWaits, NoRound
    <2>2. CASE round.queue # round.done
      BY <1>12, <2>2, <1>6 DEF FinishRound
    <2> QED  BY <2>1, <2>2
  <1>13. ASSUME Relink \/ LinkBreaks \/ UNCHANGED transferVars PROVE Rest'
    BY <1>13, <1>1 DEF Relink, LinkBreaks, transferVars
  <1>14. ASSUME NEW b \in Payload, UploadStep(b) \/ Stall(b) \/ ReadStalls(b) PROVE Rest'
    <2>1. UNCHANGED <<shown, request>> /\ UNCHANGED <<round.on, round.killed, round.queue, round.done>>
      BY <1>14 DEF UploadStep, AlreadyStored, AdmitUpload, UploadStored, UploadConfirmed, DropStream, StreamFails,
                   Stall, ReadStalls
    <2>2. atHub'.events = atHub.events /\ atHub.blobs \subseteq atHub'.blobs
      <3>1. CASE UploadStep(b)
        <4>1. CASE AdmitUpload(b)
          BY <4>1 DEF AdmitUpload
        <4>2. CASE UploadStored(b)
          BY <4>2 DEF UploadStored
        <4>3. CASE DropStream(b)
          BY <4>3 DEF DropStream
        <4>4. CASE AlreadyStored(b) \/ UploadConfirmed(b) \/ StreamFails(b)
          BY <4>4 DEF AlreadyStored, UploadConfirmed, StreamFails
        <4> QED  BY <3>1, <4>1, <4>2, <4>3, <4>4 DEF UploadStep
      <3> QED  BY <3>1, <1>14 DEF Stall, ReadStalls
    <2> QED  BY <2>1, <2>2, <1>1
  <1>15. ASSUME NEW b \in Payload, ReclaimOrphan(b) PROVE Rest'
    BY <1>15 DEF ReclaimOrphan
  <1>16. ASSUME Killed PROVE Rest'
    BY <1>16 DEF Killed, NoRound, NoSubmission
  <1> QED
    BY <1>2, <1>3, <1>4, <1>7, <1>8, <1>9, <1>10, <1>11, <1>12, <1>13, <1>14, <1>15, <1>16
    DEF TransferNext, RoundStep

LEMMA TransferServes == TransferInv => TransferSound /\ TransferTypeOK
  <1> SUFFICES ASSUME TransferInv PROVE TransferSound /\ TransferTypeOK
    OBVIOUS
  <1>1. TransferTypeOK
    BY DEF TransferInv, TransferShape, TransferTypeOK, RoundCell, Submission, HubCell
  <1>2. ASSUME NEW e \in Sending, CloudState(ItemOf[e]) = "success"
        PROVE  e \in atHub.events /\ Needs[e] \subseteq atHub.blobs
    <2> DEFINE Of == {f \in Sending : ItemOf[f] = ItemOf[e]}
               newest == CHOOSE m \in Sending : ItemOf[m] = ItemOf[e] /\ \A f \in Sending : ItemOf[f] = ItemOf[e] => f =< m
    <2>1. Of \subseteq Nat /\ IsFiniteSet(Of) /\ Of # {}
      BY SendingAssumption, FS_Subset
    <2>2. \E m \in Of : \A f \in Of : f =< m
      BY <2>1, Greatest
    <2>3. newest \in Sending /\ ItemOf[newest] = ItemOf[e] /\ e =< newest
      BY <2>2
    <2>4. shown[newest] = "confirmed"
      <3>1. shown[newest] \in DeliveryState
        BY <2>3 DEF TransferInv, TransferShape
      <3>2. CloudState(ItemOf[e]) = CASE shown[newest] = "none" -> "idle"
                                      [] shown[newest] = "uploading" -> "syncing"
                                      [] shown[newest] = "confirmed" -> "success"
                                      [] OTHER -> shown[newest]
        BY DEF CloudState
      <3> HIDE DEF newest
      <3> QED  BY <3>1, <3>2, <1>2 DEF DeliveryState
    <2>5. newest \in atHub.events
      BY <2>3, <2>4 DEF TransferInv, ConfirmedAreThere
    <2>6. e \in atHub.events
      <3>1. CASE e = newest
        BY <3>1, <2>5
      <3>2. CASE e < newest
        BY <3>2, <2>3, <2>5 DEF TransferInv, EarlierFirst
      <3>3. e \in Nat /\ newest \in Nat
        BY <2>3, SendingAssumption
      <3> HIDE DEF newest
      <3> QED  BY <3>1, <3>2, <3>3, <2>3
    <2> QED  BY <2>6 DEF TransferInv, Attached
  <1>3. ItemsAreThere
    BY <1>2 DEF ItemsAreThere
  <1> QED  BY <1>1, <1>3 DEF TransferInv, TransferSound

-----------------------------------------------------------------------------
(* The outbox.                                                             *)
(*                                                                         *)
(* A time is known to an item when a copy of this device or a merged event *)
(* of another carried it: a new copy and a new event are recognised by it. *)
(* What was sent of a time that the row or one of its links still carries  *)
(* is linked to the row; so, while no time was set back, the newest added   *)
(* of this device shows that the row's time was sent, and what is being    *)
(* built was not. If the row was replaced while its event is built, the    *)
(* new row carries none of the times of the old one.                       *)

Entry == [order : Nat, doc : Doc, source : Nat, force : BOOLEAN, history : BOOLEAN,
          manual : BOOLEAN, due : BOOLEAN]
SentEvent == [order : Nat, doc : Doc, stamp : Nat, force : BOOLEAN]
Link == [stamp : Nat, order : Nat]
OutboxRow == [here : BOOLEAN, born : Nat, source : Nat, stamp : Nat, links : SUBSET Link]
WorkerCell == [at : {"asleep", "batch", "building", "resting"}, sensitive : BOOLEAN,
               order : Nat, born : Nat, stamp : Nat]
Tally == [now : Nat, order : Nat, merged : SUBSET (Doc \X RemoteStamps), setBack : BOOLEAN,
          copies : Nat, other : Nat]

OutboxShape ==
    /\ docs \in [Doc -> OutboxRow] /\ waiting \in SUBSET Entry /\ sent \in SUBSET SentEvent
    /\ manualOnly \in SUBSET Doc /\ sharedDocs \in SUBSET Doc
    /\ choices \in [on : BOOLEAN, sensitive : BOOLEAN]
    /\ backfill \in [done : BOOLEAN, left : SUBSET Doc]
    /\ outWorker \in WorkerCell /\ outWake \in BOOLEAN /\ merging \in Doc \cup {NoDoc}
    /\ tally \in Tally /\ tally.now % 2 = 0

KnownTime(T, i, t) == (t =< T.now /\ t \notin RemoteStamps) \/ <<i, t>> \in T.merged
Carries(i, t) == t = docs[i].stamp \/ \E l \in docs[i].links : l.stamp = t
LinkedTo(i, t) == \E l \in docs[i].links : l.order > 0 /\ l.stamp = t

\* Entries are told apart by their order, and those of an item come after what its row is linked to.
EntriesRight ==
    /\ \A o, p \in waiting : o.order = p.order => o = p
    /\ \A o \in waiting : /\ o.order > 0 /\ o.order =< tally.order
                          /\ o.force \/ o.manual => o.doc \in sharedDocs
                          /\ \A l \in docs[o.doc].links : l.order < o.order

RowRight(i) ==
    /\ IsFiniteSet(docs[i].links) /\ (~docs[i].here => docs[i].links = {} /\ docs[i].stamp = 0)
    /\ docs[i].here => KnownTime(tally, i, docs[i].born) /\ KnownTime(tally, i, docs[i].stamp)
    /\ \A l \in docs[i].links : KnownTime(tally, i, l.stamp) /\ l.order =< tally.order
    /\ ~tally.setBack =>
          /\ \A l \in docs[i].links : l.stamp =< docs[i].stamp
          /\ \A l, m \in docs[i].links : 0 < l.order /\ l.order < m.order => l.stamp =< m.stamp

SentRight ==
    \A e \in sent : /\ KnownTime(tally, e.doc, e.stamp)
                    /\ docs[e.doc].here /\ Carries(e.doc, e.stamp) => LinkedTo(e.doc, e.stamp)

BuildsOn(i) == docs[i].here /\ docs[i].born = outWorker.born

\* What is built for an entry.
BuildOf(o) ==
    /\ \A p \in waiting : p.doc = o.doc => p.order >= o.order
    /\ o.doc \in Sensitive => outWorker.sensitive \/ o.doc \in sharedDocs
    /\ KnownTime(tally, o.doc, outWorker.stamp) /\ KnownTime(tally, o.doc, outWorker.born)
    /\ docs[o.doc].here /\ ~BuildsOn(o.doc) => ~Carries(o.doc, outWorker.stamp)
    /\ ~tally.setBack =>
          /\ \A e \in sent : e.doc = o.doc => e.stamp # outWorker.stamp
          /\ BuildsOn(o.doc) => /\ outWorker.stamp =< docs[o.doc].stamp
                                /\ \A l \in docs[o.doc].links : l.order > 0 => l.stamp =< outWorker.stamp

BuildRight ==
    outWorker.at = "building" =>
        /\ outWorker.order =< tally.order
        /\ \A o \in waiting : o.order = outWorker.order => BuildOf(o)

RowsRight == \A i \in Doc : RowRight(i)

OutboxRest == EntriesRight /\ RowsRight /\ SentRight /\ BuildRight /\ BigWasShared /\ SentOnce

OutboxInv == OutboxShape /\ OutboxRest

\* How the steps of everyone but the worker treat the entries, the rows and the clock: entries are
\* kept, dropped or added with a new order, and a row that carries a time it did not carry, or was
\* born anew, has a time that nothing of the item had before.
EntriesKept ==
    /\ \A q, r \in waiting' : q.order = r.order => q = r
    /\ \A q \in waiting' :
          /\ q.order =< tally'.order /\ (q.force \/ q.manual => q.doc \in sharedDocs')
          /\ \/ \E o \in waiting : o.order = q.order /\ o.doc = q.doc
             \/ q.order > tally.order

Moves(i) ==
    /\ docs'[i].here /\ docs[i].here => docs'[i].born = docs[i].born
    /\ docs'[i].here /\ ~docs[i].here => ~KnownTime(tally, i, docs'[i].born)
    /\ \A l \in docs'[i].links : l \in docs[i].links \/ (l.order = 0 /\ ~KnownTime(tally, i, l.stamp))
    /\ docs'[i].here =>
          /\ docs[i].links \subseteq docs'[i].links
          /\ \/ docs[i].here /\ Carries(i, docs'[i].stamp)
             \/ ~KnownTime(tally, i, docs'[i].stamp)
    /\ docs[i].here /\ docs'[i].here /\ ~tally'.setBack => docs[i].stamp =< docs'[i].stamp

TallyGrows ==
    /\ tally.now =< tally'.now /\ tally.order =< tally'.order /\ tally.merged \subseteq tally'.merged
    /\ tally.setBack => tally'.setBack

LEMMA KnownStays ==
  ASSUME OutboxShape, OutboxShape', TallyGrows, NEW i, NEW t \in Nat, KnownTime(tally, i, t)
  PROVE  KnownTime(tally', i, t)
  BY DEF KnownTime, TallyGrows, OutboxShape, Tally

\* A copy's time is new to every item, and that of a remote copy to the item it is merged into.
LEMMA NewTime ==
  ASSUME OutboxShape, NEW i
  PROVE  ~KnownTime(tally, i, tally.now + 2) /\ tally.now + 2 \notin RemoteStamps
  <1>1. tally.now + 2 \notin RemoteStamps
    <2>1. tally.now \in Nat /\ tally.now % 2 = 0
      BY DEF OutboxShape, Tally
    <2>2. (tally.now + 2) % 2 = 0
      BY <2>1
    <2>3. \A stamp \in RemoteStamps : stamp % 2 # 0
      BY OutboxAssumption
    <2> DEFINE time == tally.now + 2
    <2>4. time % 2 = 0
      BY <2>2
    <2> HIDE DEF time
    <2>5. time \notin RemoteStamps
      BY <2>3, <2>4
    <2> QED  BY <2>5 DEF time
  <1>2. tally.merged \subseteq Doc \X RemoteStamps /\ tally.now \in Nat
    BY DEF OutboxShape, Tally
  <1>3. ~(<<i, tally.now + 2>> \in tally.merged)
    BY <1>1, <1>2
  <1>4. ~(tally.now + 2 =< tally.now)
    BY <1>2
  <1> QED  BY <1>1, <1>3, <1>4 DEF KnownTime

LEMMA NewMerge ==
  ASSUME NEW i, NEW stamp \in RemoteStamps, <<i, stamp>> \notin tally.merged
  PROVE  ~KnownTime(tally, i, stamp)
  BY DEF KnownTime

LEMMA OutboxKept ==
  ASSUME OutboxInv, OutboxShape', EntriesKept, \A i \in Doc : Moves(i), RowsRight', TallyGrows, sent' = sent,
         sharedDocs \subseteq sharedDocs', outWorker' = outWorker \/ outWorker'.at # "building"
  PROVE  OutboxRest'
  <1>1. OutboxShape /\ EntriesRight /\ RowsRight /\ SentRight /\ BuildRight /\ BigWasShared /\ SentOnce
    BY DEF OutboxInv, OutboxRest
  <1>t. tally.order \in Nat /\ tally'.order \in Nat /\ tally.order =< tally'.order
    BY <1>1 DEF OutboxShape, Tally, TallyGrows
  <1>2. EntriesRight'
    <2>1. ASSUME NEW q \in waiting' PROVE q.order > 0
      <3>1. q.order \in Nat
        BY DEF OutboxShape, Entry
      <3> QED  BY <1>1, <1>t, <3>1 DEF EntriesKept, EntriesRight
    <2>2. ASSUME NEW q \in waiting', NEW l \in docs'[q.doc].links PROVE l.order < q.order
      <3>1. q \in Entry /\ q.doc \in Doc /\ docs'[q.doc] \in OutboxRow
        BY DEF OutboxShape, Entry
      <3>2. l.order \in Nat /\ q.order \in Nat
        BY <3>1 DEF OutboxRow, Link, Entry
      <3>3. l \in docs[q.doc].links \/ l.order = 0
        BY <3>1 DEF Moves
      <3>4. CASE l.order = 0
        BY <3>4, <2>1, <3>2
      <3>5. CASE l \in docs[q.doc].links /\ q.order > tally.order
        <4>1. l.order =< tally.order
          BY <3>5, <3>1, <1>1 DEF RowsRight, RowRight
        <4> QED  BY <4>1, <3>5, <3>2, <1>t
      <3>6. CASE l \in docs[q.doc].links /\ \E o \in waiting : o.order = q.order /\ o.doc = q.doc
        BY <3>6, <1>1 DEF EntriesRight
      <3> QED  BY <3>3, <3>4, <3>5, <3>6 DEF EntriesKept
    <2> QED  BY <2>1, <2>2 DEF EntriesRight, EntriesKept
  <1>3. SentRight'
    <2> SUFFICES ASSUME NEW e \in sent
                 PROVE  /\ KnownTime(tally', e.doc, e.stamp)
                        /\ docs'[e.doc].here /\ Carries(e.doc, e.stamp)' => LinkedTo(e.doc, e.stamp)'
      BY DEF SentRight
    <2>1. e.doc \in Doc /\ e.stamp \in Nat
      BY <1>1 DEF OutboxShape, SentEvent
    <2>2. KnownTime(tally, e.doc, e.stamp) /\ KnownTime(tally', e.doc, e.stamp)
      BY <2>1, <1>1, KnownStays DEF SentRight
    <2>3. ASSUME docs'[e.doc].here, Carries(e.doc, e.stamp)' PROVE LinkedTo(e.doc, e.stamp)'
      <3>1. Moves(e.doc)
        BY <2>1
      <3>2. e.stamp = docs'[e.doc].stamp \/ \E l \in docs'[e.doc].links : l.stamp = e.stamp
        BY <2>3 DEF Carries
      <3>3. docs[e.doc].here /\ Carries(e.doc, e.stamp)
        <4>1. CASE e.stamp = docs'[e.doc].stamp
          BY <4>1, <3>1, <2>2, <2>3 DEF Moves
        <4>2. CASE \E l \in docs'[e.doc].links : l.stamp = e.stamp
          <5>1. PICK l \in docs[e.doc].links : l.stamp = e.stamp
            BY <4>2, <3>1, <2>2 DEF Moves
          <5> QED  BY <5>1, <2>1, <1>1 DEF Carries, RowsRight, RowRight
        <4> QED  BY <3>2, <4>1, <4>2
      <3>4. LinkedTo(e.doc, e.stamp)
        BY <3>3, <1>1 DEF SentRight
      <3> QED  BY <3>4, <3>1, <2>3 DEF LinkedTo, Moves
    <2> QED  BY <2>2, <2>3
  <1>4. BuildRight'
    <2> SUFFICES ASSUME outWorker' = outWorker, outWorker.at = "building" PROVE BuildRight'
      BY DEF BuildRight
    <2>1. outWorker.order =< tally.order /\ outWorker.order \in Nat /\ outWorker.stamp \in Nat /\ outWorker.born \in Nat
      BY <1>1 DEF BuildRight, OutboxShape, WorkerCell
    <2>2. ASSUME NEW q \in waiting', q.order = outWorker.order PROVE BuildOf(q)'
      <3>1. PICK o \in waiting : o.order = q.order /\ o.doc = q.doc
        BY <2>1, <2>2, <1>t DEF EntriesKept
      <3>2. BuildOf(o)
        BY <3>1, <2>2, <1>1 DEF BuildRight
      <3>3. o.doc \in Doc /\ Moves(o.doc) /\ docs[o.doc] \in OutboxRow /\ docs'[o.doc] \in OutboxRow
        BY <1>1 DEF OutboxShape, Entry
      <3>4. ASSUME NEW p \in waiting', p.doc = q.doc PROVE p.order >= q.order
        <4>1. p.order \in Nat /\ q.order \in Nat
          BY DEF OutboxShape, Entry
        <4>2. CASE p.order > tally.order
          BY <4>1, <4>2, <2>1, <2>2, <1>t
        <4>3. CASE \E r \in waiting : r.order = p.order /\ r.doc = p.doc
          BY <4>3, <3>1, <3>2, <3>4 DEF BuildOf
        <4> QED  BY <4>2, <4>3 DEF EntriesKept
      <3>5. q.doc \in Sensitive => outWorker.sensitive \/ q.doc \in sharedDocs'
        BY <3>1, <3>2 DEF BuildOf
      <3>6. KnownTime(tally, o.doc, outWorker.stamp) /\ KnownTime(tally, o.doc, outWorker.born)
        BY <3>2 DEF BuildOf
      <3>7. KnownTime(tally', o.doc, outWorker.stamp) /\ KnownTime(tally', o.doc, outWorker.born)
        BY <3>6, <2>1, <1>1, KnownStays
      <3>8. ASSUME docs'[o.doc].here, docs'[o.doc].born # outWorker.born, Carries(o.doc, outWorker.stamp)' PROVE FALSE
        <4>1. docs[o.doc].here /\ Carries(o.doc, outWorker.stamp)
          <5>1. CASE outWorker.stamp = docs'[o.doc].stamp
            BY <5>1, <3>3, <3>6, <3>8 DEF Moves
          <5>2. CASE \E l \in docs'[o.doc].links : l.stamp = outWorker.stamp
            <6>1. PICK l \in docs[o.doc].links : l.stamp = outWorker.stamp
              BY <5>2, <3>3, <3>6 DEF Moves
            <6> QED  BY <6>1, <3>3, <1>1 DEF Carries, RowsRight, RowRight
          <5> QED  BY <5>1, <5>2, <3>8 DEF Carries
        <4>2. docs[o.doc].born # outWorker.born
          BY <4>1, <3>3, <3>8 DEF Moves
        <4> QED  BY <4>1, <4>2, <3>2 DEF BuildOf, BuildsOn
      <3>9. ASSUME ~tally'.setBack
            PROVE  /\ \A e \in sent' : e.doc = q.doc => e.stamp # outWorker.stamp
                   /\ BuildsOn(q.doc)' => /\ outWorker.stamp =< docs'[q.doc].stamp
                                          /\ \A l \in docs'[q.doc].links : l.order > 0 => l.stamp =< outWorker.stamp
        <4>1. ~tally.setBack
          BY <3>9 DEF TallyGrows
        <4>2. \A e \in sent' : e.doc = q.doc => e.stamp # outWorker.stamp
          BY <4>1, <3>1, <3>2 DEF BuildOf
        <4>3. ASSUME BuildsOn(o.doc)'
              PROVE  /\ outWorker.stamp =< docs'[o.doc].stamp
                     /\ \A l \in docs'[o.doc].links : l.order > 0 => l.stamp =< outWorker.stamp
          <5>1. docs'[o.doc].here /\ docs'[o.doc].born = outWorker.born
            BY <4>3 DEF BuildsOn
          <5>2. BuildsOn(o.doc)
            BY <5>1, <3>3, <3>6 DEF Moves, BuildsOn
          <5>3. outWorker.stamp =< docs[o.doc].stamp
                /\ \A l \in docs[o.doc].links : l.order > 0 => l.stamp =< outWorker.stamp
            BY <5>2, <4>1, <3>2 DEF BuildOf
          <5>4. docs[o.doc].stamp \in Nat /\ docs'[o.doc].stamp \in Nat /\ docs[o.doc].stamp =< docs'[o.doc].stamp
            BY <3>3, <3>9, <5>1, <5>2 DEF Moves, BuildsOn, OutboxRow
          <5>5. \A l \in docs'[o.doc].links : l \in docs[o.doc].links \/ l.order = 0
            BY <3>3 DEF Moves
          <5> QED  BY <2>1, <5>3, <5>4, <5>5
        <4> QED  BY <4>2, <4>3, <3>1
      <3> QED  BY <3>1, <3>4, <3>5, <3>7, <3>8, <3>9 DEF BuildOf, BuildsOn
    <2> QED  BY <2>1, <2>2, <1>t DEF BuildRight
  <1>5. BigWasShared' /\ SentOnce'
    BY <1>1 DEF BigWasShared, SentOnce, TallyGrows
  <1> QED  BY <1>2, <1>3, <1>4, <1>5 DEF OutboxRest

\* A row that is left alone.
LEMMA RowUnmoved ==
  ASSUME OutboxInv, OutboxShape', TallyGrows, NEW i \in Doc, docs'[i] = docs[i]
  PROVE  RowRight(i)' /\ Moves(i)
  <1>1. RowRight(i) /\ docs[i] \in OutboxRow
    BY DEF OutboxInv, OutboxRest, RowsRight, OutboxShape
  <1>2. \A t \in Nat : KnownTime(tally, i, t) => KnownTime(tally', i, t)
    BY KnownStays DEF OutboxInv
  <1>3. docs[i].born \in Nat /\ docs[i].stamp \in Nat /\ \A l \in docs[i].links : l.stamp \in Nat /\ l.order \in Nat
    BY <1>1 DEF OutboxRow, Link
  <1>4. tally.order \in Nat /\ tally'.order \in Nat /\ tally.order =< tally'.order
    BY DEF TallyGrows, OutboxInv, OutboxShape, Tally
  <1>5. RowRight(i)'
    BY <1>1, <1>2, <1>3, <1>4 DEF RowRight, TallyGrows
  <1>6. Moves(i)
    BY <1>3 DEF Moves, Carries
  <1> QED  BY <1>5, <1>6

LEMMA RowsUnmoved ==
  ASSUME OutboxInv, OutboxShape', docs' = docs, TallyGrows
  PROVE  RowsRight' /\ \A i \in Doc : Moves(i)
  BY RowUnmoved DEF RowsRight

\* A step counted against a bound, or none.
LEMMA Counted ==
  ASSUME tally \in Tally, Count("copies", MaxCopies) \/ Count("other", MaxOther) \/ UNCHANGED tally
  PROVE  /\ tally' \in Tally /\ tally'.now = tally.now /\ tally'.order = tally.order
         /\ tally'.merged = tally.merged /\ tally'.setBack = tally.setBack /\ TallyGrows
  <1>1. tally.copies + 1 \in Nat /\ tally.other + 1 \in Nat
        /\ \A n \in Nat : [tally EXCEPT !.copies = n] \in Tally /\ [tally EXCEPT !.other = n] \in Tally
    BY DEF Tally
  <1>2. /\ tally' \in Tally /\ tally'.now = tally.now /\ tally'.order = tally.order
        /\ tally'.merged = tally.merged /\ tally'.setBack = tally.setBack
    BY <1>1 DEF Count, Tally
  <1> QED  BY <1>2 DEF TallyGrows, Tally

\* The clock and the order go on.
LEMMA TallyMoves ==
  ASSUME tally \in Tally, NEW now \in Nat, NEW order \in Nat, NEW count \in Nat, NEW back \in BOOLEAN,
         tally.now =< now, tally.order =< order, tally.setBack => back,
         tally' = [tally EXCEPT !.now = now, !.order = order, !.copies = count, !.setBack = back]
  PROVE  /\ tally' \in Tally /\ tally'.now = now /\ tally'.order = order /\ tally'.merged = tally.merged
         /\ (tally'.setBack => back) /\ (back => tally'.setBack) /\ TallyGrows
  <1>1. tally' \in Tally
    BY DEF Tally
  <1>2. tally'.now = now /\ tally'.order = order /\ tally'.merged = tally.merged
    BY DEF Tally
  <1>3. tally'.setBack = back
    BY DEF Tally
  <1> QED  BY <1>1, <1>2, <1>3 DEF TallyGrows

LEMMA OrderMoves ==
  ASSUME tally \in Tally, NEW order \in Nat, NEW count \in Nat, tally.order =< order,
         tally' = [tally EXCEPT !.order = order, !.copies = count]
  PROVE  tally' \in Tally /\ tally'.order = order /\ tally'.now = tally.now /\ TallyGrows
  <1>1. tally' \in Tally
    BY DEF Tally
  <1>2. /\ tally'.order = order /\ tally'.now = tally.now /\ tally'.merged = tally.merged
        /\ tally'.setBack = tally.setBack /\ tally.now \in Nat
    BY DEF Tally
  <1> QED  BY <1>1, <1>2 DEF TallyGrows

LEMMA SomeKept ==
  ASSUME OutboxInv, waiting' \in SUBSET waiting, TallyGrows, tally' \in Tally, sharedDocs \subseteq sharedDocs'
  PROVE  EntriesKept
  <1>1. EntriesRight /\ tally \in Tally /\ waiting \in SUBSET Entry
    BY DEF OutboxInv, OutboxRest, OutboxShape
  <1>2. ASSUME NEW q \in waiting'
        PROVE  /\ q.order =< tally'.order /\ (q.force \/ q.manual => q.doc \in sharedDocs')
               /\ \E o \in waiting : o.order = q.order /\ o.doc = q.doc
    <2>1. q \in waiting /\ q.order \in Nat /\ tally.order \in Nat /\ tally'.order \in Nat
      BY <1>1 DEF Entry, Tally
    <2> QED  BY <1>1, <2>1 DEF EntriesRight, TallyGrows
  <1> QED  BY <1>1, <1>2 DEF EntriesKept, EntriesRight

\* Entries that are replaced by what has the same order.
LEMMA Renewed ==
  ASSUME OutboxInv, NEW renewed \in SUBSET waiting, NEW new \in [renewed -> Entry],
         \A o \in renewed : /\ new[o].order = o.order /\ new[o].doc = o.doc
                            /\ new[o].force \/ new[o].manual => o.doc \in sharedDocs',
         waiting' = (waiting \ renewed) \cup {new[o] : o \in renewed},
         TallyGrows, tally' \in Tally, sharedDocs \subseteq sharedDocs'
  PROVE  waiting' \in SUBSET Entry /\ EntriesKept
  <1>1. EntriesRight /\ tally \in Tally /\ waiting \in SUBSET Entry
    BY DEF OutboxInv, OutboxRest, OutboxShape
  <1>2. waiting' \in SUBSET Entry
    BY <1>1
  <1>3. ASSUME NEW q \in waiting'
        PROVE  \E o \in waiting : /\ o.order = q.order /\ o.doc = q.doc
                                  /\ (o \notin renewed /\ q = o) \/ (o \in renewed /\ q = new[o])
                                  /\ q.force \/ q.manual => q.doc \in sharedDocs'
    <2>1. CASE q \in waiting \ renewed
      BY <2>1, <1>1 DEF EntriesRight
    <2>2. CASE \E o \in renewed : q = new[o]
      BY <2>2
    <2> QED  BY <2>1, <2>2
  <1>4. ASSUME NEW q \in waiting', NEW r \in waiting', q.order = r.order PROVE q = r
    <2>1. PICK o \in waiting : o.order = q.order /\ ((o \notin renewed /\ q = o) \/ (o \in renewed /\ q = new[o]))
      BY <1>3
    <2>2. PICK p \in waiting : p.order = r.order /\ ((p \notin renewed /\ r = p) \/ (p \in renewed /\ r = new[p]))
      BY <1>3
    <2>3. o = p
      BY <2>1, <2>2, <1>1, <1>4 DEF EntriesRight
    <2> QED  BY <2>1, <2>2, <2>3
  <1>5. ASSUME NEW q \in waiting'
        PROVE  /\ q.order =< tally'.order /\ (q.force \/ q.manual => q.doc \in sharedDocs')
               /\ \E o \in waiting : o.order = q.order /\ o.doc = q.doc
    <2>1. PICK o \in waiting : o.order = q.order /\ o.doc = q.doc /\ (q.force \/ q.manual => q.doc \in sharedDocs')
      BY <1>3
    <2>2. o.order =< tally.order /\ o.order \in Nat /\ tally.order \in Nat /\ tally'.order \in Nat
      BY <1>1 DEF EntriesRight, Entry, Tally
    <2> QED  BY <2>1, <2>2 DEF TallyGrows
  <1> QED  BY <1>2, <1>4, <1>5 DEF EntriesKept

Options == [force : BOOLEAN, history : BOOLEAN, manual : BOOLEAN]

LEMMA Staged ==
  ASSUME OutboxInv, NEW i \in Doc, NEW source \in Nat, NEW options \in Options,
         waiting' = StageOn(waiting, i, source, options), tally' \in Tally, TallyGrows, tally'.order = NextOrder,
         sharedDocs \subseteq sharedDocs', options.force \/ options.manual => i \in sharedDocs'
  PROVE  waiting' \in SUBSET Entry /\ EntriesKept
  <1> DEFINE same == {o \in waiting : /\ o.doc = i /\ o.source = source
                                      /\ o.force = options.force /\ o.history = options.history}
             added == [order |-> NextOrder, doc |-> i, source |-> source, force |-> options.force,
                       history |-> options.history, manual |-> options.manual, due |-> TRUE]
             New(o) == [o EXCEPT !.due = TRUE, !.manual = @ \/ options.manual]
  <1>1. EntriesRight /\ tally \in Tally /\ waiting \in SUBSET Entry
    BY DEF OutboxInv, OutboxRest, OutboxShape
  <1>2. CASE same = {}
    <2>1. waiting' = waiting \cup {added}
      BY <1>2 DEF StageOn
    <2>2. NextOrder \in Nat /\ tally.order \in Nat /\ NextOrder > tally.order
      BY <1>1 DEF NextOrder, Tally
    <2>3. added \in Entry /\ added.order = NextOrder /\ added.doc = i
          /\ (added.force \/ added.manual => i \in sharedDocs')
      BY <2>2 DEF Entry, Options
    <2> HIDE DEF added, same
    <2>4. ASSUME NEW q \in waiting
          PROVE  /\ q.order =< tally.order /\ q.order \in Nat /\ q.order # NextOrder /\ q.order =< NextOrder
                 /\ q.force \/ q.manual => q.doc \in sharedDocs'
      <3>1. q.order =< tally.order /\ q.order \in Nat
        BY <1>1 DEF EntriesRight, Entry
      <3> QED  BY <1>1, <2>2, <3>1 DEF EntriesRight
    <2>5. \A q, r \in waiting' : q.order = r.order => q = r
      BY <2>1, <2>3, <2>4, <1>1 DEF EntriesRight
    <2>6. ASSUME NEW q \in waiting'
          PROVE  /\ q.order =< tally'.order /\ (q.force \/ q.manual => q.doc \in sharedDocs')
                 /\ (\E o \in waiting : o.order = q.order /\ o.doc = q.doc) \/ q.order > tally.order
      BY <2>1, <2>2, <2>3, <2>4
    <2> QED  BY <2>1, <2>3, <2>5, <2>6, <1>1 DEF EntriesKept
  <1>3. CASE same # {}
    <2>1. waiting' = (waiting \ same) \cup {New(o) : o \in same}
      BY <1>3 DEF StageOn
    <2>2. ASSUME NEW o \in same
          PROVE  /\ New(o) \in Entry /\ New(o).order = o.order /\ New(o).doc = o.doc
                 /\ New(o).force \/ New(o).manual => o.doc \in sharedDocs'
      <3>1. o \in Entry /\ o.doc = i /\ o \in waiting
        BY <1>1
      <3>2. (o.manual \/ options.manual) \in BOOLEAN
        OBVIOUS
      <3>3. \A m \in BOOLEAN : /\ [o EXCEPT !.due = TRUE, !.manual = m] \in Entry
                               /\ [o EXCEPT !.due = TRUE, !.manual = m].order = o.order
                               /\ [o EXCEPT !.due = TRUE, !.manual = m].doc = o.doc
                               /\ [o EXCEPT !.due = TRUE, !.manual = m].force = o.force
                               /\ [o EXCEPT !.due = TRUE, !.manual = m].manual = m
        BY ONLY <3>1 DEF Entry
      <3>4. /\ New(o) \in Entry /\ New(o).order = o.order /\ New(o).doc = o.doc
            /\ New(o).force = o.force /\ New(o).manual = (o.manual \/ options.manual)
        BY <3>2, <3>3
      <3> HIDE DEF New
      <3> QED  BY <1>1, <3>1, <3>4 DEF EntriesRight
    <2>3. same \in SUBSET waiting
      OBVIOUS
    <2> DEFINE new == [o \in same |-> New(o)]
    <2>4. new \in [same -> Entry] /\ \A o \in same : new[o] = New(o)
      <3> HIDE DEF New, same
      <3> QED  BY <2>2
    <2>5. waiting' = (waiting \ same) \cup {new[o] : o \in same}
      <3> HIDE DEF New, same, new
      <3> QED  BY <2>1, <2>4
    <2> HIDE DEF New, same, new
    <2>6. \A o \in same : /\ new[o].order = o.order /\ new[o].doc = o.doc
                          /\ new[o].force \/ new[o].manual => o.doc \in sharedDocs'
      BY <2>2, <2>4
    <2> QED  BY <2>3, <2>4, <2>5, <2>6, Renewed
  <1> QED  BY <1>2, <1>3

LEMMA OutboxStarts == OutboxInit => OutboxInv
  <1> SUFFICES ASSUME OutboxInit PROVE OutboxInv
    OBVIOUS
  <1>1. OutboxShape
    <2>1. tally \in Tally /\ tally.now % 2 = 0
      BY DEF OutboxInit, Tally
    <2>2. outWorker \in WorkerCell /\ backfill \in [done : BOOLEAN, left : SUBSET Doc]
      BY DEF OutboxInit, Asleep, NotFilling, WorkerCell
    <2>3. docs \in [Doc -> OutboxRow]
      BY DEF OutboxInit, Absent, OutboxRow
    <2> QED  BY <2>1, <2>2, <2>3 DEF OutboxInit, OutboxShape
  <1>2. ASSUME NEW i \in Doc PROVE RowRight(i)
    <2>1. docs[i].links = {} /\ (docs[i].here => docs[i].born = 2 /\ docs[i].stamp = 2)
          /\ (~docs[i].here => docs[i].stamp = 0)
      BY DEF OutboxInit, Absent
    <2>2. 2 \notin RemoteStamps
      <3>1. 2 % 2 = 0
        OBVIOUS
      <3> QED  BY <3>1, OutboxAssumption
    <2>3. KnownTime(tally, i, 2)
      BY <2>2 DEF OutboxInit, KnownTime
    <2> QED  BY <2>1, <2>3, FS_EmptySet DEF RowRight
  <1>3. EntriesRight /\ SentRight /\ BuildRight /\ BigWasShared /\ SentOnce
    BY DEF OutboxInit, EntriesRight, SentRight, BuildRight, BigWasShared, SentOnce, Asleep
  <1> QED  BY <1>1, <1>2, <1>3 DEF OutboxInv, OutboxRest, RowsRight

\* The options an entry is staged with.
LEMMA StagingOptions ==
  /\ Automatic \in Options /\ ~Automatic.force /\ ~Automatic.manual
  /\ Forced \in Options /\ Manual \in Options
  /\ History \in Options /\ ~History.force /\ ~History.manual
  BY DEF Options, Automatic, Forced, Manual, History

LEMMA CopyStays ==
  ASSUME OutboxInv, NEW i \in Doc, NEW share \in BOOLEAN, CopyDoc(i, share)
  PROVE  OutboxInv'
  <1> DEFINE now == tally.now + 2
             source == Larger(docs[i].source, now)
             row == [docs[i] EXCEPT !.here = TRUE, !.source = source, !.stamp = now,
                                    !.born = IF docs[i].here THEN docs[i].born ELSE now]
  <1>1. OutboxShape /\ docs[i] \in OutboxRow /\ RowRight(i) /\ EntriesRight /\ tally \in Tally
    BY DEF OutboxInv, OutboxRest, OutboxShape, RowsRight
  <1>2. now \in Nat /\ source \in Nat /\ now % 2 = 0 /\ now > tally.now /\ NextOrder \in Nat
    BY <1>1 DEF OutboxShape, Tally, OutboxRow, Larger, NextOrder
  <1>3. /\ tally' \in Tally /\ tally'.now = now /\ tally'.order = NextOrder /\ tally'.merged = tally.merged
        /\ (~tally'.setBack => ~tally.setBack /\ ~(now < docs[i].stamp)) /\ TallyGrows
    <2>1. PICK back \in BOOLEAN : back = (tally.setBack \/ now < docs[i].stamp)
      OBVIOUS
    <2>2. tally.copies + 1 \in Nat /\ tally.now =< now /\ tally.order =< NextOrder
      BY <1>1, <1>2 DEF Tally, NextOrder
    <2>3. tally' = [tally EXCEPT !.now = now, !.order = NextOrder, !.copies = tally.copies + 1, !.setBack = back]
      BY <2>1 DEF CopyDoc
    <2>4. tally.setBack => back
      BY <2>1
    <2> HIDE DEF now
    <2>5. /\ tally' \in Tally /\ tally'.now = now /\ tally'.order = NextOrder /\ tally'.merged = tally.merged
          /\ (back => tally'.setBack) /\ TallyGrows
      BY <2>2, <2>3, <2>4, <1>1, <1>2, TallyMoves
    <2> QED  BY <2>1, <2>5
  <1>4. TallyGrows
    BY <1>3
  <1>5. row \in OutboxRow /\ row.here /\ row.stamp = now /\ row.links = docs[i].links
        /\ row.born = (IF docs[i].here THEN docs[i].born ELSE now)
    <2> HIDE DEF now, source
    <2> QED  BY <1>1, <1>2 DEF OutboxRow
  <1>6. docs' = [docs EXCEPT ![i] = row]
    BY Zenon DEF CopyDoc
  <1> HIDE DEF row, source
  <1>7. docs' \in [Doc -> OutboxRow] /\ docs'[i] = row /\ \A j \in Doc : j # i => docs'[j] = docs[j]
    BY <1>1, <1>5, <1>6 DEF OutboxShape
  <1>8. sharedDocs' \in SUBSET Doc /\ sharedDocs \subseteq sharedDocs' /\ (share => i \in sharedDocs')
        /\ (CarriesShare(i) => i \in sharedDocs')
    BY <1>1 DEF CopyDoc, OutboxShape, EntriesRight, CarriesShare
  <1>9. waiting' \in SUBSET Entry /\ EntriesKept
    <2>1. CASE waiting' = StageOn(waiting, i, source, Manual) /\ (share \/ CarriesShare(i))
      BY <2>1, <1>2, <1>3, <1>4, <1>8, StagingOptions, Staged
    <2>2. CASE waiting' = StageOn(waiting, i, source, Automatic)
      BY <2>2, <1>2, <1>3, <1>4, <1>8, StagingOptions, Staged
    <2>3. CASE waiting' = waiting
      BY <2>3, <1>1, <1>3, <1>4, <1>8, SomeKept DEF OutboxShape
    <2> QED  BY <2>1, <2>2, <2>3 DEF CopyDoc, source
  <1>10. OutboxShape'
    BY <1>1, <1>2, <1>3, <1>7, <1>8, <1>9 DEF CopyDoc, OutboxShape
  <1>11. RowRight(i)' /\ Moves(i)
    <2>1. ~KnownTime(tally, i, now) /\ KnownTime(tally', i, now)
      <3>1. now =< tally'.now
        BY <1>2, <1>3
      <3> QED  BY <3>1, <1>1, NewTime DEF KnownTime
    <2>2. \A t \in Nat : KnownTime(tally, i, t) => KnownTime(tally', i, t)
      BY <1>1, <1>4, <1>10, KnownStays
    <2>3. docs[i].born \in Nat /\ docs[i].stamp \in Nat /\ \A l \in docs[i].links : l.stamp \in Nat /\ l.order \in Nat
      BY <1>1 DEF OutboxRow, Link
    <2>4. tally.order \in Nat /\ tally'.order \in Nat /\ tally.order =< tally'.order
      BY <1>1, <1>3, <1>4 DEF TallyGrows, Tally
    <2>5. ~tally'.setBack => ~tally.setBack /\ docs[i].stamp =< now
      BY <1>2, <1>3, <2>3
    <2>6. KnownTime(tally', i, row.born) /\ KnownTime(tally', i, row.stamp)
      BY <2>1, <2>2, <2>3, <1>1, <1>5 DEF RowRight
    <2> HIDE DEF now
    <2>7. ASSUME NEW l \in docs[i].links
          PROVE  /\ KnownTime(tally', i, l.stamp) /\ l.order =< tally'.order
                 /\ ~tally'.setBack => l.stamp =< now
      BY <2>2, <2>3, <2>4, <2>5, <1>1, <1>2 DEF RowRight
    <2>8. RowRight(i)'
      BY <2>5, <2>6, <2>7, <1>1, <1>5, <1>7 DEF RowRight
    <2>9. Moves(i)
      BY <2>1, <2>5, <1>1, <1>5, <1>7 DEF Moves
    <2> QED  BY <2>8, <2>9
  <1>12. RowsRight' /\ \A j \in Doc : Moves(j)
    BY <1>4, <1>7, <1>10, <1>11, RowUnmoved DEF RowsRight
  <1>13. OutboxRest'
    BY <1>4, <1>8, <1>9, <1>10, <1>12, OutboxKept DEF CopyDoc
  <1> QED  BY <1>10, <1>13 DEF OutboxInv

\* What changes neither the rows nor what was sent, and begins no event.
LEMMA RowsAside ==
  ASSUME OutboxInv, docs' = docs, sent' = sent, TallyGrows, tally' \in Tally, tally'.now = tally.now,
         waiting' \in SUBSET Entry, EntriesKept,
         sharedDocs \subseteq sharedDocs', sharedDocs' \in SUBSET Doc, manualOnly' \in SUBSET Doc,
         choices' \in [on : BOOLEAN, sensitive : BOOLEAN], backfill' \in [done : BOOLEAN, left : SUBSET Doc],
         outWorker' \in WorkerCell, outWorker' = outWorker \/ outWorker'.at # "building",
         outWake' \in BOOLEAN, merging' \in Doc \cup {NoDoc}
  PROVE  OutboxInv'
  <1>1. OutboxShape'
    BY DEF OutboxInv, OutboxShape
  <1> QED  BY <1>1, RowsUnmoved, OutboxKept DEF OutboxInv

\* The entries that are staged beside a copy.
LEMMA StagingStays ==
  ASSUME OutboxInv, NEW i \in Doc, ShareDoc(i) \/ BackfillDoc(i)
  PROVE  OutboxInv'
  <1>1. OutboxShape /\ docs[i] \in OutboxRow /\ docs[i].source \in Nat /\ tally \in Tally /\ NextOrder \in Nat
        /\ NextOrder > tally.order /\ tally.order \in Nat
    BY DEF OutboxInv, OutboxShape, OutboxRow, Tally, NextOrder
  <1>2. CASE ShareDoc(i)
    <2>1. tally' \in Tally /\ tally'.order = NextOrder /\ tally'.now = tally.now /\ TallyGrows
      <3>1. tally.copies + 1 \in Nat /\ tally.order =< NextOrder
        BY <1>1 DEF Tally
      <3>2. tally' = [tally EXCEPT !.order = NextOrder, !.copies = tally.copies + 1]
        BY <1>2 DEF ShareDoc
      <3> QED  BY <3>1, <3>2, <1>1, OrderMoves
    <2>2. sharedDocs' \in SUBSET Doc /\ sharedDocs \subseteq sharedDocs' /\ i \in sharedDocs'
      BY <1>2, <1>1 DEF ShareDoc, OutboxShape
    <2>3. waiting' \in SUBSET Entry /\ EntriesKept
      BY <1>1, <1>2, <2>1, <2>2, StagingOptions, Staged DEF ShareDoc
    <2> QED  BY <1>1, <1>2, <2>1, <2>2, <2>3, RowsAside DEF ShareDoc, OutboxShape
  <1>3. CASE BackfillDoc(i)
    <2>1. tally' \in Tally /\ tally'.now = tally.now /\ TallyGrows /\ (docs[i].here => tally'.order = NextOrder)
      <3>1. \A k \in Nat :
               /\ [tally EXCEPT !.order = k] \in Tally
               /\ [tally EXCEPT !.order = k].order = k
               /\ [tally EXCEPT !.order = k].now = tally.now
               /\ [tally EXCEPT !.order = k].merged = tally.merged
               /\ [tally EXCEPT !.order = k].setBack = tally.setBack
        BY ONLY <1>1 DEF Tally
      <3>2. tally.now \in Nat
        BY <1>1 DEF Tally
      <3>3. tally' = IF docs[i].here THEN [tally EXCEPT !.order = NextOrder] ELSE tally
        BY <1>3 DEF BackfillDoc
      <3> QED  BY <3>1, <3>2, <3>3, <1>1 DEF TallyGrows
    <2>2. waiting' \in SUBSET Entry /\ EntriesKept
      <3>1. CASE docs[i].here
        <4>1. waiting' = StageOn(waiting, i, docs[i].source, History)
          BY <1>3, <3>1 DEF BackfillDoc
        <4>2. sharedDocs' = sharedDocs
          BY <1>3 DEF BackfillDoc
        <4> QED  BY <4>1, <4>2, <1>1, <2>1, <3>1, StagingOptions, Staged
      <3>2. CASE ~docs[i].here
        BY <1>1, <1>3, <2>1, <3>2, SomeKept DEF BackfillDoc, OutboxShape
      <3> QED  BY <3>1, <3>2
    <2>3. backfill' \in [done : BOOLEAN, left : SUBSET Doc] /\ outWake' \in BOOLEAN
      BY <1>1, <1>3 DEF BackfillDoc, OutboxShape
    <2> QED  BY <1>1, <1>3, <2>1, <2>2, <2>3, RowsAside DEF BackfillDoc, OutboxShape
  <1> QED  BY <1>2, <1>3

\* What changes one row, and nothing that waits or was sent.
LEMMA RowAside ==
  ASSUME OutboxInv, NEW i \in Doc, NEW row \in OutboxRow, docs' = [docs EXCEPT ![i] = row],
         TallyGrows, tally' \in Tally, tally'.now = tally.now,
         waiting' = waiting, sent' = sent, sharedDocs' = sharedDocs, choices' = choices, backfill' = backfill,
         outWorker' = outWorker, outWake' \in BOOLEAN, merging' \in Doc \cup {NoDoc},
         manualOnly' \in SUBSET Doc,
         OutboxShape' => RowRight(i)' /\ Moves(i)
  PROVE  OutboxInv'
  <1>1. OutboxShape /\ waiting' \in SUBSET waiting
    BY DEF OutboxInv
  <1>2. docs' \in [Doc -> OutboxRow] /\ \A j \in Doc : j # i => docs'[j] = docs[j]
    BY <1>1 DEF OutboxShape
  <1>3. OutboxShape'
    BY <1>1, <1>2 DEF OutboxShape
  <1>4. RowsRight' /\ \A j \in Doc : Moves(j)
    BY <1>2, <1>3, RowUnmoved DEF RowsRight
  <1>5. EntriesKept
    BY <1>1, SomeKept
  <1> QED  BY <1>3, <1>4, <1>5, OutboxKept DEF OutboxInv

LEMMA DeleteStays ==
  ASSUME OutboxInv, NEW i \in Doc, DeleteDoc(i)
  PROVE  OutboxInv'
  <1>1. OutboxShape /\ tally \in Tally
    BY DEF OutboxInv, OutboxShape
  <1>2. tally' \in Tally /\ tally'.now = tally.now /\ TallyGrows
    BY <1>1, Counted DEF DeleteDoc
  <1>3. docs' = [docs EXCEPT ![i] = Absent] /\ docs'[i] = Absent /\ manualOnly' \in SUBSET Doc
    BY <1>1 DEF DeleteDoc, OutboxShape
  <1>4. Absent \in OutboxRow /\ ~Absent.here /\ Absent.links = {} /\ Absent.stamp = 0
    BY DEF Absent, OutboxRow
  <1>5. RowRight(i)' /\ Moves(i)
    BY <1>3, <1>4, FS_EmptySet DEF RowRight, Moves
  <1> QED  BY <1>1, <1>2, <1>3, <1>4, <1>5, RowAside DEF DeleteDoc, OutboxShape

LEMMA MergeStays ==
  ASSUME OutboxInv, NEW i \in Doc, NEW stamp \in RemoteStamps, MergeRemote(i, stamp)
  PROVE  OutboxInv'
  <1> DEFINE row == [here |-> TRUE, born |-> IF docs[i].here THEN docs[i].born ELSE stamp,
                     source |-> Larger(docs[i].source, stamp), stamp |-> Larger(docs[i].stamp, stamp),
                     links |-> docs[i].links \cup {[stamp |-> stamp, order |-> 0]}]
             added == [stamp |-> stamp, order |-> 0]
  <1>1. OutboxShape /\ docs[i] \in OutboxRow /\ RowRight(i) /\ tally \in Tally /\ stamp \in Nat
    BY OutboxAssumption DEF OutboxInv, OutboxRest, OutboxShape, RowsRight
  <1>2. tally' \in Tally /\ tally'.now = tally.now /\ tally'.order = tally.order /\ tally'.setBack = tally.setBack
        /\ tally'.merged = tally.merged \cup {<<i, stamp>>} /\ TallyGrows
    <2>1. tally.other + 1 \in Nat /\ tally.merged \cup {<<i, stamp>>} \in SUBSET (Doc \X RemoteStamps)
      BY <1>1 DEF Tally
    <2>2. \A n \in Nat, m \in SUBSET (Doc \X RemoteStamps) : [tally EXCEPT !.other = n, !.merged = m] \in Tally
      BY <1>1 DEF Tally
    <2>3. tally' = [tally EXCEPT !.other = tally.other + 1, !.merged = tally.merged \cup {<<i, stamp>>}]
      BY DEF MergeRemote
    <2>4. tally' \in Tally
      BY <2>1, <2>2, <2>3
    <2>5. tally'.now = tally.now /\ tally'.order = tally.order /\ tally'.setBack = tally.setBack
          /\ tally'.merged = tally.merged \cup {<<i, stamp>>}
      BY <2>3, <1>1 DEF Tally
    <2>6. tally.now \in Nat /\ tally.order \in Nat
      BY <1>1 DEF Tally
    <2> QED  BY <2>4, <2>5, <2>6 DEF TallyGrows
  <1>3. docs' = [docs EXCEPT ![i] = row]
    BY DEF MergeRemote
  <1>4. docs[i].stamp \in Nat /\ docs[i].source \in Nat /\ docs[i].born \in Nat /\ docs[i].here \in BOOLEAN
        /\ docs[i].links \in SUBSET Link
        /\ \A l \in docs[i].links : l.stamp \in Nat /\ l.order \in Nat
    BY <1>1 DEF OutboxRow, Link
  <1>5. added \in Link /\ added.stamp = stamp /\ added.order = 0
    BY <1>1 DEF Link
  <1>6. /\ row \in OutboxRow /\ row.here /\ row.links = docs[i].links \cup {added}
        /\ row.born = (IF docs[i].here THEN docs[i].born ELSE stamp)
        /\ row.stamp = Larger(docs[i].stamp, stamp)
    <2>1. Larger(docs[i].stamp, stamp) \in Nat /\ Larger(docs[i].source, stamp) \in Nat
      BY <1>1, <1>4 DEF Larger
    <2>2. docs[i].links \cup {added} \in SUBSET Link
      BY <1>4, <1>5
    <2> QED  BY <2>1, <2>2, <1>1, <1>4 DEF OutboxRow
  <1>7. docs'[i] = row
    BY <1>1, <1>3 DEF OutboxShape
  <1> HIDE DEF row, added
  <1>8. ASSUME OutboxShape' PROVE RowRight(i)' /\ Moves(i)
    <2>1. ~KnownTime(tally, i, stamp) /\ KnownTime(tally', i, stamp)
      BY <1>2, NewMerge DEF MergeRemote, KnownTime
    <2>2. \A t \in Nat : KnownTime(tally, i, t) => KnownTime(tally', i, t)
      BY <1>1, <1>2, <1>8, KnownStays
    <2>3. /\ row.stamp \in Nat /\ docs[i].stamp =< row.stamp /\ stamp =< row.stamp
          /\ row.stamp = stamp \/ (docs[i].here /\ row.stamp = docs[i].stamp)
      <3>1. ~docs[i].here => docs[i].stamp = 0
        BY <1>1 DEF RowRight
      <3> QED  BY <3>1, <1>1, <1>4, <1>6 DEF Larger
    <2>4. tally.order \in Nat
      BY <1>1 DEF Tally
    <2>5. IsFiniteSet(row.links)
      BY <1>1, <1>6, FS_AddElement DEF RowRight
    <2>6. KnownTime(tally', i, row.born) /\ KnownTime(tally', i, row.stamp)
      BY <1>1, <1>4, <1>6, <2>1, <2>2, <2>3 DEF RowRight
    <2>7. \A l \in row.links : KnownTime(tally', i, l.stamp) /\ l.order =< tally'.order
      BY <1>1, <1>2, <1>4, <1>5, <1>6, <2>1, <2>2, <2>4 DEF RowRight
    <2>8. ASSUME ~tally'.setBack
          PROVE  /\ \A l \in row.links : l.stamp =< row.stamp
                 /\ \A l, m \in row.links : 0 < l.order /\ l.order < m.order => l.stamp =< m.stamp
      <3>1. ~tally.setBack
        BY <2>8, <1>2
      <3>2. ASSUME NEW l \in row.links PROVE l.stamp =< row.stamp
        BY <3>1, <1>1, <1>4, <1>5, <1>6, <2>3 DEF RowRight
      <3>3. ASSUME NEW l \in row.links, NEW m \in row.links, 0 < l.order, l.order < m.order PROVE l.stamp =< m.stamp
        <4>1. l # added /\ l.order \in Nat
          BY <1>4, <1>5, <1>6, <3>3
        <4>2. m # added
          BY <4>1, <1>5, <3>3
        <4> QED  BY <4>1, <4>2, <3>1, <3>3, <1>1, <1>6 DEF RowRight
      <3> QED  BY <3>2, <3>3
    <2>9. RowRight(i)'
      BY <1>6, <1>7, <2>5, <2>6, <2>7, <2>8 DEF RowRight
    <2>10. Moves(i)
      <3>1. docs[i].here => Carries(i, docs[i].stamp)
        BY DEF Carries
      <3> QED  BY <3>1, <1>5, <1>6, <1>7, <2>1, <2>3 DEF Moves
    <2> QED  BY <2>9, <2>10
  <1> QED  BY <1>1, <1>2, <1>3, <1>6, <1>8, RowAside DEF MergeRemote, OutboxShape

LEMMA ReconcileStays ==
  ASSUME OutboxInv, NEW i \in Doc, Reconcile(i)
  PROVE  OutboxInv'
  <1> DEFINE linked == Latest({l.stamp : l \in docs[i].links})
             row == [docs[i] EXCEPT !.stamp = linked]
  <1>1. OutboxShape /\ docs[i] \in OutboxRow /\ RowRight(i) /\ tally \in Tally
    BY DEF OutboxInv, OutboxRest, OutboxShape, RowsRight
  <1>2. CASE docs[i].links = {}
    <2>1. UNCHANGED <<docs, tally>> /\ merging' = NoDoc
      BY <1>2 DEF Reconcile
    <2>2. TallyGrows
      BY <2>1, <1>1 DEF TallyGrows, Tally
    <2>3. docs' = docs /\ tally' = tally /\ tally' \in Tally /\ tally'.now = tally.now
      BY <2>1, <1>1
    <2>4. waiting' \in SUBSET waiting
      BY DEF Reconcile
    <2>5. EntriesKept
      BY <2>2, <2>3, <2>4, SomeKept DEF Reconcile
    <2> QED  BY <2>1, <2>2, <2>3, <2>4, <2>5, <1>1, RowsAside DEF Reconcile, OutboxShape
  <1>3. CASE docs[i].links # {}
    <2>1. docs[i].links \in SUBSET Link /\ docs[i].stamp \in Nat /\ docs[i].here
          /\ \A l \in docs[i].links : l.stamp \in Nat /\ l.order \in Nat
      BY <1>1, <1>3 DEF OutboxRow, Link, RowRight
    <2>2. /\ \E l \in docs[i].links : l.stamp = linked
          /\ \A l \in docs[i].links : l.stamp =< linked
      <3> DEFINE time == [l \in docs[i].links |-> l.stamp]
                 times == {l.stamp : l \in docs[i].links}
      <3>1. time \in [docs[i].links -> Nat]
        BY <2>1
      <3>2. IsFiniteSet(docs[i].links)
        BY <1>1 DEF RowRight
      <3>3. PICK m \in docs[i].links : \A l \in docs[i].links : time[l] =< time[m]
        <4> HIDE DEF time
        <4> QED  BY <3>1, <3>2, <1>3, GreatestOf
      <3>4. m.stamp \in times /\ \A u \in times : u =< m.stamp
        BY <3>3
      <3>5. linked \in times /\ \A u \in times : u =< linked
        BY <3>4 DEF Latest
      <3> QED  BY <3>5
    <2>3. linked \in Nat
      BY <2>1, <2>2
    <2> HIDE DEF linked
    <2>4. /\ row \in OutboxRow /\ row.here /\ row.links = docs[i].links /\ row.born = docs[i].born
          /\ row.stamp = linked
      BY <1>1, <2>1, <2>3 DEF OutboxRow
    <2>5. /\ docs' = [docs EXCEPT ![i] = row] /\ tally' = [tally EXCEPT !.setBack = @ \/ linked < docs[i].stamp]
          /\ merging' = NoDoc
      <3>1. docs' = [docs EXCEPT ![i].stamp = linked]
        BY <1>3 DEF Reconcile, linked
      <3>2. docs \in [Doc -> OutboxRow]
        BY <1>1 DEF OutboxShape
      <3>3. docs' = [docs EXCEPT ![i] = row]
        BY <3>1
      <3> QED  BY <3>3, <1>3 DEF Reconcile, linked
    <2>6. tally' \in Tally /\ tally'.now = tally.now /\ TallyGrows
          /\ (~tally'.setBack => ~tally.setBack /\ ~(linked < docs[i].stamp))
          /\ tally'.order = tally.order /\ tally'.merged = tally.merged
      <3>1. PICK back \in BOOLEAN : back = (tally.setBack \/ linked < docs[i].stamp)
        OBVIOUS
      <3>2. tally' = [tally EXCEPT !.setBack = back]
        BY <2>5, <3>1
      <3>3. tally' \in Tally
        BY <3>2, <1>1 DEF Tally
      <3>4. tally'.now = tally.now /\ tally'.order = tally.order /\ tally'.merged = tally.merged
            /\ tally'.setBack = back /\ tally.now \in Nat /\ tally.order \in Nat
        BY <3>2, <1>1 DEF Tally
      <3>5. (tally.setBack => back) /\ (~back => ~tally.setBack /\ ~(linked < docs[i].stamp))
        BY <3>1
      <3>6. (tally'.setBack => back) /\ (back => tally'.setBack)
        BY <3>4
      <3>7. TallyGrows
        BY <3>4, <3>5, <3>6 DEF TallyGrows
      <3> QED  BY <3>3, <3>4, <3>5, <3>6, <3>7
    <2>7. docs'[i] = row
      BY <1>1, <2>5 DEF OutboxShape
    <2> HIDE DEF row
    <2>8. ASSUME OutboxShape' PROVE RowRight(i)' /\ Moves(i)
      <3>1. \A t \in Nat : KnownTime(tally, i, t) => KnownTime(tally', i, t)
        BY <1>1, <2>6, <2>8, KnownStays
      <3>2. docs[i].born \in Nat
        BY <1>1 DEF OutboxRow
      <3>3. KnownTime(tally', i, row.born) /\ KnownTime(tally', i, row.stamp)
        BY <1>1, <2>1, <2>2, <2>4, <3>1, <3>2 DEF RowRight
      <3>4. \A l \in row.links : KnownTime(tally', i, l.stamp) /\ l.order =< tally'.order /\ l.stamp =< row.stamp
        BY <1>1, <2>1, <2>2, <2>4, <2>6, <3>1 DEF RowRight
      <3>5. ~tally'.setBack =>
               \A l, m \in row.links : 0 < l.order /\ l.order < m.order => l.stamp =< m.stamp
        BY <1>1, <2>4, <2>6 DEF RowRight
      <3>6. RowRight(i)'
        BY <1>1, <2>4, <2>7, <3>3, <3>4, <3>5 DEF RowRight
      <3>7. ~tally'.setBack => docs[i].stamp =< row.stamp
        BY <2>1, <2>3, <2>4, <2>6
      <3>8. Carries(i, row.stamp)
        BY <2>2, <2>4 DEF Carries
      <3>9. Moves(i)
        BY <2>1, <2>4, <2>7, <3>7, <3>8 DEF Moves
      <3> QED  BY <3>6, <3>9
    <2> QED  BY <1>1, <2>4, <2>5, <2>6, <2>8, RowAside DEF Reconcile, OutboxShape
  <1> QED  BY <1>2, <1>3

LEMMA BuildStays ==
  ASSUME OutboxInv, NEW o \in waiting, BuildEvent(o)
  PROVE  OutboxInv'
  <1>1. OutboxShape /\ EntriesRight /\ RowsRight /\ SentRight /\ BigWasShared /\ SentOnce
    BY DEF OutboxInv, OutboxRest
  <1>2. o \in Entry /\ o.doc \in Doc /\ docs[o.doc] \in OutboxRow /\ RowRight(o.doc) /\ o.order \in Nat
    BY <1>1 DEF OutboxShape, Entry, RowsRight
  <1>3. outWorker' \in WorkerCell /\ outWorker'.order = o.order /\ outWorker'.born = docs[o.doc].born
        /\ outWorker'.stamp = docs[o.doc].stamp /\ outWorker'.sensitive = outWorker.sensitive
        /\ outWorker'.at = "building"
    BY <1>1, <1>2 DEF BuildEvent, OutboxShape, WorkerCell, OutboxRow
  <1>4. UNCHANGED <<docs, waiting, sent, manualOnly, choices, backfill, outWake, merging, sharedDocs, tally>>
    BY DEF BuildEvent
  <1>5. OutboxShape'
    BY <1>1, <1>3, <1>4 DEF OutboxShape
  <1>6. docs[o.doc].here /\ ~SentAlready(o.doc) /\ Due(o, outWorker.sensitive)
    BY DEF BuildEvent, Needless, Superseding, NextDue
  <1>7. /\ \A p \in waiting : p.doc = o.doc => p.order >= o.order
        /\ o.doc \in Sensitive => outWorker.sensitive \/ o.doc \in sharedDocs
    <2>1. Allowed(o, outWorker.sensitive) /\ \A p \in waiting : p.doc = o.doc => p.order >= o.order
      BY <1>6 DEF Due
    <2>2. o.doc \in Sensitive => outWorker.sensitive \/ o.doc \in sharedDocs
      BY <2>1, <1>1, <1>6 DEF Allowed, EntriesRight
    <2> QED  BY <2>1, <2>2
  <1>8. KnownTime(tally, o.doc, docs[o.doc].stamp) /\ KnownTime(tally, o.doc, docs[o.doc].born)
    BY <1>2, <1>6 DEF RowRight
  <1>9. ASSUME ~tally.setBack, NEW e \in sent, e.doc = o.doc, e.stamp = docs[o.doc].stamp PROVE FALSE
    <2> DEFINE links == docs[o.doc].links
               order == [l \in links |-> l.order]
    <2>1. IsFiniteSet(links) /\ order \in [links -> Nat]
          /\ \A l \in links : l.order \in Nat /\ l.stamp \in Nat
      BY <1>2 DEF RowRight, OutboxRow, Link
    <2>2. PICK l \in links : l.order > 0 /\ l.stamp = docs[o.doc].stamp
      BY <1>1, <1>6, <1>9 DEF SentRight, Carries, LinkedTo
    <2>3. PICK m \in links : \A k \in links : order[k] =< order[m]
      <3> HIDE DEF links, order
      <3> QED  BY <2>1, <2>2, GreatestOf
    <2>4. \A k \in links : k.order =< m.order
      BY <2>3
    <2>5. CASE m.order = l.order
      BY <2>2, <2>4, <2>5, <1>6 DEF SentAlready
    <2>6. CASE m.order # l.order
      <3>1. m.order > l.order /\ m.order > 0
        BY <2>1, <2>2, <2>4, <2>6
      <3>2. m.stamp =< docs[o.doc].stamp /\ l.stamp =< m.stamp
        BY <3>1, <2>2, <1>2, <1>9 DEF RowRight
      <3>3. m.stamp = docs[o.doc].stamp
        BY <2>1, <2>2, <3>2
      <3> QED  BY <2>4, <3>1, <3>3, <1>6 DEF SentAlready
    <2> QED  BY <2>5, <2>6
  <1>10. BuildOf(o)'
    <2>1. BuildsOn(o.doc)'
      BY <1>3, <1>4, <1>6 DEF BuildsOn
    <2>2. KnownTime(tally', o.doc, outWorker'.stamp) /\ KnownTime(tally', o.doc, outWorker'.born)
      BY <1>3, <1>4, <1>8
    <2>3. docs[o.doc].stamp \in Nat
      BY <1>2 DEF OutboxRow
    <2>4. ~tally.setBack => \A l \in docs[o.doc].links : l.stamp =< docs[o.doc].stamp
      BY <1>2 DEF RowRight
    <2> QED  BY <1>3, <1>4, <1>7, <1>9, <2>1, <2>2, <2>3, <2>4 DEF BuildOf
  <1>11. BuildRight'
    <2>1. \A p \in waiting : p.order = o.order => p = o
      BY <1>1 DEF EntriesRight
    <2>2. o.order =< tally.order
      BY <1>1 DEF EntriesRight
    <2> QED  BY <1>3, <1>4, <1>10, <2>1, <2>2 DEF BuildRight
  <1>12. EntriesRight' /\ RowsRight' /\ SentRight' /\ BigWasShared' /\ SentOnce'
    BY <1>1, <1>4 DEF EntriesRight, RowsRight, RowRight, SentRight, BigWasShared, SentOnce, KnownTime, Carries, LinkedTo
  <1> QED  BY <1>5, <1>11, <1>12 DEF OutboxInv, OutboxRest

LEMMA CommitStays ==
  ASSUME OutboxInv, NEW o \in waiting, CommitEvent(o)
  PROVE  OutboxInv'
  <1>0. PICK time \in Nat : time = outWorker.stamp
    BY DEF OutboxInv, OutboxShape, WorkerCell
  <1> DEFINE i == o.doc
             added == [stamp |-> time, order |-> o.order]
             event == [order |-> o.order, doc |-> i, stamp |-> time, force |-> o.force]
  <1>1. OutboxShape /\ EntriesRight /\ RowsRight /\ SentRight /\ BigWasShared /\ SentOnce /\ BuildRight
    BY DEF OutboxInv, OutboxRest
  <1>2. /\ o \in Entry /\ i \in Doc /\ docs[i] \in OutboxRow /\ RowRight(i) /\ o.order \in Nat /\ time \in Nat
        /\ o.order > 0 /\ o.order =< tally.order
    BY <1>1 DEF OutboxShape, Entry, RowsRight, WorkerCell, EntriesRight
  <1>3. BuildOf(o)
    BY <1>1 DEF BuildRight, CommitEvent
  <1>4. event \in SentEvent /\ event.doc = i /\ event.stamp = time
        /\ added \in Link /\ added.order = o.order /\ added.stamp = time
    BY <1>2 DEF SentEvent, Entry, Link
  <1>5. sent' = sent \cup {event} /\ waiting' = waiting \ {o} /\ UNCHANGED <<sharedDocs, tally>>
    BY <1>0 DEF CommitEvent
  <1>6. docs' \in [Doc -> OutboxRow] /\ \A j \in Doc : j # i => docs'[j] = docs[j]
    <2>1. CASE docs' = docs
      BY <2>1, <1>1 DEF OutboxShape
    <2>2. CASE docs' = [docs EXCEPT ![i].links = @ \cup {added}]
      <3>1. docs[i].links \cup {added} \in SUBSET Link
        BY <1>2, <1>4 DEF OutboxRow
      <3>2. \A s \in SUBSET Link : [docs[i] EXCEPT !.links = s] \in OutboxRow
        BY <1>2 DEF OutboxRow
      <3>3. docs' = [docs EXCEPT ![i] = [docs[i] EXCEPT !.links = docs[i].links \cup {added}]]
        BY <2>2
      <3> QED  BY <3>1, <3>2, <3>3, <1>1 DEF OutboxShape
    <2> QED  BY <2>1, <2>2, <1>0 DEF CommitEvent
  <1>7. /\ docs'[i].here = docs[i].here /\ docs'[i].born = docs[i].born /\ docs'[i].stamp = docs[i].stamp
        /\ docs'[i].links = IF BuildsOn(i) THEN docs[i].links \cup {added} ELSE docs[i].links
    <2>1. docs \in [Doc -> OutboxRow]
      BY <1>1 DEF OutboxShape
    <2>2. CASE BuildsOn(i)
      <3>1. docs' = [docs EXCEPT ![i].links = @ \cup {added}]
        BY <1>0, <2>2 DEF CommitEvent, BuildsOn
      <3>2. docs'[i] = [docs[i] EXCEPT !.links = @ \cup {added}]
        BY <3>1, <2>1, <1>2
      <3> QED  BY <3>2, <2>2, <1>2 DEF OutboxRow
    <2>3. CASE ~BuildsOn(i)
      BY <2>3 DEF CommitEvent, BuildsOn
    <2> QED  BY <2>2, <2>3
  <1>8. OutboxShape'
    <2>1. outWorker' \in WorkerCell
      BY <1>1 DEF CommitEvent, OutboxShape, WorkerCell
    <2>2. sent' \in SUBSET SentEvent
      BY <1>1, <1>4, <1>5 DEF OutboxShape
    <2> HIDE DEF event, added
    <2> QED  BY <1>1, <1>5, <1>6, <2>1, <2>2 DEF CommitEvent, OutboxShape
  <1>9. BuildRight'
    <2>1. outWorker'.at = "batch"
      BY <1>1 DEF CommitEvent, OutboxShape, WorkerCell
    <2> QED  BY <2>1 DEF BuildRight
  <1>u. /\ \A l \in docs[i].links : l.order \in Nat /\ l.stamp \in Nat /\ l.order < o.order
        /\ docs[i].stamp \in Nat
        /\ \A l \in docs'[i].links : l \in docs[i].links \/ (l = added /\ BuildsOn(i))
        /\ docs[i].links \subseteq docs'[i].links
        /\ BuildsOn(i) => added \in docs'[i].links
    BY <1>1, <1>2, <1>7 DEF OutboxRow, Link, EntriesRight
  <1> HIDE DEF added, event
  <1>10. EntriesRight'
    <2>1. ASSUME NEW p \in waiting', NEW l \in docs'[p.doc].links PROVE l.order < p.order
      <3>1. p \in waiting /\ p.order \in Nat /\ p.doc \in Doc /\ p # o /\ p.order # o.order
        BY <1>1, <1>5 DEF OutboxShape, Entry, EntriesRight
      <3>2. CASE l \in docs[p.doc].links
        BY <3>1, <3>2, <1>1 DEF EntriesRight
      <3>3. CASE p.doc = i /\ l = added
        BY <3>1, <3>3, <1>2, <1>3, <1>4 DEF BuildOf
      <3> QED  BY <3>1, <3>2, <3>3, <1>6, <1>u
    <2> QED  BY <2>1, <1>1, <1>5 DEF EntriesRight
  <1>11. RowRight(i)'
    <2>1. IsFiniteSet(docs'[i].links)
      BY <1>2, <1>7, FS_AddElement DEF RowRight
    <2>2. KnownTime(tally, i, time)
      BY <1>0, <1>3 DEF BuildOf
    <2>3. \A l \in docs'[i].links : KnownTime(tally, i, l.stamp) /\ l.order =< tally.order
      BY <2>2, <1>2, <1>4, <1>u DEF RowRight
    <2>4. ASSUME ~tally.setBack
          PROVE  /\ \A l \in docs'[i].links : l.stamp =< docs[i].stamp
                 /\ \A l, m \in docs'[i].links : 0 < l.order /\ l.order < m.order => l.stamp =< m.stamp
      <3>1. BuildsOn(i) => /\ time =< docs[i].stamp
                           /\ \A l \in docs[i].links : l.order > 0 => l.stamp =< time
        BY <2>4, <1>0, <1>3 DEF BuildOf
      <3>2. ASSUME NEW l \in docs'[i].links PROVE l.stamp =< docs[i].stamp
        BY <2>4, <3>1, <1>2, <1>4, <1>u DEF RowRight
      <3>3. ASSUME NEW l \in docs'[i].links, NEW m \in docs'[i].links, 0 < l.order, l.order < m.order
            PROVE  l.stamp =< m.stamp
        <4>1. CASE l \in docs[i].links /\ m \in docs[i].links
          BY <4>1, <3>3, <2>4, <1>2 DEF RowRight
        <4>2. CASE l \in docs[i].links /\ m = added /\ BuildsOn(i)
          BY <4>2, <3>1, <3>3, <1>4
        <4>3. CASE l = added /\ m \in docs[i].links
          BY <4>3, <3>3, <1>2, <1>4, <1>u
        <4>4. CASE l = added /\ m = added
          BY <4>4, <3>3, <1>2, <1>4
        <4> QED  BY <4>1, <4>2, <4>3, <4>4, <1>u
      <3> QED  BY <3>2, <3>3
    <2>5. ~docs[i].here => docs'[i].links = {} /\ docs[i].stamp = 0
      BY <1>2, <1>7 DEF RowRight, BuildsOn
    <2>6. docs[i].here => KnownTime(tally, i, docs[i].born) /\ KnownTime(tally, i, docs[i].stamp)
      BY <1>2 DEF RowRight
    <2> QED  BY <1>5, <1>7, <2>1, <2>3, <2>4, <2>5, <2>6 DEF RowRight
  <1>12. RowsRight'
    <2>1. TallyGrows
      BY <1>1, <1>5 DEF TallyGrows, OutboxShape, Tally
    <2> QED  BY <2>1, <1>6, <1>8, <1>11, RowUnmoved DEF RowsRight
  <1>13. SentRight'
    <2>1. ASSUME NEW e \in sent
          PROVE  /\ KnownTime(tally, e.doc, e.stamp)
                 /\ docs'[e.doc].here /\ Carries(e.doc, e.stamp)' => LinkedTo(e.doc, e.stamp)'
      <3>1. e.doc \in Doc
        BY <1>1 DEF OutboxShape, SentEvent
      <3>2. CASE e.doc # i
        BY <3>1, <3>2, <1>1, <1>6 DEF SentRight, Carries, LinkedTo
      <3>3. CASE e.doc = i
        <4>1. CASE Carries(i, e.stamp)
          BY <3>3, <4>1, <1>1, <1>7, <1>u DEF SentRight, LinkedTo
        <4>2. CASE BuildsOn(i) /\ e.stamp = time
          BY <3>3, <4>2, <1>1, <1>2, <1>4, <1>u DEF SentRight, LinkedTo
        <4>3. CASE ~Carries(i, e.stamp)' /\ ~(BuildsOn(i) /\ e.stamp = time)
          BY <3>3, <4>3, <1>1 DEF SentRight
        <4>4. Carries(i, e.stamp)' => Carries(i, e.stamp) \/ (BuildsOn(i) /\ e.stamp = time)
          BY <1>4, <1>7, <1>u DEF Carries
        <4> QED  BY <4>1, <4>2, <4>3, <4>4
      <3> QED  BY <3>2, <3>3
    <2>2. KnownTime(tally, i, time) /\ (docs'[i].here /\ Carries(i, time)' => LinkedTo(i, time)')
      <3>1. KnownTime(tally, i, time)
        BY <1>0, <1>3 DEF BuildOf
      <3>2. CASE BuildsOn(i)
        BY <3>1, <3>2, <1>2, <1>4, <1>u DEF LinkedTo
      <3>3. CASE ~BuildsOn(i)
        <4>1. docs[i].here => ~Carries(i, time)
          BY <3>3, <1>0, <1>3 DEF BuildOf
        <4>2. Carries(i, time)' => Carries(i, time)
          BY <3>3, <1>7 DEF Carries
        <4> QED  BY <3>1, <4>1, <4>2, <1>7
      <3> QED  BY <3>2, <3>3
    <2>3. ASSUME NEW e \in sent'
          PROVE  /\ KnownTime(tally, e.doc, e.stamp)
                 /\ docs'[e.doc].here /\ Carries(e.doc, e.stamp)' => LinkedTo(e.doc, e.stamp)'
      <3>1. CASE e \in sent
        BY <3>1, <2>1
      <3>2. CASE e = event
        BY <3>2, <2>2, <1>4
      <3> QED  BY <3>1, <3>2, <1>5
    <2> QED  BY <2>3, <1>5 DEF SentRight
  <1>14. BigWasShared'
    <2>1. i \in Big => i \in sharedDocs
      BY <1>1 DEF CommitEvent, TooBig, EntriesRight
    <2> QED  BY <2>1, <1>1, <1>4, <1>5 DEF BigWasShared
  <1>15. SentOnce'
    <2>1. ~tally.setBack => \A e \in sent : e.doc = i => e.stamp # time
      BY <1>0, <1>3 DEF BuildOf
    <2> QED  BY <2>1, <1>1, <1>4, <1>5 DEF SentOnce
  <1> QED  BY <1>8, <1>9, <1>10, <1>12, <1>13, <1>14, <1>15 DEF OutboxInv, OutboxRest

\* The other steps of the worker: entries end, fail or are due again.
LEMMA EntryStays ==
  ASSUME OutboxInv, NEW o \in waiting, CompleteEntry(o) \/ LeaveToUser(o) \/ BuildFails(o) \/ RetryAt(o)
  PROVE  OutboxInv'
  <1>1. OutboxShape /\ tally \in Tally /\ o \in Entry /\ o.doc \in Doc /\ EntriesRight
    BY DEF OutboxInv, OutboxRest, OutboxShape, Entry
  <1>2. tally' \in Tally /\ tally'.now = tally.now /\ TallyGrows
    BY <1>1, Counted DEF CompleteEntry, LeaveToUser, BuildFails, RetryAt
  <1>3. UNCHANGED <<docs, sent, choices, backfill, outWake, merging, sharedDocs>>
    BY DEF CompleteEntry, LeaveToUser, BuildFails, RetryAt
  <1>4. manualOnly' \in SUBSET Doc
    BY <1>1 DEF CompleteEntry, LeaveToUser, BuildFails, RetryAt, OutboxShape
  <1>5. outWorker' \in WorkerCell /\ (outWorker' = outWorker \/ outWorker'.at # "building")
    <2>1. CASE LeaveToUser(o)
      <3>1. outWorker' = [outWorker EXCEPT !.at = "batch", !.order = 0, !.born = 0, !.stamp = 0]
        BY <2>1 DEF LeaveToUser
      <3> QED  BY <3>1, <1>1 DEF OutboxShape, WorkerCell
    <2>2. CASE BuildFails(o)
      BY <2>2 DEF BuildFails, WorkerCell, Asleep
    <2>3. CASE outWorker' = outWorker
      BY <2>3, <1>1 DEF OutboxShape
    <2> QED  BY <2>1, <2>2, <2>3 DEF CompleteEntry, RetryAt
  <1>6. waiting' \in SUBSET Entry /\ EntriesKept
    <2>1. CASE CompleteEntry(o) \/ LeaveToUser(o)
      <3>1. waiting' \in SUBSET waiting
        BY <2>1 DEF CompleteEntry, LeaveToUser
      <3> QED  BY <3>1, <1>1, <1>2, <1>3, SomeKept DEF OutboxShape
    <2>2. ASSUME NEW due \in BOOLEAN, waiting' = (waiting \ {o}) \cup {[o EXCEPT !.due = due]}
          PROVE  waiting' \in SUBSET Entry /\ EntriesKept
      <3> DEFINE new == [p \in {o} |-> [p EXCEPT !.due = due]]
      <3>1. [o EXCEPT !.due = due] \in Entry /\ [o EXCEPT !.due = due].order = o.order
            /\ [o EXCEPT !.due = due].doc = o.doc /\ [o EXCEPT !.due = due].force = o.force
            /\ [o EXCEPT !.due = due].manual = o.manual
        BY <1>1 DEF Entry
      <3>2. new[o] = [o EXCEPT !.due = due] /\ new \in [{o} -> Entry]
        BY <3>1
      <3>3. waiting' = (waiting \ {o}) \cup {new[p] : p \in {o}}
        BY <2>2, <3>2
      <3>4. new[o].order = o.order /\ new[o].doc = o.doc /\ (new[o].force \/ new[o].manual => o.doc \in sharedDocs')
        BY <3>1, <3>2, <1>1, <1>3 DEF EntriesRight
      <3> HIDE DEF new
      <3>5. \A p \in {o} : /\ new[p].order = p.order /\ new[p].doc = p.doc
                           /\ new[p].force \/ new[p].manual => p.doc \in sharedDocs'
        BY <3>4
      <3>6. {o} \in SUBSET waiting /\ sharedDocs \subseteq sharedDocs'
        BY <1>3
      <3> DEFINE same == {o}
      <3>7. new \in [same -> Entry]
        BY <3>2
      <3> HIDE DEF same
      <3> QED  BY <3>3, <3>5, <3>6, <3>7, <1>2, Renewed DEF same
    <2>3. CASE BuildFails(o)
      BY <2>2, <2>3 DEF BuildFails
    <2>4. CASE RetryAt(o)
      BY <2>2, <2>4 DEF RetryAt
    <2> QED  BY <2>1, <2>3, <2>4
  <1> QED  BY <1>1, <1>2, <1>3, <1>4, <1>5, <1>6, RowsAside DEF OutboxShape

\* What leaves the entries alone too.
LEMMA OthersStay ==
  ASSUME OutboxInv,
         \/ \E p \in [on : BOOLEAN, sensitive : BOOLEAN] : SetPrefs(p)
         \/ BeginBackfill \/ BeginBatch \/ EndBatch \/ RestartOutbox \/ UNCHANGED outboxVars
  PROVE  OutboxInv'
  <1>1. OutboxShape /\ tally \in Tally
    BY DEF OutboxInv, OutboxShape
  <1>2. tally' \in Tally /\ tally'.now = tally.now /\ TallyGrows
    BY <1>1, Counted DEF SetPrefs, BeginBackfill, BeginBatch, EndBatch, RestartOutbox, outboxVars
  <1>3. UNCHANGED <<docs, waiting, sent, manualOnly, sharedDocs>>
    BY DEF SetPrefs, BeginBackfill, BeginBatch, EndBatch, RestartOutbox, outboxVars
  <1>4. /\ choices' \in [on : BOOLEAN, sensitive : BOOLEAN] /\ outWake' \in BOOLEAN
        /\ merging' \in Doc \cup {NoDoc}
    BY <1>1 DEF SetPrefs, BeginBackfill, BeginBatch, EndBatch, RestartOutbox, outboxVars, OutboxShape
  <1>5. backfill' \in [done : BOOLEAN, left : SUBSET Doc]
    <2>1. CASE BeginBackfill
      <3>1. ({i \in Doc : docs[i].here /\ StagesItself(i)} = {}) \in BOOLEAN
        OBVIOUS
      <3>2. {i \in Doc : docs[i].here /\ StagesItself(i)} \in SUBSET Doc
        OBVIOUS
      <3>3. \A d \in BOOLEAN, s \in SUBSET Doc : [backfill EXCEPT !.left = s, !.done = d] \in [done : BOOLEAN, left : SUBSET Doc]
        BY <1>1 DEF OutboxShape
      <3> QED  BY <2>1, <3>1, <3>2, <3>3 DEF BeginBackfill
    <2>2. CASE RestartOutbox
      BY <2>2, <1>1 DEF RestartOutbox, OutboxShape
    <2>3. CASE backfill' = backfill
      BY <2>3, <1>1 DEF OutboxShape
    <2> QED  BY <2>1, <2>2, <2>3 DEF SetPrefs, BeginBatch, EndBatch, outboxVars
  <1>6. outWorker' \in WorkerCell /\ (outWorker' = outWorker \/ outWorker'.at # "building")
    <2>1. Asleep \in WorkerCell /\ Asleep.at = "asleep"
      BY DEF Asleep, WorkerCell
    <2>2. [Asleep EXCEPT !.at = "resting"] \in WorkerCell /\ [Asleep EXCEPT !.at = "resting"].at = "resting"
      BY DEF Asleep, WorkerCell
    <2>3. \A b \in BOOLEAN : /\ [Asleep EXCEPT !.at = "batch", !.sensitive = b] \in WorkerCell
                             /\ [Asleep EXCEPT !.at = "batch", !.sensitive = b].at = "batch"
      BY DEF Asleep, WorkerCell
    <2>4. choices.sensitive \in BOOLEAN
      BY <1>1 DEF OutboxShape
    <2>5. CASE BeginBatch
      BY <2>1, <2>3, <2>4, <2>5 DEF BeginBatch
    <2>6. CASE EndBatch
      BY <2>1, <2>2, <2>6 DEF EndBatch
    <2>7. CASE RestartOutbox
      BY <2>1, <2>7 DEF RestartOutbox
    <2>8. CASE outWorker' = outWorker
      BY <2>8, <1>1 DEF OutboxShape
    <2> QED  BY <2>5, <2>6, <2>7, <2>8 DEF SetPrefs, BeginBackfill, outboxVars
  <1>7. waiting' \in SUBSET waiting /\ waiting' \in SUBSET Entry
    BY <1>1, <1>3 DEF OutboxShape
  <1>8. EntriesKept
    BY <1>2, <1>3, <1>7, SomeKept
  <1> QED  BY <1>1, <1>2, <1>3, <1>4, <1>5, <1>6, <1>7, <1>8, RowsAside DEF OutboxShape

LEMMA OutboxStays == OutboxInv /\ [OutboxNext]_outboxVars => OutboxInv'
  <1> SUFFICES ASSUME OutboxInv, [OutboxNext]_outboxVars PROVE OutboxInv'
    OBVIOUS
  <1>1. ASSUME NEW i \in Doc,
               \/ \E share \in BOOLEAN : CopyDoc(i, share)
               \/ ShareDoc(i) \/ DeleteDoc(i) \/ BackfillDoc(i) \/ Reconcile(i)
               \/ \E stamp \in RemoteStamps : MergeRemote(i, stamp)
        PROVE  OutboxInv'
    BY <1>1, CopyStays, StagingStays, DeleteStays, MergeStays, ReconcileStays
  <1>2. ASSUME NEW o \in waiting,
               \/ CompleteEntry(o) \/ LeaveToUser(o) \/ BuildFails(o) \/ RetryAt(o)
               \/ BuildEvent(o) \/ CommitEvent(o)
        PROVE  OutboxInv'
    BY <1>2, EntryStays, BuildStays, CommitStays
  <1>3. ASSUME \/ \E p \in [on : BOOLEAN, sensitive : BOOLEAN] : SetPrefs(p)
               \/ BeginBackfill \/ BeginBatch \/ EndBatch \/ RestartOutbox \/ UNCHANGED outboxVars
        PROVE  OutboxInv'
    BY <1>3, OthersStay
  <1> QED  BY <1>1, <1>2, <1>3 DEF OutboxNext, BatchStep, RetryStep, FillStep

LEMMA OutboxServes == OutboxInv => OutboxSound /\ OutboxTypeOK
  <1> SUFFICES ASSUME OutboxInv PROVE OutboxSound /\ OutboxTypeOK
    OBVIOUS
  <1>1. OutboxTypeOK
    BY DEF OutboxInv, OutboxShape, OutboxTypeOK, OutboxRow, Link, Entry, SentEvent, WorkerCell
  <1> QED  BY <1>1 DEF OutboxInv, OutboxRest, OutboxSound

\* What a step sends was built under settings that allow it, or shared.
LEMMA OnlyAllowedSent ==
  ASSUME OutboxInv, [OutboxNext]_outboxVars
  PROVE  \A e \in sent' \ sent : e.doc \in Sensitive => outWorker.sensitive \/ e.doc \in sharedDocs
  <1>1. CASE sent' = sent
    BY <1>1
  <1>2. ASSUME NEW o \in waiting, CommitEvent(o)
        PROVE  \A e \in sent' \ sent : e.doc \in Sensitive => outWorker.sensitive \/ e.doc \in sharedDocs
    <2>1. BuildOf(o)
      BY <1>2 DEF CommitEvent, OutboxInv, OutboxRest, BuildRight
    <2>2. \A e \in sent' \ sent : e.doc = o.doc
      BY <1>2 DEF CommitEvent
    <2> QED  BY <2>1, <2>2 DEF BuildOf
  <1>3. sent' = sent \/ \E o \in waiting : CommitEvent(o)
    BY DEF OutboxNext, BatchStep, RetryStep, FillStep, CopyDoc, ShareDoc, DeleteDoc, MergeRemote, SetPrefs,
       BuildFails, RestartOutbox, BeginBatch, EndBatch, CompleteEntry, LeaveToUser, BuildEvent, RetryAt,
       BeginBackfill, BackfillDoc, Reconcile, outboxVars
  <1> QED  BY <1>1, <1>2, <1>3

-----------------------------------------------------------------------------
(* What a device reports as protected.                                     *)
(*                                                                         *)
(* Generations order the requests: one that is under way with a fresh      *)
(* snapshot has the newest, and whatever else is still on its way is older *)
(* and changes nothing. Once no fresh one is under way and none was lost,  *)
(* the Hub holds what was acknowledged and nothing on the way is newer.    *)

Registration == [generation : Nat, keys : SUBSET Favourable, mappings : SUBSET OldEvent, deferred : SUBSET OldEvent]

PlanCell == [at : {"idle", "page", "decoded", "sent", "answered", "more"}, epoch : Nat,
             events : SUBSET OldEvent, more : BOOLEAN, request : Registration]
RegistryCell == [epoch : Nat \ {0}, generation : Nat, keys : SUBSET Favourable,
                 unmapped : SUBSET OldEvent, deferred : SUBSET OldEvent]

RetentionShape ==
    /\ favs \in SUBSET Favourable /\ sequence \in Nat /\ unheard \in BOOLEAN
    /\ snapshot \in [epoch : Nat, keys : SUBSET Favourable]
    /\ plan \in PlanCell /\ registry \in RegistryCell
    /\ onTheWay \in SUBSET Registration

Fresh == plan.at \in {"sent", "answered"} /\ plan.request.generation > 0

\* No group is known that is newer than the Hub's, and no generation newer than the last one given.
NothingAhead ==
    /\ snapshot.epoch =< registry.epoch /\ plan.epoch =< registry.epoch
    /\ registry.generation =< sequence
    /\ \A r \in onTheWay : r.generation =< sequence
    /\ plan.request.generation > 0 => plan.at \in {"sent", "answered"}

\* The fresh request is the newest of all, until the Hub has it.
FreshIsNewest ==
    Fresh =>
        /\ plan.request.generation = sequence
        /\ \A r \in onTheWay : r # plan.request => r.generation < sequence
        /\ plan.at = "sent" => plan.request \in onTheWay /\ registry.generation < sequence
        /\ plan.at = "answered" =>
              /\ plan.request \notin onTheWay
              /\ plan.epoch = registry.epoch => registry.keys = plan.request.keys /\ registry.generation = sequence

\* What was acknowledged is what the Hub holds.
AcknowledgedHolds ==
    ~unheard /\ ~Fresh /\ snapshot.epoch = registry.epoch =>
        /\ registry.keys = snapshot.keys
        /\ \A r \in onTheWay : r.generation =< registry.generation

RetentionInv == RetentionShape /\ NothingAhead /\ FreshIsNewest /\ AcknowledgedHolds

LEMMA Blank ==
  /\ NoPlan \in PlanCell /\ NoPlan.at = "idle" /\ NoPlan.epoch = 0 /\ NoPlan.request.generation = 0
  /\ NoSnapshot \in [epoch : Nat, keys : SUBSET Favourable] /\ NoSnapshot.epoch = 0
  /\ NoRegistration \in Registration
  BY DEF NoPlan, NoSnapshot, NoRegistration, PlanCell, Registration

LEMMA RetentionStarts == RetentionClientInit => RetentionInv
  <1> SUFFICES ASSUME RetentionClientInit PROVE RetentionInv
    OBVIOUS
  <1> USE DEF RetentionClientInit
  <1>1. registry \in RegistryCell
    BY DEF RegistryCell
  <1>2. RetentionShape
    BY <1>1, Blank DEF RetentionShape
  <1>3. NothingAhead /\ FreshIsNewest /\ AcknowledgedHolds
    BY Blank DEF NothingAhead, FreshIsNewest, AcknowledgedHolds, Fresh
  <1> QED  BY <1>2, <1>3 DEF RetentionInv

LEMMA RetentionStays == RetentionInv /\ [RetentionClientNext]_retentionClientVars => RetentionInv'
  <1> SUFFICES ASSUME RetentionInv, [RetentionClientNext]_retentionClientVars PROVE RetentionInv'
    OBVIOUS
  <1> USE RetentionAssumption
      DEF RetentionInv, RetentionShape, NothingAhead, FreshIsNewest, AcknowledgedHolds, Fresh, Registration, PlanCell,
          RegistryCell
  <1>1. ASSUME UNCHANGED retentionClientVars PROVE RetentionInv'
    BY <1>1 DEF retentionClientVars
  <1>2. ASSUME NEW k \in Favourable, ToggleFlag(k) PROVE RetentionInv'
    BY <1>2 DEF ToggleFlag
  <1>3. ASSUME FetchPlan PROVE RetentionInv'
    <2>1. Candidates \subseteq OldEvent /\ (Cardinality(Candidates) = PlanPage) \in BOOLEAN
      BY DEF Candidates
    <2>2. plan' \in PlanCell /\ plan'.at = "page" /\ plan'.epoch = registry.epoch /\ plan'.request.generation = 0
      BY <1>3, <2>1 DEF FetchPlan, NoPlan, NoRegistration
    <2> QED  BY <1>3, <2>2 DEF FetchPlan
  <1>4. ASSUME NEW learned \in SUBSET Favourable, DecodePage(learned) PROVE RetentionInv'
    BY <1>4 DEF DecodePage
  <1>5. ASSUME SendSnapshot PROVE RetentionInv'
    <2> DEFINE changed == ChangedSince(favs)
               asking == [generation |-> IF changed THEN sequence + 1 ELSE 0, keys |-> favs,
                           mappings |-> plan.events \ Undecodable, deferred |-> plan.events \cap Undecodable]
    <2>1. asking \in Registration /\ asking.generation \in {0, sequence + 1} /\ ~Fresh
      BY <1>5 DEF SendSnapshot
    <2>2. CASE changed
      <3>1. sequence' = sequence + 1 /\ onTheWay' = onTheWay \cup {asking}
            /\ plan' = [plan EXCEPT !.at = "sent", !.request = asking]
            /\ UNCHANGED <<favs, snapshot, registry, unheard>>
        BY <1>5, <2>2 DEF SendSnapshot
      <3>3. plan' \in PlanCell /\ plan'.at = "sent" /\ plan'.request = asking /\ plan'.epoch = plan.epoch
        <4> HIDE DEF asking
        <4> QED  BY <2>1, <3>1
      <3>2. RetentionShape'
        <4>1. onTheWay' \in SUBSET Registration
          BY <2>1, <3>1
        <4> HIDE DEF asking, changed
        <4> QED  BY <3>1, <3>3, <4>1
      <3>4. asking.generation = sequence + 1
        BY <2>2
      <3> HIDE DEF asking, changed
      <3> QED  BY <2>1, <3>1, <3>2, <3>3, <3>4
    <2>3. CASE ~changed /\ plan.events # {}
      <3>1. sequence' = sequence /\ onTheWay' = onTheWay \cup {asking}
            /\ plan' = [plan EXCEPT !.at = "sent", !.request = asking]
            /\ UNCHANGED <<favs, snapshot, registry, unheard>>
        BY <1>5, <2>3 DEF SendSnapshot
      <3>3. plan' \in PlanCell /\ plan'.at = "sent" /\ plan'.request = asking /\ plan'.epoch = plan.epoch
        <4> HIDE DEF asking
        <4> QED  BY <2>1, <3>1
      <3>2. RetentionShape'
        <4>1. onTheWay' \in SUBSET Registration
          BY <2>1, <3>1
        <4> HIDE DEF asking, changed
        <4> QED  BY <3>1, <3>3, <4>1
      <3>4. asking.generation = 0
        BY <2>3
      <3> HIDE DEF asking, changed
      <3> QED  BY <2>1, <3>1, <3>2, <3>3, <3>4
    <2>4. CASE ~changed /\ plan.events = {}
      <3>1. sequence' = sequence /\ onTheWay' = onTheWay /\ plan' = NoPlan
            /\ UNCHANGED <<favs, snapshot, registry, unheard>>
        BY <1>5, <2>4 DEF SendSnapshot
      <3> QED  BY <2>1, <3>1, Blank
    <2> QED  BY <2>2, <2>3, <2>4
  <1>6. ASSUME SnapshotTaken PROVE RetentionInv'
    <2>1. plan' \in PlanCell /\ plan'.at \in {"idle", "more"} /\ plan'.epoch = 0 /\ plan'.request.generation = 0
      <3>1. plan' \in {NoPlan, [NoPlan EXCEPT !.at = "more"]}
        BY <1>6 DEF SnapshotTaken
      <3> QED  BY <3>1, Blank
    <2>2. UNCHANGED <<favs, sequence, registry, onTheWay>>
      BY <1>6 DEF SnapshotTaken
    <2>3. CASE Fresh
      <3>1. snapshot' = [epoch |-> plan.epoch, keys |-> plan.request.keys] /\ unheard' = FALSE
        BY <1>6, <2>3 DEF SnapshotTaken
      <3>2. plan.at = "answered"
        BY <1>6 DEF SnapshotTaken
      <3>3. RetentionShape'
        BY <2>1, <2>2, <3>1
      <3> QED  BY <2>1, <2>2, <2>3, <3>1, <3>2, <3>3
    <2>4. CASE ~Fresh
      <3>1. snapshot' = snapshot /\ unheard' = unheard
        BY <1>6, <2>4 DEF SnapshotTaken
      <3> QED  BY <2>1, <2>2, <2>4, <3>1
    <2> QED  BY <2>3, <2>4
  <1>7. ASSUME CycleGivesUp PROVE RetentionInv'
    <2>1. plan' = NoPlan /\ onTheWay' \subseteq onTheWay /\ UNCHANGED <<favs, snapshot, sequence, registry>>
      BY <1>7 DEF CycleGivesUp
    <2>2. unheard' = (unheard \/ plan.request.generation > 0)
      BY <1>7 DEF CycleGivesUp
    <2>3. RetentionShape' /\ NothingAhead' /\ FreshIsNewest'
      BY <2>1, <2>2, Blank
    <2>4. ASSUME ~unheard' PROVE ~unheard /\ ~Fresh
      BY <2>2, <2>4
    <2>5. AcknowledgedHolds'
      BY <2>1, <2>4
    <2> QED  BY <2>3, <2>5
  <1>8. ASSUME NEW r \in onTheWay, Register(r) PROVE RetentionInv'
    <2>1. r \in Registration /\ onTheWay' = onTheWay \ {r} /\ UNCHANGED <<favs, snapshot, sequence, unheard>>
      BY <1>8 DEF Register
    <2>2. /\ registry' \in RegistryCell
          /\ registry'.epoch = registry.epoch
          /\ registry'.generation = IF r.generation > registry.generation THEN r.generation ELSE registry.generation
          /\ registry'.keys = IF r.generation > registry.generation THEN r.keys ELSE registry.keys
      BY <1>8, <2>1 DEF Register, NewerSnapshot
    <2>3. CASE plan.at = "sent" /\ plan.request = r
      <3>1. plan' = [plan EXCEPT !.at = "answered"]
        BY <1>8, <2>3 DEF Register
      <3> QED  BY <2>1, <2>2, <2>3, <3>1
    <2>4. CASE ~(plan.at = "sent" /\ plan.request = r)
      <3>1. plan' = plan
        BY <1>8, <2>4 DEF Register
      <3> QED  BY <2>1, <2>2, <2>4, <3>1
    <2> QED  BY <2>3, <2>4
  <1>9. ASSUME NEW e \in OldEvent, OtherRegisters(e) PROVE RetentionInv'
    BY <1>9 DEF OtherRegisters
  <1>10. ASSUME CreateAnew PROVE RetentionInv'
    <2>1. registry' \in RegistryCell /\ registry'.epoch = registry.epoch + 1 /\ registry'.generation = 0
      BY <1>10 DEF CreateAnew
    <2> QED  BY <1>10, <2>1 DEF CreateAnew
  <1>11. ASSUME JoinAgain PROVE RetentionInv'
    <2>1. registry' \in RegistryCell /\ registry'.epoch = registry.epoch /\ registry'.generation = 0
      BY <1>11 DEF JoinAgain
    <2> QED  BY <1>11, <2>1, Blank DEF JoinAgain, ForgottenSnapshot
  <1> QED
    BY <1>1, <1>2, <1>3, <1>4, <1>5, <1>6, <1>7, <1>8, <1>9, <1>10, <1>11
    DEF RetentionClientNext, PlanStep, RegisterStep

LEMMA RetentionServes == RetentionInv => ReportedUnlessUnheard /\ RetentionClientTypeOK
  <1> SUFFICES ASSUME RetentionInv PROVE ReportedUnlessUnheard /\ RetentionClientTypeOK
    OBVIOUS
  <1>1. ReportedUnlessUnheard
    BY DEF RetentionInv, AcknowledgedHolds, ReportedUnlessUnheard, LooksReported, Fresh
  <1>2. RetentionClientTypeOK
    BY DEF RetentionInv, RetentionShape, NothingAhead, RetentionClientTypeOK, Registration, PlanCell, RegistryCell
  <1> QED  BY <1>1, <1>2

-----------------------------------------------------------------------------
(* The icons of applications.                                              *)
(*                                                                         *)
(* The sender: what is queued and what the recorded events refer to is     *)
(* encrypted; between the queue and the mark of delivery the icon of the   *)
(* event is where that of a delivered one has to be; and what the worker   *)
(* uploaded stays at the Hub until its entry goes, unless a cleanup raced. *)
(* The receiver: an item whose application is resolved but which is not    *)
(* written yet is not newer than the row.                                  *)

ExchangeCell == [at : {"idle", "asked", "answered", "queued"}, event : SourceEvent \cup {0}]
PublisherCell == [at : {"asleep", "listed", "stored"}, batch : SUBSET Icon, awake : BOOLEAN, retry : BOOLEAN]
HubIconCell == [events : SUBSET SourceEvent, blobs : SUBSET Icon, cursor : Nat]
PullingCell == [seen : Nat, awake : BOOLEAN, taken : SUBSET SourceEvent, inbox : SUBSET SourceEvent,
                storing : SourceEvent \cup {0}]
AppCell == [here : BOOLEAN, stamp : SourceEvent \cup {0}, ref : Icon \cup {NoIcon}, shown : Icon \cup {NoIcon}]
RefresherCell == [at : {"asleep", "fetching", "attaching"}, icon : Icon \cup {NoIcon}, awake : BOOLEAN]
MishapCell == [failed : Nat, removed : Nat, raced : BOOLEAN]

IconShape ==
    /\ recorded \in SUBSET SourceEvent /\ delivered \in SUBSET SourceEvent
    /\ exchange \in ExchangeCell /\ (exchange.at # "idle" => exchange.event \in SourceEvent)
    /\ iconQueue \in SUBSET Icon /\ encrypted \in SUBSET Icon
    /\ publisher \in PublisherCell /\ hubIcons \in HubIconCell /\ frames \in SUBSET Nat
    /\ pulling \in PullingCell /\ sourceApp \in AppCell
    /\ copies \in SUBSET SourceEvent /\ iconFiles \in SUBSET Icon
    /\ refresher \in RefresherCell /\ (refresher.at # "asleep" => refresher.icon \in Icon)
    /\ mishaps \in MishapCell

LEMMA MishapCounted ==
  ASSUME mishaps \in MishapCell, Mishap("failed", MaxMishaps) \/ Mishap("removed", MaxRemovals)
  PROVE  mishaps' \in MishapCell /\ mishaps'.raced = mishaps.raced
  BY DEF Mishap, MishapCell

\* The icon of an event is at the Hub or in the queue.
Cared(e) == IconOf[e] \in hubIcons.blobs \cup iconQueue \cup {NoIcon}

SenderInv ==
    /\ iconQueue \subseteq encrypted /\ IconsOf(recorded) \subseteq encrypted
    /\ exchange.at # "idle" => exchange.event \in recorded \ delivered
    /\ ~mishaps.raced =>
          /\ \A e \in delivered \cap hubIcons.events : Cared(e)
          /\ exchange.at = "queued" => Cared(exchange.event) \/ exchange.event \notin hubIcons.events
          /\ publisher.at = "stored" => publisher.batch \subseteq hubIcons.blobs

ReceiverInv ==
    /\ ~sourceApp.here => copies = {}
    /\ sourceApp.here =>
          /\ sourceApp.shown \in {NoIcon, sourceApp.ref} /\ sourceApp.ref = IconOf[sourceApp.stamp]
          /\ \A e \in copies : e =< sourceApp.stamp
          /\ pulling.storing # 0 => pulling.storing =< sourceApp.stamp

SenderIdle == recorded = {} /\ delivered = {} /\ iconQueue = {} /\ exchange = NoExchange
              /\ publisher.at = "asleep"
ReceiverIdle == sourceApp = NoApp /\ copies = {} /\ pulling.storing = 0

LEMMA IconsStart == IconInit => IconShape /\ SenderIdle /\ ReceiverIdle
  <1> SUFFICES ASSUME IconInit PROVE IconShape /\ SenderIdle /\ ReceiverIdle
    OBVIOUS
  <1>1. IconShape
    BY IconAssumption DEF IconInit, IconShape, NoExchange, NoApp, ExchangeCell, PublisherCell, HubIconCell,
       PullingCell, AppCell, RefresherCell, MishapCell
  <1> QED  BY <1>1 DEF IconInit, SenderIdle, ReceiverIdle

\* A device that does not send, or does not receive, has nothing that could be wrong.
LEMMA IdleSound == (SenderIdle => SenderInv) /\ (ReceiverIdle => ReceiverInv)
  BY DEF SenderIdle, SenderInv, ReceiverIdle, ReceiverInv, NoExchange, NoApp, IconsOf

LEMMA IconSets ==
  ASSUME NEW S \in SUBSET SourceEvent
  PROVE  IconsOf(S) \subseteq Icon /\ \A e \in SourceEvent : e \in S => IconOf[e] \in IconsOf(S) \cup {NoIcon}
  BY IconAssumption DEF IconsOf

LEMMA IconOutShape == IconShape /\ IconOutNext => IconShape' /\ UNCHANGED <<sourceApp, copies, pulling>>
  <1> SUFFICES ASSUME IconShape, IconOutNext PROVE IconShape' /\ UNCHANGED <<sourceApp, copies, pulling>>
    OBVIOUS
  <1> USE IconAssumption DEF IconShape, receiverVars, senderVars
  <1>1. ASSUME NEW e \in SourceEvent, RecordEvent(e) PROVE IconShape' /\ UNCHANGED receiverVars
    <2>1. IconsOf({e}) \subseteq Icon
      BY IconSets
    <2> QED  BY <1>1, <2>1 DEF RecordEvent
  <1>2. ASSUME NEW e \in SourceEvent, Ask(e) PROVE IconShape' /\ UNCHANGED receiverVars
    BY <1>2 DEF Ask, ExchangeCell
  <1>3. ASSUME AcceptEvent PROVE IconShape' /\ UNCHANGED receiverVars
    <2>1. exchange' \in ExchangeCell /\ exchange'.event = exchange.event /\ exchange.at # "idle"
      BY <1>3 DEF AcceptEvent, ExchangeCell
    <2>2. hubIcons' \in HubIconCell
      BY <1>3, <2>1 DEF AcceptEvent, HubIconCell
    <2> QED  BY <1>3, <2>1, <2>2 DEF AcceptEvent
  <1>4. ASSUME EnqueueIcons PROVE IconShape' /\ UNCHANGED receiverVars
    <2>1. exchange' \in ExchangeCell /\ exchange'.event = exchange.event /\ exchange.at # "idle"
      BY <1>4 DEF EnqueueIcons, ExchangeCell
    <2>2. IconsOf({exchange.event}) \subseteq Icon
      BY <2>1, IconSets
    <2> QED  BY <1>4, <2>1, <2>2 DEF EnqueueIcons
  <1>5. ASSUME MarkDelivered PROVE IconShape' /\ UNCHANGED receiverVars
    <2>1. publisher' \in PublisherCell
      BY <1>5 DEF MarkDelivered, PublisherCell
    <2>2. exchange' = NoExchange /\ NoExchange \in ExchangeCell /\ NoExchange.at = "idle"
      BY <1>5 DEF MarkDelivered, NoExchange, ExchangeCell
    <2> QED  BY <1>5, <2>1, <2>2 DEF MarkDelivered
  <1>6. ASSUME NEW batch \in SUBSET Icon, ListIcons(batch) PROVE IconShape' /\ UNCHANGED receiverVars
    BY <1>6 DEF ListIcons, PublisherCell
  <1>7. ASSUME PublishIcons PROVE IconShape' /\ UNCHANGED receiverVars
    BY <1>7 DEF PublishIcons, PublisherCell, HubIconCell
  <1>8. ASSUME CompleteIcons PROVE IconShape' /\ UNCHANGED receiverVars
    <2>1. (publisher.awake \/ Cardinality(publisher.batch) = IconBatch) \in BOOLEAN
      OBVIOUS
    <2>2. publisher' \in PublisherCell
      BY <1>8, <2>1 DEF CompleteIcons, PublisherCell
    <2> QED  BY <1>8, <2>2 DEF CompleteIcons
  <1>9. ASSUME PublishFails PROVE IconShape' /\ UNCHANGED receiverVars
    <2>1. mishaps' \in MishapCell
      BY <1>9, MishapCounted DEF PublishFails
    <2>2. publisher' \in PublisherCell
      BY <1>9 DEF PublishFails, PublisherCell
    <2> QED  BY <1>9, <2>1, <2>2 DEF PublishFails
  <1>10. ASSUME ExchangeLost PROVE IconShape' /\ UNCHANGED receiverVars
    BY <1>10, MishapCounted DEF ExchangeLost, NoExchange, ExchangeCell
  <1>11. ASSUME RestartSender PROVE IconShape' /\ UNCHANGED receiverVars
    <2>1. publisher' \in PublisherCell
      BY <1>11 DEF RestartSender, PublisherCell
    <2> QED  BY <1>11, <2>1, MishapCounted DEF RestartSender, NoExchange, ExchangeCell
  <1>12. ASSUME NEW e \in SourceEvent, ReclaimBlobs(e) PROVE IconShape' /\ UNCHANGED receiverVars
    BY <1>12, MishapCounted DEF ReclaimBlobs
  <1>13. ASSUME NEW e \in SourceEvent, HubForgets(e) PROVE IconShape' /\ UNCHANGED receiverVars
    <2>1. mishaps' \in MishapCell
      <3>1. mishaps \in MishapCell
        OBVIOUS
      <3>2. \A n \in Nat, raced \in BOOLEAN : [mishaps EXCEPT !.removed = n, !.raced = raced] \in MishapCell
        BY ONLY <3>1 DEF MishapCell
      <3>3. mishaps.removed + 1 \in Nat /\ (mishaps.raced \/ publisher.at = "stored") \in BOOLEAN
        BY ONLY <3>1 DEF MishapCell
      <3> QED  BY <1>13, <3>2, <3>3 DEF HubForgets
    <2>2. hubIcons' \in HubIconCell
      BY <1>13 DEF HubForgets, HubIconCell
    <2> QED  BY <1>13, <2>1, <2>2 DEF HubForgets
  <1> QED
    BY <1>1, <1>2, <1>3, <1>4, <1>5, <1>6, <1>7, <1>8, <1>9, <1>10, <1>11, <1>12, <1>13
    DEF IconOutNext, SendStep, PublishStep

LEMMA SenderStays == IconShape /\ SenderInv /\ IconOutNext => SenderInv'
  <1> SUFFICES ASSUME IconShape, SenderInv, IconOutNext PROVE SenderInv'
    OBVIOUS
  <1> USE IconAssumption DEF IconShape, SenderInv, Cared, IconsOf, ExchangeCell, PublisherCell, HubIconCell
  <1>1. ASSUME NEW e \in SourceEvent, RecordEvent(e) PROVE SenderInv'
    BY <1>1 DEF RecordEvent
  <1>2. ASSUME NEW e \in SourceEvent, Ask(e) PROVE SenderInv'
    BY <1>2 DEF Ask
  <1>3. ASSUME AcceptEvent PROVE SenderInv'
    BY <1>3 DEF AcceptEvent
  <1>4. ASSUME EnqueueIcons PROVE SenderInv'
    BY <1>4 DEF EnqueueIcons
  <1>5. ASSUME MarkDelivered PROVE SenderInv'
    BY <1>5 DEF MarkDelivered, NoExchange
  <1>6. ASSUME NEW batch \in SUBSET Icon, ListIcons(batch) PROVE SenderInv'
    BY <1>6 DEF ListIcons
  <1>7. ASSUME PublishIcons PROVE SenderInv'
    BY <1>7 DEF PublishIcons
  <1>8. ASSUME CompleteIcons PROVE SenderInv'
    BY <1>8 DEF CompleteIcons
  <1>9. ASSUME PublishFails PROVE SenderInv'
    <2>1. mishaps'.raced = mishaps.raced
      BY <1>9, MishapCounted DEF PublishFails
    <2> QED  BY <1>9, <2>1 DEF PublishFails
  <1>10. ASSUME ExchangeLost PROVE SenderInv'
    BY <1>10, MishapCounted DEF ExchangeLost, NoExchange
  <1>11. ASSUME RestartSender PROVE SenderInv'
    BY <1>11, MishapCounted DEF RestartSender, NoExchange
  <1>12. ASSUME NEW e \in SourceEvent, ReclaimBlobs(e) PROVE SenderInv'
    <2>1. mishaps'.raced = mishaps.raced
      BY <1>12, MishapCounted DEF ReclaimBlobs
    <2>2. iconQueue \subseteq encrypted' /\ IconsOf(recorded') \subseteq encrypted'
      BY <1>12 DEF ReclaimBlobs, LiveBlobs
    <2> QED  BY <1>12, <2>1, <2>2 DEF ReclaimBlobs
  <1>13. ASSUME NEW e \in SourceEvent, HubForgets(e) PROVE SenderInv'
    <2>1. UNCHANGED <<recorded, delivered, exchange, iconQueue, encrypted, publisher>>
      BY <1>13 DEF HubForgets, senderVars
    <2>2. ~mishaps'.raced => ~mishaps.raced /\ publisher.at # "stored"
      BY <1>13 DEF HubForgets, MishapCell
    <2>3. /\ hubIcons'.events = hubIcons.events \ {e}
          /\ hubIcons'.blobs = hubIcons.blobs \cap IconsOf(hubIcons.events \ {e})
      BY <1>13 DEF HubForgets
    <2>4. ASSUME NEW f \in hubIcons'.events, Cared(f) PROVE Cared(f)'
      BY <2>1, <2>3, <2>4
    <2> QED  BY <2>1, <2>2, <2>3, <2>4
  <1> QED
    BY <1>1, <1>2, <1>3, <1>4, <1>5, <1>6, <1>7, <1>8, <1>9, <1>10, <1>11, <1>12, <1>13
    DEF IconOutNext, SendStep, PublishStep

LEMMA IconInShape == IconShape /\ IconInNext => IconShape' /\ UNCHANGED senderVars
  <1> SUFFICES ASSUME IconShape, IconInNext PROVE IconShape' /\ UNCHANGED senderVars
    OBVIOUS
  <1> USE IconAssumption DEF IconShape, senderVars, receiverVars
  <1>1. ASSUME NEW e \in SourceEvent, OtherSends(e) PROVE IconShape' /\ UNCHANGED senderVars
    <2>1. hubIcons' \in HubIconCell
      <3>1. hubIcons \in HubIconCell
        OBVIOUS
      <3>2. \A n \in Nat, s \in SUBSET SourceEvent : [hubIcons EXCEPT !.events = s, !.cursor = n] \in HubIconCell
        BY ONLY <3>1 DEF HubIconCell
      <3>3. hubIcons.cursor + 1 \in Nat /\ hubIcons.events \cup {e} \in SUBSET SourceEvent
        BY ONLY <3>1, e \in SourceEvent DEF HubIconCell
      <3> QED  BY <1>1, <3>2, <3>3 DEF OtherSends
    <2>2. frames' \in SUBSET Nat
      BY <1>1 DEF OtherSends, HubIconCell
    <2> QED  BY <1>1, <2>1, <2>2 DEF OtherSends
  <1>2. ASSUME NEW icon \in Icon, OtherPublishes(icon) PROVE IconShape' /\ UNCHANGED senderVars
    BY <1>2 DEF OtherPublishes, HubIconCell
  <1>3. ASSUME NEW frame \in frames, HeedFrame(frame) PROVE IconShape' /\ UNCHANGED senderVars
    <2>1. frame \in Nat /\ Moved(frame) \in BOOLEAN
      BY DEF Moved
    <2>2. pulling' \in PullingCell
      BY <1>3, <2>1 DEF HeedFrame, PullingCell
    <2>3. refresher' \in RefresherCell /\ refresher'.at = refresher.at /\ refresher'.icon = refresher.icon
      <3>1. (refresher.awake \/ Moved(frame)) \in BOOLEAN
        OBVIOUS
      <3> QED  BY <1>3, <3>1 DEF HeedFrame, RefresherCell
    <2> QED  BY <1>3, <2>2, <2>3 DEF HeedFrame
  <1>4. ASSUME Pull PROVE IconShape' /\ UNCHANGED senderVars
    <2>1. pulling' \in PullingCell
      BY <1>4 DEF Pull, PullingCell, HubIconCell
    <2>2. refresher' \in RefresherCell /\ refresher'.at = refresher.at /\ refresher'.icon = refresher.icon
      BY <1>4 DEF Pull, RefresherCell
    <2> QED  BY <1>4, <2>1, <2>2 DEF Pull
  <1>5. ASSUME StoreCopy PROVE IconShape' /\ UNCHANGED senderVars
    <2>1. pulling.storing \in SourceEvent /\ pulling' \in PullingCell
      <3>1. pulling.storing \in SourceEvent
        BY <1>5 DEF StoreCopy, PullingCell
      <3>2. pulling' = [pulling EXCEPT !.storing = 0, !.inbox = @ \ {pulling.storing}]
            \/ pulling' = [pulling EXCEPT !.storing = 0]
        BY <1>5 DEF StoreCopy
      <3> QED  BY <3>1, <3>2 DEF PullingCell
    <2>2. refresher' \in RefresherCell /\ refresher'.at = refresher.at /\ refresher'.icon = refresher.icon
      <3>1. (refresher.awake \/ IconOf[pulling.storing] # NoIcon) \in BOOLEAN
        OBVIOUS
      <3> QED  BY <1>5, <3>1 DEF StoreCopy, RefresherCell
    <2> QED  BY <1>5, <2>1, <2>2 DEF StoreCopy
  <1>6. ASSUME NEW e \in SourceEvent, ResolveSource(e) PROVE IconShape' /\ UNCHANGED senderVars
    <2>1. pulling' \in PullingCell
      BY <1>6 DEF ResolveSource, PullingCell
    <2>2. sourceApp' \in AppCell
      BY <1>6 DEF ResolveSource, AppCell
    <2> QED  BY <1>6, <2>1, <2>2 DEF ResolveSource
  <1>7. ASSUME ListAssets PROVE IconShape' /\ UNCHANGED senderVars
    BY <1>7 DEF ListAssets, RefresherCell, AppCell
  <1>8. ASSUME FetchIcon PROVE IconShape' /\ UNCHANGED senderVars
    BY <1>8 DEF FetchIcon, RefresherCell
  <1>9. ASSUME FetchFails PROVE IconShape' /\ UNCHANGED senderVars
    <2>1. mishaps' \in MishapCell
      BY <1>9, MishapCounted DEF FetchFails
    <2> QED  BY <1>9, <2>1 DEF FetchFails, RefresherCell
  <1>10. ASSUME AttachIcon PROVE IconShape' /\ UNCHANGED senderVars
    <2>1. sourceApp' \in AppCell
      BY <1>10 DEF AttachIcon, AppCell
    <2> QED  BY <1>10, <2>1 DEF AttachIcon, RefresherCell
  <1>11. ASSUME DeleteCopies \/ DeleteApp PROVE IconShape' /\ UNCHANGED senderVars
    <2>1. CASE DeleteCopies
      BY <2>1, MishapCounted DEF DeleteCopies
    <2>2. CASE DeleteApp
      BY <2>2, MishapCounted DEF DeleteApp, NoApp, AppCell
    <2> QED  BY <1>11, <2>1, <2>2
  <1> QED
    BY <1>1, <1>2, <1>3, <1>4, <1>5, <1>6, <1>7, <1>8, <1>9, <1>10, <1>11
    DEF IconInNext, OtherStep, ReceiveStep, RefreshStep

LEMMA ReceiverStays == IconShape /\ ReceiverInv /\ IconInNext => ReceiverInv'
  <1> SUFFICES ASSUME IconShape, ReceiverInv, IconInNext PROVE ReceiverInv'
    OBVIOUS
  <1> USE IconAssumption DEF IconShape, ReceiverInv, receiverVars
  <1>1. ASSUME UNCHANGED <<sourceApp, copies, pulling.storing>> PROVE ReceiverInv'
    BY <1>1 DEF AppCell
  <1>2. ASSUME NEW e \in SourceEvent, OtherSends(e) PROVE ReceiverInv'
    BY <1>1, <1>2 DEF OtherSends
  <1>3. ASSUME NEW icon \in Icon, OtherPublishes(icon) PROVE ReceiverInv'
    BY <1>1, <1>3 DEF OtherPublishes
  <1>4. ASSUME NEW frame \in frames, HeedFrame(frame) PROVE ReceiverInv'
    BY <1>1, <1>4 DEF HeedFrame, PullingCell
  <1>5. ASSUME Pull PROVE ReceiverInv'
    BY <1>1, <1>5 DEF Pull, PullingCell
  <1>6. ASSUME StoreCopy PROVE ReceiverInv'
    BY <1>6 DEF StoreCopy, PullingCell
  <1>7. ASSUME NEW e \in SourceEvent, ResolveSource(e) PROVE ReceiverInv'
    <2>1. e \in Nat \ {0} /\ pulling.storing = 0 /\ copies' = copies /\ pulling'.storing = e
      BY <1>7 DEF ResolveSource, PullingCell
    <2>2. CASE ~sourceApp.here \/ NewerSource(e)
      <3>1. sourceApp'.here /\ sourceApp'.stamp = e /\ sourceApp'.ref = IconOf[e]
            /\ sourceApp'.shown \in {NoIcon, IconOf[e]}
        BY <1>7, <2>2 DEF ResolveSource
      <3>2. \A f \in copies : f =< e
        <4>1. sourceApp.stamp \in Nat /\ copies \subseteq Nat
          <5>1. sourceApp.stamp \in SourceEvent \cup {0} /\ copies \subseteq SourceEvent
            BY DEF AppCell
          <5>2. SourceEvent \subseteq Nat
            BY ONLY IconAssumption DEF IconAssumption
          <5>z. \A x \in SourceEvent \cup {0} : x \in Nat
            BY ONLY <5>2
          <5>3. sourceApp.stamp \in Nat
            BY ONLY <5>1, <5>z, Zenon
          <5>4. copies \subseteq Nat
            BY ONLY <5>1, <5>2
          <5> QED  BY ONLY <5>3, <5>4
        <4> QED  BY <2>1, <2>2, <4>1 DEF NewerSource
      <3> QED  BY <2>1, <3>1, <3>2
    <2>3. CASE sourceApp.here /\ ~NewerSource(e)
      BY <1>7, <2>1, <2>3 DEF ResolveSource, NewerSource, AppCell
    <2> QED  BY <2>2, <2>3
  <1>8. ASSUME ListAssets \/ FetchIcon \/ FetchFails PROVE ReceiverInv'
    BY <1>1, <1>8 DEF ListAssets, FetchIcon, FetchFails
  <1>9. ASSUME AttachIcon PROVE ReceiverInv'
    BY <1>9 DEF AttachIcon, StillReferred, AppCell
  <1>10. ASSUME DeleteCopies \/ DeleteApp PROVE ReceiverInv'
    <2>1. CASE DeleteCopies
      BY <2>1 DEF DeleteCopies
    <2>2. CASE DeleteApp
      BY <2>2 DEF DeleteApp, NoApp
    <2> QED  BY <1>10, <2>1, <2>2
  <1> QED
    BY <1>2, <1>3, <1>4, <1>5, <1>6, <1>7, <1>8, <1>9, <1>10
    DEF IconInNext, OtherStep, ReceiveStep, RefreshStep

LEMMA IconsServe == IconShape /\ SenderInv /\ ReceiverInv => IconsSound /\ IconTypeOK
  <1> SUFFICES ASSUME IconShape, SenderInv, ReceiverInv PROVE IconsSound /\ IconTypeOK
    OBVIOUS
  <1>1. IconTypeOK
    BY DEF IconShape, IconTypeOK, ExchangeCell, PublisherCell, HubIconCell, PullingCell, AppCell, RefresherCell
  <1>2. IconsNotForgotten /\ QueuedIconsExist
    BY DEF SenderInv, Cared, IconsNotForgotten, QueuedIconsExist
  <1>3. ShowsNewest
    BY DEF ReceiverInv, ShowsNewest
  <1> QED  BY <1>1, <1>2, <1>3 DEF IconsSound

-----------------------------------------------------------------------------
(* The parts together. *)

\* A step is a step of a part, or leaves it alone.
LEMMA Parts ==
  ASSUME [WorkNext]_<<part, SendingVars, DesktopVars>>
  PROVE  /\ [TransferNext]_transferVars /\ [OutboxNext]_outboxVars /\ [RetentionClientNext]_retentionClientVars
         /\ \/ part = "icons_out" /\ IconOutNext
            \/ part = "icons_in" /\ IconInNext
            \/ UNCHANGED iconVars
         /\ [UpdateNext]_updateVars /\ [PreviewNext]_previewVars /\ [SearchKeysNext]_keyVars
         /\ [LegacyImportNext]_importVars /\ [BackupsNext]_backupVars
         /\ part' = part
  BY DEF WorkNext, SendingVars, DesktopVars

IconInv ==
    /\ IconShape
    /\ IF part = "icons_out" THEN SenderInv ELSE SenderIdle
    /\ IF part = "icons_in" THEN ReceiverInv ELSE ReceiverIdle

FlowInv == TransferInv /\ OutboxInv /\ RetentionInv /\ IconInv

LEMMA FlowStarts == WorkInit => FlowInv
  BY TransferStarts, OutboxStarts, RetentionStarts, IconsStart, IdleSound DEF WorkInit, FlowInv, IconInv

LEMMA IconsStay ==
  ASSUME IconInv, part' = part,
         \/ part = "icons_out" /\ IconOutNext
         \/ part = "icons_in" /\ IconInNext
         \/ UNCHANGED iconVars
  PROVE  IconInv'
  <1>1. CASE part = "icons_out" /\ IconOutNext
    <2>1. IconShape' /\ UNCHANGED <<sourceApp, copies, pulling>>
      BY <1>1, IconOutShape DEF IconInv
    <2>2. SenderInv'
      BY <1>1, SenderStays DEF IconInv
    <2>3. ReceiverIdle'
      BY <1>1, <2>1 DEF IconInv, ReceiverIdle
    <2> QED  BY <1>1, <2>1, <2>2, <2>3 DEF IconInv
  <1>2. CASE part = "icons_in" /\ IconInNext
    <2>1. IconShape' /\ UNCHANGED senderVars
      BY <1>2, IconInShape DEF IconInv
    <2>2. ReceiverInv'
      BY <1>2, ReceiverStays DEF IconInv
    <2>3. SenderIdle'
      BY <1>2, <2>1 DEF IconInv, SenderIdle, senderVars
    <2> QED  BY <1>2, <2>1, <2>2, <2>3 DEF IconInv
  <1>3. CASE UNCHANGED iconVars
    <2>1. UNCHANGED iconVars /\ part' = part
      BY <1>3
    <2> USE <2>1 DEF iconVars
    <2>2. IconShape => IconShape'
      BY DEF IconShape
    <2>3. (SenderInv => SenderInv') /\ (SenderIdle => SenderIdle')
      BY DEF SenderInv, SenderIdle, Cared
    <2>4. (ReceiverInv => ReceiverInv') /\ (ReceiverIdle => ReceiverIdle')
      BY DEF ReceiverInv, ReceiverIdle
    <2> QED  BY <2>2, <2>3, <2>4 DEF IconInv
  <1> QED  BY <1>1, <1>2, <1>3

LEMMA FlowInvariant == WorkSpec => []FlowInv
  <1>1. ASSUME FlowInv, [WorkNext]_<<part, SendingVars, DesktopVars>> PROVE FlowInv'
    BY <1>1, Parts, TransferStays, OutboxStays, RetentionStays, IconsStay DEF FlowInv
  <1> QED  BY FlowStarts, <1>1, PTL DEF WorkSpec

\* What is shown as sent is at the Hub with all that it needs, and events are submitted once and in
\* their order (sync/manager.rs); files above the limit leave only on the user's word and no copy is
\* sent twice (db/sync_queue.rs); the Hub knows the flags that were acknowledged; and icons follow
\* their events and are those of the newest copy.
THEOREM FlowIsSound == WorkSpec => []FlowSound
  <1>1. FlowInv => FlowSound
    <2>1. IconInv => IconsSound
      BY IconsServe, IdleSound DEF IconInv
    <2> QED  BY <2>1, TransferServes, OutboxServes, RetentionServes DEF FlowInv, FlowSound
  <1> QED  BY FlowInvariant, <1>1, PTL

\* The event of a sensitive item is committed only in a batch whose settings allow it, or after the
\* user shared the item (next_ready_content), although the settings, the row and the entries may
\* change between the choice of an entry and its event.
THEOREM SensitiveKept == WorkSpec => SensitiveStays
  <1>1. ASSUME FlowInv, [WorkNext]_<<part, SendingVars, DesktopVars>>
        PROVE  [\A e \in sent' \ sent : e.doc \in Sensitive => outWorker.sensitive \/ e.doc \in sharedDocs]_outboxVars
    BY <1>1, Parts, OnlyAllowedSent DEF FlowInv
  <1> QED  BY FlowInvariant, <1>1, PTL DEF WorkSpec, SensitiveStays

DesktopInv == UpdateInv /\ PreviewInv /\ KeyInv /\ ImportInv /\ BackupInv

LEMMA DesktopInvariant == WorkSpec => []DesktopInv
  <1>1. WorkInit => DesktopInv
    BY UpdatesStart, PreviewStarts, KeysStart, ImportStarts, BackupsStart DEF WorkInit, DesktopInv
  <1>2. ASSUME DesktopInv, [WorkNext]_<<part, SendingVars, DesktopVars>> PROVE DesktopInv'
    BY <1>2, Parts, UpdatesStay, PreviewStays, KeysStay, ImportsStay, BackupsStay DEF DesktopInv
  <1> QED  BY <1>1, <1>2, PTL DEF WorkSpec

\* What is installed is one package, whole, of the version it is shown as, unless a candidate was
\* replaced while its download ran (commands/update.rs); a preview is of what was asked for last and
\* stands beside it, and one that is closed does not stay (window/preview.rs); keys reach the search
\* in the order they were typed, and the list has its keys while the window shows (the keyboard hook
\* and its handoff); an import of the old history takes every row once, with its picture and no
\* secret (commands/onboarding.rs); and a merge of a backup takes each row once and with its files,
\* while an export that fails leaves the last backup (backup/mod.rs). Two records have one identity
\* only when a copy was made here of what had been received under it (db/items.rs).
THEOREM DesktopIsSound == WorkSpec => []DesktopSound
  <1>1. DesktopInv => DesktopSound
    BY UpdatesServe, PreviewServes, KeysServe, ImportsServe, BackupsServe DEF DesktopInv, DesktopSound
  <1> QED  BY DesktopInvariant, <1>1, PTL

\* The cells of every part keep their shape.
THEOREM WorkTyped == WorkSpec => []WorkTypeOK
  <1>1. FlowInv => TransferTypeOK /\ OutboxTypeOK /\ RetentionClientTypeOK /\ IconTypeOK
    <2>1. IconInv => IconTypeOK
      BY IconsServe, IdleSound DEF IconInv
    <2> QED  BY <2>1, TransferServes, OutboxServes, RetentionServes DEF FlowInv
  <1>2. DesktopInv => /\ UpdateTypeOK /\ PreviewTypeOK /\ SearchKeysTypeOK
                      /\ LegacyImportTypeOK /\ BackupsTypeOK
    BY UpdatesServe, PreviewServes, KeysServe, ImportsServe, BackupsServe DEF DesktopInv
  <1>3. FlowInv /\ DesktopInv => WorkTypeOK
    BY <1>1, <1>2 DEF WorkTypeOK
  <1> QED  BY FlowInvariant, DesktopInvariant, <1>3, PTL
=============================================================================
