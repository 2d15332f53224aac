------------------------------- MODULE Outbox -------------------------------
(* How the contents of a device's history become events: what is staged and with which options    *)
(* (db/items.rs, db/sync_queue.rs), the one-time backfill of the history, the background worker and  *)
(* its retries, and the remote copies that reach the same items meanwhile (sync/manager.rs).        *)
(*                                                                                                 *)
(* ItemState has the order of contents and item states across devices; here are the policies: what  *)
(* is sensitive or too big stays unless the user shares it, and what was sent is not sent again.    *)
EXTENDS Naturals, FiniteSets

CONSTANTS
    Doc,            \* contents of the history
    Sensitive,      \* SUBSET Doc
    Keeping,        \* SUBSET Doc: the history to begin with
    Big,            \* SUBSET Doc: files above the limit of automatic uploads
    RemoteStamps,   \* when remote copies were made: odd, the copies of this device are even
    MaxCopies,      \* bounds: copies and shares of the user, and anything else:
    MaxOther        \* remote copies, changes of the settings, failures and restarts

ASSUME OutboxAssumption ==
    /\ Sensitive \subseteq Doc /\ Big \subseteq Doc
    /\ RemoteStamps \subseteq Nat /\ \A stamp \in RemoteStamps : stamp % 2 = 1

VARIABLES
    docs,           \* clipboard_items with their sync_item_events
    waiting,        \* sync_content_outbox
    sent,           \* the content events of this device
    manualOnly,     \* sync_pending_items
    choices,        \* SyncSettings
    backfill,       \* history_backfill_completed, and the backfill that runs
    outWorker,      \* local_outbox_worker and its batch
    outWake,        \* local_outbox_wake
    merging,        \* the item whose remote copy was merged but not yet reconciled
    sharedDocs,     \* history: the items the user shared
    tally           \* the clock and the last operation order; history: the remote copies merged, was a
                    \* time set back, and the numbers of steps taken against the bounds

outboxVars == <<docs, waiting, sent, manualOnly, choices, backfill, outWorker, outWake, merging,
                sharedDocs, tally>>

NoDoc == "no item"
Absent == [here |-> FALSE, born |-> 0, source |-> 0, stamp |-> 0, links |-> {}]
Asleep == [at |-> "asleep", sensitive |-> FALSE, order |-> 0, born |-> 0, stamp |-> 0]
NotFilling == [done |-> FALSE, left |-> {}]

OutboxTypeOK ==
    /\ docs \in [Doc -> [here : BOOLEAN, born : Nat, source : Nat, stamp : Nat,
                         links : SUBSET [stamp : Nat, order : Nat]]]
    /\ waiting \subseteq [order : Nat, doc : Doc, source : Nat, force : BOOLEAN, history : BOOLEAN,
                         manual : BOOLEAN, due : BOOLEAN]
    /\ sent \subseteq [order : Nat, doc : Doc, stamp : Nat, force : BOOLEAN]
    /\ manualOnly \subseteq Doc /\ sharedDocs \subseteq Doc
    /\ choices \in [on : BOOLEAN, sensitive : BOOLEAN]
    /\ backfill.done \in BOOLEAN /\ backfill.left \subseteq Doc
    /\ outWorker.at \in {"asleep", "batch", "building", "resting"}
    /\ outWake \in BOOLEAN /\ merging \in Doc \cup {NoDoc}

OutboxInit ==
    /\ docs = [i \in Doc |-> IF i \in Keeping THEN [here |-> TRUE, born |-> 2, source |-> 2, stamp |-> 2, links |-> {}]
                             ELSE Absent]
    /\ waiting = {} /\ sent = {} /\ manualOnly = {}
    /\ choices = [on |-> TRUE, sensitive |-> FALSE]
    /\ backfill = NotFilling
    /\ outWorker = Asleep /\ outWake = TRUE
    /\ merging = NoDoc
    /\ sharedDocs = {}
    /\ tally = [now |-> 2, order |-> 0, merged |-> {}, setBack |-> FALSE, copies |-> 0, other |-> 0]

Larger(a, b) == IF a > b THEN a ELSE b
Latest(times) == CHOOSE t \in times : \A u \in times : u <= t
Count(field, bound) == tally[field] < bound /\ tally' = [tally EXCEPT ![field] = @ + 1]

\* next_operation_order.
NextOrder == tally.order + 1

-----------------------------------------------------------------------------
(* Staging *)

\* A new entry for revision `source`; an entry of the same revision and options keeps its place
\* and is due again. `force` is set with `manual` (stage_content).
StageOn(queue, i, source, options) ==
    LET same == {o \in queue : /\ o.doc = i /\ o.source = source
                               /\ o.force = options.force /\ o.history = options.history}
    IN  IF same = {}
        THEN queue \cup {[order |-> NextOrder, doc |-> i, source |-> source, force |-> options.force,
                          history |-> options.history, manual |-> options.manual, due |-> TRUE]}
        ELSE (queue \ same) \cup {[o EXCEPT !.due = TRUE, !.manual = @ \/ options.manual] : o \in same}

Automatic == [force |-> FALSE, history |-> FALSE, manual |-> FALSE]
Forced == [force |-> TRUE, history |-> FALSE, manual |-> FALSE]
Manual == [force |-> TRUE, history |-> FALSE, manual |-> TRUE]
History == [force |-> FALSE, history |-> TRUE, manual |-> FALSE]

\* should_stage_local_item.
StagesItself(i) == choices.on /\ (i \notin Sensitive \/ choices.sensitive)

\* A share that still waits is carried over to the new revision.
CarriesShare(i) == \E o \in waiting : o.doc = i /\ o.manual

\* A copy, or a share received from another application: the row and the entry in one transaction.
\* The revision changes unless a remote copy claims to be later.
CopyDoc(i, share) ==
    LET now == tally.now + 2
        source == Larger(docs[i].source, now)
    IN  /\ tally.copies < MaxCopies
        /\ tally' = [tally EXCEPT !.now = now, !.order = NextOrder, !.copies = @ + 1,
                                  !.setBack = @ \/ now < docs[i].stamp]
        /\ docs' = [docs EXCEPT ![i] = [@ EXCEPT !.here = TRUE, !.source = source, !.stamp = now,
                                                 !.born = IF docs[i].here THEN docs[i].born ELSE now]]
        /\ sharedDocs' = IF share THEN sharedDocs \cup {i} ELSE sharedDocs
        /\ waiting' = IF share \/ CarriesShare(i) THEN StageOn(waiting, i, source, Manual)
                     ELSE IF StagesItself(i) THEN StageOn(waiting, i, source, Automatic) ELSE waiting
        /\ outWake' = TRUE
        /\ UNCHANGED <<sent, manualOnly, choices, backfill, outWorker, merging>>

\* "Sync now" of an item that is in the history (sync_item_now).
ShareDoc(i) ==
    /\ tally.copies < MaxCopies /\ tally' = [tally EXCEPT !.order = NextOrder, !.copies = @ + 1]
    /\ docs[i].here /\ StagesItself(i)
    /\ waiting' = StageOn(waiting, i, docs[i].source, Forced)
    /\ sharedDocs' = sharedDocs \cup {i}
    /\ outWake' = TRUE
    /\ UNCHANGED <<docs, sent, manualOnly, choices, backfill, outWorker, merging>>

DeleteDoc(i) ==
    /\ Count("copies", MaxCopies)
    /\ docs[i].here
    /\ docs' = [docs EXCEPT ![i] = Absent]
    /\ manualOnly' = manualOnly \ {i}
    /\ outWake' = TRUE
    /\ UNCHANGED <<waiting, sent, choices, backfill, outWorker, merging, sharedDocs>>

SetPrefs(p) ==
    /\ p # choices /\ Count("other", MaxOther)
    /\ choices' = p
    /\ outWake' = TRUE
    /\ UNCHANGED <<docs, waiting, sent, manualOnly, backfill, outWorker, merging, sharedDocs>>

\* backfill_recent_history lists the items once per group; each is staged in a transaction of its
\* own, and the flag is set in the end.
BeginBackfill ==
    /\ choices.on /\ ~backfill.done /\ backfill.left = {}
    /\ backfill' = [backfill EXCEPT !.left = {i \in Doc : docs[i].here /\ StagesItself(i)},
                                    !.done = {i \in Doc : docs[i].here /\ StagesItself(i)} = {}]
    /\ UNCHANGED <<docs, waiting, sent, manualOnly, choices, outWorker, outWake, merging, sharedDocs, tally>>

BackfillDoc(i) ==
    /\ i \in backfill.left
    /\ waiting' = IF docs[i].here THEN StageOn(waiting, i, docs[i].source, History) ELSE waiting
    /\ tally' = IF docs[i].here THEN [tally EXCEPT !.order = NextOrder] ELSE tally
    /\ backfill' = [left |-> backfill.left \ {i}, done |-> backfill.left = {i}]
    /\ outWake' = (outWake \/ backfill.left = {i})
    /\ UNCHANGED <<docs, sent, manualOnly, choices, outWorker, merging, sharedDocs>>

-----------------------------------------------------------------------------
(* The worker *)

Superseding(o) == ~docs[o.doc].here \/ docs[o.doc].source # o.source

\* Mutant: whatever the settings say.
AllowedAlways(o, sensitive) == TRUE

\* The policy of next_ready_content: a sensitive item waits, unless it or a later entry of it was
\* shared by the user.
Allowed(o, sensitive) ==
    \/ sensitive \/ o.doc \notin Sensitive \/ ~docs[o.doc].here
    \/ \E p \in waiting : p.doc = o.doc /\ p.manual /\ p.order >= o.order

Due(o, sensitive) ==
    /\ o.due \/ Superseding(o)
    /\ Allowed(o, sensitive)
    /\ \A p \in waiting : p.doc = o.doc => p.order >= o.order

NextDue(o, sensitive) ==
    /\ o \in waiting /\ Due(o, sensitive)
    /\ \A p \in waiting : Due(p, sensitive) => p.order >= o.order

\* A batch works with the settings it began with.
BeginBatch ==
    /\ outWorker.at \in {"asleep", "resting"}
    /\ IF outWorker.at = "asleep" THEN outWake ELSE TRUE
    /\ outWake' = FALSE
    /\ outWorker' = IF choices.on THEN [Asleep EXCEPT !.at = "batch", !.sensitive = choices.sensitive]
                    ELSE Asleep
    /\ UNCHANGED <<docs, waiting, sent, manualOnly, choices, backfill, merging, sharedDocs, tally>>

\* Links to events of this device have the order of their operation, those of other devices none.
\* The newest of this device's carries the row's time.
SentAlready(i) ==
    \E l \in docs[i].links : /\ l.order > 0 /\ l.stamp = docs[i].stamp
                             /\ \A m \in docs[i].links : m.order <= l.order

\* Nothing is to be sent for the entry: it is superseded, or the item was sent (or came from another
\* device, when the entry is of the backfill).
Needless(o) ==
    \/ Superseding(o)
    \/ SentAlready(o.doc)
    \/ o.history /\ docs[o.doc].links # {} /\ \A l \in docs[o.doc].links : l.order = 0

CompleteEntry(o) ==
    /\ outWorker.at = "batch" /\ NextDue(o, outWorker.sensitive) /\ Needless(o)
    /\ waiting' = waiting \ {o}
    /\ manualOnly' = IF Superseding(o) THEN manualOnly ELSE manualOnly \ {o.doc}
    /\ UNCHANGED <<docs, sent, choices, backfill, outWorker, outWake, merging, sharedDocs, tally>>

\* Files above the limit are left to the user. build_envelope measures them before they are packed
\* and by what was packed: they may have grown meanwhile.
TooBig(o) == o.doc \in Big /\ ~(o.force \/ o.manual)

LeaveToUser(o) ==
    /\ \/ outWorker.at = "batch" /\ NextDue(o, outWorker.sensitive) /\ ~Needless(o)
       \/ outWorker.at = "building" /\ o \in waiting /\ o.order = outWorker.order
    /\ TooBig(o)
    /\ waiting' = waiting \ {o}
    /\ manualOnly' = manualOnly \cup {o.doc}
    /\ outWorker' = [outWorker EXCEPT !.at = "batch", !.order = 0, !.born = 0, !.stamp = 0]
    /\ UNCHANGED <<docs, sent, choices, backfill, outWake, merging, sharedDocs, tally>>

BuildEvent(o) ==
    /\ outWorker.at = "batch" /\ NextDue(o, outWorker.sensitive) /\ ~Needless(o)
    /\ outWorker' = [outWorker EXCEPT !.at = "building", !.order = o.order,
                                         !.born = docs[o.doc].born, !.stamp = docs[o.doc].stamp]
    /\ UNCHANGED <<docs, waiting, sent, manualOnly, choices, backfill, outWake, merging, sharedDocs, tally>>

\* The event, its link to the row, if that is still there, and the end of the entry are one transaction.
CommitEvent(o) ==
    /\ outWorker.at = "building" /\ o \in waiting /\ o.order = outWorker.order /\ ~TooBig(o)
    /\ sent' = sent \cup {[order |-> o.order, doc |-> o.doc, stamp |-> outWorker.stamp, force |-> o.force]}
    /\ docs' = IF docs[o.doc].here /\ docs[o.doc].born = outWorker.born
               THEN [docs EXCEPT ![o.doc].links = @ \cup {[stamp |-> outWorker.stamp, order |-> o.order]}]
               ELSE docs
    /\ waiting' = waiting \ {o}
    /\ manualOnly' = manualOnly \ {o.doc}
    /\ outWorker' = [outWorker EXCEPT !.at = "batch", !.order = 0, !.born = 0, !.stamp = 0]
    /\ UNCHANGED <<choices, backfill, outWake, merging, sharedDocs, tally>>

\* The content cannot be read or encrypted: the entry waits for its retry, the worker two seconds.
BuildFails(o) ==
    /\ Count("other", MaxOther)
    /\ outWorker.at = "building" /\ o \in waiting /\ o.order = outWorker.order
    /\ waiting' = (waiting \ {o}) \cup {[o EXCEPT !.due = FALSE]}
    /\ outWorker' = [Asleep EXCEPT !.at = "resting"]
    /\ UNCHANGED <<docs, sent, manualOnly, choices, backfill, outWake, merging, sharedDocs>>

RetryAt(o) ==
    /\ o \in waiting /\ ~o.due
    /\ waiting' = (waiting \ {o}) \cup {[o EXCEPT !.due = TRUE]}
    /\ UNCHANGED <<docs, sent, manualOnly, choices, backfill, outWorker, outWake, merging, sharedDocs, tally>>

\* Nothing is due: the worker sleeps until it is woken or, if an entry has a retry time, until then.
EndBatch ==
    /\ outWorker.at = "batch"
    /\ \A o \in waiting : ~Due(o, outWorker.sensitive)
    /\ outWorker' = IF \E o \in waiting : ~o.due /\ Allowed(o, choices.sensitive)
                    THEN [Asleep EXCEPT !.at = "resting"] ELSE Asleep
    /\ UNCHANGED <<docs, waiting, sent, manualOnly, choices, backfill, outWake, merging, sharedDocs, tally>>

\* The application is restarted: every worker starts with a wake.
RestartOutbox ==
    /\ Count("other", MaxOther)
    /\ outWorker' = Asleep /\ outWake' = TRUE
    /\ backfill' = [backfill EXCEPT !.left = {}]
    /\ merging' = NoDoc
    /\ UNCHANGED <<docs, waiting, sent, manualOnly, choices, sharedDocs>>

-----------------------------------------------------------------------------
(* Remote copies *)

\* apply_envelope and the link: the later time and source win. An event is applied once.
MergeRemote(i, stamp) ==
    /\ tally.other < MaxOther /\ <<i, stamp>> \notin tally.merged
    /\ tally' = [tally EXCEPT !.other = @ + 1, !.merged = @ \cup {<<i, stamp>>}]
    /\ merging = NoDoc
    /\ docs' = [docs EXCEPT ![i] =
                 [here |-> TRUE, born |-> IF @.here THEN @.born ELSE stamp,
                  source |-> Larger(@.source, stamp), stamp |-> Larger(@.stamp, stamp),
                  links |-> @.links \cup {[stamp |-> stamp, order |-> 0]}]]
    /\ merging' = i
    /\ UNCHANGED <<waiting, sent, manualOnly, choices, backfill, outWorker, outWake, sharedDocs>>

\* reconcile_item_timestamps: the row takes the latest time of its linked events, whatever it had.
Reconcile(i) ==
    /\ merging = i
    /\ merging' = NoDoc
    /\ LET linked == Latest({l.stamp : l \in docs[i].links})
       IN  IF docs[i].links = {} THEN UNCHANGED <<docs, tally>>
           ELSE /\ docs' = [docs EXCEPT ![i].stamp = linked]
                /\ tally' = [tally EXCEPT !.setBack = @ \/ linked < docs[i].stamp]
    /\ UNCHANGED <<waiting, sent, manualOnly, choices, backfill, outWorker, outWake, sharedDocs>>

-----------------------------------------------------------------------------
BatchStep ==
    \/ BeginBatch \/ EndBatch
    \/ \E o \in waiting : CompleteEntry(o) \/ LeaveToUser(o) \/ BuildEvent(o) \/ CommitEvent(o)

RetryStep == \E o \in waiting : RetryAt(o)

FillStep == BeginBackfill \/ \E i \in Doc : BackfillDoc(i) \/ Reconcile(i)

OutboxNext ==
    \/ \E i \in Doc : \/ \E share \in BOOLEAN : CopyDoc(i, share)
                      \/ ShareDoc(i) \/ DeleteDoc(i)
                      \/ \E stamp \in RemoteStamps : MergeRemote(i, stamp)
    \/ \E p \in [on : BOOLEAN, sensitive : BOOLEAN] : SetPrefs(p)
    \/ \E o \in waiting : BuildFails(o)
    \/ RestartOutbox \/ BatchStep \/ RetryStep \/ FillStep

-----------------------------------------------------------------------------
(* Properties *)

\* Files above the limit are sent only when the user asked for it.
BigWasShared == \A e \in sent : e.doc \in Big => e.doc \in sharedDocs

\* An item is sent once for each time it was copied, however many entries of a backfill, a share
\* and a copy are staged for it and whatever interrupts the worker, unless its time was set back: by a
\* remote copy, or by a copy while the time of a remote one is still to come.
SentOnce == ~tally.setBack => \A e, f \in sent : e.doc = f.doc /\ e.stamp = f.stamp => e = f

\* Nothing is sent that was to be left to the user, and nothing twice.
OutboxSound == BigWasShared /\ SentOnce

\* A sensitive item leaves the device only if the settings of the batch allow it or the user shared it.
SensitiveStays ==
    [][\A e \in sent' \ sent : e.doc \in Sensitive => outWorker.sensitive \/ e.doc \in sharedDocs]_outboxVars

\* What may be sent is.
OutboxDrained == choices.on => \A o \in waiting : ~Allowed(o, choices.sensitive)
=============================================================================
