------------------------------- MODULE Delivery -------------------------------
(***************************************************************************)
(* How the devices of a group exchange events through the Hub              *)
(* (src-tauri/src/sync/manager.rs and repository.rs): each device keeps    *)
(* its rows, its outgoing confirmations and its pull cursor in SQLite, and *)
(* runs cloud cycles that submit its own pending events and pull pages of  *)
(* the log.  The Hub's log is HubLog, which HubStore implements.           *)
(*                                                                         *)
(* A cycle holds cloud_cycle_lock, so a device runs one at a time; between *)
(* its steps the Hub prunes, other devices append, a request times out     *)
(* (and may be handled later all the same), or the application dies.       *)
(*                                                                         *)
(* Cursors are only compared with each other, so consecutive ones stand    *)
(* for all; attachments are abstracted to when an event becomes ready.     *)
(***************************************************************************)
EXTENDS HubLog

CONSTANTS
    Device,
    Origin,       \* the device that recorded each event, in Device or outside
    Sequence,     \* its origin_sequence, the order of the device's own rows
    Item,         \* the sync key of the item it is about
    Limit,        \* MAX_EVENTS_PER_BATCH
    MaxRounds,    \* MAX_SYNC_BATCHES_PER_CONNECTION
    MaxFailures   \* bound on failures of every kind, for TLC only

ASSUME DeliveryAssumption ==
    /\ IsFiniteSet(Event)
    /\ Sequence \in [Event -> Nat]
    /\ \A e, f \in Event : Origin[e] = Origin[f] /\ Sequence[e] = Sequence[f] => e = f
    /\ Limit \in Nat \ {0} /\ MaxRounds \in Nat \ {0} /\ MaxFailures \in Nat

VARIABLES
    rows,        \* sync_events: the device's own events
    confirmed,   \* sync_deliveries with target 'cloud', of its own events
    cursor,      \* cloud_cursor
    boot,        \* cloud_bootstrap_group and cloud_bootstrap_target
    cycle,       \* the cloud cycle in memory
    late,        \* requests whose sender gave up; the Hub may still handle them
    failures,    \* number of failures so far
    seen,        \* history: the events each device ever stored
    published    \* history: the events the Hub ever accepted

deviceVars == <<rows, confirmed, cursor, boot>>
vars == <<logVars, deviceVars, cycle, late, failures, seen, published>>

NoGoal == -1
Idle == [step |-> "idle", at |-> 0, goal |-> NoGoal, queue |-> {}, failed |-> {},
         error |-> FALSE, rounds |-> 0, pull |-> FALSE, more |-> FALSE, batch |-> {},
         page |-> {}, upTo |-> 0]
Step == {"idle", "plan", "planned", "round", "exchange", "sent", "gap", "replanned",
         "received", "delivered", "ended"}
Cycle == [step : Step, at : Nat, goal : Nat \cup {NoGoal}, queue : SUBSET Event,
          failed : SUBSET Event, error : BOOLEAN, rounds : 0..MaxRounds, pull : BOOLEAN,
          more : BOOLEAN, batch : SUBSET Event, page : SUBSET Event, upTo : Nat]
Request == [from : Device, after : Nat, batch : SUBSET Event]

TypeOK ==
    /\ cursorOf \in [Event -> Nat] /\ issued \in Nat /\ assigned \subseteq Nat /\ pruned \in Nat
    /\ rows \in [Device -> SUBSET Event]
    /\ confirmed \in [Device -> SUBSET Event]
    /\ cursor \in [Device -> Nat]
    /\ boot \in [Device -> [stage : {"none", "pending", "complete"}, target : Nat]]
    /\ cycle \in [Device -> Cycle]
    /\ late \subseteq Request
    /\ failures \in 0..MaxFailures
    /\ seen \in [Device -> SUBSET Event] /\ published \subseteq Event

Init ==
    /\ LogInit
    /\ rows = [d \in Device |-> {}]
    /\ confirmed = [d \in Device |-> {}]
    /\ cursor = [d \in Device |-> 0]
    /\ boot = [d \in Device |-> [stage |-> "none", target |-> 0]]
    /\ cycle = [d \in Device |-> Idle]
    /\ late = {} /\ failures = 0
    /\ seen = [d \in Device |-> {}] /\ published = {}

-----------------------------------------------------------------------------
(* Local events *)

Own(d) == {e \in Event : Origin[e] = d}
Earlier(e, f) == Origin[e] = Origin[f] /\ Sequence[e] < Sequence[f]

\* commit_content_outbox_event, commit_item_state_event.
Record(e) ==
    LET d == Origin[e]
    IN  /\ d \in Device /\ e \notin seen[d]
        /\ \A f \in Event : Earlier(f, e) => f \in seen[d]
        /\ rows' = [rows EXCEPT ![d] = @ \cup {e}]
        /\ seen' = [seen EXCEPT ![d] = @ \cup {e}]
        /\ UNCHANGED <<logVars, confirmed, cursor, boot, cycle, late, failures, published>>

\* The cursor reached what the cycle bootstraps up to.
Reached(d) == cycle[d].goal # NoGoal /\ cursor[d] >= cycle[d].goal

\* prune_released_content_events: the clipboard item is gone, its event and
\* deliveries go with it.  The cleanup (apply_retention) waits for the cycle and
\* is put off while a bootstrap is pending, until the cycle that completes it.
Forget(d, e) ==
    /\ e \in rows[d]
    /\ \/ cycle[d].step = "idle" /\ boot[d].stage # "pending"
       \/ cycle[d].step = "ended" /\ Reached(d)
    /\ rows' = [rows EXCEPT ![d] = @ \ {e}]
    /\ confirmed' = [confirmed EXCEPT ![d] = @ \ {e}]
    /\ UNCHANGED <<logVars, cursor, boot, cycle, late, failures, seen, published>>

-----------------------------------------------------------------------------
(* A cycle: run_cycle_locked and sync_connection *)

\* The cycle of d goes on as c.
Become(d, c) == cycle' = [cycle EXCEPT ![d] = c]

\* prepare_cloud_cursor: a device that never bootstrapped asks for a plan.
StartCycle(d) ==
    /\ cycle[d].step = "idle"
    /\ IF boot[d].stage = "none" /\ cursor[d] = 0
       THEN Become(d, [cycle[d] EXCEPT !.step = "plan"]) /\ UNCHANGED boot
       ELSE /\ Become(d, [cycle[d] EXCEPT !.step = "round", !.at = cursor[d],
                   !.goal = IF boot[d].stage = "pending" THEN boot[d].target ELSE NoGoal])
            /\ boot' = IF boot[d].stage = "none"
                       THEN [boot EXCEPT ![d] = [stage |-> "complete", target |-> 0]]
                       ELSE boot
    /\ UNCHANGED <<logVars, rows, confirmed, cursor, late, failures, seen, published>>

\* bootstrap_cursor_bounds on the Hub: protected events below the floor make
\* the client start over.
Plan(d) ==
    /\ cycle[d].step \in {"plan", "gap"}
    /\ \E latest \in {pruned} \cup {cursorOf[e] : e \in Retained} :
          /\ latest >= pruned /\ \A e \in Retained : cursorOf[e] <= latest
          /\ Become(d, [cycle[d] EXCEPT
                !.step = IF @ = "plan" THEN "planned" ELSE "replanned",
                !.at = IF \E e \in Retained : cursorOf[e] <= pruned THEN 0 ELSE pruned,
                !.upTo = latest])
    /\ UNCHANGED <<logVars, deviceVars, late, failures, seen, published>>

\* start_cloud_bootstrap; after a gap the exchange goes on from the new cursor,
\* with the goal the cycle started with.
StorePlan(d) ==
    LET c == cycle[d]
    IN  /\ c.step \in {"planned", "replanned"}
        /\ cursor' = [cursor EXCEPT ![d] = c.at]
        /\ boot' = [boot EXCEPT ![d] = [stage |-> "pending", target |-> c.upTo]]
        /\ Become(d, IF c.step = "planned"
                     THEN [c EXCEPT !.step = "round", !.goal = c.upTo, !.upTo = 0]
                     ELSE [c EXCEPT !.step = "exchange", !.more = TRUE, !.batch = {}, !.upTo = 0])
        /\ UNCHANGED <<logVars, rows, confirmed, late, failures, seen, published>>

\* pending_origin_events_for_target.
Pending(d) == rows[d] \ confirmed[d]

\* The events a round takes on.
NextEvents(d) == {e \in Pending(d) : Cardinality({f \in Pending(d) : Earlier(f, e)}) < Limit}

NewRound(d) ==
    /\ cycle[d].step = "round"
    /\ Become(d, [cycle[d] EXCEPT !.step = "exchange", !.rounds = @ + 1, !.pull = TRUE,
                                  !.queue = NextEvents(d)])
    /\ UNCHANGED <<logVars, deviceVars, late, failures, seen, published>>

\* Mutant: every event is sent as soon as its own attachments are there.
ReadyAlone(c) == c.queue \ c.failed

\* TransferQueue::ready_events: an event waits for the earlier ones of its item,
\* also for those that failed.
Ready(c) ==
    {e \in c.queue \ c.failed : \A f \in c.queue : Item[f] = Item[e] => ~Earlier(f, e)}

\* exchange_ready_events: the first exchange of a round also pulls, so it may
\* carry nothing.  Which events go depends on attachments and the frame size.
Send(d, batch) ==
    /\ cycle[d].step = "exchange"
    /\ batch \subseteq Ready(cycle[d])
    /\ batch # {} \/ cycle[d].pull
    /\ Become(d, [cycle[d] EXCEPT !.step = "sent", !.pull = FALSE, !.batch = batch])
    /\ UNCHANGED <<logVars, deviceVars, late, failures, seen, published>>

\* Mutant: a cycle goes on as long as there is more.
Unlimited(c) == c.more

AnotherRound(c) == c.more /\ c.rounds < MaxRounds

\* The end of a round: an error ends the cycle.
EndRound(d) ==
    LET c == cycle[d]
    IN  /\ c.step = "exchange" /\ ~c.pull /\ Ready(c) = {}
        /\ Become(d, IF c.error THEN Idle
                     ELSE [c EXCEPT !.step = IF AnotherRound(c) THEN "round" ELSE "ended"])
        /\ UNCHANGED <<logVars, deviceVars, late, failures, seen, published>>

\* The bootstrap is complete once the goal is reached and the local retention
\* cleanup succeeded (a failing cleanup is a Crash here).
FinishCycle(d) ==
    /\ cycle[d].step = "ended"
    /\ boot' = IF Reached(d) THEN [boot EXCEPT ![d] = [stage |-> "complete", target |-> 0]]
                             ELSE boot
    /\ Become(d, Idle)
    /\ UNCHANGED <<logVars, rows, confirmed, cursor, late, failures, seen, published>>

-----------------------------------------------------------------------------
(* The Hub handles a SyncV2 request under the group's lock *)

\* ensure_cursor_available.
Gap(after) ==
    /\ after # 0 /\ after < pruned
    /\ \A e \in Retained : cursorOf[e] # after

NextCursors(S) == {at \in Cursors(S) : \A e \in S : at[e] <= issued + Cardinality(S)}

\* Events the Hub has are ignored; one that was pruned meanwhile is new again.
Accept(batch) ==
    LET new == batch \ Retained
    IN  /\ IF new = {} THEN UNCHANGED logVars ELSE \E at \in NextCursors(new) : Append(new, at)
        /\ published' = published \cup batch

\* list_events, on the log after the insertion.
Listed(log, after) ==
    LET above == {e \in Event : log[e] > after}
    IN  {e \in above : Cardinality({f \in above : log[f] < log[e]}) < Limit}

\* Mutants: the cursor moves to the end of the log whatever was returned; it
\* stays before the last event.
EndOfLog(log, e) == CHOOSE c \in {log[f] : f \in Event} : \A f \in Event : log[f] <= c
BeforeLast(log, e) == log[e] - 1

\* The cursor of a page whose last event is e (limit_sync_response).
EndOfPage(log, e) == log[e]

\* The client takes the reply as the delivery of everything it submitted, the
\* events the Hub already had included.
Serve(d) ==
    LET c == cycle[d]
        listed == Listed(cursorOf', c.at)
    IN  /\ c.step = "sent" /\ ~Gap(c.at)
        /\ Accept(c.batch)
        /\ \/ /\ listed = {}
              /\ Become(d, [c EXCEPT !.step = "received", !.page = {}, !.upTo = c.at,
                                     !.more = c.queue # {}])
           \/ \E last \in listed :
                 LET page == {e \in listed : cursorOf'[e] <= cursorOf'[last]}
                 IN  Become(d, [c EXCEPT
                        !.step = "received", !.page = page, !.upTo = EndOfPage(cursorOf', last),
                        !.more = c.queue # {} \/ page # listed \/ Cardinality(listed) >= Limit])
        /\ UNCHANGED <<deviceVars, late, failures, seen>>

\* Mutant: the gap is answered like an empty page.
EmptyPageForGap(d) ==
    /\ cycle[d].step = "sent" /\ Gap(cycle[d].at)
    /\ Become(d, [cycle[d] EXCEPT !.step = "received", !.upTo = cycle[d].at])
    /\ UNCHANGED <<logVars, deviceVars, late, failures, seen, published>>

\* HistoryGap: nothing of the request is taken.
ServeGap(d) ==
    /\ cycle[d].step = "sent" /\ Gap(cycle[d].at)
    /\ Become(d, [cycle[d] EXCEPT !.step = "gap"])
    /\ UNCHANGED <<logVars, deviceVars, late, failures, seen, published>>

\* A request whose sender gave up; its reply goes nowhere.
ServeLate(r) ==
    /\ late' = late \ {r}
    /\ IF Gap(r.after) THEN UNCHANGED <<logVars, published>> ELSE Accept(r.batch)
    /\ UNCHANGED <<deviceVars, cycle, failures, seen>>

\* A device outside the model submits its event; again only if a reply got lost.
OtherDevice(e) ==
    /\ Origin[e] \notin Device /\ e \notin Retained
    /\ Accept({e})
    /\ failures' = IF e \in published THEN failures + 1 ELSE failures
    /\ failures' <= MaxFailures
    /\ UNCHANGED <<deviceVars, cycle, late, seen>>

PruneLog ==
    /\ \E gone \in SUBSET Retained : Prune(gone)
    /\ UNCHANGED <<deviceVars, cycle, late, failures, seen, published>>

-----------------------------------------------------------------------------
(* The reply *)

\* mark_delivered, for every event of the request.
MarkDelivered(d) ==
    /\ cycle[d].step = "received"
    /\ confirmed' = [confirmed EXCEPT ![d] = @ \cup cycle[d].batch]
    /\ Become(d, [cycle[d] EXCEPT !.step = "delivered"])
    /\ UNCHANGED <<logVars, rows, cursor, boot, late, failures, seen, published>>

\* store_remote_batch: the page, its receipts and the cursor in one transaction.
\* Content that is still to be applied asks for another round.
StoreBatch(d) ==
    LET c == cycle[d]
    IN  /\ c.step = "delivered"
        /\ rows' = [rows EXCEPT ![d] = @ \cup (c.page \cap Own(d))]
        /\ confirmed' = [confirmed EXCEPT ![d] = @ \cup (c.page \cap Own(d))]
        /\ seen' = [seen EXCEPT ![d] = @ \cup c.page]
        /\ cursor' = [cursor EXCEPT ![d] = c.upTo]
        /\ \E unapplied \in BOOLEAN :
              Become(d, [c EXCEPT !.step = "exchange", !.at = c.upTo, !.queue = @ \ c.batch,
                             !.more = @ \/ unapplied, !.batch = {}, !.page = {}, !.upTo = 0])
        /\ UNCHANGED <<logVars, boot, late, failures, published>>

-----------------------------------------------------------------------------
(* Failures *)

Failing ==
    /\ failures < MaxFailures
    /\ failures' = failures + 1
    /\ UNCHANGED <<logVars, deviceVars, seen, published>>

\* The events could not be sent: the round goes on with the others, unless the
\* connection is closed.
GiveUp(d, events) ==
    \/ Become(d, [cycle[d] EXCEPT !.step = "exchange", !.failed = @ \cup events,
                                  !.error = TRUE, !.batch = {}])
    \/ Become(d, Idle)

\* The upload of an attachment fails: the events that need it do.
FailAttachment(d, events) ==
    /\ Failing
    /\ cycle[d].step = "exchange" /\ events # {} /\ events \subseteq cycle[d].queue \ cycle[d].failed
    /\ GiveUp(d, events)
    /\ UNCHANGED late

InTransit(d) ==
    IF cycle[d].step = "sent"
    THEN {[from |-> d, after |-> cycle[d].at, batch |-> cycle[d].batch]} ELSE {}

\* No reply in time; the request may still arrive.
Timeout(d) ==
    /\ Failing
    /\ cycle[d].step \in {"sent", "gap"}
    /\ GiveUp(d, cycle[d].batch)
    /\ late' = late \cup InTransit(d)

\* The Hub answers with an error (the quota, a malformed batch): nothing was taken.
Refuse(d) ==
    /\ Failing
    /\ cycle[d].step = "sent"
    /\ GiveUp(d, cycle[d].batch)
    /\ UNCHANGED late

\* refresh_cloud_retention has more pages to register than fit in this cycle,
\* which ends without an exchange.
RetentionFirst(d) ==
    /\ Failing
    /\ cycle[d].step = "round" /\ cycle[d].rounds = 0
    /\ Become(d, [cycle[d] EXCEPT !.step = "ended"])
    /\ UNCHANGED late

\* The application stops, or the cycle returns early with an error (the local
\* cleanup, the retention registration and the membership exchange may fail).
Crash(d) ==
    /\ Failing
    /\ cycle[d].step # "idle"
    /\ Become(d, Idle)
    /\ late' = late \cup InTransit(d)

DeviceStep(d) ==
    \/ StartCycle(d) \/ Plan(d) \/ StorePlan(d) \/ NewRound(d)
    \/ \E batch \in SUBSET Event : Send(d, batch)
    \/ EndRound(d) \/ FinishCycle(d)
    \/ Serve(d) \/ ServeGap(d) \/ MarkDelivered(d) \/ StoreBatch(d)

Next ==
    \/ \E e \in Event : Record(e)
    \/ \E d \in Device : DeviceStep(d)
    \/ \E d \in Device, e \in Event : Forget(d, e)
    \/ \E r \in late : ServeLate(r)
    \/ PruneLog
    \/ \E e \in Event : OtherDevice(e)
    \/ \E d \in Device : \E events \in SUBSET Event : FailAttachment(d, events)
    \/ \E d \in Device : Timeout(d) \/ Refuse(d) \/ RetentionFirst(d) \/ Crash(d)

Spec == Init /\ [][Next]_vars

\* Each device's background worker runs cycle after cycle, and the Hub answers.
FairSpec == Spec /\ \A d \in Device : WF_vars(DeviceStep(d))

-----------------------------------------------------------------------------
(* Properties *)

\* A device has stored every event of the log at or below its cursor: no page
\* boundary, gap recovery, crash or concurrent pruning makes it skip one.
NoSkip == \A d \in Device, e \in Retained : cursorOf[e] <= cursor[d] => e \in seen[d]

\* The device marks an event as uploaded only if the Hub took it, whatever
\* happened to the requests that carried it.
ConfirmedWereTaken == \A d \in Device : confirmed[d] \subseteq published

\* The Hub is never given an update of an item before the device's earlier events
\* of that item are confirmed (or were dropped locally).
ItemOrder ==
    \A e, f \in Event :
        /\ Origin[e] \in Device /\ Earlier(e, f) /\ Item[e] = Item[f]
        /\ f \in published /\ e \in rows[Origin[e]]
        => e \in confirmed[Origin[e]]

\* What a device records is eventually confirmed, or dropped with its item.
EventuallyUploaded ==
    \A d \in Device, e \in Event :
        e \in rows[d] ~> (e \notin rows[d] \/ e \in confirmed[d])

\* What the Hub retains eventually reaches every device, or is pruned.
EventuallySeen ==
    \A d \in Device, e \in Event : e \in Retained ~> (e \notin Retained \/ e \in seen[d])

\* Both ways: what is recorded reaches the Hub, and what the Hub has reaches the devices.
EventuallyDelivered == EventuallyUploaded /\ EventuallySeen

\* A bootstrap always ends, as nothing is cleaned up locally before.
BootstrapEnds == \A d \in Device : boot[d].stage = "pending" ~> boot[d].stage = "complete"

\* A bootstrap ends only when the cursor reached the snapshot it was planned for.
BootstrapReachesTarget ==
    [][\A d \in Device :
          boot[d].stage = "pending" /\ boot'[d].stage = "complete" => cursor[d] >= boot[d].target]_vars
===============================================================================
