----------------------------- MODULE ItemState -----------------------------
(* One clipboard item as every device of a group keeps it: the row of clipboard_items the user    *)
(* sees, the row of sync_item_states that merges its fields (favorite, pinned and note as Meta,   *)
(* and its presence), the outbox of copies waiting to become events, and the events themselves.   *)
(* Items do not influence each other, so one key (sync_key) is modelled.                          *)
(*                                                                                                *)
(* The user's operations are single transactions. Turning one into an event takes three steps     *)
(* (read, allocate the sequence, commit) under enqueue_lock; applying an event of another device  *)
(* takes one step, or two for content, under apply_lock. No lock covers both, and the user needs  *)
(* neither, so the steps interleave; Interleaved = FALSE is the program with one lock for all.    *)
EXTENDS Integers, FiniteSets

CONSTANTS
    Device,         \* the devices of the group, numbered: ids break ties between versions
    Meta,           \* the metadata fields of an item
    Staged,         \* whether a copy may be, or always is, staged for synchronization
    Interleaved,    \* may an event be applied while an operation is serialized, and the user act
                    \* while content is materialized
    MaxOps,         \* bound: operations of the users
    MaxJump,        \* bound: how far the wall clock may push a sequence past the last one
    MaxCrash        \* bound: crashes

ASSUME ConstantsAssumption ==
    /\ Device \subseteq Nat \ {0}
    /\ "present" \notin Meta
    /\ Staged \subseteq BOOLEAN /\ Interleaved \in BOOLEAN
    /\ MaxOps \in Nat /\ MaxJump \in Nat \ {0} /\ MaxCrash \in Nat

VARIABLES
    item,       \* clipboard_items: is there a row, its source revision and what it shows
    row,        \* sync_item_states: values, versions, dirty bits, local revision, pending order
    outbox,     \* sync_content_outbox: copies waiting to become events
    clock,      \* sync_state 'origin_sequence': the last sequence allocated or observed
    job,        \* the operation materialize_local_operations is working on
    taking,     \* the content event whose presence is merged and whose row is still to come
    applied,    \* the versions of the events applied on each device, its own included
    events,     \* every event any device has published
    ops,        \* the operations so far: the order of the next one
    crashes

vars == <<item, row, outbox, clock, job, taking, applied, events, ops, crashes>>

Field == Meta \cup {"present"}
Patch == UNION {[S -> BOOLEAN] : S \in SUBSET Field}
Version == (Nat \ {0}) \X Device
NoVersion == <<0, 0>>
Event == [seq : Nat \ {0}, dev : Device, kind : {"state", "content"}, patch : Patch, order : Nat]
Item == [here : BOOLEAN, rev : Nat, meta : [Meta -> BOOLEAN]]
Row == [val : [Field -> BOOLEAN], ver : [Field -> Version \cup {NoVersion}],
        dirty : SUBSET Field, rev : Nat, order : Nat]
Entry == [order : Nat, rev : Nat, waiting : BOOLEAN]
Job == [kind : {"none", "state", "content"}, seq : Nat, patch : Patch, rev : Nat, order : Nat]

NoPatch == [f \in {} |-> TRUE]
NoJob == [kind |-> "none", seq |-> 0, patch |-> NoPatch, rev |-> 0, order |-> 0]
NoEvent == [seq |-> 0, dev |-> 0, kind |-> "state", patch |-> NoPatch, order |-> 0]

VersionOf(e) == <<e.seq, e.dev>>

\* The version order of merge_bool_field and merge_note_field.
Newer(v, w) == w[1] < v[1] \/ (w[1] = v[1] /\ w[2] < v[2])

Init ==
    /\ item = [d \in Device |-> [here |-> FALSE, rev |-> 0, meta |-> [f \in Meta |-> FALSE]]]
    /\ row = [d \in Device |->
                [val |-> [f \in Field |-> FALSE], ver |-> [f \in Field |-> NoVersion],
                 dirty |-> {}, rev |-> 0, order |-> 0]]
    /\ outbox = [d \in Device |-> {}]
    /\ clock = [d \in Device |-> 0]
    /\ job = [d \in Device |-> NoJob]
    /\ taking = [d \in Device |-> NoEvent]
    /\ applied = [d \in Device |-> {}]
    /\ events = {}
    /\ ops = 0
    /\ crashes = 0

----------------------------------------------------------------------------
\* The user.

UserMayAct(d) == ops < MaxOps /\ (Interleaved \/ taking[d] = NoEvent)

\* The user's own value, dirty until an event carries it. A pending presence keeps its place in the
\* order of operations when other fields join it; a new deletion takes a new one.
Marked(r, f, value) ==
    [r EXCEPT !.val = [@ EXCEPT ![f] = value], !.dirty = @ \cup {f}, !.rev = @ + 1,
              !.order = IF f # "present" /\ "present" \in r.dirty THEN @ ELSE ops + 1]

\* Favorite, pin or note: the visible row and the field are written in one transaction.
Mark(d, f) ==
    /\ UserMayAct(d) /\ item[d].here
    /\ LET value == ~item[d].meta[f]
       IN /\ item' = [item EXCEPT ![d].meta[f] = value]
          /\ row' = [row EXCEPT ![d] = Marked(@, f, value)]
    /\ ops' = ops + 1
    /\ UNCHANGED <<outbox, clock, job, taking, applied, events, crashes>>

Delete(d) ==
    /\ UserMayAct(d) /\ item[d].here
    /\ item' = [item EXCEPT ![d].here = FALSE]
    /\ row' = [row EXCEPT ![d] = Marked(@, "present", FALSE)]
    /\ ops' = ops + 1
    /\ UNCHANGED <<outbox, clock, job, taking, applied, events, crashes>>

\* A capture: a new row, or the same row under a new source revision; with its outbox entry when
\* the item is to be synchronized.
Copy(d, staged) ==
    /\ UserMayAct(d)
    /\ item' = [item EXCEPT ![d] =
                 [here |-> TRUE, rev |-> ops + 1,
                  meta |-> IF @.here THEN @.meta ELSE [f \in Meta |-> FALSE]]]
    /\ outbox' = [outbox EXCEPT ![d] =
                   IF staged THEN @ \cup {[order |-> ops + 1, rev |-> ops + 1, waiting |-> FALSE]}
                   ELSE @]
    /\ ops' = ops + 1
    /\ UNCHANGED <<row, clock, job, taking, applied, events, crashes>>

----------------------------------------------------------------------------
\* From operations to events.

\* The item is gone or was copied again since.
Superseded(d, o) == ~item[d].here \/ item[d].rev # o.rev

\* Mutants: metadata overtakes a copy; it waits for every copy.
StateReadyAlone(d) == row[d].dirty # {}
StateReadyLast(d) == row[d].dirty # {} /\ outbox[d] = {}

StateReady(d) == row[d].dirty # {} /\ \A o \in outbox[d] : row[d].order =< o.order

ContentReady(d, o) ==
    /\ ~o.waiting \/ Superseded(d, o)
    /\ \A p \in outbox[d] : o.order =< p.order
    /\ row[d].dirty # {} => o.order =< row[d].order

BeginState(d) ==
    /\ job[d] = NoJob /\ StateReady(d)
    /\ \A o \in outbox[d] : ContentReady(d, o) => row[d].order < o.order
    /\ job' = [job EXCEPT ![d] = [kind |-> "state", seq |-> 0,
                                  patch |-> [f \in row[d].dirty |-> row[d].val[f]],
                                  rev |-> row[d].rev, order |-> row[d].order]]
    /\ UNCHANGED <<item, row, outbox, clock, taking, applied, events, ops, crashes>>

DropContent(d, o) ==
    /\ job[d] = NoJob /\ ContentReady(d, o) /\ Superseded(d, o)
    /\ outbox' = [outbox EXCEPT ![d] = @ \ {o}]
    /\ UNCHANGED <<item, row, clock, job, taking, applied, events, ops, crashes>>

BeginContent(d, o) ==
    /\ job[d] = NoJob /\ ContentReady(d, o) /\ ~Superseded(d, o)
    /\ job' = [job EXCEPT ![d] = [kind |-> "content", seq |-> 0,
                                  patch |-> [f \in {"present"} |-> TRUE],
                                  rev |-> 0, order |-> o.order]]
    /\ UNCHANGED <<item, row, outbox, clock, taking, applied, events, ops, crashes>>

\* The content cannot be encrypted now: the entry waits for its retry time.
FailContent(d) ==
    /\ job[d].kind = "content" /\ job[d].seq = 0
    /\ outbox' = [outbox EXCEPT ![d] = {[o EXCEPT !.waiting = @ \/ o.order = job[d].order] : o \in outbox[d]}]
    /\ job' = [job EXCEPT ![d] = NoJob]
    /\ UNCHANGED <<item, row, clock, taking, applied, events, ops, crashes>>

RetryDue(d, o) ==
    /\ o.waiting
    /\ outbox' = [outbox EXCEPT ![d] = (@ \ {o}) \cup {[o EXCEPT !.waiting = FALSE]}]
    /\ UNCHANGED <<item, row, clock, job, taking, applied, events, ops, crashes>>

\* Mutant: the new sequence is not stored.
AllocateUnstored(d, n) ==
    /\ job[d].kind # "none" /\ job[d].seq = 0
    /\ n \in clock[d] + 1 .. clock[d] + MaxJump
    /\ job' = [job EXCEPT ![d].seq = n]
    /\ UNCHANGED <<item, row, outbox, clock, taking, applied, events, ops, crashes>>

\* The sequence is allocated in a transaction of its own, past the last one and the wall clock.
Allocate(d, n) ==
    /\ job[d].kind # "none" /\ job[d].seq = 0
    /\ n \in clock[d] + 1 .. clock[d] + MaxJump
    /\ clock' = [clock EXCEPT ![d] = n]
    /\ job' = [job EXCEPT ![d].seq = n]
    /\ UNCHANGED <<item, row, outbox, taking, applied, events, ops, crashes>>

Published(d) == [seq |-> job[d].seq, dev |-> d, kind |-> job[d].kind,
                 patch |-> job[d].patch, order |-> job[d].order]

\* Fields that are sent get the event's version and are no longer dirty.
Sent(r, fields, v) ==
    [r EXCEPT !.ver = [f \in Field |-> IF f \in fields THEN v ELSE @[f]],
              !.dirty = @ \ fields,
              !.order = IF r.dirty \subseteq fields THEN 0 ELSE @]

\* Mutant: whatever revision was serialized.
StateSentAnyway(d) == Sent(row[d], DOMAIN job[d].patch, <<job[d].seq, d>>)

\* Only the revision that was serialized counts as sent.
StateSent(d) ==
    IF row[d].rev = job[d].rev THEN Sent(row[d], DOMAIN job[d].patch, <<job[d].seq, d>>)
    ELSE row[d]

\* A copy makes the item present unless it was deleted after the copy.
ContentSent(d) ==
    IF \/ "present" \in row[d].dirty /\ row[d].order > job[d].order
       \/ ~item[d].here
    THEN row[d]
    ELSE [Sent(row[d], {"present"}, <<job[d].seq, d>>)
            EXCEPT !.val = [@ EXCEPT !["present"] = TRUE], !.rev = @ + 1]

Publish(d) ==
    /\ job[d].kind # "none" /\ job[d].seq # 0
    /\ events' = events \cup {Published(d)}
    /\ applied' = [applied EXCEPT ![d] = @ \cup {<<job[d].seq, d>>}]
    /\ job' = [job EXCEPT ![d] = NoJob]
    /\ UNCHANGED <<item, clock, taking, ops, crashes>>

CommitState(d) ==
    /\ Publish(d) /\ job[d].kind = "state"
    /\ row' = [row EXCEPT ![d] = StateSent(d)]
    /\ UNCHANGED outbox

CommitContent(d) ==
    /\ Publish(d) /\ job[d].kind = "content"
    /\ row' = [row EXCEPT ![d] = ContentSent(d)]
    /\ outbox' = [outbox EXCEPT ![d] = {o \in @ : o.order # job[d].order}]

----------------------------------------------------------------------------
\* From events to the items of the other devices.

MayApply(d, e) ==
    /\ e.dev # d /\ VersionOf(e) \notin applied[d]
    /\ taking[d] = NoEvent
    /\ Interleaved \/ job[d] = NoJob

Takes(r, f, e) == f \in DOMAIN e.patch /\ f \notin r.dirty /\ Newer(VersionOf(e), r.ver[f])

Merged(r, e) ==
    [r EXCEPT !.val = [f \in Field |-> IF Takes(r, f, e) THEN e.patch[f] ELSE @[f]],
              !.ver = [f \in Field |-> IF Takes(r, f, e) THEN VersionOf(e) ELSE @[f]]]

KnownDeleted(r) == r.ver["present"] # NoVersion /\ ~r.val["present"]

\* What the user sees after the merge: nothing if the item is known to be deleted.
Materialized(i, r) ==
    IF KnownDeleted(r) THEN [i EXCEPT !.here = FALSE]
    ELSE [i EXCEPT !.meta = [f \in Meta |-> r.val[f]]]

Observed(d, e) == [clock EXCEPT ![d] = IF @ < e.seq THEN e.seq ELSE @]

Merge(d, e) ==
    /\ row' = [row EXCEPT ![d] = Merged(@, e)]
    /\ clock' = Observed(d, e)
    /\ UNCHANGED <<outbox, job, events, ops, crashes>>

ApplyState(d, e) ==
    /\ e.kind = "state" /\ MayApply(d, e)
    /\ Merge(d, e)
    /\ item' = [item EXCEPT ![d] = Materialized(@, Merged(row[d], e))]
    /\ applied' = [applied EXCEPT ![d] = @ \cup {VersionOf(e)}]
    /\ UNCHANGED taking

\* The versions of a record the Hub still keeps, learned before its cleanup may count on them.
LearnRetention(d, e) ==
    /\ e.kind = "state" /\ e.dev # d
    /\ Interleaved \/ job[d] = NoJob
    /\ Merge(d, e)
    /\ UNCHANGED <<item, applied, taking>>

\* Content first merges its presence: a newer deletion suppresses it.
ApplyPresence(d, e) ==
    /\ e.kind = "content" /\ MayApply(d, e)
    /\ Merge(d, e)
    /\ item' = [item EXCEPT ![d] = Materialized(@, Merged(row[d], e))]
    /\ IF KnownDeleted(Merged(row[d], e))
       THEN applied' = [applied EXCEPT ![d] = @ \cup {VersionOf(e)}] /\ UNCHANGED taking
       ELSE taking' = [taking EXCEPT ![d] = e] /\ UNCHANGED applied

\* The attachments are there and the row is written. An existing row keeps its revision or takes
\* the sender's (0), whichever copy is later by its timestamp.
InsertContent(d, keep) ==
    /\ taking[d] # NoEvent
    /\ item' = [item EXCEPT ![d] = [here |-> TRUE, rev |-> IF @.here /\ keep THEN @.rev ELSE 0,
                                    meta |-> [f \in Meta |-> row[d].val[f]]]]
    /\ applied' = [applied EXCEPT ![d] = @ \cup {VersionOf(taking[d])}]
    /\ taking' = [taking EXCEPT ![d] = NoEvent]
    /\ UNCHANGED <<row, outbox, clock, job, events, ops, crashes>>

\* The attachment cannot be fetched: the event stays pending and is tried again from the start.
DeferContent(d) ==
    /\ taking[d] # NoEvent
    /\ taking' = [taking EXCEPT ![d] = NoEvent]
    /\ UNCHANGED <<item, row, outbox, clock, job, applied, events, ops, crashes>>

Crash(d) ==
    /\ crashes < MaxCrash /\ (job[d] # NoJob \/ taking[d] # NoEvent)
    /\ job' = [job EXCEPT ![d] = NoJob]
    /\ taking' = [taking EXCEPT ![d] = NoEvent]
    /\ crashes' = crashes + 1
    /\ UNCHANGED <<item, row, outbox, clock, applied, events, ops>>

----------------------------------------------------------------------------
UserStep(d) ==
    \/ \E f \in Meta : Mark(d, f)
    \/ Delete(d)
    \/ \E s \in Staged : Copy(d, s)

SendStep(d) ==
    \/ BeginState(d)
    \/ \E o \in outbox[d] : DropContent(d, o) \/ BeginContent(d, o) \/ RetryDue(d, o)
    \/ FailContent(d)
    \/ \E n \in clock[d] + 1 .. clock[d] + MaxJump : Allocate(d, n)
    \/ CommitState(d)
    \/ CommitContent(d)

ReceiveStep(d) ==
    \/ \E e \in events : ApplyState(d, e) \/ LearnRetention(d, e) \/ ApplyPresence(d, e)
    \/ \E keep \in BOOLEAN : InsertContent(d, keep)
    \/ DeferContent(d)

Next == \E d \in Device : UserStep(d) \/ SendStep(d) \/ ReceiveStep(d) \/ Crash(d)

Spec == Init /\ [][Next]_vars

\* The workers of every device run: an operation that is ready is taken up, a job goes on, an entry
\* is due again in the end. Content that can be encrypted again and again fails only finitely often.
Fairness == \A d \in Device :
    /\ WF_vars(BeginState(d))
    /\ WF_vars(\E o \in outbox[d] : DropContent(d, o) \/ BeginContent(d, o))
    /\ WF_vars(\E o \in outbox[d] : RetryDue(d, o))
    /\ SF_vars(\E n \in clock[d] + 1 .. clock[d] + MaxJump : job[d].kind = "content" /\ Allocate(d, n))
    /\ WF_vars(\E n \in clock[d] + 1 .. clock[d] + MaxJump : Allocate(d, n))
    /\ WF_vars(CommitState(d) \/ CommitContent(d))

FairSpec == Spec /\ Fairness

----------------------------------------------------------------------------
\* Every variable keeps the shape the tables and the worker give it.
TypeOK ==
    /\ item \in [Device -> Item]
    /\ row \in [Device -> Row]
    /\ outbox \in [Device -> SUBSET Entry]
    /\ clock \in [Device -> Nat]
    /\ job \in [Device -> Job]
    /\ taking \in [Device -> Event \cup {NoEvent}]
    /\ applied \in [Device -> SUBSET Version]
    /\ events \subseteq Event
    /\ ops \in Nat /\ crashes \in Nat

\* A field with a version and no local change holds the value the event of that version carries,
\* whatever the user did while the event was serialized (mark_state_sent_on clears only the
\* serialized revision, record_content_presence_at_order spares a later deletion).
ValueOfVersion ==
    \A d \in Device : \A f \in Field :
        f \notin row[d].dirty /\ row[d].ver[f] # NoVersion =>
            \E e \in events : VersionOf(e) = row[d].ver[f] /\ f \in DOMAIN e.patch
                              /\ e.patch[f] = row[d].val[f]

\* No two events of a device share a sequence: the log would drop the second as a duplicate.
OneEventPerVersion ==
    \A e1, e2 \in events : VersionOf(e1) = VersionOf(e2) => e1 = e2

\* A device's events follow the order of the user's operations: a deletion is never sent before the
\* copy it removes, nor a copy before the deletion it undoes, even when a copy waits for a retry.
SentInOrder ==
    \A e1, e2 \in events : e1.dev = e2.dev /\ e1.seq < e2.seq => e1.order =< e2.order

\* A field without a local change is never behind an event the device has applied: together with
\* ValueOfVersion, devices that have applied the same events agree on every field.
NewestWins ==
    \A d \in Device : \A f \in Field : \A e \in events :
        VersionOf(e) \in applied[d] /\ f \in DOMAIN e.patch /\ f \notin row[d].dirty =>
            ~Newer(VersionOf(e), row[d].ver[f])

\* Nothing left to send, and every event applied.
Settled(d) ==
    /\ row[d].dirty = {} /\ outbox[d] = {} /\ job[d] = NoJob /\ taking[d] = NoEvent
    /\ \A e \in events : VersionOf(e) \in applied[d]

\* With nothing left to send or apply, an item known to be deleted is not in the history.
DeletedIsGone == \A d \in Device : Settled(d) /\ KnownDeleted(row[d]) => ~item[d].here

\* With nothing left to send or apply, the history shows the merged fields.
ShownIsMerged ==
    \A d \in Device : Settled(d) /\ item[d].here => \A f \in Meta : item[d].meta[f] = row[d].val[f]

\* Whatever the user changed or copied is taken out of the queue in the end.
AllSent == \A d \in Device : row[d].dirty = {} /\ outbox[d] = {}
=============================================================================
