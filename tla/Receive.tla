------------------------------ MODULE Receive ------------------------------
(* How a device takes in the events of others: pages pulled from the Hub and from peers, and        *)
(* batches peers push, are stored; one pass at a time applies what is stored and due, deletions     *)
(* before content; what cannot be applied is put off with a timer or, if invalid, quarantined.     *)
(* Which of two changes of an item wins is ItemState's matter: here a newer version does.          *)
EXTENDS Integers, Sequences, FiniteSets

CONSTANTS
    Item, Origin, Event,
    About,          \* of every event: its item
    Deletes,        \* the events that delete their item; the others bring its content
    Invalid,        \* the events that cannot be decrypted or decoded
    Version, From,  \* of every event: its version and the device it comes from
    Source,         \* what is pulled from: the Hub, peers
    LogOf,          \* the events every source holds, in its order
    Pushed,         \* batches peers push
    PageSize, BatchSize,
    MaxMishaps      \* bound: failures, lost answers, restarts and removals of devices

Push == "push"

\* No two changes of an item have the same version: it holds the device and its own sequence number.
ASSUME ReceiveAssumption ==
    /\ IsFiniteSet(Event) /\ Deletes \subseteq Event /\ About \in [Event -> Item] /\ Version \in [Event -> Nat \ {0}]
    /\ \A e, f \in Event : About[e] = About[f] /\ Version[e] = Version[f] => e = f
    /\ Push \notin Source /\ LogOf \in [Source -> Seq(Event)] /\ Pushed \subseteq SUBSET Event
    /\ PageSize \in Nat \ {0} /\ BatchSize \in Nat \ {0} /\ MaxMishaps \in Nat

Caller == Source \cup {Push}

VARIABLES
    pulled,     \* the pull cursor of every source
    page,       \* of every caller: the answer or batch it works on
    inbox,      \* sync_events: what became of every event
    place,      \* the local cursor of every event that is stored, 0 of the others
    newest,     \* the last local cursor
    known,      \* sync_item_states: the newest presence of every item
    rows,       \* clipboard_items: how many rows there are of an item
    pass,       \* who holds apply_lock, and what is left to apply
    awake,      \* the transfer workers with a wake
    timers,     \* events whose wake is scheduled
    lost,       \* events whose scheduled wake a restart lost
    banned,     \* devices removed from the group
    mishaps     \* so far

receiveVars == <<pulled, page, inbox, place, newest, known, rows, pass, awake, timers, lost, banned, mishaps>>
local == <<place, newest>>

NoPage == [at |-> "none", events |-> {}, latest |-> 0, more |-> FALSE]
NoPass == [by |-> "nobody", at |-> "none", batch |-> {}, files |-> {}, mark |-> 0, progress |-> FALSE]

ReceiveInit ==
    /\ pulled = [s \in Source |-> 0]
    /\ page = [c \in Caller |-> NoPage]
    /\ inbox = [e \in Event |-> [at |-> "unknown", due |-> FALSE, failed |-> FALSE]]
    /\ place = [e \in Event |-> 0] /\ newest = 0
    /\ known = [k \in Item |-> [version |-> 0, present |-> TRUE]]
    /\ rows = [k \in Item |-> 0]
    /\ pass = NoPass
    /\ awake = Source
    /\ timers = {} /\ lost = {} /\ banned = {} /\ mishaps = 0

Mishap == mishaps < MaxMishaps /\ mishaps' = mishaps + 1

----------------------------------------------------------------------------
\* Pages and batches.

\* A cycle asks for the page behind the cursor; content waits for the last page.
Fetch(s) ==
    LET latest == IF pulled[s] + PageSize < Len(LogOf[s]) THEN pulled[s] + PageSize ELSE Len(LogOf[s])
    IN /\ s \in awake /\ page[s].at = "none"
       /\ awake' = awake \ {s}
       /\ page' = [page EXCEPT ![s] = [at |-> "here", events |-> {LogOf[s][i] : i \in pulled[s] + 1 .. latest},
                                       latest |-> latest, more |-> latest < Len(LogOf[s])]]
       /\ UNCHANGED <<pulled, inbox, local, known, rows, pass, timers, lost, banned, mishaps>>

\* A cycle that fails is tried again after its backoff.
FetchFails(s) ==
    /\ page[s].at = "here" /\ Mishap
    /\ page' = [page EXCEPT ![s] = NoPage]
    /\ awake' = awake \cup {s}
    /\ UNCHANGED <<pulled, inbox, local, known, rows, pass, timers, lost, banned>>

\* A peer pushes a batch of what it has no confirmation for; it may have more to send.
PushArrives(events, more) ==
    /\ page[Push].at = "none" /\ \E e \in events : inbox[e].at = "unknown"
    /\ page' = [page EXCEPT ![Push] = [at |-> "here", events |-> events, latest |-> 0, more |-> more]]
    /\ UNCHANGED <<pulled, inbox, local, known, rows, pass, awake, timers, lost, banned, mishaps>>

Moves(c) == pulled' = [s \in Source |-> IF s = c THEN page[c].latest ELSE pulled[s]]

\* A page is rid of the events of removed devices first; whoever is removed cannot push.
Taken(c) == {e \in page[c].events : inbox[e].at = "unknown" /\ (c # Push => From[e] \notin banned)}

\* The next local cursors for new events. They follow the order of the page, which is left open here.
Placings(new) ==
    {at \in [new -> newest + 1 .. newest + Cardinality(new)] : \A e, f \in new : at[e] = at[f] => e = f}

\* One transaction stores the events that are new and moves the cursor.
Accept(c) ==
    /\ page[c].at = "here"
    /\ \E at \in Placings(Taken(c)) :
           place' = [e \in Event |-> IF e \in Taken(c) THEN at[e] ELSE place[e]]
    /\ newest' = newest + Cardinality(Taken(c))
    /\ inbox' = [e \in Event |-> IF e \in Taken(c) THEN [at |-> "pending", due |-> TRUE, failed |-> FALSE]
                                 ELSE inbox[e]]
    /\ Moves(c)
    /\ page' = [page EXCEPT ![c].at = "stored", ![c].events = Taken(c)]
    /\ UNCHANGED <<known, rows, pass, awake, timers, lost, banned, mishaps>>

----------------------------------------------------------------------------
\* The pass.

Due(e) == inbox[e].at = "pending" /\ inbox[e].due
DueDeletions == {e \in Deletes : Due(e)}
DueContent == {e \in Event \ Deletes : Due(e)}

\* Events are taken by their local cursors.
First(e, events) == e \in events /\ \A f \in events : place[e] =< place[f]
Batch == {e \in DueContent : Cardinality({f \in DueContent : place[f] < place[e]}) < BatchSize}

BeginPass(c) ==
    /\ page[c].at = "stored" /\ pass = NoPass
    /\ pass' = [NoPass EXCEPT !.by = c, !.at = "deletions"]
    /\ UNCHANGED <<pulled, page, inbox, local, known, rows, awake, timers, lost, banned, mishaps>>

Becomes(e, at) ==
    /\ inbox' = [inbox EXCEPT ![e].at = at]
    /\ lost' = lost \ {e}

PutOff(e) ==
    /\ inbox' = [inbox EXCEPT ![e].due = FALSE, ![e].failed = TRUE]
    /\ timers' = timers \cup {e} /\ lost' = lost \ {e}
    /\ Mishap

\* The newer presence is kept.
Learns(e) ==
    known' = [known EXCEPT ![About[e]] = IF Version[e] > @.version
                                         THEN [version |-> Version[e], present |-> e \notin Deletes] ELSE @]

\* With the item's rows deleted if it is known to be deleted.
Suppresses(e) == rows' = [rows EXCEPT ![About[e]] = IF known'[About[e]].present THEN @ ELSE 0]

ApplyDeletion(e) ==
    /\ pass.at = "deletions" /\ First(e, DueDeletions)
    /\ IF e \in Invalid
       THEN Becomes(e, "rejected") /\ UNCHANGED <<known, rows>>
       ELSE Becomes(e, "applied") /\ Learns(e) /\ Suppresses(e)
    /\ UNCHANGED <<pulled, page, local, pass, awake, timers, banned, mishaps>>

DeletionFails(e) ==
    /\ pass.at = "deletions" /\ First(e, DueDeletions) /\ e \notin Invalid
    /\ PutOff(e)
    /\ UNCHANGED <<pulled, page, local, known, rows, pass, awake, banned>>

Reads ==
    /\ inbox' = [e \in Event |-> IF e \in Batch \cap Invalid THEN [inbox[e] EXCEPT !.at = "rejected"] ELSE inbox[e]]
    /\ pass' = [pass EXCEPT !.at = "content", !.batch = Batch \ Invalid,
                            !.mark = newest, !.progress = Batch \cap Invalid # {}]
    /\ UNCHANGED <<pulled, page, local, known, rows, awake, timers, lost, banned, mishaps>>

\* Mutant: content is read with deletions left to apply.
ReadContentEarly == pass.at = "deletions" /\ ~page[pass.by].more /\ Reads

\* With no deletion left, a batch of content is read and the invalid is quarantined.
ReadContent == pass.at = "deletions" /\ DueDeletions = {} /\ ~page[pass.by].more /\ Reads

\* Content merges its presence first; that of an item known to be deleted ends there.
MergePresence(e) ==
    /\ pass.at = "content" /\ First(e, pass.batch)
    /\ Learns(e) /\ Suppresses(e)
    /\ IF known'[About[e]].present
       THEN /\ pass' = [pass EXCEPT !.batch = @ \ {e}, !.files = @ \cup {e}]
            /\ UNCHANGED <<inbox, lost>>
       ELSE /\ pass' = [pass EXCEPT !.batch = @ \ {e}, !.progress = TRUE]
            /\ Becomes(e, "applied")
    /\ UNCHANGED <<pulled, page, local, awake, timers, banned, mishaps>>

\* Attachments are there: the item's row is kept, or written if there is none.
Write(e) ==
    /\ pass.at = "content" /\ pass.batch = {} /\ First(e, pass.files)
    /\ rows' = [rows EXCEPT ![About[e]] = IF @ > 0 THEN @ ELSE 1]
    /\ pass' = [pass EXCEPT !.at = "written"]
    /\ UNCHANGED <<pulled, page, inbox, local, known, awake, timers, lost, banned, mishaps>>

ContentApplied(e) ==
    /\ pass.at = "written" /\ First(e, pass.files)
    /\ Becomes(e, "applied")
    /\ pass' = [pass EXCEPT !.at = "content", !.files = @ \ {e}, !.progress = TRUE]
    /\ UNCHANGED <<pulled, page, local, known, rows, awake, timers, banned, mishaps>>

\* Its presence cannot be merged, attachments are not to be had, or writing fails.
PresenceFails(e) ==
    /\ pass.at = "content" /\ First(e, pass.batch)
    /\ PutOff(e)
    /\ pass' = [pass EXCEPT !.batch = @ \ {e}]
    /\ UNCHANGED <<pulled, page, local, known, rows, awake, banned>>

ContentFails(e) ==
    /\ pass.at = "content" /\ pass.batch = {} /\ First(e, pass.files)
    /\ PutOff(e)
    /\ pass' = [pass EXCEPT !.files = @ \ {e}]
    /\ UNCHANGED <<pulled, page, local, known, rows, awake, banned>>

MoreLeft == pass.progress /\ DueContent # {}

\* The caller carries on, or wakes its worker, if there is more to fetch or to apply; what came from
\* the Hub, or was pushed, wakes the others' too.
EndPass ==
    LET c == pass.by
        over == \/ pass.at = "deletions" /\ DueDeletions = {} /\ page[c].more
                \/ pass.at = "content" /\ pass.batch = {} /\ pass.files = {}
        new == page[c].events # {}
        again == IF c = Push THEN MoreLeft ELSE page[c].more \/ (pass.at = "content" /\ MoreLeft)
        peers == Source \ {"hub"}
    IN /\ over /\ pass' = NoPass
       /\ page' = [page EXCEPT ![c] = NoPage]
       /\ awake' = awake \cup (IF c = Push THEN (IF new \/ again THEN peers ELSE {})
                               ELSE (IF again THEN {c} ELSE {}) \cup (IF c = "hub" /\ new THEN peers ELSE {}))
       /\ UNCHANGED <<pulled, inbox, local, known, rows, timers, lost, banned, mishaps>>

----------------------------------------------------------------------------
\* Around it.

\* The delay of an event is over, and a moment later the timer wakes the workers.
DelayOver(e) ==
    /\ inbox[e].at = "pending" /\ ~inbox[e].due
    /\ inbox' = [inbox EXCEPT ![e].due = TRUE]
    /\ UNCHANGED <<pulled, page, local, known, rows, pass, awake, timers, lost, banned, mishaps>>

TimerFires(e) ==
    /\ e \in timers /\ inbox[e].due
    /\ timers' = timers \ {e}
    /\ awake' = Source
    /\ UNCHANGED <<pulled, page, inbox, local, known, rows, pass, lost, banned, mishaps>>

Ban(o) ==
    /\ o \notin banned /\ banned' = banned \cup {o} /\ Mishap
    /\ UNCHANGED <<pulled, page, inbox, local, known, rows, pass, awake, timers, lost>>

\* The process ends and starts again: a cycle of every worker follows, but timers are gone.
RestartDevice ==
    /\ Mishap
    /\ page' = [c \in Caller |-> NoPage] /\ pass' = NoPass
    /\ timers' = {} /\ awake' = Source
    /\ lost' = lost \cup {e \in Event : inbox[e].at = "pending" /\ ~inbox[e].due} \cup timers
    /\ UNCHANGED <<pulled, inbox, local, known, rows, banned>>

PassStep ==
    \/ \E e \in Event : ApplyDeletion(e) \/ MergePresence(e) \/ Write(e) \/ ContentApplied(e)
    \/ ReadContent \/ EndPass

\* What the device does of itself while it runs and its sources answer.
OwnStep ==
    \/ \E s \in Source : Fetch(s)
    \/ \E c \in Caller : Accept(c) \/ BeginPass(c)
    \/ PassStep
    \/ \E e \in Event : DelayOver(e) \/ TimerFires(e)

ReceiveNext ==
    \/ OwnStep
    \/ \E s \in Source : FetchFails(s)
    \/ \E events \in Pushed, more \in BOOLEAN : PushArrives(events, more)
    \/ \E e \in Event : DeletionFails(e) \/ PresenceFails(e) \/ ContentFails(e)
    \/ \E o \in Origin : Ban(o)
    \/ RestartDevice

ReceiveSpec == ReceiveInit /\ [][ReceiveNext]_receiveVars

----------------------------------------------------------------------------
\* What is stored is what has a local cursor; the pass works on stored content.
ReceiveTypeOK ==
    /\ \A s \in Source : pulled[s] \in 0 .. Len(LogOf[s])
    /\ \A e \in Event : place[e] \in 0 .. newest /\ (inbox[e].at = "unknown") = (place[e] = 0)
    /\ \A e, f \in Event : place[e] = place[f] /\ place[e] # 0 => e = f
    /\ pass.batch \cup pass.files \subseteq {e \in Event \ Deletes : inbox[e].at = "pending"}
    /\ pass.by # "nobody" => page[pass.by].at = "stored"

\* The cursor passes over nothing but the events of removed devices, whatever comes from peers in
\* between, fails or restarts.
NothingMissed ==
    \A s \in Source : \A i \in 1 .. pulled[s] :
        inbox[LogOf[s][i]].at # "unknown" \/ From[LogOf[s][i]] \in banned

\* Events come from several sources and are applied in pages, late and again: when nothing of an item
\* is left to apply, its row is there if its newest event brings it.
NewestApplied ==
    \A k \in Item :
        LET mine == {e \in Event : About[e] = k /\ inbox[e].at # "unknown"}
            valid == mine \ Invalid
            last == CHOOSE e \in valid : \A f \in valid : Version[f] =< Version[e]
        IN (valid # {} /\ \A e \in mine : inbox[e].at # "pending") => (rows[k] > 0) = (last \notin Deletes)

\* Received twice, or written and not marked before a restart, content makes one row.
ReceivedOnce == \A k \in Item : rows[k] =< 1

\* Nothing is passed over, and whatever is received again, late or around a restart, an item shows its
\* newest event, once.
ReceivedSound == NothingMissed /\ NewestApplied /\ ReceivedOnce

\* Content is not shown that a deletion received before the pass read it deletes, unless applying
\* the deletion failed.
ShownUndeleted ==
    \A k \in Item : rows'[k] > rows[k] =>
        \A d \in Deletes \ Invalid, e \in pass.files :
            (/\ About[d] = k /\ place[d] \in 1 .. pass.mark
             /\ inbox[d].at = "pending" /\ ~inbox[d].failed /\ First(e, pass.files))
                => Version[d] =< Version[e]

DeletionFirst == [][ShownUndeleted]_receiveVars

\* What is stored is applied or quarantined in the end, unless its timer was lost with a restart:
\* then it waits for some other cycle.
AllApplied == \A e \in Event : inbox[e].at # "pending" \/ e \in lost
=============================================================================
