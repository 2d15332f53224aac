-------------------------------- MODULE Watch --------------------------------
(* How a device learns that its group has changed: the Hub announces a commit through a broadcast  *)
(* channel after releasing the group's lock, up to two watch streams of a connection read the      *)
(* watermark and send it, and the client's watch worker wakes its transfer worker, which has no    *)
(* timer of its own. Streams break, connections are replaced, and the Hub finds out late.          *)
EXTENDS Integers, FiniteSets

CONSTANTS
    Slot,           \* PRIMARY_WATCH_SLOT = 0, and BACKUP_WATCH_SLOT = 1 with a Hub that supports it
    Stream,         \* watch streams, numbered in the order they are opened
    MaxCommits,     \* bound: changes of the group
    MaxFailures     \* bound: broken streams, lost connections and failed cycles

ASSUME WatchAssumption ==
    /\ Slot \subseteq {0, 1} /\ Stream \subseteq Nat \ {0}
    /\ MaxCommits \in Nat /\ MaxFailures \in Nat

Backup == 1

VARIABLES
    log,        \* the group's last cursor
    version,    \* the version of group_notifications
    untold,     \* commits whose handler has not announced them yet
    stream,     \* every watch stream, both ends
    registry,   \* active_watches: the stream registered for each slot, or 0
    link,       \* the shared connection: is it up
    session,    \* the watch worker: its watermark and its stream of each slot
    wake,       \* the permit of cloud_transfer_wake
    transfer,   \* the transfer worker
    pulled,     \* cloud_cursor
    failures    \* so far

hubVars == <<log, version, untold, registry>>
clientVars == <<link, session, wake, transfer, pulled>>
watchVars == <<log, version, untold, stream, registry, link, session, wake, transfer, pulled, failures>>

NoFrame == 0
Unopened == [at |-> "none", slot |-> 0, seen |-> 0, latest |-> 0, cancelled |-> FALSE,
             broken |-> FALSE, frame |-> NoFrame]
NoSession == [on |-> FALSE, mark |-> 0, streams |-> [s \in Slot |-> 0]]

WatchInit ==
    /\ log = 0 /\ version = 0 /\ untold = 0
    /\ stream = [i \in Stream |-> Unopened]
    /\ registry = [s \in Slot |-> 0]
    /\ link = FALSE /\ session = NoSession
    /\ wake = FALSE /\ transfer = [at |-> "waiting", force |-> FALSE]
    /\ pulled = 0 /\ failures = 0

Set(i, changes) == stream' = [stream EXCEPT ![i] = changes]

----------------------------------------------------------------------------
\* The Hub.

\* Another device's events are committed under the group's lock.
Commit ==
    /\ log < MaxCommits
    /\ log' = log + 1 /\ untold' = untold + 1
    /\ UNCHANGED <<version, registry, stream, clientVars, failures>>

\* The lock is released, then the channel's version moves.
Announce ==
    /\ untold > 0
    /\ version' = version + 1 /\ untold' = untold - 1
    /\ UNCHANGED <<log, registry, stream, clientVars, failures>>

\* The handler subscribes to the channel before it reads the watermark.
Subscribe(i) ==
    /\ stream[i].at = "opened"
    /\ Set(i, [stream[i] EXCEPT !.at = "subscribed", !.seen = version])
    /\ UNCHANGED <<hubVars, clientVars, failures>>

\* Frames of a stream arrive in order and only grow: the last one stands for those not read yet.
Framed(r, cursor) ==
    IF r.broken THEN [r EXCEPT !.at = "live", !.latest = cursor]
    ELSE [r EXCEPT !.at = "live", !.latest = cursor, !.frame = cursor + 1]

\* It reads the watermark, registers, which cancels the slot's previous stream, and sends its first
\* frame.
Register(i) ==
    /\ stream[i].at = "subscribed"
    /\ LET s == stream[i].slot
       IN /\ stream' = [j \in Stream |->
                          IF j = i THEN Framed(stream[i], log)
                          ELSE [stream[j] EXCEPT !.cancelled = @ \/ j = registry[s]]]
          /\ registry' = [registry EXCEPT ![s] = i]
    /\ UNCHANGED <<log, version, untold, clientVars, failures>>

\* The channel has a version the stream has not seen.
Changed(i) ==
    /\ stream[i].at = "live" /\ stream[i].seen # version
    /\ Set(i, [stream[i] EXCEPT !.at = "changed", !.seen = version])
    /\ UNCHANGED <<hubVars, clientVars, failures>>

\* Mutant: it sends the watermark it has.
RereadNothing(i) ==
    /\ stream[i].at = "changed"
    /\ Set(i, Framed(stream[i], stream[i].latest))
    /\ UNCHANGED <<hubVars, clientVars, failures>>

\* The backup slot waits a moment first.
Reread(i) ==
    /\ stream[i].at = "changed"
    /\ Set(i, Framed(stream[i], log))
    /\ UNCHANGED <<hubVars, clientVars, failures>>

\* A stream ends where it waits when it is cancelled, and at the next frame, a heartbeat at the
\* latest, when it is broken. A heartbeat to a healthy stream repeats a watermark and says nothing.
MayEnd(i) ==
    \/ stream[i].cancelled /\ (stream[i].at = "live" \/ (stream[i].at = "changed" /\ stream[i].slot = Backup))
    \/ stream[i].broken /\ stream[i].at = "live"

\* The streams the client still reads.
Held == {session.streams[s] : s \in Slot}

\* It unregisters its own registration only, told by the generation.
End(i) ==
    /\ MayEnd(i)
    /\ Set(i, IF i \in Held THEN [stream[i] EXCEPT !.at = "closed"] ELSE Unopened)
    /\ registry' = [registry EXCEPT ![stream[i].slot] = IF @ = i THEN 0 ELSE @]
    /\ UNCHANGED <<log, version, untold, clientVars, failures>>

----------------------------------------------------------------------------
\* The watch worker.

Unused(i) == stream[i].at = "none" /\ \A j \in Stream : stream[j].at = "none" => i =< j

\* The client lets go of streams: those the Hub has closed are forgotten, the others break.
LetGo(S) == [i \in Stream |->
    IF i \notin S THEN stream[i]
    ELSE IF stream[i].at = "closed" THEN Unopened
    ELSE [stream[i] EXCEPT !.broken = TRUE, !.frame = NoFrame]]

Opened(i, s) == [Unopened EXCEPT !.at = "opened", !.slot = s]

\* Connected, or connected again: the transfer worker runs at once, whatever it waits for.
StartSession ==
    /\ ~session.on
    /\ link' = TRUE
    /\ wake' = TRUE /\ transfer' = [transfer EXCEPT !.force = TRUE]
    /\ session' = [NoSession EXCEPT !.on = TRUE, !.mark = pulled]
    /\ UNCHANGED <<hubVars, stream, pulled, failures>>

\* Both slots at first, a failed one again after its delay.
OpenSlot(s, i) ==
    /\ session.on /\ link /\ session.streams[s] = 0 /\ Unused(i)
    /\ Set(i, Opened(i, s))
    /\ session' = [session EXCEPT !.streams[s] = i]
    /\ UNCHANGED <<hubVars, link, wake, transfer, pulled, failures>>

\* Mutant: the watermark is taken but nobody is woken.
ReadFrameQuietly(s) ==
    LET i == session.streams[s]
    IN /\ i # 0 /\ stream[i].frame # NoFrame
       /\ Set(i, [stream[i] EXCEPT !.frame = NoFrame])
       /\ session' = [session EXCEPT !.mark = IF stream[i].frame - 1 > @ THEN stream[i].frame - 1 ELSE @]
       /\ UNCHANGED <<hubVars, wake, link, transfer, pulled, failures>>

ReadFrame(s) ==
    LET i == session.streams[s]
    IN /\ i # 0 /\ stream[i].frame # NoFrame
       /\ Set(i, [stream[i] EXCEPT !.frame = NoFrame])
       /\ session' = [session EXCEPT !.mark = IF stream[i].frame - 1 > @ THEN stream[i].frame - 1 ELSE @]
       /\ wake' = (wake \/ stream[i].frame - 1 > session.mark)
       /\ UNCHANGED <<hubVars, link, transfer, pulled, failures>>

\* The client sees a broken or closed stream end; without any stream the session is over and the
\* connection is given up.
SlotFails(s) ==
    LET i == session.streams[s]
        rest == [session.streams EXCEPT ![s] = 0]
    IN /\ i # 0 /\ stream[i].frame = NoFrame
       /\ stream[i].broken \/ stream[i].at = "closed"
       /\ IF link /\ \E t \in Slot : rest[t] # 0
          THEN session' = [session EXCEPT !.streams = rest] /\ stream' = LetGo({i}) /\ UNCHANGED link
          ELSE session' = NoSession /\ stream' = LetGo(Held) /\ link' = FALSE
       /\ UNCHANGED <<hubVars, wake, transfer, pulled, failures>>

\* Settings, a new group or a refresh of the user end the session; its readers are aborted.
Restart ==
    /\ session.on /\ failures < MaxFailures
    /\ failures' = failures + 1
    /\ session' = NoSession
    /\ stream' = LetGo(Held)
    /\ UNCHANGED <<hubVars, link, wake, transfer, pulled>>

Break(i) ==
    /\ i \in Held /\ stream[i].at # "closed" /\ ~stream[i].broken /\ failures < MaxFailures
    /\ failures' = failures + 1
    /\ Set(i, [stream[i] EXCEPT !.broken = TRUE, !.frame = NoFrame])
    /\ UNCHANGED <<hubVars, clientVars>>

\* The connection is lost, or given up by a failing cycle: the streams on it break.
LoseLink ==
    /\ link' = FALSE
    /\ stream' = [i \in Stream |-> IF i \in Held /\ stream[i].at # "closed"
                                   THEN [stream[i] EXCEPT !.broken = TRUE, !.frame = NoFrame]
                                   ELSE stream[i]]
    /\ session' = IF \A s \in Slot : session.streams[s] = 0 THEN NoSession ELSE session

Disconnect ==
    /\ link /\ failures < MaxFailures
    /\ failures' = failures + 1
    /\ LoseLink
    /\ UNCHANGED <<hubVars, wake, transfer, pulled>>

----------------------------------------------------------------------------
\* The transfer worker.

\* Without a connection the wake is dropped: connecting brings another.
TakeWake ==
    /\ transfer.at = "waiting" /\ wake
    /\ wake' = FALSE
    /\ transfer' = [at |-> IF link THEN "cycle" ELSE "waiting", force |-> FALSE]
    /\ UNCHANGED <<hubVars, stream, link, session, pulled, failures>>

\* Backing off, only a forced wake counts; the others are dropped, since a cycle will come.
TakeForced ==
    /\ transfer.at = "backoff" /\ wake
    /\ wake' = FALSE
    /\ transfer' = [at |-> IF ~transfer.force THEN "backoff" ELSE IF link THEN "cycle" ELSE "waiting",
                    force |-> FALSE]
    /\ UNCHANGED <<hubVars, stream, link, session, pulled, failures>>

BackoffOver ==
    /\ transfer.at = "backoff"
    /\ transfer' = [transfer EXCEPT !.at = IF link THEN "cycle" ELSE "waiting"]
    /\ UNCHANGED <<hubVars, stream, link, session, wake, pulled, failures>>

Cycle ==
    /\ transfer.at = "cycle" /\ link
    /\ pulled' = log
    /\ transfer' = [transfer EXCEPT !.at = "waiting"]
    /\ UNCHANGED <<hubVars, stream, link, session, wake, failures>>

CycleFails ==
    /\ transfer.at = "cycle"
    /\ IF link THEN failures < MaxFailures /\ failures' = failures + 1 ELSE UNCHANGED failures
    /\ transfer' = [transfer EXCEPT !.at = "backoff"]
    /\ \/ UNCHANGED <<link, stream, session>>
       \/ link /\ LoseLink
    /\ UNCHANGED <<hubVars, wake, pulled>>

----------------------------------------------------------------------------
HubStep(i) ==
    Subscribe(i) \/ Register(i) \/ Changed(i) \/ Reread(i) \/ End(i)

ClientStep(s) == ReadFrame(s) \/ SlotFails(s) \/ \E i \in Stream : OpenSlot(s, i)

TransferStep == TakeWake \/ TakeForced \/ BackoffOver \/ Cycle \/ (~link /\ CycleFails)

WatchNext ==
    \/ Commit \/ Announce
    \/ \E i \in Stream : HubStep(i) \/ Break(i)
    \/ StartSession \/ Restart \/ Disconnect
    \/ \E s \in Slot : ClientStep(s)
    \/ TransferStep \/ CycleFails

WatchSpec == WatchInit /\ [][WatchNext]_watchVars

----------------------------------------------------------------------------
\* What the Hub and the client know of their streams fits together.
WatchTypeOK ==
    /\ log \in 0 .. MaxCommits /\ pulled \in 0 .. log /\ untold \in 0 .. log /\ version + untold = log
    /\ \A i \in Stream :
        /\ stream[i].at \in {"none", "opened", "subscribed", "live", "changed", "closed"}
        /\ stream[i].seen \in 0 .. version /\ stream[i].latest \in 0 .. log
        /\ stream[i].frame \in 0 .. log + 1
    /\ \A s \in Slot : registry[s] \in Stream \cup {0} /\ session.streams[s] \in Stream \cup {0}
    /\ session.mark \in 0 .. log
    /\ transfer.at \in {"waiting", "backoff", "cycle"}

\* A live stream is either up to date or has a version to wake up for, or that version is about to
\* be announced: between the subscription, the reading of the watermark and the writing of a frame
\* no commit is missed.
NoMissedChange ==
    \A i \in Stream :
        stream[i].at = "live" /\ stream[i].latest < log =>
            stream[i].seen < version \/ untold > 0

\* The device is shown as online while its stream is served: a late end of the stream that was
\* replaced does not take the new one's registration.
ServedIsRegistered ==
    \A i \in Stream :
        stream[i].at \in {"live", "changed"} /\ ~stream[i].cancelled =>
            registry[stream[i].slot] = i

\* Neither a change nor the registration of a stream is lost to the order of its steps.
WatchesSound == NoMissedChange /\ ServedIsRegistered

\* Every change of the group is pulled, although nothing but the watch starts a cycle.
AllPulled == pulled = log
=============================================================================
