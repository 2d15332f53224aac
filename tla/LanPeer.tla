------------------------------ MODULE LanPeer ------------------------------
(* A device's connection to one peer of the local network: the peer's actor pushes what is new     *)
(* unless the peer is suspended; connections come from either side, replace each other in the       *)
(* cache, and break; a watcher of every connection tells of its end. Inbound requests, the actor's  *)
(* cycle, the watchers and discovery run concurrently and interleave wherever they await.          *)
EXTENDS Integers, FiniteSets

CONSTANTS
    Conn,       \* connections, in the order they are made
    MaxStimuli  \* bound: what wakes the actor from outside

ASSUME LanPeerAssumption == Conn \subseteq Nat \ {0} /\ MaxStimuli \in Nat

NoConn == 0

VARIABLES
    made,       \* the connections so far
    live,       \* those that are not closed
    cached,     \* lan_connections
    watcher,    \* of every connection: where its watcher is
    status,     \* sync_peer_connections
    suspended,  \* lan_suspended_peers
    actor,      \* lan_peer_actors
    cycle,      \* the cycle of the actor, or of one that was stopped
    inbound,    \* the request of the peer that is being served
    work,       \* there are events the peer does not have
    stimuli,    \* so far
    attempts    \* cycles so far

lanVars == <<made, live, cached, watcher, status, suspended, actor, cycle, inbound, work, stimuli, attempts>>

NoActor == [runs |-> FALSE, wake |-> FALSE, pending |-> FALSE, force |-> FALSE, ready |-> FALSE]
NewActor == [runs |-> TRUE, wake |-> TRUE, pending |-> TRUE, force |-> TRUE, ready |-> FALSE]
IdleCycle == [at |-> "none", conn |-> NoConn, own |-> FALSE]
NoRequest == [at |-> "none", conn |-> NoConn]

LanInit ==
    /\ made = {} /\ live = {} /\ cached = NoConn
    /\ watcher = [c \in Conn |-> "none"]
    /\ status = "offline" /\ suspended = FALSE
    /\ actor = NoActor /\ cycle = IdleCycle /\ inbound = NoRequest
    /\ work = FALSE /\ stimuli = 0 /\ attempts = 0

CachedLive == cached \in live
Stimulus == stimuli < MaxStimuli /\ stimuli' = stimuli + 1
Make(c) == c \notin made /\ (\A d \in Conn : d < c => d \in made) /\ made' = made \cup {c}

\* A connection that is not the cached one replaces it and is watched.
Store(c) ==
    /\ cached' = c
    /\ watcher' = IF cached = c THEN watcher ELSE [watcher EXCEPT ![c] = "waits"]

----------------------------------------------------------------------------
\* What wakes the actor.

Notified == [actor EXCEPT !.pending = TRUE, !.wake = TRUE]
Resumed == [actor EXCEPT !.force = TRUE, !.wake = TRUE]

\* Something is to be pushed: the worker starts the actor if there is none, and notifies it.
Work ==
    /\ Stimulus /\ work' = TRUE
    /\ actor' = IF actor.runs THEN Notified ELSE NewActor
    /\ UNCHANGED <<made, live, cached, watcher, status, suspended, cycle, inbound, attempts>>

\* The peer is discovered, with a new address or after it restarted.
Discovered ==
    /\ Stimulus
    /\ IF CachedLive THEN UNCHANGED <<suspended, actor>>
       ELSE /\ suspended' = IF actor.runs THEN FALSE ELSE suspended
            /\ actor' = IF actor.runs THEN Resumed ELSE NewActor
    /\ UNCHANGED <<made, live, cached, watcher, status, cycle, inbound, work, attempts>>

\* An address of this device changes, or the user asks to reconnect.
ResumeAll ==
    /\ Stimulus /\ suspended' = FALSE
    /\ actor' = IF actor.runs THEN Resumed ELSE NewActor
    /\ UNCHANGED <<made, live, cached, watcher, status, cycle, inbound, work, attempts>>

\* The user turns LAN synchronization off: actors end and connections are forgotten. A cycle that
\* runs goes on.
StopActors ==
    /\ actor.runs /\ Stimulus
    /\ actor' = NoActor /\ cached' = NoConn
    /\ cycle' = [cycle EXCEPT !.own = FALSE]
    /\ UNCHANGED <<made, live, watcher, status, suspended, inbound, work, attempts>>

\* Wi-Fi is gone: connections are closed and peers suspended.
WifiLost ==
    /\ Stimulus
    /\ live' = live \ {cached} /\ cached' = NoConn
    /\ suspended' = TRUE /\ status' = "offline"
    /\ UNCHANGED <<made, watcher, actor, cycle, inbound, work, attempts>>

----------------------------------------------------------------------------
\* The actor.

\* It takes what woke it. Work for a suspended peer waits until something resumes the peer.
Wakes ==
    LET runs == (actor.force \/ actor.pending) /\ (~suspended \/ actor.force)
    IN /\ actor.runs /\ actor.wake /\ cycle.at = "none"
       /\ actor' = [actor EXCEPT !.wake = FALSE, !.pending = FALSE, !.force = FALSE, !.ready = FALSE]
       /\ suspended' = IF runs /\ actor.force THEN FALSE ELSE suspended
       /\ IF runs THEN cycle' = [at |-> "begin", conn |-> NoConn, own |-> TRUE] /\ attempts' = attempts + 1
                  ELSE UNCHANGED <<cycle, attempts>>
       /\ UNCHANGED <<made, live, cached, watcher, status, inbound, work, stimuli>>

UseCached ==
    /\ cycle.at = "begin" /\ CachedLive
    /\ cycle' = [cycle EXCEPT !.at = "sync", !.conn = cached]
    /\ UNCHANGED <<made, live, cached, watcher, status, suspended, actor, inbound, work, stimuli, attempts>>

Connect(c) ==
    /\ cycle.at = "begin" /\ ~CachedLive /\ Make(c)
    /\ live' = live \cup {c} /\ Store(c)
    /\ cycle' = [cycle EXCEPT !.at = "sync", !.conn = c]
    /\ UNCHANGED <<status, suspended, actor, inbound, work, stimuli, attempts>>

CycleOver == cycle' = IdleCycle

\* The peer is suspended when its cycle fails, but for an actor that was stopped as well.
ConnectFails ==
    /\ cycle.at = "begin" /\ ~CachedLive
    /\ status' = "offline" /\ suspended' = TRUE /\ CycleOver
    /\ UNCHANGED <<made, live, cached, watcher, actor, inbound, work, stimuli, attempts>>

Synchronizes ==
    /\ cycle.at = "sync" /\ cycle.conn \in live
    /\ work' = FALSE
    /\ cycle' = [cycle EXCEPT !.at = "done"]
    /\ UNCHANGED <<made, live, cached, watcher, status, suspended, actor, inbound, stimuli, attempts>>

MarkOnline ==
    /\ cycle.at = "done"
    /\ status' = "online" /\ suspended' = FALSE /\ CycleOver
    /\ actor' = IF cycle.own THEN [actor EXCEPT !.force = FALSE] ELSE actor
    /\ UNCHANGED <<made, live, cached, watcher, inbound, work, stimuli, attempts>>

\* A cycle that fails, or waits too long, forgets and closes its connection if it is cached still,
\* and the peer is offline.
SyncFails ==
    /\ cycle.at = "sync"
    /\ IF cached = cycle.conn
       THEN /\ cached' = NoConn /\ live' = live \ {cycle.conn}
            /\ cycle' = [cycle EXCEPT !.at = "failed"]
       ELSE cycle' = [cycle EXCEPT !.at = "suspends"] /\ UNCHANGED <<live, cached>>
    /\ UNCHANGED <<made, watcher, status, suspended, actor, inbound, work, stimuli, attempts>>

FailedMarks ==
    /\ cycle.at = "failed"
    /\ status' = "offline"
    /\ cycle' = [cycle EXCEPT !.at = "suspends"]
    /\ UNCHANGED <<made, live, cached, watcher, suspended, actor, inbound, work, stimuli, attempts>>

FailedSuspends ==
    /\ cycle.at = "suspends"
    /\ suspended' = TRUE /\ CycleOver
    /\ UNCHANGED <<made, live, cached, watcher, status, actor, inbound, work, stimuli, attempts>>

----------------------------------------------------------------------------
\* The peer.

\* It connects, or sends a request on any connection there is.
Request(c) ==
    /\ inbound.at = "none" /\ Stimulus
    /\ IF c \in made THEN c \in live /\ UNCHANGED <<made, live>> ELSE Make(c) /\ live' = live \cup {c}
    /\ Store(c)
    /\ inbound' = [at |-> "stored", conn |-> c]
    /\ UNCHANGED <<status, suspended, actor, cycle, work, attempts>>

RequestMarks ==
    /\ inbound.at = "stored"
    /\ status' = "online"
    /\ inbound' = [inbound EXCEPT !.at = "marked"]
    /\ UNCHANGED <<made, live, cached, watcher, suspended, actor, cycle, work, stimuli, attempts>>

\* The actor need not connect: what the peer asked for has what is new.
RequestReady ==
    /\ inbound.at = "marked"
    /\ suspended' = FALSE
    /\ actor' = IF actor.runs THEN [actor EXCEPT !.force = FALSE, !.ready = TRUE, !.wake = TRUE] ELSE actor
    /\ inbound' = [inbound EXCEPT !.at = "ready"]
    /\ UNCHANGED <<made, live, cached, watcher, status, cycle, work, stimuli, attempts>>

Respond ==
    /\ inbound.at = "ready"
    /\ work' = IF inbound.conn \in live THEN FALSE ELSE work
    /\ inbound' = NoRequest
    /\ UNCHANGED <<made, live, cached, watcher, status, suspended, actor, cycle, stimuli, attempts>>

Close(c) ==
    /\ c \in live /\ live' = live \ {c}
    /\ UNCHANGED <<made, cached, watcher, status, suspended, actor, cycle, inbound, work, stimuli, attempts>>

----------------------------------------------------------------------------
\* The watcher of a connection that is closed.

Watches(c, at) == watcher' = [watcher EXCEPT ![c] = at]

\* Mutant: the end of a connection that was replaced is taken for the peer's.
CloseSeenOf(c) ==
    /\ watcher[c] = "waits" /\ c \notin live
    /\ cached' = NoConn /\ Watches(c, "suspends")
    /\ UNCHANGED <<made, live, status, suspended, actor, cycle, inbound, work, stimuli, attempts>>

\* Mutant: the end of a connection is not looked at while the peer is suspended.
CloseSeenAwake(c) ==
    /\ watcher[c] = "waits" /\ c \notin live /\ ~suspended
    /\ IF cached = c THEN cached' = NoConn /\ Watches(c, "suspends") ELSE Watches(c, "none") /\ UNCHANGED cached
    /\ UNCHANGED <<made, live, status, suspended, actor, cycle, inbound, work, stimuli, attempts>>

CloseSeen(c) ==
    /\ watcher[c] = "waits" /\ c \notin live
    /\ IF cached = c THEN cached' = NoConn /\ Watches(c, "suspends") ELSE Watches(c, "none") /\ UNCHANGED cached
    /\ UNCHANGED <<made, live, status, suspended, actor, cycle, inbound, work, stimuli, attempts>>

WatcherSuspends(c) ==
    /\ watcher[c] = "suspends"
    /\ suspended' = TRUE /\ Watches(c, "looks")
    /\ UNCHANGED <<made, live, cached, status, actor, cycle, inbound, work, stimuli, attempts>>

\* Another connection may have come meanwhile.
WatcherLooks(c) ==
    /\ watcher[c] = "looks"
    /\ IF CachedLive THEN suspended' = FALSE /\ Watches(c, "none") ELSE Watches(c, "marks") /\ UNCHANGED suspended
    /\ UNCHANGED <<made, live, cached, status, actor, cycle, inbound, work, stimuli, attempts>>

WatcherMarks(c) ==
    /\ watcher[c] = "marks"
    /\ status' = "offline" /\ Watches(c, "again")
    /\ UNCHANGED <<made, live, cached, suspended, actor, cycle, inbound, work, stimuli, attempts>>

WatcherLooksAgain(c) ==
    /\ watcher[c] = "again"
    /\ Watches(c, IF CachedLive THEN "restores" ELSE "none")
    /\ UNCHANGED <<made, live, cached, status, suspended, actor, cycle, inbound, work, stimuli, attempts>>

WatcherRestores(c) ==
    /\ watcher[c] = "restores"
    /\ status' = "online" /\ suspended' = FALSE /\ Watches(c, "none")
    /\ UNCHANGED <<made, live, cached, actor, cycle, inbound, work, stimuli, attempts>>

WatcherStep ==
    \E c \in Conn : \/ CloseSeen(c) \/ WatcherSuspends(c) \/ WatcherLooks(c) \/ WatcherMarks(c)
                    \/ WatcherLooksAgain(c) \/ WatcherRestores(c)

ActorStep ==
    \/ Wakes \/ UseCached \/ Synchronizes \/ MarkOnline \/ ConnectFails \/ FailedMarks \/ FailedSuspends
    \/ cycle.conn \notin live /\ SyncFails
    \/ RequestMarks \/ RequestReady \/ Respond

LanNext ==
    \/ Work \/ Discovered \/ ResumeAll \/ StopActors \/ WifiLost
    \/ ActorStep \/ WatcherStep \/ SyncFails
    \/ \E c \in Conn : Connect(c) \/ Request(c) \/ Close(c)

LanSpec == LanInit /\ [][LanNext]_lanVars

----------------------------------------------------------------------------
\* Connections are made in order, and what is cached, used or served was made.
LanTypeOK ==
    /\ live \subseteq made /\ made \subseteq Conn
    /\ {cached, cycle.conn, inbound.conn} \subseteq made \cup {NoConn}
    /\ \A c \in Conn : watcher[c] # "none" => c \in made
    /\ cycle.own => actor.runs

\* A connection that closes is taken from the cache: it has a watcher as long as it is cached,
\* whichever connection it replaced.
CachedIsWatched == cached # NoConn => watcher[cached] = "waits"

\* Every cycle has a cause: work for an offline peer does not make it a polling loop.
NoPolling == attempts =< stimuli

\* A live connection leaves the cache only for another, with its own cycle, or when all go; never
\* because an older one ended.
ReplacementStays == CachedLive /\ cached' = NoConn => ((SyncFails /\ cycle.conn = cached) \/ StopActors \/ WifiLost)

\* The cache and the cycles of a peer: no connection without its watcher, no cycle without a cause,
\* and no live connection is given up for the end of another.
ConnectionsSound == [][CachedIsWatched' /\ NoPolling' /\ ReplacementStays]_lanVars

\* The end of a connection is noticed.
EndNoticed == cached = NoConn \/ CachedLive
=============================================================================
