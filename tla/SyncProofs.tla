----------------------------- MODULE SyncProofs -----------------------------
(* What holds of a client's synchronization, however many devices, attempts, connections, links,    *)
(* events and pages there are: the connection to a peer, the link to the Hub, the membership of a   *)
(* group, the events of others and the requests to join.                                           *)
EXTENDS MCClientSync, FiniteSetTheorems, TLAPS

----------------------------------------------------------------------------
\* The connection to a peer. A cached connection has a watcher that waits for its end, and whatever
\* makes the actor run a cycle was a stimulus that no cycle has answered yet.

Watchings == {"none", "waits", "suspends", "looks", "marks", "again", "restores"}
Actors == [runs : BOOLEAN, wake : BOOLEAN, pending : BOOLEAN, force : BOOLEAN, ready : BOOLEAN]
Cycles == [at : {"none", "begin", "sync", "done", "failed", "suspends"}, conn : Conn \cup {NoConn}, own : BOOLEAN]
Requests == [at : {"none", "stored", "marked", "ready"}, conn : Conn \cup {NoConn}]

LanShape ==
    /\ live \subseteq made /\ made \subseteq Conn /\ cached \in made \cup {NoConn}
    /\ watcher \in [Conn -> Watchings]
    /\ actor \in Actors /\ cycle \in Cycles /\ inbound \in Requests
    /\ cycle.conn \in made \cup {NoConn} /\ inbound.conn \in made \cup {NoConn}
    /\ \A c \in Conn : watcher[c] # "none" => c \in made
    /\ cycle.own => actor.runs

\* Every wake that would run a cycle has a stimulus of its own.
Caused ==
    /\ attempts \in Nat /\ stimuli \in Nat /\ attempts =< stimuli
    /\ actor.force \/ actor.pending => attempts < stimuli

LanInv == LanShape /\ CachedIsWatched /\ Caused

\* What a step of the peer's tasks keeps, and that it gives up no live connection for another.
LanGood == LanInv' /\ ReplacementStays

LEMMA LanStarts == LanInit => LanInv
    BY LanPeerAssumption DEF LanInit, LanInv, LanShape, CachedIsWatched, Caused, NoActor, IdleCycle, NoRequest, NoConn,
       Watchings, Actors, Cycles, Requests

\* A cell that names a connection names one that was made.
Names(c) == c \in made \cup {NoConn}

\* Steps that neither make nor cache a connection, and leave the watchers alone.
LEMMA ConnectionsStay ==
    ASSUME LanInv, UNCHANGED <<made, cached, watcher>>, live' \subseteq live,
           actor' \in Actors, cycle' \in Cycles, inbound' \in Requests,
           Names(cycle'.conn), Names(inbound'.conn), cycle'.own => actor'.runs, Caused'
    PROVE  LanGood
    <1>1. LanShape'  BY DEF LanInv, LanShape, Names
    <1>2. CachedIsWatched'  BY DEF LanInv, CachedIsWatched
    <1>3. ReplacementStays
        BY LanPeerAssumption DEF ReplacementStays, CachedLive, LanInv, LanShape, NoConn
    <1> QED  BY <1>1, <1>2, <1>3 DEF LanGood, LanInv

\* The cells of the actor and the two cycles, one by one.
LEMMA LanTyped ==
    ASSUME LanInv
    PROVE  /\ actor \in Actors /\ cycle \in Cycles /\ inbound \in Requests
           /\ Names(cycle.conn) /\ Names(inbound.conn) /\ (cycle.own => actor.runs)
           /\ attempts \in Nat /\ stimuli \in Nat /\ attempts =< stimuli
           /\ actor.force \/ actor.pending => attempts < stimuli
    BY DEF LanInv, LanShape, Names, Caused

\* What becomes of the actor is an actor, and of a cycle a cycle.
LEMMA ActorForms ==
    ASSUME actor \in Actors
    PROVE  /\ NewActor \in Actors /\ NewActor.runs /\ NoActor \in Actors
           /\ ~NoActor.force /\ ~NoActor.pending
           /\ Notified \in Actors /\ Notified.runs = actor.runs
           /\ Resumed \in Actors /\ Resumed.runs = actor.runs
    <1>1. NewActor \in Actors /\ NewActor.runs  BY DEF Actors, NewActor
    <1>2. NoActor \in Actors /\ ~NoActor.force /\ ~NoActor.pending  BY DEF Actors, NoActor
    <1>3. Notified \in Actors /\ Notified.runs = actor.runs  BY DEF Actors, Notified
    <1>4. Resumed \in Actors /\ Resumed.runs = actor.runs  BY DEF Actors, Resumed
    <1> QED  BY <1>1, <1>2, <1>3, <1>4

LEMMA CycleForms ==
    ASSUME cycle \in Cycles, NEW at \in {"done", "failed", "suspends"}
    PROVE  /\ [cycle EXCEPT !.at = at] \in Cycles
           /\ [cycle EXCEPT !.at = at].conn = cycle.conn /\ [cycle EXCEPT !.at = at].own = cycle.own
           /\ IdleCycle \in Cycles /\ IdleCycle.conn = NoConn /\ ~IdleCycle.own
    <1>1. IdleCycle \in Cycles /\ IdleCycle.conn = NoConn /\ ~IdleCycle.own
        BY DEF Cycles, IdleCycle
    <1> QED  BY <1>1 DEF Cycles

\* What starts, notifies or resumes the actor is a stimulus.
LEMMA StimulusStep ==
    ASSUME LanInv, stimuli' = stimuli + 1, actor' \in {actor, NewActor, Notified, Resumed},
           UNCHANGED <<made, live, cached, watcher, cycle, inbound, attempts>>
    PROVE  LanGood
    <1>1. /\ actor' \in Actors /\ (cycle.own => actor'.runs)
        BY LanTyped, ActorForms
    <1>2. Caused'  BY LanTyped DEF Caused
    <1> QED  BY <1>1, <1>2, LanTyped, ConnectionsStay DEF Names

LEMMA WokenStep == ASSUME LanInv, Work \/ Discovered \/ ResumeAll PROVE LanGood
    <1>1. /\ stimuli' = stimuli + 1 /\ actor' \in {actor, NewActor, Notified, Resumed}
          /\ UNCHANGED <<made, live, cached, watcher, cycle, inbound, attempts>>
        BY DEF Work, Discovered, ResumeAll, Stimulus
    <1> QED  BY <1>1, StimulusStep

LEMMA WakesStep == ASSUME LanInv, Wakes PROVE LanGood
    <1>1. /\ actor.runs /\ cycle.at = "none"
          /\ actor' = [actor EXCEPT !.wake = FALSE, !.pending = FALSE, !.force = FALSE, !.ready = FALSE]
          /\ \/ (actor.force \/ actor.pending) /\ cycle' = [at |-> "begin", conn |-> NoConn, own |-> TRUE]
                /\ attempts' = attempts + 1
             \/ UNCHANGED <<cycle, attempts>>
          /\ UNCHANGED <<made, live, cached, watcher, inbound, stimuli>>
        BY DEF Wakes
    <1>2. actor' \in Actors /\ actor'.runs /\ ~actor'.force /\ ~actor'.pending
        BY <1>1, LanTyped DEF Actors
    <1>3. cycle' \in Cycles /\ Names(cycle'.conn)
        <2>1. CASE cycle' = [at |-> "begin", conn |-> NoConn, own |-> TRUE]
            BY <1>1, <2>1 DEF Cycles, Names
        <2>2. CASE cycle' = cycle  BY <1>1, <2>2, LanTyped DEF Names
        <2> QED  BY <1>1, <2>1, <2>2
    <1>4. Caused'  BY <1>1, <1>2, LanTyped DEF Caused
    <1> QED  BY <1>1, <1>2, <1>3, <1>4, LanTyped, ConnectionsStay

\* The steps of a cycle that leave the actor and the connections alone.
LEMMA CycleSteps ==
    ASSUME LanInv,
           UseCached \/ ConnectFails \/ Synchronizes \/ FailedMarks \/ FailedSuspends
               \/ RequestMarks \/ Respond \/ (\E c \in Conn : Close(c))
    PROVE  LanGood
    <1>1. /\ UNCHANGED <<made, cached, watcher, actor, stimuli, attempts>> /\ live' \subseteq live
          /\ \/ UNCHANGED cycle
             \/ cycle' = [cycle EXCEPT !.at = "sync", !.conn = cached]
             \/ cycle' = IdleCycle
             \/ cycle' = [cycle EXCEPT !.at = "done"]
             \/ cycle' = [cycle EXCEPT !.at = "suspends"]
          /\ \/ UNCHANGED inbound
             \/ inbound' = [inbound EXCEPT !.at = "marked"]
             \/ inbound' = NoRequest
        BY DEF UseCached, ConnectFails, Synchronizes, FailedMarks, FailedSuspends, RequestMarks, Respond, Close, CycleOver
    <1>2. Names(cached) /\ cached \in Conn \cup {NoConn}  BY DEF LanInv, LanShape, Names
    <1>3. cycle' \in Cycles /\ Names(cycle'.conn) /\ (cycle'.own => cycle.own)
        <2>1. CASE cycle' = [cycle EXCEPT !.at = "sync", !.conn = cached]
            BY <1>1, <1>2, <2>1, LanTyped DEF Cycles, Names
        <2>2. CASE cycle' # [cycle EXCEPT !.at = "sync", !.conn = cached]
            BY <1>1, <2>2, LanTyped, CycleForms DEF Names
        <2> QED  BY <2>1, <2>2
    <1>4. inbound' \in Requests /\ Names(inbound'.conn)  BY <1>1, LanTyped DEF Requests, Names, NoRequest
    <1>5. Caused'  BY <1>1, LanTyped DEF Caused
    <1> QED  BY <1>1, <1>3, <1>4, <1>5, LanTyped, ConnectionsStay

LEMMA AnswerSteps == ASSUME LanInv, MarkOnline \/ RequestReady PROVE LanGood
    <1>1. /\ UNCHANGED <<made, live, cached, watcher, stimuli, attempts>>
          /\ cycle' \in {cycle, IdleCycle}
          /\ inbound' \in {inbound, [inbound EXCEPT !.at = "ready"]}
          /\ actor' \in {actor, [actor EXCEPT !.force = FALSE],
                         [actor EXCEPT !.force = FALSE, !.ready = TRUE, !.wake = TRUE]}
        BY DEF MarkOnline, RequestReady, CycleOver
    <1>2. cycle' \in Cycles /\ Names(cycle'.conn) /\ (cycle'.own => cycle.own)
        BY <1>1, LanTyped, CycleForms DEF Names
    <1>3. inbound' \in Requests /\ Names(inbound'.conn)  BY <1>1, LanTyped DEF Requests, Names
    <1>4. /\ actor' \in Actors /\ actor'.runs = actor.runs
          /\ (actor'.force \/ actor'.pending => actor.force \/ actor.pending)
        BY <1>1, LanTyped DEF Actors
    <1>5. Caused'  BY <1>1, <1>4, LanTyped DEF Caused
    <1> QED  BY <1>1, <1>2, <1>3, <1>4, <1>5, LanTyped, ConnectionsStay

\* Nothing is cached any more, and the user or the loss of Wi-Fi is the reason.
LEMMA AllGoSteps == ASSUME LanInv, StopActors \/ WifiLost PROVE LanGood
    <1>1. /\ UNCHANGED <<made, watcher, inbound, attempts>> /\ live' \subseteq live /\ cached' = NoConn
          /\ stimuli' = stimuli + 1
          /\ \/ actor' = NoActor /\ cycle' = [cycle EXCEPT !.own = FALSE]
             \/ UNCHANGED <<actor, cycle>>
        BY DEF StopActors, WifiLost, Stimulus
    <1>2. actor' \in Actors /\ (actor'.force \/ actor'.pending => actor.force \/ actor.pending)
        BY <1>1, LanTyped, ActorForms
    <1>3. cycle' \in Cycles /\ cycle'.conn = cycle.conn /\ (cycle'.own => actor'.runs)
        BY <1>1, LanTyped DEF Cycles
    <1>4. LanShape'  BY <1>1, <1>2, <1>3 DEF LanInv, LanShape
    <1>5. CachedIsWatched' /\ Caused'  BY <1>1, <1>2, LanTyped DEF CachedIsWatched, Caused
    <1>6. ReplacementStays  BY DEF ReplacementStays
    <1> QED  BY <1>4, <1>5, <1>6 DEF LanGood, LanInv

LEMMA SyncFailsStep == ASSUME LanInv, SyncFails PROVE LanGood
    <1>1. /\ UNCHANGED <<made, watcher, actor, inbound, stimuli, attempts>> /\ live' \subseteq live
          /\ \/ cached' = NoConn /\ cached = cycle.conn
             \/ cached' = cached
          /\ cycle' \in {[cycle EXCEPT !.at = "failed"], [cycle EXCEPT !.at = "suspends"]}
        BY DEF SyncFails
    <1>2. cycle' \in Cycles /\ cycle'.conn = cycle.conn /\ cycle'.own = cycle.own
        BY <1>1, LanTyped DEF Cycles
    <1>3. LanShape'  BY <1>1, <1>2 DEF LanInv, LanShape
    <1>4. CachedIsWatched' /\ Caused'
        BY <1>1, LanTyped DEF CachedIsWatched, Caused, LanInv
    <1>5. ReplacementStays
        BY <1>1, LanPeerAssumption DEF ReplacementStays, CachedLive, LanInv, LanShape, NoConn
    <1> QED  BY <1>3, <1>4, <1>5 DEF LanGood, LanInv

\* A connection that replaces another is watched from then on.
LEMMA StoreStep ==
    ASSUME LanInv, NEW c \in Conn, Store(c), made \subseteq made', made' \subseteq Conn, c \in made',
           live' \subseteq made', actor' = actor, cycle' \in Cycles, inbound' \in Requests,
           cycle'.conn \in made' \cup {NoConn}, inbound'.conn \in made' \cup {NoConn},
           cycle'.own => cycle.own, Caused'
    PROVE  LanGood
    <1>1. /\ cached' = c /\ c # NoConn
          /\ watcher' = IF cached = c THEN watcher ELSE [watcher EXCEPT ![c] = "waits"]
        BY LanPeerAssumption DEF Store, NoConn
    <1>2. watcher \in [Conn -> Watchings]  BY DEF LanInv, LanShape
    <1>3. /\ watcher' \in [Conn -> Watchings] /\ watcher'[c] = "waits"
          /\ \A d \in Conn : d # c => watcher'[d] = watcher[d]
        BY <1>1, <1>2 DEF Watchings, LanInv, CachedIsWatched
    <1>4. LanShape'  BY <1>1, <1>3 DEF LanInv, LanShape
    <1>5. CachedIsWatched'  BY <1>1, <1>3 DEF CachedIsWatched
    <1>6. ReplacementStays  BY <1>1 DEF ReplacementStays
    <1> QED  BY <1>4, <1>5, <1>6 DEF LanGood, LanInv

LEMMA ConnectStep == ASSUME LanInv, NEW c \in Conn, Connect(c) PROVE LanGood
    <1>1. /\ made' = made \cup {c} /\ live' = live \cup {c} /\ Store(c)
          /\ cycle' = [cycle EXCEPT !.at = "sync", !.conn = c]
          /\ UNCHANGED <<actor, inbound, stimuli, attempts>>
        BY DEF Connect, Make
    <1>2. cycle' \in Cycles /\ cycle'.conn = c /\ cycle'.own = cycle.own  BY <1>1, LanTyped DEF Cycles
    <1>3. Caused'  BY <1>1, LanTyped DEF Caused
    <1>4. /\ made \subseteq made' /\ made' \subseteq Conn /\ c \in made' /\ live' \subseteq made'
          /\ inbound'.conn \in made' \cup {NoConn} /\ inbound' \in Requests
        BY <1>1 DEF LanInv, LanShape
    <1> QED  BY <1>1, <1>2, <1>3, <1>4, StoreStep

LEMMA RequestStep == ASSUME LanInv, NEW c \in Conn, Request(c) PROVE LanGood
    <1>1. /\ made' = made \cup {c} /\ live' = live \cup {c} /\ Store(c)
          /\ inbound' = [at |-> "stored", conn |-> c]
          /\ UNCHANGED <<actor, cycle, attempts>> /\ stimuli' = stimuli + 1
        BY DEF Request, Make, Stimulus
    <1>2. inbound' \in Requests /\ inbound'.conn = c  BY <1>1 DEF Requests
    <1>3. Caused'  BY <1>1, LanTyped DEF Caused
    <1>4. /\ made \subseteq made' /\ made' \subseteq Conn /\ c \in made' /\ live' \subseteq made'
          /\ cycle'.conn \in made' \cup {NoConn} /\ cycle' \in Cycles
        BY <1>1 DEF LanInv, LanShape
    <1> QED  BY <1>1, <1>2, <1>3, <1>4, StoreStep

\* A watcher that saw the end of its connection only looks at the cache.
LEMMA WatcherSteps == ASSUME LanInv, WatcherStep PROVE LanGood
    <1>1. PICK c \in Conn :
              \/ CloseSeen(c) \/ WatcherSuspends(c) \/ WatcherLooks(c) \/ WatcherMarks(c)
              \/ WatcherLooksAgain(c) \/ WatcherRestores(c)
        BY DEF WatcherStep
    <1>2. /\ UNCHANGED <<made, live, actor, cycle, inbound, stimuli, attempts>>
          /\ watcher[c] # "none"
          /\ \E at \in Watchings : watcher' = [watcher EXCEPT ![c] = at]
          /\ \/ cached = c /\ c \notin live /\ cached' = NoConn
             \/ cached' = cached /\ (cached = c => watcher[c] # "waits")
        BY <1>1 DEF CloseSeen, WatcherSuspends, WatcherLooks, WatcherMarks, WatcherLooksAgain, WatcherRestores,
                    Watches, Watchings
    <1>3. watcher \in [Conn -> Watchings] /\ cached \in Conn \cup {NoConn}  BY DEF LanInv, LanShape
    <1>4. /\ watcher' \in [Conn -> Watchings]
          /\ \A d \in Conn : d # c => watcher'[d] = watcher[d]
        BY <1>2, <1>3
    <1>5. LanShape'  BY <1>2, <1>4 DEF LanInv, LanShape
    <1>6. CachedIsWatched'
        BY <1>2, <1>3, <1>4, LanPeerAssumption DEF LanInv, CachedIsWatched, NoConn
    <1>7. Caused'  BY <1>2, LanTyped DEF Caused
    <1>8. ReplacementStays
        BY <1>2, <1>3, LanPeerAssumption DEF ReplacementStays, CachedLive, LanInv, LanShape, NoConn
    <1> QED  BY <1>5, <1>6, <1>7, <1>8 DEF LanGood, LanInv

LEMMA LanKeeps == ASSUME LanInv, [LanNext]_lanVars PROVE LanGood
    <1>1. CASE UNCHANGED lanVars
        <2>1. UNCHANGED <<made, live, cached, watcher, actor, cycle, inbound, stimuli, attempts>>
            BY <1>1 DEF lanVars
        <2>2. Caused'  BY <2>1, LanTyped DEF Caused
        <2> QED  BY <2>1, <2>2, LanTyped, ConnectionsStay
    <1>2. CASE ActorStep
        BY <1>2, WakesStep, CycleSteps, AnswerSteps, SyncFailsStep DEF ActorStep
    <1>3. CASE \E c \in Conn : Connect(c) \/ Request(c) \/ Close(c)
        BY <1>3, ConnectStep, RequestStep, CycleSteps
    <1> QED  BY <1>1, <1>2, <1>3, WokenStep, AllGoSteps, WatcherSteps, SyncFailsStep DEF LanNext

\* What of it the checked properties say.
LEMMA LanKept == ASSUME LanInv PROVE LanTypeOK /\ CachedIsWatched /\ NoPolling
    BY DEF LanInv, LanShape, LanTypeOK, NoPolling, Caused

----------------------------------------------------------------------------
\* The link to the Hub. Whoever uses a link, and the session that says the group is registered over
\* it, name a link that leads to a Hub which has the group. A link number is given out again only
\* when nobody names it, so nobody's link ever comes to lead to another Hub.

Doing == {"none", "asleep", "resolve", "dial", "dialled", "prepare", "pick", "wait", "ensure", "register",
          "watch", "pull", "ask"}
Doings == [at : Doing, hub : Hub \cup {NoHub}, space : Space \cup {NoSpace}, link : Link \cup {NoLink},
           again : BOOLEAN]
Sessions == [link : Link \cup {NoLink}, space : Space \cup {NoSpace}]

LinkShape ==
    /\ doing \in [Role -> Doings] /\ session \in Sessions
    /\ endpoint \in Hub \cup {NoHub} /\ leadsTo \in [Link -> Hub \cup {NoHub}]
    /\ cloudLink \in Link \cup {NoLink} /\ hubKnows \in [Hub -> SUBSET Space]

ConfigShape ==
    /\ enabled \in BOOLEAN /\ hub \in Hub /\ space \in Space \cup {NoSpace} /\ stored \subseteq Space
    /\ watchWake \in BOOLEAN /\ cycleWake \in BOOLEAN /\ lanWake \in BOOLEAN
    /\ turns \in 0 .. MaxTurns

\* The Hub a link leads to, if any, has the group.
KnownOver(l, g, leads, knows) == l \in Link /\ leads[l] # NoHub => g \in knows[leads[l]]

Using == {"watch", "pull", "ask"}

\* Whoever is at work is so for a group, and uses its link only once the Hub has the group.
Served(x, leads, knows) ==
    /\ x.at \notin {"none", "asleep"} => x.space \in Space
    /\ x.at \in Using => KnownOver(x.link, x.space, leads, knows)

Registrations ==
    /\ KnownOver(session.link, session.space, leadsTo, hubKnows)
    /\ \A r \in Role : Served(doing[r], leadsTo, hubKnows)

\* A cycle that was not overtaken by a removal works for the group of the device.
CycleOfSpace ==
    torn = {} => /\ stored \subseteq {space}
                 /\ doing["cycle"].at # "none" => doing["cycle"].space = space /\ space \in Space

LinkInv == LinkShape /\ ConfigShape /\ Registrations /\ CycleOfSpace

\* One that rests or sleeps uses nothing.
LEMMA AtRest ==
    /\ Resting \in Doings /\ [Resting EXCEPT !.at = "asleep"] \in Doings
    /\ Resting.at = "none" /\ [Resting EXCEPT !.at = "asleep"].at = "asleep"
    /\ \A leads, knows : Served(Resting, leads, knows)
    /\ \A leads, knows : Served([Resting EXCEPT !.at = "asleep"], leads, knows)
    <1>1. Resting \in Doings /\ Resting.at = "none"
        BY DEF Resting, Doings, Doing
    <1>2. /\ [Resting EXCEPT !.at = "asleep"] \in Doings
          /\ [Resting EXCEPT !.at = "asleep"].at = "asleep"
        BY <1>1 DEF Doings, Doing
    <1>3. ASSUME NEW x, x.at \in {"none", "asleep"}, NEW leads, NEW knows
          PROVE  Served(x, leads, knows)
        BY <1>3 DEF Served, Using
    <1>4. \A leads, knows : Served(Resting, leads, knows)  BY <1>1, <1>3
    <1>5. \A leads, knows : Served([Resting EXCEPT !.at = "asleep"], leads, knows)
        <2> DEFINE x == [Resting EXCEPT !.at = "asleep"]
        <2>1. x.at \in {"none", "asleep"}  BY <1>2
        <2> HIDE DEF x
        <2>2. \A leads, knows : Served(x, leads, knows)  BY <2>1, <1>3
        <2> QED  BY <2>2 DEF x
    <1> QED  BY <1>1, <1>2, <1>4, <1>5

LEMMA LinkStarts == CloudInit => LinkInv
    <1> SUFFICES ASSUME CloudInit PROVE LinkInv
        OBVIOUS
    <1>1. NoSession \in Sessions  BY DEF NoSession, Sessions
    <1>2. hub \in Hub /\ space \in Space  BY CloudLinkAssumption DEF CloudInit
    <1>3. LinkShape /\ Registrations
        BY <1>1, AtRest, CloudLinkAssumption
           DEF CloudInit, LinkShape, Registrations, Closed, NoSession, KnownOver, NoLink
    <1>4. ConfigShape
        <2>1. turns \in 0 .. MaxTurns  BY CloudLinkAssumption DEF CloudInit
        <2>2. enabled \in BOOLEAN /\ watchWake \in BOOLEAN /\ cycleWake \in BOOLEAN /\ lanWake \in BOOLEAN
            BY DEF CloudInit
        <2>3. stored = {}  BY DEF CloudInit
        <2> QED  BY <1>2, <2>1, <2>2, <2>3 DEF ConfigShape
    <1>5. CycleOfSpace  BY DEF CloudInit, CycleOfSpace, Resting, Role
    <1> QED  BY <1>3, <1>4, <1>5 DEF LinkInv

\* The cells, one by one.
LEMMA LinkTyped ==
    ASSUME LinkInv
    PROVE  /\ doing \in [Role -> Doings] /\ session \in Sessions /\ endpoint \in Hub \cup {NoHub}
           /\ leadsTo \in [Link -> Hub \cup {NoHub}] /\ cloudLink \in Link \cup {NoLink}
           /\ hubKnows \in [Hub -> SUBSET Space]
    BY DEF LinkInv, LinkShape

\* Links may end, and the caches forget them; none begins.
LinksEnd ==
    /\ leadsTo' \in [Link -> Hub \cup {NoHub}]
    /\ \A l \in Link : leadsTo'[l] \in {leadsTo[l], NoHub}
    /\ session' \in {session, NoSession} /\ cloudLink' \in {cloudLink, NoLink}
    /\ endpoint' \in Hub \cup {NoHub}

LEMMA NoLinkBegins ==
    ASSUME LinkInv
    PROVE  /\ UNCHANGED linkState => LinksEnd
           /\ Down /\ endpoint' \in Hub \cup {NoHub} => LinksEnd
           /\ \A h \in Hub \cup {NoHub} : EnsureEndpoint(h) => LinksEnd
           /\ \A p : StopRuntime(p) => LinksEnd
           /\ \A l : Invalidate(l) => LinksEnd
    <1>1. UNCHANGED linkState => LinksEnd  BY LinkTyped DEF linkState, LinksEnd
    <1>2. Down /\ endpoint' \in Hub \cup {NoHub} => LinksEnd
        BY LinkTyped DEF Down, LinksEnd, Closed
    <1>3. \A h \in Hub \cup {NoHub} : EnsureEndpoint(h) => LinksEnd  BY <1>1, <1>2 DEF EnsureEndpoint
    <1>4. \A p : StopRuntime(p) => LinksEnd  BY <1>1, <1>2 DEF StopRuntime
    <1>5. \A l : Invalidate(l) => LinksEnd  BY LinkTyped DEF Invalidate, LinksEnd
    <1> QED  BY <1>1, <1>2, <1>3, <1>4, <1>5

\* Over a link that ended nobody uses anything.
LEMMA KnownStays ==
    ASSUME LinkInv, LinksEnd, hubKnows' = hubKnows
    PROVE  /\ \A l, g : KnownOver(l, g, leadsTo, hubKnows) => KnownOver(l, g, leadsTo', hubKnows')
           /\ \A x : Served(x, leadsTo, hubKnows) => Served(x, leadsTo', hubKnows')
    <1>1. \A l, g : KnownOver(l, g, leadsTo, hubKnows) => KnownOver(l, g, leadsTo', hubKnows')
        BY LinkTyped DEF KnownOver, LinksEnd
    <1> QED  BY <1>1 DEF Served

\* A step of one role, over links that may end.
LEMMA OneRole ==
    ASSUME LinkInv, LinksEnd, hubKnows' = hubKnows, NEW r \in Role, NEW x \in Doings,
           doing' = [doing EXCEPT ![r] = x], Served(x, leadsTo, hubKnows)
    PROVE  LinkShape' /\ Registrations' /\ doing'[r] = x /\ \A q \in Role : q # r => doing'[q] = doing[q]
    <1>1. /\ doing' \in [Role -> Doings] /\ doing'[r] = x
          /\ \A q \in Role : q # r => doing'[q] = doing[q]
        BY LinkTyped
    <1>2. NoSession \in Sessions /\ KnownOver(NoSession.link, NoSession.space, leadsTo, hubKnows)
        BY CloudLinkAssumption DEF NoSession, Sessions, KnownOver, NoLink
    <1>3. LinkShape'  BY <1>1, <1>2, LinkTyped DEF LinksEnd, LinkShape
    <1>4. Registrations'  BY <1>1, <1>2, KnownStays DEF Registrations, LinksEnd, LinkInv
    <1> QED  BY <1>1, <1>3, <1>4

\* What a role goes on with keeps what it read.
LEMMA Moved ==
    ASSUME LinkInv, NEW r \in Role, NEW at \in Doing
    PROVE  /\ [doing[r] EXCEPT !.at = at] \in Doings
           /\ [doing[r] EXCEPT !.at = at].at = at
           /\ [doing[r] EXCEPT !.at = at].space = doing[r].space
           /\ [doing[r] EXCEPT !.at = at].link = doing[r].link
    <1>1. doing[r] \in Doings  BY LinkTyped
    <1> QED  BY <1>1 DEF Doings, Doing

\* What the step of a role leaves to show, for its cell and for the device's group.
LinkGood == LinkShape' /\ Registrations' /\ CycleOfSpace'

\* A step that neither touches the device's group nor the cycle keeps the two together.
LEMMA SpaceStays ==
    ASSUME LinkInv, UNCHANGED <<space, stored, torn>>,
           doing'["cycle"].at # "none" => doing["cycle"].at # "none" /\ doing'["cycle"].space = doing["cycle"].space
    PROVE  CycleOfSpace'
    BY DEF LinkInv, CycleOfSpace

\* A role goes on with what it read.
LEMMA GoesOn ==
    ASSUME LinkInv, LinksEnd, hubKnows' = hubKnows, UNCHANGED <<space, stored, torn>>,
           NEW r \in Role, NEW at \in Doing, doing' = [doing EXCEPT ![r] = [doing[r] EXCEPT !.at = at]],
           doing[r].at \notin {"none", "asleep"},
           at \in Using => KnownOver(doing[r].link, doing[r].space, leadsTo, hubKnows)
    PROVE  LinkGood
    <1> DEFINE x == [doing[r] EXCEPT !.at = at]
    <1>1. x \in Doings /\ x.at = at /\ x.space = doing[r].space /\ x.link = doing[r].link  BY Moved
    <1>2. doing[r].space \in Space  BY DEF LinkInv, Registrations, Served
    <1>3. doing' = [doing EXCEPT ![r] = x]  OBVIOUS
    <1> HIDE DEF x
    <1>4. Served(x, leadsTo, hubKnows)  BY <1>1, <1>2 DEF Served
    <1>5. /\ LinkShape' /\ Registrations' /\ doing'[r] = x
          /\ \A q \in Role : q # r => doing'[q] = doing[q]
        BY <1>1, <1>3, <1>4, OneRole
    <1>6. doing'["cycle"].at # "none" => doing["cycle"].at # "none" /\ doing'["cycle"].space = doing["cycle"].space
        BY <1>1, <1>5 DEF Role
    <1> QED  BY <1>5, <1>6, SpaceStays DEF LinkGood

\* A role other than the cycle begins, or takes a link.
LEMMA TakesUp ==
    ASSUME LinkInv, LinksEnd, hubKnows' = hubKnows, UNCHANGED <<space, stored, torn>>,
           NEW r \in {"watcher", "query"}, NEW x \in Doings, doing' = [doing EXCEPT ![r] = x],
           Served(x, leadsTo, hubKnows)
    PROVE  LinkGood
    <1>1. r \in Role /\ "cycle" \in Role /\ r # "cycle"  BY DEF Role
    <1>2. LinkShape' /\ Registrations' /\ doing'["cycle"] = doing["cycle"]  BY <1>1, OneRole
    <1> QED  BY <1>2, SpaceStays DEF LinkGood

\* A role is done.
LEMMA Rests ==
    ASSUME LinkInv, LinksEnd, hubKnows' = hubKnows, NEW r \in Role, Rest(r) \/ (r = "watcher" /\ Sleep)
    PROVE  /\ LinkShape' /\ Registrations'
           /\ UNCHANGED <<space, stored, torn>> => CycleOfSpace'
           /\ r = "cycle" => doing'["cycle"].at = "none"
    <1>1. PICK x \in {Resting, [Resting EXCEPT !.at = "asleep"]} :
              doing' = [doing EXCEPT ![r] = x] /\ (r = "cycle" => x.at = "none")
        BY AtRest DEF Rest, Sleep
    <1>2. x \in Doings /\ Served(x, leadsTo, hubKnows)  BY AtRest
    <1>3. /\ LinkShape' /\ Registrations' /\ doing'[r] = x
          /\ \A q \in Role : q # r => doing'[q] = doing[q]
        BY <1>1, <1>2, OneRole
    <1>4. doing'["cycle"].at # "none" => doing["cycle"].at # "none" /\ doing'["cycle"].space = doing["cycle"].space
        BY <1>1, <1>3 DEF Role
    <1> QED  BY <1>1, <1>3, <1>4, SpaceStays

\* Nobody's cell changes.
LEMMA NobodyMoves ==
    ASSUME LinkInv, LinksEnd, hubKnows' = hubKnows, doing' = doing
    PROVE  LinkShape' /\ Registrations'
    <1>1. doing' = [doing EXCEPT !["query"] = doing["query"]] /\ doing["query"] \in Doings /\ "query" \in Role
        BY LinkTyped DEF Role
    <1>2. Served(doing["query"], leadsTo, hubKnows)  BY <1>1 DEF LinkInv, Registrations
    <1> QED  BY <1>1, <1>2, OneRole

\* What the settings and the group may become.
LEMMA ConfigTyped ==
    ASSUME LinkInv
    PROVE  /\ enabled \in BOOLEAN /\ hub \in Hub /\ space \in Space \cup {NoSpace} /\ stored \subseteq Space
           /\ turns \in 0 .. MaxTurns
           /\ (torn = {} => stored \subseteq {space})
    BY DEF LinkInv, ConfigShape, CycleOfSpace

\* The roles' records.
LEMMA DoingTyped ==
    ASSUME LinkInv, NEW r \in Role
    PROVE  /\ doing[r] \in Doings /\ Served(doing[r], leadsTo, hubKnows)
           /\ doing[r].hub \in Hub \cup {NoHub} /\ doing[r].link \in Link \cup {NoLink}
    <1>1. doing[r] \in Doings  BY LinkTyped
    <1> QED  BY <1>1 DEF Doings, LinkInv, Registrations

\* Whoever finds a session of the link and the group it works with finds the group known.
LEMMA ReadyIsKnown ==
    ASSUME LinkInv, NEW r \in Role, Ready(r)
    PROVE  KnownOver(doing[r].link, doing[r].space, leadsTo, hubKnows)
    <1>1. session.link = doing[r].link /\ session.space = doing[r].space  BY DEF Ready
    <1> QED  BY <1>1 DEF LinkInv, Registrations

LEMMA FindReadyStep == ASSUME LinkInv, NEW r \in Role, FindReady(r) PROVE LinkGood
    <1>1. /\ doing[r].at = "ensure" /\ Ready(r) /\ UNCHANGED <<space, stored, torn>>
          /\ doing' = [doing EXCEPT ![r] = [doing[r] EXCEPT !.at = Onward(r)]]
          /\ UNCHANGED linkState /\ hubKnows' = hubKnows
        BY DEF FindReady, At, Go, config
    <1>2. Onward(r) \in Doing  BY DEF Onward, Doing
    <1>3. LinksEnd  BY <1>1, NoLinkBegins
    <1> QED  BY <1>1, <1>2, <1>3, ReadyIsKnown, GoesOn

LEMMA RegisterStep == ASSUME LinkInv, NEW r \in Role, Register(r) PROVE LinkGood
    <1>1. /\ doing[r].at = "ensure" /\ UNCHANGED <<space, stored, torn>>
          /\ doing' = [doing EXCEPT ![r] = [doing[r] EXCEPT !.at = "register"]]
          /\ UNCHANGED linkState /\ hubKnows' = hubKnows
        BY DEF Register, At, Go, config
    <1>2. "register" \in Doing /\ "register" \notin Using  BY DEF Doing, Using
    <1>3. LinksEnd  BY <1>1, NoLinkBegins
    <1> QED  BY <1>1, <1>2, <1>3, GoesOn

\* With the answer the Hub of the link has the group, and what others rely on stays known.
LEMMA RegisteredStep == ASSUME LinkInv, NEW r \in Role, Registered(r) PROVE LinkGood
    <1> DEFINE l == doing[r].link
               g == doing[r].space
               x == [doing[r] EXCEPT !.at = Onward(r)]
    <1>1. /\ doing[r].at = "register" /\ UNCHANGED <<space, stored, torn>>
          /\ l \in Link /\ leadsTo[l] # NoHub
          /\ hubKnows' = [hubKnows EXCEPT ![leadsTo[l]] = @ \cup {g}]
          /\ session' = [link |-> l, space |-> g]
          /\ doing' = [doing EXCEPT ![r] = x]
          /\ UNCHANGED <<endpoint, leadsTo, cloudLink>>
        BY DEF Registered, At, Go, config, open, OpenIn
    <1>2. Onward(r) \in Doing  BY DEF Onward, Doing
    <1>3. x \in Doings /\ x.space = g /\ x.link = l /\ x.at = Onward(r)  BY <1>2, Moved
    <1>4. g \in Space  BY <1>1, DoingTyped DEF Served
    <1>5. leadsTo[l] \in Hub  BY <1>1, LinkTyped
    <1>6. /\ hubKnows' \in [Hub -> SUBSET Space] /\ g \in hubKnows'[leadsTo[l]]
          /\ \A h \in Hub : hubKnows[h] \subseteq hubKnows'[h]
        BY <1>1, <1>4, <1>5, LinkTyped
    <1>7. \A k, f : KnownOver(k, f, leadsTo, hubKnows) => KnownOver(k, f, leadsTo', hubKnows')
        BY <1>1, <1>6, LinkTyped DEF KnownOver
    <1>8. KnownOver(l, g, leadsTo', hubKnows')  BY <1>1, <1>6 DEF KnownOver
    <1> HIDE DEF x
    <1>9. Served(x, leadsTo', hubKnows')  BY <1>3, <1>4, <1>8 DEF Served
    <1>10. /\ doing' \in [Role -> Doings] /\ doing'[r] = x
           /\ \A q \in Role : q # r => doing'[q] = doing[q]
        BY <1>1, <1>3, LinkTyped
    <1>11. session' \in Sessions /\ session'.link = l /\ session'.space = g
        BY <1>1, <1>4 DEF Sessions
    <1>12. LinkShape'  BY <1>1, <1>6, <1>10, <1>11, LinkTyped DEF LinkShape
    <1>13. \A q \in Role : Served(doing'[q], leadsTo', hubKnows')
        BY <1>7, <1>9, <1>10, DoingTyped DEF Served
    <1>14. Registrations'  BY <1>8, <1>11, <1>13 DEF Registrations
    <1>15. doing'["cycle"].at # "none" => doing["cycle"].at # "none" /\ doing'["cycle"].space = doing["cycle"].space
        BY <1>1, <1>3, <1>10 DEF Role
    <1>16. CycleOfSpace'  BY <1>1, <1>15, SpaceStays
    <1> QED  BY <1>12, <1>14, <1>16 DEF LinkGood

LEMMA LookStep == ASSUME LinkInv, Look PROVE LinkGood
    <1> DEFINE x == [at |-> "resolve", hub |-> hub, space |-> space, link |-> NoLink, again |-> FALSE]
    <1>1. /\ UNCHANGED <<space, stored, torn>> /\ UNCHANGED linkState /\ hubKnows' = hubKnows
          /\ \/ space # NoSpace /\ doing' = [doing EXCEPT !["watcher"] = x]
             \/ Sleep
        BY DEF Look, config
    <1>2. LinksEnd  BY <1>1, NoLinkBegins
    <1>3. CASE space # NoSpace /\ doing' = [doing EXCEPT !["watcher"] = x]
        <2>1. space \in Space  BY <1>3, ConfigTyped
        <2>2. x \in Doings /\ x.at = "resolve" /\ x.space = space  BY ConfigTyped DEF Doings, Doing
        <2> HIDE DEF x
        <2>3. Served(x, leadsTo, hubKnows)  BY <2>1, <2>2 DEF Served, Using
        <2> QED  BY <1>1, <1>2, <1>3, <2>2, <2>3, TakesUp
    <1>4. CASE Sleep
        BY <1>1, <1>2, <1>4, Rests DEF LinkGood, Role
    <1> QED  BY <1>1, <1>3, <1>4

LEMMA PrepareStep == ASSUME LinkInv, Prepare PROVE LinkGood
    <1> DEFINE w == doing["watcher"]
    <1>1. PICK at \in {"ensure", "dial"}, l \in Link \cup {NoLink} :
              doing' = [doing EXCEPT !["watcher"] = [w EXCEPT !.at = at, !.link = l]]
        BY LinkTyped DEF Prepare
    <1>2. /\ w.at = "resolve" /\ UNCHANGED <<space, stored, torn>> /\ hubKnows' = hubKnows
          /\ EnsureEndpoint(w.hub)
        BY DEF Prepare, At, config
    <1>3. w \in Doings /\ w.space \in Space /\ w.hub \in Hub \cup {NoHub}
        BY <1>2, DoingTyped DEF Role, Served
    <1> DEFINE x == [w EXCEPT !.at = at, !.link = l]
    <1>4. x \in Doings /\ x.at = at /\ x.space = w.space  BY <1>3 DEF Doings, Doing
    <1>5. LinksEnd  BY <1>2, <1>3, NoLinkBegins
    <1>6. doing' = [doing EXCEPT !["watcher"] = x]  BY <1>1
    <1> HIDE DEF x
    <1>7. Served(x, leadsTo, hubKnows)  BY <1>3, <1>4 DEF Served, Using
    <1> QED  BY <1>2, <1>4, <1>5, <1>6, <1>7, TakesUp

\* The new link's number is nobody's.
LEMMA DialledStep == ASSUME LinkInv, NEW l \in Link, Dialled(l) PROVE LinkGood
    <1> DEFINE w == doing["watcher"]
               x == [w EXCEPT !.at = "dialled", !.link = l]
    <1>1. /\ w.at = "dial" /\ UNCHANGED <<space, stored, torn, session, endpoint, hubKnows>>
          /\ leadsTo' = [leadsTo EXCEPT ![l] = endpoint] /\ cloudLink' = l
          /\ doing' = [doing EXCEPT !["watcher"] = x]
          /\ session.link # l /\ \A q \in Role : doing[q].link # l
        BY DEF Dialled, At, config, InUse
    <1>2. w \in Doings /\ w.space \in Space  BY <1>1, DoingTyped DEF Role, Served
    <1>3. x \in Doings /\ x.at = "dialled" /\ x.space = w.space  BY <1>2 DEF Doings, Doing
    <1> HIDE DEF x
    <1>4. /\ leadsTo' \in [Link -> Hub \cup {NoHub}]
          /\ \A k \in Link : k # l => leadsTo'[k] = leadsTo[k]
        BY <1>1, LinkTyped
    <1>5. \A k, g : k # l /\ KnownOver(k, g, leadsTo, hubKnows) => KnownOver(k, g, leadsTo', hubKnows')
        BY <1>1, <1>4 DEF KnownOver
    <1>6. /\ doing' \in [Role -> Doings] /\ doing'["watcher"] = x
          /\ \A q \in Role : q # "watcher" => doing'[q] = doing[q]
        BY <1>1, <1>3, LinkTyped DEF Role
    <1>7. Served(x, leadsTo', hubKnows')  BY <1>2, <1>3 DEF Served, Using
    <1>8. \A q \in Role : Served(doing'[q], leadsTo', hubKnows')
        BY <1>1, <1>5, <1>6, <1>7, DoingTyped DEF Served
    <1>9. LinkShape'  BY <1>1, <1>4, <1>6, LinkTyped DEF LinkShape
    <1>10. Registrations'  BY <1>1, <1>5, <1>8 DEF Registrations, LinkInv
    <1>11. doing'["cycle"] = doing["cycle"]  BY <1>6 DEF Role
    <1>12. CycleOfSpace'  BY <1>1, <1>11, SpaceStays
    <1> QED  BY <1>9, <1>10, <1>12 DEF LinkGood

LEMMA ForgetStep == ASSUME LinkInv, ForgetSession PROVE LinkGood
    <1>1. /\ doing["watcher"].at = "dialled" /\ UNCHANGED <<space, stored, torn>> /\ hubKnows' = hubKnows
          /\ session' = NoSession /\ UNCHANGED <<endpoint, leadsTo, cloudLink>>
          /\ doing' = [doing EXCEPT !["watcher"] = [doing["watcher"] EXCEPT !.at = "ensure"]]
        BY DEF ForgetSession, At, Go, config
    <1>2. LinksEnd  BY <1>1, LinkTyped DEF LinksEnd
    <1>3. "ensure" \in Doing /\ "ensure" \notin Using /\ "watcher" \in Role  BY DEF Doing, Using, Role
    <1> QED  BY <1>1, <1>2, <1>3, GoesOn

\* Steps that end what a role was doing, and perhaps its link.
LEMMA EndSteps ==
    ASSUME LinkInv,
           \/ WatcherFails \/ TakeWatchWake \/ CycleFails
           \/ QueryTimesOut \/ QueryAnswered
    PROVE  LinkGood
    <1>1. PICK r \in Role : Rest(r) \/ (r = "watcher" /\ Sleep)
        BY DEF WatcherFails, TakeWatchWake, CycleFails, QueryTimesOut, QueryAnswered, Role
    <1>2. UNCHANGED <<space, stored, torn>> /\ hubKnows' = hubKnows
        BY DEF WatcherFails, TakeWatchWake, CycleFails, QueryTimesOut, QueryAnswered, config
    <1>3. UNCHANGED linkState \/ \E l : Invalidate(l)
        BY DEF WatcherFails, TakeWatchWake, CycleFails, QueryTimesOut, QueryAnswered
    <1>4. LinksEnd  BY <1>3, NoLinkBegins
    <1> QED  BY <1>1, <1>2, <1>4, Rests DEF LinkGood

\* A cycle begins with the group of the device.
LEMMA CycleStartsStep == ASSUME LinkInv, CycleStarts PROVE LinkGood
    <1> DEFINE w == doing["cycle"]
               x == [w EXCEPT !.at = "prepare", !.hub = hub, !.space = space]
    <1>1. /\ w.at = "none" /\ UNCHANGED <<space, stored, torn>> /\ hubKnows' = hubKnows
          /\ UNCHANGED linkState \/ StopRuntime(Pairing)
          /\ \/ doing' = doing
             \/ space # NoSpace /\ doing' = [doing EXCEPT !["cycle"] = x]
        BY DEF CycleStarts, At, config
    <1>2. LinksEnd  BY <1>1, NoLinkBegins
    <1>3. CASE doing' = doing
        <2>1. CycleOfSpace'  BY <1>1, <1>3, SpaceStays
        <2> QED  BY <1>1, <1>2, <1>3, <2>1, NobodyMoves DEF LinkGood
    <1>4. CASE space # NoSpace /\ doing' = [doing EXCEPT !["cycle"] = x]
        <2>1. w \in Doings /\ space \in Space /\ "cycle" \in Role  BY <1>4, DoingTyped, ConfigTyped DEF Role
        <2>2. x \in Doings /\ x.at = "prepare" /\ x.space = space
            BY <2>1, ConfigTyped DEF Doings, Doing
        <2> HIDE DEF x
        <2>3. Served(x, leadsTo, hubKnows)  BY <2>1, <2>2 DEF Served, Using
        <2>4. LinkShape' /\ Registrations' /\ doing'["cycle"] = x
            BY <1>1, <1>2, <1>4, <2>1, <2>2, <2>3, OneRole
        <2>5. CycleOfSpace'  BY <1>1, <2>1, <2>2, <2>4, ConfigTyped DEF CycleOfSpace
        <2> QED  BY <2>4, <2>5 DEF LinkGood
    <1> QED  BY <1>1, <1>3, <1>4

LEMMA CyclePreparesStep == ASSUME LinkInv, CyclePrepares PROVE LinkGood
    <1>1. /\ doing["cycle"].at = "prepare" /\ UNCHANGED <<space, stored, torn>> /\ hubKnows' = hubKnows
          /\ EnsureEndpoint(doing["cycle"].hub)
          /\ doing' = [doing EXCEPT !["cycle"] = [doing["cycle"] EXCEPT !.at = "pick"]]
        BY DEF CyclePrepares, At, Go, config
    <1>2. "pick" \in Doing /\ "pick" \notin Using /\ "cycle" \in Role  BY DEF Doing, Using, Role
    <1>3. LinksEnd  BY <1>1, <1>2, DoingTyped, NoLinkBegins
    <1> QED  BY <1>1, <1>2, <1>3, GoesOn

LEMMA CyclePicksStep == ASSUME LinkInv, CyclePicks PROVE LinkGood
    <1> DEFINE w == doing["cycle"]
               x == [w EXCEPT !.at = "ensure", !.link = cloudLink]
    <1>1. /\ w.at = "pick" /\ UNCHANGED <<space, stored, torn>> /\ hubKnows' = hubKnows
          /\ UNCHANGED linkState /\ (doing' = [doing EXCEPT !["cycle"] = x] \/ Rest("cycle"))
        BY DEF CyclePicks, At, config
    <1>2. LinksEnd /\ "cycle" \in Role  BY <1>1, NoLinkBegins DEF Role
    <1>3. CASE doing' = [doing EXCEPT !["cycle"] = x]
        <2>1. w \in Doings /\ w.space \in Space  BY <1>1, <1>2, DoingTyped DEF Served
        <2>2. x \in Doings /\ x.at = "ensure" /\ x.space = w.space
            BY <2>1, LinkTyped DEF Doings, Doing
        <2> HIDE DEF x
        <2>3. Served(x, leadsTo, hubKnows)  BY <2>1, <2>2 DEF Served, Using
        <2>4. LinkShape' /\ Registrations' /\ doing'["cycle"] = x
            BY <1>1, <1>2, <1>3, <2>2, <2>3, OneRole
        <2>5. CycleOfSpace'  BY <1>1, <2>2, <2>4, SpaceStays
        <2> QED  BY <2>4, <2>5 DEF LinkGood
    <1>4. CASE Rest("cycle")  BY <1>1, <1>2, <1>4, Rests DEF LinkGood
    <1> QED  BY <1>1, <1>3, <1>4

\* What a cycle stores is of the device's group, unless that was given up under it.
LEMMA CyclePullsStep == ASSUME LinkInv, CyclePulls PROVE LinkGood
    <1>1. /\ doing["cycle"].at = "pull" /\ UNCHANGED <<space, torn>> /\ hubKnows' = hubKnows
          /\ stored' = stored \cup {doing["cycle"].space} /\ Rest("cycle") /\ UNCHANGED linkState
        BY DEF CyclePulls, At
    <1>2. LinksEnd /\ "cycle" \in Role  BY <1>1, NoLinkBegins DEF Role
    <1>3. LinkShape' /\ Registrations' /\ doing'["cycle"].at = "none"  BY <1>1, <1>2, Rests
    <1>4. CycleOfSpace'  BY <1>1, <1>3 DEF LinkInv, CycleOfSpace
    <1> QED  BY <1>3, <1>4 DEF LinkGood

LEMMA RemovedInCycleStep == ASSUME LinkInv, RemovedInCycle PROVE LinkGood
    <1>1. /\ hubKnows' = hubKnows /\ stored' = {} /\ Rest("cycle") /\ UNCHANGED linkState
        BY DEF RemovedInCycle, LeaveAfterRemoval
    <1>2. LinksEnd /\ "cycle" \in Role  BY <1>1, NoLinkBegins DEF Role
    <1>3. LinkShape' /\ Registrations' /\ doing'["cycle"].at = "none"  BY <1>1, <1>2, Rests
    <1>4. CycleOfSpace'  BY <1>1, <1>3 DEF CycleOfSpace
    <1> QED  BY <1>3, <1>4 DEF LinkGood

LEMMA QueryStartsStep == ASSUME LinkInv, QueryStarts PROVE LinkGood
    <1> DEFINE x == [at |-> "wait", hub |-> hub, space |-> space, link |-> NoLink, again |-> FALSE]
    <1>1. /\ UNCHANGED <<space, stored, torn>> /\ hubKnows' = hubKnows /\ space # NoSpace
          /\ EnsureEndpoint(hub) /\ doing' = [doing EXCEPT !["query"] = x]
        BY DEF QueryStarts, config
    <1>2. space \in Space /\ hub \in Hub  BY <1>1, ConfigTyped
    <1>3. LinksEnd  BY <1>1, <1>2, NoLinkBegins
    <1>4. x \in Doings /\ x.at = "wait" /\ x.space = space  BY <1>2 DEF Doings, Doing
    <1> HIDE DEF x
    <1>5. Served(x, leadsTo, hubKnows)  BY <1>2, <1>4 DEF Served, Using
    <1> QED  BY <1>1, <1>3, <1>4, <1>5, TakesUp

LEMMA QueryLinkedStep == ASSUME LinkInv, QueryLinked PROVE LinkGood
    <1> DEFINE w == doing["query"]
               x == [w EXCEPT !.at = "ensure", !.link = cloudLink]
    <1>1. /\ w.at = "wait" /\ UNCHANGED <<space, stored, torn>> /\ hubKnows' = hubKnows
          /\ UNCHANGED linkState /\ doing' = [doing EXCEPT !["query"] = x]
        BY DEF QueryLinked, At, config
    <1>2. LinksEnd /\ "query" \in Role  BY <1>1, NoLinkBegins DEF Role
    <1>3. w \in Doings /\ w.space \in Space  BY <1>1, <1>2, DoingTyped DEF Served
    <1>4. x \in Doings /\ x.at = "ensure" /\ x.space = w.space
        BY <1>3, LinkTyped DEF Doings, Doing
    <1> HIDE DEF x
    <1>5. Served(x, leadsTo, hubKnows)  BY <1>3, <1>4 DEF Served, Using
    <1> QED  BY <1>1, <1>2, <1>4, <1>5, TakesUp

LEMMA QueryFailsStep == ASSUME LinkInv, QueryFails PROVE LinkGood
    <1> DEFINE w == doing["query"]
               x == [w EXCEPT !.at = "wait", !.link = NoLink, !.again = TRUE]
    <1>1. /\ w.at \in {"register", "ask"} /\ UNCHANGED <<space, stored, torn>> /\ hubKnows' = hubKnows
          /\ Invalidate(w.link) /\ (doing' = [doing EXCEPT !["query"] = x] \/ Rest("query"))
        BY DEF QueryFails, config
    <1>2. LinksEnd /\ "query" \in Role  BY <1>1, NoLinkBegins DEF Role
    <1>3. CASE doing' = [doing EXCEPT !["query"] = x]
        <2>1. w \in Doings /\ w.space \in Space  BY <1>1, <1>2, DoingTyped DEF Served
        <2>2. x \in Doings /\ x.at = "wait" /\ x.space = w.space  BY <2>1 DEF Doings, Doing
        <2> HIDE DEF x
        <2>3. Served(x, leadsTo, hubKnows)  BY <2>1, <2>2 DEF Served, Using
        <2> QED  BY <1>1, <1>2, <1>3, <2>2, <2>3, TakesUp
    <1>4. CASE Rest("query")  BY <1>1, <1>2, <1>4, Rests DEF LinkGood
    <1> QED  BY <1>1, <1>3, <1>4

\* Nobody's work moves, and the group and its rows stay together by what the step does to them.
LEMMA AroundSteps ==
    ASSUME LinkInv, LinksEnd, hubKnows' = hubKnows, doing' = doing,
           \/ UNCHANGED <<space, stored, torn>>
           \/ torn' # {}
           \/ stored' \subseteq {space'} /\ doing["cycle"].at = "none"
    PROVE  LinkGood
    <1>1. CycleOfSpace'  BY SpaceStays DEF CycleOfSpace
    <1> QED  BY <1>1, NobodyMoves DEF LinkGood

LEMMA PlainSteps ==
    ASSUME LinkInv,
           \/ LanWorker \/ ChangeSettings \/ JoinStarts \/ JoinEnds \/ ScanStarts \/ ScanEnds \/ Reconnect
           \/ \E l \in Link : BreakLink(l)
    PROVE  LinkGood
    <1>1. UNCHANGED <<space, stored, torn>> /\ hubKnows' = hubKnows /\ doing' = doing
        BY DEF LanWorker, ChangeSettings, JoinStarts, JoinEnds, ScanStarts, ScanEnds, Reconnect, BreakLink, config
    <1>2. LinksEnd
        <2>1. hub \in Hub  BY ConfigTyped
        <2>2. CASE \E l \in Link : BreakLink(l)
            BY <2>2, LinkTyped DEF BreakLink, LinksEnd
        <2>3. CASE ~\E l \in Link : BreakLink(l)
            <3>1. \/ UNCHANGED linkState \/ EnsureEndpoint(hub)
                  \/ (\E p : StopRuntime(p)) \/ (\E l : Invalidate(l))
                BY <2>3 DEF LanWorker, ChangeSettings, JoinStarts, JoinEnds, ScanStarts, ScanEnds, Reconnect
            <3> QED  BY <2>1, <3>1, NoLinkBegins
        <2> QED  BY <2>2, <2>3
    <1> QED  BY <1>1, <1>2, AroundSteps

\* The steps that change the group: under a cycle only a removal told by a peer does.
LEMMA CreateStep == ASSUME LinkInv, NEW g \in Space, CreateSpace(g) PROVE LinkGood
    <1>1. /\ space = NoSpace /\ space' = g /\ UNCHANGED <<stored, torn>>
          /\ UNCHANGED linkState /\ hubKnows' = hubKnows /\ doing' = doing
        BY DEF CreateSpace
    <1>2. LinksEnd  BY <1>1, NoLinkBegins
    <1>3. torn = {} => stored = {} /\ doing["cycle"].at = "none"
        BY <1>1, CloudLinkAssumption, ConfigTyped DEF LinkInv, CycleOfSpace
    <1>4. CASE torn = {}  BY <1>1, <1>2, <1>3, <1>4, AroundSteps
    <1>5. CASE torn # {}  BY <1>1, <1>2, <1>5, AroundSteps
    <1> QED  BY <1>4, <1>5

LEMMA LeaveSteps == ASSUME LinkInv, LeaveSpace \/ Removed PROVE LinkGood
    <1>1. /\ stored' = {} /\ hubKnows' = hubKnows /\ doing' = doing
          /\ UNCHANGED linkState \/ (\E p : StopRuntime(p))
          /\ torn' # {} \/ doing["cycle"].at = "none"
        BY DEF LeaveSpace, Removed, LeaveAfterRemoval, CycleHolds, At
    <1>2. LinksEnd  BY <1>1, NoLinkBegins
    <1> QED  BY <1>1, <1>2, AroundSteps

LEMMA JoinStep == ASSUME LinkInv, NEW g \in Space, NEW h \in Hub, Join(g, h) PROVE LinkGood
    <1>1. /\ space' = g /\ stored' = (IF space \in {NoSpace, g} THEN stored ELSE {}) \cup {g}
          /\ g # space /\ doing["cycle"].at = "none" /\ torn' = torn
          /\ UNCHANGED linkState /\ hubKnows' = hubKnows /\ doing' = doing
        BY DEF Join, CycleHolds, At
    <1>2. LinksEnd  BY <1>1, NoLinkBegins
    <1>3. torn = {} => stored' \subseteq {space'}
        BY <1>1, CloudLinkAssumption, ConfigTyped
    <1>4. CASE torn = {}  BY <1>1, <1>2, <1>3, <1>4, AroundSteps
    <1>5. CASE torn # {}  BY <1>1, <1>2, <1>5, AroundSteps
    <1> QED  BY <1>4, <1>5

LEMMA CutShortStep == ASSUME LinkInv, LeaveCutShort PROVE LinkGood
    <1>1. /\ torn' # {} /\ endpoint' = NoHub /\ Down /\ doing' = [r \in Role |-> Resting] /\ hubKnows' = hubKnows
        BY DEF LeaveCutShort
    <1>2. LinksEnd  BY <1>1, NoLinkBegins
    <1>3. NoSession \in Sessions /\ session' = NoSession /\ NoSession.link = NoLink
        BY <1>1 DEF Sessions, NoSession, Down
    <1>4. LinkShape'  BY <1>1, <1>2, <1>3, AtRest, LinkTyped DEF LinkShape, LinksEnd
    <1>5. Registrations'
        BY <1>1, <1>3, AtRest, CloudLinkAssumption DEF Registrations, KnownOver, NoLink
    <1> QED  BY <1>1, <1>4, <1>5 DEF LinkGood, CycleOfSpace

\* Every step, by name.
CloudActs ==
    \/ Look \/ Prepare \/ ForgetSession \/ WatcherFails \/ TakeWatchWake
    \/ CycleStarts \/ CyclePrepares \/ CyclePicks \/ CyclePulls \/ CycleFails
    \/ QueryLinked \/ QueryTimesOut \/ QueryAnswered \/ QueryFails
    \/ LanWorker \/ JoinEnds \/ ScanEnds \/ RemovedInCycle
    \/ QueryStarts \/ ChangeSettings \/ LeaveSpace \/ LeaveCutShort \/ Removed \/ JoinStarts \/ ScanStarts \/ Reconnect
    \/ \E r \in Role : FindReady(r) \/ Register(r) \/ Registered(r)
    \/ \E l \in Link : Dialled(l) \/ BreakLink(l)
    \/ \E g \in Space : CreateSpace(g) \/ \E h \in Hub : Join(g, h)

LEMMA CloudByName == ASSUME CloudNext PROVE CloudActs
    <1>1. "watcher" \in Role /\ "cycle" \in Role /\ "query" \in Role  BY DEF Role
    <1>2. CASE CloudWorkerStep  BY <1>1, <1>2 DEF CloudWorkerStep, CloudActs
    <1>3. CASE CycleStep  BY <1>1, <1>3 DEF CycleStep, CloudActs
    <1>4. CASE QueryStep  BY <1>1, <1>4 DEF QueryStep, CloudActs
    <1>5. CASE Environment  BY <1>5 DEF Environment, CloudActs
    <1> QED  BY <1>2, <1>3, <1>4, <1>5 DEF CloudNext, CloudActs

\* The settings and the wakes keep their shape.
LEMMA ConfigStays == ASSUME LinkInv, CloudActs PROVE ConfigShape'
    <1>1. Turn \/ Quiet
        BY DEF CloudActs, Look, Prepare, ForgetSession, WatcherFails, TakeWatchWake, CycleStarts, CyclePrepares, CyclePicks,
           CyclePulls, CycleFails, QueryLinked, QueryTimesOut, QueryAnswered, QueryFails, LanWorker, JoinEnds,
           ScanEnds, RemovedInCycle, QueryStarts, ChangeSettings, LeaveSpace, LeaveCutShort, Removed, JoinStarts,
           ScanStarts, Reconnect,
           FindReady, Register, Registered, Dialled, BreakLink, CreateSpace, Join, LeaveAfterRemoval, WakeAll, config, wakes
    <1>2. turns' \in 0 .. MaxTurns
        BY <1>1, ConfigTyped, CloudLinkAssumption DEF Turn, Quiet
    <1>3. /\ \/ UNCHANGED <<enabled, hub, space, stored>>
             \/ stored' = stored \cup {doing["cycle"].space} /\ UNCHANGED <<enabled, hub, space>> /\ doing["cycle"].at = "pull"
             \/ space' = NoSpace /\ UNCHANGED hub /\ stored' \in {stored, {}} /\ enabled' \in {enabled, FALSE}
             \/ UNCHANGED <<space, stored>> /\ hub' \in Hub /\ enabled' \in BOOLEAN
             \/ space' \in Space /\ UNCHANGED <<hub, stored>> /\ enabled' = TRUE
             \/ space' \in Space /\ hub' \in Hub /\ enabled' = TRUE /\ stored' \subseteq stored \cup {space'}
        <2> DEFINE moves == CyclePulls \/ RemovedInCycle \/ LeaveSpace \/ LeaveCutShort \/ Removed \/ ChangeSettings
                         \/ (\E g \in Space : CreateSpace(g) \/ \E h \in Hub : Join(g, h))
        <2>1. CASE ~moves
            <3>1. UNCHANGED <<enabled, hub, space, stored>>
                BY <2>1 DEF CloudActs, Look, Prepare, ForgetSession, WatcherFails, TakeWatchWake, CycleStarts, CyclePrepares, CyclePicks,
                   CycleFails, QueryLinked, QueryTimesOut, QueryAnswered, QueryFails, LanWorker, JoinEnds, ScanEnds,
                   QueryStarts, JoinStarts, ScanStarts, Reconnect,
                   FindReady, Register, Registered, Dialled, BreakLink, config
            <3> QED  BY <3>1
        <2>2. CASE CyclePulls  BY <2>2 DEF CyclePulls, At
        <2>3. CASE RemovedInCycle \/ LeaveSpace \/ LeaveCutShort \/ Removed
            <3>1. space' = NoSpace /\ UNCHANGED hub /\ stored' \in {stored, {}} /\ enabled' \in {enabled, FALSE}
                BY <2>3 DEF RemovedInCycle, LeaveSpace, LeaveCutShort, Removed, LeaveAfterRemoval
            <3> QED  BY <3>1
        <2>4. CASE ChangeSettings
            <3>1. UNCHANGED <<space, stored>> /\ hub' \in Hub /\ enabled' \in BOOLEAN
                BY <2>4 DEF ChangeSettings
            <3> QED  BY <3>1
        <2>5. CASE \E g \in Space : CreateSpace(g)
            <3>1. space' \in Space /\ UNCHANGED <<hub, stored>> /\ enabled' = TRUE  BY <2>5 DEF CreateSpace
            <3> QED  BY <3>1
        <2>6. CASE \E g \in Space : \E h \in Hub : Join(g, h)
            <3>1. space' \in Space /\ hub' \in Hub /\ enabled' = TRUE  BY <2>6 DEF Join
            <3>2. stored' \subseteq stored \cup {space'}  BY <2>6 DEF Join
            <3> QED  BY <3>1, <3>2
        <2> QED  BY <2>1, <2>2, <2>3, <2>4, <2>5, <2>6
    <1>4. doing["cycle"].at = "pull" => doing["cycle"].space \in Space
        BY DoingTyped DEF Role, Served
    <1>5. enabled' \in BOOLEAN /\ hub' \in Hub /\ space' \in Space \cup {NoSpace} /\ stored' \subseteq Space
        BY <1>3, <1>4, ConfigTyped
    <1>6. watchWake \in BOOLEAN /\ cycleWake \in BOOLEAN /\ lanWake \in BOOLEAN  BY DEF LinkInv, ConfigShape
    <1>7. watchWake' \in BOOLEAN
        BY <1>6 DEF CloudActs, Look, Prepare, ForgetSession, WatcherFails, TakeWatchWake, CycleStarts, CyclePrepares, CyclePicks,
           CyclePulls, CycleFails, QueryLinked, QueryTimesOut, QueryAnswered, QueryFails, LanWorker, JoinEnds,
           ScanEnds, RemovedInCycle, QueryStarts, ChangeSettings, LeaveSpace, LeaveCutShort, Removed, JoinStarts,
           ScanStarts, Reconnect,
           FindReady, Register, Registered, Dialled, BreakLink, CreateSpace, Join, LeaveAfterRemoval, WakeAll, config, wakes
    <1>8. cycleWake' \in BOOLEAN
        BY <1>6 DEF CloudActs, Look, Prepare, ForgetSession, WatcherFails, TakeWatchWake, CycleStarts, CyclePrepares, CyclePicks,
           CyclePulls, CycleFails, QueryLinked, QueryTimesOut, QueryAnswered, QueryFails, LanWorker, JoinEnds,
           ScanEnds, RemovedInCycle, QueryStarts, ChangeSettings, LeaveSpace, LeaveCutShort, Removed, JoinStarts,
           ScanStarts, Reconnect,
           FindReady, Register, Registered, Dialled, BreakLink, CreateSpace, Join, LeaveAfterRemoval, WakeAll, config, wakes
    <1>9. lanWake' \in BOOLEAN
        BY <1>6 DEF CloudActs, Look, Prepare, ForgetSession, WatcherFails, TakeWatchWake, CycleStarts, CyclePrepares, CyclePicks,
           CyclePulls, CycleFails, QueryLinked, QueryTimesOut, QueryAnswered, QueryFails, LanWorker, JoinEnds,
           ScanEnds, RemovedInCycle, QueryStarts, ChangeSettings, LeaveSpace, LeaveCutShort, Removed, JoinStarts,
           ScanStarts, Reconnect,
           FindReady, Register, Registered, Dialled, BreakLink, CreateSpace, Join, LeaveAfterRemoval, WakeAll, config, wakes
    <1> QED  BY <1>2, <1>5, <1>7, <1>8, <1>9 DEF ConfigShape

LEMMA LinkServes == ASSUME LinkInv, [CloudNext]_cloudVars PROVE LinkInv'
    <1>1. ASSUME CloudActs PROVE LinkGood
        BY <1>1, LookStep, PrepareStep, ForgetStep, EndSteps, CycleStartsStep, CyclePreparesStep, CyclePicksStep,
           CyclePullsStep, RemovedInCycleStep, QueryStartsStep, QueryLinkedStep, QueryFailsStep, PlainSteps,
           LeaveSteps, CutShortStep, FindReadyStep, RegisterStep, RegisteredStep, DialledStep, CreateStep, JoinStep
           DEF CloudActs
    <1>2. CASE UNCHANGED cloudVars
        <2>1. /\ UNCHANGED <<space, stored, torn, hubKnows, doing>> /\ UNCHANGED linkState
              /\ UNCHANGED <<enabled, hub, watchWake, cycleWake, lanWake, turns>>
            BY <1>2 DEF cloudVars, config, wakes
        <2>2. LinkGood  BY <2>1, NoLinkBegins, AroundSteps
        <2>3. ConfigShape'  BY <2>1 DEF LinkInv, ConfigShape
        <2> QED  BY <2>2, <2>3 DEF LinkInv, LinkGood
    <1>3. CASE CloudNext
        BY <1>1, <1>3, CloudByName, ConfigStays DEF LinkInv, LinkGood
    <1> QED  BY <1>2, <1>3

\* What of it the checked properties say.
LEMMA LinkKept == ASSUME LinkInv PROVE CloudTypeOK /\ LinkSound
    <1>1. CloudTypeOK  BY LinkTyped DEF LinkInv, ConfigShape, CloudTypeOK, Sessions
    <1>2. \A r \in Role : doing[r].at \in {"watch", "pull", "ask"} /\ doing[r].link \in open
                      => doing[r].space \in hubKnows[leadsTo[doing[r].link]]
        BY DoingTyped DEF Served, Using, KnownOver, open, OpenIn
    <1> QED  BY <1>1, <1>2, ConfigTyped DEF LinkSound

----------------------------------------------------------------------------
\* The membership of a group. No mark of a ledger, or of an answer on its way, is newer than the clock:
\* a removal or a restoration by the user is newer than all that is known.

Marks(n) == [removed : 0 .. n, restored : 0 .. n]
Known(n) == [Member -> Marks(n)]
Replies(n) == [at : {"none", "here"}, list : Known(n)]

RoutesHold ==
    /\ now \in 0 .. MaxTime /\ ledger \in [Node -> Known(now)]
    /\ routes \in [Node -> SUBSET Member] /\ \A n \in Node : n \notin routes[n]
    /\ NoRouteToRemoved

GroupShape ==
    /\ inGroup \subseteq Member
    /\ welcomed \subseteq Member \X Member
    /\ \A p, d \in Member : <<p, d>> \in welcomed => p \in inGroup /\ p # d

MemberInv == RoutesHold /\ GroupShape /\ reply \in [Member -> [Path -> Replies(now)]]

MemberGood == MemberInv' /\ LedgersGrow

\* The cells, one by one.
LEMMA MemberTyped ==
    ASSUME MemberInv
    PROVE  /\ now \in 0 .. MaxTime /\ ledger \in [Node -> Known(now)] /\ routes \in [Node -> SUBSET Member]
           /\ \A n \in Node : n \notin routes[n] /\ routes[n] \cap RemovedIn(ledger[n]) = {}
           /\ reply \in [Member -> [Path -> Replies(now)]]
           /\ \A p \in Member, path \in Path : reply[p][path].list \in Known(now)
           /\ inGroup \subseteq Member /\ Member \subseteq Node /\ "hub" \in Node /\ "hub" \notin Member
    <1>1. reply \in [Member -> [Path -> Replies(now)]]  BY DEF MemberInv
    <1>2. \A p \in Member, path \in Path : reply[p][path].list \in Known(now)  BY <1>1 DEF Replies
    <1> QED  BY <1>1, <1>2, MembershipAssumption DEF MemberInv, RoutesHold, GroupShape, NoRouteToRemoved, Node

\* As time goes by what is known stays so.
LEMMA KnownLonger ==
    ASSUME NEW m \in Nat, NEW n \in Nat, m =< n
    PROVE  Marks(m) \subseteq Marks(n) /\ Known(m) \subseteq Known(n) /\ Replies(m) \subseteq Replies(n)
    <1>1. Marks(m) \subseteq Marks(n)  BY DEF Marks
    <1>2. Known(m) \subseteq Known(n)  BY <1>1 DEF Known
    <1> QED  BY <1>1, <1>2 DEF Replies

\* What is merged is nowhere older than either side.
LEMMA MergedTyped ==
    ASSUME NEW n \in Nat, NEW k \in Known(n), NEW l \in Known(n)
    PROVE  /\ Merged(k, l) \in Known(n)
           /\ \A d \in Member : Merged(k, l)[d].removed >= k[d].removed /\ Merged(k, l)[d].restored >= k[d].restored
    <1>1. ASSUME NEW d \in Member
          PROVE  /\ k[d] \in Marks(n) /\ l[d] \in Marks(n)
                 /\ Merged(k, l)[d] = [removed |-> Later(k[d].removed, l[d].removed),
                                       restored |-> Later(k[d].restored, l[d].restored)]
        BY DEF Known, Merged
    <1>2. \A i, j \in 0 .. n : Later(i, j) \in 0 .. n /\ Later(i, j) >= i  BY DEF Later
    <1>3. ASSUME NEW d \in Member
          PROVE  /\ Merged(k, l)[d] \in Marks(n)
                 /\ Merged(k, l)[d].removed >= k[d].removed /\ Merged(k, l)[d].restored >= k[d].restored
        <2>1. /\ k[d].removed \in 0 .. n /\ k[d].restored \in 0 .. n
              /\ l[d].removed \in 0 .. n /\ l[d].restored \in 0 .. n
            BY <1>1 DEF Marks
        <2> DEFINE i == Later(k[d].removed, l[d].removed)
                   j == Later(k[d].restored, l[d].restored)
        <2>2. i \in 0 .. n /\ i >= k[d].removed /\ j \in 0 .. n /\ j >= k[d].restored  BY <1>2, <2>1
        <2>3. Merged(k, l)[d] = [removed |-> i, restored |-> j]  BY <1>1
        <2> HIDE DEF i, j
        <2> QED  BY <2>2, <2>3 DEF Marks
    <1>4. Merged(k, l) = [d \in Member |-> Merged(k, l)[d]]  BY DEF Merged
    <1> QED  BY <1>3, <1>4 DEF Known

LEMMA MembersStart == MembershipInit => MemberInv
    <1> SUFFICES ASSUME MembershipInit PROVE MemberInv
        OBVIOUS
    <1>1. NoLedger \in Known(0)  BY DEF NoLedger, NoEntry, Known, Marks
    <1>2. RemovedIn(NoLedger) = {}  BY DEF RemovedIn, IsRemoved, NoLedger, NoEntry
    <1>3. NoReply \in Replies(0)  BY <1>1 DEF NoReply, Replies
    <1>4. now = 0 /\ 0 \in 0 .. MaxTime  BY MembershipAssumption DEF MembershipInit
    <1>5. RoutesHold
        <2>1. ledger \in [Node -> Known(now)] /\ \A n \in Node : ledger[n] = NoLedger
            BY <1>1, <1>4 DEF MembershipInit
        <2>2. routes \in [Node -> SUBSET Member] /\ \A n \in Node : n \notin routes[n]  BY DEF MembershipInit
        <2> QED  BY <1>2, <1>4, <2>1, <2>2 DEF RoutesHold, NoRouteToRemoved
    <1>6. GroupShape  BY DEF MembershipInit, GroupShape
    <1>7. reply \in [Member -> [Path -> Replies(now)]]  BY <1>3, <1>4 DEF MembershipInit
    <1> QED  BY <1>5, <1>6, <1>7 DEF MemberInv

\* A step that changes what one node knows and where it leads.
LEMMA OneNode ==
    ASSUME MemberInv, now' \in {now, now + 1}, now' =< MaxTime,
           NEW n \in Node, NEW l, NEW r \in SUBSET Member,
           l \in Known(now'), n \notin r, r \cap RemovedIn(l) = {},
           ledger' = [ledger EXCEPT ![n] = l], routes' = [routes EXCEPT ![n] = r],
           n \in inGroup' \cup {"hub"} /\ n \in inGroup \cup {"hub"} =>
               \A d \in Member : l[d].removed >= ledger[n][d].removed /\ l[d].restored >= ledger[n][d].restored
    PROVE  RoutesHold' /\ LedgersGrow
    <1>1. now \in Nat /\ now' \in 0 .. MaxTime /\ now =< now'  BY MemberTyped, MembershipAssumption
    <1>2. Known(now) \subseteq Known(now')  BY <1>1, KnownLonger
    <1>3. /\ ledger' \in [Node -> Known(now')] /\ ledger'[n] = l
          /\ \A m \in Node : m # n => ledger'[m] = ledger[m]
        BY <1>2, MemberTyped
    <1>4. /\ routes' \in [Node -> SUBSET Member] /\ routes'[n] = r
          /\ \A m \in Node : m # n => routes'[m] = routes[m]
        BY MemberTyped
    <1>5. NoRouteToRemoved'
        BY <1>3, <1>4, MemberTyped DEF NoRouteToRemoved, RemovedIn, IsRemoved
    <1>6. RoutesHold'
        <2>1. \A m \in Node : m \notin routes'[m]  BY <1>4, MemberTyped
        <2> QED  BY <1>1, <1>3, <1>4, <1>5, <2>1 DEF RoutesHold
    <1>7. \A m \in Node, d \in Member : ledger[m][d].removed \in Int /\ ledger[m][d].restored \in Int
        BY MemberTyped DEF Known, Marks
    <1>8. LedgersGrow  BY <1>3, <1>7 DEF LedgersGrow
    <1> QED  BY <1>6, <1>8

\* A step that changes no ledger and takes no route to a device that is removed.
LEMMA LedgersStay ==
    ASSUME MemberInv, now' = now, ledger' = ledger, routes' \in [Node -> SUBSET Member],
           \A n \in Node : n \notin routes'[n] /\ routes'[n] \cap RemovedIn(ledger[n]) = {}
    PROVE  RoutesHold' /\ LedgersGrow
    <1>1. \A m \in Node, d \in Member : ledger[m][d].removed \in Int /\ ledger[m][d].restored \in Int
        BY MemberTyped DEF Known, Marks
    <1>2. LedgersGrow  BY <1>1 DEF LedgersGrow
    <1> QED  BY <1>2, MemberTyped DEF RoutesHold, NoRouteToRemoved

\* The answers on their way stay, as time goes by.
LEMMA RepliesStay ==
    ASSUME MemberInv, now' \in {now, now + 1}, reply' = reply
    PROVE  reply' \in [Member -> [Path -> Replies(now')]]
    <1>1. now \in Nat /\ now' \in Nat /\ now =< now'  BY MemberTyped, MembershipAssumption
    <1>2. Replies(now) \subseteq Replies(now')  BY <1>1, KnownLonger
    <1> QED  BY <1>2, MemberTyped

\* One mark of a device set to the new time is above all that is known of it.
LEMMA MarkSet ==
    ASSUME MemberInv, Tick, NEW n \in Node, NEW d \in Member,
           NEW l \in {[ledger[n] EXCEPT ![d].removed = now + 1], [ledger[n] EXCEPT ![d].restored = now + 1]}
    PROVE  /\ l \in Known(now')
           /\ \A e \in Member : l[e].removed >= ledger[n][e].removed /\ l[e].restored >= ledger[n][e].restored
           /\ \A e \in Member : e # d => l[e] = ledger[n][e]
           /\ l = [ledger[n] EXCEPT ![d].restored = now + 1] => ~IsRemoved(l, d)
    <1>1. now \in Nat /\ now' = now + 1  BY MemberTyped, MembershipAssumption DEF Tick
    <1>2. ledger[n] \in [Member -> Marks(now)]  BY MemberTyped DEF Known
    <1>3. /\ ledger[n][d] \in Marks(now)
          /\ ledger[n][d].removed \in 0 .. now /\ ledger[n][d].restored \in 0 .. now
        BY <1>2 DEF Marks
    <1>4. PICK x \in {[ledger[n][d] EXCEPT !.removed = now + 1], [ledger[n][d] EXCEPT !.restored = now + 1]} :
              /\ l = [ledger[n] EXCEPT ![d] = x]
              /\ l = [ledger[n] EXCEPT ![d].restored = now + 1]
                     => l = [ledger[n] EXCEPT ![d] = [ledger[n][d] EXCEPT !.restored = now + 1]]
        <2>1. [ledger[n] EXCEPT ![d].removed = now + 1] = [ledger[n] EXCEPT ![d] = [ledger[n][d] EXCEPT !.removed = now + 1]]
            OBVIOUS
        <2>2. [ledger[n] EXCEPT ![d].restored = now + 1] = [ledger[n] EXCEPT ![d] = [ledger[n][d] EXCEPT !.restored = now + 1]]
            OBVIOUS
        <2> QED  BY <2>1, <2>2
    <1>5. x \in Marks(now + 1) /\ x.removed >= ledger[n][d].removed /\ x.restored >= ledger[n][d].restored
        BY <1>1, <1>3, <1>4 DEF Marks
    <1>6. Marks(now) \subseteq Marks(now + 1)  BY <1>1, KnownLonger
    <1>7. l[d] = x /\ \A e \in Member : e # d => l[e] = ledger[n][e]  BY <1>2, <1>4
    <1>8. l \in Known(now')  BY <1>1, <1>2, <1>4, <1>5, <1>6 DEF Known
    <1>9. \A e \in Member : l[e].removed >= ledger[n][e].removed /\ l[e].restored >= ledger[n][e].restored
        <2>1. \A e \in Member : ledger[n][e].removed \in Int /\ ledger[n][e].restored \in Int  BY <1>2 DEF Marks
        <2> QED  BY <1>5, <1>7, <2>1
    <1>10. ASSUME l = [ledger[n] EXCEPT ![d].restored = now + 1] PROVE ~IsRemoved(l, d)
        <2>1. l[d] = [ledger[n][d] EXCEPT !.restored = now + 1]  BY <1>2, <1>4, <1>10
        <2>2. l[d].removed = ledger[n][d].removed /\ l[d].restored = now + 1  BY <1>3, <2>1 DEF Marks
        <2> QED  BY <1>1, <1>3, <2>2 DEF IsRemoved
    <1> QED  BY <1>7, <1>8, <1>9, <1>10

\* The user's removal goes with the route.
LEMMA RemovePeerStep == ASSUME MemberInv, NEW p \in Member, NEW d \in Member, RemovePeer(p, d) PROVE MemberGood
    <1> DEFINE l == [ledger[p] EXCEPT ![d].removed = now + 1]
    <1>1. /\ p \in inGroup /\ Tick /\ UNCHANGED <<inGroup, reply, welcomed>>
          /\ ledger' = [ledger EXCEPT ![p] = l] /\ routes' = [routes EXCEPT ![p] = routes[p] \ {d}]
        BY DEF RemovePeer
    <1>2. p \in Node /\ now' \in {now, now + 1} /\ now' =< MaxTime
        BY <1>1, MemberTyped, MembershipAssumption DEF Tick
    <1>3. /\ l \in Known(now') /\ \A e \in Member : e # d => l[e] = ledger[p][e]
          /\ \A e \in Member : l[e].removed >= ledger[p][e].removed /\ l[e].restored >= ledger[p][e].restored
        BY <1>1, <1>2, MarkSet
    <1> HIDE DEF l
    <1>4. (routes[p] \ {d}) \cap RemovedIn(l) = {} /\ p \notin routes[p] \ {d} /\ routes[p] \ {d} \in SUBSET Member
        BY <1>2, <1>3, MemberTyped DEF RemovedIn, IsRemoved
    <1>5. RoutesHold' /\ LedgersGrow  BY <1>1, <1>2, <1>3, <1>4, OneNode
    <1>6. GroupShape'  BY <1>1 DEF MemberInv, GroupShape
    <1> QED  BY <1>1, <1>2, <1>5, <1>6, RepliesStay DEF MemberGood, MemberInv

LEMMA WelcomeStep == ASSUME MemberInv, NEW p \in Member, NEW d \in Member, Welcome(p, d) PROVE MemberGood
    <1> DEFINE l == [ledger[d] EXCEPT ![p].restored = now + 1]
    <1>1. /\ p \in inGroup /\ d # p /\ Tick /\ inGroup' = inGroup \cup {d} /\ reply' = reply
          /\ ledger' = [ledger EXCEPT ![d] = l] /\ routes' = [routes EXCEPT ![d] = routes[d] \cup {p}]
          /\ welcomed' = welcomed \cup {<<p, d>>}
        BY DEF Welcome
    <1>2. d \in Node /\ now' \in {now, now + 1} /\ now' =< MaxTime
        BY <1>1, MemberTyped, MembershipAssumption DEF Tick
    <1>3. /\ l \in Known(now') /\ \A e \in Member : e # p => l[e] = ledger[d][e]
          /\ \A e \in Member : l[e].removed >= ledger[d][e].removed /\ l[e].restored >= ledger[d][e].restored
          /\ ~IsRemoved(l, p)
        BY <1>1, <1>2, MarkSet
    <1> HIDE DEF l
    <1>4. /\ (routes[d] \cup {p}) \cap RemovedIn(l) = {} /\ d \notin routes[d] \cup {p}
          /\ routes[d] \cup {p} \in SUBSET Member
        BY <1>1, <1>2, <1>3, MemberTyped DEF RemovedIn, IsRemoved
    <1>5. RoutesHold' /\ LedgersGrow  BY <1>1, <1>2, <1>3, <1>4, OneNode
    <1>6. GroupShape'  BY <1>1 DEF MemberInv, GroupShape
    <1> QED  BY <1>1, <1>2, <1>5, <1>6, RepliesStay DEF MemberGood, MemberInv

LEMMA RestoreStep == ASSUME MemberInv, NEW p \in Member, NEW d \in Member, Restore(p, d) PROVE MemberGood
    <1> DEFINE l == [ledger[p] EXCEPT ![d].restored = now + 1]
    <1>1. /\ <<p, d>> \in welcomed /\ Tick /\ UNCHANGED <<inGroup, reply>> /\ welcomed' = welcomed \ {<<p, d>>}
          /\ ledger' = [ledger EXCEPT ![p] = l]
          /\ routes' = [routes EXCEPT ![p] = IF IsRemoved(ledger'[p], d) THEN routes[p] ELSE routes[p] \cup {d}]
        BY DEF Restore
    <1>2. p \in Node /\ now' \in {now, now + 1} /\ now' =< MaxTime /\ p \in inGroup /\ p # d
        BY <1>1, MemberTyped, MembershipAssumption DEF Tick, MemberInv, GroupShape
    <1>3. /\ l \in Known(now') /\ \A e \in Member : e # d => l[e] = ledger[p][e]
          /\ \A e \in Member : l[e].removed >= ledger[p][e].removed /\ l[e].restored >= ledger[p][e].restored
          /\ ~IsRemoved(l, d)
        BY <1>1, <1>2, MarkSet
    <1> HIDE DEF l
    <1>4. routes' = [routes EXCEPT ![p] = routes[p] \cup {d}]
        BY <1>1, <1>2, <1>3, MemberTyped
    <1>5. /\ (routes[p] \cup {d}) \cap RemovedIn(l) = {} /\ p \notin routes[p] \cup {d}
          /\ routes[p] \cup {d} \in SUBSET Member
        BY <1>2, <1>3, MemberTyped DEF RemovedIn, IsRemoved
    <1>6. RoutesHold' /\ LedgersGrow  BY <1>1, <1>2, <1>3, <1>4, <1>5, OneNode
    <1>7. GroupShape'  BY <1>1 DEF MemberInv, GroupShape
    <1> QED  BY <1>1, <1>2, <1>6, <1>7, RepliesStay DEF MemberGood, MemberInv

\* What a node is told it merges, and it gives up the routes of the removed.
LEMMA TakenIn ==
    ASSUME MemberInv, NEW n \in Node, NEW t \in Known(now), TakesIn(n, t), now' = now
    PROVE  RoutesHold' /\ LedgersGrow
    <1> DEFINE l == Merged(ledger[n], t)
               r == routes[n] \ RemovedIn(l)
    <1>1. now \in Nat /\ ledger[n] \in Known(now)  BY MemberTyped, MembershipAssumption
    <1>2. /\ l \in Known(now)
          /\ \A d \in Member : l[d].removed >= ledger[n][d].removed /\ l[d].restored >= ledger[n][d].restored
        BY <1>1, MergedTyped
    <1>3. ledger' = [ledger EXCEPT ![n] = l] /\ ledger'[n] = l  BY MemberTyped DEF TakesIn
    <1>4. routes' = [routes EXCEPT ![n] = r]  BY <1>3 DEF TakesIn
    <1> HIDE DEF l
    <1>5. r \in SUBSET Member /\ n \notin r /\ r \cap RemovedIn(l) = {}  BY MemberTyped
    <1>6. now' \in {now, now + 1} /\ now' =< MaxTime  BY MemberTyped, MembershipAssumption
    <1> HIDE DEF r
    <1> QED  BY <1>2, <1>3, <1>4, <1>5, <1>6, OneNode

\* Who leaves keeps nothing, and promises nothing.
LEMMA LeftAlone ==
    ASSUME MemberInv, NEW d \in Member, GoneFrom(d), now' = now
    PROVE  RoutesHold' /\ LedgersGrow /\ GroupShape'
    <1>1. now \in Nat /\ d \in Node  BY MemberTyped, MembershipAssumption
    <1>2. NoLedger \in Known(now)  BY <1>1 DEF NoLedger, NoEntry, Known, Marks
    <1>3. {} \cap RemovedIn(NoLedger) = {} /\ d \notin {}  OBVIOUS
    <1>4. d \notin inGroup' \cup {"hub"}  BY MemberTyped DEF GoneFrom
    <1>5. now' \in {now, now + 1} /\ now' =< MaxTime  BY MemberTyped, MembershipAssumption
    <1>6. ledger' = [ledger EXCEPT ![d] = NoLedger] /\ routes' = [routes EXCEPT ![d] = {}]  BY DEF GoneFrom
    <1>7. RoutesHold' /\ LedgersGrow
        <2> HIDE DEF NoLedger
        <2> QED  BY <1>1, <1>2, <1>3, <1>4, <1>5, <1>6, OneNode
    <1>8. GroupShape'
        <2>1. inGroup' = inGroup \ {d} /\ welcomed' = {w \in welcomed : w[1] # d}  BY DEF GoneFrom
        <2> QED  BY <2>1 DEF MemberInv, GroupShape
    <1> QED  BY <1>7, <1>8

\* What is answered is typed as the ledgers are.
LEMMA RepliesTyped ==
    ASSUME MemberInv, now' = now, NEW p \in Member, NEW path \in Path, NEW x \in Replies(now),
           reply' = [reply EXCEPT ![p][path] = x]
    PROVE  reply' \in [Member -> [Path -> Replies(now')]]
    <1>1. reply' = [reply EXCEPT ![p] = [reply[p] EXCEPT ![path] = x]]  OBVIOUS
    <1>2. reply[p] \in [Path -> Replies(now)]  BY MemberTyped
    <1>3. [reply[p] EXCEPT ![path] = x] \in [Path -> Replies(now)]  BY <1>2
    <1> QED  BY <1>1, <1>3, MemberTyped

LEMMA GroupStays == ASSUME MemberInv, UNCHANGED <<inGroup, welcomed>> PROVE GroupShape'
    BY DEF MemberInv, GroupShape

LEMMA UserLeavesStep == ASSUME MemberInv, NEW d \in Member, Leave(d) PROVE MemberGood
    <1>1. GoneFrom(d) /\ now' = now /\ reply' = reply  BY DEF Leave
    <1>2. now' \in {now, now + 1}  BY <1>1
    <1> QED  BY <1>1, <1>2, LeftAlone, RepliesStay DEF MemberGood, MemberInv

LEMMA AskHubStep == ASSUME MemberInv, NEW p \in Member, AskHub(p) PROVE MemberGood
    <1>1. /\ UNCHANGED <<ledger, routes>> \/ TakesIn("hub", ledger[p])
          /\ reply' = [reply EXCEPT ![p]["cloud"] = [at |-> "here", list |-> ledger'["hub"]]]
          /\ now' = now /\ UNCHANGED <<inGroup, welcomed>>
        BY DEF AskHub, Answered
    <1>2. "hub" \in Node /\ p \in Node /\ ledger[p] \in Known(now)  BY MemberTyped
    <1>3. RoutesHold' /\ LedgersGrow
        <2>1. CASE UNCHANGED <<ledger, routes>>  BY <1>1, <2>1, LedgersStay, MemberTyped
        <2>2. CASE TakesIn("hub", ledger[p])  BY <1>1, <1>2, <2>2, TakenIn
        <2> QED  BY <1>1, <2>1, <2>2
    <1>4. ledger'["hub"] \in Known(now)  BY <1>1, <1>2, <1>3 DEF RoutesHold
    <1>5. [at |-> "here", list |-> ledger'["hub"]] \in Replies(now)  BY <1>4 DEF Replies
    <1>6. "cloud" \in Path  BY DEF Path
    <1>7. reply' \in [Member -> [Path -> Replies(now')]]
        <2> DEFINE x == [at |-> "here", list |-> ledger'["hub"]]
        <2>1. x \in Replies(now) /\ reply' = [reply EXCEPT ![p]["cloud"] = x]  BY <1>1, <1>5
        <2> HIDE DEF x
        <2> QED  BY <1>1, <1>6, <2>1, RepliesTyped
    <1> QED  BY <1>1, <1>3, <1>7, GroupStays DEF MemberGood, MemberInv

LEMMA AskPeerStep == ASSUME MemberInv, NEW p \in Member, NEW q \in Member, AskPeer(p, q) PROVE MemberGood
    <1> DEFINE told == IF IsRemoved(ledger[q], p) THEN ledger[q] ELSE Merged(ledger[q], ledger[p])
               x == [at |-> "here", list |-> told]
    <1>1. /\ reply' = [reply EXCEPT ![p]["lan"] = x] /\ now' = now
          /\ \/ GoneFrom(q)
             \/ UNCHANGED <<ledger, routes, inGroup, welcomed>>
             \/ TakesIn(q, ledger[p]) /\ UNCHANGED <<inGroup, welcomed>>
        BY DEF AskPeer, Answered
    <1>2. /\ q \in Node /\ p \in Node /\ now \in Nat /\ "lan" \in Path
          /\ ledger[p] \in Known(now) /\ ledger[q] \in Known(now)
        BY MemberTyped, MembershipAssumption DEF Path
    <1>3. told \in Known(now)  BY <1>2, MergedTyped
    <1> HIDE DEF told
    <1>4. x \in Replies(now)  BY <1>3 DEF Replies
    <1> HIDE DEF x
    <1>5. reply' \in [Member -> [Path -> Replies(now')]]  BY <1>1, <1>2, <1>4, RepliesTyped
    <1>6. RoutesHold' /\ LedgersGrow /\ GroupShape'
        <2>1. CASE GoneFrom(q)  BY <1>1, <2>1, LeftAlone
        <2>2. CASE UNCHANGED <<ledger, routes, inGroup, welcomed>>
            BY <1>1, <2>2, LedgersStay, GroupStays, MemberTyped
        <2>3. CASE TakesIn(q, ledger[p]) /\ UNCHANGED <<inGroup, welcomed>>
            BY <1>1, <1>2, <2>3, TakenIn, GroupStays
        <2> QED  BY <1>1, <2>1, <2>2, <2>3
    <1> QED  BY <1>5, <1>6 DEF MemberGood, MemberInv

LEMMA LearnStep == ASSUME MemberInv, NEW p \in Member, NEW path \in Path, Learn(p, path) PROVE MemberGood
    <1>1. /\ reply' = [reply EXCEPT ![p][path] = NoReply] /\ now' = now
          /\ \/ GoneFrom(p)
             \/ TakesIn(p, reply[p][path].list) /\ UNCHANGED <<inGroup, welcomed>>
        BY DEF Learn, Merges
    <1>2. p \in Node /\ now \in Nat /\ reply[p][path].list \in Known(now)
        BY MemberTyped, MembershipAssumption
    <1>3. NoReply \in Replies(now)  BY <1>2 DEF NoReply, Replies, NoLedger, NoEntry, Known, Marks
    <1>4. reply' \in [Member -> [Path -> Replies(now')]]
        <2> HIDE DEF NoReply
        <2> QED  BY <1>1, <1>3, RepliesTyped
    <1>5. RoutesHold' /\ LedgersGrow /\ GroupShape'
        <2>1. CASE GoneFrom(p)  BY <1>1, <2>1, LeftAlone
        <2>2. CASE TakesIn(p, reply[p][path].list) /\ UNCHANGED <<inGroup, welcomed>>
            BY <1>1, <1>2, <2>2, TakenIn, GroupStays
        <2> QED  BY <1>1, <2>1, <2>2
    <1> QED  BY <1>4, <1>5 DEF MemberGood, MemberInv

\* The two ways routes come without a ledger.
LEMMA AnnounceStep == ASSUME MemberInv, NEW p \in Member, Announce(p) PROVE MemberGood
    <1> DEFINE r == (routes[p] \cup (routes["hub"] \ {p})) \ RemovedIn(ledger[p])
               h == routes["hub"] \cup {p}
    <1>1. /\ ~IsRemoved(ledger["hub"], p) /\ routes' = [routes EXCEPT !["hub"] = h, ![p] = r]
          /\ now' = now /\ ledger' = ledger /\ reply' = reply /\ UNCHANGED <<inGroup, welcomed>>
        BY DEF Announce
    <1>2. p # "hub" /\ p \in Node /\ "hub" \in Node /\ "hub" \notin Member  BY MemberTyped
    <1>3. r \subseteq Member /\ p \notin r /\ r \cap RemovedIn(ledger[p]) = {}  BY <1>2, MemberTyped
    <1>4. h \subseteq Member /\ "hub" \notin h /\ h \cap RemovedIn(ledger["hub"]) = {}
        BY <1>1, <1>2, MemberTyped DEF RemovedIn
    <1> HIDE DEF r, h
    <1>5. /\ routes' \in [Node -> SUBSET Member] /\ routes'[p] = r /\ routes'["hub"] = h
          /\ \A n \in Node \ {p, "hub"} : routes'[n] = routes[n]
        BY <1>1, <1>2, <1>3, <1>4, MemberTyped
    <1>6. \A n \in Node : n \notin routes'[n] /\ routes'[n] \cap RemovedIn(ledger[n]) = {}
        BY <1>3, <1>4, <1>5, MemberTyped
    <1>7. RoutesHold' /\ LedgersGrow  BY <1>1, <1>5, <1>6, LedgersStay
    <1>8. now' \in {now, now + 1}  BY <1>1
    <1> QED  BY <1>1, <1>7, <1>8, GroupStays, RepliesStay DEF MemberGood, MemberInv

LEMMA GreetedStep == ASSUME MemberInv, NEW p \in Member, NEW q \in Member, Greeted(p, q) PROVE MemberGood
    <1> DEFINE r == routes[p] \cup ({q} \ {p})
    <1>1. /\ ~IsRemoved(ledger[p], q) /\ routes' = [routes EXCEPT ![p] = r]
          /\ now' = now /\ ledger' = ledger /\ reply' = reply /\ UNCHANGED <<inGroup, welcomed>>
        BY DEF Greeted
    <1>2. p \in Node  BY MemberTyped
    <1>3. r \subseteq Member /\ p \notin r /\ r \cap RemovedIn(ledger[p]) = {}
        BY <1>1, <1>2, MemberTyped DEF RemovedIn
    <1> HIDE DEF r
    <1>4. /\ routes' \in [Node -> SUBSET Member] /\ routes'[p] = r
          /\ \A n \in Node : n # p => routes'[n] = routes[n]
        BY <1>1, <1>2, <1>3, MemberTyped
    <1>5. \A n \in Node : n \notin routes'[n] /\ routes'[n] \cap RemovedIn(ledger[n]) = {}
        BY <1>3, <1>4, MemberTyped
    <1>6. RoutesHold' /\ LedgersGrow  BY <1>1, <1>4, <1>5, LedgersStay
    <1>7. now' \in {now, now + 1}  BY <1>1
    <1> QED  BY <1>1, <1>6, <1>7, GroupStays, RepliesStay DEF MemberGood, MemberInv

LEMMA MemberKeeps == ASSUME MemberInv, [MembershipNext]_memberVars PROVE MemberGood
    <1>1. CASE UNCHANGED memberVars
        <2>1. UNCHANGED <<now, ledger, routes, inGroup, reply, welcomed>>  BY <1>1 DEF memberVars
        <2>2. RoutesHold' /\ LedgersGrow  BY <2>1, LedgersStay, MemberTyped
        <2>3. now' \in {now, now + 1}  BY <2>1
        <2> QED  BY <2>1, <2>2, <2>3, GroupStays, RepliesStay DEF MemberGood, MemberInv
    <1>2. CASE MembershipNext
        <2>1. "cloud" \in Path /\ "lan" \in Path  BY DEF Path
        <2>2. PICK p \in Member :
                \/ Exchange(p) \/ Announce(p) \/ Leave(p)
                \/ \E d \in Member :
                    RemovePeer(p, d) \/ Welcome(p, d) \/ Restore(p, d) \/ AskPeer(p, d) \/ Greeted(p, d)
            BY <1>2 DEF MembershipNext
        <2> QED  BY <2>1, <2>2, AskHubStep, LearnStep, AnnounceStep, UserLeavesStep, RemovePeerStep, WelcomeStep,
                    RestoreStep, AskPeerStep, GreetedStep DEF Exchange
    <1> QED  BY <1>1, <1>2

\* What of it the checked properties say.
LEMMA MemberKept == ASSUME MemberInv PROVE MembershipTypeOK /\ NoRouteToRemoved
    <1>1. \A n \in Node, d \in Member : ledger[n][d].removed \in 0 .. now /\ ledger[n][d].restored \in 0 .. now
        BY MemberTyped DEF Known, Marks
    <1>2. \A d \in Member, path \in Path : reply[d][path].at \in {"none", "here"}
        BY MemberTyped DEF Replies
    <1>3. welcomed \subseteq inGroup \X Member  BY DEF MemberInv, GroupShape
    <1> QED  BY <1>1, <1>2, <1>3, MemberTyped DEF MembershipTypeOK, MemberInv, RoutesHold

----------------------------------------------------------------------------
\* Receiving. The pages hold what lies between the cursor and where it is to move; the pass works on
\* content that is received and applied nowhere yet; and what is known of an item is the newest of the
\* valid events received of it that were applied or are being applied, whose row is there or on its way.

Entries == [at : {"unknown", "pending", "applied", "rejected"}, due : BOOLEAN, failed : BOOLEAN]
Pages == [at : {"none", "here", "stored"}, events : SUBSET Event, latest : Nat, more : BOOLEAN]
Passes == [by : Caller \cup {"nobody"}, at : {"none", "deletions", "content", "written"},
           batch : SUBSET Event, files : SUBSET Event, mark : Nat, progress : BOOLEAN]
Presences == [version : Nat, present : BOOLEAN]

InboxRight ==
    /\ inbox \in [Event -> Entries] /\ place \in [Event -> Nat] /\ newest \in Nat
    /\ \A e \in Event :
        /\ place[e] =< newest /\ (inbox[e].at = "unknown") = (place[e] = 0)
        /\ inbox[e].at = "pending" /\ ~inbox[e].due => inbox[e].failed
        /\ inbox[e].at = "rejected" => e \in Invalid
        /\ inbox[e].at = "applied" => e \notin Invalid
    /\ \A e, f \in Event : place[e] = place[f] /\ place[e] # 0 => e = f

PagesRight ==
    /\ pulled \in [Source -> Nat] /\ page \in [Caller -> Pages]
    /\ \A s \in Source :
        /\ pulled[s] =< Len(LogOf[s])
        /\ page[s].at = "here" =>
            /\ page[s].latest \in pulled[s] .. Len(LogOf[s])
            /\ \A i \in pulled[s] + 1 .. page[s].latest : LogOf[s][i] \in page[s].events
    /\ NothingMissed

PassShape ==
    /\ pass \in Passes
    /\ pass = NoPass \/ (pass.at # "none" /\ pass.by \in Caller /\ page[pass.by].at = "stored")
    /\ pass.mark =< newest

\* The pass' own content; the files of it have merged their presence.
PassRight ==
    /\ pass.at = "deletions" => pass.batch = {} /\ pass.files = {}
    /\ pass.at = "written" => pass.batch = {}
    /\ pass.batch \cap pass.files = {}
    /\ \A e \in pass.batch \cup pass.files : e \notin Deletes /\ e \notin Invalid /\ inbox[e].at = "pending"
    /\ \A e \in pass.files : known[About[e]].present /\ Version[e] =< known[About[e]].version
    /\ pass.at = "written" => \A e \in pass.files : First(e, pass.files) => rows[About[e]] = 1

\* No deletion that was there when content was read is left, unless it failed.
PassAfterDeletions ==
    pass.at \in {"content", "written"} =>
        \A d \in Deletes \ Invalid : place[d] \in 1 .. pass.mark /\ inbox[d].at = "pending" => inbox[d].failed

Brings(e, k) == e \in Event \ Invalid /\ About[e] = k /\ inbox[e].at # "unknown"

ItemsRight ==
    /\ known \in [Item -> Presences] /\ rows \in [Item -> 0 .. 1]
    /\ \A k \in Item :
        /\ known[k].version = 0 => known[k].present
        /\ known[k].version > 0 =>
            \E e \in Event : Brings(e, k) /\ Version[e] = known[k].version /\ known[k].present = (e \notin Deletes)
        /\ ~known[k].present => rows[k] = 0
    /\ \A e \in Event : inbox[e].at = "applied" =>
        /\ Version[e] =< known[About[e]].version
        /\ e \notin Deletes /\ Version[e] = known[About[e]].version => rows[About[e]] = 1

RecvInv == InboxRight /\ PagesRight /\ PassShape /\ PassRight /\ PassAfterDeletions /\ ItemsRight

RecvGood == RecvInv' /\ ShownUndeleted

\* The cells, one by one.
LEMMA RecvTyped ==
    ASSUME RecvInv
    PROVE  /\ \A e \in Event :
                /\ inbox[e] \in Entries /\ inbox[e].at \in {"unknown", "pending", "applied", "rejected"}
                /\ inbox[e].due \in BOOLEAN /\ inbox[e].failed \in BOOLEAN
                /\ place[e] \in Nat /\ About[e] \in Item /\ Version[e] \in Nat \ {0}
           /\ \A k \in Item : /\ known[k] \in Presences /\ known[k].version \in Nat /\ known[k].present \in BOOLEAN
                              /\ rows[k] \in 0 .. 1
           /\ newest \in Nat /\ pass.mark \in Nat /\ Deletes \subseteq Event
           /\ pass.batch \subseteq Event /\ pass.files \subseteq Event
           /\ \A c \in Caller : page[c] \in Pages /\ page[c].events \subseteq Event
    <1>1. \A e \in Event : inbox[e] \in Entries /\ place[e] \in Nat  BY DEF RecvInv, InboxRight
    <1>2. \A e \in Event : /\ inbox[e].at \in {"unknown", "pending", "applied", "rejected"}
                           /\ inbox[e].due \in BOOLEAN /\ inbox[e].failed \in BOOLEAN
        BY <1>1 DEF Entries
    <1>3. \A k \in Item : known[k] \in Presences /\ rows[k] \in 0 .. 1  BY DEF RecvInv, ItemsRight
    <1>4. \A k \in Item : known[k].version \in Nat /\ known[k].present \in BOOLEAN  BY <1>3 DEF Presences
    <1>5. pass \in Passes /\ newest \in Nat /\ page \in [Caller -> Pages]
        BY DEF RecvInv, PassShape, InboxRight, PagesRight
    <1>6. \A c \in Caller : page[c] \in Pages /\ page[c].events \subseteq Event  BY <1>5 DEF Pages
    <1>7. pass.mark \in Nat /\ pass.batch \subseteq Event /\ pass.files \subseteq Event  BY <1>5 DEF Passes
    <1> QED  BY <1>1, <1>2, <1>3, <1>4, <1>5, <1>6, <1>7, ReceiveAssumption

\* The logs hold events.
LEMMA LogTyped ==
    ASSUME NEW s \in Source
    PROVE  Len(LogOf[s]) \in Nat /\ s # Push /\ s \in Caller /\ \A i \in 1 .. Len(LogOf[s]) : LogOf[s][i] \in Event
    <1>1. LogOf[s] \in Seq(Event)  BY ReceiveAssumption
    <1> QED  BY <1>1, ReceiveAssumption DEF Caller

LEMMA ReceiveStarts == ReceiveInit => RecvInv
    <1> SUFFICES ASSUME ReceiveInit PROVE RecvInv
        OBVIOUS
    <1>1. InboxRight  BY DEF ReceiveInit, InboxRight, Entries
    <1>2. PagesRight
        <2>1. NoPage \in Pages /\ NoPage.at = "none"  BY DEF NoPage, Pages
        <2>2. \A s \in Source : Len(LogOf[s]) \in Nat /\ s \in Caller  BY LogTyped
        <2>3. NothingMissed  BY DEF ReceiveInit, NothingMissed
        <2> QED  BY <2>1, <2>2, <2>3 DEF ReceiveInit, PagesRight
    <1>3. NoPass \in Passes /\ NoPass.mark = 0 /\ NoPass.at = "none" /\ NoPass.batch = {} /\ NoPass.files = {}
        BY DEF NoPass, Passes
    <1>4. PassShape /\ PassRight /\ PassAfterDeletions
        <2>1. pass = NoPass /\ newest = 0  BY DEF ReceiveInit
        <2> HIDE DEF NoPass
        <2> QED  BY <1>3, <2>1 DEF PassShape, PassRight, PassAfterDeletions
    <1>5. ItemsRight  BY DEF ReceiveInit, ItemsRight, Presences
    <1> QED  BY <1>1, <1>2, <1>4, <1>5 DEF RecvInv

\* What is stored is told by its entry alone.
LEMMA OneEntry ==
    ASSUME RecvInv, UNCHANGED <<place, newest>>, NEW e \in Event, inbox[e].at # "unknown",
           NEW x \in Entries, x.at # "unknown", inbox' = [inbox EXCEPT ![e] = x],
           x.at = "pending" => x.due \/ x.failed,
           x.at = "rejected" => e \in Invalid,
           x.at = "applied" => e \notin Invalid
    PROVE  InboxRight' /\ inbox'[e] = x /\ \A f \in Event : f # e => inbox'[f] = inbox[f]
    <1>1. inbox' \in [Event -> Entries] /\ inbox'[e] = x /\ \A f \in Event : f # e => inbox'[f] = inbox[f]
        BY DEF RecvInv, InboxRight
    <1> QED  BY <1>1 DEF RecvInv, InboxRight

\* What is stored stays so, and the cursors with it.
LEMMA PagesStay ==
    ASSUME RecvInv, pulled' = pulled, page' \in [Caller -> Pages], banned \subseteq banned',
           \A s \in Source : page'[s].at = "here" => page'[s] = page[s],
           \A e \in Event : inbox[e].at # "unknown" => inbox'[e].at # "unknown"
    PROVE  PagesRight'
    <1>1. \A s \in Source : \A i \in 1 .. pulled[s] :
              inbox'[LogOf[s][i]].at # "unknown" \/ From[LogOf[s][i]] \in banned'
        <2> SUFFICES ASSUME NEW s \in Source, NEW i \in 1 .. pulled[s]
                     PROVE  inbox'[LogOf[s][i]].at # "unknown" \/ From[LogOf[s][i]] \in banned'
            OBVIOUS
        <2>1. pulled[s] \in Nat /\ pulled[s] =< Len(LogOf[s])  BY DEF RecvInv, PagesRight
        <2>2. LogOf[s][i] \in Event  BY <2>1, LogTyped
        <2>3. inbox[LogOf[s][i]].at # "unknown" \/ From[LogOf[s][i]] \in banned
            BY DEF RecvInv, PagesRight, NothingMissed
        <2> QED  BY <2>2, <2>3
    <1>2. NothingMissed'  BY <1>1 DEF NothingMissed
    <1> QED  BY <1>2 DEF RecvInv, PagesRight

\* Nobody looks at the events.
LEMMA EventsStay ==
    ASSUME RecvInv, UNCHANGED <<inbox, place, newest, known, rows>>
    PROVE  InboxRight' /\ ItemsRight' /\ ShownUndeleted
    <1>1. InboxRight'  BY DEF RecvInv, InboxRight
    <1>2. ItemsRight'  BY DEF RecvInv, ItemsRight, Brings
    <1>3. ShownUndeleted  BY RecvTyped DEF ShownUndeleted
    <1> QED  BY <1>1, <1>2, <1>3

\* The pass keeps what it works on.
LEMMA PassStays ==
    ASSUME RecvInv, pass' = pass, newest' >= newest, newest' \in Nat, UNCHANGED <<known, rows>>,
           pass = NoPass \/ page'[pass.by].at = "stored",
           \A e \in Event : inbox[e].at # "unknown" => place'[e] = place[e] /\ inbox'[e].at = inbox[e].at,
           \A e \in Event : inbox'[e].failed = inbox[e].failed \/ place'[e] > newest \/ inbox'[e].failed,
           \A e \in Event : inbox[e].at = "unknown" /\ inbox'[e].at # "unknown" => place'[e] > newest
    PROVE  PassShape' /\ PassRight' /\ PassAfterDeletions'
    <1>1. PassShape'
        BY RecvTyped DEF RecvInv, PassShape
    <1>2. PassRight'
        <2>1. \A e \in pass.files : inbox[e].at = "pending" /\ e \in Event  BY RecvTyped DEF RecvInv, PassRight
        <2>2. \A e \in pass.files : place'[e] = place[e]  BY <2>1
        <2>3. \A e \in pass.files : First(e, pass.files)' <=> First(e, pass.files)  BY <2>2 DEF First
        <2> QED  BY <2>1, <2>3, RecvTyped DEF RecvInv, PassRight
    <1>3. PassAfterDeletions'
        BY RecvTyped DEF RecvInv, PassAfterDeletions, PassShape
    <1> QED  BY <1>1, <1>2, <1>3

\* The pass with nothing in it.
LEMMA NothingInPass ==
    ASSUME RecvInv, pass' = NoPass, UNCHANGED newest
    PROVE  PassShape' /\ PassRight' /\ PassAfterDeletions'
    <1>1. NoPass \in Passes /\ NoPass.mark = 0 /\ NoPass.at = "none" /\ NoPass.batch = {} /\ NoPass.files = {}
        BY DEF NoPass, Passes
    <1> HIDE DEF NoPass
    <1> QED  BY <1>1, RecvTyped DEF PassShape, PassRight, PassAfterDeletions

LEMMA PageForms == /\ NoPage \in Pages /\ NoPage.at = "none"
    BY DEF NoPage, Pages

LEMMA FetchStep == ASSUME RecvInv, NEW s \in Source, Fetch(s) PROVE RecvGood
    <1> DEFINE latest == IF pulled[s] + PageSize < Len(LogOf[s]) THEN pulled[s] + PageSize ELSE Len(LogOf[s])
               x == [at |-> "here", events |-> {LogOf[s][i] : i \in pulled[s] + 1 .. latest},
                     latest |-> latest, more |-> latest < Len(LogOf[s])]
    <1>1. /\ page[s].at = "none" /\ page' = [page EXCEPT ![s] = x]
          /\ UNCHANGED <<pulled, inbox, place, newest, known, rows, pass, banned>>
        BY DEF Fetch, local
    <1>2. /\ pulled[s] \in Nat /\ pulled[s] =< Len(LogOf[s]) /\ Len(LogOf[s]) \in Nat /\ s \in Caller
          /\ page \in [Caller -> Pages] /\ PageSize \in Nat
        BY LogTyped, ReceiveAssumption DEF RecvInv, PagesRight
    <1>3. latest \in pulled[s] .. Len(LogOf[s]) /\ latest \in Nat  BY <1>2
    <1> HIDE DEF latest
    <1>4. \A i \in pulled[s] + 1 .. latest : LogOf[s][i] \in Event
        <2>1. \A i \in pulled[s] + 1 .. latest : i \in 1 .. Len(LogOf[s])  BY <1>2, <1>3
        <2> QED  BY <2>1, LogTyped
    <1>5. /\ x \in Pages /\ x.latest = latest
          /\ \A i \in pulled[s] + 1 .. x.latest : LogOf[s][i] \in x.events
        BY <1>3, <1>4 DEF Pages
    <1> HIDE DEF x
    <1>6. page' \in [Caller -> Pages] /\ page'[s] = x /\ \A c \in Caller : c # s => page'[c] = page[c]
        BY <1>1, <1>2, <1>5
    <1>7. PagesRight'
        <2>1. NothingMissed'  BY <1>1 DEF RecvInv, PagesRight, NothingMissed
        <2>2. \A r \in Source : r \in Caller  BY LogTyped
        <2> QED  BY <1>1, <1>3, <1>5, <1>6, <2>1, <2>2 DEF RecvInv, PagesRight
    <1>8. pass = NoPass \/ page'[pass.by].at = "stored"  BY <1>1, <1>6 DEF RecvInv, PassShape
    <1>9. newest' \in Nat /\ newest' >= newest  BY <1>1, RecvTyped
    <1>10. PassShape' /\ PassRight' /\ PassAfterDeletions'  BY <1>1, <1>8, <1>9, PassStays
    <1> QED  BY <1>1, <1>7, <1>10, EventsStay DEF RecvGood, RecvInv

\* Pages that go, or that are stored as they are.
LEMMA OtherPages ==
    ASSUME RecvInv, UNCHANGED <<pulled, inbox, place, newest, known, rows>>, banned \subseteq banned',
           page' \in [Caller -> Pages], \A s \in Source : page'[s].at = "here" => page'[s] = page[s],
           \/ pass' = NoPass
           \/ pass' = pass /\ (pass = NoPass \/ page'[pass.by].at = "stored")
    PROVE  RecvGood
    <1>1. PagesRight'  BY PagesStay
    <1>2. newest' \in Nat /\ newest' >= newest  BY RecvTyped
    <1>3. PassShape' /\ PassRight' /\ PassAfterDeletions'
        <2>1. CASE pass' = NoPass  BY <2>1, NothingInPass
        <2>2. CASE pass' = pass /\ (pass = NoPass \/ page'[pass.by].at = "stored")
            BY <1>2, <2>2, PassStays
        <2> QED  BY <2>1, <2>2
    <1> QED  BY <1>1, <1>3, EventsStay DEF RecvGood, RecvInv

LEMMA FetchFailsStep == ASSUME RecvInv, NEW s \in Source, FetchFails(s) PROVE RecvGood
    <1>1. /\ page[s].at = "here" /\ page' = [page EXCEPT ![s] = NoPage] /\ banned \subseteq banned'
          /\ UNCHANGED <<pulled, inbox, place, newest, known, rows, pass>>
        BY DEF FetchFails, local
    <1> HIDE DEF NoPage
    <1>2. page \in [Caller -> Pages] /\ s \in Caller  BY LogTyped DEF RecvInv, PagesRight
    <1>3. page' \in [Caller -> Pages] /\ page'[s] = NoPage /\ \A c \in Caller : c # s => page'[c] = page[c]
        BY <1>1, <1>2, PageForms
    <1>4. \A c \in Source : page'[c].at = "here" => page'[c] = page[c]  BY <1>3, LogTyped, PageForms
    <1>5. pass = NoPass \/ page'[pass.by].at = "stored"  BY <1>1, <1>3 DEF RecvInv, PassShape
    <1> QED  BY <1>1, <1>3, <1>4, <1>5, OtherPages

LEMMA PushArrivesStep ==
    ASSUME RecvInv, NEW events \in Pushed, NEW more \in BOOLEAN, PushArrives(events, more)
    PROVE  RecvGood
    <1> DEFINE x == [at |-> "here", events |-> events, latest |-> 0, more |-> more]
    <1>1. /\ page[Push].at = "none" /\ page' = [page EXCEPT ![Push] = x] /\ banned \subseteq banned'
          /\ UNCHANGED <<pulled, inbox, place, newest, known, rows, pass>>
        BY DEF PushArrives, local
    <1>2. x \in Pages  BY ReceiveAssumption DEF Pages
    <1> HIDE DEF x
    <1>3. page \in [Caller -> Pages] /\ Push \in Caller  BY DEF RecvInv, PagesRight, Caller
    <1>4. page' \in [Caller -> Pages] /\ \A c \in Caller : c # Push => page'[c] = page[c]
        BY <1>1, <1>2, <1>3
    <1>5. \A c \in Source : page'[c] = page[c]  BY <1>4, LogTyped
    <1>6. pass = NoPass \/ page'[pass.by].at = "stored"  BY <1>1, <1>4 DEF RecvInv, PassShape
    <1> QED  BY <1>1, <1>4, <1>5, <1>6, OtherPages

LEMMA EndPassStep == ASSUME RecvInv, EndPass PROVE RecvGood
    <1>1. /\ pass' = NoPass /\ page' = [page EXCEPT ![pass.by] = NoPage] /\ banned \subseteq banned'
          /\ UNCHANGED <<pulled, inbox, place, newest, known, rows>>
        BY DEF EndPass, local
    <1> HIDE DEF NoPage
    <1>2. page \in [Caller -> Pages]  BY DEF RecvInv, PagesRight
    <1>3. page' \in [Caller -> Pages] /\ \A c \in Caller : page'[c] = page[c] \/ page'[c] = NoPage
        BY <1>1, <1>2, PageForms
    <1>4. \A c \in Source : page'[c].at = "here" => page'[c] = page[c]  BY <1>3, LogTyped, PageForms
    <1> QED  BY <1>1, <1>3, <1>4, OtherPages

LEMMA RestartStep == ASSUME RecvInv, RestartDevice PROVE RecvGood
    <1>1. /\ pass' = NoPass /\ page' = [c \in Caller |-> NoPage] /\ banned \subseteq banned'
          /\ UNCHANGED <<pulled, inbox, place, newest, known, rows>>
        BY DEF RestartDevice, local
    <1> HIDE DEF NoPage
    <1>2. page' \in [Caller -> Pages] /\ \A c \in Source : page'[c].at = "none"
        BY <1>1, LogTyped, PageForms
    <1> QED  BY <1>1, <1>2, OtherPages

LEMMA BanOrTimerStep ==
    ASSUME RecvInv, (\E o \in Origin : Ban(o)) \/ (\E e \in Event : TimerFires(e))
    PROVE  RecvGood
    <1>1. banned \subseteq banned' /\ UNCHANGED <<pulled, page, inbox, place, newest, known, rows, pass>>
        BY DEF Ban, TimerFires, local
    <1>2. page' \in [Caller -> Pages]  BY <1>1 DEF RecvInv, PagesRight
    <1>3. pass = NoPass \/ page'[pass.by].at = "stored"  BY <1>1 DEF RecvInv, PassShape
    <1> QED  BY <1>1, <1>2, <1>3, OtherPages

LEMMA DelayOverStep == ASSUME RecvInv, NEW e \in Event, DelayOver(e) PROVE RecvGood
    <1> DEFINE x == [inbox[e] EXCEPT !.due = TRUE]
    <1>1. /\ inbox[e].at = "pending" /\ inbox' = [inbox EXCEPT ![e] = x]
          /\ UNCHANGED <<pulled, page, place, newest, known, rows, pass, banned>>
        BY DEF DelayOver, local
    <1>2. x \in Entries /\ x.at = "pending" /\ x.due /\ x.failed = inbox[e].failed
        BY <1>1, RecvTyped DEF Entries
    <1> HIDE DEF x
    <1>3. InboxRight' /\ inbox'[e] = x /\ \A f \in Event : f # e => inbox'[f] = inbox[f]
        BY <1>1, <1>2, OneEntry
    <1>4. \A f \in Event : inbox'[f].at = inbox[f].at /\ inbox'[f].failed = inbox[f].failed
        BY <1>1, <1>2, <1>3
    <1>5. page' \in [Caller -> Pages] /\ newest' \in Nat /\ newest' >= newest
        BY <1>1, RecvTyped DEF RecvInv, PagesRight
    <1>6. PagesRight'  BY <1>1, <1>4, <1>5, PagesStay
    <1>7. pass = NoPass \/ page'[pass.by].at = "stored"  BY <1>1 DEF RecvInv, PassShape
    <1>8. PassShape' /\ PassRight' /\ PassAfterDeletions'  BY <1>1, <1>4, <1>5, <1>7, PassStays
    <1>9. ItemsRight'  BY <1>1, <1>4 DEF RecvInv, ItemsRight, Brings
    <1>10. ShownUndeleted  BY <1>1, RecvTyped DEF ShownUndeleted
    <1> QED  BY <1>3, <1>6, <1>8, <1>9, <1>10 DEF RecvGood, RecvInv

LEMMA BeginPassStep == ASSUME RecvInv, NEW c \in Caller, BeginPass(c) PROVE RecvGood
    <1>1. /\ page[c].at = "stored" /\ pass' = [NoPass EXCEPT !.by = c, !.at = "deletions"]
          /\ UNCHANGED <<pulled, page, inbox, place, newest, known, rows, banned>>
        BY DEF BeginPass, local
    <1>2. /\ pass' \in Passes /\ pass'.by = c /\ pass'.at = "deletions" /\ pass'.batch = {} /\ pass'.files = {}
          /\ pass'.mark = 0
        BY <1>1 DEF NoPass, Passes
    <1>3. page' \in [Caller -> Pages]  BY <1>1 DEF RecvInv, PagesRight
    <1>4. PagesRight'  BY <1>1, <1>3, PagesStay
    <1>5. PassShape' /\ PassRight' /\ PassAfterDeletions'
        BY <1>1, <1>2, RecvTyped DEF PassShape, PassRight, PassAfterDeletions
    <1> QED  BY <1>1, <1>4, <1>5, EventsStay DEF RecvGood, RecvInv

\* The new are placed behind what is there, each at a cursor of its own.
LEMMA Placed ==
    ASSUME RecvInv, NEW T \in SUBSET Event, NEW at \in Placings(T)
    PROVE  /\ Cardinality(T) \in Nat
           /\ \A e \in T : at[e] \in newest + 1 .. newest + Cardinality(T)
           /\ \A e, f \in T : at[e] = at[f] => e = f
    <1>1. IsFiniteSet(T)  BY ReceiveAssumption, FS_Subset
    <1>2. Cardinality(T) \in Nat  BY <1>1, FS_CardinalityType
    <1> QED  BY <1>2 DEF Placings

LEMMA AcceptStep == ASSUME RecvInv, NEW c \in Caller, Accept(c) PROVE RecvGood
    <1> DEFINE T == Taken(c)
               x == [at |-> "pending", due |-> TRUE, failed |-> FALSE]
               y == [page[c] EXCEPT !.at = "stored", !.events = T]
    <1>1. PICK at \in Placings(T) : place' = [e \in Event |-> IF e \in T THEN at[e] ELSE place[e]]
        BY DEF Accept
    <1>2. /\ newest' = newest + Cardinality(T)
          /\ inbox' = [e \in Event |-> IF e \in T THEN x ELSE inbox[e]]
          /\ pulled' = [s \in Source |-> IF s = c THEN page[c].latest ELSE pulled[s]]
          /\ page[c].at = "here" /\ page' = [page EXCEPT ![c] = y]
          /\ UNCHANGED <<known, rows, pass, banned>>
        BY DEF Accept, Moves
    <1>3. T \in SUBSET Event /\ \A e \in T : inbox[e].at = "unknown"  BY RecvTyped DEF Taken
    <1>4. \A e \in Event : c # Push /\ e \in page[c].events => e \in T \/ inbox[e].at # "unknown" \/ From[e] \in banned
        BY DEF Taken
    <1>5. y \in Pages /\ y.at = "stored"
        <2>1. page[c] \in Pages  BY RecvTyped
        <2> QED  BY <1>3, <2>1 DEF Pages
    <1> HIDE DEF T, y
    <1>6. /\ Cardinality(T) \in Nat /\ \A e \in T : at[e] \in newest + 1 .. newest + Cardinality(T)
          /\ \A e, f \in T : at[e] = at[f] => e = f
        BY <1>3, Placed
    <1>7. newest \in Nat /\ newest' \in Nat /\ newest' >= newest  BY <1>2, <1>6, RecvTyped
    <1>8. \A e \in T : place'[e] = at[e] /\ at[e] \in Nat /\ at[e] > newest /\ at[e] =< newest'
        BY <1>1, <1>2, <1>3, <1>6, <1>7
    <1>9. \A e \in Event : e \notin T => place'[e] = place[e] /\ inbox'[e] = inbox[e]
        BY <1>1, <1>2
    <1>10. x \in Entries /\ x.at = "pending" /\ x.due  BY DEF Entries
    <1>11. \A e \in T : inbox'[e] = x  BY <1>2, <1>3
    <1>12. \A e \in Event : place[e] \in Nat /\ place[e] =< newest  BY RecvTyped DEF RecvInv, InboxRight
    <1> HIDE DEF x
    <1>13. InboxRight'
        <2>1. inbox' \in [Event -> Entries]  BY <1>2, <1>10, RecvTyped
        <2>2. place' \in [Event -> Nat]  BY <1>1, <1>3, <1>8, <1>12
        <2>3. ASSUME NEW e \in Event
              PROVE  /\ place'[e] =< newest' /\ (inbox'[e].at = "unknown") = (place'[e] = 0)
                     /\ inbox'[e].at = "pending" /\ ~inbox'[e].due => inbox'[e].failed
                     /\ inbox'[e].at = "rejected" => e \in Invalid
                     /\ inbox'[e].at = "applied" => e \notin Invalid
            <3>1. CASE e \in T  BY <1>7, <1>8, <1>10, <1>11, <3>1
            <3>2. CASE e \notin T  BY <1>7, <1>9, <1>12, <3>2 DEF RecvInv, InboxRight
            <3> QED  BY <3>1, <3>2
        <2>4. ASSUME NEW e \in Event, NEW f \in Event, place'[e] = place'[f], place'[e] # 0
              PROVE  e = f
            <3>1. CASE e \in T /\ f \in T  BY <1>6, <1>8, <2>4, <3>1
            <3>2. CASE e \in T /\ f \notin T  BY <1>7, <1>8, <1>9, <1>12, <2>4, <3>2
            <3>3. CASE e \notin T /\ f \in T  BY <1>7, <1>8, <1>9, <1>12, <2>4, <3>3
            <3>4. CASE e \notin T /\ f \notin T  BY <1>9, <2>4, <3>4 DEF RecvInv, InboxRight
            <3> QED  BY <3>1, <3>2, <3>3, <3>4
        <2> QED  BY <1>7, <2>1, <2>2, <2>3, <2>4 DEF InboxRight
    <1>14. \A e \in Event : inbox[e].at # "unknown" => place'[e] = place[e] /\ inbox'[e].at = inbox[e].at
        BY <1>3, <1>9
    <1>15. page' \in [Caller -> Pages] /\ page'[c] = y /\ \A d \in Caller : d # c => page'[d] = page[d]
        BY <1>2, <1>5 DEF RecvInv, PagesRight
    <1>16. PagesRight'
        <2>1. \A s \in Source : s \in Caller /\ s # Push /\ Len(LogOf[s]) \in Nat  BY LogTyped
        <2>2. \A s \in Source : pulled'[s] = (IF s = c THEN page[c].latest ELSE pulled[s])  BY <1>2
        <2>3. \A s \in Source : pulled[s] \in Nat /\ pulled[s] =< Len(LogOf[s])  BY DEF RecvInv, PagesRight
        <2>4. c \in Source => page[c].latest \in pulled[c] .. Len(LogOf[c])  BY <1>2 DEF RecvInv, PagesRight
        <2>5. pulled' \in [Source -> Nat] /\ \A s \in Source : pulled'[s] =< Len(LogOf[s])
            BY <1>2, <2>1, <2>3, <2>4
        <2>6. ASSUME NEW s \in Source, NEW i \in 1 .. pulled'[s]
              PROVE  inbox'[LogOf[s][i]].at # "unknown" \/ From[LogOf[s][i]] \in banned
            <3>1. LogOf[s][i] \in Event  BY <2>1, <2>5, LogTyped
            <3>2. CASE i \in 1 .. pulled[s]
                <4>1. inbox[LogOf[s][i]].at # "unknown" \/ From[LogOf[s][i]] \in banned
                    BY <3>2 DEF RecvInv, PagesRight, NothingMissed
                <4> QED  BY <1>14, <3>1, <4>1
            <3>3. CASE i \notin 1 .. pulled[s]
                <4>1. s = c /\ i \in pulled[c] + 1 .. page[c].latest
                    BY <2>1, <2>2, <2>3, <2>4, <3>3
                <4>2. LogOf[s][i] \in page[c].events  BY <1>2, <4>1 DEF RecvInv, PagesRight
                <4>3. \/ LogOf[s][i] \in T \/ inbox[LogOf[s][i]].at # "unknown" \/ From[LogOf[s][i]] \in banned
                    BY <1>4, <2>1, <3>1, <4>1, <4>2
                <4> QED  BY <1>10, <1>11, <1>14, <3>1, <4>3
            <3> QED  BY <3>2, <3>3
        <2>7. NothingMissed'  BY <1>2, <2>6 DEF NothingMissed
        <2>8. \A s \in Source : page'[s].at = "here" => page'[s] = page[s] /\ pulled'[s] = pulled[s]
            BY <1>5, <1>15, <2>1, <2>2
        <2> QED  BY <1>15, <2>5, <2>7, <2>8 DEF RecvInv, PagesRight
    <1>17. pass = NoPass \/ page'[pass.by].at = "stored"
        BY <1>5, <1>15 DEF RecvInv, PassShape
    <1>18. /\ \A e \in Event : inbox'[e].failed = inbox[e].failed \/ place'[e] > newest \/ inbox'[e].failed
           /\ \A e \in Event : inbox[e].at = "unknown" /\ inbox'[e].at # "unknown" => place'[e] > newest
        BY <1>8, <1>9
    <1>19. PassShape' /\ PassRight' /\ PassAfterDeletions'
        BY <1>2, <1>7, <1>14, <1>17, <1>18, PassStays
    <1>20. ItemsRight'
        <2>1. \A e \in Event : inbox'[e].at = "applied" => inbox[e].at = "applied"
            BY <1>9, <1>10, <1>11
        <2>2. \A e \in Event, k \in Item : Brings(e, k) => Brings(e, k)'  BY <1>14 DEF Brings
        <2> QED  BY <1>2, <2>1, <2>2 DEF RecvInv, ItemsRight
    <1>21. ShownUndeleted  BY <1>2, RecvTyped DEF ShownUndeleted
    <1> QED  BY <1>13, <1>16, <1>19, <1>20, <1>21 DEF RecvGood, RecvInv

LEMMA PagesKept ==
    ASSUME RecvInv, UNCHANGED <<pulled, page, banned>>,
           \A e \in Event : inbox[e].at # "unknown" => inbox'[e].at # "unknown"
    PROVE  PagesRight'
    <1>1. page' \in [Caller -> Pages] /\ banned \subseteq banned'  BY DEF RecvInv, PagesRight
    <1> QED  BY <1>1, PagesStay

\* Steps that add no row.
LEMMA NoRowRises ==
    ASSUME RecvInv, \A k \in Item : rows'[k] = rows[k] \/ rows'[k] = 0 PROVE ShownUndeleted
    <1>1. \A k \in Item : ~(rows'[k] > rows[k])  BY RecvTyped
    <1> QED  BY <1>1 DEF ShownUndeleted

\* The versions of an item tell its events apart, and what is known of it is what one of them brings.
LEMMA KnownBy ==
    ASSUME RecvInv, NEW e \in Event, Version[e] = known[About[e]].version
    PROVE  known[About[e]].present = (e \notin Deletes)
    <1>1. About[e] \in Item /\ Version[e] > 0  BY RecvTyped
    <1>2. PICK f \in Event : /\ Brings(f, About[e]) /\ Version[f] = known[About[e]].version
                             /\ known[About[e]].present = (f \notin Deletes)
        BY <1>1 DEF RecvInv, ItemsRight
    <1>3. f = e  BY <1>2, ReceiveAssumption DEF Brings
    <1> QED  BY <1>2, <1>3

\* An item learns of the presence an event brings, and loses its row with it.
LEMMA Learned ==
    ASSUME RecvInv, NEW e \in Event, Learns(e), Suppresses(e)
    PROVE  /\ known' \in [Item -> Presences] /\ rows' \in [Item -> 0 .. 1]
           /\ \A k \in Item : k # About[e] => known'[k] = known[k] /\ rows'[k] = rows[k]
           /\ \/ known'[About[e]] = known[About[e]] /\ Version[e] =< known[About[e]].version
              \/ /\ known'[About[e]].version = Version[e] /\ Version[e] > known[About[e]].version
                 /\ known'[About[e]].present = (e \notin Deletes)
           /\ rows'[About[e]] = IF known'[About[e]].present THEN rows[About[e]] ELSE 0
    <1> DEFINE k == About[e]
               x == IF Version[e] > known[k].version
                    THEN [version |-> Version[e], present |-> e \notin Deletes] ELSE known[k]
               n == IF known'[k].present THEN rows[k] ELSE 0
    <1>1. /\ k \in Item /\ Version[e] \in Nat /\ known[k].version \in Nat /\ known[k] \in Presences
          /\ rows[k] \in 0 .. 1 /\ known \in [Item -> Presences] /\ rows \in [Item -> 0 .. 1]
        BY RecvTyped DEF RecvInv, ItemsRight
    <1>2. /\ x \in Presences
          /\ \/ x = known[k] /\ Version[e] =< known[k].version
             \/ x.version = Version[e] /\ Version[e] > known[k].version /\ x.present = (e \notin Deletes)
        BY <1>1 DEF Presences
    <1>3. known' = [known EXCEPT ![k] = x] /\ rows' = [rows EXCEPT ![k] = n]
        BY DEF Learns, Suppresses
    <1>4. n \in 0 .. 1  BY <1>1
    <1> HIDE DEF x
    <1>5. /\ known' \in [Item -> Presences] /\ known'[k] = x /\ \A j \in Item : j # k => known'[j] = known[j]
        BY <1>1, <1>2, <1>3
    <1>6. /\ rows' \in [Item -> 0 .. 1] /\ rows'[k] = n /\ \A j \in Item : j # k => rows'[j] = rows[j]
        <2> HIDE DEF n
        <2> QED  BY <1>1, <1>3, <1>4
    <1> QED  BY <1>2, <1>5, <1>6

\* It is the newest of what was applied and of this one.
LEMMA LearnedItems ==
    ASSUME RecvInv, NEW e \in Event, e \notin Invalid, inbox[e].at = "pending", Learns(e), Suppresses(e),
           \A f \in Event : f # e => inbox'[f].at = inbox[f].at,
           inbox'[e].at \in {"pending", "applied"},
           inbox'[e].at = "applied" => e \in Deletes \/ ~known'[About[e]].present
    PROVE  ItemsRight'
    <1> DEFINE k == About[e]
    <1>1. k \in Item /\ Version[e] \in Nat \ {0} /\ known[k].version \in Nat /\ known[k].present \in BOOLEAN
        BY RecvTyped
    <1>2. \A f \in Event, j \in Item : Brings(f, j) => Brings(f, j)'  BY DEF Brings
    <1>3. Brings(e, k)'  BY DEF Brings
    <1>4. \A j \in Item :
            /\ known'[j].version = 0 => known'[j].present
            /\ known'[j].version > 0 =>
                \E f \in Event : Brings(f, j)' /\ Version[f] = known'[j].version /\ known'[j].present = (f \notin Deletes)
        <2>1. ASSUME NEW j \in Item, known'[j] = known[j]
              PROVE  /\ known'[j].version = 0 => known'[j].present
                     /\ known'[j].version > 0 =>
                         \E f \in Event : Brings(f, j)' /\ Version[f] = known'[j].version /\ known'[j].present = (f \notin Deletes)
            BY <1>2, <2>1 DEF RecvInv, ItemsRight
        <2>2. ASSUME known'[k].version = Version[e], known'[k].present = (e \notin Deletes)
              PROVE  /\ ~(known'[k].version = 0)
                     /\ \E f \in Event : Brings(f, k)' /\ Version[f] = known'[k].version /\ known'[k].present = (f \notin Deletes)
            BY <1>1, <1>3, <2>2
        <2> QED  BY <1>1, <2>1, <2>2, Learned
    <1>5. \A j \in Item : ~known'[j].present => rows'[j] = 0
        BY <1>1, Learned DEF RecvInv, ItemsRight
    <1>6. ASSUME NEW f \in Event, inbox'[f].at = "applied"
          PROVE  /\ Version[f] =< known'[About[f]].version
                 /\ f \notin Deletes /\ Version[f] = known'[About[f]].version => rows'[About[f]] = 1
        <2>1. About[f] \in Item /\ Version[f] \in Nat /\ known[About[f]].version \in Nat  BY RecvTyped
        <2>2. CASE About[f] # k  BY <1>6, <2>1, <2>2, Learned DEF RecvInv, ItemsRight
        <2>3. CASE About[f] = k /\ f # e
            <3>1. inbox[f].at = "applied"  BY <1>6, <2>3
            <3>2. /\ Version[f] =< known[k].version
                  /\ f \notin Deletes /\ Version[f] = known[k].version => rows[k] = 1
                BY <2>3, <3>1 DEF RecvInv, ItemsRight
            <3>3. Version[f] =< known'[k].version  BY <1>1, <2>1, <2>3, <3>2, Learned
            <3>4. ASSUME f \notin Deletes, Version[f] = known'[k].version PROVE rows'[k] = 1
                <4>1. Version[f] # Version[e]  BY <2>3, ReceiveAssumption
                <4>2. known'[k] = known[k]  BY <3>4, <4>1, Learned
                <4>3. known[k].present  BY <2>3, <3>4, <4>2, KnownBy
                <4> QED  BY <3>2, <3>4, <4>2, <4>3, Learned
            <3> QED  BY <2>3, <3>3, <3>4
        <2>4. CASE f = e
            <3>1. Version[e] =< known'[k].version  BY <1>1, Learned
            <3>2. ASSUME e \notin Deletes, Version[e] = known'[k].version PROVE FALSE
                <4>1. ~known'[k].present  BY <1>6, <2>4, <3>2
                <4>2. CASE known'[k] = known[k]  BY <3>2, <4>1, <4>2, KnownBy
                <4>3. CASE known'[k].present = (e \notin Deletes)  BY <3>2, <4>1, <4>3
                <4> QED  BY <4>2, <4>3, Learned
            <3> QED  BY <2>4, <3>1, <3>2
        <2> QED  BY <2>2, <2>3, <2>4
    <1> QED  BY <1>4, <1>5, <1>6, Learned DEF ItemsRight

LEMMA ApplyDeletionStep == ASSUME RecvInv, NEW e \in Event, ApplyDeletion(e) PROVE RecvGood
    <1> DEFINE a == IF e \in Invalid THEN "rejected" ELSE "applied"
               x == [inbox[e] EXCEPT !.at = a]
    <1>1. /\ pass.at = "deletions" /\ e \in Deletes /\ inbox[e].at = "pending" /\ inbox' = [inbox EXCEPT ![e] = x]
          /\ UNCHANGED <<pulled, page, place, newest, pass, banned>>
          /\ e \in Invalid => UNCHANGED <<known, rows>>
          /\ e \notin Invalid => Learns(e) /\ Suppresses(e)
        BY DEF ApplyDeletion, First, DueDeletions, Due, local, Becomes
    <1>2. x \in Entries /\ x.at = a  BY RecvTyped DEF Entries
    <1> HIDE DEF x
    <1>3. InboxRight' /\ inbox'[e] = x /\ \A f \in Event : f # e => inbox'[f] = inbox[f]
        BY <1>1, <1>2, OneEntry
    <1>4. PagesRight'  BY <1>1, <1>2, <1>3, PagesKept
    <1>5. PassShape' /\ PassRight' /\ PassAfterDeletions'
        BY <1>1 DEF RecvInv, PassShape, PassRight, PassAfterDeletions
    <1>6. ItemsRight' /\ ShownUndeleted
        <2>1. CASE e \in Invalid
            <3>1. \A f \in Event : inbox'[f].at = "applied" => inbox[f].at = "applied"  BY <1>2, <1>3, <2>1
            <3>2. \A f \in Event, k \in Item : Brings(f, k) => Brings(f, k)'
                BY <1>2, <1>3 DEF Brings
            <3>3. ItemsRight'  BY <1>1, <2>1, <3>1, <3>2 DEF RecvInv, ItemsRight
            <3> QED  BY <1>1, <2>1, <3>3, NoRowRises
        <2>2. CASE e \notin Invalid
            <3>1. ItemsRight'  BY <1>1, <1>2, <1>3, <2>2, LearnedItems
            <3> QED  BY <1>1, <2>2, <3>1, Learned, NoRowRises
        <2> QED  BY <2>1, <2>2
    <1> QED  BY <1>3, <1>4, <1>5, <1>6 DEF RecvGood, RecvInv

\* An event that is put off stays where it is, and counts as failed.
LEMMA PutOffKeeps ==
    ASSUME RecvInv, NEW e \in Event, inbox[e].at = "pending", PutOff(e),
           UNCHANGED <<pulled, page, place, newest, known, rows, banned>>
    PROVE  /\ InboxRight' /\ PagesRight' /\ ItemsRight' /\ ShownUndeleted
           /\ \A f \in Event : inbox'[f].at = inbox[f].at /\ (inbox[f].failed => inbox'[f].failed)
    <1> DEFINE x == [inbox[e] EXCEPT !.due = FALSE, !.failed = TRUE]
    <1>1. inbox' = [inbox EXCEPT ![e] = x]  BY DEF PutOff
    <1>2. x \in Entries /\ x.at = "pending" /\ x.failed  BY RecvTyped DEF Entries
    <1> HIDE DEF x
    <1>3. InboxRight' /\ inbox'[e] = x /\ \A f \in Event : f # e => inbox'[f] = inbox[f]
        BY <1>1, <1>2, OneEntry
    <1>4. \A f \in Event : inbox'[f].at = inbox[f].at /\ (inbox[f].failed => inbox'[f].failed)
        BY <1>2, <1>3
    <1>5. PagesRight'  BY <1>4, PagesKept
    <1>6. ItemsRight'  BY <1>4 DEF RecvInv, ItemsRight, Brings
    <1> QED  BY <1>3, <1>4, <1>5, <1>6, NoRowRises

LEMMA DeletionFailsStep == ASSUME RecvInv, NEW e \in Event, DeletionFails(e) PROVE RecvGood
    <1>1. /\ pass.at = "deletions" /\ inbox[e].at = "pending" /\ PutOff(e)
          /\ UNCHANGED <<pulled, page, place, newest, known, rows, pass, banned>>
        BY DEF DeletionFails, First, DueDeletions, Due, local
    <1>2. PassShape' /\ PassRight' /\ PassAfterDeletions'
        BY <1>1 DEF RecvInv, PassShape, PassRight, PassAfterDeletions
    <1> QED  BY <1>1, <1>2, PutOffKeeps DEF RecvGood, RecvInv

\* The content a pass works on is valid and received.
LEMMA PassContent ==
    ASSUME RecvInv, NEW e \in pass.batch \cup pass.files
    PROVE  e \in Event /\ e \notin Deletes /\ e \notin Invalid /\ inbox[e].at = "pending" /\ About[e] \in Item
    BY RecvTyped DEF RecvInv, PassRight

\* The pass goes on with some of its content.
PassMoves(at, batch, files) ==
    /\ pass'.by = pass.by /\ pass'.at = at /\ pass'.batch = batch /\ pass'.files = files /\ pass'.mark = pass.mark
    /\ pass' \in Passes

LEMMA PassForms ==
    ASSUME RecvInv, NEW B \in SUBSET Event, NEW F \in SUBSET Event
    PROVE  /\ pass' = [pass EXCEPT !.batch = B] => PassMoves(pass.at, B, pass.files)
           /\ pass' = [pass EXCEPT !.files = F] => PassMoves(pass.at, pass.batch, F)
           /\ pass' = [pass EXCEPT !.at = "written"] => PassMoves("written", pass.batch, pass.files)
           /\ pass' = [pass EXCEPT !.batch = B, !.files = F] => PassMoves(pass.at, B, F)
           /\ pass' = [pass EXCEPT !.batch = B, !.progress = TRUE] => PassMoves(pass.at, B, pass.files)
           /\ pass' = [pass EXCEPT !.at = "content", !.files = F, !.progress = TRUE]
                => PassMoves("content", pass.batch, F)
    <1>1. pass \in Passes  BY DEF RecvInv, PassShape
    <1> QED  BY <1>1 DEF Passes, PassMoves

LEMMA PassGoesOn ==
    ASSUME RecvInv, pass.at \in {"content", "written"}, UNCHANGED <<page, place, newest>>,
           NEW a \in {"content", "written"}, NEW B, NEW F, PassMoves(a, B, F),
           \A d \in Deletes : inbox'[d].at = inbox[d].at /\ (inbox[d].failed => inbox'[d].failed)
    PROVE  PassShape' /\ PassAfterDeletions'
    <1>1. pass.at # "none" /\ NoPass.at = "none"  BY DEF NoPass
    <1>2. pass.by \in Caller /\ page[pass.by].at = "stored" /\ pass.mark =< newest
        <2> HIDE DEF NoPass
        <2> QED  BY <1>1 DEF RecvInv, PassShape
    <1>3. PassShape'  BY <1>2 DEF PassShape, PassMoves
    <1>4. PassAfterDeletions'
        BY RecvTyped DEF RecvInv, PassAfterDeletions, PassMoves
    <1> QED  BY <1>3, <1>4

LEMMA ReadContentStep == ASSUME RecvInv, ReadContent PROVE RecvGood
    <1> DEFINE N == Batch \cap Invalid
               x(e) == [inbox[e] EXCEPT !.at = "rejected"]
    <1>1. /\ pass.at = "deletions" /\ DueDeletions = {}
          /\ inbox' = [e \in Event |-> IF e \in N THEN x(e) ELSE inbox[e]]
          /\ pass' = [pass EXCEPT !.at = "content", !.batch = Batch \ Invalid, !.mark = newest, !.progress = N # {}]
          /\ UNCHANGED <<pulled, page, place, newest, known, rows, banned>>
        BY DEF ReadContent, Reads, local
    <1>2. \A e \in Batch : e \in Event /\ e \notin Deletes /\ inbox[e].at = "pending"
        BY DEF Batch, DueContent, Due
    <1>3. \A e \in N : x(e) \in Entries /\ x(e).at = "rejected" /\ e \in Invalid /\ e \in Event
        BY <1>2, RecvTyped DEF Entries
    <1>4. \A d \in Deletes : inbox[d].at = "pending" => inbox[d].failed
        BY <1>1, RecvTyped DEF DueDeletions, Due, RecvInv, InboxRight
    <1>5. /\ pass'.by = pass.by /\ pass'.at = "content" /\ pass'.batch = Batch \ Invalid
          /\ pass'.files = {} /\ pass'.mark = newest /\ pass' \in Passes
        <2>1. pass \in Passes /\ newest \in Nat /\ Batch \ Invalid \subseteq Event /\ pass.files = {}
            BY <1>1, <1>2, RecvTyped DEF RecvInv, PassShape, PassRight
        <2> HIDE DEF Batch, N
        <2> QED  BY <1>1, <2>1 DEF Passes
    <1> HIDE DEF N, x
    <1>6. \A e \in Event : \/ inbox'[e] = inbox[e] /\ e \notin N
                           \/ e \in N /\ inbox'[e].at = "rejected" /\ inbox'[e] \in Entries
        BY <1>1, <1>3
    <1>7. \A e \in N : inbox[e].at = "pending" /\ e \notin Deletes /\ e \in Invalid /\ e \in Batch
        BY <1>2 DEF N
    <1>8. InboxRight'
        <2>1. inbox' \in [Event -> Entries]  BY <1>1, <1>6, RecvTyped
        <2> QED  BY <1>1, <1>6, <1>7, <2>1 DEF RecvInv, InboxRight
    <1>9. PagesRight'  BY <1>1, <1>6, PagesKept
    <1>10. \A e \in Batch \ Invalid : inbox'[e].at = "pending" /\ e \notin Deletes /\ e \in Event
        BY <1>2, <1>6, <1>7
    <1>11. PassShape'
        <2>1. NoPass.at = "none"  BY DEF NoPass
        <2>2. pass.by \in Caller /\ page[pass.by].at = "stored"
            <3> HIDE DEF NoPass
            <3> QED  BY <1>1, <2>1 DEF RecvInv, PassShape
        <2> QED  BY <1>1, <1>5, <2>2, RecvTyped DEF PassShape
    <1>12. PassRight'
        <2> HIDE DEF Batch
        <2> QED  BY <1>5, <1>10 DEF PassRight
    <1>13. PassAfterDeletions'
        BY <1>1, <1>4, <1>6, <1>7, RecvTyped DEF PassAfterDeletions
    <1>14. ItemsRight'
        <2>1. \A e \in Event : inbox'[e].at = "applied" => inbox[e].at = "applied"  BY <1>6
        <2>2. \A e \in Event, k \in Item : Brings(e, k) => Brings(e, k)'  BY <1>6, <1>7 DEF Brings
        <2> QED  BY <1>1, <2>1, <2>2 DEF RecvInv, ItemsRight
    <1> QED  BY <1>1, <1>8, <1>9, <1>11, <1>12, <1>13, <1>14, NoRowRises DEF RecvGood, RecvInv

LEMMA MergePresenceStep == ASSUME RecvInv, NEW e \in Event, MergePresence(e) PROVE RecvGood
    <1> DEFINE k == About[e]
               B == pass.batch \ {e}
               F == IF known'[k].present THEN pass.files \cup {e} ELSE pass.files
               x == [inbox[e] EXCEPT !.at = "applied"]
    <1>1. /\ pass.at = "content" /\ e \in pass.batch /\ Learns(e) /\ Suppresses(e)
          /\ UNCHANGED <<pulled, page, place, newest, banned>>
          /\ known'[k].present => inbox' = inbox
          /\ ~known'[k].present => inbox' = [inbox EXCEPT ![e] = x]
        BY DEF MergePresence, First, local, Becomes
    <1>2. e \notin Deletes /\ e \notin Invalid /\ inbox[e].at = "pending" /\ k \in Item
        BY <1>1, PassContent
    <1>3. B \in SUBSET Event /\ pass.files \cup {e} \in SUBSET Event  BY RecvTyped
    <1>4. PassMoves("content", B, F)
        <2>1. CASE known'[k].present
            <3>1. pass' = [pass EXCEPT !.batch = B, !.files = pass.files \cup {e}]  BY <2>1 DEF MergePresence
            <3> HIDE DEF B
            <3>2. PassMoves("content", B, pass.files \cup {e})  BY <1>1, <1>3, <3>1, PassForms
            <3> QED  BY <2>1, <3>2
        <2>2. CASE ~known'[k].present
            <3>1. pass' = [pass EXCEPT !.batch = B, !.progress = TRUE]  BY <2>2 DEF MergePresence
            <3> HIDE DEF B
            <3>2. PassMoves("content", B, pass.files)  BY <1>1, <1>3, <3>1, PassForms
            <3> QED  BY <2>2, <3>2
        <2> QED  BY <2>1, <2>2
    <1>5. /\ InboxRight' /\ \A f \in Event : f # e => inbox'[f] = inbox[f]
          /\ inbox'[e].at = IF known'[k].present THEN "pending" ELSE "applied"
        <2>1. CASE known'[k].present  BY <1>1, <1>2, <2>1 DEF RecvInv, InboxRight
        <2>2. CASE ~known'[k].present
            <3>1. x \in Entries /\ x.at = "applied"  BY RecvTyped DEF Entries
            <3> HIDE DEF x
            <3> QED  BY <1>1, <1>2, <2>2, <3>1, OneEntry
        <2> QED  BY <2>1, <2>2
    <1>6. PagesRight'  BY <1>1, <1>5, PagesKept
    <1>7. PassShape' /\ PassAfterDeletions'
        <2> HIDE DEF B, F
        <2> QED  BY <1>1, <1>2, <1>4, <1>5, RecvTyped, PassGoesOn
    <1>8. PassRight'
        <2>1. /\ \A f \in pass.batch \cup pass.files : f \notin Deletes /\ f \notin Invalid /\ inbox[f].at = "pending"
              /\ pass.batch \cap pass.files = {}
              /\ \A f \in pass.files : known[About[f]].present /\ Version[f] =< known[About[f]].version
            BY DEF RecvInv, PassRight
        <2>2. \A f \in pass.files : f \in Event /\ f # e /\ About[f] \in Item /\ Version[f] \in Nat
            BY <1>1, <2>1, RecvTyped
        <2>3. \A f \in pass.files : known'[About[f]].present /\ Version[f] =< known'[About[f]].version
            <3>1. Version[e] \in Nat /\ known[k].version \in Nat  BY <1>2, RecvTyped
            <3>2. /\ \/ known'[k] = known[k]
                     \/ known'[k].present /\ known'[k].version > known[k].version /\ known'[k].version \in Nat
                  /\ \A j \in Item : j # k => known'[j] = known[j]
                BY <1>1, <1>2, <3>1, Learned
            <3>3. ASSUME NEW f \in pass.files
                  PROVE  known'[About[f]].present /\ Version[f] =< known'[About[f]].version
                <4>1. CASE About[f] = k
                    <5>1. known[k].present /\ Version[f] =< known[k].version /\ Version[f] \in Nat  BY <2>1, <2>2, <4>1
                    <5> QED  BY <3>1, <3>2, <4>1, <5>1
                <4>2. CASE About[f] # k  BY <2>1, <2>2, <3>2, <4>2
                <4> QED  BY <4>1, <4>2
            <3> QED  BY <3>3
        <2>4. known'[k].present => e \in F /\ Version[e] =< known'[k].version
            BY <1>1, <1>2, RecvTyped, Learned
        <2>5. \A f \in F : known'[About[f]].present /\ Version[f] =< known'[About[f]].version
            BY <2>3, <2>4
        <2>6. \A f \in B \cup F : f \notin Deletes /\ f \notin Invalid /\ inbox'[f].at = "pending"
            <3>1. \A f \in pass.batch \cup pass.files : f \in Event  BY RecvTyped
            <3> QED  BY <1>2, <1>5, <2>1, <2>2, <3>1
        <2>7. B \cap F = {}  BY <2>1
        <2>8. pass'.at = "content" /\ pass'.batch = B /\ pass'.files = F  BY <1>4 DEF PassMoves
        <2> HIDE DEF B, F
        <2> QED  BY <2>5, <2>6, <2>7, <2>8 DEF PassRight
    <1>9. ItemsRight'  BY <1>1, <1>2, <1>5, LearnedItems
    <1>10. ShownUndeleted  BY <1>1, <1>2, Learned, NoRowRises
    <1> QED  BY <1>5, <1>6, <1>7, <1>8, <1>9, <1>10 DEF RecvGood, RecvInv

LEMMA WriteStep == ASSUME RecvInv, NEW e \in Event, Write(e) PROVE RecvGood
    <1> DEFINE k == About[e]
    <1>1. /\ pass.at = "content" /\ pass.batch = {} /\ First(e, pass.files)
          /\ rows' = [rows EXCEPT ![k] = IF rows[k] > 0 THEN rows[k] ELSE 1]
          /\ pass' = [pass EXCEPT !.at = "written"]
          /\ UNCHANGED <<pulled, page, inbox, place, newest, known, banned>>
        BY DEF Write, local
    <1>2. /\ e \in pass.files /\ e \notin Deletes /\ e \notin Invalid /\ inbox[e].at = "pending" /\ k \in Item
          /\ known[k].present
        BY <1>1, PassContent DEF First, RecvInv, PassRight
    <1>3. /\ rows' \in [Item -> 0 .. 1] /\ rows'[k] = 1 /\ \A j \in Item : j # k => rows'[j] = rows[j]
        <2>1. rows \in [Item -> 0 .. 1] /\ rows[k] \in 0 .. 1  BY <1>2 DEF RecvInv, ItemsRight
        <2>2. (IF rows[k] > 0 THEN rows[k] ELSE 1) = 1  BY <2>1
        <2>3. rows' = [rows EXCEPT ![k] = 1]  BY <1>1, <2>2
        <2> QED  BY <1>2, <2>1, <2>3
    <1>4. PassMoves("written", {}, pass.files)  BY <1>1, PassForms
    <1>5. PassShape' /\ PassAfterDeletions'  BY <1>1, <1>4, PassGoesOn
    <1>6. \A f \in pass.files : First(f, pass.files) => f = e
        <2>1. \A f \in pass.files : place[f] \in Nat /\ place[f] # 0 /\ f \in Event
            BY RecvTyped, PassContent DEF RecvInv, InboxRight
        <2> QED  BY <1>1, <2>1 DEF First, RecvInv, InboxRight
    <1>7. PassRight'
        <2>1. pass'.at = "written" /\ pass'.batch = {} /\ pass'.files = pass.files  BY <1>4 DEF PassMoves
        <2>2. \A f \in pass.files : First(f, pass.files)' => rows'[About[f]] = 1
            BY <1>1, <1>3, <1>6, <2>1 DEF First
        <2> QED  BY <1>1, <2>1, <2>2 DEF RecvInv, PassRight, First
    <1>8. InboxRight' /\ PagesRight'  BY <1>1, PagesKept DEF RecvInv, InboxRight
    <1>9. ItemsRight'
        <2>1. \A j \in Item : ~known[j].present => rows'[j] = 0  BY <1>2, <1>3 DEF RecvInv, ItemsRight
        <2>2. \A f \in Event : inbox[f].at = "applied" /\ f \notin Deletes /\ Version[f] = known[About[f]].version
                  => rows'[About[f]] = 1
            BY <1>3, RecvTyped DEF RecvInv, ItemsRight
        <2> QED  BY <1>1, <1>3, <2>1, <2>2 DEF RecvInv, ItemsRight, Brings
    <1>10. ShownUndeleted
        <2>1. \A d \in Deletes \ Invalid : place[d] \in 1 .. pass.mark /\ inbox[d].at = "pending" => inbox[d].failed
            BY <1>1 DEF RecvInv, PassAfterDeletions
        <2> QED  BY <2>1 DEF ShownUndeleted
    <1> QED  BY <1>5, <1>7, <1>8, <1>9, <1>10 DEF RecvGood, RecvInv

LEMMA ContentAppliedStep == ASSUME RecvInv, NEW e \in Event, ContentApplied(e) PROVE RecvGood
    <1> DEFINE x == [inbox[e] EXCEPT !.at = "applied"]
               F == pass.files \ {e}
    <1>1. /\ pass.at = "written" /\ First(e, pass.files) /\ inbox' = [inbox EXCEPT ![e] = x]
          /\ pass' = [pass EXCEPT !.at = "content", !.files = F, !.progress = TRUE]
          /\ UNCHANGED <<pulled, page, place, newest, known, rows, banned>>
        BY DEF ContentApplied, Becomes, local
    <1>2. /\ e \in pass.files /\ e \notin Deletes /\ e \notin Invalid /\ inbox[e].at = "pending"
          /\ Version[e] =< known[About[e]].version /\ rows[About[e]] = 1 /\ pass.batch = {}
        BY <1>1, PassContent DEF First, RecvInv, PassRight
    <1>3. x \in Entries /\ x.at = "applied"  BY RecvTyped DEF Entries
    <1>4. F \in SUBSET Event  BY RecvTyped
    <1> HIDE DEF x, F
    <1>5. InboxRight' /\ inbox'[e] = x /\ \A f \in Event : f # e => inbox'[f] = inbox[f]
        BY <1>1, <1>2, <1>3, OneEntry
    <1>6. PassMoves("content", {}, F)
        <2>1. PassMoves("content", pass.batch, F)  BY <1>1, <1>4, PassForms
        <2> QED  BY <1>2, <2>1
    <1>7. PagesRight'  BY <1>1, <1>3, <1>5, PagesKept
    <1>8. PassShape' /\ PassAfterDeletions'  BY <1>1, <1>2, <1>5, <1>6, RecvTyped, PassGoesOn
    <1>9. PassRight'
        <2>1. pass'.at = "content" /\ pass'.batch = {} /\ pass'.files = F  BY <1>6 DEF PassMoves
        <2>2. \A f \in F : f \in pass.files /\ f # e /\ f \in Event  BY RecvTyped DEF F
        <2> QED  BY <1>1, <1>5, <2>1, <2>2 DEF RecvInv, PassRight
    <1>10. ItemsRight'
        <2>1. \A f \in Event, k \in Item : Brings(f, k) => Brings(f, k)'  BY <1>3, <1>5 DEF Brings
        <2>2. \A f \in Event : inbox'[f].at = "applied" => inbox[f].at = "applied" \/ f = e  BY <1>5
        <2> QED  BY <1>1, <1>2, <2>1, <2>2 DEF RecvInv, ItemsRight
    <1> QED  BY <1>1, <1>5, <1>7, <1>8, <1>9, <1>10, NoRowRises DEF RecvGood, RecvInv

LEMMA ContentPutOffSteps ==
    ASSUME RecvInv, NEW e \in Event, PresenceFails(e) \/ ContentFails(e)
    PROVE  RecvGood
    <1> DEFINE B == pass.batch \ {e}
               F == pass.files \ {e}
    <1>1. /\ pass.at = "content" /\ e \in pass.batch \cup pass.files /\ PutOff(e)
          /\ UNCHANGED <<pulled, page, place, newest, known, rows, banned>>
          /\ pass' = [pass EXCEPT !.batch = B] \/ pass' = [pass EXCEPT !.files = F]
        BY DEF PresenceFails, ContentFails, First, local
    <1>2. e \notin Deletes /\ inbox[e].at = "pending"  BY <1>1, PassContent
    <1>3. /\ InboxRight' /\ PagesRight' /\ ItemsRight' /\ ShownUndeleted
          /\ \A f \in Event : inbox'[f].at = inbox[f].at /\ (inbox[f].failed => inbox'[f].failed)
        BY <1>1, <1>2, PutOffKeeps
    <1>4. B \in SUBSET Event /\ F \in SUBSET Event /\ B \subseteq pass.batch /\ F \subseteq pass.files  BY RecvTyped
    <1> HIDE DEF B, F
    <1>5. PassMoves("content", B, pass.files) \/ PassMoves("content", pass.batch, F)
        BY <1>1, <1>4, PassForms
    <1>6. PassShape' /\ PassAfterDeletions'  BY <1>1, <1>3, <1>5, RecvTyped, PassGoesOn
    <1>7. PassRight'
        <2>1. pass'.at = "content" /\ pass'.batch \subseteq pass.batch /\ pass'.files \subseteq pass.files
            BY <1>4, <1>5 DEF PassMoves
        <2>2. \A f \in pass.batch \cup pass.files : f \in Event  BY RecvTyped
        <2> QED  BY <1>1, <1>3, <2>1, <2>2 DEF RecvInv, PassRight
    <1> QED  BY <1>3, <1>6, <1>7 DEF RecvGood, RecvInv

LEMMA ReceiveKeeps == ASSUME RecvInv, [ReceiveNext]_receiveVars PROVE RecvGood
    <1>1. CASE UNCHANGED receiveVars
        <2>1. banned \subseteq banned' /\ UNCHANGED <<pulled, page, inbox, place, newest, known, rows, pass>>
            BY <1>1 DEF receiveVars
        <2>2. page' \in [Caller -> Pages]  BY <2>1 DEF RecvInv, PagesRight
        <2>3. pass = NoPass \/ page'[pass.by].at = "stored"  BY <2>1 DEF RecvInv, PassShape
        <2> QED  BY <2>1, <2>2, <2>3, OtherPages
    <1>2. CASE ReceiveNext
        BY <1>2, FetchStep, FetchFailsStep, PushArrivesStep, AcceptStep, BeginPassStep, EndPassStep, RestartStep,
           BanOrTimerStep, DelayOverStep, ApplyDeletionStep, DeletionFailsStep, ReadContentStep, MergePresenceStep,
           WriteStep, ContentAppliedStep, ContentPutOffSteps
           DEF ReceiveNext, OwnStep, PassStep
    <1> QED  BY <1>1, <1>2

\* What of it the checked properties say.
LEMMA ReceiveKept == ASSUME RecvInv PROVE ReceiveTypeOK /\ ReceivedSound
    <1>1. ReceiveTypeOK
        <2>1. \A s \in Source : pulled[s] \in 0 .. Len(LogOf[s])  BY LogTyped DEF RecvInv, PagesRight
        <2>2. pass.batch \cup pass.files \subseteq {e \in Event \ Deletes : inbox[e].at = "pending"}
            BY PassContent
        <2>3. NoPass.by = "nobody"  BY DEF NoPass
        <2>4. pass.by # "nobody" => page[pass.by].at = "stored"
            <3> HIDE DEF NoPass
            <3> QED  BY <2>3 DEF RecvInv, PassShape
        <2>5. \A e \in Event : place[e] \in 0 .. newest  BY RecvTyped DEF RecvInv, InboxRight
        <2> QED  BY <2>1, <2>2, <2>4, <2>5 DEF RecvInv, InboxRight, ReceiveTypeOK
    <1>2. NewestApplied
        <2> SUFFICES ASSUME NEW k \in Item
                     PROVE  LET mine == {e \in Event : About[e] = k /\ inbox[e].at # "unknown"}
                                valid == mine \ Invalid
                                last == CHOOSE e \in valid : \A f \in valid : Version[f] =< Version[e]
                            IN (valid # {} /\ \A e \in mine : inbox[e].at # "pending")
                                   => (rows[k] > 0) = (last \notin Deletes)
            BY DEF NewestApplied
        <2> DEFINE mine == {e \in Event : About[e] = k /\ inbox[e].at # "unknown"}
                   valid == mine \ Invalid
                   last == CHOOSE e \in valid : \A f \in valid : Version[f] =< Version[e]
        <2> SUFFICES ASSUME valid # {}, \A e \in mine : inbox[e].at # "pending"
                     PROVE  (rows[k] > 0) = (last \notin Deletes)
            OBVIOUS
        <2>1. \A e \in valid : inbox[e].at = "applied" /\ e \in Event /\ About[e] = k /\ Version[e] \in Nat \ {0}
            BY RecvTyped DEF RecvInv, InboxRight
        <2>2. \A e \in valid : Version[e] =< known[k].version  BY <2>1 DEF RecvInv, ItemsRight
        <2>3. known[k].version \in Nat /\ rows[k] \in 0 .. 1  BY RecvTyped
        <2>4. known[k].version > 0  BY <2>1, <2>2, <2>3
        <2>5. PICK e \in Event : /\ Brings(e, k) /\ Version[e] = known[k].version
                                 /\ known[k].present = (e \notin Deletes)
            BY <2>4 DEF RecvInv, ItemsRight
        <2>6. e \in valid /\ \A f \in valid : Version[f] =< Version[e]  BY <2>2, <2>5 DEF Brings
        <2>7. last \in valid /\ \A f \in valid : Version[f] =< Version[last]  BY <2>6
        <2> HIDE DEF last
        <2>8. Version[last] = Version[e]  BY <2>1, <2>6, <2>7
        <2>9. last = e  BY <2>1, <2>6, <2>7, <2>8, ReceiveAssumption
        <2>10. CASE e \in Deletes
            <3>1. ~known[k].present  BY <2>5, <2>10
            <3>2. rows[k] = 0  BY <3>1 DEF RecvInv, ItemsRight
            <3> QED  BY <2>9, <2>10, <3>2
        <2>11. CASE e \notin Deletes
            <3>1. rows[k] = 1  BY <2>1, <2>5, <2>6, <2>11 DEF RecvInv, ItemsRight
            <3> QED  BY <2>9, <2>11, <3>1
        <2> QED  BY <2>10, <2>11
    <1>3. ReceivedOnce  BY RecvTyped DEF ReceivedOnce
    <1>4. NothingMissed  BY DEF RecvInv, PagesRight
    <1> QED  BY <1>1, <1>2, <1>3, <1>4 DEF ReceivedSound

----------------------------------------------------------------------------
\* Pairing. What one end has said the other has done: a confirmation that the group was stored stands
\* for a device that stored it, a completion for a member that recorded it; and whoever uses an
\* invitation took it away.

Tries == [at : {"none", "asked", "confirmed", "failed", "over"}, device : Device \cup {"nobody"}, invitation : Nat,
          shown : {"none", "pending", "approved", "rejected", "expired", "error"}]
Handlings == [at : {"none", "asked", "waiting", "answered", "over"},
              response : {NoFrame, "approved", "rejected", "expired", "error"},
              ack : {NoFrame, "accepted", "refused"}, completion : {NoFrame, "committed", "error"}, up : BOOLEAN]

\* The two ends of an attempt, with the devices that stored the group, those recorded, and the
\* invitations there were.
EndsFit(t, h, stores, records, n) ==
    /\ (t.at = "none") = (h.at = "none")
    /\ t.at = "none" => t.shown = "none" /\ t.invitation = 0
    /\ t.at # "none" => t.device \in Device /\ t.invitation \in 0 .. n
    /\ h.response # NoFrame => h.at \in {"answered", "over"}
    /\ h.ack # NoFrame => h.response # NoFrame
    /\ h.completion # NoFrame => h.at = "over" /\ h.response # NoFrame
    /\ h.ack = "accepted" /\ h.response = "approved" => t.device \in stores
    /\ h.completion = "committed" /\ h.response = "approved" => t.device \in records
    /\ t.shown = "approved" => t.device \in records

PairShape ==
    /\ issued \in Nat /\ invitations \subseteq 1 .. issued
    /\ try \in [Attempt -> Tries] /\ handler \in [Attempt -> Handlings]
    /\ joined \subseteq Device /\ members \subseteq joined
    /\ \A i \in Attempt : EndsFit(try[i], handler[i], joined, members, issued)

TableRight ==
    /\ incoming \subseteq Attempt /\ answering \subseteq Attempt /\ incoming \cap answering = {}
    /\ \A i \in incoming : handler[i].at = "waiting"
    /\ \A i \in answering : handler[i].at \in {"waiting", "answered", "over"}
    /\ \A i, j \in incoming : DeviceOf(i) = DeviceOf(j) => i = j

InvitationsRight ==
    /\ \A i \in Attempt, n \in Nat \ {0} : Uses(i, n) => n \notin invitations
    /\ \A i, j \in Attempt, n \in Nat \ {0} : Uses(i, n) /\ Uses(j, n) => i = j

PairInv == PairShape /\ TableRight /\ InvitationsRight

LEMMA PairTyped ==
    ASSUME PairInv, NEW i \in Attempt
    PROVE  /\ try[i] \in Tries /\ handler[i] \in Handlings
           /\ EndsFit(try[i], handler[i], joined, members, issued)
           /\ issued \in Nat /\ joined \subseteq Device /\ members \subseteq joined
    BY DEF PairInv, PairShape

LEMMA PairingStarts == PairingInit => PairInv
    <1> SUFFICES ASSUME PairingInit PROVE PairInv
        OBVIOUS
    <1> DEFINE t == [at |-> "none", device |-> "nobody", invitation |-> NoInvitation, shown |-> "none"]
               h == [at |-> "none", response |-> NoFrame, ack |-> NoFrame, completion |-> NoFrame, up |-> FALSE]
    <1>1. t \in Tries /\ h \in Handlings  BY DEF Tries, Handlings, NoInvitation
    <1>2. /\ t.at = "none" /\ t.shown = "none" /\ t.invitation = 0
          /\ h.at = "none" /\ h.response = NoFrame /\ h.ack = NoFrame /\ h.completion = NoFrame
        BY DEF NoInvitation
    <1>3. /\ try = [i \in Attempt |-> t] /\ handler = [i \in Attempt |-> h] /\ invitations = {} /\ issued = 0
          /\ incoming = {} /\ answering = {} /\ joined = {} /\ members = {}
        BY DEF PairingInit
    <1> HIDE DEF t, h
    <1>4. PairShape  BY <1>1, <1>2, <1>3 DEF PairShape, EndsFit, NoFrame
    <1>5. TableRight  BY <1>3 DEF TableRight
    <1>6. InvitationsRight  BY <1>2, <1>3 DEF InvitationsRight, Uses, NoFrame
    <1> QED  BY <1>4, <1>5, <1>6 DEF PairInv

\* A step of one attempt.
LEMMA OneAttempt ==
    ASSUME PairInv, UNCHANGED issued, invitations' \subseteq invitations,
           NEW i \in Attempt, NEW t \in Tries, NEW h \in Handlings,
           try' = [try EXCEPT ![i] = t], handler' = [handler EXCEPT ![i] = h],
           joined \subseteq joined', joined' \subseteq Device, members \subseteq members', members' \subseteq joined',
           EndsFit(t, h, joined', members', issued)
    PROVE  /\ PairShape' /\ try'[i] = t /\ handler'[i] = h
           /\ \A j \in Attempt : j # i => try'[j] = try[j] /\ handler'[j] = handler[j]
    <1>1. /\ try' \in [Attempt -> Tries] /\ try'[i] = t /\ \A j \in Attempt : j # i => try'[j] = try[j]
          /\ handler' \in [Attempt -> Handlings] /\ handler'[i] = h
          /\ \A j \in Attempt : j # i => handler'[j] = handler[j]
        BY DEF PairInv, PairShape
    <1>2. ASSUME NEW j \in Attempt, j # i
          PROVE  EndsFit(try[j], handler[j], joined', members', issued)
        BY PairTyped DEF EndsFit
    <1>3. \A j \in Attempt : EndsFit(try'[j], handler'[j], joined', members', issued')
        BY <1>1, <1>2
    <1>4. issued' \in Nat /\ invitations' \subseteq 1 .. issued'  BY DEF PairInv, PairShape
    <1> QED  BY <1>1, <1>3, <1>4 DEF PairShape

\* The request, or what became of it.
Claims(h) == h.at = "waiting" \/ h.response \in {"approved", "rejected", "expired"}

\* A step of an attempt that claims nothing new.
LEMMA AttemptGoesOn ==
    ASSUME PairInv, UNCHANGED issued, invitations' \subseteq invitations,
           NEW i \in Attempt, NEW t \in Tries, NEW h \in Handlings,
           try' = [try EXCEPT ![i] = t], handler' = [handler EXCEPT ![i] = h],
           joined \subseteq joined', joined' \subseteq Device, members \subseteq members', members' \subseteq joined',
           EndsFit(t, h, joined', members', issued),
           t.device = try[i].device /\ t.invitation = try[i].invitation,
           Claims(h) => Claims(handler[i]),
           incoming' \subseteq incoming, answering' \subseteq answering,
           i \in incoming' => h.at = "waiting",
           i \in answering' => h.at \in {"waiting", "answered", "over"}
    PROVE  PairInv'
    <1>1. /\ PairShape' /\ try'[i] = t /\ handler'[i] = h
          /\ \A j \in Attempt : j # i => try'[j] = try[j] /\ handler'[j] = handler[j]
        BY OneAttempt
    <1>2. \A j \in Attempt : /\ try'[j].device = try[j].device /\ try'[j].invitation = try[j].invitation
                             /\ Claims(handler'[j]) => Claims(handler[j])
        BY <1>1
    <1>3. TableRight'
        <2>1. \A j \in incoming' : j \in incoming /\ j \in Attempt  BY DEF PairInv, TableRight
        <2>2. \A j \in answering' : j \in answering /\ j \in Attempt  BY DEF PairInv, TableRight
        <2> QED  BY <1>1, <1>2, <2>1, <2>2 DEF PairInv, TableRight, DeviceOf
    <1>4. \A j \in Attempt, n \in Nat : Uses(j, n)' => Uses(j, n)
        BY <1>2 DEF Uses, Claims
    <1>5. InvitationsRight'  BY <1>4 DEF PairInv, InvitationsRight
    <1> QED  BY <1>1, <1>3, <1>5 DEF PairInv

\* Nobody's attempt moves.
LEMMA InviteSteps == ASSUME PairInv, Invite \/ InvitationExpires PROVE PairInv'
    <1>1. /\ UNCHANGED <<try, handler, incoming, answering, joined, members>>
          /\ \/ issued' = issued /\ invitations' = {}
             \/ issued' = issued + 1 /\ invitations' = {issued + 1}
        BY DEF Invite, InvitationExpires
    <1>2. issued \in Nat /\ issued' \in Nat /\ issued' >= issued /\ invitations' \subseteq 1 .. issued'
        BY <1>1 DEF PairInv, PairShape
    <1>3. ASSUME NEW j \in Attempt
          PROVE  EndsFit(try[j], handler[j], joined, members, issued') /\ try[j].invitation \in Nat
                 /\ try[j].invitation =< issued
        <2>1. EndsFit(try[j], handler[j], joined, members, issued) /\ try[j] \in Tries  BY PairTyped
        <2>2. try[j].invitation \in 0 .. issued  BY <1>2, <2>1 DEF EndsFit
        <2>3. 0 .. issued \subseteq 0 .. issued'  BY <1>2
        <2>4. EndsFit(try[j], handler[j], joined, members, issued')  BY <2>1, <2>3 DEF EndsFit
        <2> QED  BY <1>2, <2>2, <2>4
    <1>4. PairShape'  BY <1>1, <1>2, <1>3 DEF PairInv, PairShape
    <1>5. TableRight'  BY <1>1 DEF PairInv, TableRight, DeviceOf
    <1>6. \A j \in Attempt, n \in Nat : Uses(j, n)' <=> Uses(j, n)  BY <1>1 DEF Uses
    <1>7. \A j \in Attempt, n \in Nat : Uses(j, n) => n # issued + 1  BY <1>2, <1>3 DEF Uses
    <1>8. InvitationsRight'  BY <1>1, <1>6, <1>7 DEF PairInv, InvitationsRight
    <1> QED  BY <1>4, <1>5, <1>8 DEF PairInv

LEMMA AskStep ==
    ASSUME PairInv, NEW i \in Attempt, NEW d \in Device, NEW n \in 0 .. issued, Ask(i, d, n)
    PROVE  PairInv'
    <1> DEFINE t == [at |-> "asked", device |-> d, invitation |-> n, shown |-> "pending"]
               h == [handler[i] EXCEPT !.at = "asked", !.up = TRUE]
    <1>1. /\ try[i].at = "none" /\ try' = [try EXCEPT ![i] = t] /\ handler' = [handler EXCEPT ![i] = h]
          /\ UNCHANGED <<invitations, issued, incoming, answering, joined, members>>
        BY DEF Ask
    <1>2. handler[i] \in Handlings /\ EndsFit(try[i], handler[i], joined, members, issued) /\ issued \in Nat
        BY PairTyped
    <1>3. handler[i].at = "none" /\ handler[i].response = NoFrame /\ handler[i].ack = NoFrame /\ handler[i].completion = NoFrame
        BY <1>1, <1>2 DEF EndsFit
    <1>4. /\ h \in Handlings /\ h.at = "asked" /\ h.response = NoFrame /\ h.ack = NoFrame /\ h.completion = NoFrame
        BY <1>2, <1>3 DEF Handlings
    <1>5. t \in Tries /\ t.at = "asked" /\ t.device = d /\ t.invitation = n /\ t.shown = "pending"
        BY <1>2 DEF Tries
    <1> HIDE DEF t, h
    <1>6. EndsFit(t, h, joined', members', issued)  BY <1>4, <1>5 DEF EndsFit, NoFrame
    <1>7. joined' \subseteq Device /\ members' \subseteq joined'  BY <1>1, PairTyped
    <1>8. /\ PairShape' /\ try'[i] = t /\ handler'[i] = h
          /\ \A j \in Attempt : j # i => try'[j] = try[j] /\ handler'[j] = handler[j]
        BY <1>1, <1>4, <1>5, <1>6, <1>7, OneAttempt
    <1>9. i \notin incoming /\ i \notin answering  BY <1>3 DEF PairInv, TableRight
    <1>10. TableRight'
        <2>1. \A j \in incoming \cup answering : j \in Attempt /\ j # i  BY <1>9 DEF PairInv, TableRight
        <2> QED  BY <1>1, <1>8, <2>1 DEF PairInv, TableRight, DeviceOf
    <1>11. \A j \in Attempt, m \in Nat : Uses(j, m)' => Uses(j, m)  BY <1>4, <1>8 DEF Uses, NoFrame
    <1>12. InvitationsRight'  BY <1>1, <1>11 DEF PairInv, InvitationsRight
    <1> QED  BY <1>8, <1>10, <1>12 DEF PairInv

LEMMA AttemptSame ==
    ASSUME PairInv, NEW i \in Attempt
    PROVE  try = [try EXCEPT ![i] = try[i]] /\ handler = [handler EXCEPT ![i] = handler[i]]
    BY DEF PairInv, PairShape

\* The tables know of an attempt that runs only.
LEMMA TableTyped ==
    ASSUME PairInv, NEW i \in Attempt
    PROVE  /\ i \in incoming => handler[i].at = "waiting"
           /\ i \in answering => handler[i].at \in {"waiting", "answered", "over"}
           /\ i \notin incoming \/ i \notin answering
    BY DEF PairInv, TableRight

LEMMA StoresStep ==
    ASSUME PairInv, NEW i \in Attempt, NEW group \in BOOLEAN, NEW rest \in BOOLEAN, Stores(i, group, rest)
    PROVE  PairInv'
    <1> DEFINE agreed == handler[i].response = "approved"
               ok == ~agreed \/ (group /\ rest)
               a == IF ok THEN "confirmed" ELSE "failed"
               b == IF ok THEN "accepted" ELSE "refused"
               t == [try[i] EXCEPT !.at = a]
               h == [handler[i] EXCEPT !.ack = b]
    <1>1. /\ try[i].at = "asked" /\ handler[i].response # NoFrame
          /\ joined' = IF agreed /\ group THEN joined \cup {try[i].device} ELSE joined
          /\ try' = [try EXCEPT ![i] = t] /\ handler' = [handler EXCEPT ![i] = h]
          /\ UNCHANGED <<invitations, issued, incoming, answering, members>>
        BY DEF Stores, DeviceOf
    <1>2. /\ try[i] \in Tries /\ handler[i] \in Handlings /\ joined \subseteq Device /\ members \subseteq joined
          /\ EndsFit(try[i], handler[i], joined, members, issued)
        BY PairTyped
    <1>3. b = "accepted" /\ agreed => group  OBVIOUS
    <1>4. a \in {"confirmed", "failed"} /\ b \in {"accepted", "refused"}  OBVIOUS
    <1> HIDE DEF a, b
    <1>5. /\ t \in Tries /\ t.at = a /\ t.device = try[i].device /\ t.invitation = try[i].invitation
          /\ t.shown = try[i].shown
        BY <1>2, <1>4 DEF Tries
    <1>6. /\ h \in Handlings /\ h.at = handler[i].at /\ h.response = handler[i].response /\ h.ack = b
          /\ h.completion = handler[i].completion
        BY <1>2, <1>4 DEF Handlings
    <1> HIDE DEF t, h
    <1>7. try[i].device \in Device /\ handler[i].at # "none"  BY <1>1, <1>2 DEF EndsFit
    <1>8. joined \subseteq joined' /\ joined' \subseteq Device /\ members' \subseteq joined'
        BY <1>1, <1>2, <1>7
    <1>9. b = "accepted" /\ agreed => try[i].device \in joined'  BY <1>1, <1>3
    <1>10. EndsFit(t, h, joined', members', issued)
        BY <1>1, <1>2, <1>4, <1>5, <1>6, <1>7, <1>9 DEF EndsFit
    <1>11. Claims(h) => Claims(handler[i])  BY <1>6 DEF Claims
    <1> QED  BY <1>1, <1>2, <1>5, <1>6, <1>8, <1>10, <1>11, TableTyped, AttemptGoesOn

\* The device goes on with an attempt, which it shows as approved only if it is recorded.
TryMoves(i, t) ==
    /\ try' = [try EXCEPT ![i] = t] /\ t.device = try[i].device /\ t.invitation = try[i].invitation
    /\ (t.at = "none") = (try[i].at = "none")
    /\ t.at = "none" => t.shown = try[i].shown
    /\ t.shown = "approved" => try[i].device \in members

\* The device's other steps: its attempt ends, or the connection breaks.
LEMMA DeviceEndSteps ==
    ASSUME PairInv, NEW i \in Attempt, Finish(i) \/ GiveUp(i) \/ Breaks(i)
    PROVE  PairInv'
    <1> DEFINE h == [handler[i] EXCEPT !.up = FALSE]
    <1>1. /\ handler' = [handler EXCEPT ![i] = h]
          /\ UNCHANGED <<invitations, issued, incoming, answering, joined, members>>
        BY DEF Finish, GiveUp, Breaks, Ends
    <1>2. /\ try[i] \in Tries /\ handler[i] \in Handlings /\ joined \subseteq Device /\ members \subseteq joined
          /\ EndsFit(try[i], handler[i], joined, members, issued)
        BY PairTyped
    <1>3. PICK t \in Tries : TryMoves(i, t)
        <2>1. CASE Breaks(i)
            <3>1. try' = [try EXCEPT ![i] = try[i]]  BY <2>1, AttemptSame DEF Breaks
            <3>2. TryMoves(i, try[i])  BY <1>2, <3>1 DEF EndsFit, TryMoves
            <3> QED  BY <1>2, <3>2
        <2>2. ASSUME NEW x \in {"approved", "rejected", "expired", "error"}, try[i].at # "none", Ends(i, x),
                     x = "approved" => try[i].device \in members
              PROVE  \E t \in Tries : TryMoves(i, t)
            <3> DEFINE u == [try[i] EXCEPT !.at = "over", !.shown = x]
            <3>1. try' = [try EXCEPT ![i] = u]  BY <2>2 DEF Ends
            <3>2. /\ u \in Tries /\ u.at = "over" /\ u.device = try[i].device /\ u.invitation = try[i].invitation
                  /\ u.shown = x
                BY <1>2 DEF Tries
            <3> HIDE DEF u
            <3>3. TryMoves(i, u)  BY <2>2, <3>1, <3>2 DEF TryMoves
            <3> QED  BY <3>2, <3>3
        <2>3. CASE GiveUp(i)
            <3>1. try[i].at # "none" /\ (Ends(i, "expired") \/ Ends(i, "error"))  BY <2>3 DEF GiveUp
            <3> QED  BY <2>2, <3>1
        <2>4. CASE Finish(i)
            <3>1. try[i].at # "none" /\ handler[i].completion # NoFrame /\ Ends(i, Shown(i))  BY <2>4 DEF Finish
            <3>2. handler[i].response # NoFrame  BY <1>2, <3>1 DEF EndsFit
            <3>3. Shown(i) \in {"approved", "rejected", "expired", "error"}
                BY <1>2, <3>2 DEF Shown, Handlings
            <3>4. Shown(i) = "approved" => handler[i].response = "approved" /\ handler[i].completion = "committed"
                BY <1>2, <3>1 DEF Shown, Handlings
            <3>5. Shown(i) = "approved" => try[i].device \in members  BY <1>2, <3>4 DEF EndsFit
            <3> QED  BY <2>2, <3>1, <3>3, <3>5
        <2> QED  BY <2>1, <2>3, <2>4
    <1>4. /\ h \in Handlings /\ h.at = handler[i].at /\ h.response = handler[i].response /\ h.ack = handler[i].ack
          /\ h.completion = handler[i].completion
        BY <1>2 DEF Handlings
    <1> HIDE DEF h
    <1>5. EndsFit(t, h, joined', members', issued)  BY <1>1, <1>2, <1>3, <1>4 DEF EndsFit, TryMoves
    <1>6. Claims(h) => Claims(handler[i])  BY <1>4 DEF Claims
    <1>7. try' = [try EXCEPT ![i] = t] /\ t.device = try[i].device /\ t.invitation = try[i].invitation
        BY <1>3 DEF TryMoves
    <1> QED  BY <1>1, <1>2, <1>4, <1>5, <1>6, <1>7, TableTyped, AttemptGoesOn

\* The member answers an attempt that has no answer yet.
LEMMA AnsweredOnce ==
    ASSUME PairInv, NEW i \in Attempt, NEW r \in {"approved", "rejected", "expired", "error"}, Answer(i, r),
           handler[i].at \in {"asked", "waiting"},
           handler[i].at = "asked" => r = "error",
           UNCHANGED <<issued, try, joined, members>>, invitations' \subseteq invitations,
           incoming' \subseteq incoming, answering' \subseteq answering, i \notin incoming'
    PROVE  PairInv'
    <1> DEFINE h == [handler[i] EXCEPT !.at = "answered", !.response = r]
    <1>1. handler' = [handler EXCEPT ![i] = h] /\ try' = [try EXCEPT ![i] = try[i]]
        BY AttemptSame DEF Answer
    <1>2. /\ try[i] \in Tries /\ handler[i] \in Handlings /\ joined' \subseteq Device /\ members' \subseteq joined'
          /\ EndsFit(try[i], handler[i], joined, members, issued)
        BY PairTyped
    <1>3. handler[i].response = NoFrame /\ handler[i].ack = NoFrame /\ handler[i].completion = NoFrame
        BY <1>2 DEF EndsFit
    <1>4. /\ h \in Handlings /\ h.at = "answered" /\ h.response = r /\ h.ack = NoFrame /\ h.completion = NoFrame
        BY <1>2, <1>3 DEF Handlings
    <1> HIDE DEF h
    <1>5. EndsFit(try[i], h, joined', members', issued)
        BY <1>2, <1>3, <1>4 DEF EndsFit, NoFrame
    <1>6. Claims(h) => Claims(handler[i])  BY <1>4 DEF Claims
    <1> QED  BY <1>1, <1>2, <1>4, <1>5, <1>6, AttemptGoesOn

LEMMA RejectStep == ASSUME PairInv, NEW i \in Attempt, Reject(i) \/ Timeout(i) PROVE PairInv'
    <1>1. /\ \E r \in {"rejected", "expired"} : Answer(i, r)
          /\ UNCHANGED <<invitations, issued, try, answering, joined, members>>
        BY DEF Reject, Timeout
    <1>2. handler[i].at = "waiting" /\ incoming' = incoming \ {i}  BY TableTyped DEF Reject, Timeout
    <1> QED  BY <1>1, <1>2, AnsweredOnce

LEMMA ApproveStep == ASSUME PairInv, NEW i \in Attempt, Approve(i) PROVE PairInv'
    <1>1. /\ i \in incoming /\ incoming' = incoming \ {i} /\ answering' = answering \cup {i}
          /\ UNCHANGED <<invitations, issued, try, handler, joined, members>>
        BY DEF Approve
    <1>2. PairShape'  BY <1>1 DEF PairInv, PairShape
    <1>3. TableRight'  BY <1>1 DEF PairInv, TableRight, DeviceOf
    <1>4. InvitationsRight'  BY <1>1 DEF PairInv, InvitationsRight, Uses
    <1> QED  BY <1>2, <1>3, <1>4 DEF PairInv

LEMMA SendStep == ASSUME PairInv, NEW i \in Attempt, NEW ok \in BOOLEAN, Send(i, ok) PROVE PairInv'
    <1>1. /\ i \in answering /\ answering' = answering \ {i}
          /\ handler[i].at = "waiting" => Answer(i, IF ok THEN "approved" ELSE "error")
          /\ handler[i].at # "waiting" => handler' = handler
          /\ UNCHANGED <<invitations, issued, try, incoming, joined, members>>
        BY DEF Send
    <1>2. i \notin incoming  BY <1>1, TableTyped
    <1>3. CASE handler[i].at = "waiting"  BY <1>1, <1>2, <1>3, AnsweredOnce
    <1>4. CASE handler[i].at # "waiting"
        <2>1. PairShape'  BY <1>1, <1>4 DEF PairInv, PairShape
        <2>2. TableRight'  BY <1>1, <1>4 DEF PairInv, TableRight, DeviceOf
        <2>3. InvitationsRight'  BY <1>1, <1>4 DEF PairInv, InvitationsRight, Uses
        <2> QED  BY <2>1, <2>2, <2>3 DEF PairInv
    <1> QED  BY <1>3, <1>4

\* Who is let in claims an invitation that was there until now, and nobody else does.
LEMMA AdmitStep ==
    ASSUME PairInv, NEW i \in Attempt, NEW limited \in BOOLEAN, Admit(i, limited)
    PROVE  PairInv'
    <1> DEFINE h == [handler[i] EXCEPT !.at = "waiting"]
               n == try[i].invitation
    <1>1. /\ handler[i].at = "asked" /\ invitations' \in {invitations, invitations \ {n}}
          /\ UNCHANGED <<issued, try, answering, joined, members>>
          /\ \/ Answer(i, "error") /\ incoming' = incoming
             \/ /\ incoming' = incoming \cup {i} /\ handler' = [handler EXCEPT ![i] = h]
                /\ \A j \in incoming : DeviceOf(j) # DeviceOf(i)
                /\ n # 0 => n \in invitations /\ invitations' = invitations \ {n}
        BY DEF Admit, UseUp, NoInvitation
    <1>2. i \notin incoming /\ i \notin answering  BY <1>1, TableTyped
    <1>3. CASE Answer(i, "error") /\ incoming' = incoming  BY <1>1, <1>2, <1>3, AnsweredOnce
    <1>4. CASE /\ incoming' = incoming \cup {i} /\ handler' = [handler EXCEPT ![i] = h]
               /\ \A j \in incoming : DeviceOf(j) # DeviceOf(i)
               /\ n # 0 => n \in invitations /\ invitations' = invitations \ {n}
        <2>1. /\ try[i] \in Tries /\ handler[i] \in Handlings /\ joined' \subseteq Device /\ members' \subseteq joined'
              /\ EndsFit(try[i], handler[i], joined, members, issued)
            BY <1>1, PairTyped
        <2>2. /\ h \in Handlings /\ h.at = "waiting" /\ h.response = handler[i].response /\ h.ack = handler[i].ack
              /\ h.completion = handler[i].completion
            BY <2>1 DEF Handlings
        <2> HIDE DEF h
        <2>3. EndsFit(try[i], h, joined', members', issued)  BY <1>1, <2>1, <2>2 DEF EndsFit
        <2>4. try' = [try EXCEPT ![i] = try[i]]  BY <1>1, AttemptSame
        <2>5. /\ PairShape' /\ handler'[i] = h /\ \A j \in Attempt : j # i => handler'[j] = handler[j]
            <3>1. invitations' \subseteq invitations /\ issued' = issued  BY <1>1
            <3>2. joined \subseteq joined' /\ members \subseteq members'  BY <1>1
            <3>3. handler' = [handler EXCEPT ![i] = h]  BY <1>4
            <3> QED  BY <2>1, <2>2, <2>3, <2>4, <3>1, <3>2, <3>3, OneAttempt
        <2>6. TableRight'
            <3>1. \A j \in incoming \cup answering : j \in Attempt /\ j # i  BY <1>2 DEF PairInv, TableRight
            <3>2. \A j \in incoming' : handler'[j].at = "waiting"
                BY <1>4, <2>2, <2>5, <3>1 DEF PairInv, TableRight
            <3>3. \A j \in answering' : handler'[j].at \in {"waiting", "answered", "over"}
                BY <1>1, <2>5, <3>1 DEF PairInv, TableRight
            <3>4. \A j, k \in incoming' : DeviceOf(j)' = DeviceOf(k)' => j = k
                BY <1>1, <1>4 DEF PairInv, TableRight, DeviceOf
            <3> QED  BY <1>1, <1>2, <1>4, <3>2, <3>3, <3>4 DEF PairInv, TableRight
        <2>7. \A j \in Attempt, m \in Nat : Uses(j, m)' => Uses(j, m) \/ (j = i /\ m = n)
            BY <1>1, <2>5 DEF Uses
        <2>8. InvitationsRight'
            <3>1. \A j \in Attempt, m \in Nat \ {0} : Uses(j, m)' => m \notin invitations'
                BY <1>1, <1>4, <2>7 DEF PairInv, InvitationsRight
            <3>2. \A j, k \in Attempt, m \in Nat \ {0} : Uses(j, m)' /\ Uses(k, m)' => j = k
                BY <1>1, <1>4, <2>7 DEF PairInv, InvitationsRight
            <3> QED  BY <3>1, <3>2 DEF InvitationsRight
        <2> QED  BY <2>5, <2>6, <2>8 DEF PairInv
    <1> QED  BY <1>1, <1>3, <1>4

LEMMA CommitStep == ASSUME PairInv, NEW i \in Attempt, NEW ok \in BOOLEAN, Commit(i, ok) PROVE PairInv'
    <1> DEFINE recorded == handler[i].ack = "accepted" /\ handler[i].response = "approved"
               c == IF ok /\ handler[i].ack = "accepted" THEN "committed" ELSE "error"
               h == [handler[i] EXCEPT !.at = "over", !.completion = c]
    <1>1. /\ handler[i].at = "answered" /\ handler[i].ack # NoFrame
          /\ members' = IF recorded /\ ok THEN members \cup {try[i].device} ELSE members
          /\ handler' = [handler EXCEPT ![i] = h]
          /\ UNCHANGED <<invitations, issued, try, incoming, answering, joined>>
        BY DEF Commit, DeviceOf
    <1>2. /\ try[i] \in Tries /\ handler[i] \in Handlings /\ joined \subseteq Device /\ members \subseteq joined
          /\ EndsFit(try[i], handler[i], joined, members, issued)
        BY PairTyped
    <1>3. c \in {"committed", "error"} /\ (c = "committed" => ok /\ handler[i].ack = "accepted")  OBVIOUS
    <1> HIDE DEF c
    <1>4. /\ h \in Handlings /\ h.at = "over" /\ h.response = handler[i].response /\ h.ack = handler[i].ack
          /\ h.completion = c
        BY <1>2, <1>3 DEF Handlings
    <1> HIDE DEF h
    <1>5. members \subseteq members' /\ members' \subseteq joined'
        BY <1>1, <1>2 DEF EndsFit
    <1>6. c = "committed" /\ handler[i].response = "approved" => try[i].device \in members'
        BY <1>1, <1>3
    <1>7. EndsFit(try[i], h, joined', members', issued)
        BY <1>1, <1>2, <1>4, <1>5, <1>6 DEF EndsFit
    <1>8. try' = [try EXCEPT ![i] = try[i]]  BY <1>1, AttemptSame
    <1>9. Claims(h) => Claims(handler[i])  BY <1>4 DEF Claims
    <1>10. i \notin incoming'  BY <1>1, TableTyped
    <1> QED  BY <1>1, <1>2, <1>4, <1>5, <1>7, <1>8, <1>9, <1>10, AttemptGoesOn

LEMMA AbandonStep == ASSUME PairInv, NEW i \in Attempt, Abandon(i) PROVE PairInv'
    <1> DEFINE h == [handler[i] EXCEPT !.at = "over", !.up = FALSE]
    <1>1. /\ handler[i].at = "answered" /\ handler' = [handler EXCEPT ![i] = h]
          /\ UNCHANGED <<invitations, issued, try, incoming, answering, joined, members>>
        BY DEF Abandon
    <1>2. /\ try[i] \in Tries /\ handler[i] \in Handlings /\ joined' \subseteq Device /\ members' \subseteq joined'
          /\ EndsFit(try[i], handler[i], joined, members, issued)
        BY <1>1, PairTyped
    <1>3. /\ h \in Handlings /\ h.at = "over" /\ h.response = handler[i].response /\ h.ack = handler[i].ack
          /\ h.completion = handler[i].completion
        BY <1>2 DEF Handlings
    <1> HIDE DEF h
    <1>4. EndsFit(try[i], h, joined', members', issued)  BY <1>1, <1>2, <1>3 DEF EndsFit
    <1>5. try' = [try EXCEPT ![i] = try[i]]  BY <1>1, AttemptSame
    <1>6. Claims(h) => Claims(handler[i])  BY <1>3 DEF Claims
    <1>7. i \notin incoming'  BY <1>1, TableTyped
    <1> QED  BY <1>1, <1>2, <1>3, <1>4, <1>5, <1>6, <1>7, AttemptGoesOn

LEMMA PairKeeps == ASSUME PairInv, [PairingNext]_pairingVars PROVE PairInv'
    <1>1. CASE UNCHANGED pairingVars
        <2>1. UNCHANGED <<invitations, issued, try, handler, incoming, answering, joined, members>>
            BY <1>1 DEF pairingVars
        <2> QED  BY <2>1 DEF PairInv, PairShape, TableRight, InvitationsRight, DeviceOf, Uses
    <1>2. CASE PairingNext
        <2>1. TRUE \in BOOLEAN /\ FALSE \in BOOLEAN  OBVIOUS
        <2> QED  BY <1>2, <2>1, InviteSteps, AskStep, StoresStep, DeviceEndSteps, AdmitStep, RejectStep, ApproveStep,
                    SendStep, CommitStep, AbandonStep
                 DEF PairingNext, DeviceStep, MemberStep
    <1> QED  BY <1>1, <1>2

\* What of it the checked properties say.
LEMMA PairKept == ASSUME PairInv PROVE PairingTypeOK /\ EndsAgree
    <1>1. PairingTypeOK
        <2>1. \A i \in Attempt :
                  /\ try[i].at \in {"none", "asked", "confirmed", "failed", "over"}
                  /\ try[i].shown \in {"none", "pending", "approved", "rejected", "expired", "error"}
                  /\ handler[i].at \in {"none", "asked", "waiting", "answered", "over"}
            BY PairTyped DEF Tries, Handlings
        <2> QED  BY <2>1 DEF PairInv, PairShape, TableRight, PairingTypeOK
    <1>2. MembersHaveJoined  BY DEF PairInv, PairShape, MembersHaveJoined
    <1>3. ApprovedIsMutual
        BY PairTyped DEF EndsFit, ApprovedIsMutual, DeviceOf
    <1>4. InvitationAdmitsOne
        <2> SUFFICES ASSUME NEW n \in 1 .. issued PROVE Cardinality({i \in Attempt : Uses(i, n)}) =< 1
            BY DEF InvitationAdmitsOne
        <2> DEFINE S == {i \in Attempt : Uses(i, n)}
        <2>1. n \in Nat \ {0}  BY DEF PairInv, PairShape
        <2>2. CASE S = {}
            <3>1. Cardinality(S) = 0  BY <2>2, FS_EmptySet
            <3> QED  BY <3>1
        <2>3. CASE S # {}
            <3>1. PICK i \in S : TRUE  BY <2>3
            <3>2. S = {i}  BY <2>1, <3>1 DEF PairInv, InvitationsRight
            <3> HIDE DEF S
            <3>3. Cardinality(S) = 1  BY <3>2, FS_Singleton
            <3> QED  BY <3>3 DEF S
        <2> QED  BY <2>2, <2>3
    <1>5. NoOrphanRequest  BY DEF PairInv, TableRight, NoOrphanRequest
    <1> QED  BY <1>1, <1>2, <1>3, <1>4, <1>5 DEF EndsAgree

----------------------------------------------------------------------------
\* The parts together: each moves by itself.

SyncInv == PairInv /\ MemberInv /\ RecvInv /\ LanInv /\ LinkInv

LEMMA SyncStarts == ClientInit => SyncInv
    BY PairingStarts, MembersStart, ReceiveStarts, LanStarts, LinkStarts DEF ClientInit, SyncInv

LEMMA SyncMoves ==
    ASSUME [ClientNext]_<<part, pairingVars, memberVars, receiveVars, lanVars, cloudVars>>
    PROVE  /\ [PairingNext]_pairingVars /\ [MembershipNext]_memberVars /\ [ReceiveNext]_receiveVars
           /\ [LanNext]_lanVars /\ [CloudNext]_cloudVars
    BY DEF ClientNext

LEMMA SyncKeeps ==
    ASSUME SyncInv, [ClientNext]_<<part, pairingVars, memberVars, receiveVars, lanVars, cloudVars>>
    PROVE  SyncInv' /\ LedgersGrow /\ ShownUndeleted /\ ReplacementStays
    BY SyncMoves, PairKeeps, MemberKeeps, ReceiveKeeps, LanKeeps, LinkServes
       DEF SyncInv, MemberGood, RecvGood, LanGood

LEMMA SyncParts == ClientSpec => []SyncInv
    <1>1. SyncInv /\ [ClientNext]_<<part, pairingVars, memberVars, receiveVars, lanVars, cloudVars>> => SyncInv'
        BY SyncKeeps
    <1> QED  BY <1>1, SyncStarts, PTL DEF ClientSpec

\* The cells of the five parts of a client's synchronization keep their shape, whatever users, peers,
\* the network and the Hub do (SyncTypeOK).
THEOREM SyncTyped == ClientSpec => []SyncTypeOK
    <1>1. SyncInv => SyncTypeOK
        BY PairKept, MemberKept, ReceiveKept, LanKept, LinkKept DEF SyncInv, SyncTypeOK
    <1> QED  BY <1>1, SyncParts, PTL

\* No member is recorded that did not store the group, no invitation admits two and no device has two
\* requests; what is received is neither passed over nor applied twice, and of every item the newest
\* event is shown; what a cycle stores is of the device's group, and what a worker asks with an open
\* link the Hub knows it for (SyncSound).
THEOREM SyncHolds == ClientSpec => []SyncSound
    <1>1. SyncInv => SyncSound
        BY PairKept, ReceiveKept, LinkKept DEF SyncInv, SyncSound
    <1> QED  BY <1>1, SyncParts, PTL

\* Nobody keeps or takes in a route to a device it knows to be removed, and what is known of removals
\* and restorations never gets older, for every number of devices (RemovalsHold).
THEOREM RemovalsStay == ClientSpec => RemovalsHold
    <1>1. SyncInv => NoRouteToRemoved  BY MemberKept DEF SyncInv
    <1>2. SyncInv /\ [ClientNext]_<<part, pairingVars, memberVars, receiveVars, lanVars, cloudVars>>
              => LedgersGrow
        BY SyncKeeps
    <1> QED  BY <1>1, <1>2, SyncParts, PTL DEF ClientSpec, RemovalsHold

\* No content is shown that a deletion received before the pass read it deletes, unless applying the
\* deletion failed, for all events, pages and batches (DeletionFirst).
THEOREM DeletionsFirst == ClientSpec => DeletionFirst
    <1>1. SyncInv /\ [ClientNext]_<<part, pairingVars, memberVars, receiveVars, lanVars, cloudVars>>
              => ShownUndeleted
        BY SyncKeeps
    <1> QED  BY <1>1, SyncParts, PTL DEF ClientSpec, DeletionFirst

\* A cached connection has its watcher, no cycle with a peer runs without a cause, and no live
\* connection is given up for the end of another (ConnectionsSound).
THEOREM ConnectionsHold == ClientSpec => ConnectionsSound
    <1>1. SyncInv => CachedIsWatched /\ NoPolling  BY LanKept DEF SyncInv
    <1>2. SyncInv /\ [ClientNext]_<<part, pairingVars, memberVars, receiveVars, lanVars, cloudVars>>
              => ReplacementStays
        BY SyncKeeps
    <1> QED  BY <1>1, <1>2, SyncParts, PTL DEF ClientSpec, ConnectionsSound

=============================================================================
