------------------------------ MODULE CloudLink ------------------------------
(* A client's link to its Hub. One worker dials and watches; cycles and the user's queries use the  *)
(* link it has cached, and whoever comes first registers the group with the Hub and remembers that  *)
(* in a session. The settings, the group and the endpoint below change at any time, and each doing  *)
(* goes on with what it read when it began.                                                        *)
EXTENDS Integers, FiniteSets

CONSTANTS
    Hub,        \* Hubs the settings may name
    Space,      \* groups the device may be in
    Link,       \* connections, in the order they are dialled
    MaxTurns    \* bound: what users and other devices change, links that break, requests that fail

NoSpace == "no space"
NoHub == "no hub"

ASSUME CloudLinkAssumption ==
    /\ Hub # {} /\ Space # {} /\ NoHub \notin Hub /\ NoSpace \notin Space
    /\ Link \subseteq Nat \ {0} /\ MaxTurns \in Nat

NoLink == 0
NoSession == [link |-> NoLink, space |-> NoSpace]
Role == {"watcher", "cycle", "query"}   \* cloud_watch_worker, a cloud cycle, a user's query
Resting == [at |-> "none", hub |-> NoHub, space |-> NoSpace, link |-> NoLink, again |-> FALSE]

Closed == [l \in Link |-> NoHub]

VARIABLES
    enabled, hub,       \* the settings: whether to synchronize, and with which Hub
    space,              \* the group of the persisted identity
    stored,             \* the groups of which the database holds cursors and peers
    endpoint,           \* the Hub the running endpoint is configured for
    leadsTo,            \* of every link that is not closed: its Hub
    cloudLink,          \* cloud_connection
    session,            \* cloud_session
    hubKnows,           \* of every Hub: the groups it has
    doing,              \* of every role: how far it is, and what it read
    watchWake, cycleWake, lanWake, \* permits of watch_wake, cloud_transfer_wake, lan_transfer_wake
    scan, joining,      \* the pairing sessions: a scan and what it read, a request to join
    torn,               \* how the group was given up: under a cycle, or cut short by a crash
    turns               \* so far

config == <<enabled, hub, space, stored>>
linkState == <<endpoint, leadsTo, cloudLink, session>>
wakes == <<watchWake, cycleWake, lanWake>>
pairs == <<scan, joining>>
cloudVars == <<config, linkState, hubKnows, doing, wakes, pairs, torn, turns>>

CloudInit ==
    /\ enabled = TRUE /\ hub = (CHOOSE h \in Hub : TRUE) /\ space = (CHOOSE g \in Space : TRUE) /\ stored = {}
    /\ endpoint = NoHub /\ leadsTo = Closed /\ cloudLink = NoLink
    /\ session = NoSession /\ hubKnows = [h \in Hub |-> {}] /\ doing = [r \in Role |-> Resting]
    /\ watchWake = TRUE /\ cycleWake = TRUE /\ lanWake = FALSE
    /\ scan = "none" /\ joining = "none" /\ torn = {} /\ turns = 0

Turn == turns < MaxTurns /\ turns' = turns + 1
Quiet == UNCHANGED turns

At(r, at) == doing[r].at = at
Go(r, at) == doing' = [doing EXCEPT ![r].at = at]
Sleep == doing' = [doing EXCEPT !["watcher"] = [Resting EXCEPT !.at = "asleep"]]
Rest(r) == doing' = [doing EXCEPT ![r] = Resting]
\* The local network's worker has nothing to do here unless synchronization is off.
WakeAll == watchWake' = TRUE /\ cycleWake' = TRUE /\ lanWake' = ~enabled'
OpenIn(leads) == {l \in Link : leads[l] # NoHub}
open == OpenIn(leadsTo)
\* A number of a connection that nobody knows any more may be given out again.
InUse == open \cup {cloudLink, session.link} \cup {doing[r].link : r \in Role}
Reachable == IF cloudLink \in open THEN cloudLink ELSE NoLink

----------------------------------------------------------------------------
\* The endpoint, and the caches that die with it.

Down == leadsTo' = Closed /\ cloudLink' = NoLink /\ session' = NoSession

\* An endpoint of other settings is started again, which ends every link.
EnsureEndpoint(h) ==
    IF endpoint = h THEN UNCHANGED linkState ELSE endpoint' = h /\ Down

\* The endpoint is stopped unless somebody is pairing.
StopRuntime(pairing) ==
    IF pairing THEN UNCHANGED linkState ELSE endpoint' = NoHub /\ Down

\* Only the cached link is given up, and its session with it.
Invalidate(l) ==
    /\ IF l # NoLink /\ cloudLink = l
       THEN /\ cloudLink' = NoLink /\ leadsTo' = [leadsTo EXCEPT ![l] = NoHub]
            /\ session' = IF session.link = l THEN NoSession ELSE session
       ELSE UNCHANGED <<cloudLink, leadsTo, session>>
    /\ UNCHANGED endpoint

----------------------------------------------------------------------------
\* Registering the group with the Hub: one at a time, and not again over the same link.

Ready(r) == session = [link |-> doing[r].link, space |-> doing[r].space]

Onward(r) == CASE r = "watcher" -> "watch" [] r = "cycle" -> "pull" [] OTHER -> "ask"

FindReady(r) ==
    /\ At(r, "ensure") /\ Ready(r)
    /\ Go(r, Onward(r))
    /\ cycleWake' = (cycleWake \/ r = "watcher")
    /\ Quiet /\ UNCHANGED <<config, linkState, hubKnows, watchWake, lanWake, pairs, torn>>

Register(r) ==
    /\ At(r, "ensure") /\ ~Ready(r) /\ \A q \in Role : ~At(q, "register")
    /\ Go(r, "register")
    /\ Quiet /\ UNCHANGED <<config, linkState, hubKnows, wakes, pairs, torn>>

\* The Hub has the group; with the answer the session says so.
Registered(r) ==
    /\ At(r, "register") /\ doing[r].link \in open
    /\ hubKnows' = [hubKnows EXCEPT ![leadsTo[doing[r].link]] = @ \cup {doing[r].space}]
    /\ session' = [link |-> doing[r].link, space |-> doing[r].space]
    /\ Go(r, Onward(r)) /\ cycleWake' = (cycleWake \/ r = "watcher")
    /\ Quiet /\ UNCHANGED <<config, endpoint, leadsTo, cloudLink, watchWake, lanWake, pairs, torn>>

----------------------------------------------------------------------------
\* The worker that dials and watches.

\* It reads the settings and the group; without either it sleeps until it is woken.
Look ==
    /\ At("watcher", "none")
    /\ IF enabled /\ space # NoSpace
       THEN doing' = [doing EXCEPT !["watcher"] = [at |-> "resolve", hub |-> hub, space |-> space, link |-> NoLink,
                                                        again |-> FALSE]]
       ELSE Sleep
    /\ Quiet /\ UNCHANGED <<config, linkState, hubKnows, wakes, pairs, torn>>

\* The address is resolved: the endpoint is made ready, and a link that is open is taken over.
Prepare ==
    /\ At("watcher", "resolve") /\ EnsureEndpoint(doing["watcher"].hub)
    /\ LET kept == endpoint = doing["watcher"].hub /\ Reachable # NoLink
       IN doing' = [doing EXCEPT !["watcher"].at = IF kept THEN "ensure" ELSE "dial",
                                 !["watcher"].link = IF kept THEN cloudLink ELSE NoLink]
    /\ Quiet /\ UNCHANGED <<config, hubKnows, wakes, pairs, torn>>

\* The endpoint may have been started again since: what was being dialled on the old one fails.
Dialled(l) ==
    /\ At("watcher", "dial") /\ endpoint = doing["watcher"].hub
    /\ l \notin InUse /\ \A k \in Link : k < l => k \in InUse
    /\ leadsTo' = [leadsTo EXCEPT ![l] = endpoint] /\ cloudLink' = l
    /\ doing' = [doing EXCEPT !["watcher"].at = "dialled", !["watcher"].link = l]
    /\ Quiet /\ UNCHANGED <<config, endpoint, session, hubKnows, wakes, pairs, torn>>

\* The session of the link before is dropped after the new link is there for everybody.
ForgetSession ==
    /\ At("watcher", "dialled") /\ session' = NoSession /\ Go("watcher", "ensure")
    /\ Quiet /\ UNCHANGED <<config, endpoint, leadsTo, cloudLink, hubKnows, wakes, pairs, torn>>

\* An error anywhere gives the worker's link up; it tries again after a while or when it is woken.
WatcherFails ==
    /\ \/ At("watcher", "dial") /\ (Turn \/ (endpoint # doing["watcher"].hub /\ Quiet))
       \/ At("watcher", "register") /\ (Turn \/ (doing["watcher"].link \notin open /\ Quiet))
       \/ At("watcher", "watch") /\ doing["watcher"].link \notin open /\ Quiet
    /\ Invalidate(doing["watcher"].link) /\ Sleep /\ watchWake' = TRUE
    /\ UNCHANGED <<config, hubKnows, cycleWake, lanWake, pairs, torn>>

\* A wake ends a sleep, a wait for the next attempt and a watch, all the same.
TakeWatchWake ==
    /\ At("watcher", "asleep") \/ At("watcher", "watch")
    /\ watchWake /\ watchWake' = FALSE /\ Rest("watcher")
    /\ Quiet /\ UNCHANGED <<config, linkState, hubKnows, cycleWake, lanWake, pairs, torn>>

CloudWorkerStep ==
    \/ Look \/ Prepare \/ ForgetSession \/ WatcherFails \/ TakeWatchWake
    \/ \E l \in Link : Dialled(l)
    \/ FindReady("watcher") \/ Register("watcher") \/ Registered("watcher")

----------------------------------------------------------------------------
\* A cloud cycle. It holds cloud_cycle_lock from the moment it reads the settings and the group.

CycleHolds == ~At("cycle", "none")
Pairing == scan # "none" \/ joining # "none"

CycleStarts ==
    /\ At("cycle", "none") /\ cycleWake /\ cycleWake' = FALSE
    /\ LET off == ~enabled \/ Reachable = NoLink
       IN /\ IF off \/ space = NoSpace
             THEN UNCHANGED doing
             ELSE doing' = [doing EXCEPT !["cycle"].at = "prepare", !["cycle"].hub = hub, !["cycle"].space = space]
          /\ IF ~off /\ space = NoSpace THEN StopRuntime(Pairing) ELSE UNCHANGED linkState
    /\ Quiet /\ UNCHANGED <<config, hubKnows, watchWake, lanWake, pairs, torn>>

CyclePrepares ==
    /\ At("cycle", "prepare") /\ EnsureEndpoint(doing["cycle"].hub) /\ Go("cycle", "pick")
    /\ Quiet /\ UNCHANGED <<config, hubKnows, wakes, pairs, torn>>

\* It never dials; without a link it is tried again after a while.
CyclePicks ==
    /\ At("cycle", "pick")
    /\ IF Reachable # NoLink
       THEN doing' = [doing EXCEPT !["cycle"].at = "ensure", !["cycle"].link = cloudLink] /\ UNCHANGED cycleWake
       ELSE Rest("cycle") /\ cycleWake' = TRUE
    /\ Quiet /\ UNCHANGED <<config, linkState, hubKnows, watchWake, lanWake, pairs, torn>>

\* What another member's removal of this device does, wherever it is learned of.
LeaveAfterRemoval == space' = NoSpace /\ stored' = {} /\ enabled' = FALSE /\ UNCHANGED hub /\ WakeAll

RemovedInCycle ==
    /\ At("cycle", "pull") /\ doing["cycle"].link \in open /\ Turn
    /\ LeaveAfterRemoval /\ Rest("cycle")
    /\ UNCHANGED <<linkState, hubKnows, pairs, torn>>

\* Cursor, peers and events of the group the cycle read at its beginning.
CyclePulls ==
    /\ At("cycle", "pull") /\ doing["cycle"].link \in open
    /\ stored' = stored \cup {doing["cycle"].space} /\ Rest("cycle")
    /\ Quiet /\ UNCHANGED <<enabled, hub, space, linkState, hubKnows, wakes, pairs, torn>>

CycleFails ==
    /\ doing["cycle"].at \in {"register", "pull"}
    /\ Turn \/ (doing["cycle"].link \notin open /\ Quiet)
    /\ Invalidate(doing["cycle"].link) /\ Rest("cycle")
    /\ watchWake' = TRUE /\ cycleWake' = TRUE
    /\ UNCHANGED <<config, hubKnows, lanWake, pairs, torn>>

CycleStep ==
    \/ CycleStarts \/ CyclePrepares \/ CyclePicks \/ CyclePulls \/ CycleFails
    \/ FindReady("cycle") \/ Register("cycle") \/ Registered("cycle")

----------------------------------------------------------------------------
\* What the user asks the Hub: one retry over a fresh link, which only the worker dials.

QueryStarts ==
    /\ At("query", "none") /\ Turn /\ enabled /\ space # NoSpace
    /\ EnsureEndpoint(hub)
    /\ doing' = [doing EXCEPT !["query"] = [at |-> "wait", hub |-> hub, space |-> space, link |-> NoLink,
                                           again |-> FALSE]]
    /\ watchWake' = (watchWake \/ cloudLink' \notin OpenIn(leadsTo'))
    /\ UNCHANGED <<config, hubKnows, cycleWake, lanWake, pairs, torn>>

QueryLinked ==
    /\ At("query", "wait") /\ Reachable # NoLink
    /\ doing' = [doing EXCEPT !["query"].at = "ensure", !["query"].link = cloudLink]
    /\ Quiet /\ UNCHANGED <<config, linkState, hubKnows, wakes, pairs, torn>>

QueryTimesOut ==
    /\ At("query", "wait") /\ Reachable = NoLink /\ Rest("query")
    /\ Quiet /\ UNCHANGED <<config, linkState, hubKnows, wakes, pairs, torn>>

QueryAnswered ==
    /\ At("query", "ask") /\ doing["query"].link \in open /\ Rest("query")
    /\ Quiet /\ UNCHANGED <<config, linkState, hubKnows, wakes, pairs, torn>>

QueryFails ==
    /\ doing["query"].at \in {"register", "ask"}
    /\ Turn \/ (doing["query"].link \notin open /\ Quiet)
    /\ Invalidate(doing["query"].link)
    /\ IF doing["query"].again
       THEN Rest("query") /\ watchWake' = TRUE
       ELSE /\ doing' = [doing EXCEPT !["query"].at = "wait", !["query"].link = NoLink, !["query"].again = TRUE]
            /\ watchWake' = (watchWake \/ cloudLink' \notin OpenIn(leadsTo'))
    /\ UNCHANGED <<config, hubKnows, cycleWake, lanWake, pairs, torn>>

QueryStep ==
    \/ QueryLinked \/ QueryTimesOut \/ QueryAnswered \/ QueryFails
    \/ FindReady("query") \/ Register("query") \/ Registered("query")

----------------------------------------------------------------------------
\* The local network's worker: all it does here is to stop the endpoint of a disabled device.

LanWorker ==
    /\ lanWake /\ lanWake' = FALSE
    /\ IF enabled THEN UNCHANGED linkState ELSE StopRuntime(Pairing)
    /\ Quiet /\ UNCHANGED <<config, hubKnows, doing, watchWake, cycleWake, pairs, torn>>

----------------------------------------------------------------------------
\* The user, other devices and the network.

ChangeSettings ==
    /\ Turn /\ \E e \in BOOLEAN, h \in Hub : <<e, h>> # <<enabled, hub>> /\ enabled' = e /\ hub' = h
    /\ WakeAll /\ UNCHANGED <<space, stored, linkState, hubKnows, doing, pairs, torn>>

\* A group of its own, which nobody has seen.
CreateSpace(g) ==
    /\ space = NoSpace /\ g \notin stored /\ \A h \in Hub : g \notin hubKnows[h]
    /\ Turn /\ space' = g /\ enabled' = TRUE /\ WakeAll
    /\ UNCHANGED <<hub, stored, linkState, hubKnows, doing, pairs, torn>>

\* The command turns synchronization off as well.
LeaveSpace ==
    /\ space # NoSpace /\ ~CycleHolds /\ Turn
    /\ StopRuntime(Pairing) /\ space' = NoSpace /\ stored' = {} /\ enabled' = FALSE /\ WakeAll
    /\ UNCHANGED <<hub, hubKnows, doing, pairs, torn>>

\* The application ends after the identity has no group any more and before the rows are cleared.
LeaveCutShort ==
    /\ space # NoSpace /\ ~CycleHolds /\ Turn
    /\ space' = NoSpace /\ torn' = torn \cup {"cut short"}
    /\ endpoint' = NoHub /\ Down /\ doing' = [r \in Role |-> Resting]
    /\ scan' = "none" /\ joining' = "none"
    /\ UNCHANGED <<enabled, hub, stored, hubKnows>> /\ WakeAll

\* A peer says that this device was removed. This takes no lock that a cloud cycle holds.
Removed ==
    /\ space # NoSpace /\ endpoint # NoHub /\ Turn /\ LeaveAfterRemoval
    /\ torn' = (IF CycleHolds THEN torn \cup {"under a cycle"} ELSE torn) /\ UNCHANGED <<linkState, hubKnows, doing, pairs>>

JoinStarts ==
    /\ joining = "none" /\ Turn /\ joining' = "asked" /\ EnsureEndpoint(hub)
    /\ UNCHANGED <<config, hubKnows, doing, wakes, scan, torn>>

\* The approval: the rows of another group are cleared, the peer that invited is stored.
Join(g, h) ==
    /\ joining = "asked" /\ g # space /\ ~CycleHolds /\ joining' = "ending"
    /\ space' = g /\ enabled' = TRUE /\ hub' = h
    /\ stored' = (IF space \in {NoSpace, g} THEN stored ELSE {}) \cup {g}
    /\ Quiet /\ UNCHANGED <<linkState, hubKnows, doing, wakes, scan, torn>>

JoinEnds ==
    /\ joining # "none" /\ joining' = "none" /\ StopRuntime(scan # "none")
    /\ Quiet /\ UNCHANGED <<config, hubKnows, doing, scan, torn>>
    /\ IF enabled THEN WakeAll ELSE UNCHANGED wakes

\* Whether synchronization is on is read when the scan starts.
ScanStarts ==
    /\ scan = "none" /\ Turn /\ scan' = (IF enabled THEN "on" ELSE "off") /\ EnsureEndpoint(hub)
    /\ UNCHANGED <<config, hubKnows, doing, wakes, joining, torn>>

ScanEnds ==
    /\ scan # "none" /\ scan' = "none"
    /\ IF scan = "off" THEN StopRuntime(joining # "none") ELSE UNCHANGED linkState
    /\ Quiet /\ UNCHANGED <<config, hubKnows, doing, wakes, joining, torn>>

\* The user asks for it, or the system's default network changes.
Reconnect ==
    /\ cloudLink # NoLink /\ Turn
    /\ Invalidate(cloudLink) /\ watchWake' = TRUE /\ cycleWake' = TRUE
    /\ UNCHANGED <<config, hubKnows, doing, lanWake, pairs, torn>>

BreakLink(l) ==
    /\ l \in open /\ Turn /\ leadsTo' = [leadsTo EXCEPT ![l] = NoHub]
    /\ UNCHANGED <<config, endpoint, cloudLink, session, hubKnows, doing, wakes, pairs, torn>>

Environment ==
    \/ QueryStarts \/ ChangeSettings \/ LeaveSpace \/ LeaveCutShort \/ Removed \/ JoinStarts \/ ScanStarts \/ Reconnect
    \/ \E g \in Space : CreateSpace(g) \/ \E h \in Hub : Join(g, h)
    \/ \E l \in Link : BreakLink(l)

CloudNext ==
    \/ CloudWorkerStep \/ CycleStep \/ QueryStep \/ LanWorker \/ JoinEnds \/ ScanEnds \/ RemovedInCycle
    \/ Environment

----------------------------------------------------------------------------
\* Properties.

CloudTypeOK ==
    /\ enabled \in BOOLEAN /\ hub \in Hub /\ space \in Space \cup {NoSpace} /\ stored \subseteq Space
    /\ endpoint \in Hub \cup {NoHub} /\ leadsTo \in [Link -> Hub \cup {NoHub}]
    /\ cloudLink \in Link \cup {NoLink} /\ session.link \in Link \cup {NoLink}
    /\ hubKnows \in [Hub -> SUBSET Space]
    /\ watchWake \in BOOLEAN /\ cycleWake \in BOOLEAN /\ lanWake \in BOOLEAN
    /\ turns \in 0 .. MaxTurns

\* Whoever asks the Hub something in the name of a group, or stores what it answers, does so after
\* that very Hub was told of the group: a session is neither taken over by another link nor by
\* another group (ensure_cloud_group). And unless the group was given up under a running cycle, or
\* the giving up was cut short, the rows in the database are those of the current group.
LinkSound ==
    /\ \A r \in Role : doing[r].at \in {"watch", "pull", "ask"} /\ doing[r].link \in open
                      => doing[r].space \in hubKnows[leadsTo[doing[r].link]]
    /\ torn = {} => stored \subseteq {space}

\* Whatever is replaced under whoever dials, registers or asks, a device that synchronizes ends up
\* with a link to the Hub of its settings, and that Hub has its group (cloud_watch_worker).
Linked == enabled /\ space # NoSpace => Reachable # NoLink /\ leadsTo[cloudLink] = hub /\ space \in hubKnows[hub]

\* "Clears only synchronization state when another group member removes this device." (manager.rs:4128)
\* and "Applies approved group bootstrap data and clears routes from a previous sync space." (manager.rs:998):
\* a device in a group holds no rows of another one, if no crash cut the clearing short.
StoredIsOfSpace == space # NoSpace /\ "cut short" \notin torn => stored \subseteq {space}

\* "Releases sockets, relay connections and the protocol router while sync is disabled."
\* (manager.rs:5419, stop_runtime): a device that stays disabled ends up without an endpoint.
EventuallyReleased == <>[](~enabled => endpoint = NoHub)

\* The tasks of the device go on; what users, peers and the network do is not counted on.
CloudSpec ==
    /\ CloudInit /\ [][CloudNext]_cloudVars
    /\ WF_cloudVars(CloudWorkerStep) /\ WF_cloudVars(CycleStep) /\ WF_cloudVars(QueryStep)
    /\ WF_cloudVars(LanWorker) /\ WF_cloudVars(JoinEnds) /\ WF_cloudVars(ScanEnds)

=============================================================================
