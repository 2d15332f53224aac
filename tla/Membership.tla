----------------------------- MODULE Membership -----------------------------
(* Who belongs to a group: every device and the Hub keep a ledger of removals and restorations, by *)
(* device with the newest time of each, and merge each other's; a device that learns of its own    *)
(* removal leaves. Routes (sync_peers, and the Hub's devices) are kept for devices that are not    *)
(* removed.                                                                                        *)
EXTENDS Integers, FiniteSets

CONSTANTS
    Member,     \* the devices
    MaxTime     \* bound: removals and restorations

ASSUME MembershipAssumption == MaxTime \in Nat /\ "hub" \notin Member

Node == Member \cup {"hub"}

VARIABLES
    now,        \* the clock, moved by removals and restorations
    ledger,     \* sync_removed_peers of every device, removed_devices of the Hub
    routes,     \* sync_peers of every device, devices of the Hub
    inGroup,    \* the devices that have the group
    reply,      \* the answers to a device's exchanges that it has not merged yet, by worker
    welcomed,   \* devices that stored the group, at whom the approving device has still to commit
    approved    \* when each device was last approved by a user

memberVars == <<now, ledger, routes, inGroup, reply, welcomed, approved>>

NoEntry == [removed |-> 0, restored |-> 0]
NoLedger == [d \in Member |-> NoEntry]
NoReply == [at |-> "none", list |-> NoLedger]
Path == {"cloud", "lan"}

\* The group's devices know each other.
MembershipInit ==
    /\ now = 0
    /\ ledger = [n \in Node |-> NoLedger]
    /\ inGroup = Member
    /\ routes = [n \in Node |-> Member \ {n}]
    /\ reply = [d \in Member |-> [path \in Path |-> NoReply]]
    /\ welcomed = {}
    /\ approved = [d \in Member |-> 0]

IsRemoved(list, d) == list[d].removed > list[d].restored
RemovedIn(list) == {d \in Member : IsRemoved(list, d)}

Later(m, n) == IF m > n THEN m ELSE n

Merged(known, sent) ==
    [d \in Member |-> [removed |-> Later(known[d].removed, sent[d].removed),
                       restored |-> Later(known[d].restored, sent[d].restored)]]

Tick == now < MaxTime /\ now' = now + 1

\* A cycle of either worker holds its lock from its question to the end.
NoCycle(p) == \A path \in Path : reply[p][path].at = "none"

----------------------------------------------------------------------------
\* The user removes a device from the list of those paired.
RemovePeer(p, d) ==
    /\ p \in inGroup /\ d \in routes[p] /\ NoCycle(p) /\ Tick
    /\ ledger' = [ledger EXCEPT ![p][d].removed = now + 1]
    /\ routes' = [routes EXCEPT ![p] = @ \ {d}]
    /\ UNCHANGED <<inGroup, reply, welcomed, approved>>

\* The user of p approves d, which stores the group and restores p; d may be in the group still.
Welcome(p, d) ==
    /\ p \in inGroup /\ d # p /\ NoCycle(d) /\ Tick
    /\ inGroup' = inGroup \cup {d}
    /\ ledger' = [ledger EXCEPT ![d][p].restored = now + 1]
    /\ routes' = [routes EXCEPT ![d] = @ \cup {p}]
    /\ welcomed' = welcomed \cup {<<p, d>>}
    /\ approved' = [approved EXCEPT ![d] = now + 1]
    /\ UNCHANGED reply

\* p restores d when d has confirmed.
Restore(p, d) ==
    /\ <<p, d>> \in welcomed /\ Tick
    /\ welcomed' = welcomed \ {<<p, d>>}
    /\ ledger' = [ledger EXCEPT ![p][d].restored = now + 1]
    /\ routes' = [routes EXCEPT ![p] = IF IsRemoved(ledger'[p], d) THEN @ ELSE @ \cup {d}]
    /\ UNCHANGED <<inGroup, reply, approved>>

\* A device leaves: its group and what the database keeps of it are gone.
GoneFrom(d) ==
    /\ inGroup' = inGroup \ {d}
    /\ ledger' = [ledger EXCEPT ![d] = NoLedger]
    /\ routes' = [routes EXCEPT ![d] = {}]
    /\ welcomed' = {w \in welcomed : w[1] # d}

\* The user leaves the group.
Leave(d) ==
    /\ d \in inGroup /\ NoCycle(d)
    /\ GoneFrom(d)
    /\ UNCHANGED <<now, reply, approved>>

----------------------------------------------------------------------------
\* Exchanges, before the events of a cycle.

\* Mutant: the routes of the removed stay.
TakesInOnly(n, sent) ==
    /\ ledger' = [ledger EXCEPT ![n] = Merged(@, sent)]
    /\ UNCHANGED routes

TakesIn(n, sent) ==
    /\ ledger' = [ledger EXCEPT ![n] = Merged(@, sent)]
    /\ routes' = [routes EXCEPT ![n] = @ \ RemovedIn(ledger'[n])]

\* The one asked, the Hub or a peer, merges what it is told unless the teller is removed, and
\* answers with its whole ledger. A peer that finds itself removed leaves.
Answered(p, path, list) == reply' = [reply EXCEPT ![p][path] = [at |-> "here", list |-> list]]

AskHub(p) ==
    /\ p \in inGroup /\ reply[p]["cloud"].at = "none"
    /\ IF IsRemoved(ledger["hub"], p) THEN UNCHANGED <<ledger, routes>> ELSE TakesIn("hub", ledger[p])
    /\ Answered(p, "cloud", ledger'["hub"])
    /\ UNCHANGED <<now, inGroup, welcomed, approved>>

AskPeer(p, q) ==
    LET told == IF IsRemoved(ledger[q], p) THEN ledger[q] ELSE Merged(ledger[q], ledger[p])
    IN /\ p \in inGroup /\ q \in routes[p] \cap inGroup /\ reply[p]["lan"].at = "none"
       /\ Answered(p, "lan", told)
       /\ IF IsRemoved(told, q)
          THEN GoneFrom(q)
          ELSE /\ IF told = ledger[q] THEN UNCHANGED <<ledger, routes>> ELSE TakesIn(q, ledger[p])
               /\ UNCHANGED <<inGroup, welcomed>>
       /\ UNCHANGED <<now, approved>>

Merges(p, path) ==
    /\ reply[p][path].at = "here"
    /\ reply' = [reply EXCEPT ![p][path] = NoReply]

\* The answer is merged. Whoever reads that it was removed leaves, by the answer and not by what it
\* knows otherwise; the other worker's cycle goes on, and merges what it was told when it may.
Learn(p, path) ==
    /\ Merges(p, path)
    /\ IF IsRemoved(reply[p][path].list, p)
       THEN GoneFrom(p)
       ELSE TakesIn(p, reply[p][path].list) /\ UNCHANGED <<inGroup, welcomed>>
    /\ UNCHANGED <<now, approved>>

\* Mutant: a device takes itself in.
AnnounceToAll(p) ==
    /\ p \in inGroup /\ reply[p]["cloud"].at = "none" /\ ~IsRemoved(ledger["hub"], p)
    /\ routes' = [routes EXCEPT !["hub"] = @ \cup {p},
                                ![p] = (@ \cup routes["hub"]) \ RemovedIn(ledger[p])]
    /\ UNCHANGED <<now, ledger, inGroup, reply, welcomed, approved>>

\* The events of a cycle register the device at the Hub and bring the Hub's other devices; none
\* that is removed is taken in on either side.
Announce(p) ==
    /\ p \in inGroup /\ reply[p]["cloud"].at = "none" /\ ~IsRemoved(ledger["hub"], p)
    /\ routes' = [routes EXCEPT !["hub"] = @ \cup {p},
                                ![p] = (@ \cup (routes["hub"] \ {p})) \ RemovedIn(ledger[p])]
    /\ UNCHANGED <<now, ledger, inGroup, reply, welcomed, approved>>

\* Inbound LAN requests bring the sender's route.
Greeted(p, q) ==
    /\ p \in inGroup /\ q \in inGroup /\ p \in routes[q] /\ ~IsRemoved(ledger[p], q)
    /\ routes' = [routes EXCEPT ![p] = @ \cup ({q} \ {p})]
    /\ UNCHANGED <<now, ledger, inGroup, reply, welcomed, approved>>

Exchange(p) == AskHub(p) \/ Learn(p, "cloud") \/ Learn(p, "lan")

MembershipNext ==
    \E p \in Member :
        \/ Exchange(p) \/ Announce(p) \/ Leave(p)
        \/ \E d \in Member :
            RemovePeer(p, d) \/ Welcome(p, d) \/ Restore(p, d) \/ AskPeer(p, d) \/ Greeted(p, d)

MembershipSpec == MembershipInit /\ [][MembershipNext]_memberVars

----------------------------------------------------------------------------
MembershipTypeOK ==
    /\ now \in 0 .. MaxTime
    /\ \A n \in Node :
        /\ \A d \in Member : ledger[n][d].removed \in 0 .. now /\ ledger[n][d].restored \in 0 .. now
        /\ routes[n] \subseteq Member \ {n}
    /\ inGroup \subseteq Member /\ welcomed \subseteq inGroup \X Member
    /\ \A d \in Member, path \in Path : reply[d][path].at \in {"none", "here"}

\* Nobody keeps a route to a device it knows to be removed, although three paths bring routes and
\* two bring removals.
NoRouteToRemoved == \A n \in Node : routes[n] \cap RemovedIn(ledger[n]) = {}

\* What is known of a removal or a restoration never gets older while the device is in the group.
LedgersGrow ==
    \A n \in Node, d \in Member :
        n \in inGroup' \cup {"hub"} /\ n \in inGroup \cup {"hub"} =>
            /\ ledger'[n][d].removed >= ledger[n][d].removed
            /\ ledger'[n][d].restored >= ledger[n][d].restored

\* A removal holds: no route leads to a removed device and no older state of it comes back.
RemovalsHold == [][NoRouteToRemoved' /\ LedgersGrow]_memberVars

\* A device the Hub knows to be removed leaves, or is restored.
RemovedLeft == \A d \in inGroup : ~IsRemoved(ledger["hub"], d)

\* In the end the devices of the group and the Hub agree, whatever order the exchanges come in.
LedgersAgree == \A d \in inGroup : ledger[d] = ledger["hub"]

\* A device that is approved again stays until it is removed again.
ApprovedStays ==
    [][\A d \in Member :
        d \in inGroup \ inGroup' /\ ~Leave(d) =>
            \E n \in Node \ {d} : ledger[n][d].removed > approved[d]]_memberVars
=============================================================================
