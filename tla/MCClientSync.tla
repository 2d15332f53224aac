---------------------------- MODULE MCClientSync ----------------------------
(* Instances of the parts of a client's synchronization. Each has a state of its own, so that a    *)
(* behaviour of the run is one of pairing, of a group's membership, of receiving events, of the     *)
(* connection to a peer of the local network or of the link to the Hub.                            *)
EXTENDS Pairing, Membership, Receive, LanPeer, CloudLink

CONSTANTS d1, d2, c1, x1, b1, k1, near, far

MCAbout == [e \in Event |-> k1]
MCVersion == [e \in Event |-> CASE e = c1 -> 1 [] e = x1 -> 2 [] OTHER -> 3]
MCFrom == [e \in Event |-> IF e = c1 THEN near ELSE far]
MCLog == [s \in Source |-> IF s = "hub" THEN <<c1, x1>> ELSE <<b1>>]
MCPushed == {{x1}}

VARIABLE part

ClientInit ==
    /\ part \in {"pairing", "membership", "receive", "lan", "link"}
    /\ PairingInit /\ MembershipInit /\ ReceiveInit /\ LanInit /\ CloudInit

ClientNext ==
    \/ /\ part = "pairing" /\ PairingNext
       /\ UNCHANGED <<part, memberVars, receiveVars, lanVars, cloudVars>>
    \/ /\ part = "membership" /\ MembershipNext
       /\ UNCHANGED <<part, pairingVars, receiveVars, lanVars, cloudVars>>
    \/ /\ part = "receive" /\ ReceiveNext
       /\ UNCHANGED <<part, pairingVars, memberVars, lanVars, cloudVars>>
    \/ /\ part = "lan" /\ LanNext
       /\ UNCHANGED <<part, pairingVars, memberVars, receiveVars, cloudVars>>
    \/ /\ part = "link" /\ CloudNext
       /\ UNCHANGED <<part, pairingVars, memberVars, receiveVars, lanVars>>

\* Every task of the client that can go on does: the two ends of a request to join, the cycles that
\* learn who was removed, the queue of received events, the actor of a peer and the watchers of its
\* connections, the cloud worker, its cycles and queries. What users, peers and the network do is not counted on.
ClientFairness ==
    /\ \A i \in Attempt : /\ WF_pairingVars(part = "pairing" /\ DeviceStep(i))
                          /\ WF_pairingVars(part = "pairing" /\ MemberStep(i))
    /\ \A p \in Member : /\ WF_memberVars(part = "membership" /\ AskHub(p))
                         /\ WF_memberVars(part = "membership" /\ Learn(p, "cloud"))
                         /\ WF_memberVars(part = "membership" /\ Learn(p, "lan"))
    /\ WF_receiveVars(part = "receive" /\ OwnStep)
    /\ WF_lanVars(part = "lan" /\ ActorStep) /\ WF_lanVars(part = "lan" /\ WatcherStep)
    /\ WF_cloudVars(part = "link" /\ CloudWorkerStep) /\ WF_cloudVars(part = "link" /\ CycleStep)
    /\ WF_cloudVars(part = "link" /\ QueryStep) /\ WF_cloudVars(part = "link" /\ LanWorker)
    /\ WF_cloudVars(part = "link" /\ JoinEnds) /\ WF_cloudVars(part = "link" /\ ScanEnds)

ClientSpec ==
    /\ ClientInit /\ [][ClientNext]_<<part, pairingVars, memberVars, receiveVars, lanVars, cloudVars>>
    /\ ClientFairness

\* The cells of the parts keep their shape.
SyncTypeOK == PairingTypeOK /\ MembershipTypeOK /\ ReceiveTypeOK /\ LanTypeOK /\ CloudTypeOK

\* No end keeps a member the other does not know, what is received is neither missed nor applied twice,
\* and what a cycle uses is of its space and its link.
SyncSound == EndsAgree /\ ReceivedSound /\ LinkSound

\* Attempts to join end on both sides, removed devices leave and the ledgers agree, what is received
\* is applied or set aside, the end of a connection is noticed, and a device that synchronizes is linked.
EventuallySettled ==
    []<>(AttemptsOver /\ RemovedLeft /\ LedgersAgree /\ AllApplied /\ EndNoticed
        /\ (part = "link" => Linked))
=============================================================================
