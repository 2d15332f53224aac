------------------------------ MODULE Pairing ------------------------------
(* How a device joins a group: it asks a member, with the invitation of a QR code or from nearby;  *)
(* the member's user answers; the device stores the group and confirms, and only then does the     *)
(* member restore and record it. Each attempt is a connection of its own that may break anywhere,  *)
(* and a device may try again while the member still waits for the user's answer to the last try.  *)
EXTENDS Integers, FiniteSets

CONSTANTS
    Device,         \* devices that want to join
    Attempt,        \* their attempts
    MaxInvitations, \* bound: QR codes the member shows
    MaxTroubles     \* bound: broken connections and failing writes

ASSUME PairingAssumption == Attempt \subseteq Nat /\ MaxInvitations \in Nat /\ MaxTroubles \in Nat


NoInvitation == 0

VARIABLES
    invitations,    \* pairing_invitations: one entry at most, by number
    issued,         \* invitations so far
    try,            \* the device's end of every attempt
    handler,        \* the member's end
    incoming,       \* incoming_join_requests
    answering,      \* attempts taken out of it whose answer is being prepared
    joined,         \* devices that stored the group
    members,        \* sync_peers of the member
    troubles        \* so far

pairingVars == <<invitations, issued, try, handler, incoming, answering, joined, members, troubles>>

NoFrame == "nothing"
DeviceOf(i) == try[i].device

PairingInit ==
    /\ invitations = {} /\ issued = 0
    /\ try = [i \in Attempt |-> [at |-> "none", device |-> "nobody", invitation |-> NoInvitation, shown |-> "none"]]
    /\ handler = [i \in Attempt |-> [at |-> "none", response |-> NoFrame, ack |-> NoFrame,
                                     completion |-> NoFrame, up |-> FALSE]]
    /\ incoming = {} /\ answering = {}
    /\ joined = {} /\ members = {}
    /\ troubles = 0

Trouble == troubles < MaxTroubles /\ troubles' = troubles + 1

\* An attempt ends for the device: what it shows, and the connection is dropped.
Ends(i, shown) ==
    /\ try' = [try EXCEPT ![i].at = "over", ![i].shown = shown]
    /\ handler' = [handler EXCEPT ![i].up = FALSE]

----------------------------------------------------------------------------
\* The device.

\* A new QR code replaces the one before.
Invite ==
    /\ issued < MaxInvitations
    /\ issued' = issued + 1 /\ invitations' = {issued + 1}
    /\ UNCHANGED <<try, handler, incoming, answering, joined, members, troubles>>

InvitationExpires ==
    /\ invitations # {} /\ invitations' = {}
    /\ UNCHANGED <<issued, try, handler, incoming, answering, joined, members, troubles>>

\* A device has one attempt at a time; attempts are numbered as they begin. The QR code may be an old one.
Ask(i, d, invitation) ==
    /\ try[i].at = "none"
    /\ \A j \in Attempt : j < i => try[j].at # "none"
    /\ \A j \in Attempt : DeviceOf(j) = d => try[j].at = "over"
    /\ try' = [try EXCEPT ![i] = [at |-> "asked", device |-> d, invitation |-> invitation, shown |-> "pending"]]
    /\ handler' = [handler EXCEPT ![i].at = "asked", ![i].up = TRUE]
    /\ UNCHANGED <<invitations, issued, incoming, answering, joined, members, troubles>>

\* The answer arrives: an approved device stores the group and the routes, and says whether it could.
\* The group may be stored although the rest fails.
Stores(i, group, rest) ==
    LET approved == handler[i].response = "approved"
        ok == ~approved \/ (group /\ rest)
    IN /\ try[i].at = "asked" /\ handler[i].up /\ handler[i].response # NoFrame
       /\ IF ok THEN UNCHANGED troubles ELSE Trouble
       /\ joined' = IF approved /\ group THEN joined \cup {DeviceOf(i)} ELSE joined
       /\ try' = [try EXCEPT ![i].at = IF ok THEN "confirmed" ELSE "failed"]
       /\ handler' = [handler EXCEPT ![i].ack = IF ok THEN "accepted" ELSE "refused"]
       /\ UNCHANGED <<invitations, issued, incoming, answering, members>>

Shown(i) ==
    IF try[i].at = "failed" \/ handler[i].completion = "error" THEN "error" ELSE handler[i].response

Finish(i) ==
    /\ try[i].at \in {"confirmed", "failed"} /\ handler[i].up /\ handler[i].completion # NoFrame
    /\ Ends(i, Shown(i))
    /\ UNCHANGED <<invitations, issued, incoming, answering, joined, members, troubles>>

\* It gives up on a connection that is gone, or when its own time is over.
GiveUp(i) ==
    /\ try[i].at \in {"asked", "confirmed", "failed"}
    /\ Ends(i, IF handler[i].up THEN "expired" ELSE "error")
    /\ UNCHANGED <<invitations, issued, incoming, answering, joined, members, troubles>>

Breaks(i) ==
    /\ handler[i].up /\ Trouble
    /\ handler' = [handler EXCEPT ![i].up = FALSE]
    /\ UNCHANGED <<invitations, issued, try, incoming, answering, joined, members>>

----------------------------------------------------------------------------
\* The member.

Answer(i, response) == handler' = [handler EXCEPT ![i].at = "answered", ![i].response = response]

UseUp(i) == invitations' = invitations \ {try[i].invitation}

\* A device that asked less than five seconds ago is turned away, even with an invitation, which is
\* then used up all the same.
AskedBefore(i) ==
    \E j \in Attempt \ {i} : DeviceOf(j) = DeviceOf(i) /\ handler[j].at \in {"waiting", "answered", "over"}

Admit(i, limited) ==
    LET invited == try[i].invitation # NoInvitation
        valid == invited => try[i].invitation \in invitations
        duplicate == \E j \in incoming : DeviceOf(j) = DeviceOf(i)
    IN /\ handler[i].at = "asked" /\ (limited => AskedBefore(i))
       /\ IF invited /\ valid THEN UseUp(i) ELSE UNCHANGED invitations
       /\ IF ~valid \/ limited \/ duplicate
          THEN Answer(i, "error") /\ UNCHANGED incoming
          ELSE /\ incoming' = incoming \cup {i}
               /\ handler' = [handler EXCEPT ![i].at = "waiting"]
       /\ UNCHANGED <<issued, try, answering, joined, members, troubles>>

\* The user's answer takes the request out of the table; a rejection is sent at once.
Reject(i) ==
    /\ i \in incoming /\ incoming' = incoming \ {i}
    /\ Answer(i, "rejected")
    /\ UNCHANGED <<invitations, issued, try, answering, joined, members, troubles>>

Approve(i) ==
    /\ i \in incoming /\ incoming' = incoming \ {i}
    /\ answering' = answering \cup {i}
    /\ UNCHANGED <<invitations, issued, try, handler, joined, members, troubles>>

\* The group's secrets are collected, unless that fails; the handler may have stopped waiting.
Send(i, ok) ==
    /\ i \in answering /\ answering' = answering \ {i}
    /\ IF ok THEN UNCHANGED troubles ELSE Trouble
    /\ IF handler[i].at = "waiting" THEN Answer(i, IF ok THEN "approved" ELSE "error")
                                    ELSE UNCHANGED handler
    /\ UNCHANGED <<invitations, issued, try, incoming, joined, members>>

\* After JOIN_TIMEOUT_SECS; the connection is not looked at before.
Timeout(i) ==
    /\ handler[i].at = "waiting"
    /\ incoming' = incoming \ {i}
    /\ Answer(i, "expired")
    /\ UNCHANGED <<invitations, issued, try, answering, joined, members, troubles>>

\* Mutant: a failing write goes unnoticed.
CommitBlindly(i, ok) ==
    LET recorded == handler[i].ack = "accepted" /\ handler[i].response = "approved"
    IN /\ handler[i].at = "answered" /\ handler[i].up /\ handler[i].ack # NoFrame
       /\ IF ok THEN UNCHANGED troubles ELSE recorded /\ Trouble
       /\ members' = IF recorded /\ ok THEN members \cup {DeviceOf(i)} ELSE members
       /\ handler' = [handler EXCEPT ![i].at = "over",
                        ![i].completion = IF handler[i].ack = "accepted" THEN "committed" ELSE "error"]
       /\ UNCHANGED <<invitations, issued, try, incoming, answering, joined>>

\* With the device's confirmation it is restored and recorded in one transaction.
Commit(i, ok) ==
    LET recorded == handler[i].ack = "accepted" /\ handler[i].response = "approved"
    IN /\ handler[i].at = "answered" /\ handler[i].up /\ handler[i].ack # NoFrame
       /\ IF ok THEN UNCHANGED troubles ELSE recorded /\ Trouble
       /\ members' = IF recorded /\ ok THEN members \cup {DeviceOf(i)} ELSE members
       /\ handler' = [handler EXCEPT ![i].at = "over",
                        ![i].completion = IF ok /\ handler[i].ack = "accepted" THEN "committed" ELSE "error"]
       /\ UNCHANGED <<invitations, issued, try, incoming, answering, joined>>

\* Without it, within JOIN_HANDSHAKE_TIMEOUT, the handler ends.
Abandon(i) ==
    /\ handler[i].at = "answered"
    /\ handler[i].up => handler[i].ack = NoFrame
    /\ handler' = [handler EXCEPT ![i].at = "over", ![i].up = FALSE]
    /\ UNCHANGED <<invitations, issued, try, incoming, answering, joined, members, troubles>>

DeviceStep(i) == Stores(i, TRUE, TRUE) \/ Finish(i) \/ GiveUp(i)
MemberStep(i) == (\E limited \in BOOLEAN : Admit(i, limited)) \/ Send(i, TRUE) \/ Timeout(i) \/ Commit(i, TRUE) \/ Abandon(i)

PairingNext ==
    \/ Invite \/ InvitationExpires
    \/ \E i \in Attempt :
        \/ \E d \in Device, invitation \in 0 .. issued : Ask(i, d, invitation)
        \/ DeviceStep(i) \/ Breaks(i)
        \/ \E group \in BOOLEAN : Stores(i, group, FALSE)
        \/ MemberStep(i) \/ Approve(i) \/ Reject(i) \/ Send(i, FALSE) \/ Commit(i, FALSE)

PairingSpec == PairingInit /\ [][PairingNext]_pairingVars

----------------------------------------------------------------------------
\* The two ends of an attempt, and no request in two places.
PairingTypeOK ==
    /\ invitations \subseteq 1 .. issued
    /\ \A i \in Attempt :
        /\ try[i].at \in {"none", "asked", "confirmed", "failed", "over"}
        /\ try[i].shown \in {"none", "pending", "approved", "rejected", "expired", "error"}
        /\ handler[i].at \in {"none", "asked", "waiting", "answered", "over"}
    /\ incoming \subseteq Attempt /\ answering \subseteq Attempt /\ incoming \cap answering = {}
    /\ joined \subseteq Device /\ members \subseteq Device

\* The member records a device only after the device has stored the group: an attempt that breaks
\* off half-way leaves no member that does not know of it.
MembersHaveJoined == members \subseteq joined

\* What a device shows as approved is recorded on both sides.
ApprovedIsMutual ==
    \A i \in Attempt : try[i].shown = "approved" => DeviceOf(i) \in members \cap joined

\* An invitation admits one attempt: what others ask with it is refused, however close they come.
Uses(i, invitation) ==
    /\ try[i].invitation = invitation
    /\ handler[i].at = "waiting" \/ handler[i].response \in {"approved", "rejected", "expired"}

InvitationAdmitsOne ==
    \A n \in 1 .. issued : Cardinality({i \in Attempt : Uses(i, n)}) =< 1

\* The table has no request that nobody waits for, which would lock the device out, and no device
\* has two.
NoOrphanRequest ==
    /\ \A i \in incoming : handler[i].at = "waiting"
    /\ \A i, j \in incoming : DeviceOf(i) = DeviceOf(j) => i = j

\* However requests, answers, expirations and broken connections interleave, the two ends and the
\* table of requests agree, and no invitation admits two.
EndsAgree == MembersHaveJoined /\ ApprovedIsMutual /\ InvitationAdmitsOne /\ NoOrphanRequest

\* Every attempt comes to an end on both sides, whatever breaks and whether or not the user answers.
AttemptsOver == \A i \in Attempt : try[i].at \in {"none", "over"} /\ handler[i].at \in {"none", "over"}
=============================================================================
