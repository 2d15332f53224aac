------------------------------ MODULE HubQuota ------------------------------
(* The Hub's answer to a full quota: a refused upload leaves a target for the cleanup worker and   *)
(* returns at once; the worker, woken through a Notify, works through the groups, puts a group off *)
(* while an upload is active, and forgets a target when usage has reached it. What a cleanup batch *)
(* deletes is HubStore's subject; here a group's usage is only split into the bytes a cleanup may  *)
(* free and the bytes it may not.                                                                  *)
EXTENDS Integers, FiniteSets

CONSTANTS
    Group,          \* the sync groups of the Hub
    Upload,         \* the blobs clients want to upload
    GroupOf,        \* the group of each
    Size,           \* and its bytes
    MaxBytes,       \* max_group_bytes, not 0: without a quota nothing here happens
    LowWatermark,   \* what a cleanup aims at unless an upload needs more room
    Frame,          \* the slack events have above the quota
    MaxEventBytes,  \* bound: bytes of events submitted
    MaxChanges,     \* bound: changes of retention and removals of devices
    MaxErrors       \* bound: failing uploads and failing cleanups

ASSUME QuotaAssumption ==
    /\ IsFiniteSet(Group) /\ IsFiniteSet(Upload)
    /\ GroupOf \in [Upload -> Group] /\ Size \in [Upload -> Nat \ {0}]
    /\ MaxBytes \in Nat \ {0} /\ LowWatermark \in 0 .. MaxBytes /\ Frame \in Nat
    /\ MaxEventBytes \in Nat /\ MaxChanges \in Nat /\ MaxErrors \in Nat

VARIABLES
    free,       \* bytes of each group a cleanup may delete
    kept,       \* bytes of protected events and their blobs
    upload,     \* "none", "wanted" by its client, "active" with a reservation, or "stored"
    reserved,   \* blob_quota_states: reserved_bytes and active_uploads of each group
    target,     \* quota_cleanup_targets
    permit,     \* the permit of cleanup_wake
    worker,     \* the cleanup worker
    spent       \* what the bounds have left: event bytes, changes and errors

quotaVars == <<free, kept, upload, reserved, target, permit, worker, spent>>

NoTarget == MaxBytes + 1
NoUploads == [bytes |-> 0, uploads |-> 0]
NoRequest == [at |-> "asleep", left |-> {}, group |-> {}, requested |-> NoTarget,
              putOff |-> {}, retry |-> FALSE]

QuotaInit ==
    /\ free = [g \in Group |-> 0]
    /\ kept = [g \in Group |-> 0]
    /\ upload = [u \in Upload |-> "none"]
    /\ reserved = [g \in Group |-> NoUploads]
    /\ target = [g \in Group |-> NoTarget]
    /\ permit = FALSE
    /\ worker = NoRequest
    /\ spent = [events |-> 0, changes |-> 0, errors |-> 0]

Used(g) == free[g] + kept[g]
Active(g) == {u \in Upload : GroupOf[u] = g /\ upload[u] = "active"}
Smaller(m, n) == IF m < n THEN m ELSE n
Less(m, n) == IF m > n THEN m - n ELSE 0       \* saturating_sub

\* Several requests coalesce into the strictest target.
Request(g, bytes) ==
    /\ target' = [target EXCEPT ![g] = Smaller(@, Smaller(bytes, LowWatermark))]
    /\ permit' = TRUE

Spend(what) ==
    /\ spent[what] < CASE what = "events" -> MaxEventBytes
                       [] what = "changes" -> MaxChanges
                       [] what = "errors" -> MaxErrors
    /\ spent' = [spent EXCEPT ![what] = @ + 1]

Want(u) ==
    /\ upload[u] = "none"
    /\ upload' = [upload EXCEPT ![u] = "wanted"]
    /\ UNCHANGED <<free, kept, reserved, target, permit, worker, spent>>

\* A client asks to upload: there is room, or a target is left and the client tries again later.
Reserve(u) ==
    LET g == GroupOf[u]
        required == reserved[g].bytes + Size[u]
    IN /\ upload[u] = "wanted" /\ required =< MaxBytes
       /\ IF Used(g) + required =< MaxBytes
          THEN /\ upload' = [upload EXCEPT ![u] = "active"]
               /\ reserved' = [reserved EXCEPT
                                ![g] = [bytes |-> required, uploads |-> @.uploads + 1]]
               /\ UNCHANGED <<target, permit>>
          ELSE Request(g, MaxBytes - required) /\ UNCHANGED <<upload, reserved>>
       /\ UNCHANGED <<free, kept, worker, spent>>

\* A reservation that is dropped gives back its bytes, the last one all that is left of them, and
\* wakes the worker if the group may have been put off for it.
Drop(u) ==
    LET g == GroupOf[u]
        left == [bytes |-> Less(reserved[g].bytes, Size[u]), uploads |-> Less(reserved[g].uploads, 1)]
    IN  /\ reserved' = [reserved EXCEPT ![g] = IF left.uploads = 0 THEN NoUploads ELSE left]
        /\ permit' = (permit \/ target[g] # NoTarget)
        /\ UNCHANGED target

Store(u) ==
    /\ upload[u] = "active"
    /\ upload' = [upload EXCEPT ![u] = "stored"]
    /\ free' = [free EXCEPT ![GroupOf[u]] = @ + Size[u]]
    /\ Drop(u)
    /\ UNCHANGED <<kept, worker, spent>>

Fail(u) ==
    /\ upload[u] = "active" /\ Spend("errors")
    /\ upload' = [upload EXCEPT ![u] = "wanted"]
    /\ Drop(u)
    /\ UNCHANGED <<free, kept, worker>>

SubmitEvent(g) ==
    /\ Spend("events")
    /\ IF Used(g) + 1 =< Less(MaxBytes + Frame, reserved[g].bytes)
       THEN free' = [free EXCEPT ![g] = @ + 1] /\ UNCHANGED <<target, permit>>
       ELSE Request(g, LowWatermark) /\ UNCHANGED free
    /\ UNCHANGED <<kept, upload, reserved, worker>>

\* A retention snapshot protects bytes or releases them, and wakes the worker.
SetRetention(g, protects) ==
    /\ Spend("changes")
    /\ IF protects
       THEN /\ free[g] > 0
            /\ free' = [free EXCEPT ![g] = @ - 1] /\ kept' = [kept EXCEPT ![g] = @ + 1]
       ELSE /\ kept[g] > 0
            /\ kept' = [kept EXCEPT ![g] = @ - 1] /\ free' = [free EXCEPT ![g] = @ + 1]
    /\ permit' = TRUE
    /\ UNCHANGED <<upload, reserved, target, worker>>

\* Removing a device releases its protections; nobody is woken.
RemoveProtections(g) ==
    /\ kept[g] > 0 /\ Spend("changes")
    /\ free' = [free EXCEPT ![g] = @ + kept[g]]
    /\ kept' = [kept EXCEPT ![g] = 0]
    /\ UNCHANGED <<upload, reserved, target, permit, worker>>

----------------------------------------------------------------------------
\* The cleanup worker.

Begin == worker' = [worker EXCEPT !.at = "groups", !.left = Group, !.putOff = {}, !.retry = FALSE]

Woken ==
    /\ worker.at = "asleep" /\ permit
    /\ permit' = FALSE /\ Begin
    /\ UNCHANGED <<free, kept, upload, reserved, target, spent>>

\* The interval, or the shorter one after a failure that left a target.
TimeUp ==
    /\ worker.at = "asleep"
    /\ Begin
    /\ UNCHANGED <<free, kept, upload, reserved, target, permit, spent>>

NextGroup(g) ==
    /\ worker.at = "groups" /\ g \in worker.left
    /\ worker' = [worker EXCEPT !.at = "batch", !.left = @ \ {g}, !.group = {g},
                                !.requested = target[g]]
    /\ UNCHANGED <<free, kept, upload, reserved, target, permit, spent>>

AllDone ==
    /\ worker.at = "groups" /\ worker.left = {}
    /\ worker' = [worker EXCEPT !.at = "asleep", !.group = {}, !.requested = NoTarget]
    /\ UNCHANGED <<free, kept, upload, reserved, target, permit, spent>>

Goal == IF worker.requested = NoTarget THEN MaxBytes ELSE worker.requested

\* Mutant: a batch frees protected bytes as well.
BatchOfAll(g) ==
    /\ worker.at = "batch" /\ worker.group = {g} /\ reserved[g].uploads = 0
    /\ IF Used(g) > Goal THEN free' = [free EXCEPT ![g] = @ - 1] /\ UNCHANGED worker
       ELSE worker' = [worker EXCEPT !.at = "read"] /\ UNCHANGED free
    /\ UNCHANGED <<kept, upload, reserved, target, permit, spent>>

\* One batch under the group's lock: it deletes something, and reads on, or there is no more to do.
Batch(g) ==
    /\ worker.at = "batch" /\ worker.group = {g} /\ reserved[g].uploads = 0
    /\ IF Used(g) > Goal /\ free[g] > 0
       THEN \E n \in 1 .. Smaller(free[g], Used(g) - Goal) :
                free' = [free EXCEPT ![g] = @ - n] /\ UNCHANGED worker
       ELSE worker' = [worker EXCEPT !.at = "read"] /\ UNCHANGED free
    /\ UNCHANGED <<kept, upload, reserved, target, permit, spent>>

\* The payload of an active upload may lie in its place before it is recorded.
PutOff(g) ==
    /\ worker.at = "batch" /\ worker.group = {g} /\ reserved[g].uploads > 0
    /\ worker' = [worker EXCEPT !.at = "groups", !.putOff = @ \cup {g}]
    /\ UNCHANGED <<free, kept, upload, reserved, target, permit, spent>>

\* The error ends the pass over the groups; a pending target shortens the next sleep.
CleanupFails ==
    /\ worker.at = "batch" /\ Spend("errors")
    /\ worker' = [worker EXCEPT !.at = "asleep", !.left = {}, !.group = {}, !.requested = NoTarget,
                                !.retry = \E g \in Group : target[g] # NoTarget]
    /\ UNCHANGED <<free, kept, upload, reserved, target, permit>>

\* The usage is read without the group's lock, then the target is forgotten if it is still the same.
ReadUsage(g) ==
    /\ worker.at = "read" /\ worker.group = {g}
    /\ worker' = [worker EXCEPT !.at = IF worker.requested # NoTarget /\ Used(g) =< worker.requested
                                       THEN "complete" ELSE "groups"]
    /\ UNCHANGED <<free, kept, upload, reserved, target, permit, spent>>

Complete(g) ==
    /\ worker.at = "complete" /\ worker.group = {g}
    /\ target' = [target EXCEPT ![g] = IF @ = worker.requested THEN NoTarget ELSE @]
    /\ worker' = [worker EXCEPT !.at = "groups"]
    /\ UNCHANGED <<free, kept, upload, reserved, permit, spent>>

WorkerStep ==
    \/ Woken \/ AllDone
    \/ \E g \in Group : NextGroup(g) \/ Batch(g) \/ PutOff(g) \/ ReadUsage(g) \/ Complete(g)

UploadStep(u) == Reserve(u) \/ Store(u)

QuotaNext ==
    \/ WorkerStep \/ TimeUp \/ CleanupFails
    \/ \E u \in Upload : Want(u) \/ UploadStep(u) \/ Fail(u)
    \/ \E g \in Group :
        \/ SubmitEvent(g) \/ RemoveProtections(g)
        \/ \E protects \in BOOLEAN : SetRetention(g, protects)

QuotaSpec == QuotaInit /\ [][QuotaNext]_quotaVars

----------------------------------------------------------------------------
\* The counters stay natural numbers, and a target is at most the low watermark.
QuotaTypeOK ==
    /\ free \in [Group -> Nat] /\ kept \in [Group -> Nat]
    /\ upload \in [Upload -> {"none", "wanted", "active", "stored"}]
    /\ reserved \in [Group -> [bytes : Nat, uploads : Nat]]
    /\ target \in [Group -> (0 .. LowWatermark) \cup {NoTarget}]
    /\ permit \in BOOLEAN
    /\ worker.at \in {"asleep", "groups", "batch", "read", "complete"}
    /\ worker.left \subseteq Group /\ worker.group \subseteq Group /\ worker.putOff \subseteq Group
    /\ worker.requested \in (0 .. LowWatermark) \cup {NoTarget}

\* The counter that keeps the cleanup from a group counts its active uploads, no matter how many
\* were reserved, stored and dropped, and a group without any has nothing reserved.
UploadsCounted ==
    \A g \in Group :
        /\ reserved[g].uploads = Cardinality(Active(g))
        /\ Active(g) = {} => reserved[g] = NoUploads

\* A cleanup that was put off for an upload is not left to the hourly interval: once no upload of
\* the group is active, the worker runs or has a permit to run.
PutOffUntilUploadsEnd ==
    \A g \in worker.putOff :
        target[g] # NoTarget /\ Active(g) = {} => worker.at # "asleep" \/ permit \/ worker.retry

\* A target that a request made stricter while the worker was at it outlives the worker's pass.
StricterTargetStays ==
    \A g \in Group : worker.group = {g} /\ target[g] < worker.requested => target'[g] =< target[g]

\* What is protected leaves room for it: every upload a client keeps trying gets in.
UploadsStored ==
    \A u \in Upload : upload[u] \in {"none", "stored"} \/ kept[GroupOf[u]] + Size[u] > MaxBytes
=============================================================================
