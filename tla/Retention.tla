----------------------------- MODULE Retention -----------------------------
(* How a device tells the Hub which items are protected: the pages of old events whose identity   *)
(* the Hub does not know yet, the snapshot of the favourites and pinned items with its generation   *)
(* and fingerprint (sync/manager.rs, sync/repository.rs), and what the Hub makes of requests that   *)
(* come late or twice, to a group that was created anew (service.rs, repository.rs).                *)
(*                                                                                                 *)
(* HubStore has what the protections do at the Hub; here is whether they are the client's.          *)
EXTENDS Naturals, FiniteSets

CONSTANTS
    Favourable,     \* sync keys
    OldEvent,       \* events of the Hub without a retention key (numbers: their cursors)
    KeyAt,          \* [OldEvent -> Favourable]
    Undecodable,    \* SUBSET OldEvent: what this client's decoder revision cannot read
    PlanPage,       \* MAX_EVENTS_PER_BATCH
    MaxToggles,     \* bounds: changes of the flags,
    MaxBreaks       \* and lost replies, groups created anew, devices that join again

ASSUME RetentionAssumption == OldEvent \subseteq Nat /\ IsFiniteSet(OldEvent) /\ KeyAt \in [OldEvent -> Favourable]

VARIABLES
    favs,       \* protected_sync_keys: the favourites and pinned items of this device
    snapshot,   \* cloud_retention_snapshot: the fingerprint the Hub acknowledged
    sequence,   \* next_origin_sequence
    plan,       \* refresh_cloud_retention of the running cycle
    registry,   \* the Hub's retention_epoch, retention_devices, retention_protections and events
    onTheWay,   \* SetRetention requests the Hub has not seen yet
    unheard,    \* history: was a new snapshot sent whose acknowledgement was lost, and none since?
    breaks      \* history: the numbers of steps taken against the bounds

retentionClientVars == <<favs, snapshot, sequence, plan, registry, onTheWay, unheard, breaks>>

NoSnapshot == [epoch |-> 0, keys |-> {}]
NoRegistration == [generation |-> 0, keys |-> {}, mappings |-> {}, deferred |-> {}]
NoPlan == [at |-> "idle", epoch |-> 0, events |-> {}, more |-> FALSE, request |-> NoRegistration]

RetentionClientTypeOK ==
    /\ favs \subseteq Favourable
    /\ snapshot.epoch \in Nat /\ snapshot.keys \subseteq Favourable
    /\ sequence \in Nat
    /\ plan.at \in {"idle", "page", "decoded", "sent", "answered", "more"} /\ plan.events \subseteq OldEvent
    /\ registry.epoch \in Nat \ {0} /\ registry.generation \in 0..sequence
    /\ registry.keys \subseteq Favourable /\ registry.unmapped \cup registry.deferred \subseteq OldEvent
    /\ \A r \in onTheWay : r.generation \in 0..sequence /\ r.keys \subseteq Favourable
    /\ unheard \in BOOLEAN

RetentionClientInit ==
    /\ favs \in {{}, Favourable}
    /\ snapshot = NoSnapshot
    /\ sequence = 0
    /\ plan = NoPlan
    /\ registry = [epoch |-> 1, generation |-> 0, keys |-> {}, unmapped |-> OldEvent, deferred |-> {}]
    /\ onTheWay = {}
    /\ unheard = FALSE
    /\ breaks = [toggles |-> 0, other |-> 0]

Against(field, bound) == breaks[field] < bound /\ breaks' = [breaks EXCEPT ![field] = @ + 1]

-----------------------------------------------------------------------------
(* The client *)

\* The user, or an event that is applied, changes a flag.
ToggleFlag(k) ==
    /\ Against("toggles", MaxToggles)
    /\ favs' = IF k \in favs THEN favs \ {k} ELSE favs \cup {k}
    /\ UNCHANGED <<snapshot, sequence, plan, registry, onTheWay, unheard>>

\* retention_candidates: the first page of what is neither registered nor put off by this device.
Candidates ==
    LET open == registry.unmapped \ registry.deferred
    IN  {e \in open : Cardinality({f \in open : f < e}) < PlanPage}

FetchPlan ==
    /\ plan.at \in {"idle", "more"}
    /\ plan' = [NoPlan EXCEPT !.at = "page", !.epoch = registry.epoch, !.events = Candidates,
                              !.more = Cardinality(Candidates) = PlanPage]
    /\ UNCHANGED <<favs, snapshot, sequence, registry, onTheWay, unheard, breaks>>

\* merge_retention_state: what an event says of its item is learned, unless something newer is known.
DecodePage(learned) ==
    /\ plan.at = "page"
    /\ learned \subseteq {KeyAt[e] : e \in plan.events \ Undecodable}
    /\ favs' = favs \cup learned
    /\ plan' = [plan EXCEPT !.at = "decoded"]
    /\ UNCHANGED <<snapshot, sequence, registry, onTheWay, unheard, breaks>>

ChangedSince(keys) == snapshot # [epoch |-> plan.epoch, keys |-> keys]

\* The flags are read after the page was merged. A snapshot like the acknowledged one is not sent.
SendSnapshot ==
    /\ plan.at = "decoded"
    /\ LET changed == ChangedSince(favs)
           request == [generation |-> IF changed THEN sequence + 1 ELSE 0, keys |-> favs,
                       mappings |-> plan.events \ Undecodable,
                       deferred |-> plan.events \cap Undecodable]
       IN  IF changed \/ plan.events # {}
           THEN /\ sequence' = IF changed THEN sequence + 1 ELSE sequence
                /\ onTheWay' = onTheWay \cup {request}
                /\ plan' = [plan EXCEPT !.at = "sent", !.request = request]
           ELSE plan' = NoPlan /\ UNCHANGED <<sequence, onTheWay>>
    /\ UNCHANGED <<favs, snapshot, registry, unheard, breaks>>

\* RetentionUpdated: the fingerprint of what was sent is remembered.
SnapshotTaken ==
    /\ plan.at = "answered"
    /\ LET fresh == plan.request.generation > 0
       IN  /\ snapshot' = IF fresh THEN [epoch |-> plan.epoch, keys |-> plan.request.keys] ELSE snapshot
           /\ unheard' = (unheard /\ ~fresh)
    /\ plan' = IF plan.more THEN [NoPlan EXCEPT !.at = "more"] ELSE NoPlan
    /\ UNCHANGED <<favs, sequence, registry, onTheWay, breaks>>

\* The connection breaks or the call times out; the Hub may still get the request, or has got it.
CycleGivesUp ==
    /\ Against("other", MaxBreaks)
    /\ plan.at # "idle"
    /\ plan' = NoPlan
    /\ \/ UNCHANGED onTheWay
       \/ plan.at = "sent" /\ onTheWay' = onTheWay \ {plan.request}
    /\ unheard' = (unheard \/ plan.request.generation > 0)
    /\ UNCHANGED <<favs, snapshot, sequence, registry>>

-----------------------------------------------------------------------------
(* The Hub *)

\* A snapshot is taken only with a newer generation.
NewerSnapshot(r) == r.generation > registry.generation

\* set_retention: the snapshot, the identities and what could not be read, in one transaction.
Register(r) ==
    /\ r \in onTheWay
    /\ registry' = [registry EXCEPT
          !.generation = IF NewerSnapshot(r) THEN r.generation ELSE @,
          !.keys = IF NewerSnapshot(r) THEN r.keys ELSE @,
          !.unmapped = @ \ r.mappings,
          !.deferred = @ \cup (r.deferred \cap registry.unmapped)]
    /\ onTheWay' = onTheWay \ {r}
    /\ plan' = IF plan.at = "sent" /\ plan.request = r THEN [plan EXCEPT !.at = "answered"] ELSE plan
    /\ UNCHANGED <<favs, snapshot, sequence, unheard, breaks>>

\* Another device, perhaps of a newer version, registers an event.
OtherRegisters(e) ==
    /\ e \in registry.unmapped
    /\ registry' = [registry EXCEPT !.unmapped = @ \ {e}]
    /\ UNCHANGED <<favs, snapshot, sequence, plan, onTheWay, unheard, breaks>>

\* The group is created anew, with another epoch.
CreateAnew ==
    /\ Against("other", MaxBreaks)
    /\ registry' = [epoch |-> registry.epoch + 1, generation |-> 0, keys |-> {}, unmapped |-> {}, deferred |-> {}]
    /\ UNCHANGED <<favs, snapshot, sequence, plan, onTheWay, unheard>>

\* apply_pairing_bootstrap: clear_cloud_retention_snapshot.
ForgottenSnapshot == NoSnapshot

\* The device is removed from the group, which drops its rows at the Hub, and approved again.
JoinAgain ==
    /\ Against("other", MaxBreaks)
    /\ plan.at = "idle"
    /\ registry' = [registry EXCEPT !.generation = 0, !.keys = {}, !.deferred = {}]
    /\ snapshot' = ForgottenSnapshot
    /\ UNCHANGED <<favs, sequence, plan, onTheWay, unheard>>

-----------------------------------------------------------------------------
PlanStep ==
    \/ FetchPlan \/ SendSnapshot \/ SnapshotTaken
    \/ \E learned \in SUBSET Favourable : DecodePage(learned)

RegisterStep == \E r \in onTheWay : Register(r)

RetentionClientNext ==
    \/ \E k \in Favourable : ToggleFlag(k)
    \/ PlanStep \/ RegisterStep \/ CycleGivesUp
    \/ \E e \in OldEvent : OtherRegisters(e)
    \/ CreateAnew \/ JoinAgain

\* The cycles are run and the Hub serves what reaches it; connections and users are not counted on.
RetentionClientFairness ==
    WF_retentionClientVars(PlanStep) /\ WF_retentionClientVars(RegisterStep)

RetentionClientSpec ==
    RetentionClientInit /\ [][RetentionClientNext]_retentionClientVars /\ RetentionClientFairness

-----------------------------------------------------------------------------
(* Properties *)

\* What a cycle would take for reported: no request is on its way and the fingerprint is the same.
LooksReported ==
    plan.at = "idle" /\ onTheWay = {} /\ snapshot = [epoch |-> registry.epoch, keys |-> favs]

\* The items that a device takes for reported are those the Hub protects: favourites are exempt
\* from the Hub's cleanup.
ReportedIsProtected == LooksReported => registry.keys = favs

\* The same as long as every snapshot that was sent was acknowledged or followed by one that was.
ReportedUnlessUnheard == LooksReported /\ ~unheard => registry.keys = favs

\* Everything a reading device can register is, and the flags are the client's.
FlagsRegistered ==
    /\ registry.unmapped \subseteq registry.deferred
    /\ unheard \/ registry.keys = favs
=============================================================================
