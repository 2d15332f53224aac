----------------------------- MODULE HubProofs -----------------------------
(* What holds of the parts of the Hub process beside its store, however many groups, uploads,      *)
(* streams, pages and devices there are: the quota and its cleanup worker, the watch streams, the  *)
(* pages of the record list and the directory.                                                     *)
EXTENDS MCHub, FiniteSetTheorems, TLAPS

----------------------------------------------------------------------------
\* The quota. The worker is a record, and a group that was put off while an upload held it either
\* still has that upload, has no target, or has left the worker a permit.

Targets == (0 .. LowWatermark) \cup {NoTarget}

Workers == [at : {"asleep", "groups", "batch", "read", "complete"}, left : SUBSET Group,
            group : SUBSET Group, requested : Targets, putOff : SUBSET Group, retry : BOOLEAN]

PutOffWakes ==
    \A g \in worker.putOff : target[g] # NoTarget /\ reserved[g].uploads = 0 => permit

QuotaInv == QuotaTypeOK /\ worker \in Workers /\ UploadsCounted /\ PutOffWakes

\* A target that a request leaves is never above the one there was, nor above the low watermark.
LEMMA Strictest ==
    ASSUME NEW t \in Targets, NEW n \in Int, n >= 0
    PROVE  /\ Smaller(t, Smaller(n, LowWatermark)) \in 0 .. LowWatermark
           /\ Smaller(t, Smaller(n, LowWatermark)) <= t
    BY QuotaAssumption DEF Targets, NoTarget, Smaller

\* The uploads of a group are finitely many.
LEMMA ActiveFinite ==
    ASSUME NEW g \in Group
    PROVE  IsFiniteSet(Active(g)) /\ Cardinality(Active(g)) \in Nat
    <1>1. Active(g) \subseteq Upload  BY DEF Active
    <1>2. IsFiniteSet(Active(g))  BY <1>1, QuotaAssumption, FS_Subset
    <1> QED  BY <1>2, FS_CardinalityType

\* At the start nothing is reserved and nobody is put off.
LEMMA QuotaStarts == QuotaInit => QuotaInv
    <1> SUFFICES ASSUME QuotaInit PROVE QuotaInv
        OBVIOUS
    <1>1. worker \in Workers  BY DEF QuotaInit, NoRequest, Workers, Targets
    <1>2. QuotaTypeOK  BY QuotaAssumption DEF QuotaInit, QuotaTypeOK, NoRequest, NoUploads
    <1>3. UploadsCounted
        <2>1. \A g \in Group : Active(g) = {}  BY DEF QuotaInit, Active
        <2> QED  BY <2>1, FS_EmptySet DEF UploadsCounted, QuotaInit, NoUploads
    <1>4. PutOffWakes  BY DEF PutOffWakes, QuotaInit, NoRequest
    <1> QED  BY <1>1, <1>2, <1>3, <1>4 DEF QuotaInv

\* Where the reservations and the uploads stay as they are, the counters still count them.
LEMMA CountedStay ==
    ASSUME UploadsCounted, UNCHANGED <<upload, reserved>>
    PROVE  UploadsCounted'
    BY DEF UploadsCounted, Active

\* One upload more is one more that is counted.
LEMMA CountedMore ==
    ASSUME QuotaInv, NEW u \in Upload, upload[u] # "active",
           upload' = [upload EXCEPT ![u] = "active"],
           NEW n \in Nat,
           reserved' = [reserved EXCEPT ![GroupOf[u]] =
                            [bytes |-> n, uploads |-> reserved[GroupOf[u]].uploads + 1]]
    PROVE  UploadsCounted'
    <1> DEFINE h == GroupOf[u]
    <1>1. h \in Group  BY QuotaAssumption
    <1>2. upload \in [Upload -> {"none", "wanted", "active", "stored"}] /\ reserved \in [Group -> [bytes : Nat, uploads : Nat]]
        BY DEF QuotaInv, QuotaTypeOK
    <1>3. Active(h)' = Active(h) \cup {u} /\ u \notin Active(h)  BY <1>2 DEF Active
    <1>4. Cardinality(Active(h)') = Cardinality(Active(h)) + 1
        BY <1>1, <1>3, ActiveFinite, FS_AddElement
    <1>5. \A g \in Group \ {h} : Active(g)' = Active(g) /\ reserved'[g] = reserved[g]
        BY <1>1, <1>2 DEF Active
    <1>6. reserved'[h].uploads = reserved[h].uploads + 1  BY <1>1, <1>2
    <1>7. reserved[h].uploads = Cardinality(Active(h))  BY <1>1 DEF QuotaInv, UploadsCounted
    <1>8. ASSUME NEW g \in Group
          PROVE  /\ reserved'[g].uploads = Cardinality(Active(g)')
                 /\ Active(g)' = {} => reserved'[g] = NoUploads
        <2>1. CASE g = h  BY <2>1, <1>3, <1>4, <1>6, <1>7
        <2>2. CASE g # h  BY <2>2, <1>5 DEF QuotaInv, UploadsCounted
        <2> QED  BY <2>1, <2>2
    <1> QED  BY <1>8 DEF UploadsCounted, NoUploads

\* One upload less: the counter goes down by one, and the last one takes the state away.
LEMMA CountedLess ==
    ASSUME QuotaInv, NEW u \in Upload, upload[u] = "active",
           NEW s, s # "active", upload' = [upload EXCEPT ![u] = s], Drop(u)
    PROVE  UploadsCounted'
    <1> DEFINE h == GroupOf[u]
               left == [bytes |-> Less(reserved[h].bytes, Size[u]),
                        uploads |-> Less(reserved[h].uploads, 1)]
    <1>1. h \in Group  BY QuotaAssumption
    <1>2. upload \in [Upload -> {"none", "wanted", "active", "stored"}] /\ reserved \in [Group -> [bytes : Nat, uploads : Nat]]
        BY DEF QuotaInv, QuotaTypeOK
    <1>3. Active(h)' = Active(h) \ {u} /\ u \in Active(h)  BY <1>2 DEF Active
    <1>4. Cardinality(Active(h)') = Cardinality(Active(h)) - 1 /\ IsFiniteSet(Active(h)')
        <2>1. IsFiniteSet(Active(h))  BY <1>1, ActiveFinite
        <2>2. /\ IsFiniteSet(Active(h) \ {u})
              /\ Cardinality(Active(h) \ {u}) = Cardinality(Active(h)) - 1
            BY <2>1, <1>3, FS_RemoveElement
        <2> QED  BY <2>2, <1>3
    <1>5. \A g \in Group \ {h} : Active(g)' = Active(g)  BY <1>2 DEF Active
    <1>6. reserved' = [reserved EXCEPT ![h] = IF left.uploads = 0 THEN NoUploads ELSE left]
        BY DEF Drop
    <1>7. reserved[h].uploads = Cardinality(Active(h))  BY <1>1 DEF QuotaInv, UploadsCounted
    <1>8. Cardinality(Active(h)) # 0 /\ Cardinality(Active(h)) \in Nat
        BY <1>1, <1>3, ActiveFinite, FS_EmptySet
    <1>9. left.uploads = Cardinality(Active(h)) - 1  BY <1>7, <1>8 DEF Less
    <1>10. left.uploads = 0 <=> Active(h)' = {}  BY <1>4, <1>9, FS_EmptySet
    <1>11. /\ reserved'[h] = IF left.uploads = 0 THEN NoUploads ELSE left
           /\ \A g \in Group \ {h} : reserved'[g] = reserved[g]
        BY <1>1, <1>2, <1>6
    <1>12. reserved'[h].uploads = left.uploads  BY <1>11 DEF NoUploads
    <1>13. ASSUME NEW g \in Group
           PROVE  /\ reserved'[g].uploads = Cardinality(Active(g)')
                  /\ Active(g)' = {} => reserved'[g] = NoUploads
        <2>1. CASE g = h  BY <2>1, <1>4, <1>9, <1>10, <1>11, <1>12
        <2>2. CASE g # h  BY <2>2, <1>5, <1>11 DEF QuotaInv, UploadsCounted
        <2> QED  BY <2>1, <2>2
    <1> QED  BY <1>13 DEF UploadsCounted, NoUploads

\* What a request leaves: targets of the right kind, none above what it was, and a permit.
LEMMA RequestStays ==
    ASSUME QuotaInv, NEW g \in Group, NEW n \in Int, n >= 0, Request(g, n)
    PROVE  /\ target' \in [Group -> Targets] /\ permit' = TRUE
           /\ \A h \in Group : target'[h] <= target[h]
    <1> DEFINE t == Smaller(target[g], Smaller(n, LowWatermark))
    <1>1. target \in [Group -> Targets]  BY DEF QuotaInv, QuotaTypeOK, Targets
    <1>2. target' = [target EXCEPT ![g] = t] /\ permit' = TRUE  BY DEF Request
    <1>3. t \in 0 .. LowWatermark /\ t <= target[g]  BY <1>1, Strictest
    <1>4. t \in Targets  BY <1>3 DEF Targets
    <1>5. \A h \in Group : target[h] \in Int
        BY <1>1, QuotaAssumption DEF Targets, NoTarget
    <1> HIDE DEF t
    <1>6. target' \in [Group -> Targets]  BY <1>1, <1>2, <1>4
    <1>7. \A h \in Group : target'[h] = IF h = g THEN t ELSE target[h]  BY <1>1, <1>2
    <1>8. \A h \in Group : target'[h] <= target[h]  BY <1>3, <1>5, <1>7
    <1> QED  BY <1>2, <1>6, <1>8

\* The types of the cells, one by one.
LEMMA QuotaTyped ==
    ASSUME QuotaInv
    PROVE  /\ free \in [Group -> Nat] /\ kept \in [Group -> Nat]
           /\ upload \in [Upload -> {"none", "wanted", "active", "stored"}]
           /\ reserved \in [Group -> [bytes : Nat, uploads : Nat]]
           /\ target \in [Group -> Targets] /\ permit \in BOOLEAN /\ worker \in Workers
    BY DEF QuotaInv, QuotaTypeOK, Targets

\* What a dropped reservation leaves is of the right kind, and a permit stays.
LEMMA DropTyped ==
    ASSUME QuotaInv, NEW u \in Upload, Drop(u)
    PROVE  /\ reserved' \in [Group -> [bytes : Nat, uploads : Nat]]
           /\ permit' \in BOOLEAN /\ target' = target /\ (permit => permit')
           /\ target[GroupOf[u]] # NoTarget => permit'
           /\ \A g \in Group : g # GroupOf[u] => reserved'[g] = reserved[g]
    <1> DEFINE h == GroupOf[u]
               left == [bytes |-> Less(reserved[h].bytes, Size[u]),
                        uploads |-> Less(reserved[h].uploads, 1)]
               new == IF left.uploads = 0 THEN NoUploads ELSE left
    <1>1. h \in Group /\ Size[u] \in Nat  BY QuotaAssumption
    <1>2. reserved[h].bytes \in Nat /\ reserved[h].uploads \in Nat  BY <1>1, QuotaTyped
    <1>3. left \in [bytes : Nat, uploads : Nat]  BY <1>1, <1>2 DEF Less
    <1>4. new \in [bytes : Nat, uploads : Nat]  BY <1>3 DEF NoUploads
    <1>5. reserved' = [reserved EXCEPT ![h] = new] /\ permit' = (permit \/ target[h] # NoTarget) /\ target' = target
        BY DEF Drop
    <1>6. permit \in BOOLEAN  BY QuotaTyped
    <1> HIDE DEF new
    <1> QED  BY <1>1, <1>4, <1>5, <1>6, QuotaTyped

\* Every step keeps the invariant, and lowers the worker's target at most.
QuotaGood == QuotaInv' /\ StricterTargetStays

\* Where the targets only fall, a stricter target stays.
LEMMA FallingStays ==
    ASSUME \A h \in Group : target'[h] <= target[h]
    PROVE  StricterTargetStays
    BY DEF StricterTargetStays

LEMMA SameStays ==
    ASSUME QuotaInv, target' = target
    PROVE  StricterTargetStays
    <1>1. \A h \in Group : target[h] \in Int
        BY QuotaTyped, QuotaAssumption DEF Targets, NoTarget
    <1> QED  BY <1>1 DEF StricterTargetStays

\* The steps of clients.
LEMMA WantStep == ASSUME QuotaInv, NEW u \in Upload, Want(u) PROVE QuotaGood
    <1>1. upload' = [upload EXCEPT ![u] = "wanted"] /\ upload[u] = "none"
          /\ UNCHANGED <<free, kept, reserved, target, permit, worker>>
        BY DEF Want
    <1>2. QuotaTypeOK' /\ worker' \in Workers
        <2>1. upload' \in [Upload -> {"none", "wanted", "active", "stored"}]  BY <1>1, QuotaTyped
        <2> QED  BY <1>1, <2>1 DEF QuotaInv, QuotaTypeOK
    <1>3. UploadsCounted'
        <2>1. \A g \in Group : Active(g)' = Active(g)  BY <1>1, QuotaTyped DEF Active
        <2> QED  BY <1>1, <2>1 DEF QuotaInv, UploadsCounted, NoUploads
    <1>4. PutOffWakes'  BY <1>1 DEF QuotaInv, PutOffWakes
    <1> QED  BY <1>1, <1>2, <1>3, <1>4, SameStays DEF QuotaInv, QuotaGood

LEMMA ReserveStep == ASSUME QuotaInv, NEW u \in Upload, Reserve(u) PROVE QuotaGood
    <1> DEFINE g == GroupOf[u]
               required == reserved[g].bytes + Size[u]
    <1>1. g \in Group /\ Size[u] \in Nat  BY QuotaAssumption
    <1>2. reserved[g].bytes \in Nat /\ reserved[g].uploads \in Nat  BY <1>1, QuotaTyped
    <1>3. required \in Nat  BY <1>1, <1>2
    <1>4. upload[u] = "wanted" /\ required =< MaxBytes /\ UNCHANGED <<free, kept, worker>>
        BY DEF Reserve
    <1>5. CASE Used(g) + required =< MaxBytes
        <2>1. /\ upload' = [upload EXCEPT ![u] = "active"]
              /\ reserved' = [reserved EXCEPT
                                  ![g] = [bytes |-> required, uploads |-> reserved[g].uploads + 1]]
              /\ UNCHANGED <<target, permit>>
            BY <1>5 DEF Reserve
        <2>2. UploadsCounted'  BY <1>3, <1>4, <2>1, CountedMore
        <2>3. [bytes |-> required, uploads |-> reserved[g].uploads + 1] \in [bytes : Nat, uploads : Nat]
            BY <1>2, <1>3
        <2>4. reserved' \in [Group -> [bytes : Nat, uploads : Nat]]
            <3> DEFINE new == [bytes |-> required, uploads |-> reserved[g].uploads + 1]
            <3>1. new \in [bytes : Nat, uploads : Nat]  BY <2>3
            <3>2. reserved' = [reserved EXCEPT ![g] = new]  BY <2>1
            <3> HIDE DEF new
            <3> QED  BY <3>1, <3>2, <1>1, QuotaTyped
        <2>5. upload' \in [Upload -> {"none", "wanted", "active", "stored"}]  BY <2>1, QuotaTyped
        <2>6. QuotaTypeOK' /\ worker' \in Workers
            BY <1>4, <2>1, <2>4, <2>5 DEF QuotaInv, QuotaTypeOK
        <2>7. PutOffWakes'
            <3>1. \A h \in Group : reserved'[h].uploads = 0 => reserved[h].uploads = 0
                <4>1. reserved'[g].uploads = reserved[g].uploads + 1  BY <1>1, <2>1, QuotaTyped
                <4>2. \A h \in Group : h # g => reserved'[h] = reserved[h]  BY <2>1, QuotaTyped
                <4> QED  BY <1>2, <4>1, <4>2
            <3>2. worker.putOff \subseteq Group  BY QuotaTyped DEF Workers
            <3> QED  BY <1>4, <2>1, <3>1, <3>2 DEF QuotaInv, PutOffWakes
        <2> QED  BY <2>1, <2>2, <2>6, <2>7, SameStays DEF QuotaInv, QuotaGood
    <1>6. CASE ~(Used(g) + required =< MaxBytes)
        <2>1. Request(g, MaxBytes - required) /\ UNCHANGED <<upload, reserved>>
            BY <1>6 DEF Reserve
        <2>2. MaxBytes - required \in Int /\ MaxBytes - required >= 0
            BY <1>3, <1>4, QuotaAssumption
        <2>3. target' \in [Group -> Targets] /\ permit' = TRUE /\ \A h \in Group : target'[h] <= target[h]
            BY <1>1, <2>1, <2>2, RequestStays
        <2>4. QuotaTypeOK' /\ worker' \in Workers
            BY <1>4, <2>1, <2>3 DEF QuotaInv, QuotaTypeOK, Targets
        <2>5. UploadsCounted'  BY <2>1, CountedStay DEF QuotaInv
        <2>6. PutOffWakes'  BY <2>3 DEF PutOffWakes
        <2> QED  BY <2>3, <2>4, <2>5, <2>6, FallingStays DEF QuotaInv, QuotaGood
    <1> QED  BY <1>5, <1>6

\* Stored or failed, the upload is active no more.
LEMMA DropStep ==
    ASSUME QuotaInv, NEW u \in Upload, upload[u] = "active", Drop(u),
           NEW s \in {"wanted", "stored"}, upload' = [upload EXCEPT ![u] = s],
           UNCHANGED <<kept, worker>>, free' \in [Group -> Nat]
    PROVE  QuotaGood
    <1>1. UploadsCounted'  BY CountedLess
    <1>2. upload' \in [Upload -> {"none", "wanted", "active", "stored"}]  BY QuotaTyped
    <1>3. QuotaTypeOK' /\ worker' \in Workers
        BY <1>2, DropTyped DEF QuotaInv, QuotaTypeOK
    <1>4. PutOffWakes'
        <2>1. CASE permit'  BY <2>1 DEF PutOffWakes
        <2>2. CASE ~permit'
            <3>1. target[GroupOf[u]] = NoTarget /\ target' = target /\ ~permit  BY <2>2, DropTyped
            <3>2. \A g \in Group : g # GroupOf[u] => reserved'[g] = reserved[g]  BY DropTyped
            <3>3. worker.putOff \subseteq Group  BY QuotaTyped DEF Workers
            <3> QED  BY <3>1, <3>2, <3>3 DEF QuotaInv, PutOffWakes
        <2> QED  BY <2>1, <2>2
    <1> QED  BY <1>1, <1>3, <1>4, DropTyped, SameStays DEF QuotaInv, QuotaGood

LEMMA StoreStep == ASSUME QuotaInv, NEW u \in Upload, Store(u) PROVE QuotaGood
    <1>1. upload[u] = "active" /\ Drop(u) /\ upload' = [upload EXCEPT ![u] = "stored"]
          /\ UNCHANGED <<kept, worker>>
        BY DEF Store
    <1>2. free' \in [Group -> Nat]
        <2>1. GroupOf[u] \in Group /\ Size[u] \in Nat  BY QuotaAssumption
        <2>2. free' = [free EXCEPT ![GroupOf[u]] = @ + Size[u]]  BY DEF Store
        <2>3. free[GroupOf[u]] + Size[u] \in Nat  BY <2>1, QuotaTyped
        <2> QED  BY <2>1, <2>2, <2>3, QuotaTyped
    <1> QED  BY <1>1, <1>2, DropStep

LEMMA FailStep == ASSUME QuotaInv, NEW u \in Upload, Fail(u) PROVE QuotaGood
    <1>1. upload[u] = "active" /\ Drop(u) /\ upload' = [upload EXCEPT ![u] = "wanted"]
          /\ UNCHANGED <<free, kept, worker>>
        BY DEF Fail
    <1>2. free' \in [Group -> Nat]  BY <1>1, QuotaTyped
    <1> QED  BY <1>1, <1>2, DropStep

\* Where only bytes move, and perhaps a permit is left.
LEMMA BytesStep ==
    ASSUME QuotaInv, free' \in [Group -> Nat], kept' \in [Group -> Nat],
           UNCHANGED <<upload, reserved, worker, target>>, permit' = permit \/ permit' = TRUE
    PROVE  QuotaGood
    <1>1. QuotaTypeOK' /\ worker' \in Workers  BY DEF QuotaInv, QuotaTypeOK
    <1>2. UploadsCounted'  BY CountedStay DEF QuotaInv
    <1>3. PutOffWakes'  BY DEF QuotaInv, PutOffWakes
    <1> QED  BY <1>1, <1>2, <1>3, SameStays DEF QuotaInv, QuotaGood

LEMMA SubmitStep == ASSUME QuotaInv, NEW g \in Group, SubmitEvent(g) PROVE QuotaGood
    <1>1. UNCHANGED <<kept, upload, reserved, worker>>  BY DEF SubmitEvent
    <1>2. CASE Used(g) + 1 =< Less(MaxBytes + Frame, reserved[g].bytes)
        <2>1. free' = [free EXCEPT ![g] = @ + 1] /\ UNCHANGED <<target, permit>>
            BY <1>2 DEF SubmitEvent
        <2>2. free' \in [Group -> Nat]
            <3>1. free[g] + 1 \in Nat  BY QuotaTyped
            <3> QED  BY <3>1, <2>1, QuotaTyped
        <2>3. kept' \in [Group -> Nat]  BY <1>1, QuotaTyped
        <2> QED  BY <1>1, <2>1, <2>2, <2>3, BytesStep
    <1>3. CASE ~(Used(g) + 1 =< Less(MaxBytes + Frame, reserved[g].bytes))
        <2>1. Request(g, LowWatermark) /\ UNCHANGED free  BY <1>3 DEF SubmitEvent
        <2>2. LowWatermark \in Int /\ LowWatermark >= 0  BY QuotaAssumption
        <2>3. target' \in [Group -> Targets] /\ permit' = TRUE /\ \A h \in Group : target'[h] <= target[h]
            BY <2>1, <2>2, RequestStays
        <2>4. QuotaTypeOK' /\ worker' \in Workers
            BY <1>1, <2>1, <2>3 DEF QuotaInv, QuotaTypeOK, Targets
        <2>5. UploadsCounted'  BY <1>1, CountedStay DEF QuotaInv
        <2>6. PutOffWakes'  BY <2>3 DEF PutOffWakes
        <2> QED  BY <2>3, <2>4, <2>5, <2>6, FallingStays DEF QuotaInv, QuotaGood
    <1> QED  BY <1>2, <1>3

LEMMA RetentionStep ==
    ASSUME QuotaInv, NEW g \in Group, NEW protects \in BOOLEAN, SetRetention(g, protects)
    PROVE  QuotaGood
    <1>1. UNCHANGED <<upload, reserved, worker, target>> /\ permit' = TRUE  BY DEF SetRetention
    <1>2. free[g] \in Nat /\ kept[g] \in Nat  BY QuotaTyped
    <1>3. free' \in [Group -> Nat] /\ kept' \in [Group -> Nat]
        <2>1. CASE protects
            <3>1. /\ free[g] > 0
                  /\ free' = [free EXCEPT ![g] = @ - 1] /\ kept' = [kept EXCEPT ![g] = @ + 1]
                BY <2>1 DEF SetRetention
            <3>2. free[g] - 1 \in Nat /\ kept[g] + 1 \in Nat  BY <1>2, <3>1
            <3> QED  BY <3>1, <3>2, QuotaTyped
        <2>2. CASE ~protects
            <3>1. /\ kept[g] > 0
                  /\ kept' = [kept EXCEPT ![g] = @ - 1] /\ free' = [free EXCEPT ![g] = @ + 1]
                BY <2>2 DEF SetRetention
            <3>2. free[g] + 1 \in Nat /\ kept[g] - 1 \in Nat  BY <1>2, <3>1
            <3> QED  BY <3>1, <3>2, QuotaTyped
        <2> QED  BY <2>1, <2>2
    <1> QED  BY <1>1, <1>3, BytesStep

LEMMA ReleaseStep == ASSUME QuotaInv, NEW g \in Group, RemoveProtections(g) PROVE QuotaGood
    <1>1. UNCHANGED <<upload, reserved, worker, target, permit>>  BY DEF RemoveProtections
    <1>2. free[g] + kept[g] \in Nat  BY QuotaTyped
    <1>3. free' = [free EXCEPT ![g] = @ + kept[g]] /\ kept' = [kept EXCEPT ![g] = 0]
        BY DEF RemoveProtections
    <1>4. free' \in [Group -> Nat] /\ kept' \in [Group -> Nat]  BY <1>2, <1>3, QuotaTyped
    <1> QED  BY <1>1, <1>4, BytesStep

\* The steps of the worker. It changes as a record, and only a group with an upload is put off.
LEMMA WorkerStays ==
    ASSUME QuotaInv, worker' \in Workers, UNCHANGED <<free, kept, upload, reserved, target>>,
           permit' \in BOOLEAN,
           \/ worker'.putOff = {}
           \/ worker'.putOff = worker.putOff /\ permit' = permit
    PROVE  QuotaGood
    <1>1. QuotaTypeOK'
        BY DEF QuotaInv, QuotaTypeOK, Workers, Targets
    <1>2. UploadsCounted'  BY CountedStay DEF QuotaInv
    <1>3. PutOffWakes'  BY DEF QuotaInv, PutOffWakes
    <1> QED  BY <1>1, <1>2, <1>3, SameStays DEF QuotaInv, QuotaGood

LEMMA BeginStep == ASSUME QuotaInv, Woken \/ TimeUp PROVE QuotaGood
    <1>1. UNCHANGED <<free, kept, upload, reserved, target>> /\ permit' \in BOOLEAN
        BY QuotaTyped DEF Woken, TimeUp
    <1>2. worker' = [worker EXCEPT !.at = "groups", !.left = Group, !.putOff = {}, !.retry = FALSE]
        BY DEF Woken, TimeUp, Begin
    <1>3. worker' \in Workers /\ worker'.putOff = {}  BY <1>2, QuotaTyped DEF Workers
    <1> QED  BY <1>1, <1>3, WorkerStays

LEMMA NextGroupStep == ASSUME QuotaInv, NEW g \in Group, NextGroup(g) PROVE QuotaGood
    <1>1. UNCHANGED <<free, kept, upload, reserved, target, permit>>  BY DEF NextGroup
    <1>2. worker' = [worker EXCEPT !.at = "batch", !.left = @ \ {g}, !.group = {g}, !.requested = target[g]]
        BY DEF NextGroup
    <1>3. target[g] \in Targets  BY QuotaTyped
    <1>4. worker' \in Workers /\ worker'.putOff = worker.putOff
        BY <1>2, <1>3, QuotaTyped DEF Workers
    <1> QED  BY <1>1, <1>4, QuotaTyped, WorkerStays

LEMMA AllDoneStep == ASSUME QuotaInv, AllDone PROVE QuotaGood
    <1>1. UNCHANGED <<free, kept, upload, reserved, target, permit>>  BY DEF AllDone
    <1>2. worker' = [worker EXCEPT !.at = "asleep", !.group = {}, !.requested = NoTarget]
        BY DEF AllDone
    <1>3. worker' \in Workers /\ worker'.putOff = worker.putOff
        BY <1>2, QuotaTyped DEF Workers, Targets
    <1> QED  BY <1>1, <1>3, QuotaTyped, WorkerStays

LEMMA BatchStep == ASSUME QuotaInv, NEW g \in Group, Batch(g) PROVE QuotaGood
    <1>1. UNCHANGED <<kept, upload, reserved, target, permit>>  BY DEF Batch
    <1>2. CASE Used(g) > Goal /\ free[g] > 0
        <2>1. PICK n \in 1 .. Smaller(free[g], Used(g) - Goal) :
                  free' = [free EXCEPT ![g] = @ - n] /\ UNCHANGED worker
            BY <1>2 DEF Batch
        <2>2. free[g] \in Nat /\ kept[g] \in Nat /\ Goal \in Int
            BY QuotaTyped, QuotaAssumption DEF Goal, Workers, Targets, NoTarget
        <2>3. free[g] - n \in Nat  BY <2>2 DEF Smaller, Used
        <2>4. free' \in [Group -> Nat] /\ kept' \in [Group -> Nat]  BY <1>1, <2>1, <2>3, QuotaTyped
        <2> QED  BY <1>1, <2>1, <2>4, BytesStep
    <1>3. CASE ~(Used(g) > Goal /\ free[g] > 0)
        <2>1. worker' = [worker EXCEPT !.at = "read"] /\ UNCHANGED free  BY <1>3 DEF Batch
        <2>2. worker' \in Workers /\ worker'.putOff = worker.putOff  BY <2>1, QuotaTyped DEF Workers
        <2> QED  BY <1>1, <2>1, <2>2, QuotaTyped, WorkerStays
    <1> QED  BY <1>2, <1>3

LEMMA PutOffStep == ASSUME QuotaInv, NEW g \in Group, PutOff(g) PROVE QuotaGood
    <1>1. UNCHANGED <<free, kept, upload, reserved, target, permit>>  BY DEF PutOff
    <1>2. worker' = [worker EXCEPT !.at = "groups", !.putOff = @ \cup {g}] /\ reserved[g].uploads > 0
        BY DEF PutOff
    <1>3. worker' \in Workers /\ worker'.putOff = worker.putOff \cup {g}
        BY <1>2, QuotaTyped DEF Workers
    <1>4. QuotaTypeOK'  BY <1>1, <1>3 DEF QuotaInv, QuotaTypeOK, Workers, Targets
    <1>5. UploadsCounted'  BY <1>1, CountedStay DEF QuotaInv
    <1>6. reserved[g].uploads # 0  BY <1>2, QuotaTyped
    <1>7. PutOffWakes'  BY <1>1, <1>3, <1>6 DEF QuotaInv, PutOffWakes
    <1> QED  BY <1>1, <1>3, <1>4, <1>5, <1>7, SameStays DEF QuotaInv, QuotaGood

LEMMA CleanupFailsStep == ASSUME QuotaInv, CleanupFails PROVE QuotaGood
    <1>1. UNCHANGED <<free, kept, upload, reserved, target, permit>>  BY DEF CleanupFails
    <1> DEFINE again == \E g \in Group : target[g] # NoTarget
    <1>2. worker' = [worker EXCEPT !.at = "asleep", !.left = {}, !.group = {}, !.requested = NoTarget,
                                   !.retry = again]
        BY DEF CleanupFails
    <1>3. again \in BOOLEAN  OBVIOUS
    <1> HIDE DEF again
    <1>4. worker' \in Workers /\ worker'.putOff = worker.putOff
        BY <1>2, <1>3, QuotaTyped DEF Workers, Targets
    <1> QED  BY <1>1, <1>4, QuotaTyped, WorkerStays

LEMMA ReadUsageStep == ASSUME QuotaInv, NEW g \in Group, ReadUsage(g) PROVE QuotaGood
    <1>1. UNCHANGED <<free, kept, upload, reserved, target, permit>>  BY DEF ReadUsage
    <1>2. \E s \in {"complete", "groups"} : worker' = [worker EXCEPT !.at = s]  BY DEF ReadUsage
    <1>3. worker' \in Workers /\ worker'.putOff = worker.putOff  BY <1>2, QuotaTyped DEF Workers
    <1> QED  BY <1>1, <1>3, QuotaTyped, WorkerStays

LEMMA CompleteStep == ASSUME QuotaInv, NEW g \in Group, Complete(g) PROVE QuotaGood
    <1>1. UNCHANGED <<free, kept, upload, reserved, permit>>  BY DEF Complete
    <1>2. worker.group = {g} /\ worker' = [worker EXCEPT !.at = "groups"]
          /\ target' = [target EXCEPT ![g] = IF @ = worker.requested THEN NoTarget ELSE @]
        BY DEF Complete
    <1>3. worker' \in Workers /\ worker'.putOff = worker.putOff  BY <1>2, QuotaTyped DEF Workers
    <1>4. target' \in [Group -> Targets]  BY <1>2, QuotaTyped DEF Targets
    <1>5. \A h \in Group : target'[h] = target[h] \/ (h = g /\ target[h] = worker.requested /\ target'[h] = NoTarget)
        BY <1>2, QuotaTyped
    <1>6. QuotaTypeOK'  BY <1>1, <1>3, <1>4 DEF QuotaInv, QuotaTypeOK, Workers, Targets
    <1>7. UploadsCounted'  BY <1>1, CountedStay DEF QuotaInv
    <1>8. PutOffWakes'
        <2>1. worker.putOff \subseteq Group  BY QuotaTyped DEF Workers
        <2> QED  BY <1>1, <1>3, <1>5, <2>1 DEF QuotaInv, PutOffWakes
    <1>9. StricterTargetStays
        <2>1. \A h \in Group : target[h] \in Int
            BY QuotaTyped, QuotaAssumption DEF Targets, NoTarget
        <2>2. ASSUME NEW h \in Group, worker.group = {h}, target[h] < worker.requested
              PROVE  target'[h] <= target[h]
            <3>1. target[h] # worker.requested  BY <2>1, <2>2
            <3> QED  BY <1>5, <2>1, <3>1
        <2> QED  BY <2>2 DEF StricterTargetStays
    <1> QED  BY <1>3, <1>6, <1>7, <1>8, <1>9 DEF QuotaInv, QuotaGood

LEMMA QuotaServes == ASSUME QuotaInv, [QuotaNext]_quotaVars PROVE QuotaGood
    <1>1. CASE WorkerStep
        <2>1. CASE Woken  BY <2>1, BeginStep
        <2>2. CASE AllDone  BY <2>2, AllDoneStep
        <2>3. ASSUME NEW g \in Group, NextGroup(g) \/ Batch(g) \/ PutOff(g) \/ ReadUsage(g) \/ Complete(g)
              PROVE  QuotaGood
            BY <2>3, NextGroupStep, BatchStep, PutOffStep, ReadUsageStep, CompleteStep
        <2> QED  BY <1>1, <2>1, <2>2, <2>3 DEF WorkerStep
    <1>2. CASE TimeUp  BY <1>2, BeginStep
    <1>3. CASE CleanupFails  BY <1>3, CleanupFailsStep
    <1>4. ASSUME NEW u \in Upload, Want(u) \/ UploadStep(u) \/ Fail(u) PROVE QuotaGood
        BY <1>4, WantStep, ReserveStep, StoreStep, FailStep DEF UploadStep
    <1>5. ASSUME NEW g \in Group,
                 \/ SubmitEvent(g) \/ RemoveProtections(g)
                 \/ \E protects \in BOOLEAN : SetRetention(g, protects)
          PROVE  QuotaGood
        BY <1>5, SubmitStep, ReleaseStep, RetentionStep
    <1>6. CASE UNCHANGED quotaVars
        <2>1. UNCHANGED <<free, kept, upload, reserved, target, permit, worker>>
            BY <1>6 DEF quotaVars
        <2> QED  BY <2>1, QuotaTyped, BytesStep
    <1> QED  BY <1>1, <1>2, <1>3, <1>4, <1>5, <1>6 DEF QuotaNext

\* What the run checks of a state follows.
LEMMA QuotaKept ==
    ASSUME QuotaInv
    PROVE  QuotaTypeOK /\ UploadsCounted /\ PutOffUntilUploadsEnd
    <1>1. \A g \in Group : Active(g) = {} => reserved[g].uploads = 0
        BY FS_EmptySet DEF QuotaInv, UploadsCounted
    <1>2. worker.putOff \subseteq Group  BY QuotaTyped DEF Workers
    <1> QED  BY <1>1, <1>2 DEF QuotaInv, PutOffUntilUploadsEnd, PutOffWakes

----------------------------------------------------------------------------
\* The watches. What the Hub believes of a stream and what it has written to it never run ahead of
\* the log, a stream that is served is the one registered for its slot, and an open one has a slot
\* of the connection.

StreamAt == {"none", "opened", "subscribed", "live", "changed", "closed"}

Streams == [at : StreamAt, slot : {0, 1}, seen : Nat, latest : Nat, cancelled : BOOLEAN,
            broken : BOOLEAN, frame : Nat]
Sessions == [on : BOOLEAN, mark : Nat, streams : [Slot -> Stream \cup {0}]]
Transfers == [at : {"waiting", "backoff", "cycle"}, force : BOOLEAN]

WatchShape ==
    /\ stream \in [Stream -> Streams] /\ session \in Sessions /\ transfer \in Transfers
    /\ registry \in [Slot -> Stream \cup {0}]
    /\ log \in Nat /\ version \in Nat /\ untold \in Nat /\ pulled \in Nat /\ log <= MaxCommits
    /\ link \in BOOLEAN /\ wake \in BOOLEAN

\* What a stream may have seen, when the log and the channel stand at these.
Fits(r, cursor, channel) ==
    /\ r.seen <= channel /\ r.latest <= cursor /\ r.frame <= cursor + 1
    /\ r.at # "none" => r.slot \in Slot

Behind ==
    /\ version + untold = log /\ pulled <= log /\ session.mark <= log
    /\ \A i \in Stream : Fits(stream[i], log, version)

WatchInv == WatchShape /\ Behind /\ WatchesSound

LEMMA WatchKept == ASSUME WatchInv PROVE WatchTypeOK /\ WatchesSound
    <1>1. \A i \in Stream : stream[i] \in Streams  BY DEF WatchInv, WatchShape
    <1>2. \A i \in Stream : Fits(stream[i], log, version)  BY DEF WatchInv, Behind
    <1>3. \A i \in Stream :
              /\ stream[i].at \in StreamAt
              /\ stream[i].seen \in 0 .. version /\ stream[i].latest \in 0 .. log
              /\ stream[i].frame \in 0 .. log + 1
        BY <1>1, <1>2 DEF Streams, Fits, WatchInv, WatchShape
    <1>4. /\ log \in Nat /\ log <= MaxCommits /\ version \in Nat /\ untold \in Nat /\ pulled \in Nat
          /\ version + untold = log /\ pulled <= log
        BY DEF WatchInv, WatchShape, Behind
    <1>5. /\ log \in 0 .. MaxCommits /\ pulled \in 0 .. log /\ untold \in 0 .. log
          /\ version + untold = log
        BY <1>4, WatchAssumption
    <1>6. \A s \in Slot : registry[s] \in Stream \cup {0} /\ session.streams[s] \in Stream \cup {0}
        BY DEF WatchInv, WatchShape, Sessions
    <1>7. session.mark \in 0 .. log /\ transfer.at \in {"waiting", "backoff", "cycle"}
        BY DEF WatchInv, WatchShape, Sessions, Transfers, Behind
    <1> QED  BY <1>3, <1>5, <1>6, <1>7 DEF WatchTypeOK, StreamAt, WatchInv

LEMMA WatchStarts == WatchInit => WatchInv
    <1> SUFFICES ASSUME WatchInit PROVE WatchInv
        OBVIOUS
    <1>1. Unopened \in Streams  BY DEF Unopened, Streams, StreamAt, NoFrame
    <1>2. NoSession \in Sessions  BY DEF NoSession, Sessions
    <1>3. [at |-> "waiting", force |-> FALSE] \in Transfers  BY DEF Transfers
    <1>4. WatchShape
        <2>1. stream \in [Stream -> Streams]  BY <1>1 DEF WatchInit
        <2>2. session \in Sessions /\ transfer \in Transfers  BY <1>2, <1>3 DEF WatchInit
        <2>3. registry \in [Slot -> Stream \cup {0}]  BY DEF WatchInit
        <2>4. log = 0 /\ version = 0 /\ untold = 0 /\ pulled = 0  BY DEF WatchInit
        <2>5. link \in BOOLEAN /\ wake \in BOOLEAN  BY DEF WatchInit
        <2>6. log <= MaxCommits  BY <2>4, WatchAssumption
        <2> QED  BY <2>1, <2>2, <2>3, <2>4, <2>5, <2>6 DEF WatchShape
    <1>5. Behind  BY DEF Behind, WatchInit, Fits, Unopened, NoFrame, NoSession
    <1>6. WatchesSound
        BY DEF WatchesSound, NoMissedChange, ServedIsRegistered, WatchInit, Unopened
    <1> QED  BY <1>4, <1>5, <1>6 DEF WatchInv

\* A stream that was let go of, ended or lost a frame says nothing new.
Weaker(q, r) ==
    \/ q = r \/ q = Unopened
    \/ /\ q.at = r.at \/ (q.at = "closed" /\ r.at # "none")
       /\ q.slot = r.slot /\ q.seen = r.seen
       /\ q.latest = r.latest /\ q.cancelled = r.cancelled /\ q.frame \in {r.frame, NoFrame}

\* Where the Hub's side stays and streams get weaker at most, all stays true.
LEMMA WeakerStays ==
    ASSUME WatchInv, UNCHANGED <<log, version, untold, registry>>,
           stream' \in [Stream -> Streams], \A i \in Stream : Weaker(stream'[i], stream[i]),
           session' \in Sessions, session'.mark <= log, transfer' \in Transfers,
           link' \in BOOLEAN, wake' \in BOOLEAN, pulled' \in {pulled, log}
    PROVE  WatchInv'
    <1>1. WatchShape'  BY DEF WatchInv, WatchShape
    <1>2. ASSUME NEW i \in Stream PROVE Fits(stream'[i], log, version)
        <2>1. Fits(stream[i], log, version)  BY DEF WatchInv, Behind
        <2>2. stream[i] \in Streams /\ version \in Nat /\ log \in Nat  BY DEF WatchInv, WatchShape
        <2>3. Weaker(stream'[i], stream[i])  OBVIOUS
        <2> QED  BY <2>1, <2>2, <2>3 DEF Fits, Weaker, Unopened, NoFrame, Streams
    <1>3. Behind'
        <2>1. pulled' <= log  BY DEF WatchInv, WatchShape, Behind
        <2> QED  BY <1>2, <2>1 DEF WatchInv, Behind
    <1>4. NoMissedChange'
        <2>1. ASSUME NEW i \in Stream, stream'[i].at = "live"
              PROVE  /\ stream[i].at = "live" /\ stream'[i].latest = stream[i].latest
                     /\ stream'[i].seen = stream[i].seen
            BY <2>1 DEF Weaker, Unopened
        <2> QED  BY <2>1 DEF NoMissedChange, WatchInv, WatchesSound
    <1>5. ServedIsRegistered'
        <2>1. ASSUME NEW i \in Stream, stream'[i].at \in {"live", "changed"}
              PROVE  /\ stream[i].at = stream'[i].at /\ stream'[i].cancelled = stream[i].cancelled
                     /\ stream'[i].slot = stream[i].slot
            BY <2>1 DEF Weaker, Unopened
        <2> QED  BY <2>1 DEF ServedIsRegistered, WatchInv, WatchesSound
    <1> QED  BY <1>1, <1>3, <1>4, <1>5 DEF WatchInv, WatchesSound

LEMMA SessionTyped ==
    ASSUME WatchInv
    PROVE  /\ session \in Sessions /\ session.mark <= log /\ transfer \in Transfers
           /\ link \in BOOLEAN /\ wake \in BOOLEAN /\ stream \in [Stream -> Streams]
           /\ registry \in [Slot -> Stream \cup {0}]
           /\ log \in Nat /\ version \in Nat /\ untold \in Nat /\ pulled \in Nat
    BY DEF WatchInv, WatchShape, Behind

\* Where no stream changes at all.
LEMMA StreamsStay ==
    ASSUME WatchInv, UNCHANGED <<log, version, untold, registry, stream>>,
           session' \in Sessions, session'.mark <= log, transfer' \in Transfers,
           link' \in BOOLEAN, wake' \in BOOLEAN, pulled' \in {pulled, log}
    PROVE  WatchInv'
    <1>1. \A i \in Stream : Weaker(stream'[i], stream[i])  BY DEF Weaker
    <1> QED  BY <1>1, SessionTyped, WeakerStays

\* The Hub's steps.
LEMMA CommitStep == ASSUME WatchInv, Commit PROVE WatchInv'
    <1>1. log < MaxCommits /\ log' = log + 1 /\ untold' = untold + 1
          /\ UNCHANGED <<version, registry, stream, link, session, wake, transfer, pulled>>
        BY DEF Commit, clientVars
    <1>2. /\ log' \in Nat /\ untold' \in Nat /\ log' <= MaxCommits
        BY <1>1, SessionTyped, WatchAssumption
    <1>3. WatchShape'  BY <1>1, <1>2 DEF WatchInv, WatchShape
    <1>4. ASSUME NEW i \in Stream PROVE Fits(stream[i], log', version)
        <2>1. Fits(stream[i], log, version)  BY DEF WatchInv, Behind
        <2>2. stream[i] \in Streams  BY SessionTyped
        <2> QED  BY <1>1, <2>1, <2>2, SessionTyped DEF Fits, Streams
    <1>5. Behind'
        <2>1. /\ version + untold' = log' /\ pulled <= log' /\ session.mark <= log'
            BY <1>1, SessionTyped DEF WatchInv, Behind, Sessions
        <2> QED  BY <1>1, <1>4, <2>1 DEF Behind
    <1>6. untold' > 0  BY <1>1, SessionTyped
    <1>7. NoMissedChange'  BY <1>6 DEF NoMissedChange
    <1>8. ServedIsRegistered'  BY <1>1 DEF WatchInv, WatchesSound, ServedIsRegistered
    <1> QED  BY <1>3, <1>5, <1>7, <1>8 DEF WatchInv, WatchesSound

LEMMA AnnounceStep == ASSUME WatchInv, Announce PROVE WatchInv'
    <1>1. untold > 0 /\ version' = version + 1 /\ untold' = untold - 1
          /\ UNCHANGED <<log, registry, stream, link, session, wake, transfer, pulled>>
        BY DEF Announce, clientVars
    <1>2. version' \in Nat /\ untold' \in Nat  BY <1>1, SessionTyped
    <1>3. WatchShape'  BY <1>1, <1>2 DEF WatchInv, WatchShape
    <1>4. ASSUME NEW i \in Stream PROVE Fits(stream[i], log, version') /\ stream[i].seen < version'
        <2>1. Fits(stream[i], log, version)  BY DEF WatchInv, Behind
        <2>2. stream[i] \in Streams  BY SessionTyped
        <2> QED  BY <1>1, <2>1, <2>2, SessionTyped DEF Fits, Streams
    <1>5. Behind'
        <2>1. version' + untold' = log  BY <1>1, SessionTyped DEF WatchInv, Behind
        <2> QED  BY <1>1, <1>4, <2>1 DEF Behind, WatchInv
    <1>6. NoMissedChange'  BY <1>1, <1>4 DEF NoMissedChange
    <1>7. ServedIsRegistered'  BY <1>1 DEF WatchInv, WatchesSound, ServedIsRegistered
    <1> QED  BY <1>3, <1>5, <1>6, <1>7 DEF WatchInv, WatchesSound

\* One stream gets a new state that fits, and the registry stays: what remains to be seen is that
\* the stream misses no change and is registered if it is served.
LEMMA OneStream ==
    ASSUME WatchInv, NEW i \in Stream, NEW r \in Streams, Set(i, r),
           UNCHANGED <<log, version, untold, registry, link, session, wake, transfer, pulled>>,
           Fits(r, log, version),
           r.at = "live" /\ r.latest < log => r.seen < version \/ untold > 0,
           r.at \in {"live", "changed"} /\ ~r.cancelled => registry[r.slot] = i
    PROVE  WatchInv'
    <1>1. \A j \in Stream : stream'[j] = IF j = i THEN r ELSE stream[j]  BY SessionTyped DEF Set
    <1>2. stream' \in [Stream -> Streams]  BY SessionTyped DEF Set
    <1>3. WatchShape'  BY <1>2 DEF WatchInv, WatchShape
    <1>4. Behind'
        <2>1. \A j \in Stream : Fits(stream'[j], log, version)  BY <1>1 DEF WatchInv, Behind
        <2> QED  BY <2>1 DEF WatchInv, Behind
    <1>5. NoMissedChange'  BY <1>1 DEF WatchInv, WatchesSound, NoMissedChange
    <1>6. ServedIsRegistered'  BY <1>1 DEF WatchInv, WatchesSound, ServedIsRegistered
    <1> QED  BY <1>3, <1>4, <1>5, <1>6 DEF WatchInv, WatchesSound

LEMMA SubscribeStep == ASSUME WatchInv, NEW i \in Stream, Subscribe(i) PROVE WatchInv'
    <1> DEFINE r == [stream[i] EXCEPT !.at = "subscribed", !.seen = version]
    <1>1. stream[i].at = "opened" /\ Set(i, r)
          /\ UNCHANGED <<log, version, untold, registry, link, session, wake, transfer, pulled>>
        BY DEF Subscribe, hubVars, clientVars
    <1>2. stream[i] \in Streams /\ version \in Nat /\ Fits(stream[i], log, version)
        BY SessionTyped DEF WatchInv, Behind
    <1>3. r \in Streams /\ r.at = "subscribed"  BY <1>2 DEF Streams, StreamAt
    <1>4. Fits(r, log, version)  BY <1>1, <1>2 DEF Fits, Streams
    <1> HIDE DEF r
    <1> QED  BY <1>1, <1>3, <1>4, OneStream

LEMMA ChangedStep == ASSUME WatchInv, NEW i \in Stream, Changed(i) PROVE WatchInv'
    <1> DEFINE r == [stream[i] EXCEPT !.at = "changed", !.seen = version]
    <1>1. stream[i].at = "live" /\ Set(i, r)
          /\ UNCHANGED <<log, version, untold, registry, link, session, wake, transfer, pulled>>
        BY DEF Changed, hubVars, clientVars
    <1>2. stream[i] \in Streams /\ version \in Nat /\ Fits(stream[i], log, version)
        BY SessionTyped DEF WatchInv, Behind
    <1>3. r \in Streams /\ r.at = "changed" /\ r.cancelled = stream[i].cancelled /\ r.slot = stream[i].slot
        BY <1>2 DEF Streams, StreamAt
    <1>4. Fits(r, log, version)  BY <1>1, <1>2 DEF Fits, Streams
    <1>5. ~r.cancelled => registry[r.slot] = i
        BY <1>1, <1>3 DEF WatchInv, WatchesSound, ServedIsRegistered
    <1> HIDE DEF r
    <1> QED  BY <1>1, <1>3, <1>4, <1>5, OneStream

\* A frame that is sent carries the cursor it is given.
LEMMA FramedIs ==
    ASSUME NEW r \in Streams, NEW n \in Nat
    PROVE  /\ Framed(r, n) \in Streams /\ Framed(r, n).at = "live" /\ Framed(r, n).latest = n
           /\ Framed(r, n).slot = r.slot /\ Framed(r, n).seen = r.seen
           /\ Framed(r, n).cancelled = r.cancelled /\ Framed(r, n).frame \in {r.frame, n + 1}
    <1>1. CASE r.broken  BY <1>1 DEF Framed, Streams, StreamAt
    <1>2. CASE ~r.broken
        <2> DEFINE k == n + 1
                   q == [r EXCEPT !.at = "live", !.latest = n, !.frame = k]
        <2>1. k \in Nat  OBVIOUS
        <2>2. Framed(r, n) = q  BY <1>2 DEF Framed
        <2> HIDE DEF k
        <2>3. q \in Streams  BY <2>1 DEF Streams, StreamAt
        <2>4. /\ q.at = "live" /\ q.latest = n /\ q.slot = r.slot /\ q.seen = r.seen
              /\ q.cancelled = r.cancelled /\ q.frame = k
            BY DEF Streams
        <2> QED  BY <2>2, <2>3, <2>4 DEF k
    <1> QED  BY <1>1, <1>2

LEMMA RereadStep == ASSUME WatchInv, NEW i \in Stream, Reread(i) PROVE WatchInv'
    <1> DEFINE r == Framed(stream[i], log)
    <1>1. stream[i].at = "changed" /\ Set(i, r)
          /\ UNCHANGED <<log, version, untold, registry, link, session, wake, transfer, pulled>>
        BY DEF Reread, hubVars, clientVars
    <1>2. stream[i] \in Streams /\ log \in Nat /\ Fits(stream[i], log, version)
        BY SessionTyped DEF WatchInv, Behind
    <1>3. /\ r \in Streams /\ r.at = "live" /\ r.latest = log /\ r.slot = stream[i].slot
          /\ r.seen = stream[i].seen /\ r.cancelled = stream[i].cancelled
          /\ r.frame \in {stream[i].frame, log + 1}
        BY <1>2, FramedIs
    <1> HIDE DEF r
    <1>4. Fits(r, log, version)  BY <1>1, <1>2, <1>3 DEF Fits
    <1>5. ~r.cancelled => registry[r.slot] = i
        BY <1>1, <1>3 DEF WatchInv, WatchesSound, ServedIsRegistered
    <1>6. ~(r.latest < log)  BY <1>2, <1>3
    <1> QED  BY <1>1, <1>3, <1>4, <1>5, <1>6, OneStream

\* Registering takes the slot from the stream that had it and cancels that one.
LEMMA RegisterStep == ASSUME WatchInv, NEW i \in Stream, Register(i) PROVE WatchInv'
    <1> DEFINE s == stream[i].slot
               r == Framed(stream[i], log)
               C(j) == [stream[j] EXCEPT !.cancelled = @ \/ j = registry[s]]
    <1>1. stream[i].at = "subscribed"
          /\ stream' = [j \in Stream |-> IF j = i THEN r ELSE C(j)]
          /\ registry' = [registry EXCEPT ![s] = i]
          /\ UNCHANGED <<log, version, untold, link, session, wake, transfer, pulled>>
        BY DEF Register, clientVars
    <1>2. stream[i] \in Streams /\ log \in Nat /\ Fits(stream[i], log, version)
        BY SessionTyped DEF WatchInv, Behind
    <1>3. s \in Slot  BY <1>1, <1>2 DEF Fits
    <1>4. /\ r \in Streams /\ r.at = "live" /\ r.latest = log /\ r.slot = s
          /\ r.seen = stream[i].seen /\ r.frame \in {stream[i].frame, log + 1}
        BY <1>2, FramedIs
    <1> HIDE DEF r
    <1>5. ASSUME NEW j \in Stream
          PROVE  /\ C(j) \in Streams /\ C(j).at = stream[j].at /\ C(j).slot = stream[j].slot
                 /\ C(j).seen = stream[j].seen /\ C(j).latest = stream[j].latest
                 /\ C(j).frame = stream[j].frame
                 /\ ~C(j).cancelled => ~stream[j].cancelled /\ j # registry[s]
        <2>1. stream[j] \in Streams  BY SessionTyped
        <2> DEFINE b1 == stream[j].cancelled \/ j = registry[s]
        <2>2. b1 \in BOOLEAN  BY <2>1 DEF Streams
        <2>3. C(j) = [stream[j] EXCEPT !.cancelled = b1]  OBVIOUS
        <2>4. ~b1 => ~stream[j].cancelled /\ j # registry[s]  OBVIOUS
        <2> HIDE DEF b1, C
        <2> QED  BY <2>1, <2>2, <2>3, <2>4 DEF Streams
    <1> HIDE DEF C
    <1>6. \A j \in Stream : stream'[j] = IF j = i THEN r ELSE C(j)  BY <1>1
    <1>7. stream' \in [Stream -> Streams]  BY <1>1, <1>4, <1>5
    <1>8. registry' \in [Slot -> Stream \cup {0}]  BY <1>1, SessionTyped
    <1>9. \A t \in Slot : registry'[t] = IF t = s THEN i ELSE registry[t]  BY <1>1, SessionTyped
    <1>10. WatchShape'  BY <1>1, <1>7, <1>8 DEF WatchInv, WatchShape
    <1>11. ASSUME NEW j \in Stream PROVE Fits(stream'[j], log, version)
        <2>1. Fits(stream[j], log, version)  BY DEF WatchInv, Behind
        <2>2. CASE j = i  BY <2>2, <1>2, <1>3, <1>4, <1>6 DEF Fits
        <2>3. CASE j # i  BY <2>1, <2>3, <1>5, <1>6 DEF Fits
        <2> QED  BY <2>2, <2>3
    <1>12. Behind'  BY <1>1, <1>11 DEF WatchInv, Behind
    <1>13. NoMissedChange'
        <2>1. ~(r.latest < log)  BY <1>2, <1>4
        <2> QED  BY <1>1, <1>5, <1>6, <2>1 DEF WatchInv, WatchesSound, NoMissedChange
    <1>14. ServedIsRegistered'
        <2>1. ASSUME NEW j \in Stream, stream'[j].at \in {"live", "changed"}, ~stream'[j].cancelled
              PROVE  registry'[stream'[j].slot] = j
            <3>1. CASE j = i  BY <3>1, <1>3, <1>4, <1>6, <1>9
            <3>2. CASE j # i
                <4>1. /\ stream[j].at \in {"live", "changed"} /\ ~stream[j].cancelled /\ j # registry[s]
                      /\ stream'[j].slot = stream[j].slot
                    BY <2>1, <3>2, <1>5, <1>6
                <4>2. registry[stream[j].slot] = j
                    BY <4>1 DEF WatchInv, WatchesSound, ServedIsRegistered
                <4>3. stream[j].slot \in Slot  BY <4>1 DEF WatchInv, Behind, Fits
                <4> QED  BY <4>1, <4>2, <4>3, <1>9
            <3> QED  BY <3>1, <3>2
        <2> QED  BY <2>1 DEF ServedIsRegistered
    <1> QED  BY <1>10, <1>12, <1>13, <1>14 DEF WatchInv, WatchesSound

\* A stream that ends takes its own registration along and no other's.
LEMMA EndStep == ASSUME WatchInv, NEW i \in Stream, End(i) PROVE WatchInv'
    <1> DEFINE s == stream[i].slot
    <1>1. PICK r \in {Unopened, [stream[i] EXCEPT !.at = "closed"]} : Set(i, r)
        BY DEF End
    <1>2. stream[i] \in Streams /\ Fits(stream[i], log, version)
        BY SessionTyped DEF WatchInv, Behind
    <1>3. stream[i].at # "none"  BY DEF End, MayEnd
    <1>4. r \in Streams /\ r.at \in {"none", "closed"} /\ Fits(r, log, version)
        <2>1. CASE r = Unopened
            <3>1. version \in Nat /\ log \in Nat  BY SessionTyped
            <3> QED  BY <2>1, <3>1 DEF Unopened, Streams, StreamAt, NoFrame, Fits
        <2>2. CASE r = [stream[i] EXCEPT !.at = "closed"]
            BY <2>2, <1>2, <1>3 DEF Streams, StreamAt, Fits
        <2> QED  BY <1>1, <2>1, <2>2
    <1>5. registry' = [registry EXCEPT ![s] = IF @ = i THEN 0 ELSE @]
          /\ UNCHANGED <<log, version, untold, link, session, wake, transfer, pulled>>
        BY DEF End, clientVars
    <1>6. \A j \in Stream : stream'[j] = IF j = i THEN r ELSE stream[j]
        BY <1>1, SessionTyped DEF Set
    <1>7. stream' \in [Stream -> Streams]  BY <1>1, <1>4, SessionTyped DEF Set
    <1>8. registry' \in [Slot -> Stream \cup {0}]  BY <1>5, SessionTyped
    <1>9. \A t \in Slot : registry'[t] = IF registry[t] = i /\ t = s THEN 0 ELSE registry[t]
        BY <1>5, SessionTyped
    <1>10. WatchShape'  BY <1>5, <1>7, <1>8 DEF WatchInv, WatchShape
    <1>11. Behind'
        <2>1. \A j \in Stream : Fits(stream'[j], log, version)  BY <1>4, <1>6 DEF WatchInv, Behind
        <2> QED  BY <1>5, <2>1 DEF WatchInv, Behind
    <1>12. NoMissedChange'  BY <1>4, <1>5, <1>6 DEF WatchInv, WatchesSound, NoMissedChange
    <1>13. ServedIsRegistered'
        <2>1. ASSUME NEW j \in Stream, stream'[j].at \in {"live", "changed"}, ~stream'[j].cancelled
              PROVE  registry'[stream'[j].slot] = j
            <3>1. j # i /\ stream'[j] = stream[j]  BY <2>1, <1>4, <1>6
            <3>2. registry[stream[j].slot] = j
                BY <2>1, <3>1 DEF WatchInv, WatchesSound, ServedIsRegistered
            <3>3. stream[j].slot \in Slot  BY <2>1, <3>1 DEF WatchInv, Behind, Fits
            <3> QED  BY <3>1, <3>2, <3>3, <1>9
        <2> QED  BY <2>1 DEF ServedIsRegistered
    <1> QED  BY <1>10, <1>11, <1>12, <1>13 DEF WatchInv, WatchesSound

\* The client's steps. What it reads, and lets go of.
LEMMA NoSessionTyped == NoSession \in Sessions /\ NoSession.mark = 0
    BY DEF NoSession, Sessions

LEMMA BrokenWeakens ==
    ASSUME NEW r \in Streams
    PROVE  /\ [r EXCEPT !.broken = TRUE, !.frame = NoFrame] \in Streams
           /\ Weaker([r EXCEPT !.broken = TRUE, !.frame = NoFrame], r)
           /\ [r EXCEPT !.frame = NoFrame] \in Streams
           /\ Weaker([r EXCEPT !.frame = NoFrame], r)
    BY DEF Streams, Weaker, NoFrame

LEMMA UnopenedTyped == Unopened \in Streams
    BY DEF Unopened, Streams, StreamAt, NoFrame

LEMMA LetGoWeakens ==
    ASSUME WatchInv, NEW S
    PROVE  /\ LetGo(S) \in [Stream -> Streams]
           /\ \A i \in Stream : Weaker(LetGo(S)[i], stream[i])
    <1>1. ASSUME NEW i \in Stream
          PROVE  LetGo(S)[i] \in Streams /\ Weaker(LetGo(S)[i], stream[i])
        <2>1. stream[i] \in Streams  BY SessionTyped
        <2>2. CASE i \notin S  BY <2>1, <2>2 DEF LetGo, Weaker
        <2>3. CASE i \in S /\ stream[i].at = "closed"
            BY <2>3, UnopenedTyped DEF LetGo, Weaker
        <2>4. CASE i \in S /\ stream[i].at # "closed"
            <3>1. LetGo(S)[i] = [stream[i] EXCEPT !.broken = TRUE, !.frame = NoFrame]
                BY <2>4 DEF LetGo
            <3> QED  BY <2>1, <3>1, BrokenWeakens
        <2> QED  BY <2>2, <2>3, <2>4
    <1> QED  BY <1>1 DEF LetGo

\* One stream weakens.
LEMMA OneWeakens ==
    ASSUME WatchInv, NEW i \in Stream, NEW r \in Streams, Weaker(r, stream[i]), Set(i, r)
    PROVE  stream' \in [Stream -> Streams] /\ \A j \in Stream : Weaker(stream'[j], stream[j])
    BY SessionTyped DEF Set, Weaker

LEMMA StartSessionStep == ASSUME WatchInv, StartSession PROVE WatchInv'
    <1>1. /\ UNCHANGED <<log, version, untold, registry, stream, pulled>>
          /\ link' = TRUE /\ wake' = TRUE /\ transfer' = [transfer EXCEPT !.force = TRUE]
          /\ session' = [NoSession EXCEPT !.on = TRUE, !.mark = pulled]
        BY DEF StartSession, hubVars
    <1>2. pulled \in Nat /\ pulled <= log  BY DEF WatchInv, WatchShape, Behind
    <1>3. session' \in Sessions /\ session'.mark = pulled
        BY <1>1, <1>2, NoSessionTyped DEF Sessions
    <1>4. transfer' \in Transfers  BY <1>1, SessionTyped DEF Transfers
    <1> QED  BY <1>1, <1>2, <1>3, <1>4, StreamsStay

LEMMA OpenSlotStep ==
    ASSUME WatchInv, NEW s \in Slot, NEW i \in Stream, OpenSlot(s, i)
    PROVE  WatchInv'
    <1> DEFINE r == Opened(i, s)
    <1>1. /\ Set(i, r) /\ UNCHANGED <<log, version, untold, registry, link, wake, transfer, pulled>>
          /\ session' = [session EXCEPT !.streams = [session.streams EXCEPT ![s] = i]]
        BY DEF OpenSlot, hubVars
    <1>2. r \in Streams /\ r.at = "opened" /\ r.slot = s /\ r.seen = 0 /\ r.latest = 0 /\ r.frame = 0
        BY WatchAssumption DEF Opened, Unopened, Streams, StreamAt, NoFrame
    <1>3. Fits(r, log, version)  BY <1>2, SessionTyped DEF Fits
    <1>4. session' \in Sessions /\ session'.mark <= log
        <2> DEFINE held == [session.streams EXCEPT ![s] = i]
        <2>1. held \in [Slot -> Stream \cup {0}]  BY SessionTyped DEF Sessions
        <2>2. session' = [session EXCEPT !.streams = held]  BY <1>1
        <2> HIDE DEF held
        <2> QED  BY <2>1, <2>2, SessionTyped DEF Sessions
    <1> HIDE DEF r
    <1>5. \A j \in Stream : stream'[j] = IF j = i THEN r ELSE stream[j]
        BY <1>1, SessionTyped DEF Set
    <1>6. WatchShape'
        <2>1. stream' \in [Stream -> Streams]  BY <1>1, <1>2, SessionTyped DEF Set
        <2> QED  BY <1>1, <1>4, <2>1 DEF WatchInv, WatchShape
    <1>7. Behind'
        <2>1. \A j \in Stream : Fits(stream'[j], log, version)  BY <1>3, <1>5 DEF WatchInv, Behind
        <2> QED  BY <1>1, <1>4, <2>1 DEF WatchInv, Behind
    <1>8. NoMissedChange'  BY <1>1, <1>2, <1>5 DEF WatchInv, WatchesSound, NoMissedChange
    <1>9. ServedIsRegistered'  BY <1>1, <1>2, <1>5 DEF WatchInv, WatchesSound, ServedIsRegistered
    <1> QED  BY <1>6, <1>7, <1>8, <1>9 DEF WatchInv, WatchesSound

LEMMA ReadFrameStep == ASSUME WatchInv, NEW s \in Slot, ReadFrame(s) PROVE WatchInv'
    <1> DEFINE i == session.streams[s]
               r == [stream[i] EXCEPT !.frame = NoFrame]
               n == IF stream[i].frame - 1 > session.mark THEN stream[i].frame - 1 ELSE session.mark
    <1>1. /\ i # 0 /\ stream[i].frame # NoFrame /\ Set(i, r)
          /\ session' = [session EXCEPT !.mark = n]
          /\ wake' = (wake \/ stream[i].frame - 1 > session.mark)
          /\ UNCHANGED <<log, version, untold, registry, link, transfer, pulled>>
        BY DEF ReadFrame, hubVars
    <1>2. i \in Stream  BY <1>1, SessionTyped DEF Sessions
    <1>3. stream[i] \in Streams /\ Fits(stream[i], log, version)
        BY <1>2, SessionTyped DEF WatchInv, Behind
    <1>4. session.mark \in Nat /\ session.mark <= log /\ stream[i].frame \in Nat /\ stream[i].frame # 0
          /\ stream[i].frame <= log + 1
        BY <1>1, <1>3, SessionTyped DEF Sessions, Streams, Fits, NoFrame
    <1>5. n \in Nat /\ n <= log  BY <1>4, SessionTyped
    <1>6. wake' \in BOOLEAN  BY <1>1
    <1> HIDE DEF n
    <1>7. session' \in Sessions /\ session'.mark <= log  BY <1>1, <1>5, SessionTyped DEF Sessions
    <1>8. r \in Streams /\ Weaker(r, stream[i])  BY <1>3, BrokenWeakens
    <1> HIDE DEF r, i
    <1>9. stream' \in [Stream -> Streams] /\ \A j \in Stream : Weaker(stream'[j], stream[j])
        BY <1>1, <1>2, <1>8, OneWeakens
    <1> QED  BY <1>1, <1>6, <1>7, <1>9, SessionTyped, WeakerStays

LEMMA SlotFailsStep == ASSUME WatchInv, NEW s \in Slot, SlotFails(s) PROVE WatchInv'
    <1> DEFINE rest == [session.streams EXCEPT ![s] = 0]
    <1>1. /\ UNCHANGED <<log, version, untold, registry, wake, transfer, pulled>>
          /\ \/ session' = [session EXCEPT !.streams = rest] /\ UNCHANGED link
             \/ session' = NoSession /\ link' = FALSE
          /\ \/ stream' = LetGo({session.streams[s]})
             \/ stream' = LetGo(Held)
        BY DEF SlotFails, hubVars
    <1>2. rest \in [Slot -> Stream \cup {0}]  BY SessionTyped DEF Sessions
    <1> HIDE DEF rest
    <1>3. session' \in Sessions /\ session'.mark <= log /\ link' \in BOOLEAN
        <2>1. CASE session' = [session EXCEPT !.streams = rest] /\ UNCHANGED link
            BY <1>2, <2>1, SessionTyped DEF Sessions
        <2>2. CASE session' = NoSession /\ link' = FALSE
            <3>1. session' \in Sessions /\ session'.mark <= log
                BY <2>2, SessionTyped, NoSessionTyped
            <3> QED  BY <2>2, <3>1
        <2> QED  BY <1>1, <2>1, <2>2
    <1>4. stream' \in [Stream -> Streams] /\ \A j \in Stream : Weaker(stream'[j], stream[j])
        BY <1>1, LetGoWeakens
    <1> QED  BY <1>1, <1>3, <1>4, SessionTyped, WeakerStays

LEMMA RestartStep == ASSUME WatchInv, Restart PROVE WatchInv'
    <1>1. /\ UNCHANGED <<log, version, untold, registry, link, wake, transfer, pulled>>
          /\ session' = NoSession /\ stream' = LetGo(Held)
        BY DEF Restart, hubVars
    <1>2. stream' \in [Stream -> Streams] /\ \A j \in Stream : Weaker(stream'[j], stream[j])
        BY <1>1, LetGoWeakens
    <1> QED  BY <1>1, <1>2, SessionTyped, NoSessionTyped, WeakerStays

LEMMA BreakStep == ASSUME WatchInv, NEW i \in Stream, Break(i) PROVE WatchInv'
    <1> DEFINE r == [stream[i] EXCEPT !.broken = TRUE, !.frame = NoFrame]
    <1>1. Set(i, r) /\ UNCHANGED <<log, version, untold, registry, link, session, wake, transfer, pulled>>
        BY DEF Break, hubVars, clientVars
    <1>2. stream[i] \in Streams  BY SessionTyped
    <1>3. r \in Streams /\ Weaker(r, stream[i])  BY <1>2, BrokenWeakens
    <1> HIDE DEF r
    <1>4. stream' \in [Stream -> Streams] /\ \A j \in Stream : Weaker(stream'[j], stream[j])
        BY <1>1, <1>3, OneWeakens
    <1> QED  BY <1>1, <1>4, SessionTyped, WeakerStays

\* A lost connection weakens the streams on it, and may end the session.
LEMMA LoseLinkWeakens ==
    ASSUME WatchInv, LoseLink
    PROVE  /\ stream' \in [Stream -> Streams] /\ \A j \in Stream : Weaker(stream'[j], stream[j])
           /\ session' \in Sessions /\ session'.mark <= log /\ link' \in BOOLEAN
    <1>1. stream' = [i \in Stream |-> IF i \in Held /\ stream[i].at # "closed"
                                      THEN [stream[i] EXCEPT !.broken = TRUE, !.frame = NoFrame]
                                      ELSE stream[i]]
        BY DEF LoseLink
    <1>2. ASSUME NEW i \in Stream PROVE stream'[i] \in Streams /\ Weaker(stream'[i], stream[i])
        <2>1. stream[i] \in Streams  BY SessionTyped
        <2>2. CASE i \in Held /\ stream[i].at # "closed"
            <3>1. stream'[i] = [stream[i] EXCEPT !.broken = TRUE, !.frame = NoFrame]
                BY <1>1, <2>2
            <3> QED  BY <2>1, <3>1, BrokenWeakens
        <2>3. CASE ~(i \in Held /\ stream[i].at # "closed")
            <3>1. stream'[i] = stream[i]  BY <1>1, <2>3
            <3> QED  BY <2>1, <3>1 DEF Weaker
        <2> QED  BY <2>2, <2>3
    <1>3. stream' \in [Stream -> Streams]  BY <1>1, <1>2
    <1>4. session' \in {session, NoSession} /\ link' = FALSE  BY DEF LoseLink
    <1>5. session' \in Sessions /\ session'.mark <= log
        BY <1>4, SessionTyped, NoSessionTyped
    <1> QED  BY <1>2, <1>3, <1>4, <1>5

LEMMA DisconnectStep == ASSUME WatchInv, Disconnect PROVE WatchInv'
    <1>1. LoseLink /\ UNCHANGED <<log, version, untold, registry, wake, transfer, pulled>>
        BY DEF Disconnect, hubVars
    <1> QED  BY <1>1, LoseLinkWeakens, SessionTyped, WeakerStays

LEMMA TransferSteps == ASSUME WatchInv, TakeWake \/ TakeForced \/ BackoffOver PROVE WatchInv'
    <1>1. UNCHANGED <<log, version, untold, registry, stream, link, session, pulled>>
        BY DEF TakeWake, TakeForced, BackoffOver, hubVars
    <1>2. wake' \in BOOLEAN  BY SessionTyped DEF TakeWake, TakeForced, BackoffOver
    <1>3. transfer' \in Transfers
        <2>1. CASE TakeWake  BY <2>1 DEF TakeWake, Transfers
        <2>2. CASE TakeForced  BY <2>2 DEF TakeForced, Transfers
        <2>3. CASE BackoffOver
            <3>1. \E x \in {"cycle", "waiting"} : transfer' = [transfer EXCEPT !.at = x]
                BY <2>3 DEF BackoffOver
            <3> QED  BY <3>1, SessionTyped DEF Transfers
        <2> QED  BY <2>1, <2>2, <2>3
    <1> QED  BY <1>1, <1>2, <1>3, SessionTyped, StreamsStay

LEMMA CycleStep == ASSUME WatchInv, Cycle PROVE WatchInv'
    <1>1. /\ UNCHANGED <<log, version, untold, registry, stream, link, session, wake>>
          /\ pulled' = log /\ transfer' = [transfer EXCEPT !.at = "waiting"]
        BY DEF Cycle, hubVars
    <1>2. transfer' \in Transfers  BY <1>1, SessionTyped DEF Transfers
    <1> QED  BY <1>1, <1>2, SessionTyped, StreamsStay

LEMMA CycleFailsStep == ASSUME WatchInv, CycleFails PROVE WatchInv'
    <1>1. /\ UNCHANGED <<log, version, untold, registry, wake, pulled>>
          /\ transfer' = [transfer EXCEPT !.at = "backoff"]
          /\ UNCHANGED <<link, stream, session>> \/ LoseLink
        BY DEF CycleFails, hubVars
    <1>2. transfer' \in Transfers  BY <1>1, SessionTyped DEF Transfers
    <1>3. CASE UNCHANGED <<link, stream, session>>
        BY <1>1, <1>2, <1>3, SessionTyped, StreamsStay
    <1>4. CASE LoseLink
        BY <1>1, <1>2, <1>4, LoseLinkWeakens, SessionTyped, WeakerStays
    <1> QED  BY <1>1, <1>3, <1>4

LEMMA WatchServes == ASSUME WatchInv, [WatchNext]_watchVars PROVE WatchInv'
    <1>1. CASE Commit \/ Announce  BY <1>1, CommitStep, AnnounceStep
    <1>2. ASSUME NEW i \in Stream, HubStep(i) \/ Break(i) PROVE WatchInv'
        BY <1>2, SubscribeStep, RegisterStep, ChangedStep, RereadStep, EndStep, BreakStep DEF HubStep
    <1>3. CASE StartSession \/ Restart \/ Disconnect
        BY <1>3, StartSessionStep, RestartStep, DisconnectStep
    <1>4. ASSUME NEW s \in Slot, ClientStep(s) PROVE WatchInv'
        BY <1>4, ReadFrameStep, SlotFailsStep, OpenSlotStep DEF ClientStep
    <1>5. CASE TransferStep \/ CycleFails
        BY <1>5, TransferSteps, CycleStep, CycleFailsStep DEF TransferStep
    <1>6. CASE UNCHANGED watchVars
        <2>1. UNCHANGED <<log, version, untold, registry, stream, link, session, wake, transfer, pulled>>
            BY <1>6 DEF watchVars
        <2> QED  BY <2>1, SessionTyped, StreamsStay
    <1> QED  BY <1>1, <1>2, <1>3, <1>4, <1>5, <1>6 DEF WatchNext

----------------------------------------------------------------------------
\* The pages. Cursors up to the newest were given out; an answer carries every readable record
\* between its two ends that is still there; the only request of the drawer's generation goes on
\* from where the drawer stands, or starts over.

Requests == [generation : 1 .. MaxLoads, reset : BOOLEAN, at : {"asked", "answered"},
             rows : SUBSET Nat, skip : SUBSET Nat, before : Cursors, next : Cursors, top : Nat]
Drawers == [open : BOOLEAN, generation : 0 .. MaxLoads, loading : BOOLEAN, shown : Seq(SUBSET Nat),
            next : Cursors, top : Nat]

Given == 1 .. newest
Readable == {c \in DOMAIN events : events[c] = "content"}

PagingShape ==
    /\ newest \in Cursors /\ DOMAIN events \subseteq Given
    /\ \A c \in DOMAIN events : events[c] \in Kinds
    /\ asks \subseteq Requests /\ drawer \in Drawers
    /\ \A i \in DOMAIN drawer.shown : drawer.shown[i] \subseteq Given
    /\ drawer.top <= newest

\* What an answer holds.
Holds(r) ==
    /\ r.rows \subseteq Given /\ r.top <= newest
    /\ r.next # None /\ r.before # None => r.next < r.before
    /\ \A c \in r.rows : (r.before # None => c < r.before) /\ (r.next # None => c >= r.next)
    /\ \A c \in Readable :
           c <= r.top /\ (r.before # None => c < r.before) /\ (r.next # None => c >= r.next)
               => c \in r.rows \ r.skip

Answers ==
    \A r \in asks :
        /\ r.generation <= drawer.generation
        /\ r.reset => r.before = None
        /\ r.at = "answered" => Holds(r)
        /\ Current(r) /\ ~r.reset => /\ r.before = drawer.next /\ drawer.next # None
                                     /\ r.at = "answered" => drawer.top <= r.top

OneCurrent == \A r, q \in asks : Current(r) /\ Current(q) => r = q

\* What is shown is not below the cursor to go on from.
ShownAbove ==
    drawer.next # None => \A i \in DOMAIN drawer.shown : \A c \in drawer.shown[i] : c >= drawer.next

PagingInv == PagingShape /\ Answers /\ OneCurrent /\ ShownAbove /\ PagesJoin

\* The drawer was not shown anything: nothing is missing.
LEMMA PagingTyped ==
    ASSUME PagingInv
    PROVE  /\ newest \in Nat /\ newest \in Cursors /\ asks \subseteq Requests /\ drawer \in Drawers
           /\ \A c \in DOMAIN events : c \in Nat /\ c >= 1 /\ c <= newest
           /\ \A i \in DOMAIN drawer.shown : drawer.shown[i] \subseteq Given
           /\ drawer.top <= newest
    BY PagingAssumption DEF PagingInv, PagingShape, Cursors, Given

LEMMA PagingKept == ASSUME PagingInv PROVE PagingTypeOK /\ PagesJoin
    <1>1. drawer.top \in Cursors
        <2>1. newest \in Nat /\ newest <= MaxRecords /\ drawer.top \in Nat /\ drawer.top <= newest
            BY PagingTyped, PagingAssumption DEF Drawers, Cursors
        <2> QED  BY <2>1, PagingAssumption DEF Cursors
    <1>2. drawer.shown \in Seq(SUBSET (1 .. newest))
        <2>1. drawer.shown \in Seq(SUBSET Nat)  BY PagingTyped DEF Drawers
        <2>2. \A i \in 1 .. Len(drawer.shown) : drawer.shown[i] \in SUBSET (1 .. newest)
            BY <2>1, PagingTyped DEF Given
        <2> QED  BY <2>1, <2>2
    <1>3. \A r \in asks : r.at \in {"asked", "answered"} /\ r.generation \in 1 .. MaxLoads
        BY PagingTyped DEF Requests
    <1>4. /\ drawer.open \in BOOLEAN /\ drawer.loading \in BOOLEAN
          /\ drawer.generation \in 0 .. MaxLoads /\ drawer.next \in Cursors
        BY PagingTyped DEF Drawers
    <1> QED  BY <1>1, <1>2, <1>3, <1>4 DEF PagingTypeOK, PagingInv, PagingShape, Given

LEMMA EmptyTyped == Empty \in Drawers
    BY PagingAssumption DEF Empty, Drawers, None, Cursors

LEMMA PagingStarts == PagingInit => PagingInv
    <1> SUFFICES ASSUME PagingInit PROVE PagingInv
        OBVIOUS
    <1>1. DOMAIN events = {}  BY DEF PagingInit
    <1>2. PagingShape
        BY <1>1, EmptyTyped, PagingAssumption DEF PagingInit, PagingShape, Cursors, Empty
    <1>3. Answers /\ OneCurrent  BY DEF PagingInit, Answers, OneCurrent
    <1>4. ShownAbove /\ PagesJoin
        BY <1>1 DEF PagingInit, ShownAbove, PagesJoin, Empty, None
    <1> QED  BY <1>2, <1>3, <1>4 DEF PagingInv

\* The Hub's log changes under the answers.
LEMMA RecordStep == ASSUME PagingInv, NEW kind \in Kinds, Record(kind) PROVE PagingInv'
    <1>1. /\ newest < MaxRecords /\ newest' = newest + 1 /\ UNCHANGED <<asks, drawer>>
          /\ events' = [c \in DOMAIN events \cup {newest + 1} |->
                            IF c = newest + 1 THEN kind ELSE events[c]]
        BY DEF Record
    <1>2. newest' \in Cursors /\ newest' \in Nat /\ newest' > newest
        BY <1>1, PagingTyped, PagingAssumption DEF Cursors
    <1>3. /\ DOMAIN events' = DOMAIN events \cup {newest + 1}
          /\ \A c \in DOMAIN events : events'[c] = events[c]
          /\ events'[newest + 1] = kind
        BY <1>1, PagingTyped
    <1>4. Given \subseteq Given'  BY <1>1, PagingTyped DEF Given
    <1>5. DOMAIN events' \subseteq Given'
        BY <1>1, <1>3, PagingTyped DEF Given
    <1>6. \A c \in DOMAIN events' : events'[c] \in Kinds
        BY <1>3 DEF PagingInv, PagingShape
    <1>7. PagingShape'
        <2>1. drawer.top <= newest'  BY <1>1, PagingTyped DEF Drawers
        <2> QED  BY <1>1, <1>2, <1>4, <1>5, <1>6, <2>1 DEF PagingInv, PagingShape
    <1>8. \A c \in Readable' : c <= newest => c \in Readable
        BY <1>3, PagingTyped DEF Readable
    <1>9. ASSUME NEW r \in asks, Holds(r) PROVE Holds(r)'
        <2>1. r \in Requests  BY PagingTyped
        <2>2. r.top \in Nat /\ r.top <= newest  BY <1>9, <2>1 DEF Requests, Holds
        <2>3. r.top <= newest' /\ \A c \in Readable' : c <= r.top => c \in Readable
            <3>1. \A c \in Readable' : c \in Nat  BY <1>5, <1>2 DEF Readable, Given
            <3> QED  BY <1>1, <1>2, <1>8, <2>2, <3>1, PagingTyped
        <2> QED  BY <1>4, <1>9, <2>3 DEF Holds
    <1>10. Answers'  BY <1>1, <1>9 DEF PagingInv, Answers, Current
    <1>11. OneCurrent' /\ ShownAbove'  BY <1>1 DEF PagingInv, OneCurrent, ShownAbove, Current
    <1>12. PagesJoin'
        <2>1. drawer.top \in Nat /\ drawer.top <= newest /\ newest \in Nat
            BY PagingTyped DEF Drawers
        <2>2. \A c \in DOMAIN events' : c <= drawer.top => c \in DOMAIN events /\ events'[c] = events[c]
            BY <1>3, <2>1
        <2> QED  BY <1>1, <2>2 DEF PagingInv, PagesJoin
    <1> QED  BY <1>7, <1>10, <1>11, <1>12 DEF PagingInv

LEMMA PruneStep == ASSUME PagingInv, NEW x, Prune(x) PROVE PagingInv'
    <1>1. /\ UNCHANGED <<newest, asks, drawer>>
          /\ events' = [d \in DOMAIN events \ {x} |-> events[d]]
        BY DEF Prune
    <1>2. DOMAIN events' \subseteq DOMAIN events /\ \A c \in DOMAIN events' : events'[c] = events[c]
        BY <1>1
    <1>3. PagingShape'  BY <1>1, <1>2 DEF PagingInv, PagingShape, Given
    <1>4. Readable' \subseteq Readable  BY <1>2 DEF Readable
    <1>5. \A r \in asks : Holds(r) => Holds(r)'  BY <1>1, <1>4 DEF Holds, Given
    <1>6. Answers'  BY <1>1, <1>5 DEF PagingInv, Answers, Current
    <1>7. OneCurrent' /\ ShownAbove'  BY <1>1 DEF PagingInv, OneCurrent, ShownAbove, Current
    <1>8. PagesJoin'  BY <1>1, <1>2 DEF PagingInv, PagesJoin
    <1> QED  BY <1>3, <1>6, <1>7, <1>8 DEF PagingInv

\* The newest of a set lie above the others.
LEMMA FirstAbove ==
    ASSUME NEW S \in SUBSET Given, newest \in Nat, NEW c \in FirstRows(S), NEW d \in S, d > c
    PROVE  d \in FirstRows(S)
    <1> DEFINE Above(x) == {y \in S : y > x}
    <1>1. IsFiniteSet(S)
        <2>1. IsFiniteSet(1 .. newest)  BY FS_Interval
        <2>2. S \subseteq 1 .. newest  BY DEF Given
        <2> QED  BY <2>1, <2>2, FS_Subset
    <1>2. IsFiniteSet(Above(c))  BY <1>1, FS_Subset
    <1>3. Above(d) \subseteq Above(c)
        <2>1. c \in Int /\ d \in Int  BY DEF Given, FirstRows
        <2>2. ASSUME NEW y \in S, y > d PROVE y > c
            <3>1. y \in Int  BY DEF Given
            <3> QED  BY <2>1, <2>2, <3>1
        <2> QED  BY <2>2
    <1>4. Cardinality(Above(d)) <= Cardinality(Above(c)) /\ IsFiniteSet(Above(d))
        BY <1>2, <1>3, FS_Subset
    <1>5. Cardinality(Above(d)) \in Nat /\ Cardinality(Above(c)) \in Nat
        BY <1>2, <1>4, FS_CardinalityType
    <1>6. Cardinality(Above(c)) < PageSize  BY DEF FirstRows
    <1>7. Cardinality(Above(d)) < PageSize  BY <1>4, <1>5, <1>6, PagingAssumption
    <1> QED  BY <1>7 DEF FirstRows

\* A page that goes out is what there is between its two ends.
LEMMA PageIsWhole ==
    ASSUME PagingInv, NEW before \in Cursors, NEW cut \in Fitting(FirstRows(Rows(before))),
           NEW next \in NextCursors(cut, Rows(before))
    PROVE  /\ next \in Cursors /\ cut \subseteq Rows(before)
           /\ next # None => next \in cut
           /\ \A c \in cut : (before # None => c < before) /\ (next # None => c >= next)
           /\ \A c \in Rows(before) : (next # None => c >= next) => c \in cut
    <1> DEFINE rows == Rows(before)
    <1>1. rows \subseteq Given /\ newest \in Nat
        <2>1. rows \subseteq DOMAIN events  BY DEF Rows, Listed
        <2>2. DOMAIN events \subseteq Given  BY DEF PagingInv, PagingShape
        <2> QED  BY <2>1, <2>2, PagingTyped
    <1>2. cut \subseteq FirstRows(rows) /\ FirstRows(rows) \subseteq rows
        BY DEF Fitting, FirstRows
    <1>3. \A c \in cut : before # None => c < before  BY <1>2 DEF Rows
    <1>4. CASE cut = rows
        <2>1. next = None  BY <1>4 DEF NextCursors
        <2> QED  BY <1>2, <1>3, <1>4, <2>1, PagingAssumption DEF Cursors, None
    <1>5. CASE cut # rows
        <2>1. next \in cut /\ \A d \in cut : next <= d  BY <1>5 DEF NextCursors
        <2>2. next \in Given  BY <1>1, <1>2, <2>1
        <2>3. next \in Cursors
            <3>1. newest \in Cursors  BY PagingTyped
            <3> QED  BY <2>2, <3>1, PagingAssumption DEF Given, Cursors
        <2>4. cut \subseteq Int /\ rows \subseteq Int  BY <1>1, <1>2 DEF Given
        <2>5. \A c \in cut : c >= next  BY <2>1, <2>2, <2>4 DEF Given
        <2>6. ASSUME NEW c \in rows, c >= next PROVE c \in cut
            <3>1. CASE c = next  BY <2>1, <3>1
            <3>2. CASE c # next
                <4>1. c > next  BY <2>2, <2>4, <2>6, <3>2 DEF Given
                <4>2. next \in FirstRows(rows)  BY <1>2, <2>1
                <4>3. c \in FirstRows(rows)  BY <1>1, <4>1, <4>2, FirstAbove
                <4> QED  BY <2>1, <4>1, <4>3 DEF Fitting
            <3> QED  BY <3>1, <3>2
        <2>7. next # None  BY <2>2 DEF Given, None
        <2>8. cut \subseteq rows  BY <1>2
        <2>9. \A c \in Rows(before) : (next # None => c >= next) => c \in cut  BY <2>6, <2>7
        <2> HIDE DEF rows
        <2>10. next # None => next \in cut  BY <2>1
        <2>11. \A c \in cut : (before # None => c < before) /\ (next # None => c >= next)
            BY <1>3, <2>5
        <2>12. cut \subseteq Rows(before)  BY <2>8 DEF rows
        <2> QED  BY <2>3, <2>9, <2>10, <2>11, <2>12
    <1> QED  BY <1>4, <1>5

\* An answer takes the place of its request and holds what it should.
LEMMA AnswerStep == ASSUME PagingInv, NEW r \in asks, Answer(r) PROVE PagingInv'
    <1> DEFINE rows == Rows(r.before)
    <1>1. r.at = "asked" /\ UNCHANGED <<events, newest, drawer>>  BY DEF Answer
    <1>2. PICK cut \in Fitting(FirstRows(rows)) : \E next \in NextCursors(cut, rows) :
              asks' = (asks \ {r}) \cup
                  {[r EXCEPT !.at = "answered", !.rows = cut, !.next = next,
                             !.skip = {c \in cut : events[c] = "unreadable"}, !.top = newest]}
        BY DEF Answer
    <1>3. PICK next \in NextCursors(cut, rows) :
              asks' = (asks \ {r}) \cup
                  {[r EXCEPT !.at = "answered", !.rows = cut, !.next = next,
                             !.skip = {c \in cut : events[c] = "unreadable"}, !.top = newest]}
        BY <1>2
    <1> DEFINE skip == {c \in cut : events[c] = "unreadable"}
               q == [r EXCEPT !.at = "answered", !.rows = cut, !.next = next, !.skip = skip,
                              !.top = newest]
    <1>4. asks' = (asks \ {r}) \cup {q}  BY <1>3
    <1>5. r \in Requests /\ r.before \in Cursors /\ newest \in Nat  BY PagingTyped DEF Requests
    <1>6. /\ next \in Cursors /\ cut \subseteq rows /\ (next # None => next \in cut)
          /\ \A c \in cut : (r.before # None => c < r.before) /\ (next # None => c >= next)
          /\ \A c \in rows : (next # None => c >= next) => c \in cut
        BY <1>5, PageIsWhole
    <1>7. rows \subseteq Given /\ Given \subseteq Nat
        <2>1. rows \subseteq DOMAIN events  BY DEF Rows, Listed
        <2>2. DOMAIN events \subseteq Given  BY DEF PagingInv, PagingShape
        <2> QED  BY <2>1, <2>2 DEF Given
    <1>8. skip \subseteq Nat /\ cut \subseteq Nat /\ skip \subseteq cut  BY <1>6, <1>7
    <1>9. \A c \in skip : events[c] = "unreadable"  OBVIOUS
    <1> HIDE DEF skip
    <1>10. /\ q \in Requests /\ q.at = "answered" /\ q.rows = cut /\ q.next = next /\ q.skip = skip
           /\ q.top = newest /\ q.generation = r.generation /\ q.reset = r.reset /\ q.before = r.before
        BY <1>5, <1>6, <1>8 DEF Requests
    <1> HIDE DEF q
    <1>11. Holds(q)
        <2>1. q.rows \subseteq Given  BY <1>6, <1>7, <1>10
        <2>2. q.top <= newest  BY <1>5, <1>10
        <2>3. \A c \in Readable : (r.before # None => c < r.before) => c \in rows /\ c \notin skip
            BY <1>9 DEF Readable, Rows, Listed
        <2> QED  BY <1>6, <1>10, <2>1, <2>2, <2>3 DEF Holds
    <1>12. PagingShape'
        <2>1. asks' \subseteq Requests  BY <1>4, <1>10, PagingTyped
        <2> QED  BY <1>1, <2>1 DEF PagingInv, PagingShape, Given
    <1>13. ASSUME NEW x \in asks'
           PROVE  /\ x.generation <= drawer.generation
                  /\ x.reset => x.before = None
                  /\ x.at = "answered" => Holds(x)
                  /\ Current(x) /\ ~x.reset => /\ x.before = drawer.next /\ drawer.next # None
                                               /\ x.at = "answered" => drawer.top <= x.top
        <2>1. CASE x \in asks  BY <2>1 DEF PagingInv, Answers
        <2>2. CASE x = q
            <3>1. /\ r.generation <= drawer.generation /\ r.reset => r.before = None
                  /\ Current(r) /\ ~r.reset => r.before = drawer.next /\ drawer.next # None
                BY DEF PagingInv, Answers
            <3>2. drawer.top <= newest  BY PagingTyped
            <3> QED  BY <2>2, <3>1, <3>2, <1>10, <1>11 DEF Current, PagingInv, Answers
        <2> QED  BY <1>4, <2>1, <2>2
    <1>14. Answers'  BY <1>1, <1>13 DEF Answers, Holds, Current, Given, Readable
    <1>15. OneCurrent'
        <2>1. \A x \in asks' : x = q \/ (x \in asks /\ x # r)  BY <1>4
        <2>2. Current(q) <=> Current(r)  BY <1>10 DEF Current
        <2>3. \A x, y \in asks' : Current(x) /\ Current(y) => x = y
            BY <2>1, <2>2 DEF PagingInv, OneCurrent
        <2> QED  BY <1>1, <2>3 DEF OneCurrent, Current
    <1>16. ShownAbove' /\ PagesJoin'  BY <1>1 DEF PagingInv, ShownAbove, PagesJoin
    <1> QED  BY <1>12, <1>14, <1>15, <1>16 DEF PagingInv

\* What the drawer asks for belongs to a new generation: what was on its way is late.
LEMMA LoadStays ==
    ASSUME PagingInv, NEW reset \in BOOLEAN, NEW held \in Drawers, Load(reset, held),
           held.generation = drawer.generation, held.top <= newest,
           \A i \in DOMAIN held.shown : held.shown[i] \subseteq Given,
           ~reset => held = drawer /\ drawer.next # None,
           held = drawer \/ (held.shown = <<>> /\ held.top = 0)
    PROVE  PagingInv'
    <1> DEFINE n == drawer.generation + 1
               q == Asked(n, reset)
    <1>1. /\ drawer.generation < MaxLoads /\ UNCHANGED <<events, newest>>
          /\ drawer' = [held EXCEPT !.generation = @ + 1, !.loading = TRUE]
          /\ asks' = asks \cup {q}
        BY DEF Load
    <1>2. drawer \in Drawers /\ drawer.generation \in 0 .. MaxLoads /\ drawer.next \in Cursors
        BY PagingTyped DEF Drawers
    <1>3. n \in 1 .. MaxLoads /\ n \in 0 .. MaxLoads /\ n > drawer.generation
        BY <1>1, <1>2, PagingAssumption
    <1>4. /\ drawer' \in Drawers /\ drawer'.generation = n /\ drawer'.shown = held.shown
          /\ drawer'.next = held.next /\ drawer'.top = held.top
        <2>1. drawer' = [held EXCEPT !.generation = n, !.loading = TRUE]  BY <1>1
        <2> HIDE DEF n
        <2> QED  BY <1>3, <2>1 DEF Drawers
    <1>5. /\ q \in Requests /\ q.generation = n /\ q.reset = reset /\ q.at = "asked"
          /\ q.before = IF reset THEN None ELSE drawer.next
        <2> HIDE DEF n
        <2> QED  BY <1>2, <1>3, PagingAssumption DEF Asked, Requests, None, Cursors
    <1> HIDE DEF q
    <1>6. PagingShape'
        <2>1. asks' \subseteq Requests  BY <1>1, <1>5, PagingTyped
        <2> QED  BY <1>1, <1>4, <2>1 DEF PagingInv, PagingShape, Given
    <1>7. \A x \in asks : x.generation <= drawer.generation /\ x.generation < n /\ x.generation # n
        <2>1. ASSUME NEW x \in asks
              PROVE  x.generation <= drawer.generation /\ x.generation \in Nat
            BY PagingTyped DEF PagingInv, Answers, Requests
        <2> QED  BY <2>1, <1>2
    <1>8. Answers'
        <2>1. ASSUME NEW x \in asks
              PROVE  /\ x.generation <= n /\ x.generation # n
                     /\ x.reset => x.before = None
                     /\ x.at = "answered" => Holds(x)
            <3>1. x.generation \in Nat /\ n \in Nat  BY <1>3, PagingTyped DEF Requests
            <3> QED  BY <1>7, <3>1 DEF PagingInv, Answers
        <2>2. \A x \in asks : Holds(x) => Holds(x)'  BY <1>1 DEF Holds, Given, Readable
        <2>3. q.reset => q.before = None  BY <1>5
        <2>4. ~q.reset => q.before = drawer'.next /\ drawer'.next # None  BY <1>4, <1>5
        <2>5. n <= n  BY <1>3
        <2> HIDE DEF n
        <2> QED  BY <1>1, <1>4, <1>5, <2>1, <2>2, <2>3, <2>4, <2>5 DEF Answers, Current
    <1>9. OneCurrent'  BY <1>1, <1>4, <1>5, <1>7 DEF OneCurrent, Current
    <1>10. ShownAbove' /\ PagesJoin'
        <2>1. CASE held = drawer
            BY <1>1, <1>4, <2>1 DEF PagingInv, ShownAbove, PagesJoin
        <2>2. CASE held.shown = <<>> /\ held.top = 0
            BY <1>1, <1>4, <2>2, PagingTyped DEF ShownAbove, PagesJoin
        <2> QED  BY <2>1, <2>2
    <1> QED  BY <1>6, <1>8, <1>9, <1>10 DEF PagingInv

LEMMA OpenStep == ASSUME PagingInv, Open PROVE PagingInv'
    <1> DEFINE held == [drawer EXCEPT !.open = TRUE, !.shown = <<>>, !.next = None, !.top = 0]
    <1>1. Load(TRUE, held)  BY DEF Open
    <1>2. drawer \in Drawers /\ newest \in Nat  BY PagingTyped
    <1>3. None \in Cursors /\ <<>> \in Seq(SUBSET Nat)  BY PagingAssumption DEF None, Cursors
    <1>4. /\ held \in Drawers /\ held.generation = drawer.generation /\ held.top = 0
          /\ held.shown = <<>>
        BY <1>2, <1>3 DEF Drawers
    <1> HIDE DEF held
    <1>5. \A i \in DOMAIN held.shown : held.shown[i] \subseteq Given  BY <1>4
    <1>6. held.top <= newest  BY <1>2, <1>4
    <1>7. TRUE \in BOOLEAN  OBVIOUS
    <1> QED  BY <1>1, <1>4, <1>5, <1>6, <1>7, LoadStays

LEMMA RefreshStep == ASSUME PagingInv, Refresh \/ Scroll PROVE PagingInv'
    <1>1. Load(TRUE, drawer) \/ (Load(FALSE, drawer) /\ drawer.next # None)
        BY DEF Refresh, Scroll
    <1> QED  BY <1>1, PagingTyped, LoadStays

LEMMA CloseStep == ASSUME PagingInv, Close PROVE PagingInv'
    <1> DEFINE n == drawer.generation + 1
    <1>1. drawer.generation < MaxLoads /\ UNCHANGED <<events, newest, asks>>
          /\ drawer' = [Empty EXCEPT !.generation = n]
        BY DEF Close
    <1>2. drawer.generation \in 0 .. MaxLoads  BY PagingTyped DEF Drawers
    <1>3. n \in 0 .. MaxLoads /\ n > drawer.generation /\ n \in Nat
        BY <1>1, <1>2, PagingAssumption
    <1> HIDE DEF n
    <1>4. /\ drawer' \in Drawers /\ drawer'.generation = n /\ drawer'.shown = <<>>
          /\ drawer'.next = None /\ drawer'.top = 0
        BY <1>1, <1>3, EmptyTyped DEF Drawers, Empty
    <1>5. PagingShape'  BY <1>1, <1>4, PagingTyped DEF PagingInv, PagingShape, Given
    <1>6. ASSUME NEW x \in asks
          PROVE  /\ x.generation <= n /\ x.generation # n
                 /\ x.reset => x.before = None
                 /\ x.at = "answered" => Holds(x)
        <2>1. x.generation \in Nat /\ x.generation <= drawer.generation
            BY PagingTyped DEF Requests, PagingInv, Answers
        <2> QED  BY <1>2, <1>3, <2>1 DEF PagingInv, Answers
    <1>7. \A x \in asks : Holds(x) => Holds(x)'  BY <1>1 DEF Holds, Given, Readable
    <1>8. Answers' /\ OneCurrent'  BY <1>1, <1>4, <1>6, <1>7 DEF Answers, OneCurrent, Current
    <1>9. ShownAbove' /\ PagesJoin'  BY <1>1, <1>4, PagingTyped DEF ShownAbove, PagesJoin
    <1> QED  BY <1>5, <1>8, <1>9 DEF PagingInv

\* A request that is over is gone; nothing new is expected of the others.
LEMMA FewerAsks ==
    ASSUME PagingInv, NEW r \in asks, asks' = asks \ {r}, UNCHANGED <<events, newest>>,
           drawer' \in Drawers, drawer'.generation = drawer.generation,
           Current(r) \/ (drawer'.next = drawer.next /\ drawer'.top = drawer.top)
    PROVE  Answers' /\ OneCurrent'
    <1>1. \A x \in asks' : x \in asks /\ x # r  OBVIOUS
    <1>2. \A x : Current(x) <=> Current(x)'  BY DEF Current
    <1>3. \A x \in asks : Holds(x) => Holds(x)'  BY DEF Holds, Given, Readable
    <1>4. OneCurrent'  BY <1>1, <1>2 DEF PagingInv, OneCurrent
    <1>5. CASE Current(r)
        <2>1. \A x \in asks' : ~Current(x)'  BY <1>1, <1>2, <1>5 DEF PagingInv, OneCurrent
        <2> QED  BY <1>1, <1>3, <1>4, <2>1 DEF PagingInv, Answers
    <1>6. CASE drawer'.next = drawer.next /\ drawer'.top = drawer.top
        BY <1>1, <1>2, <1>3, <1>4, <1>6 DEF PagingInv, Answers
    <1> QED  BY <1>5, <1>6

LEMMA LoadFailsStep == ASSUME PagingInv, NEW r \in asks, LoadFails(r) PROVE PagingInv'
    <1>1. asks' = asks \ {r} /\ UNCHANGED <<events, newest>>
          /\ (drawer' = [drawer EXCEPT !.loading = FALSE] \/ drawer' = drawer)
        BY DEF LoadFails
    <1>2. /\ drawer' \in Drawers /\ drawer'.generation = drawer.generation
          /\ drawer'.shown = drawer.shown /\ drawer'.next = drawer.next /\ drawer'.top = drawer.top
        BY <1>1, PagingTyped DEF Drawers
    <1>3. PagingShape'
        <2>1. asks' \subseteq Requests  BY <1>1, PagingTyped
        <2> QED  BY <1>1, <1>2, <2>1 DEF PagingInv, PagingShape, Given
    <1>4. Answers' /\ OneCurrent'  BY <1>1, <1>2, FewerAsks
    <1>5. ShownAbove' /\ PagesJoin'  BY <1>1, <1>2 DEF PagingInv, ShownAbove, PagesJoin
    <1> QED  BY <1>3, <1>4, <1>5 DEF PagingInv

\* The page that was asked for last is put on top of nothing, or under what is shown.
LEMMA ShowStep == ASSUME PagingInv, NEW r \in asks, Show(r) PROVE PagingInv'
    <1> DEFINE readable == r.rows \ r.skip
               shown == IF r.reset THEN <<readable>> ELSE Append(drawer.shown, readable)
               top == IF r.reset THEN r.top ELSE drawer.top
    <1>1. asks' = asks \ {r} /\ UNCHANGED <<events, newest>> /\ r.at = "answered"
        BY DEF Show
    <1>2. asks' \subseteq Requests /\ r \in Requests /\ drawer \in Drawers /\ newest \in Nat
        BY <1>1, PagingTyped
    <1>3. CASE ~Current(r)
        <2>1. drawer' = drawer  BY <1>3 DEF Show
        <2>2. Answers' /\ OneCurrent'  BY <1>1, <1>2, <2>1, FewerAsks
        <2>3. PagingShape'  BY <1>1, <1>2, <2>1 DEF PagingInv, PagingShape, Given
        <2>4. ShownAbove' /\ PagesJoin'  BY <1>1, <2>1 DEF PagingInv, ShownAbove, PagesJoin
        <2> QED  BY <2>2, <2>3, <2>4 DEF PagingInv
    <1>4. CASE Current(r)
        <2>1. drawer' = [drawer EXCEPT !.shown = shown, !.next = r.next, !.loading = FALSE, !.top = top]
            BY <1>4 DEF Show
        <2>2. /\ Holds(r)
              /\ r.reset => r.before = None
              /\ ~r.reset => r.before = drawer.next /\ drawer.next # None /\ drawer.top <= r.top
            BY <1>1, <1>4 DEF PagingInv, Answers
        <2>3. /\ readable \subseteq Given /\ readable \subseteq Nat
              /\ r.next \in Cursors /\ r.top \in Nat /\ r.top <= newest
            BY <1>2, <2>2 DEF Holds, Requests, Given
        <2>4. drawer.shown \in Seq(SUBSET Nat) /\ drawer.top \in Nat /\ drawer.top <= newest
            BY PagingTyped DEF Drawers
        <2>5. \A c \in readable : (r.before # None => c < r.before) /\ (r.next # None => c >= r.next)
            BY <2>2 DEF Holds
        <2>6. \A c \in Readable :
                  c <= r.top /\ (r.before # None => c < r.before) /\ (r.next # None => c >= r.next)
                      => c \in readable
            BY <2>2 DEF Holds
        <2> HIDE DEF readable
        <2>7. CASE r.reset
            <3>1. shown = <<readable>> /\ top = r.top  BY <2>7
            <3>2. /\ shown \in Seq(SUBSET Nat) /\ DOMAIN shown = {1} /\ shown[1] = readable
                <4> HIDE DEF shown
                <4> QED  BY <2>3, <3>1
            <3> HIDE DEF shown, top
            <3>3. drawer' \in Drawers /\ drawer'.generation = drawer.generation
                  /\ drawer'.shown = shown /\ drawer'.next = r.next /\ drawer'.top = r.top
                BY <1>2, <2>1, <2>3, <3>1, <3>2 DEF Drawers
            <3>4. PagingShape'
                <4>1. \A i \in DOMAIN shown : shown[i] \subseteq Given  BY <2>3, <3>2
                <4> QED  BY <1>1, <1>2, <2>3, <3>3, <4>1 DEF PagingInv, PagingShape, Given
            <3>5. Answers' /\ OneCurrent'  BY <1>1, <1>4, <3>3, FewerAsks
            <3>6. ShownAbove'  BY <2>5, <3>2, <3>3 DEF ShownAbove
            <3>7. PagesJoin'
                <4>1. \A i, k \in DOMAIN shown : i < k => FALSE  BY <3>2
                <4>2. \A c \in Readable : c <= r.top /\ (r.next # None => c >= r.next) => c \in shown[1]
                    BY <2>2, <2>6, <2>7, <3>2
                <4> QED  BY <1>1, <3>2, <3>3, <4>1, <4>2 DEF PagesJoin, Readable
            <3> QED  BY <3>4, <3>5, <3>6, <3>7 DEF PagingInv
        <2>8. CASE ~r.reset
            <3> DEFINE n == Len(drawer.shown) + 1
            <3>1. shown = Append(drawer.shown, readable) /\ top = drawer.top  BY <2>8
            <3>2. /\ shown \in Seq(SUBSET Nat) /\ DOMAIN shown = 1 .. n /\ shown[n] = readable
                  /\ n \in Nat /\ n >= 1 /\ DOMAIN drawer.shown = 1 .. n - 1
                  /\ \A i \in 1 .. n - 1 : shown[i] = drawer.shown[i]
                <4> HIDE DEF shown
                <4>1. shown = Append(drawer.shown, readable)  BY <3>1
                <4>2. readable \in SUBSET Nat  BY <2>3
                <4> QED  BY <2>4, <4>1, <4>2
            <3> HIDE DEF shown, top, n
            <3>3. drawer' \in Drawers /\ drawer'.generation = drawer.generation
                  /\ drawer'.shown = shown /\ drawer'.next = r.next /\ drawer'.top = drawer.top
                BY <1>2, <2>1, <2>3, <2>4, <3>1, <3>2 DEF Drawers
            <3>4. \A i \in DOMAIN shown : i = n \/ i \in DOMAIN drawer.shown
                BY <3>2
            <3>5. PagingShape'
                <4>1. \A i \in DOMAIN shown : shown[i] \subseteq Given
                    BY <2>3, <3>2, <3>4, PagingTyped
                <4> QED  BY <1>1, <1>2, <2>4, <3>3, <4>1 DEF PagingInv, PagingShape, Given
            <3>6. Answers' /\ OneCurrent'  BY <1>1, <1>4, <3>3, FewerAsks
            <3>7. \A i \in DOMAIN drawer.shown : \A c \in drawer.shown[i] : c >= r.before /\ c \in Nat
                <4>1. \A i \in DOMAIN drawer.shown : drawer.shown[i] \subseteq Nat
                    BY PagingTyped DEF Given
                <4> QED  BY <2>2, <2>8, <4>1 DEF PagingInv, ShownAbove
            <3>8. r.before \in Nat /\ r.next \in Nat /\ r.before # None
                  /\ (r.next # None => r.next < r.before)
                BY <1>2, <2>2, <2>8, PagingAssumption DEF Holds, Requests, Cursors
            <3>9. ShownAbove'
                <4>1. ASSUME r.next # None, NEW i \in DOMAIN shown, NEW c \in shown[i]
                      PROVE  c >= r.next
                    <5>1. CASE i = n  BY <2>5, <3>2, <4>1, <5>1
                    <5>2. CASE i \in DOMAIN drawer.shown
                        <6>1. c \in drawer.shown[i]  BY <3>2, <4>1, <5>2
                        <6> QED  BY <3>7, <3>8, <4>1, <5>2, <6>1
                    <5> QED  BY <3>4, <5>1, <5>2
                <4> QED  BY <3>3, <4>1 DEF ShownAbove
            <3>10. PagesJoin'
                <4>1. ASSUME NEW i \in DOMAIN shown, NEW k \in DOMAIN shown, i < k,
                             NEW c \in shown[i], NEW d \in shown[k]
                      PROVE  c > d
                    <5>1. i \in DOMAIN drawer.shown /\ c \in drawer.shown[i]
                        BY <3>2, <4>1
                    <5>2. CASE k = n
                        <6>1. d < r.before /\ d \in Nat  BY <2>3, <2>5, <3>2, <3>8, <5>2
                        <6>2. c >= r.before /\ c \in Nat  BY <3>7, <5>1
                        <6> QED  BY <3>8, <6>1, <6>2
                    <5>3. CASE k \in DOMAIN drawer.shown
                        <6>1. d \in drawer.shown[k]  BY <3>2, <4>1, <5>3
                        <6> QED  BY <4>1, <5>1, <5>3, <6>1 DEF PagingInv, PagesJoin
                    <5> QED  BY <3>4, <5>2, <5>3
                <4>2. ASSUME NEW c \in Readable, c <= drawer.top, r.next # None => c >= r.next
                      PROVE  \E i \in DOMAIN shown : c \in shown[i]
                    <5>1. c \in Nat  BY PagingTyped DEF Readable
                    <5>2. CASE c >= drawer.next
                        <6>1. PICK i \in DOMAIN drawer.shown : c \in drawer.shown[i]
                            BY <4>2, <5>2 DEF PagingInv, PagesJoin, Readable
                        <6>2. i \in DOMAIN shown /\ shown[i] = drawer.shown[i]  BY <3>2
                        <6> QED  BY <6>1, <6>2
                    <5>3. CASE ~(c >= drawer.next)
                        <6>1. c < r.before  BY <2>2, <2>8, <3>8, <5>1, <5>3
                        <6>2. c <= r.top  BY <2>2, <2>3, <2>4, <2>8, <4>2, <5>1
                        <6>3. c \in shown[n]  BY <2>6, <3>2, <4>2, <6>1, <6>2
                        <6>4. n \in DOMAIN shown  BY <3>2
                        <6> QED  BY <6>3, <6>4
                    <5> QED  BY <5>2, <5>3
                <4> QED  BY <1>1, <3>3, <4>1, <4>2 DEF PagesJoin, Readable
            <3> QED  BY <3>5, <3>6, <3>9, <3>10 DEF PagingInv
        <2> QED  BY <2>7, <2>8
    <1> QED  BY <1>3, <1>4

LEMMA PagingServes == ASSUME PagingInv, [PagingNext]_pagingVars PROVE PagingInv'
    <1>1. ASSUME NEW kind \in Kinds, Record(kind) PROVE PagingInv'  BY <1>1, RecordStep
    <1>2. ASSUME NEW c \in 1 .. MaxRecords, Prune(c) PROVE PagingInv'  BY <1>2, PruneStep
    <1>3. CASE Open \/ Refresh \/ Scroll \/ Close
        BY <1>3, OpenStep, RefreshStep, CloseStep
    <1>4. ASSUME NEW r \in asks, Answer(r) \/ Show(r) \/ LoadFails(r) PROVE PagingInv'
        BY <1>4, AnswerStep, ShowStep, LoadFailsStep
    <1>5. CASE UNCHANGED pagingVars
        <2>1. UNCHANGED <<events, newest, asks, drawer>>  BY <1>5 DEF pagingVars
        <2> QED  BY <2>1 DEF PagingInv, PagingShape, Answers, Holds, OneCurrent, ShownAbove,
                             PagesJoin, Current, Given, Readable
    <1> QED  BY <1>1, <1>2, <1>3, <1>4, <1>5 DEF PagingNext

----------------------------------------------------------------------------
\* The directory. Whoever works under the group's lock has it, whoever was let past the check under
\* it is no removed device, and a request's cursor goes no further than what its device has or
\* is about to be given.

Requested == [kind : Kind \cup {"none"},
              at : {"idle", "asked", "merging", "announcing", "writing", "storing", "paging", "answered"},
              told : Marks, page : SUBSET (1 .. MaxStored), upto : 0 .. MaxStored]

DirShape ==
    /\ tombstone \in Marks /\ knows \in [Device -> Marks]
    /\ listed \subseteq Device /\ belongs \subseteq Device /\ holder \in Device \cup {Nobody}
    /\ stored \in Seq(Device) /\ Len(stored) <= MaxStored
    /\ place \in [Device -> 0 .. MaxStored] /\ has \in [Device -> SUBSET (1 .. MaxStored)]
    /\ request \in [Device -> Requested] /\ time \in 0 .. MaxClock

Covered(q, given) == 1 .. q.upto \subseteq given \cup q.page /\ (q.at # "answered" => q.page = {})

LockedRight(q, d, h, mark) ==
    /\ q.at \in {"merging", "announcing", "writing", "storing", "paging"} /\ q.kind \in TakesLock
           => h = d
    /\ q.at # "idle" => q.kind \in Kind
    /\ q.at = "merging" => q.kind \in {"sync", "removals"}
    /\ q.at \in {"storing", "paging"} => q.kind \in {"sync", "legacy"}
    /\ q.at \in {"writing", "storing", "paging"} /\ q.kind \in TakesLock
           => ~(d = Subject /\ Gone(mark))

DirInv ==
    /\ DirShape /\ NothingPassed
    /\ \A d \in Device : Covered(request[d], has[d]) /\ LockedRight(request[d], d, holder, tombstone)

DirGood == DirInv' /\ MembersOnlyStep

LEMMA DirTyped ==
    ASSUME DirInv, NEW d \in Device
    PROVE  /\ request \in [Device -> Requested] /\ request[d] \in Requested
           /\ Covered(request[d], has[d]) /\ LockedRight(request[d], d, holder, tombstone)
           /\ has[d] \subseteq 1 .. MaxStored /\ place[d] \in 0 .. MaxStored
           /\ 1 .. place[d] \subseteq has[d] /\ knows[d] \in Marks /\ tombstone \in Marks
           /\ holder \in Device \cup {Nobody}
    BY DEF DirInv, DirShape, NothingPassed

LEMMA DirKept == ASSUME DirInv PROVE DirTypeOK /\ NothingPassed
    <1>1. \A d \in Device :
              /\ request[d].kind \in Kind \cup {"none"} /\ request[d].told \in Marks
              /\ request[d].upto \in 0 .. MaxStored /\ request[d].page \subseteq 1 .. MaxStored
        BY DirTyped DEF Requested
    <1> QED  BY <1>1 DEF DirInv, DirShape, DirTypeOK

LEMMA IdleTyped ==
    /\ Idle \in Requested /\ Idle.at = "idle" /\ Idle.page = {} /\ Idle.upto = 0
    /\ NoMark \in Marks /\ \A h : Covered(Idle, h)
    <1>1. NoMark \in Marks  BY DirectoryAssumption DEF NoMark, Marks
    <1>2. 0 \in 0 .. MaxStored  BY DirectoryAssumption
    <1>3. Idle \in Requested /\ Idle.at = "idle" /\ Idle.page = {} /\ Idle.upto = 0
        BY <1>1, <1>2 DEF Idle, Requested
    <1>4. \A h : Covered(Idle, h)  BY <1>3 DEF Covered
    <1> QED  BY <1>1, <1>3, <1>4

LEMMA DirStarts == DirInit => DirInv
    <1> SUFFICES ASSUME DirInit PROVE DirInv
        OBVIOUS
    <1>1. 0 \in 0 .. MaxStored /\ 0 \in 0 .. MaxClock /\ 0 <= MaxStored  BY DirectoryAssumption
    <1>2. DirShape
        <2>1. stored \in Seq(Device) /\ Len(stored) = 0  BY DEF DirInit
        <2>2. request \in [Device -> Requested] /\ knows \in [Device -> Marks] /\ tombstone \in Marks
            BY IdleTyped DEF DirInit
        <2> QED  BY <1>1, <2>1, <2>2 DEF DirInit, DirShape
    <1>3. ASSUME NEW d \in Device
          PROVE  Covered(request[d], has[d]) /\ LockedRight(request[d], d, holder, tombstone) /\ 1 .. place[d] \subseteq has[d]
        <2>1. request[d] = Idle /\ place[d] = 0  BY DEF DirInit
        <2> QED  BY <2>1, IdleTyped DEF LockedRight
    <1> QED  BY <1>2, <1>3 DEF DirInv, NothingPassed

\* A step of one request: the others keep what they have of the lock.
LEMMA OthersStay ==
    ASSUME DirInv, NEW d \in Device, NEW q \in Requested, Goes(d, q),
           holder' \in Device \cup {Nobody}, holder' = holder \/ holder \in {Nobody, d},
           tombstone' = tombstone \/ holder = d,
           LockedRight(q, d, holder', tombstone'),
           \A e \in Device : e # d => has'[e] = has[e],
           Covered(q, has'[d])
    PROVE  /\ request' \in [Device -> Requested] /\ request'[d] = q
           /\ \A e \in Device : e # d => request'[e] = request[e]
           /\ \A e \in Device : Covered(request'[e], has'[e]) /\ LockedRight(request'[e], e, holder', tombstone')
    <1>1. request' = [request EXCEPT ![d] = q]  BY DEF Goes
    <1>2. request' \in [Device -> Requested]  BY <1>1, DirTyped
    <1>3. \A e \in Device : request'[e] = IF e = d THEN q ELSE request[e]  BY <1>1, DirTyped
    <1>4. ASSUME NEW e \in Device, e # d
          PROVE  Covered(request'[e], has'[e]) /\ LockedRight(request'[e], e, holder', tombstone')
        <2>1. LockedRight(request[e], e, holder, tombstone) /\ Covered(request[e], has[e])  BY DirTyped
        <2>2. e # Nobody  BY DirectoryAssumption
        <2>3. holder = e => holder' = e /\ tombstone' = tombstone  BY <1>4, <2>2
        <2>4. LockedRight(request[e], e, holder', tombstone')  BY <1>3, <1>4, <2>1, <2>3 DEF LockedRight, Removed
        <2> QED  BY <1>3, <1>4, <2>1, <2>4 DEF LockedRight, Removed
    <1> QED  BY <1>2, <1>3, <1>4

\* Where only requests and the lock move.
LEMMA OneRequest ==
    ASSUME DirInv, NEW d \in Device, NEW q \in Requested, Goes(d, q),
           UNCHANGED <<tombstone, listed, stored, knows, place, has, belongs, time>>,
           holder' \in Device \cup {Nobody}, holder' = holder \/ holder \in {Nobody, d},
           LockedRight(q, d, holder', tombstone'), Covered(q, has[d]),
           q.page \subseteq request[d].page \/ ~Removed(d)
    PROVE  DirGood
    <1>1. /\ request' \in [Device -> Requested] /\ request'[d] = q
          /\ \A e \in Device : e # d => request'[e] = request[e]
          /\ \A e \in Device : Covered(request'[e], has'[e]) /\ LockedRight(request'[e], e, holder', tombstone')
        BY OthersStay
    <1>2. DirShape'  BY <1>1 DEF DirInv, DirShape
    <1>3. DirInv'  BY <1>1, <1>2 DEF DirInv, NothingPassed, Covered, LockedRight, Removed
    <1>4. MembersOnlyStep
        <2>1. ~(Len(stored') > Len(stored))
            <3>1. Len(stored) \in Nat  BY DEF DirInv, DirShape
            <3> QED  BY <3>1
        <2> QED  BY <1>1, <2>1 DEF MembersOnlyStep
    <1> QED  BY <1>3, <1>4 DEF DirGood

\* The steps of the handlers.
LEMMA AdmitStep == ASSUME DirInv, NEW d \in Device, Admit(d) PROVE DirGood
    <1>1. request[d].at = "asked" /\ UNCHANGED <<tombstone, listed, stored, knows, place, has, belongs, time>>
        BY DEF Admit
    <1>2. request[d] \in Requested /\ Covered(request[d], has[d])  BY DirTyped
    <1>3. request[d].page = {} /\ request[d].kind \in Kind
        BY <1>1, <1>2, DirTyped DEF Covered, LockedRight
    <1>4. CASE request[d].kind \in TakesLock
        <2> DEFINE step == IF request[d].kind \in {"sync", "removals"} THEN "merging" ELSE "announcing"
                   q == [request[d] EXCEPT !.at = step]
        <2>1. holder = Nobody /\ holder' = d /\ Goes(d, q)  BY <1>4 DEF Admit, At
        <2>2. step \in {"merging", "announcing"}
              /\ (step = "merging" => request[d].kind \in {"sync", "removals"})
            OBVIOUS
        <2> HIDE DEF step
        <2>3. q \in Requested /\ q.at = step /\ q.kind = request[d].kind /\ q.page = {}
              /\ q.upto = request[d].upto
            BY <1>2, <1>3, <2>2 DEF Requested
        <2> HIDE DEF q
        <2>4. Covered(q, has[d])  BY <1>2, <1>3, <2>3 DEF Covered
        <2>5. LockedRight(q, d, holder', tombstone')  BY <1>3, <2>1, <2>2, <2>3 DEF LockedRight
        <2> QED  BY <1>1, <2>1, <2>3, <2>4, <2>5, OneRequest
    <1>5. CASE request[d].kind \notin TakesLock
        <2>1. holder' = holder /\ (Goes(d, Idle) \/ Goes(d, [request[d] EXCEPT !.at = "announcing"]))
            BY <1>5 DEF Admit, At
        <2>2. CASE Goes(d, Idle)
            <3>1. LockedRight(Idle, d, holder', tombstone')  BY IdleTyped DEF LockedRight
            <3> QED  BY <1>1, <2>1, <2>2, <3>1, IdleTyped, DirTyped, OneRequest
        <2>3. CASE Goes(d, [request[d] EXCEPT !.at = "announcing"])
            <3> DEFINE q == [request[d] EXCEPT !.at = "announcing"]
            <3>1. q \in Requested /\ q.at = "announcing" /\ q.kind = request[d].kind /\ q.page = {}
                  /\ q.upto = request[d].upto
                BY <1>2, <1>3 DEF Requested
            <3> HIDE DEF q
            <3>2. Covered(q, has[d])  BY <1>2, <1>3, <3>1 DEF Covered
            <3>3. LockedRight(q, d, holder', tombstone')  BY <1>3, <1>5, <3>1 DEF LockedRight
            <3>4. Goes(d, q)  BY <2>3 DEF q
            <3> QED  BY <1>1, <2>1, <3>1, <3>2, <3>3, <3>4, DirTyped, OneRequest
        <2> QED  BY <2>1, <2>2, <2>3
    <1> QED  BY <1>4, <1>5

\* Marks join to marks.
LEMMA JoinedTyped ==
    ASSUME NEW m \in Marks, NEW n \in Marks
    PROVE  Joined(m, n) \in Marks
    BY DirectoryAssumption DEF Joined, Newer, Marks

LEMMA ReleaseFrees ==
    ASSUME DirInv, NEW d \in Device, Release(d)
    PROVE  holder' \in Device \cup {Nobody} /\ (holder' = holder \/ holder \in {Nobody, d})
    BY DirTyped DEF Release, Locked

LEMMA MergeStep == ASSUME DirInv, NEW d \in Device, Merge(d) PROVE DirGood
    <1> DEFINE mark == IF Removed(d) THEN tombstone ELSE Joined(tombstone, request[d].told)
               q == [request[d] EXCEPT !.at = "announcing", !.told = mark]
               p == [request[d] EXCEPT !.at = "answered", !.told = mark]
    <1>1. /\ request[d].at = "merging" /\ tombstone' = mark
          /\ UNCHANGED <<stored, knows, place, has, belongs, time>>
          /\ \/ Goes(d, q) /\ holder' = holder
             \/ Goes(d, p) /\ Release(d)
        BY DEF Merge
    <1>2. listed' \subseteq listed  BY DEF Merge
    <1>3. request[d] \in Requested /\ Covered(request[d], has[d]) /\ LockedRight(request[d], d, holder, tombstone)
        BY DirTyped
    <1>4. request[d].kind \in {"sync", "removals"} /\ holder = d /\ request[d].page = {}
        <2>1. request[d].kind \in {"sync", "removals"}  BY <1>1, <1>3 DEF LockedRight
        <2>2. request[d].kind \in TakesLock  BY <2>1 DEF TakesLock, Kind
        <2> QED  BY <1>1, <1>3, <2>1, <2>2 DEF LockedRight, Covered
    <1>5. mark \in Marks  BY <1>3, DirTyped, JoinedTyped DEF Requested
    <1> HIDE DEF mark
    <1>6. /\ q.kind = request[d].kind /\ p.kind = request[d].kind
          /\ q \in Requested /\ q.at = "announcing" /\ q.page = {} /\ q.upto = request[d].upto
          /\ p \in Requested /\ p.at = "answered" /\ p.page = {} /\ p.upto = request[d].upto
        BY <1>3, <1>4, <1>5 DEF Requested
    <1> HIDE DEF q, p
    <1>7. PICK x \in {p, q} : /\ Goes(d, x) /\ holder' \in Device \cup {Nobody}
                              /\ holder' = holder \/ x.at = "answered"
        BY <1>1, <1>4, <1>6, ReleaseFrees
    <1>8. x \in Requested /\ x.at \in {"announcing", "answered"} /\ x.page = {} /\ x.upto = request[d].upto
          /\ x.kind = request[d].kind
        BY <1>6
    <1>9. Covered(x, has[d]) /\ Covered(x, has'[d])  BY <1>1, <1>3, <1>4, <1>8 DEF Covered
    <1>10. LockedRight(x, d, holder', tombstone')  BY <1>4, <1>7, <1>8 DEF LockedRight, Kind
    <1>11. /\ request' \in [Device -> Requested] /\ request'[d] = x
           /\ \A e \in Device : e # d => request'[e] = request[e]
           /\ \A e \in Device : Covered(request'[e], has'[e]) /\ LockedRight(request'[e], e, holder', tombstone')
        BY <1>1, <1>4, <1>7, <1>8, <1>9, <1>10, OthersStay
    <1>12. DirShape'
        <2>1. listed' \subseteq Device  BY <1>2 DEF DirInv, DirShape
        <2> QED  BY <1>1, <1>5, <1>7, <1>11, <2>1 DEF DirInv, DirShape
    <1>13. DirInv'
        BY <1>1, <1>11, <1>12 DEF DirInv, NothingPassed, Covered, LockedRight, Removed
    <1>14. MembersOnlyStep
        <2>1. ~(Len(stored') > Len(stored))
            <3>1. Len(stored) \in Nat  BY DEF DirInv, DirShape
            <3> QED  BY <1>1, <3>1
        <2> QED  BY <1>2, <1>8, <1>11, <2>1 DEF MembersOnlyStep
    <1> QED  BY <1>13, <1>14 DEF DirGood

\* A handler that gives up is idle and may have let go of the lock.
LEMMA GiveUpStep ==
    ASSUME DirInv, NEW d \in Device, Goes(d, Idle), Release(d) \/ holder' = holder,
           UNCHANGED <<tombstone, listed, stored, knows, place, has, belongs, time>>
    PROVE  DirGood
    <1>1. LockedRight(Idle, d, holder', tombstone')  BY IdleTyped DEF LockedRight
    <1>2. holder' \in Device \cup {Nobody} /\ (holder' = holder \/ holder \in {Nobody, d})
        BY DirTyped, ReleaseFrees
    <1> QED  BY <1>1, <1>2, IdleTyped, OneRequest

LEMMA CheckStep == ASSUME DirInv, NEW d \in Device, Check(d) PROVE DirGood
    <1>1. request[d].at = "announcing" /\ UNCHANGED <<tombstone, listed, stored, knows, place, has, belongs, time>>
        BY DEF Check
    <1>2. CASE Removed(d)
        <2>1. Goes(d, Idle) /\ Release(d)  BY <1>2 DEF Check
        <2> QED  BY <1>1, <2>1, GiveUpStep
    <1>3. CASE ~Removed(d)
        <2> DEFINE q == [request[d] EXCEPT !.at = "writing"]
        <2>1. Goes(d, q) /\ holder' = holder  BY <1>3 DEF Check, At
        <2>2. request[d] \in Requested /\ Covered(request[d], has[d]) /\ LockedRight(request[d], d, holder, tombstone)
            BY DirTyped
        <2>3. q \in Requested /\ q.at = "writing" /\ q.kind = request[d].kind
              /\ q.page = request[d].page /\ q.upto = request[d].upto
            BY <2>2 DEF Requested
        <2> HIDE DEF q
        <2>4. Covered(q, has[d])  BY <1>1, <2>2, <2>3 DEF Covered
        <2>5. LockedRight(q, d, holder', tombstone')  BY <1>1, <1>3, <2>1, <2>2, <2>3 DEF LockedRight, Removed
        <2> QED  BY <1>1, <2>1, <2>3, <2>4, <2>5, DirTyped, OneRequest
    <1> QED  BY <1>2, <1>3

LEMMA WriteStep == ASSUME DirInv, NEW d \in Device, Write(d) PROVE DirGood
    <1> DEFINE q == [request[d] EXCEPT !.at = "storing"]
               p == [request[d] EXCEPT !.at = "answered", !.told = NoMark]
    <1>1. /\ request[d].at = "writing" /\ listed' = listed \cup {d}
          /\ UNCHANGED <<tombstone, stored, knows, place, has, belongs, time>>
          /\ \/ request[d].kind \in {"sync", "legacy"} /\ Goes(d, q) /\ holder' = holder
             \/ Goes(d, p) /\ Release(d)
        BY DEF Write, At
    <1>2. request[d] \in Requested /\ Covered(request[d], has[d]) /\ LockedRight(request[d], d, holder, tombstone)
        BY DirTyped
    <1>3. request[d].page = {} /\ request[d].kind \in Kind
        BY <1>1, <1>2 DEF Covered, LockedRight
    <1>4. /\ q \in Requested /\ q.at = "storing" /\ q.page = {} /\ q.upto = request[d].upto
          /\ q.kind = request[d].kind /\ p.kind = request[d].kind
          /\ p \in Requested /\ p.at = "answered" /\ p.page = {} /\ p.upto = request[d].upto
        BY <1>2, <1>3, IdleTyped DEF Requested
    <1> HIDE DEF q, p
    <1>5. PICK x \in {p, q} :
              /\ Goes(d, x) /\ holder' \in Device \cup {Nobody}
              /\ holder' = holder \/ holder \in {Nobody, d}
              /\ x = p \/ (x = q /\ request[d].kind \in {"sync", "legacy"} /\ holder' = holder)
        BY <1>1, DirTyped, ReleaseFrees
    <1>6. x \in Requested /\ x.page = {} /\ x.upto = request[d].upto  BY <1>4
    <1>7. Covered(x, has'[d])  BY <1>1, <1>2, <1>3, <1>6 DEF Covered
    <1>8. LockedRight(x, d, holder', tombstone')
        <2>1. CASE x = p  BY <1>3, <1>4, <2>1 DEF LockedRight
        <2>2. CASE x = q /\ request[d].kind \in {"sync", "legacy"} /\ holder' = holder
            BY <1>1, <1>2, <1>4, <2>2 DEF LockedRight, TakesLock, Kind
        <2> QED  BY <1>5, <2>1, <2>2
    <1>9. /\ request' \in [Device -> Requested] /\ request'[d] = x
          /\ \A e \in Device : e # d => request'[e] = request[e]
          /\ \A e \in Device : Covered(request'[e], has'[e]) /\ LockedRight(request'[e], e, holder', tombstone')
        BY <1>1, <1>5, <1>6, <1>7, <1>8, OthersStay
    <1>10. DirShape'
        <2>1. listed' \subseteq Device  BY <1>1 DEF DirInv, DirShape
        <2> QED  BY <1>1, <1>5, <1>9, <2>1 DEF DirInv, DirShape
    <1>11. DirInv'  BY <1>1, <1>9, <1>10 DEF DirInv, NothingPassed, Covered, LockedRight
    <1>12. MembersOnlyStep
        <2>1. ~(Len(stored') > Len(stored))
            <3>1. Len(stored) \in Nat  BY DEF DirInv, DirShape
            <3> QED  BY <1>1, <3>1
        <2>2. Removed(d) => request[d].kind = "directory"
            <3>1. Removed(d) => request[d].kind \notin TakesLock
                BY <1>1, <1>2 DEF LockedRight, Removed
            <3>2. request[d].kind \in Kind  BY <1>1, <1>2 DEF LockedRight
            <3> QED  BY <1>2, <3>1, <3>2 DEF TakesLock, Requested
        <2> QED  BY <1>1, <1>6, <1>9, <2>1, <2>2 DEF MembersOnlyStep
    <1> QED  BY <1>11, <1>12 DEF DirGood

\* An event that is stored is the next one, of a device the Hub let past its check.
LEMMA StoreEventStep == ASSUME DirInv, NEW d \in Device, StoreEvent(d) PROVE DirGood
    <1> DEFINE q == [request[d] EXCEPT !.at = "paging"]
    <1>1. /\ request[d].at = "storing" /\ Len(stored) < MaxStored /\ stored' = Append(stored, d)
          /\ Goes(d, q) /\ UNCHANGED <<tombstone, listed, holder, knows, place, has, belongs, time>>
        BY DEF StoreEvent, At
    <1>2. request[d] \in Requested /\ Covered(request[d], has[d]) /\ LockedRight(request[d], d, holder, tombstone)
        BY DirTyped
    <1>3. request[d].page = {} /\ request[d].kind \in {"sync", "legacy"}
        BY <1>1, <1>2 DEF Covered, LockedRight
    <1>4. /\ q \in Requested /\ q.at = "paging" /\ q.page = {} /\ q.upto = request[d].upto
          /\ q.kind = request[d].kind
        BY <1>2, <1>3 DEF Requested
    <1> HIDE DEF q
    <1>5. Covered(q, has'[d])  BY <1>1, <1>2, <1>3, <1>4 DEF Covered
    <1>6. LockedRight(q, d, holder', tombstone')  BY <1>1, <1>2, <1>3, <1>4 DEF LockedRight
    <1>7. /\ request' \in [Device -> Requested] /\ request'[d] = q
          /\ \A e \in Device : e # d => request'[e] = request[e]
          /\ \A e \in Device : Covered(request'[e], has'[e]) /\ LockedRight(request'[e], e, holder', tombstone')
        BY <1>1, <1>4, <1>5, <1>6, DirTyped, OthersStay
    <1>8. stored \in Seq(Device) /\ Len(stored) \in Nat  BY DEF DirInv, DirShape
    <1>9. stored' \in Seq(Device) /\ Len(stored') = Len(stored) + 1 /\ stored'[Len(stored')] = d
        BY <1>1, <1>8
    <1>10. Len(stored') <= MaxStored  BY <1>1, <1>8, <1>9, DirectoryAssumption
    <1>11. DirShape'  BY <1>1, <1>7, <1>9, <1>10 DEF DirInv, DirShape
    <1>12. DirInv'  BY <1>1, <1>7, <1>11 DEF DirInv, NothingPassed, Covered, LockedRight
    <1>13. ~Removed(d)
        BY <1>1, <1>2, <1>3 DEF LockedRight, TakesLock, Kind, Removed
    <1>14. MembersOnlyStep  BY <1>1, <1>4, <1>7, <1>9, <1>13 DEF MembersOnlyStep
    <1> QED  BY <1>12, <1>14 DEF DirGood

LEMMA StoreNothingStep == ASSUME DirInv, NEW d \in Device, StoreNothing(d) PROVE DirGood
    <1> DEFINE q == [request[d] EXCEPT !.at = "paging"]
    <1>1. /\ request[d].at = "storing" /\ Goes(d, q)
          /\ UNCHANGED <<tombstone, listed, stored, holder, knows, place, has, belongs, time>>
        BY DEF StoreNothing, At
    <1>2. request[d] \in Requested /\ Covered(request[d], has[d]) /\ LockedRight(request[d], d, holder, tombstone)
        BY DirTyped
    <1>3. request[d].page = {} /\ request[d].kind \in {"sync", "legacy"}
        BY <1>1, <1>2 DEF Covered, LockedRight
    <1>4. /\ q \in Requested /\ q.at = "paging" /\ q.page = {} /\ q.upto = request[d].upto
          /\ q.kind = request[d].kind
        BY <1>2, <1>3 DEF Requested
    <1> HIDE DEF q
    <1>5. Covered(q, has[d])  BY <1>2, <1>3, <1>4 DEF Covered
    <1>6. LockedRight(q, d, holder', tombstone')  BY <1>1, <1>2, <1>3, <1>4 DEF LockedRight
    <1> QED  BY <1>1, <1>3, <1>4, <1>5, <1>6, DirTyped, OneRequest

LEMMA StoreFailsStep == ASSUME DirInv, NEW d \in Device, StoreFails(d) PROVE DirGood
    BY GiveUpStep DEF StoreFails

\* A page goes on from the request's cursor to its own, without a gap.
LEMMA ReadPageStep == ASSUME DirInv, NEW d \in Device, ReadPage(d) PROVE DirGood
    <1> DEFINE u == request[d].upto
               told == IF request[d].kind = "sync" THEN request[d].told ELSE NoMark
    <1>1. /\ request[d].at = "paging" /\ Release(d)
          /\ UNCHANGED <<tombstone, listed, stored, knows, place, has, belongs, time>>
        BY DEF ReadPage
    <1>2. PICK n \in PageEnds(u) :
              Goes(d, [request[d] EXCEPT !.at = "answered", !.page = u + 1 .. n, !.upto = n, !.told = told])
        BY DEF ReadPage
    <1>3. request[d] \in Requested /\ Covered(request[d], has[d]) /\ LockedRight(request[d], d, holder, tombstone)
        BY DirTyped
    <1>4. request[d].page = {} /\ request[d].kind \in {"sync", "legacy"} /\ u \in 0 .. MaxStored
        BY <1>1, <1>3 DEF Covered, LockedRight, Requested
    <1>5. Len(stored) \in Nat /\ Len(stored) <= MaxStored  BY DEF DirInv, DirShape
    <1>6. n \in 0 .. MaxStored /\ u + 1 .. n \subseteq 1 .. MaxStored /\ 1 .. n = 1 .. u \cup (u + 1 .. n)
        BY <1>4, <1>5, DirectoryAssumption DEF PageEnds
    <1>7. told \in Marks  BY <1>3, IdleTyped DEF Requested
    <1> DEFINE page == u + 1 .. n
               q == [request[d] EXCEPT !.at = "answered", !.page = page, !.upto = n, !.told = told]
    <1>8. page \subseteq 1 .. MaxStored  BY <1>6
    <1> HIDE DEF told
    <1>9. Goes(d, q)  BY <1>2
    <1>10. 1 .. n = 1 .. u \cup page  BY <1>6
    <1> HIDE DEF page
    <1>11. /\ q \in Requested /\ q.at = "answered" /\ q.page = page /\ q.upto = n
           /\ q.kind = request[d].kind
        BY <1>3, <1>6, <1>7, <1>8 DEF Requested
    <1> HIDE DEF q
    <1>12. Covered(q, has[d])  BY <1>3, <1>4, <1>10, <1>11 DEF Covered
    <1>13. LockedRight(q, d, holder', tombstone')
        BY <1>4, <1>11 DEF LockedRight, Kind
    <1>14. ~Removed(d)
        BY <1>1, <1>3, <1>4 DEF LockedRight, TakesLock, Kind, Removed
    <1>15. holder' \in Device \cup {Nobody} /\ (holder' = holder \/ holder \in {Nobody, d})
        BY <1>1, ReleaseFrees
    <1> QED  BY <1>1, <1>9, <1>11, <1>12, <1>13, <1>14, <1>15, OneRequest

\* The steps of the clients.
LEMMA AskStep == ASSUME DirInv, NEW d \in Device, NEW kind \in Kind, Ask(d, kind) PROVE DirGood
    <1> DEFINE q == [Idle EXCEPT !.kind = kind, !.at = "asked", !.told = knows[d], !.upto = place[d]]
    <1>1. Goes(d, q) /\ UNCHANGED <<tombstone, listed, stored, holder, knows, place, has, belongs, time>>
        BY DEF Ask
    <1>2. /\ q \in Requested /\ q.at = "asked" /\ q.page = {} /\ q.upto = place[d] /\ q.kind = kind
        BY DirTyped, IdleTyped DEF Requested
    <1> HIDE DEF q
    <1>3. Covered(q, has[d])  BY <1>2, DirTyped DEF Covered
    <1>4. LockedRight(q, d, holder', tombstone')  BY <1>2 DEF LockedRight
    <1> QED  BY <1>1, <1>2, <1>3, <1>4, DirTyped, OneRequest

LEMMA AnswerLostStep == ASSUME DirInv, NEW d \in Device, AnswerLost(d) PROVE DirGood
    BY GiveUpStep DEF AnswerLost

\* Where requests, lock and log stay, only what the devices know of the subject moves.
LEMMA KnowingStays ==
    ASSUME DirInv, knows' \in [Device -> Marks], belongs' \subseteq Device, time' \in 0 .. MaxClock,
           UNCHANGED <<tombstone, listed, stored, holder, request, place, has>>
    PROVE  DirGood
    <1>1. DirShape'  BY DEF DirInv, DirShape
    <1>2. DirInv'  BY <1>1 DEF DirInv, NothingPassed, Covered, LockedRight
    <1>3. MembersOnlyStep
        <2>1. ~(Len(stored') > Len(stored))
            <3>1. Len(stored) \in Nat  BY DEF DirInv, DirShape
            <3> QED  BY <3>1
        <2> QED  BY <2>1 DEF MembersOnlyStep
    <1> QED  BY <1>2, <1>3 DEF DirGood

LEMMA Later == ASSUME DirInv, time < MaxClock PROVE time + 1 \in 0 .. MaxClock
    BY DirectoryAssumption DEF DirInv, DirShape

LEMMA RemoveStep == ASSUME DirInv, NEW d \in Device, RemoveSubject(d) PROVE DirGood
    <1> DEFINE mark == [knows[d] EXCEPT !.removed = time + 1]
    <1>1. /\ time < MaxClock /\ time' = time + 1 /\ knows' = [knows EXCEPT ![d] = mark]
          /\ UNCHANGED <<tombstone, listed, stored, holder, request, place, has, belongs>>
        BY DEF RemoveSubject
    <1>2. mark \in Marks  BY <1>1, Later, DirTyped DEF Marks
    <1> HIDE DEF mark
    <1>3. knows' \in [Device -> Marks] /\ belongs' \subseteq Device
        BY <1>1, <1>2 DEF DirInv, DirShape
    <1> QED  BY <1>1, <1>3, Later, KnowingStays

LEMMA RestoreStep == ASSUME DirInv, NEW d \in Device, RestoreSubject(d) PROVE DirGood
    <1> DEFINE mark == [knows[d] EXCEPT !.restored = time + 1]
    <1>1. /\ time < MaxClock /\ time' = time + 1 /\ belongs' = Device
          /\ knows' = [knows EXCEPT ![d] = mark, ![Subject] = mark]
          /\ UNCHANGED <<tombstone, listed, stored, holder, request, place, has>>
        BY DEF RestoreSubject
    <1>2. mark \in Marks  BY <1>1, Later, DirTyped DEF Marks
    <1> HIDE DEF mark
    <1>3. knows' \in [Device -> Marks] /\ belongs' \subseteq Device
        BY <1>1, <1>2 DEF DirInv, DirShape
    <1> QED  BY <1>1, <1>3, Later, KnowingStays

\* An answer is taken: its page and its cursor go together, and leaving forgets both.
LEMMA TakeAnswerStep == ASSUME DirInv, NEW d \in Device, TakeAnswer(d) PROVE DirGood
    <1> DEFINE r == request[d]
               mark == Joined(knows[d], r.told)
    <1>1. /\ r.at = "answered" /\ Goes(d, Idle)
          /\ UNCHANGED <<tombstone, listed, stored, holder, time>>
        BY DEF TakeAnswer
    <1>2. r \in Requested /\ Covered(r, has[d])  BY DirTyped
    <1>3. mark \in Marks  BY <1>2, DirTyped, JoinedTyped DEF Requested
    <1> HIDE DEF mark
    <1>4. PICK k \in Marks, n \in 0 .. MaxStored, S \in SUBSET (1 .. MaxStored) :
              /\ knows' = [knows EXCEPT ![d] = k] /\ place' = [place EXCEPT ![d] = n]
              /\ has' = [has EXCEPT ![d] = S]
              /\ 1 .. n \subseteq S /\ belongs' \subseteq belongs
        <2>1. CASE Leaves(d, mark)
            <3>1. /\ knows' = [knows EXCEPT ![d] = NoMark] /\ place' = [place EXCEPT ![d] = 0]
                  /\ has' = [has EXCEPT ![d] = {}] /\ belongs' = belongs \ {d}
                BY <2>1 DEF TakeAnswer, mark
            <3>2. 1 .. 0 \subseteq {} /\ 0 \in 0 .. MaxStored /\ {} \in SUBSET (1 .. MaxStored)
                BY DirectoryAssumption
            <3> QED  BY <3>1, <3>2, IdleTyped
        <2>2. CASE ~Leaves(d, mark)
            <3> DEFINE n == Newer(place[d], r.upto)
                       S == has[d] \cup r.page
            <3>1. /\ knows' = [knows EXCEPT ![d] = mark] /\ place' = [place EXCEPT ![d] = n]
                  /\ has' = [has EXCEPT ![d] = S] /\ belongs' = belongs
                BY <2>2 DEF TakeAnswer, mark
            <3>2. n = place[d] \/ n = r.upto  BY DEF Newer
            <3>3. S \in SUBSET (1 .. MaxStored) /\ n \in 0 .. MaxStored
                BY <1>2, <3>2, DirTyped DEF Requested
            <3>4. 1 .. n \subseteq S  BY <1>2, <3>2, DirTyped DEF Covered
            <3> HIDE DEF n, S
            <3> QED  BY <1>3, <3>1, <3>3, <3>4
        <2> QED  BY <2>1, <2>2
    <1>5. /\ has' \in [Device -> SUBSET (1 .. MaxStored)] /\ place' \in [Device -> 0 .. MaxStored]
          /\ knows' \in [Device -> Marks]
        BY <1>4 DEF DirInv, DirShape
    <1>6. /\ has'[d] = S /\ place'[d] = n
          /\ \A e \in Device : e # d => has'[e] = has[e] /\ place'[e] = place[e]
        BY <1>4 DEF DirInv, DirShape
    <1>7. LockedRight(Idle, d, holder', tombstone') /\ Covered(Idle, has'[d])
        BY IdleTyped DEF LockedRight
    <1>8. /\ request' \in [Device -> Requested] /\ request'[d] = Idle
          /\ \A e \in Device : e # d => request'[e] = request[e]
          /\ \A e \in Device : Covered(request'[e], has'[e]) /\ LockedRight(request'[e], e, holder', tombstone')
        BY <1>1, <1>6, <1>7, IdleTyped, DirTyped, OthersStay
    <1>9. DirShape'
        <2>1. belongs' \subseteq Device  BY <1>4 DEF DirInv, DirShape
        <2> QED  BY <1>1, <1>5, <1>8, <2>1 DEF DirInv, DirShape
    <1>10. NothingPassed'  BY <1>4, <1>6 DEF DirInv, NothingPassed
    <1>11. DirInv'  BY <1>8, <1>9, <1>10 DEF DirInv
    <1>12. MembersOnlyStep
        <2>1. ~(Len(stored') > Len(stored))
            <3>1. Len(stored) \in Nat  BY DEF DirInv, DirShape
            <3> QED  BY <1>1, <3>1
        <2> QED  BY <1>1, <1>8, <2>1, IdleTyped DEF MembersOnlyStep
    <1> QED  BY <1>11, <1>12 DEF DirGood

LEMMA DirServes == ASSUME DirInv, [DirNext]_dirVars PROVE DirGood
    <1>1. ASSUME NEW d \in Device,
                 \/ \E kind \in Kind : Ask(d, kind)
                 \/ RemoveSubject(d) \/ RestoreSubject(d)
                 \/ TakeAnswer(d) \/ AnswerLost(d)
                 \/ Handler(d)
          PROVE  DirGood
        <2>1. CASE \E kind \in Kind : Ask(d, kind)  BY <2>1, AskStep
        <2>2. CASE RemoveSubject(d) \/ RestoreSubject(d)  BY <2>2, RemoveStep, RestoreStep
        <2>3. CASE TakeAnswer(d) \/ AnswerLost(d)  BY <2>3, TakeAnswerStep, AnswerLostStep
        <2>4. CASE Handler(d)
            BY <2>4, AdmitStep, MergeStep, CheckStep, WriteStep, StoreEventStep, StoreNothingStep,
               StoreFailsStep, ReadPageStep DEF Handler
        <2> QED  BY <1>1, <2>1, <2>2, <2>3, <2>4
    <1>2. CASE UNCHANGED dirVars
        <2>1. UNCHANGED <<tombstone, listed, stored, holder, request, knows, place, has, belongs, time>>
            BY <1>2 DEF dirVars
        <2>2. knows' \in [Device -> Marks] /\ belongs' \subseteq Device /\ time' \in 0 .. MaxClock
            BY <2>1 DEF DirInv, DirShape
        <2> QED  BY <2>1, <2>2, KnowingStays
    <1> QED  BY <1>1, <1>2 DEF DirNext

----------------------------------------------------------------------------
\* The parts together. Every part keeps its own invariant, for no step of one touches another.

PartsInv == QuotaInv /\ WatchInv /\ PagingInv /\ DirInv

LEMMA PartsStart == HubInit => PartsInv
    BY QuotaStarts, WatchStarts, PagingStarts, DirStarts DEF HubInit, PartsInv

LEMMA PartsServe ==
    ASSUME PartsInv, [HubNext]_<<part, quotaVars, watchVars, pagingVars, dirVars>>
    PROVE  PartsInv' /\ StricterTargetStays /\ MembersOnlyStep
    <1>1. [QuotaNext]_quotaVars /\ [WatchNext]_watchVars /\ [PagingNext]_pagingVars /\ [DirNext]_dirVars
        BY DEF HubNext
    <1> QED  BY <1>1, QuotaServes, WatchServes, PagingServes, DirServes
             DEF PartsInv, QuotaGood, DirGood

LEMMA HubParts == HubSpec => []PartsInv
    <1>1. PartsInv /\ [HubNext]_<<part, quotaVars, watchVars, pagingVars, dirVars>> => PartsInv'
        BY PartsServe
    <1> QED  BY <1>1, PartsStart, PTL DEF HubSpec

\* However many groups, uploads, streams, slots, pages and devices there are and in whatever order
\* their steps come, the cells of the Hub's services keep their shape (HubTypeOK).
THEOREM HubTyped == HubSpec => []HubTypeOK
    <1>1. PartsInv => HubTypeOK
        BY QuotaKept, WatchKept, PagingKept, DirKept DEF PartsInv, HubTypeOK
    <1> QED  BY <1>1, HubParts, PTL

\* No watch believes it is up to date when it is not, and a served one is registered; the pages of
\* the record list join to one list without a gap or a repetition; no device's cursor passes an
\* event it was not given; the upload counter is the number of active uploads (HubSound).
THEOREM HubServesSoundly == HubSpec => []HubSound
    <1>1. PartsInv => HubSound
        BY QuotaKept, WatchKept, PagingKept, DirKept DEF PartsInv, HubSound
    <1> QED  BY <1>1, HubParts, PTL

\* No cleanup that was put off and no stricter target is forgotten, and a removed device stores
\* nothing and is given nothing from the moment the Hub has its removal (HubSteps).
THEOREM HubStepsKept == HubSpec => HubSteps
    <1>1. PartsInv => PutOffUntilUploadsEnd  BY QuotaKept DEF PartsInv
    <1>2. PartsInv /\ [HubNext]_<<part, quotaVars, watchVars, pagingVars, dirVars>>
              => StricterTargetStays /\ MembersOnlyStep
        BY PartsServe
    <1> QED  BY <1>1, <1>2, HubParts, PTL DEF HubSpec, HubSteps
=============================================================================
