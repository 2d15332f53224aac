--------------------------- MODULE HubStoreProofs ---------------------------
(***************************************************************************)
(* What HubStore's safety properties rest on, proved for every group: any  *)
(* number of events, blobs, devices and streams, any quota.                *)
(*                                                                         *)
(* The counters and the quota are consequences of the set of retained      *)
(* events, of stored blobs and of uploads in flight, so most of the work   *)
(* is about cardinalities.  AttachmentsAvailable and StoredHasFile need    *)
(* UploadsSound: without it a finished upload could record a blob that has *)
(* no file or that was never charged to the quota.                         *)
(***************************************************************************)
EXTENDS HubStore, FiniteSetTheorems, TLAPS

\* An upload in flight is charged unless its blob is stored already, and its
\* file is in place once it was renamed.
UploadsSound ==
    \A s \in Active :
        /\ upload[s].charged \/ upload[s].blob \in stored
        /\ upload[s].stage = "renamed" => upload[s].blob \in files

IInv ==
    /\ Typed
    /\ Accounting
    /\ ReservationsMatch
    /\ QuotaBound
    /\ AttachmentsAvailable
    /\ StoredHasFile
    /\ HolesBelowFloor
    /\ UploadsSound

-----------------------------------------------------------------------------
(* Arithmetic and cardinalities *)

\* Multiplication by a unit distributes over sums and differences.
LEMMA Distribute ==
    \A a, b, u \in Nat : /\ (a + b) * u = a * u + b * u
                         /\ a >= b => a * u >= b * u /\ (a - b) * u = a * u - b * u
                         /\ a * u \in Nat
  OBVIOUS

\* Monus is a natural number below its first argument.
LEMMA MonusType ==
    \A a, b \in Nat : /\ Monus(a, b) \in Nat /\ Monus(a, b) <= a
                      /\ a >= b => Monus(a, b) = a - b
  BY DEF Monus

\* Removing a subset removes its cardinality.
LEMMA RemoveSubset ==
    ASSUME NEW S, IsFiniteSet(S), NEW T \in SUBSET S
    PROVE  /\ IsFiniteSet(S \ T) /\ IsFiniteSet(T)
           /\ Cardinality(S) \in Nat /\ Cardinality(T) \in Nat
           /\ Cardinality(T) <= Cardinality(S)
           /\ Cardinality(S \ T) = Cardinality(S) - Cardinality(T)
  <1>1. S \cap T = T
    OBVIOUS
  <1>2. QED
    BY <1>1, FS_Difference, FS_Subset, FS_CardinalityType

\* Adding disjoint elements adds their cardinality.
LEMMA AddDisjoint ==
    ASSUME NEW S, IsFiniteSet(S), NEW T, IsFiniteSet(T), S \cap T = {}
    PROVE  /\ IsFiniteSet(S \cup T)
           /\ Cardinality(S) \in Nat /\ Cardinality(T) \in Nat
           /\ Cardinality(S \cup T) = Cardinality(S) + Cardinality(T)
  <1>1. Cardinality(S \cap T) = 0
    BY FS_EmptySet
  <1>2. /\ IsFiniteSet(S \cup T)
        /\ Cardinality(S \cup T) = Cardinality(S) + Cardinality(T) - Cardinality(S \cap T)
    BY FS_Union
  <1>3. Cardinality(S) \in Nat /\ Cardinality(T) \in Nat
    BY FS_CardinalityType
  <1>4. QED
    BY <1>1, <1>2, <1>3

\* The sets the invariants count are finite.
LEMMA CountedSetsFinite ==
    ASSUME Typed
    PROVE  /\ IsFiniteSet(Retained) /\ Cardinality(Retained) \in Nat
           /\ IsFiniteSet(stored) /\ Cardinality(stored) \in Nat
           /\ IsFiniteSet(Active) /\ Cardinality(Active) \in Nat
           /\ IsFiniteSet(Charged) /\ Cardinality(Charged) \in Nat
  <1>1. /\ Retained \in SUBSET Event /\ stored \in SUBSET Blob
        /\ Active \in SUBSET Stream /\ Charged \in SUBSET Stream
    BY DEF Retained, Active, Charged, Typed
  <1>2. QED
    BY <1>1, FiniteAssumption, FS_Subset, FS_CardinalityType

-----------------------------------------------------------------------------
(* The invariant holds initially *)

\* An empty group satisfies the invariant.
LEMMA InitIInv == Init => IInv
  <1> SUFFICES ASSUME Init PROVE IInv
    OBVIOUS
  <1>1. Typed
    BY EventAssumption DEF Init, Typed, UploadState, Unregistered
  <1>2. Retained = {} /\ stored = {} /\ Active = {} /\ Charged = {}
    BY DEF Init, Retained, Active, Charged
  <1>3. Cardinality(Retained) = 0 /\ Cardinality(stored) = 0
        /\ Cardinality(Active) = 0 /\ Cardinality(Charged) = 0
    BY <1>2, FS_EmptySet
  <1>4. Accounting /\ ReservationsMatch /\ QuotaBound
    BY <1>3, BoundAssumption DEF Init, Accounting, ReservationsMatch, QuotaBound, UsedBytes
  <1>5. AttachmentsAvailable /\ StoredHasFile /\ HolesBelowFloor /\ UploadsSound
    BY <1>2 DEF Init, AttachmentsAvailable, StoredHasFile, HolesBelowFloor, UploadsSound
  <1>6. QED
    BY <1>1, <1>4, <1>5 DEF IInv

-----------------------------------------------------------------------------
(* Uploads *)

\* Reusing a blob, ageing one or expiring events only moves ages.
LEMMA AgesPreserveIInv ==
    ASSUME IInv,
           \/ \E b \in Blob : ReuseBlob(b) \/ AgeBlob(b)
           \/ \E c \in assigned : ExpireEvents(c)
    PROVE  IInv'
  <1>1. Typed'
    <2>1. CASE \E b \in Blob : ReuseBlob(b) \/ AgeBlob(b)
      <3>1. age' \in [Blob -> 0..2]
        BY <2>1 DEF ReuseBlob, AgeBlob, IInv, Typed
      <3>2. UNCHANGED <<logVars, stored, legacy, files, usage, uploadVars, retentionVars>>
        BY <2>1 DEF ReuseBlob, AgeBlob
      <3>3. QED
        BY <3>1, <3>2 DEF IInv, Typed, logVars, uploadVars, retentionVars
    <2>2. CASE \E c \in assigned : ExpireEvents(c)
      <3>1. expired' \in Nat
        BY <2>2 DEF ExpireEvents, IInv, Typed
      <3>2. UNCHANGED <<cursorOf, keyOf, refs, issued, assigned, pruned, blobVars, usage,
                        uploadVars, retentionVars>>
        BY <2>2 DEF ExpireEvents
      <3>3. QED
        BY <3>1, <3>2 DEF IInv, Typed, blobVars, uploadVars, retentionVars
    <2>3. QED
      BY <2>1, <2>2
  <1>2. UNCHANGED <<cursorOf, refs, issued, assigned, pruned, stored, files, usage, uploadVars>>
    BY DEF ReuseBlob, AgeBlob, ExpireEvents, logVars, blobVars, uploadVars, retentionVars
  <1>3. QED
    BY <1>1, <1>2 DEF IInv, Accounting, ReservationsMatch, QuotaBound, AttachmentsAvailable,
        StoredHasFile, HolesBelowFloor, UploadsSound, Retained, Active, Charged, UsedBytes,
        uploadVars

\* Dropping a reservation: the bytes of the stream leave the sum.
LEMMA ReleaseCounts ==
    ASSUME IInv, NEW s \in Active, Release(s), upload' = [upload EXCEPT ![s] = Idle]
    PROVE  /\ upload' \in [Stream -> UploadState]
           /\ reserved' \in [bytes : Nat, active : Nat]
           /\ ReservationsMatch'
           /\ reserved'.bytes <= reserved.bytes
           /\ upload[s].charged => reserved'.bytes + BlobBytes <= reserved.bytes
  <1> DEFINE left == Cardinality(Active) - 1
  <1> USE BoundAssumption
  <1>1. /\ IsFiniteSet(Active) /\ Cardinality(Active) \in Nat
        /\ IsFiniteSet(Charged) /\ Cardinality(Charged) \in Nat
    BY CountedSetsFinite DEF IInv
  <1>2. Active' = Active \ {s} /\ Charged' = Charged \ {s}
    BY DEF Active, Charged, IInv, Typed
  <1>3. Cardinality(Active') = left /\ left \in Nat
    <2>1. Cardinality(Active \ {s}) = left /\ IsFiniteSet(Active \ {s})
      BY <1>1, FS_RemoveElement
    <2>2. Cardinality(Active \ {s}) \in Nat
      BY <2>1, FS_CardinalityType
    <2>3. QED
      BY <1>2, <2>1, <2>2
  <1>4. Cardinality(Charged') = IF s \in Charged THEN Cardinality(Charged) - 1
                                                ELSE Cardinality(Charged)
    BY <1>1, <1>2, FS_RemoveElement
  <1>5. Cardinality(Charged') \in Nat /\ IsFiniteSet(Active')
    BY <1>1, <1>2, FS_RemoveElement, FS_CardinalityType
  <1>6. left = 0 => Cardinality(Charged') = 0
    <2>1. left = 0 => Active' = {}
      BY <1>3, <1>5, FS_EmptySet
    <2>2. QED
      BY <2>1, FS_EmptySet DEF Charged
  <1>7. reserved.bytes = Cardinality(Charged) * BlobBytes
        /\ reserved.active = Cardinality(Active)
        /\ reserved.bytes \in Nat
    BY DEF IInv, ReservationsMatch, Typed
  <1>8. upload' \in [Stream -> UploadState]
    BY DEF IInv, Typed, UploadState
  <1>9. CASE s \in Charged
    <2>1. upload[s].charged
      BY <1>9 DEF Charged
    <2>2. Cardinality(Charged') * BlobBytes = reserved.bytes - BlobBytes
          /\ Cardinality(Charged') * BlobBytes \in Nat
      BY <1>1, <1>4, <1>5, <1>7, <1>9, Distribute
    <2>3. reserved'.active = left
          /\ reserved'.bytes = Cardinality(Charged') * BlobBytes
      BY <1>1, <1>3, <1>6, <1>7, <2>1, <2>2 DEF Release, Monus
    <2>4. QED
      BY <1>3, <1>7, <1>8, <2>2, <2>3 DEF Release, ReservationsMatch
  <1>10. CASE s \notin Charged
    <2>1. ~upload[s].charged
      BY <1>10 DEF Charged
    <2>2. Cardinality(Charged') * BlobBytes = reserved.bytes
      BY <1>4, <1>7, <1>10
    <2>3. reserved'.active = left
          /\ reserved'.bytes = Cardinality(Charged') * BlobBytes
      BY <1>1, <1>3, <1>6, <1>7, <2>1, <2>2 DEF Release, Monus
    <2>4. QED
      BY <1>3, <1>7, <1>8, <2>1, <2>2, <2>3 DEF Release, ReservationsMatch
  <1>11. QED
    BY <1>9, <1>10

\* A reservation adds one stream, and its bytes when the blob is new.
LEMMA ReservePreservesIInv ==
    ASSUME IInv, NEW s \in Stream, NEW b \in Blob, NEW managed \in BOOLEAN,
           ReserveBlob(s, b, managed)
    PROVE  IInv'
  <1> DEFINE new == [stage |-> "receiving", blob |-> b,
                     charged |-> Growth(b) > 0, managed |-> managed]
  <1> USE BoundAssumption
  <1>1. /\ IsFiniteSet(Active) /\ Cardinality(Active) \in Nat
        /\ IsFiniteSet(Charged) /\ Cardinality(Charged) \in Nat
    BY CountedSetsFinite DEF IInv
  <1>2. new \in UploadState /\ new # Idle /\ new.charged = (Growth(b) > 0)
    BY DEF UploadState, Idle
  <1>3. upload' \in [Stream -> UploadState] /\ upload'[s] = new
        /\ \A t \in Stream \ {s} : upload'[t] = upload[t]
    BY <1>2 DEF ReserveBlob, IInv, Typed
  <1>4. s \notin Active /\ s \notin Charged /\ Active' = Active \cup {s}
    BY <1>2, <1>3 DEF Active, Charged, ReserveBlob
  <1>5. Growth(b) > 0 => Charged' = Charged \cup {s}
    BY <1>2, <1>3, <1>4 DEF Active, Charged
  <1>6. ~(Growth(b) > 0) => Charged' = Charged
    BY <1>2, <1>3, <1>4 DEF Active, Charged
  <1>7. Cardinality(Active') = Cardinality(Active) + 1
    BY <1>1, <1>4, FS_AddElement
  <1>8. Cardinality(Charged') = IF Growth(b) > 0 THEN Cardinality(Charged) + 1
                                                 ELSE Cardinality(Charged)
    BY <1>1, <1>4, <1>5, <1>6, FS_AddElement
  <1>9. Growth(b) \in {0, BlobBytes} /\ (Growth(b) > 0 <=> b \notin stored)
    BY DEF Growth
  <1>10. ReservationsMatch'
    <2>1. reserved'.active = Cardinality(Active')
      BY <1>7 DEF ReserveBlob, IInv, ReservationsMatch
    <2>2. reserved'.bytes = Cardinality(Charged) * BlobBytes + Growth(b)
      BY DEF ReserveBlob, IInv, ReservationsMatch
    <2>3. (Cardinality(Charged) + 1) * BlobBytes = Cardinality(Charged) * BlobBytes + BlobBytes
          /\ Cardinality(Charged) * BlobBytes \in Nat
      BY <1>1, Distribute
    <2>4. reserved'.bytes = Cardinality(Charged') * BlobBytes
      <3>1. CASE Growth(b) = 0
        BY <1>8, <2>2, <2>3, <3>1
      <3>2. CASE Growth(b) = BlobBytes
        BY <1>8, <2>2, <2>3, <3>2
      <3>3. QED
        BY <1>9, <3>1, <3>2
    <2>5. QED
      BY <2>1, <2>4 DEF ReservationsMatch
  <1>11. Typed'
    BY <1>3, <1>9 DEF ReserveBlob, IInv, Typed, logVars, blobVars, retentionVars
  <1>12. QuotaBound'
    BY <1>9 DEF ReserveBlob, IInv, Typed, QuotaBound, UsedBytes
  <1>13. UploadsSound'
    BY <1>2, <1>3, <1>4, <1>9 DEF ReserveBlob, IInv, UploadsSound, Active, blobVars
  <1>14. Accounting' /\ AttachmentsAvailable' /\ StoredHasFile' /\ HolesBelowFloor'
    BY DEF ReserveBlob, IInv, Accounting, AttachmentsAvailable, StoredHasFile,
           HolesBelowFloor, Retained, logVars, blobVars
  <1>15. QED
    BY <1>10, <1>11, <1>12, <1>13, <1>14 DEF IInv

\* A received payload only adds a file.
LEMMA ReceivePreservesIInv ==
    ASSUME IInv, NEW s \in Stream, ReceiveBlob(s)
    PROVE  IInv'
  <1>1. /\ upload[s].blob \in Blob /\ upload[s] \in UploadState \ {Idle}
        /\ upload' \in [Stream -> UploadState] /\ upload'[s] # Idle
        /\ upload'[s].charged = upload[s].charged /\ upload'[s].blob = upload[s].blob
    BY DEF ReceiveBlob, IInv, Typed, UploadState, Idle
  <1>2. \A t \in Stream \ {s} : upload'[t] = upload[t]
    BY DEF ReceiveBlob, IInv, Typed
  <1>3. Active' = Active /\ s \in Active
    BY <1>1, <1>2 DEF Active
  <1>4. Charged' = Charged
    <2>1. \A t \in Active : upload'[t].charged = upload[t].charged
      BY <1>1, <1>2 DEF Active
    <2>2. QED
      BY <1>3, <2>1 DEF Charged
  <1>5. Typed'
    BY <1>1 DEF ReceiveBlob, IInv, Typed, logVars, retentionVars
  <1>6. UploadsSound'
    BY <1>1, <1>2, <1>3 DEF ReceiveBlob, IInv, UploadsSound
  <1>7. ReservationsMatch'
    BY <1>3, <1>4 DEF ReceiveBlob, IInv, ReservationsMatch
  <1>8. Retained' = Retained /\ files \subseteq files'
    BY DEF ReceiveBlob, Retained, logVars
  <1>9. AttachmentsAvailable'
    BY <1>8 DEF ReceiveBlob, IInv, AttachmentsAvailable, logVars
  <1>10. StoredHasFile'
    BY <1>8 DEF ReceiveBlob, IInv, StoredHasFile
  <1>11. Accounting' /\ QuotaBound' /\ HolesBelowFloor'
    BY <1>8 DEF ReceiveBlob, IInv, Accounting, QuotaBound, HolesBelowFloor, UsedBytes, logVars
  <1>12. QED
    BY <1>5, <1>6, <1>7, <1>9, <1>11, <1>10 DEF IInv

\* Recording a blob moves its bytes from the reservations to the counters.
LEMMA RecordPreservesIInv ==
    ASSUME IInv, NEW s \in Stream, RecordBlob(s)
    PROVE  IInv'
  <1> DEFINE b == upload[s].blob
  <1> USE BoundAssumption
  <1>1. s \in Active /\ b \in Blob /\ b \in files
        /\ (upload[s].charged \/ b \in stored)
    BY DEF RecordBlob, Active, UploadState, IInv, Typed, UploadsSound
  <1>2. Release(s) /\ upload' = [upload EXCEPT ![s] = Idle]
    BY DEF RecordBlob
  <1>3. /\ upload' \in [Stream -> UploadState]
        /\ reserved' \in [bytes : Nat, active : Nat]
        /\ ReservationsMatch'
        /\ reserved'.bytes <= reserved.bytes
        /\ upload[s].charged => reserved'.bytes + BlobBytes <= reserved.bytes
    BY <1>1, <1>2, ReleaseCounts
  <1>4. Growth(b) = (IF b \in stored THEN 0 ELSE BlobBytes) /\ stored' = stored \cup {b}
        /\ usage' = UsageAfter(0, IF b \in stored THEN 0 ELSE 1)
    BY DEF RecordBlob, Growth
  <1>5. Typed'
    <2>1. usage' \in [eventBytes : Nat, eventCount : Nat, blobBytes : Nat, blobCount : Nat]
      <3>1. usage \in [eventBytes : Nat, eventCount : Nat, blobBytes : Nat, blobCount : Nat]
        BY DEF IInv, Typed
      <3>2. CASE b \in stored
        BY <1>4, <3>1, <3>2 DEF UsageAfter
      <3>3. CASE b \notin stored
        BY <1>4, <3>1, <3>3 DEF UsageAfter
      <3>4. QED
        BY <3>2, <3>3
    <2>2. legacy' \in SUBSET Blob /\ age' \in [Blob -> 0..2] /\ stored' \in SUBSET Blob
      BY <1>1, <1>4 DEF RecordBlob, IInv, Typed
    <2>3. UNCHANGED <<logVars, files, retentionVars>>
      BY DEF RecordBlob
    <2>4. QED
      BY <1>3, <2>1, <2>2, <2>3 DEF IInv, Typed, logVars, retentionVars
  <1>6. Active' = Active \ {s} /\ \A t \in Active \ {s} : upload'[t] = upload[t]
    BY <1>2 DEF Active, IInv, Typed
  <1>7. UploadsSound'
    <2>1. files' = files
      BY DEF RecordBlob
    <2>2. QED
      BY <1>4, <1>6, <2>1 DEF IInv, UploadsSound
  <1>8. Accounting'
    <2>1. IsFiniteSet(stored) /\ Cardinality(stored) \in Nat
      BY CountedSetsFinite DEF IInv
    <2>2. Cardinality(stored') = IF b \in stored THEN Cardinality(stored)
                                                  ELSE Cardinality(stored) + 1
      BY <1>4, <2>1, FS_AddElement
    <2>3. (Cardinality(stored) + 1) * BlobBytes = Cardinality(stored) * BlobBytes + BlobBytes
          /\ Cardinality(stored) * BlobBytes \in Nat
      BY <2>1, Distribute
    <2>4. Retained' = Retained
      BY DEF RecordBlob, Retained, logVars
    <2>5. usage'.blobCount = Cardinality(stored')
          /\ usage'.blobBytes = Cardinality(stored') * BlobBytes
          /\ usage'.eventCount = usage.eventCount /\ usage'.eventBytes = usage.eventBytes
      <3>1. CASE b \in stored
        BY <1>4, <2>1, <2>2, <2>3, <3>1 DEF IInv, Accounting, Typed, UsageAfter
      <3>2. CASE b \notin stored
        BY <1>4, <2>1, <2>2, <2>3, <3>2 DEF IInv, Accounting, Typed, UsageAfter
      <3>3. QED
        BY <3>1, <3>2
    <2>6. QED
      BY <2>4, <2>5 DEF IInv, Accounting
  <1>9. QuotaBound'
    <2>1. usage'.eventBytes = usage.eventBytes
          /\ usage'.blobBytes = usage.blobBytes + Growth(b)
      BY <1>4 DEF IInv, Typed, UsageAfter
    <2>2. Growth(b) + reserved'.bytes <= reserved.bytes /\ Growth(b) \in Nat
      BY <1>1, <1>3, <1>4 DEF IInv, Typed
    <2>3. QED
      BY <1>3, <2>1, <2>2 DEF IInv, Typed, QuotaBound, UsedBytes
  <1>10. AttachmentsAvailable' /\ HolesBelowFloor'
    BY <1>4 DEF RecordBlob, IInv, AttachmentsAvailable, HolesBelowFloor, Retained, logVars
  <1>11. StoredHasFile'
    BY <1>1, <1>4 DEF RecordBlob, IInv, StoredHasFile
  <1>12. QED
    BY <1>3, <1>5, <1>7, <1>8, <1>9, <1>10, <1>11 DEF IInv

\* A failed upload only drops its reservation.
LEMMA AbortPreservesIInv ==
    ASSUME IInv, NEW s \in Stream, AbortUpload(s)
    PROVE  IInv'
  <1>1. s \in Active /\ Release(s) /\ upload' = [upload EXCEPT ![s] = Idle]
    BY DEF AbortUpload, Active
  <1>2. /\ upload' \in [Stream -> UploadState]
        /\ reserved' \in [bytes : Nat, active : Nat]
        /\ ReservationsMatch'
        /\ reserved'.bytes <= reserved.bytes
    BY <1>1, ReleaseCounts
  <1>3. Active' = Active \ {s} /\ \A t \in Active \ {s} : upload'[t] = upload[t]
    BY <1>1 DEF Active, IInv, Typed
  <1>4. Typed'
    BY <1>2 DEF AbortUpload, IInv, Typed, logVars, blobVars, retentionVars
  <1>5. UploadsSound'
    BY <1>3 DEF AbortUpload, IInv, UploadsSound, blobVars
  <1>6. QuotaBound'
    BY <1>2, BoundAssumption DEF AbortUpload, IInv, Typed, QuotaBound, UsedBytes
  <1>7. Accounting' /\ AttachmentsAvailable' /\ StoredHasFile' /\ HolesBelowFloor'
    BY DEF AbortUpload, IInv, Accounting, AttachmentsAvailable, StoredHasFile,
           HolesBelowFloor, Retained, logVars, blobVars
  <1>8. QED
    BY <1>2, <1>4, <1>5, <1>6, <1>7 DEF IInv

\* A restart drops every reservation and no stored data.
LEMMA CrashPreservesIInv ==
    ASSUME IInv, Crash
    PROVE  IInv'
  <1>1. Active' = {} /\ Charged' = {}
    BY DEF Crash, Active, Charged
  <1>2. Cardinality(Active') = 0 /\ Cardinality(Charged') = 0
    BY <1>1, FS_EmptySet
  <1>3. ReservationsMatch' /\ UploadsSound' /\ Typed'
    BY <1>1, <1>2, BoundAssumption
       DEF Crash, IInv, Typed, ReservationsMatch, UploadsSound, UploadState,
           logVars, blobVars, retentionVars
  <1>4. QuotaBound'
    BY BoundAssumption DEF Crash, IInv, Typed, QuotaBound, UsedBytes
  <1>5. Accounting' /\ AttachmentsAvailable' /\ StoredHasFile' /\ HolesBelowFloor'
    BY DEF Crash, IInv, Accounting, AttachmentsAvailable, StoredHasFile,
           HolesBelowFloor, Retained, logVars, blobVars
  <1>6. QED
    BY <1>3, <1>4, <1>5 DEF IInv

-----------------------------------------------------------------------------
(* Events and retention *)

\* A batch of accepted events takes cursors above every earlier one.
LEMMA InsertPreservesIInv ==
    ASSUME IInv, NEW batch \in SUBSET Event, NEW new \in SUBSET batch, NEW at \in Cursors(new),
           InsertEvents(batch, new, at)
    PROVE  IInv'
  <1> DEFINE n == Cardinality(new)
  <1> USE BoundAssumption
  <1>1. IsFiniteSet(new) /\ n \in Nat /\ new \in SUBSET Event
    BY FiniteAssumption, FS_Subset, FS_CardinalityType
  <1>2. issued \in Nat /\ at \in [new -> (issued + 1)..MaxCursor]
    BY DEF Cursors, IInv, Typed
  <1>3. new \cap Retained = {} /\ \A e \in new : Required[e] \subseteq stored
    BY DEF InsertEvents, Accepts
  <1>4. /\ cursorOf' = [e \in Event |-> IF e \in new THEN at[e] ELSE cursorOf[e]]
        /\ \E e \in new : issued' = at[e]
        /\ \A e \in new : at[e] <= issued'
        /\ \A c \in assigned' : c \in assigned \/ \E e \in new : c = at[e]
        /\ \A e \in new : at[e] \in assigned'
        /\ assigned \subseteq assigned'
    BY DEF InsertEvents
  <1>5. \A e \in new : cursorOf'[e] \in Nat \ {0} /\ cursorOf'[e] <= issued'
    BY <1>1, <1>2, <1>4
  <1>6. Retained' = Retained \cup new
    BY <1>1, <1>4, <1>5 DEF Retained, IInv, Typed
  <1>7. Typed'
    <2>1. cursorOf' \in [Event -> Nat]
      BY <1>1, <1>4, <1>5 DEF IInv, Typed
    <2>2. keyOf' \in [Event -> Key \cup {NoKey}] /\ refs' \in [Event -> SUBSET Blob]
      BY <1>1, EventAssumption DEF InsertEvents, IInv, Typed
    <2>3. usage' \in [eventBytes : Nat, eventCount : Nat, blobBytes : Nat, blobCount : Nat]
      <3>1. n * EventBytes \in Nat
        BY <1>1, Distribute
      <3>2. usage \in [eventBytes : Nat, eventCount : Nat, blobBytes : Nat, blobCount : Nat]
        BY DEF IInv, Typed
      <3>3. QED
        BY <1>1, <3>1, <3>2 DEF InsertEvents, UsageAfter
    <2>4. issued' \in Nat /\ assigned' \in SUBSET Nat
      <3>1. \A e \in new : at[e] \in Nat
        BY <1>2
      <3>2. assigned \subseteq Nat
        BY DEF IInv, Typed
      <3>3. QED
        BY <1>4, <3>1, <3>2
    <2>5. UNCHANGED <<pruned, expired, blobVars, uploadVars, retentionVars>>
      BY DEF InsertEvents
    <2>6. QED
      BY <2>1, <2>2, <2>3, <2>4, <2>5 DEF IInv, Typed, blobVars, uploadVars, retentionVars
  <1>8. Accounting'
    <2>1. /\ IsFiniteSet(Retained) /\ Cardinality(Retained) \in Nat
          /\ Cardinality(Retained \cup new) = Cardinality(Retained) + n
      BY <1>1, <1>3, CountedSetsFinite, AddDisjoint DEF IInv
    <2>2. (Cardinality(Retained) + n) * EventBytes
            = Cardinality(Retained) * EventBytes + n * EventBytes
      BY <1>1, <2>1, Distribute
    <2>3. /\ usage'.eventCount = usage.eventCount + n
          /\ usage'.eventBytes = usage.eventBytes + n * EventBytes
          /\ usage'.blobCount = usage.blobCount /\ usage'.blobBytes = usage.blobBytes
          /\ stored' = stored
      BY DEF InsertEvents, UsageAfter, IInv, Typed, blobVars
    <2>4. QED
      BY <1>6, <2>1, <2>2, <2>3 DEF IInv, Accounting
  <1>9. QuotaBound'
    <2>1. n * EventBytes \in Nat
      BY <1>1, Distribute
    <2>2. /\ usage'.eventBytes = usage.eventBytes + n * EventBytes
          /\ usage'.blobBytes = usage.blobBytes /\ reserved' = reserved
      BY DEF InsertEvents, UsageAfter, IInv, Typed, uploadVars
    <2>3. ASSUME MaxGroupBytes > 0
          PROVE  UsedBytes + n * EventBytes + reserved.bytes <= MaxGroupBytes + FrameBytes
      <3>1. UsedBytes + n * EventBytes <= EventQuotaLimit
        BY <2>3 DEF InsertEvents
      <3>2. reserved.bytes <= MaxGroupBytes + FrameBytes /\ UsedBytes \in Nat
        BY <2>3 DEF IInv, QuotaBound, Typed, UsedBytes
      <3>3. QED
        BY <2>1, <3>1, <3>2 DEF EventQuotaLimit, Monus, IInv, Typed
    <2>4. QED
      BY <2>1, <2>2, <2>3 DEF QuotaBound, UsedBytes, IInv, Typed
  <1>10. AttachmentsAvailable'
    <2>1. \A e \in new : Required[e] \subseteq refs'[e] /\ Required[e] \subseteq files
      BY <1>1, <1>3 DEF InsertEvents, IInv, StoredHasFile
    <2>2. \A e \in Retained : e \in Event /\ refs'[e] = refs[e]
      BY <1>3 DEF InsertEvents, Retained
    <2>3. stored' = stored /\ files' = files
      BY DEF InsertEvents, blobVars
    <2>4. QED
      BY <1>3, <1>6, <2>1, <2>2, <2>3 DEF IInv, AttachmentsAvailable
  <1>11. HolesBelowFloor'
    <2>1. pruned' = pruned /\ pruned \in Nat
      BY DEF InsertEvents, IInv, Typed
    <2>2. \A e \in Retained : cursorOf'[e] = cursorOf[e]
      BY <1>3, <1>4 DEF Retained
    <2>3. issued' \in Nat /\ issued < issued'
      BY <1>2, <1>4
    <2>4. assigned' \subseteq 1..issued' /\ pruned' <= issued'
      <3>1. assigned \subseteq 1..issued /\ pruned <= issued
        BY DEF IInv, HolesBelowFloor
      <3>2. \A e \in new : at[e] \in 1..issued'
        BY <1>2, <1>4, <2>3
      <3>3. 1..issued \subseteq 1..issued'
        BY <1>2, <2>3
      <3>4. pruned' <= issued'
        BY <1>2, <2>1, <2>3, <3>1
      <3>5. QED
        BY <1>4, <3>1, <3>2, <3>3, <3>4
    <2>5. \A c \in assigned' : c <= pruned' \/ \E e \in Retained' : cursorOf'[e] = c
      <3>1. \A c \in assigned : c <= pruned' \/ \E e \in Retained' : cursorOf'[e] = c
        BY <1>6, <2>1, <2>2 DEF IInv, HolesBelowFloor
      <3>2. \A e \in new : e \in Retained' /\ cursorOf'[e] = at[e]
        BY <1>1, <1>4, <1>6
      <3>3. QED
        BY <1>4, <3>1, <3>2
    <2>6. \A e \in Retained' : cursorOf'[e] \in assigned'
      <3>1. assigned \subseteq assigned' /\ \A e \in new : at[e] \in assigned'
        BY <1>4
      <3>2. \A e \in Retained : cursorOf'[e] \in assigned'
        BY <2>2, <3>1 DEF IInv, HolesBelowFloor
      <3>3. \A e \in new : cursorOf'[e] \in assigned'
        BY <1>1, <1>4, <3>1
      <3>4. QED
        BY <1>6, <3>2, <3>3
    <2>7. QED
      BY <2>4, <2>5, <2>6 DEF HolesBelowFloor
  <1>12. ReservationsMatch' /\ StoredHasFile' /\ UploadsSound'
    BY DEF InsertEvents, IInv, ReservationsMatch, StoredHasFile, UploadsSound, Active, Charged,
           blobVars, uploadVars
  <1>13. QED
    BY <1>7, <1>8, <1>9, <1>10, <1>11, <1>12 DEF IInv

\* A registration only adds references and identities.
LEMMA RetentionPreservesIInv ==
    ASSUME IInv, NEW d \in Device,
           \/ RemoveDevice(d)
           \/ \E g \in Unregistered..MaxGeneration, keys \in SUBSET Key, mapped \in SUBSET Retained :
                 SetRetention(d, g, keys, mapped)
    PROVE  IInv'
  <1> USE BoundAssumption
  <1>1. UNCHANGED <<cursorOf, issued, assigned, pruned, expired, stored, age, files, usage, upload,
                    reserved>>
    BY DEF RemoveDevice, SetRetention, logVars, blobVars, uploadVars
  <1>2. \A e \in Event : refs[e] \subseteq refs'[e]
    BY EventAssumption DEF RemoveDevice, SetRetention, logVars, IInv, Typed
  <1>3. Typed'
    <2>1. CASE RemoveDevice(d)
      BY <1>1, <2>1 DEF RemoveDevice, IInv, Typed, logVars, blobVars, Unregistered
    <2>2. ASSUME NEW g \in Unregistered..MaxGeneration, NEW keys \in SUBSET Key,
                 NEW mapped \in SUBSET Retained, SetRetention(d, g, keys, mapped)
          PROVE  Typed'
      <3>1. keyOf' \in [Event -> Key \cup {NoKey}] /\ refs' \in [Event -> SUBSET Blob]
            /\ legacy' \in SUBSET Blob
        BY <2>2, EventAssumption DEF SetRetention, IInv, Typed
      <3>2. generation' \in [Device -> Nat \cup {Unregistered}] /\ protections' \in [Device -> SUBSET Key]
        BY <2>2 DEF SetRetention, IInv, Typed, retentionVars, Unregistered
      <3>3. QED
        BY <1>1, <3>1, <3>2 DEF IInv, Typed
    <2>3. QED
      BY <2>1, <2>2
  <1>4. Retained' = Retained /\ Active' = Active /\ Charged' = Charged
    BY <1>1 DEF Retained, Active, Charged
  <1>5. AttachmentsAvailable'
    BY <1>1, <1>2, <1>4 DEF IInv, AttachmentsAvailable, Retained
  <1>6. Accounting' /\ ReservationsMatch' /\ QuotaBound' /\ StoredHasFile'
    BY <1>1, <1>4 DEF IInv, Accounting, ReservationsMatch, QuotaBound, StoredHasFile, UsedBytes
  <1>7. HolesBelowFloor' /\ UploadsSound'
    BY <1>1, <1>4 DEF IInv, HolesBelowFloor, UploadsSound
  <1>8. QED
    BY <1>3, <1>5, <1>6, <1>7 DEF IInv

-----------------------------------------------------------------------------
(* Cleanup *)

\* Every number of oldest events is a set of eligible events.
LEMMA OldestEligible ==
    \A n : Oldest(n) \subseteq Eligible /\ Oldest(n) \subseteq Retained
  BY DEF Oldest, Eligible

\* A cleanup batch deletes no event or blob that another event requires.
LEMMA CleanupPreservesIInv ==
    ASSUME IInv, NEW goal \in 0..MaxGroupBytes, NEW stale \in SUBSET stored,
           NEW through \in assigned \cup {0},
           Cleanup(goal, stale, through)
    PROVE  IInv'
  <1> DEFINE gone == Oldest(DeleteCount(UsedBytes - Cardinality(stale) * BlobBytes, goal))
             blobs == stale \cup ReleasedBy(gone)
  <1> USE BoundAssumption
  <1>1. gone \subseteq Retained /\ blobs \subseteq stored /\ stale \subseteq Stale /\ Active = {}
    BY OldestEligible DEF Cleanup, ReleasedBy, UploadActive
  <1>2. /\ cursorOf' = [e \in Event |-> IF e \in gone THEN 0 ELSE cursorOf[e]]
        /\ refs' = [e \in Event |-> IF e \in gone THEN {} ELSE refs[e]]
        /\ keyOf' = [e \in Event |-> IF e \in gone THEN NoKey ELSE keyOf[e]]
        /\ stored' = stored \ blobs /\ legacy' = legacy \ blobs
        /\ files \ blobs \subseteq files' /\ files' \subseteq files
        /\ age' = [b \in Blob |-> IF b \in blobs THEN 0 ELSE age[b]]
        /\ usage' = [eventBytes |-> Monus(usage.eventBytes, Cardinality(gone) * EventBytes),
                     eventCount |-> Monus(usage.eventCount, Cardinality(gone)),
                     blobBytes |-> Monus(usage.blobBytes, Cardinality(blobs) * BlobBytes),
                     blobCount |-> Monus(usage.blobCount, Cardinality(blobs))]
        /\ pruned' = Floor(through)
        /\ \A e \in gone : cursorOf[e] <= through
        /\ UNCHANGED <<issued, assigned, expired, uploadVars, retentionVars>>
    BY DEF Cleanup
  <1> HIDE DEF gone, blobs
  <1>3. Retained' = Retained \ gone
    BY <1>2 DEF Retained, IInv, Typed
  <1>4. /\ Cardinality(gone) \in Nat /\ Cardinality(gone) <= Cardinality(Retained)
        /\ Cardinality(Retained) \in Nat
        /\ Cardinality(Retained \ gone) = Cardinality(Retained) - Cardinality(gone)
    BY <1>1, CountedSetsFinite, RemoveSubset DEF IInv
  <1>5. /\ Cardinality(blobs) \in Nat /\ Cardinality(blobs) <= Cardinality(stored)
        /\ Cardinality(stored) \in Nat
        /\ Cardinality(stored \ blobs) = Cardinality(stored) - Cardinality(blobs)
    BY <1>1, CountedSetsFinite, RemoveSubset DEF IInv
  <1>6. Accounting'
    <2>1. /\ Cardinality(gone) * EventBytes \in Nat
          /\ Cardinality(gone) * EventBytes <= Cardinality(Retained) * EventBytes
          /\ (Cardinality(Retained) - Cardinality(gone)) * EventBytes
               = Cardinality(Retained) * EventBytes - Cardinality(gone) * EventBytes
      BY <1>4, Distribute
    <2>2. /\ Cardinality(blobs) * BlobBytes \in Nat
          /\ Cardinality(blobs) * BlobBytes <= Cardinality(stored) * BlobBytes
          /\ (Cardinality(stored) - Cardinality(blobs)) * BlobBytes
               = Cardinality(stored) * BlobBytes - Cardinality(blobs) * BlobBytes
      BY <1>5, Distribute
    <2>3. usage'.eventCount = Cardinality(Retained')
          /\ usage'.eventBytes = Cardinality(Retained') * EventBytes
      BY <1>2, <1>3, <1>4, <2>1 DEF Monus, IInv, Accounting
    <2>4. usage'.blobCount = Cardinality(stored')
          /\ usage'.blobBytes = Cardinality(stored') * BlobBytes
      BY <1>2, <1>5, <2>2 DEF Monus, IInv, Accounting
    <2>5. QED
      BY <2>3, <2>4 DEF Accounting
  <1>7. usage' \in [eventBytes : Nat, eventCount : Nat, blobBytes : Nat, blobCount : Nat]
        /\ usage'.eventBytes <= usage.eventBytes /\ usage'.blobBytes <= usage.blobBytes
    <2>1. Cardinality(gone) * EventBytes \in Nat /\ Cardinality(blobs) * BlobBytes \in Nat
      BY <1>4, <1>5, Distribute
    <2>2. QED
      BY <1>2, <1>4, <1>5, <2>1, MonusType DEF IInv, Typed
  <1>8. Typed'
    BY <1>2, <1>7, NoKeyAssumption
       DEF IInv, Typed, Floor, uploadVars, retentionVars
  <1>9. QuotaBound' /\ ReservationsMatch'
    <2>1. reserved' = reserved /\ upload' = upload
      BY <1>2 DEF uploadVars
    <2>2. QuotaBound'
      BY <1>7, <2>1 DEF IInv, Typed, QuotaBound, UsedBytes
    <2>3. QED
      BY <2>1, <2>2 DEF IInv, ReservationsMatch, Active, Charged
  <1>10. AttachmentsAvailable'
    <2>1. ASSUME NEW e \in Retained', NEW b \in Required[e]
          PROVE  b \in refs'[e] /\ b \in stored' /\ b \in files'
      <3>1. e \in Retained /\ e \notin gone /\ e \in Event
        BY <1>3 DEF Retained
      <3>2. b \in refs[e] /\ b \in stored /\ b \in files
        BY <3>1 DEF IInv, AttachmentsAvailable
      <3>3. b \notin stale
        BY <1>1, <3>1, <3>2 DEF Stale, Referenced
      <3>4. b \notin ReleasedBy(gone)
        BY <3>1, <3>2 DEF ReleasedBy
      <3>5. b \notin blobs
        BY <3>3, <3>4 DEF blobs
      <3>6. QED
        BY <1>2, <3>1, <3>2, <3>5
    <2>2. QED
      BY <2>1 DEF AttachmentsAvailable
  <1>11. StoredHasFile'
    BY <1>2 DEF IInv, StoredHasFile
  <1>12. HolesBelowFloor'
    <2>1. pruned' \in Nat /\ pruned <= pruned' /\ through <= pruned' /\ pruned' <= issued
          /\ issued' = issued
      BY <1>2 DEF Floor, IInv, HolesBelowFloor, Typed
    <2>2. \A e \in Retained' : cursorOf'[e] = cursorOf[e] /\ e \in Retained
      BY <1>2, <1>3 DEF Retained
    <2>3. ASSUME NEW c \in assigned
          PROVE  c <= pruned' \/ \E e \in Retained' : cursorOf'[e] = c
      <3>1. CASE c <= pruned
        BY <2>1, <3>1 DEF IInv, HolesBelowFloor, Typed
      <3>2. CASE \E e \in Retained : cursorOf[e] = c
        <4>1. PICK e \in Retained : cursorOf[e] = c
          BY <3>2
        <4>2. CASE e \in gone
          <5>1. c <= through
            BY <1>2, <4>1, <4>2
          <5>2. c \in Nat /\ through \in Nat
            BY DEF IInv, Typed
          <5>3. QED
            BY <2>1, <5>1, <5>2
        <4>3. CASE e \notin gone
          BY <1>3, <2>2, <4>1, <4>3
        <4>4. QED
          BY <4>2, <4>3
      <3>3. QED
        BY <3>1, <3>2 DEF IInv, HolesBelowFloor
    <2>4. /\ assigned' = assigned
          /\ assigned \subseteq 1..issued
          /\ \A e \in Retained : cursorOf[e] \in assigned
      BY <1>2 DEF IInv, HolesBelowFloor
    <2>5. QED
      BY <2>1, <2>2, <2>3, <2>4 DEF HolesBelowFloor
  <1>13. UploadsSound'
    BY <1>1, <1>2 DEF UploadsSound, Active, uploadVars
  <1>14. QED
    BY <1>6, <1>8, <1>9, <1>10, <1>11, <1>12, <1>13 DEF IInv
-----------------------------------------------------------------------------
(* The invariant holds always *)

\* Every step keeps the invariant.
LEMMA StepIInv == IInv /\ [Next]_vars => IInv'
  <1> SUFFICES ASSUME IInv, [Next]_vars PROVE IInv'
    OBVIOUS
  <1>1. CASE \E b \in Blob : ReuseBlob(b) \/ AgeBlob(b)
    BY <1>1, AgesPreserveIInv
  <1>2. CASE \E s \in Stream, b \in Blob, managed \in BOOLEAN : ReserveBlob(s, b, managed)
    BY <1>2, ReservePreservesIInv
  <1>3. CASE \E s \in Stream : ReceiveBlob(s) \/ RecordBlob(s) \/ AbortUpload(s)
    BY <1>3, ReceivePreservesIInv, RecordPreservesIInv, AbortPreservesIInv
  <1>4. CASE Crash
    BY <1>4, CrashPreservesIInv
  <1>5. CASE \E batch \in SUBSET Event : \E new \in SUBSET batch : \E at \in Cursors(new) :
               InsertEvents(batch, new, at)
    BY <1>5, InsertPreservesIInv
  <1>6. CASE \E d \in Device : RemoveDevice(d)
    BY <1>6, RetentionPreservesIInv
  <1>7. CASE \E d \in Device, g \in Unregistered..MaxGeneration :
               \E keys \in Snapshots(d, g), mapped \in SUBSET Retained :
                  SetRetention(d, g, keys, mapped)
    <2>1. \A d \in Device, g \in Unregistered..MaxGeneration : Snapshots(d, g) \subseteq SUBSET Key
      BY DEF Snapshots
    <2>2. QED
      BY <1>7, <2>1, RetentionPreservesIInv
  <1>8. CASE \E goal \in 0..MaxGroupBytes, stale \in SUBSET Stale :
               \E through \in assigned \cup {0} :
                  Cleanup(goal, stale, through)
    <2>1. Stale \subseteq stored
      BY DEF Stale
    <2>2. QED
      BY <1>8, <2>1, CleanupPreservesIInv
  <1>9. CASE \E c \in assigned : ExpireEvents(c)
    BY <1>9, AgesPreserveIInv
  <1>10. CASE UNCHANGED vars
    BY <1>10 DEF vars, logVars, blobVars, uploadVars, retentionVars, IInv, Typed, Accounting,
       ReservationsMatch, QuotaBound, AttachmentsAvailable, StoredHasFile, HolesBelowFloor,
       UploadsSound, Retained, Active, Charged, UsedBytes
  <1>11. QED
    BY <1>1, <1>2, <1>3, <1>4, <1>5, <1>6, <1>7, <1>8, <1>9, <1>10 DEF Next

\* The inductive invariant holds in every reachable state.
THEOREM Invariant == Spec => []IInv
  BY InitIInv, StepIInv, PTL DEF Spec

\* No step leaves a row without the row it depends on.
LEMMA RowsKept == Typed /\ RowsHaveParents /\ [Next]_vars => RowsHaveParents'
  <1> SUFFICES ASSUME Typed, RowsHaveParents, [Next]_vars PROVE RowsHaveParents'
    OBVIOUS
  <1> USE DEF RowsHaveParents
  <1>1. CASE \E b \in Blob : ReuseBlob(b) \/ AgeBlob(b)
    BY <1>1 DEF ReuseBlob, AgeBlob, Typed, logVars, uploadVars, retentionVars, Retained
  <1>2. CASE \E s \in Stream, b \in Blob, managed \in BOOLEAN : ReserveBlob(s, b, managed)
    BY <1>2 DEF ReserveBlob, logVars, blobVars, retentionVars, Retained
  <1>3. CASE \E s \in Stream : ReceiveBlob(s) \/ AbortUpload(s)
    BY <1>3 DEF ReceiveBlob, AbortUpload, logVars, blobVars, retentionVars, Retained
  <1>4. CASE \E s \in Stream : RecordBlob(s)
    <2>1. PICK s \in Stream : RecordBlob(s)
      BY <1>4
    <2>2. /\ stored' = stored \cup {upload[s].blob} /\ age' = [age EXCEPT ![upload[s].blob] = 0]
          /\ legacy' \in {legacy, legacy \cup {upload[s].blob}}
          /\ UNCHANGED <<logVars, retentionVars>>
      BY <2>1 DEF RecordBlob
    <2> QED
      BY <2>2 DEF Typed, logVars, retentionVars, Retained
  <1>5. CASE Crash
    BY <1>5 DEF Crash, logVars, blobVars, retentionVars, Retained
  <1>6. CASE \E batch \in SUBSET Event : \E new \in SUBSET batch : \E at \in Cursors(new) :
               InsertEvents(batch, new, at)
    <2>1. PICK batch, new, at : at \in Cursors(new) /\ InsertEvents(batch, new, at)
      BY <1>6
    <2>2. /\ cursorOf' = [e \in Event |-> IF e \in new THEN at[e] ELSE cursorOf[e]]
          /\ keyOf' = [e \in Event |-> IF e \in new THEN KeyOf[e] ELSE keyOf[e]]
          /\ refs' = [e \in Event |-> IF e \in new THEN Required[e] \cup Optional[e] ELSE refs[e]]
          /\ UNCHANGED <<blobVars, retentionVars>>
      BY <2>1 DEF InsertEvents
    <2>3. \A e \in new : at[e] # 0
      BY <2>1 DEF Cursors, Typed
    <2> QED
      BY <2>2, <2>3 DEF Retained, blobVars, retentionVars
  <1>7. CASE \E d \in Device : RemoveDevice(d)
    BY <1>7 DEF RemoveDevice, Typed, logVars, blobVars, Retained
  <1>8. CASE \E d \in Device, g \in Unregistered..MaxGeneration :
               \E keys \in Snapshots(d, g), mapped \in SUBSET Retained :
                  SetRetention(d, g, keys, mapped)
    <2>1. PICK d, g, keys, mapped :
               d \in Device /\ g \in Unregistered..MaxGeneration /\ mapped \in SUBSET Retained
               /\ SetRetention(d, g, keys, mapped)
      BY <1>8
    <2>2. /\ \A x \in Device : generation'[x] = Unregistered => protections'[x] = {}
          /\ UNCHANGED <<cursorOf, stored, age>> /\ legacy' \subseteq legacy
      <3>1. CASE generation[d] < g
        BY <2>1, <3>1, BoundAssumption DEF SetRetention, Typed, Unregistered
      <3>2. CASE ~(generation[d] < g)
        BY <2>1, <3>2 DEF SetRetention, retentionVars
      <3> QED
        BY <3>1, <3>2
    <2>3. \A e \in Event \ Retained : keyOf'[e] = keyOf[e] /\ refs'[e] = refs[e]
      BY <2>1 DEF SetRetention
    <2> QED
      BY <2>2, <2>3 DEF Retained
  <1>9. CASE \E goal \in 0..MaxGroupBytes, stale \in SUBSET Stale :
               \E through \in assigned \cup {0} : Cleanup(goal, stale, through)
    <2>1. PICK goal \in 0..MaxGroupBytes, stale \in SUBSET Stale, through \in assigned \cup {0} :
               Cleanup(goal, stale, through)
      BY <1>9
    <2>2. PICK gone, blobs :
            /\ cursorOf' = [e \in Event |-> IF e \in gone THEN 0 ELSE cursorOf[e]]
            /\ keyOf' = [e \in Event |-> IF e \in gone THEN NoKey ELSE keyOf[e]]
            /\ refs' = [e \in Event |-> IF e \in gone THEN {} ELSE refs[e]]
            /\ stored' = stored \ blobs /\ legacy' = legacy \ blobs
            /\ age' = [b \in Blob |-> IF b \in blobs THEN 0 ELSE age[b]]
            /\ UNCHANGED retentionVars
      BY <2>1 DEF Cleanup
    <2> QED
      BY <2>2 DEF Retained, retentionVars
  <1>10. CASE \E c \in assigned : ExpireEvents(c)
    BY <1>10 DEF ExpireEvents, blobVars, retentionVars, Retained
  <1>11. CASE UNCHANGED vars
    BY <1>11 DEF vars, logVars, blobVars, retentionVars, Retained
  <1> QED
    BY <1>1, <1>2, <1>3, <1>4, <1>5, <1>6, <1>7, <1>8, <1>9, <1>10, <1>11 DEF Next

\* Every variable keeps its type.
LEMMA CellsTyped == Spec => []Typed
  <1>1. IInv => Typed
    BY DEF IInv
  <1>2. QED
    BY <1>1, Invariant, PTL

\* Every variable keeps its type and every row its parent: no counter or cursor
\* leaves the naturals, and nothing of a pruned event, a collected blob or a
\* removed device stays behind.
THEOREM TypeCorrect == Spec => []TypeOK
  <1>1. Init => RowsHaveParents
    BY DEF Init, RowsHaveParents
  <1>2. QED
    BY <1>1, RowsKept, CellsTyped, PTL DEF Spec, TypeOK

\* The counters behind the quota never drift from the content they count.
THEOREM CountersExact == Spec => []Accounting
  <1>1. IInv => Accounting
    BY DEF IInv
  <1>2. QED
    BY <1>1, Invariant, PTL

\* The reservations in memory are those of the uploads in flight.
THEOREM ReservationsExact == Spec => []ReservationsMatch
  <1>1. IInv => ReservationsMatch
    BY DEF IInv
  <1>2. QED
    BY <1>1, Invariant, PTL

\* A group never exceeds its quota by more than one frame of events.
THEOREM QuotaRespected == Spec => []QuotaBound
  <1>1. IInv => QuotaBound
    BY DEF IInv
  <1>2. QED
    BY <1>1, Invariant, PTL

\* Every retained event can still be downloaded with its attachments.
THEOREM AttachmentsKept == Spec => []AttachmentsAvailable
  <1>1. IInv => AttachmentsAvailable
    BY DEF IInv
  <1>2. QED
    BY <1>1, Invariant, PTL

\* Metadata never outlives the payload file it describes.
THEOREM FilesKept == Spec => []StoredHasFile
  <1>1. IInv => StoredHasFile
    BY DEF IInv
  <1>2. QED
    BY <1>1, Invariant, PTL

\* A puller whose cursor is at or above the floor misses no event.
THEOREM LogHasNoHoles == Spec => []HolesBelowFloor
  <1>1. IInv => HolesBelowFloor
    BY DEF IInv
  <1>2. QED
    BY <1>1, Invariant, PTL

\* Pruning spares every protected item, and the whole group while an event of
\* unknown identity could turn out to be protected.
THEOREM FavouritesKept == Spec => ProtectedSurvive
  <1> DEFINE Kept == /\ \A e \in Retained : keyOf[e] \in Protected => e \in Retained'
                     /\ Unmapped # {} => Retained \subseteq Retained' /\ stored \subseteq stored'
  <1>1. Typed /\ [Next]_vars => [Kept]_vars
    <2> SUFFICES ASSUME Typed, Next PROVE Kept
      OBVIOUS
    <2>1. CASE \E goal \in 0..MaxGroupBytes, stale \in SUBSET Stale :
                 \E through \in assigned \cup {0} :
                    Cleanup(goal, stale, through)
      <3> SUFFICES ASSUME NEW goal, NEW stale, NEW through,
                          Cleanup(goal, stale, through)
                   PROVE  Kept
        BY <2>1
      <3> DEFINE gone == Oldest(DeleteCount(UsedBytes - Cardinality(stale) * BlobBytes, goal))
      <3>1. gone \subseteq Eligible
        BY OldestEligible
      <3>2. cursorOf' = [e \in Event |-> IF e \in gone THEN 0 ELSE cursorOf[e]]
            /\ Unmapped = {}
        BY DEF Cleanup
      <3> HIDE DEF gone
      <3>3. Retained' = Retained \ gone
        BY <3>1, <3>2 DEF Retained, Typed
      <3>4. QED
        BY <3>1, <3>2, <3>3 DEF Eligible
    <2>2. CASE \E batch \in SUBSET Event : \E new \in SUBSET batch : \E at \in Cursors(new) :
                 InsertEvents(batch, new, at)
      <3> SUFFICES ASSUME NEW batch \in SUBSET Event, NEW new \in SUBSET batch,
                          NEW at \in Cursors(new), InsertEvents(batch, new, at)
                   PROVE  Kept
        BY <2>2
      <3>1. new \cap Retained = {} /\ stored' = stored
            /\ cursorOf' = [e \in Event |-> IF e \in new THEN at[e] ELSE cursorOf[e]]
        BY DEF InsertEvents, Accepts, blobVars
      <3>2. QED
        BY <3>1 DEF Retained
    <2>3. ASSUME cursorOf' = cursorOf, stored \subseteq stored' PROVE Kept
      BY <2>3 DEF Retained
    <2>4. CASE \/ \E b \in Blob : ReuseBlob(b) \/ AgeBlob(b)
               \/ \E c \in assigned : ExpireEvents(c)
      BY <2>3, <2>4 DEF ReuseBlob, AgeBlob, ExpireEvents, logVars, blobVars
    <2>5. CASE \/ \E s \in Stream, b \in Blob, managed \in BOOLEAN : ReserveBlob(s, b, managed)
               \/ \E s \in Stream : ReceiveBlob(s) \/ RecordBlob(s) \/ AbortUpload(s)
               \/ Crash
      BY <2>3, <2>5 DEF ReserveBlob, ReceiveBlob, RecordBlob, AbortUpload, Crash, logVars, blobVars
    <2>6. CASE \/ \E d \in Device : RemoveDevice(d)
               \/ \E d \in Device, g \in Unregistered..MaxGeneration :
                     \E keys \in Snapshots(d, g), mapped \in SUBSET Retained :
                        SetRetention(d, g, keys, mapped)
      BY <2>3, <2>6 DEF RemoveDevice, SetRetention, logVars, blobVars
    <2>7. QED
      BY <2>1, <2>2, <2>4, <2>5, <2>6 DEF Next
  <1>2. QED
    BY <1>1, CellsTyped, PTL DEF Spec, ProtectedSurvive

\* Every step of the store is an append to the log, a pruning of it, or leaves it
\* alone (Repository::insert_events and cleanup_group; all else stutters).
LEMMA StepRefinesLog ==
    ASSUME IInv, [Next]_vars
    PROVE  [Log!LogNext]_(Log!logVars)
  <1> USE DEF Log!logVars
  <1>1. ASSUME NEW batch \in SUBSET Event, NEW new \in SUBSET batch, NEW at \in Cursors(new),
               InsertEvents(batch, new, at)
        PROVE  Log!LogNext
    <2>1. Log!Append(new, at)
      BY <1>1 DEF InsertEvents, Accepts, Log!Append, Log!Retained, Retained
    <2>2. new \in SUBSET Event /\ at \in Log!Cursors(new)
      BY <1>1 DEF Cursors, Log!Cursors
    <2>3. QED
      BY <2>1, <2>2 DEF Log!LogNext
  <1>2. ASSUME NEW goal \in 0..MaxGroupBytes, NEW stale \in SUBSET Stale,
               NEW through \in assigned \cup {0}, Cleanup(goal, stale, through)
        PROVE  Log!LogNext \/ UNCHANGED Log!logVars
    <2> DEFINE gone == Oldest(DeleteCount(UsedBytes - Cardinality(stale) * BlobBytes, goal))
    <2>1. /\ cursorOf' = [e \in Event |-> IF e \in gone THEN 0 ELSE cursorOf[e]]
          /\ pruned' = Floor(through)
          /\ \A e \in gone : cursorOf[e] <= through
          /\ IF gone = {} THEN through = 0 ELSE \E e \in gone : cursorOf[e] = through
          /\ UNCHANGED <<issued, assigned>>
      BY <1>2 DEF Cleanup
    <2>2. gone \subseteq Retained
      BY OldestEligible
    <2> HIDE DEF gone
    <2>3. /\ cursorOf \in [Event -> Nat] /\ pruned \in Nat /\ through \in Nat
      BY DEF IInv, Typed
    <2>4. CASE gone = {}
      <3>1. cursorOf' = cursorOf
        BY <2>1, <2>3, <2>4
      <3>2. pruned' = pruned
        BY <2>1, <2>3, <2>4 DEF Floor
      <3>3. QED
        BY <2>1, <3>1, <3>2
    <2>5. CASE gone # {}
      <3>1. PICK e \in gone : cursorOf[e] = through
        BY <2>1, <2>5
      <3>2. pruned' \in {pruned} \cup {cursorOf[f] : f \in gone}
        BY <2>1, <3>1 DEF Floor
      <3>3. pruned' >= pruned /\ \A f \in gone : cursorOf[f] <= pruned'
        BY <2>1, <2>2, <2>3 DEF Floor, Retained
      <3>4. Log!Prune(gone)
        BY <2>1, <2>2, <2>5, <3>2, <3>3 DEF Log!Prune, Log!Retained, Retained
      <3>5. QED
        BY <2>2, <3>4 DEF Log!LogNext, Retained
    <2>6. QED
      BY <2>4, <2>5
  <1>3. ASSUME UNCHANGED <<cursorOf, issued, assigned, pruned>>
        PROVE  UNCHANGED Log!logVars
    BY <1>3
  <1>4. CASE \/ \E b \in Blob : ReuseBlob(b) \/ AgeBlob(b)
             \/ \E c \in assigned : ExpireEvents(c)
             \/ UNCHANGED vars
    BY <1>3, <1>4 DEF ReuseBlob, AgeBlob, ExpireEvents, logVars, vars
  <1>5. CASE \/ \E s \in Stream, b \in Blob, managed \in BOOLEAN : ReserveBlob(s, b, managed)
             \/ \E s \in Stream : ReceiveBlob(s) \/ RecordBlob(s) \/ AbortUpload(s)
             \/ Crash
    BY <1>3, <1>5 DEF ReserveBlob, ReceiveBlob, RecordBlob, AbortUpload, Crash, logVars
  <1>6. CASE \/ \E d \in Device : RemoveDevice(d)
             \/ \E d \in Device, g \in Unregistered..MaxGeneration :
                   \E keys \in Snapshots(d, g), mapped \in SUBSET Retained :
                      SetRetention(d, g, keys, mapped)
    BY <1>3, <1>6 DEF RemoveDevice, SetRetention, logVars
  <1>7. QED
    BY <1>1, <1>2, <1>4, <1>5, <1>6 DEF Next

\* The Hub's store implements the log the clients rely on, for any number of
\* events, blobs, uploads and devices.
THEOREM RefinesLog == Spec => ImplementsLog
  <1>1. Init => Log!LogInit
    BY DEF Init, Log!LogInit
  <1>2. IInv /\ [Next]_vars => [Log!LogNext]_(Log!logVars)
    BY StepRefinesLog
  <1>3. QED
    BY <1>1, <1>2, Invariant, PTL DEF Spec, ImplementsLog, Log!LogSpec
=============================================================================
