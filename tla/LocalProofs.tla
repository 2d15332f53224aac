----------------------------- MODULE LocalProofs -----------------------------
(***************************************************************************)
(* What holds of the local parts of a client, proved for any contents,     *)
(* records, limits, bounds, and any interleaving, crash or failed step.    *)
(* Each part is proved about by itself; Parts says that a step of the      *)
(* composition is one of a part and leaves the others alone.               *)
(***************************************************************************)
EXTENDS MCClientLocal, FilesProofs, FiniteSetTheorems, WellFoundedInduction, TLAPS

-----------------------------------------------------------------------------
(* The states of an item, of ItemState by itself: what the merge of item states relies on, proved  *)
(* for any number of devices, fields and operations, any interleaving and any crashes.             *)

LEMMA MarkedType ==
  ASSUME NEW r \in Row, NEW f \in Field, NEW b \in BOOLEAN, ops \in Nat
  PROVE  Marked(r, f, b) \in Row
  <1>1. [r.val EXCEPT ![f] = b] \in [Field -> BOOLEAN]
    BY DEF Row
  <1>2. r.dirty \cup {f} \in SUBSET Field
    BY DEF Row
  <1>3. /\ (IF f # "present" /\ "present" \in r.dirty THEN r.order ELSE ops + 1) \in Nat
        /\ r.rev + 1 \in Nat
    BY DEF Row
  <1> QED  BY <1>1, <1>2, <1>3 DEF Row, Marked

LEMMA SentType ==
  ASSUME NEW r \in Row, NEW fields \in SUBSET Field, NEW v \in Version
  PROVE  Sent(r, fields, v) \in Row
  <1>1. [f \in Field |-> IF f \in fields THEN v ELSE r.ver[f]] \in [Field -> Version \cup {NoVersion}]
    BY DEF Row
  <1>2. r.dirty \ fields \in SUBSET Field
    BY DEF Row
  <1> QED  BY <1>1, <1>2 DEF Row, Sent

LEMMA MergedType ==
  ASSUME NEW r \in Row, NEW e \in Event
  PROVE  Merged(r, e) \in Row
  <1>1. VersionOf(e) \in Version
    BY DEF VersionOf, Version, Event
  <1>2. \A f \in DOMAIN e.patch : e.patch[f] \in BOOLEAN
    <2>1. PICK S \in SUBSET Field : e.patch \in [S -> BOOLEAN]
      BY DEF Event, Patch
    <2> QED  BY <2>1
  <1>3. \A f \in Field : Takes(r, f, e) => e.patch[f] \in BOOLEAN
    BY <1>2 DEF Takes
  <1>4. [f \in Field |-> IF Takes(r, f, e) THEN e.patch[f] ELSE r.val[f]] \in [Field -> BOOLEAN]
    BY <1>3 DEF Row
  <1>5. [f \in Field |-> IF Takes(r, f, e) THEN VersionOf(e) ELSE r.ver[f]]
           \in [Field -> Version \cup {NoVersion}]
    BY <1>1 DEF Row
  <1> QED  BY <1>4, <1>5 DEF Row, Merged

LEMMA MaterializedType ==
  ASSUME NEW i \in Item, NEW r \in Row
  PROVE  Materialized(i, r) \in Item
  <1>1. [f \in Meta |-> r.val[f]] \in [Meta -> BOOLEAN]
    BY DEF Row, Field
  <1> QED  BY <1>1 DEF Materialized, Item

LEMMA NoJobType == NoJob \in Job
  <1>1. NoPatch \in [{} -> BOOLEAN]
    BY DEF NoPatch
  <1>2. NoPatch \in Patch
    BY <1>1 DEF Patch
  <1> QED  BY <1>2 DEF NoJob, Job

LEMMA InitType == Init => TypeOK
  <1> SUFFICES ASSUME Init PROVE TypeOK
    OBVIOUS
  <1>1. item \in [Device -> Item]
    BY DEF Init, Item
  <1>2. row \in [Device -> Row]
    BY DEF Init, Row
  <1> QED  BY <1>1, <1>2, NoJobType DEF Init, TypeOK

\* The steps of the user.
LEMMA UserType ==
  ASSUME TypeOK, NEW d \in Device, UserStep(d)
  PROVE  TypeOK'
  <1>0. row[d] \in Row /\ item[d] \in Item /\ ops \in Nat /\ "present" \in Field
    BY DEF TypeOK, Field
  <1>1. ASSUME NEW f \in Meta, Mark(d, f) PROVE TypeOK'
    <2>1. item[d].meta[f] \in BOOLEAN /\ f \in Field
      BY <1>0 DEF Item, Field
    <2>2. Marked(row[d], f, ~item[d].meta[f]) \in Row
      BY <1>0, <2>1, MarkedType
    <2>3. [item EXCEPT ![d].meta[f] = ~item[d].meta[f]] \in [Device -> Item]
      <3>1. [item[d] EXCEPT !.meta[f] = ~item[d].meta[f]] \in Item
        BY <1>0, <2>1 DEF Item
      <3> QED  BY <3>1 DEF TypeOK
    <2> QED  BY <1>1, <2>2, <2>3 DEF Mark, TypeOK
  <1>2. CASE Delete(d)
    <2>1. Marked(row[d], "present", FALSE) \in Row
      BY <1>0, MarkedType
    <2>2. [item[d] EXCEPT !.here = FALSE] \in Item
      BY <1>0 DEF Item
    <2>3. item' \in [Device -> Item]
      BY <1>2, <2>2 DEF Delete, TypeOK
    <2>4. row' \in [Device -> Row]
      BY <1>2, <2>1 DEF Delete, TypeOK
    <2>5. ops' \in Nat /\ UNCHANGED <<outbox, clock, job, taking, applied, events, crashes>>
      BY <1>0, <1>2 DEF Delete
    <2> QED  BY <2>3, <2>4, <2>5 DEF TypeOK
  <1>3. ASSUME NEW s \in Staged, Copy(d, s) PROVE TypeOK'
    <2> DEFINE new == [here |-> TRUE, rev |-> ops + 1,
                       meta |-> IF item[d].here THEN item[d].meta ELSE [f \in Meta |-> FALSE]]
    <2>1. new \in Item
      BY <1>0 DEF Item
    <2>2. [order |-> ops + 1, rev |-> ops + 1, waiting |-> FALSE] \in Entry
      BY <1>0 DEF Entry
    <2>3. item' = [item EXCEPT ![d] = new]
      BY <1>3 DEF Copy, TypeOK
    <2>4. outbox' \in [Device -> SUBSET Entry]
      BY <1>3, <2>2 DEF Copy, TypeOK
    <2> QED  BY <1>3, <2>1, <2>3, <2>4 DEF Copy, TypeOK
  <1> QED  BY <1>1, <1>2, <1>3 DEF UserStep

\* Publishing a job makes an event of it.
LEMMA PublishType ==
  ASSUME TypeOK, NEW d \in Device, Publish(d)
  PROVE  /\ job' \in [Device -> Job] /\ applied' \in [Device -> SUBSET Version]
         /\ events' \subseteq Event /\ <<job[d].seq, d>> \in Version
  <1>1. job[d] \in Job
    BY DEF TypeOK
  <1>2. Published(d) \in Event /\ <<job[d].seq, d>> \in Version
    BY <1>1 DEF Publish, Published, Event, Job, Version
  <1> QED  BY <1>2, NoJobType DEF Publish, TypeOK

\* The steps that turn operations into events.
LEMMA SendType ==
  ASSUME TypeOK, NEW d \in Device, SendStep(d)
  PROVE  TypeOK'
  <1>0. row[d] \in Row /\ job[d] \in Job /\ outbox[d] \in SUBSET Entry /\ "present" \in Field
    BY DEF TypeOK, Field
  <1>1. CASE BeginState(d)
    <2> DEFINE patch == [f \in row[d].dirty |-> row[d].val[f]]
    <2>1. row[d].dirty \in SUBSET Field /\ \A f \in row[d].dirty : row[d].val[f] \in BOOLEAN
      BY <1>0 DEF Row
    <2>2. patch \in [row[d].dirty -> BOOLEAN]
      BY <2>1
    <2>3. patch \in Patch
      BY <2>1, <2>2 DEF Patch
    <2>4. [kind |-> "state", seq |-> 0, patch |-> patch,
           rev |-> row[d].rev, order |-> row[d].order] \in Job
      BY <1>0, <2>3 DEF Job, Row
    <2> QED  BY <1>1, <2>4 DEF BeginState, TypeOK
  <1>2. ASSUME NEW o \in outbox[d], DropContent(d, o) PROVE TypeOK'
    BY <1>2 DEF DropContent, TypeOK
  <1>3. ASSUME NEW o \in outbox[d], BeginContent(d, o) PROVE TypeOK'
    <2>1. [f \in {"present"} |-> TRUE] \in [{"present"} -> BOOLEAN] /\ {"present"} \in SUBSET Field
      BY <1>0
    <2>2. [f \in {"present"} |-> TRUE] \in Patch
      BY <2>1 DEF Patch
    <2>3. o.order \in Nat
      BY <1>0 DEF Entry
    <2>4. [kind |-> "content", seq |-> 0, patch |-> [f \in {"present"} |-> TRUE],
           rev |-> 0, order |-> o.order] \in Job
      BY <2>2, <2>3 DEF Job
    <2> QED  BY <1>3, <2>4 DEF BeginContent, TypeOK
  <1>4. ASSUME NEW o \in outbox[d], RetryDue(d, o) PROVE TypeOK'
    <2>1. [o EXCEPT !.waiting = FALSE] \in Entry
      BY <1>0 DEF Entry
    <2> QED  BY <1>4, <2>1 DEF RetryDue, TypeOK
  <1>5. CASE FailContent(d)
    <2>1. \A o \in outbox[d] : [o EXCEPT !.waiting = o.waiting \/ o.order = job[d].order] \in Entry
      BY <1>0 DEF Entry
    <2>2. outbox' \in [Device -> SUBSET Entry]
      BY <1>5, <2>1 DEF FailContent, TypeOK
    <2> QED  BY <1>5, <2>2, NoJobType DEF FailContent, TypeOK
  <1>6. ASSUME NEW n \in clock[d] + 1 .. clock[d] + MaxJump, Allocate(d, n) PROVE TypeOK'
    <2>1. n \in Nat
      BY <1>6, ConstantsAssumption DEF TypeOK
    <2>2. [job[d] EXCEPT !.seq = n] \in Job
      BY <1>0, <2>1 DEF Job
    <2> QED  BY <1>6, <2>1, <2>2 DEF Allocate, TypeOK
  <1>7. CASE CommitState(d)
    <2>1. /\ job' \in [Device -> Job] /\ applied' \in [Device -> SUBSET Version]
          /\ events' \subseteq Event /\ <<job[d].seq, d>> \in Version
      BY <1>7, PublishType DEF CommitState
    <2>2. DOMAIN job[d].patch \in SUBSET Field
      BY <1>0 DEF Job, Patch
    <2>3. StateSent(d) \in Row
      BY <1>0, <2>1, <2>2, SentType DEF StateSent
    <2>4. row' \in [Device -> Row]
      BY <1>7, <2>3 DEF CommitState, TypeOK
    <2> QED  BY <1>7, <2>1, <2>4 DEF CommitState, Publish, TypeOK
  <1>8. CASE CommitContent(d)
    <2>1. /\ job' \in [Device -> Job] /\ applied' \in [Device -> SUBSET Version]
          /\ events' \subseteq Event /\ <<job[d].seq, d>> \in Version
      BY <1>8, PublishType DEF CommitContent
    <2> DEFINE sent == Sent(row[d], {"present"}, <<job[d].seq, d>>)
    <2>2. sent \in Row
      BY <1>0, <2>1, SentType
    <2>3. [sent EXCEPT !.val = [@ EXCEPT !["present"] = TRUE], !.rev = @ + 1] \in Row
      <3> HIDE DEF sent
      <3>1. [sent.val EXCEPT !["present"] = TRUE] \in [Field -> BOOLEAN] /\ sent.rev + 1 \in Nat
        BY <1>0, <2>2 DEF Row
      <3> QED  BY <2>2, <3>1 DEF Row
    <2>4. ContentSent(d) \in Row
      BY <1>0, <2>3 DEF ContentSent
    <2>5. row' \in [Device -> Row]
      BY <1>8, <2>4 DEF CommitContent, TypeOK
    <2>6. outbox' \in [Device -> SUBSET Entry]
      BY <1>0, <1>8 DEF CommitContent, TypeOK
    <2> QED  BY <1>8, <2>1, <2>5, <2>6 DEF CommitContent, Publish, TypeOK
  <1> QED  BY <1>1, <1>2, <1>3, <1>4, <1>5, <1>6, <1>7, <1>8 DEF SendStep

\* The merge of an event's patch.
LEMMA MergeType ==
  ASSUME TypeOK, NEW d \in Device, NEW e \in events, Merge(d, e)
  PROVE  /\ row' \in [Device -> Row] /\ clock' \in [Device -> Nat]
         /\ Merged(row[d], e) \in Row /\ VersionOf(e) \in Version
  <1>1. e \in Event /\ row[d] \in Row
    BY DEF TypeOK
  <1>2. Merged(row[d], e) \in Row
    BY <1>1, MergedType
  <1>3. e.seq \in Nat /\ VersionOf(e) \in Version
    BY <1>1 DEF Event, VersionOf, Version
  <1> QED  BY <1>2, <1>3 DEF Merge, Observed, TypeOK

\* The steps that apply the events of other devices.
LEMMA ReceiveType ==
  ASSUME TypeOK, NEW d \in Device, ReceiveStep(d)
  PROVE  TypeOK'
  <1>0. row[d] \in Row /\ item[d] \in Item /\ taking[d] \in Event \cup {NoEvent} /\ events \subseteq Event
    BY DEF TypeOK
  <1>1. ASSUME NEW e \in events, ApplyState(d, e) PROVE TypeOK'
    <2>1. /\ row' \in [Device -> Row] /\ clock' \in [Device -> Nat]
          /\ Merged(row[d], e) \in Row /\ VersionOf(e) \in Version
      BY <1>1, MergeType DEF ApplyState
    <2>2. Materialized(item[d], Merged(row[d], e)) \in Item
      BY <1>0, <2>1, MaterializedType
    <2> QED  BY <1>1, <2>1, <2>2 DEF ApplyState, Merge, TypeOK
  <1>2. ASSUME NEW e \in events, LearnRetention(d, e) PROVE TypeOK'
    <2>1. row' \in [Device -> Row] /\ clock' \in [Device -> Nat]
      BY <1>2, MergeType DEF LearnRetention
    <2> QED  BY <1>2, <2>1 DEF LearnRetention, Merge, TypeOK
  <1>3. ASSUME NEW e \in events, ApplyPresence(d, e) PROVE TypeOK'
    <2>1. /\ row' \in [Device -> Row] /\ clock' \in [Device -> Nat]
          /\ Merged(row[d], e) \in Row /\ VersionOf(e) \in Version
      BY <1>3, MergeType DEF ApplyPresence
    <2>2. Materialized(item[d], Merged(row[d], e)) \in Item
      BY <1>0, <2>1, MaterializedType
    <2>3. item' \in [Device -> Item]
      BY <1>3, <2>2 DEF ApplyPresence, TypeOK
    <2>4. applied' \in [Device -> SUBSET Version] /\ taking' \in [Device -> Event \cup {NoEvent}]
      BY <1>0, <1>3, <2>1 DEF ApplyPresence, TypeOK
    <2> QED  BY <1>3, <2>1, <2>3, <2>4 DEF ApplyPresence, Merge, TypeOK
  <1>4. ASSUME NEW keep \in BOOLEAN, InsertContent(d, keep) PROVE TypeOK'
    <2> DEFINE new == [here |-> TRUE, rev |-> IF item[d].here /\ keep THEN item[d].rev ELSE 0,
                       meta |-> [f \in Meta |-> row[d].val[f]]]
    <2>1. [f \in Meta |-> row[d].val[f]] \in [Meta -> BOOLEAN]
      BY <1>0 DEF Row, Field
    <2>2. new \in Item
      BY <1>0, <2>1 DEF Item
    <2>3. item' \in [Device -> Item]
      BY <1>4, <2>2 DEF InsertContent, TypeOK
    <2>4. VersionOf(taking[d]) \in Version
      BY <1>0, <1>4 DEF InsertContent, VersionOf, Version, Event
    <2> QED  BY <1>4, <2>3, <2>4 DEF InsertContent, TypeOK
  <1>5. CASE DeferContent(d)
    BY <1>5 DEF DeferContent, TypeOK
  <1> QED  BY <1>1, <1>2, <1>3, <1>4, <1>5 DEF ReceiveStep

LEMMA StepType == TypeOK /\ [Next]_vars => TypeOK'
  <1> SUFFICES ASSUME TypeOK, [Next]_vars PROVE TypeOK'
    OBVIOUS
  <1>1. ASSUME NEW d \in Device, Crash(d) PROVE TypeOK'
    BY <1>1, NoJobType DEF Crash, TypeOK
  <1>2. CASE UNCHANGED vars
    BY <1>2 DEF vars, TypeOK
  <1> QED  BY <1>1, <1>2, UserType, SendType, ReceiveType DEF Next

\* The variables keep their types (TypeOK).
THEOREM TypeCorrect == Spec => []TypeOK
  BY InitType, StepType, PTL DEF Spec

-----------------------------------------------------------------------------
(* Values and versions *)

\* Nobody has an event its device has not counted.
EventsCounted == \A e \in events : e.seq =< clock[e.dev]

\* A sequence that is allocated is past every event of the device.
JobFresh ==
    \A d \in Device : job[d].seq # 0 =>
        job[d].seq =< clock[d] /\ \A e \in events : e.dev = d => e.seq < job[d].seq

\* What is being serialized is still dirty, and unchanged unless the revision moved on.
Serialized ==
    \A d \in Device : job[d].kind = "state" =>
        /\ DOMAIN job[d].patch \subseteq row[d].dirty
        /\ job[d].rev =< row[d].rev
        /\ row[d].rev = job[d].rev => \A f \in DOMAIN job[d].patch : row[d].val[f] = job[d].patch[f]

ContentJob ==
    \A d \in Device : job[d].kind = "content" => job[d].patch = [f \in {"present"} |-> TRUE]

\* The clean fields of a row hold the values of events.
Backed(r, E) ==
    \A f \in Field : f \notin r.dirty /\ r.ver[f] # NoVersion =>
        \E e \in E : VersionOf(e) = r.ver[f] /\ f \in DOMAIN e.patch /\ e.patch[f] = r.val[f]

Jobs == JobFresh /\ Serialized /\ ContentJob
ValueInv == TypeOK /\ EventsCounted /\ Jobs /\ ValueOfVersion /\ OneEventPerVersion

LEMMA BackedIsValue == ValueOfVersion <=> \A d \in Device : Backed(row[d], events)
  BY DEF ValueOfVersion, Backed

LEMMA MarkedBacked ==
  ASSUME NEW r \in Row, NEW f \in Field, NEW b \in BOOLEAN, NEW E, Backed(r, E)
  PROVE  Backed(Marked(r, f, b), E)
  <1>1. /\ Marked(r, f, b).dirty = r.dirty \cup {f} /\ Marked(r, f, b).ver = r.ver
        /\ \A g \in Field \ {f} : Marked(r, f, b).val[g] = r.val[g]
    BY DEF Marked, Row
  <1> QED  BY <1>1 DEF Backed

LEMMA MergedBacked ==
  ASSUME NEW r \in Row, NEW E, NEW e \in E, Backed(r, E)
  PROVE  Backed(Merged(r, e), E)
  <1>1. /\ Merged(r, e).dirty = r.dirty
        /\ \A f \in Field :
             /\ Merged(r, e).val[f] = IF Takes(r, f, e) THEN e.patch[f] ELSE r.val[f]
             /\ Merged(r, e).ver[f] = IF Takes(r, f, e) THEN VersionOf(e) ELSE r.ver[f]
    BY DEF Merged, Row
  <1>2. \A f \in Field : Takes(r, f, e) => f \in DOMAIN e.patch
    BY DEF Takes
  <1> QED  BY <1>1, <1>2 DEF Backed

\* What Sent does to each part of a row.
LEMMA SentParts ==
  ASSUME NEW r \in Row, NEW fields, NEW v
  PROVE  /\ Sent(r, fields, v).dirty = r.dirty \ fields
         /\ Sent(r, fields, v).val = r.val /\ Sent(r, fields, v).rev = r.rev
         /\ \A f \in Field : Sent(r, fields, v).ver[f] = IF f \in fields THEN v ELSE r.ver[f]
  BY DEF Sent, Row

\* What a merge does to each part of a row.
LEMMA MergedParts ==
  ASSUME NEW r \in Row, NEW e
  PROVE  /\ Merged(r, e).dirty = r.dirty /\ Merged(r, e).rev = r.rev
         /\ \A f \in r.dirty : Merged(r, e).val[f] = r.val[f]
         /\ \A f \in Field : Merged(r, e).ver[f] = IF Takes(r, f, e) THEN VersionOf(e) ELSE r.ver[f]
  BY DEF Merged, Row, Takes

LEMMA NoJobParts == NoJob.seq = 0 /\ NoJob.kind = "none"
  BY DEF NoJob

LEMMA InitValue == Init => ValueInv
  <1> SUFFICES ASSUME Init PROVE ValueInv
    OBVIOUS
  <1>1. Jobs
    BY DEF Init, Jobs, JobFresh, Serialized, ContentJob, NoJob
  <1> QED
    BY <1>1, InitType DEF Init, ValueInv, EventsCounted, ValueOfVersion, OneEventPerVersion

\* The steps of the user.
LEMMA UserValue ==
  ASSUME ValueInv, NEW d \in Device, UserStep(d)
  PROVE  ValueInv'
  <1>0. TypeOK /\ row[d] \in Row /\ TypeOK' /\ "present" \in Field
    BY UserType DEF ValueInv, TypeOK, Field
  <1>1. ASSUME NEW f \in Field, NEW b \in BOOLEAN, row' = [row EXCEPT ![d] = Marked(@, f, b)],
               UNCHANGED <<clock, job, events>>
        PROVE ValueInv'
    <2>1. /\ row'[d] = Marked(row[d], f, b)
          /\ \A x \in Device \ {d} : row'[x] = row[x]
      BY <1>0, <1>1 DEF TypeOK
    <2>2. \A x \in Device : Backed(row'[x], events')
      BY <1>0, <1>1, <2>1, MarkedBacked, BackedIsValue DEF ValueInv
    <2>3. ValueOfVersion'
      BY <2>2 DEF ValueOfVersion, Backed
    <2>4. row'[d].rev = row[d].rev + 1 /\ row[d].dirty \subseteq row'[d].dirty /\ row[d].rev \in Nat
      BY <1>0, <2>1 DEF Marked, Row
    <2>5. \A x \in Device : job[x].rev \in Nat
      BY <1>0 DEF TypeOK, Job
    <2>6. Serialized'
      BY <1>0, <1>1, <2>1, <2>4, <2>5 DEF ValueInv, Jobs, Serialized, TypeOK
    <2> QED
      BY <1>0, <1>1, <2>3, <2>6 DEF ValueInv, EventsCounted, Jobs, JobFresh, ContentJob, OneEventPerVersion
  <1>2. ASSUME NEW f \in Meta, Mark(d, f) PROVE ValueInv'
    <2>1. f \in Field /\ (~item[d].meta[f]) \in BOOLEAN
      <3>1. item[d] \in Item
        BY <1>0 DEF TypeOK
      <3> QED  BY <3>1 DEF Field, Item
    <2> QED  BY <1>1, <1>2, <2>1 DEF Mark
  <1>3. CASE Delete(d)
    BY <1>0, <1>1, <1>3 DEF Delete
  <1>4. ASSUME NEW s \in Staged, Copy(d, s) PROVE ValueInv'
    BY <1>0, <1>4 DEF Copy, ValueInv, EventsCounted, Jobs, JobFresh, Serialized, ContentJob,
                      ValueOfVersion, OneEventPerVersion
  <1> QED  BY <1>2, <1>3, <1>4 DEF UserStep

\* Replacing a job by one without a sequence.
LEMMA NewJobValue ==
  ASSUME ValueInv, TypeOK', NEW d \in Device, NEW j, job' = [job EXCEPT ![d] = j], j.seq = 0,
         UNCHANGED <<row, clock, events>>,
         j.kind = "content" => j.patch = [f \in {"present"} |-> TRUE],
         j.kind = "state" => /\ DOMAIN j.patch \subseteq row[d].dirty
                             /\ j.rev =< row[d].rev
                             /\ \A f \in DOMAIN j.patch : row[d].val[f] = j.patch[f]
  PROVE  ValueInv'
  <1>1. job'[d] = j /\ \A x \in Device \ {d} : job'[x] = job[x]
    BY DEF ValueInv, TypeOK
  <1>2. JobFresh' /\ Serialized' /\ ContentJob'
    BY <1>1 DEF ValueInv, Jobs, JobFresh, Serialized, ContentJob
  <1> QED
    BY <1>2 DEF ValueInv, EventsCounted, Jobs, ValueOfVersion, OneEventPerVersion

\* Publishing: the new event is the only one with its version.
LEMMA PublishValue ==
  ASSUME ValueInv, NEW d \in Device, Publish(d)
  PROVE  EventsCounted' /\ JobFresh' /\ OneEventPerVersion'
  <1>1. /\ job'[d] = NoJob /\ \A x \in Device \ {d} : job'[x] = job[x]
        /\ clock' = clock /\ events' = events \cup {Published(d)}
    BY DEF Publish, ValueInv, TypeOK
  <1>2. Published(d).seq = job[d].seq /\ Published(d).dev = d /\ job[d].seq # 0
    BY DEF Published, Publish
  <1>3. job[d].seq =< clock[d] /\ \A e \in events : e.dev = d => e.seq < job[d].seq
    BY <1>2 DEF ValueInv, Jobs, JobFresh
  <1>4. \A e \in events : e.seq \in Nat /\ e.dev \in Device
    BY DEF ValueInv, TypeOK, Event
  <1>5. job[d].seq \in Nat
    BY DEF ValueInv, TypeOK, Job
  <1>6. EventsCounted' /\ JobFresh'
    BY <1>1, <1>2, <1>3, <1>4 DEF ValueInv, Jobs, EventsCounted, JobFresh, NoJob
  <1>7. \A e \in events : VersionOf(e) # VersionOf(Published(d))
    BY <1>2, <1>3, <1>4, <1>5 DEF VersionOf
  <1> QED  BY <1>1, <1>6, <1>7 DEF ValueInv, OneEventPerVersion

\* The steps that turn operations into events.
LEMMA SendValue ==
  ASSUME ValueInv, NEW d \in Device, SendStep(d)
  PROVE  ValueInv'
  <1>0. /\ TypeOK /\ row[d] \in Row /\ job[d] \in Job /\ TypeOK' /\ "present" \in Field
        /\ Backed(row[d], events)
    BY SendType, BackedIsValue DEF ValueInv, TypeOK, Field
  <1>1. CASE BeginState(d)
    <2> DEFINE j == [kind |-> "state", seq |-> 0, patch |-> [f \in row[d].dirty |-> row[d].val[f]],
                     rev |-> row[d].rev, order |-> row[d].order]
    <2>1. row[d].rev =< row[d].rev
      BY <1>0 DEF Row
    <2>2. /\ j.seq = 0 /\ j.kind = "state" /\ j.rev = row[d].rev /\ DOMAIN j.patch = row[d].dirty
          /\ \A f \in DOMAIN j.patch : row[d].val[f] = j.patch[f]
      OBVIOUS
    <2>3. job' = [job EXCEPT ![d] = j] /\ UNCHANGED <<row, clock, events>>
      BY <1>1 DEF BeginState
    <2> HIDE DEF j
    <2> QED  BY <1>0, <2>1, <2>2, <2>3, NewJobValue
  <1>2. ASSUME NEW o \in outbox[d], DropContent(d, o) PROVE ValueInv'
    BY <1>0, <1>2 DEF DropContent, ValueInv, EventsCounted, Jobs, JobFresh, Serialized, ContentJob,
                      ValueOfVersion, OneEventPerVersion
  <1>3. ASSUME NEW o \in outbox[d], BeginContent(d, o) PROVE ValueInv'
    <2> DEFINE j == [kind |-> "content", seq |-> 0, patch |-> [f \in {"present"} |-> TRUE],
                     rev |-> 0, order |-> o.order]
    <2>1. j.kind # "state" /\ j.seq = 0 /\ j.patch = [f \in {"present"} |-> TRUE]
      OBVIOUS
    <2>2. job' = [job EXCEPT ![d] = j] /\ UNCHANGED <<row, clock, events>>
      BY <1>3 DEF BeginContent
    <2> HIDE DEF j
    <2> QED  BY <1>0, <2>1, <2>2, NewJobValue
  <1>4. ASSUME NEW o \in outbox[d], RetryDue(d, o) PROVE ValueInv'
    BY <1>0, <1>4 DEF RetryDue, ValueInv, EventsCounted, Jobs, JobFresh, Serialized, ContentJob,
                      ValueOfVersion, OneEventPerVersion
  <1>5. CASE FailContent(d)
    <2>1. job' = [job EXCEPT ![d] = NoJob] /\ UNCHANGED <<row, clock, events>>
      BY <1>5 DEF FailContent
    <2> QED  BY <1>0, <2>1, NoJobParts, NewJobValue
  <1>6. ASSUME NEW n \in clock[d] + 1 .. clock[d] + MaxJump, Allocate(d, n) PROVE ValueInv'
    <2>1. n \in Nat /\ clock[d] \in Nat /\ n > clock[d]
      BY <1>6, ConstantsAssumption DEF TypeOK, ValueInv
    <2>2. /\ job'[d] = [job[d] EXCEPT !.seq = n] /\ \A x \in Device \ {d} : job'[x] = job[x]
          /\ clock'[d] = n /\ \A x \in Device \ {d} : clock'[x] = clock[x]
          /\ UNCHANGED <<row, events>>
      BY <1>0, <1>6 DEF Allocate, TypeOK
    <2>3. job'[d].seq = n /\ job'[d].kind = job[d].kind /\ job'[d].patch = job[d].patch /\ job'[d].rev = job[d].rev
      BY <1>0, <2>2 DEF Job
    <2>4. \A e \in events : e.seq \in Nat /\ e.dev \in Device /\ clock[e.dev] \in Nat
      BY <1>0 DEF TypeOK, Event
    <2>5. EventsCounted'
      BY <2>1, <2>2, <2>4 DEF ValueInv, EventsCounted
    <2>6. JobFresh'
      <3> SUFFICES ASSUME NEW x \in Device, job'[x].seq # 0
                   PROVE  job'[x].seq =< clock'[x] /\ \A e \in events : e.dev = x => e.seq < job'[x].seq
        BY <2>2 DEF JobFresh
      <3>1. CASE x = d
        <4>1. \A e \in events : e.dev = d => e.seq =< clock[d]
          BY DEF ValueInv, EventsCounted
        <4>2. \A e \in events : e.dev = d => e.seq < n
          BY <2>1, <2>4, <4>1
        <4>3. job'[d].seq = n /\ clock'[d] = n /\ n =< n
          BY <2>1, <2>2, <2>3
        <4> QED  BY <3>1, <4>2, <4>3
      <3>2. CASE x # d
        BY <2>2, <3>2 DEF ValueInv, Jobs, JobFresh
      <3> QED  BY <3>1, <3>2
    <2>7. Serialized' /\ ContentJob'
      <3>1. \A x \in Device : job'[x].kind = job[x].kind /\ job'[x].patch = job[x].patch /\ job'[x].rev = job[x].rev
        BY <2>2, <2>3
      <3> QED  BY <2>2, <3>1 DEF ValueInv, Jobs, Serialized, ContentJob
    <2> QED  BY <1>0, <2>2, <2>5, <2>6, <2>7 DEF ValueInv, Jobs, ValueOfVersion, OneEventPerVersion
  <1>7. ASSUME Publish(d), Backed(row'[d], events'), \A x \in Device \ {d} : row'[x] = row[x]
        PROVE ValueInv'
    <2>1. EventsCounted' /\ JobFresh' /\ OneEventPerVersion'
      BY <1>7, PublishValue
    <2>2. job'[d] = NoJob /\ \A x \in Device \ {d} : job'[x] = job[x]
      BY <1>0, <1>7 DEF Publish, TypeOK
    <2>3. Serialized' /\ ContentJob'
      BY <1>7, <2>2 DEF ValueInv, Jobs, Serialized, ContentJob, NoJob
    <2>4. \A x \in Device \ {d} : Backed(row'[x], events')
      BY <1>7, BackedIsValue DEF ValueInv, Backed, Publish
    <2>5. ValueOfVersion'
      BY <1>7, <2>4 DEF ValueOfVersion, Backed
    <2> QED  BY <1>0, <2>1, <2>3, <2>5 DEF ValueInv, Jobs
  <1> DEFINE v == <<job[d].seq, d>>
             e == Published(d)
  <1>8. CASE CommitState(d)
    <2>1. row'[d] = StateSent(d) /\ \A x \in Device \ {d} : row'[x] = row[x]
      BY <1>0, <1>8 DEF CommitState, TypeOK
    <2>2. VersionOf(e) = v /\ e.patch = job[d].patch /\ events' = events \cup {e}
      BY <1>8 DEF CommitState, Publish, Published, VersionOf
    <2>3. CASE row[d].rev # job[d].rev
      BY <1>0, <1>7, <1>8, <2>1, <2>2, <2>3 DEF CommitState, StateSent, Backed
    <2>4. CASE row[d].rev = job[d].rev
      <3>1. \A f \in DOMAIN job[d].patch : row[d].val[f] = job[d].patch[f]
        BY <1>8, <2>4 DEF CommitState, ValueInv, Jobs, Serialized
      <3>2. row'[d] = Sent(row[d], DOMAIN job[d].patch, v)
        BY <2>1, <2>4 DEF StateSent
      <3> HIDE DEF v, e
      <3>3. Backed(row'[d], events')
        BY <1>0, <2>2, <3>1, <3>2, SentParts DEF Backed
      <3> QED  BY <1>7, <1>8, <2>1, <3>3 DEF CommitState
    <2> QED  BY <2>3, <2>4
  <1>9. CASE CommitContent(d)
    <2>1. row'[d] = ContentSent(d) /\ \A x \in Device \ {d} : row'[x] = row[x]
      BY <1>0, <1>9 DEF CommitContent, TypeOK
    <2>2. VersionOf(e) = v /\ e.patch = [f \in {"present"} |-> TRUE] /\ events' = events \cup {e}
      BY <1>9 DEF CommitContent, Publish, Published, VersionOf, ValueInv, Jobs, ContentJob
    <2>3. CASE row'[d] = row[d]
      BY <1>0, <1>7, <1>9, <2>1, <2>2, <2>3 DEF CommitContent, Backed
    <2>4. CASE row'[d] # row[d]
      <3> DEFINE s == Sent(row[d], {"present"}, v)
      <3>1. row'[d] = [s EXCEPT !.val = [@ EXCEPT !["present"] = TRUE], !.rev = @ + 1]
        BY <2>1, <2>4 DEF ContentSent
      <3>2. s \in Row
        <4>1. v \in Version
          BY <1>9, PublishType, <1>0 DEF CommitContent
        <4> QED  BY <1>0, <4>1, SentType
      <3>3. /\ s.dirty = row[d].dirty \ {"present"} /\ s.val = row[d].val
            /\ \A f \in Field : s.ver[f] = IF f \in {"present"} THEN v ELSE row[d].ver[f]
        BY <1>0, SentParts
      <3> HIDE DEF v, e, s
      <3>4. /\ row'[d].dirty = s.dirty /\ row'[d].ver = s.ver
            /\ row'[d].val["present"] = TRUE /\ \A f \in Field \ {"present"} : row'[d].val[f] = s.val[f]
        BY <1>0, <3>1, <3>2 DEF Row
      <3>5. DOMAIN e.patch = {"present"} /\ e.patch["present"] = TRUE
        BY <2>2
      <3>6. Backed(row'[d], events')
        <4> SUFFICES ASSUME NEW f \in Field, f \notin row'[d].dirty, row'[d].ver[f] # NoVersion
                     PROVE  \E x \in events' : VersionOf(x) = row'[d].ver[f] /\ f \in DOMAIN x.patch
                                               /\ x.patch[f] = row'[d].val[f]
          BY DEF Backed
        <4>1. CASE f = "present"
          BY <2>2, <3>3, <3>4, <3>5, <4>1
        <4>2. CASE f # "present"
          BY <1>0, <2>2, <3>3, <3>4, <4>2 DEF Backed
        <4> QED  BY <4>1, <4>2
      <3> QED  BY <1>7, <1>9, <2>1, <3>6 DEF CommitContent
    <2> QED  BY <2>3, <2>4
  <1> QED  BY <1>1, <1>2, <1>3, <1>4, <1>5, <1>6, <1>8, <1>9 DEF SendStep

\* A merge.
LEMMA MergeValue ==
  ASSUME ValueInv, TypeOK', NEW d \in Device, NEW e \in events, Merge(d, e)
  PROVE  ValueInv'
  <1>0. /\ TypeOK /\ row[d] \in Row /\ Backed(row[d], events) /\ e.seq \in Nat
        /\ \A x \in events : x.seq \in Nat /\ x.dev \in Device
        /\ \A x \in Device : job[x].seq \in Nat /\ clock[x] \in Nat
    BY BackedIsValue DEF ValueInv, TypeOK, Event, Job
  <1>1. /\ row'[d] = Merged(row[d], e) /\ \A x \in Device \ {d} : row'[x] = row[x]
        /\ \A x \in Device : clock'[x] >= clock[x] /\ clock'[x] \in Nat
        /\ UNCHANGED <<job, events>>
    BY <1>0 DEF Merge, Observed, TypeOK
  <1>2. \A x \in Device : Backed(row'[x], events')
    BY <1>0, <1>1, MergedBacked, BackedIsValue DEF ValueInv
  <1>3. ValueOfVersion'
    BY <1>2 DEF ValueOfVersion, Backed
  <1>4. Serialized'
    BY <1>0, <1>1, MergedParts DEF ValueInv, Jobs, Serialized
  <1>5. EventsCounted' /\ JobFresh' /\ ContentJob'
    BY <1>0, <1>1 DEF ValueInv, Jobs, EventsCounted, JobFresh, ContentJob
  <1> QED  BY <1>1, <1>3, <1>4, <1>5 DEF ValueInv, Jobs, OneEventPerVersion

LEMMA ReceiveValue ==
  ASSUME ValueInv, NEW d \in Device, ReceiveStep(d)
  PROVE  ValueInv'
  <1>0. TypeOK'
    BY ReceiveType DEF ValueInv
  <1>1. ASSUME NEW e \in events, ApplyState(d, e) \/ LearnRetention(d, e) \/ ApplyPresence(d, e) PROVE ValueInv'
    BY <1>0, <1>1, MergeValue DEF ApplyState, LearnRetention, ApplyPresence
  <1>2. ASSUME UNCHANGED <<row, clock, job, events>> PROVE ValueInv'
    BY <1>0, <1>2 DEF ValueInv, EventsCounted, Jobs, JobFresh, Serialized, ContentJob,
                      ValueOfVersion, OneEventPerVersion
  <1> QED  BY <1>1, <1>2 DEF ReceiveStep, InsertContent, DeferContent

LEMMA StepValue == ValueInv /\ [Next]_vars => ValueInv'
  <1> SUFFICES ASSUME ValueInv, [Next]_vars PROVE ValueInv'
    OBVIOUS
  <1>0. TypeOK'
    BY StepType DEF ValueInv
  <1>1. ASSUME NEW d \in Device, Crash(d) PROVE ValueInv'
    <2>1. job' = [job EXCEPT ![d] = NoJob] /\ UNCHANGED <<row, clock, events>>
      BY <1>1 DEF Crash
    <2> QED  BY <1>0, <2>1, NoJobParts, NewJobValue
  <1>2. CASE UNCHANGED vars
    BY <1>0, <1>2 DEF vars, ValueInv, EventsCounted, Jobs, JobFresh, Serialized, ContentJob,
                      ValueOfVersion, OneEventPerVersion
  <1> QED  BY <1>1, <1>2, UserValue, SendValue, ReceiveValue DEF Next

\* A clean field holds the value of the event whose version it has (ValueOfVersion).
THEOREM ValuesAreEvents == Spec => []ValueOfVersion
  <1>1. ValueInv => ValueOfVersion
    BY DEF ValueInv
  <1> QED  BY <1>1, InitValue, StepValue, PTL DEF Spec

\* No two events share a version (OneEventPerVersion).
THEOREM VersionsAreUnique == Spec => []OneEventPerVersion
  <1>1. ValueInv => OneEventPerVersion
    BY DEF ValueInv
  <1> QED  BY <1>1, InitValue, StepValue, PTL DEF Spec

-----------------------------------------------------------------------------
(* The order of the user's operations *)

\* An order that everything still pending on the device comes after.
Precedes(k, d) ==
    /\ k =< ops
    /\ row[d].dirty # {} => k =< row[d].order
    /\ \A o \in outbox[d] : k =< o.order

PendingKnown == \A d \in Device : row[d].order =< ops /\ \A o \in outbox[d] : o.order =< ops
JobFirst == \A d \in Device : job[d].kind # "none" => Precedes(job[d].order, d)
EventsFirst ==
    \A e \in events : /\ Precedes(e.order, e.dev)
                      /\ job[e.dev].kind # "none" => e.order =< job[e.dev].order

OrderInv == ValueInv /\ PendingKnown /\ JobFirst /\ EventsFirst /\ SentInOrder

\* The types the comparisons need.
LEMMA OrderTypes ==
  ASSUME TypeOK
  PROVE  /\ ops \in Nat
         /\ \A d \in Device : /\ row[d].order \in Nat /\ job[d].order \in Nat
                              /\ \A o \in outbox[d] : o.order \in Nat
         /\ \A e \in events : e.order \in Nat /\ e.dev \in Device
  BY DEF TypeOK, Row, Job, Entry, Event

\* A new operation comes after everything that is pending.
LEMMA LaterPrecedes ==
  ASSUME TypeOK, ops' = ops + 1, NEW d \in Device, NEW k \in Nat, Precedes(k, d),
         row'[d] = row[d] \/ row'[d].order = ops + 1 \/ (row[d].dirty # {} /\ row'[d].order = row[d].order),
         \A o \in outbox'[d] : o \in outbox[d] \/ o.order = ops + 1
  PROVE  Precedes(k, d)'
  BY OrderTypes DEF Precedes

\* What is pending of a smaller or equal set still comes after.
LEMMA FewerPrecedes ==
  ASSUME ops' = ops, NEW d \in Device, NEW k \in Nat, Precedes(k, d),
         row'[d].dirty # {} => row[d].dirty # {} /\ row'[d].order = row[d].order,
         \A o \in outbox'[d] : \E p \in outbox[d] : o.order = p.order
  PROVE  Precedes(k, d)'
  BY DEF Precedes

LEMMA UserOrder ==
  ASSUME OrderInv, NEW d \in Device, UserStep(d)
  PROVE  OrderInv'
  <1>0. ValueInv' /\ TypeOK /\ TypeOK'
    BY UserValue DEF OrderInv, ValueInv
  <1>1. UNCHANGED <<job, events>> /\ ops' = ops + 1
    BY DEF UserStep, Mark, Delete, Copy
  <1>2. /\ \/ row' = row
           \/ \E f \in Field, b \in BOOLEAN : row' = [row EXCEPT ![d] = Marked(@, f, b)]
        /\ \/ outbox' = outbox
           \/ outbox' = [outbox EXCEPT ![d] = @ \cup {[order |-> ops + 1, rev |-> ops + 1, waiting |-> FALSE]}]
    <2>1. ASSUME NEW f \in Meta, Mark(d, f) PROVE <1>2!1 /\ outbox' = outbox
      <3>1. f \in Field /\ (~item[d].meta[f]) \in BOOLEAN
        <4>1. item[d] \in Item
          BY <1>0 DEF TypeOK
        <4> QED  BY <4>1 DEF Field, Item
      <3> QED  BY <2>1, <3>1 DEF Mark
    <2>2. CASE Delete(d)
      BY <2>2 DEF Delete, Field
    <2>3. ASSUME NEW s \in Staged, Copy(d, s) PROVE <1>2
      <3>1. row' = row
        BY <2>3 DEF Copy
      <3>2. CASE s
        BY <2>3, <3>1, <3>2 DEF Copy
      <3>3. CASE ~s
        BY <1>0, <2>3, <3>1, <3>3 DEF Copy, TypeOK
      <3> QED  BY <3>2, <3>3
    <2> QED  BY <2>1, <2>2, <2>3 DEF UserStep
  <1>3. \A x \in Device : \/ row'[x] = row[x] \/ row'[x].order = ops + 1
                          \/ row[x].dirty # {} /\ row'[x].order = row[x].order
    <2>1. CASE row' = row
      BY <2>1
    <2>2. ASSUME NEW f \in Field, NEW b \in BOOLEAN, row' = [row EXCEPT ![d] = Marked(@, f, b)]
          PROVE <1>3
      <3>1. row[d] \in Row
        BY <1>0 DEF TypeOK
      <3>2. \/ Marked(row[d], f, b).order = ops + 1
            \/ row[d].dirty # {} /\ Marked(row[d], f, b).order = row[d].order
        BY <3>1 DEF Marked, Row
      <3> QED  BY <1>0, <2>2, <3>2 DEF TypeOK
    <2> QED  BY <1>2, <2>1, <2>2
  <1>4. \A x \in Device : \A o \in outbox'[x] : o \in outbox[x] \/ o.order = ops + 1
    BY <1>0, <1>2 DEF TypeOK
  <1>5. \A x \in Device : \A k \in Nat : Precedes(k, x) => Precedes(k, x)'
    BY <1>0, <1>1, <1>3, <1>4, LaterPrecedes
  <1>6. JobFirst' /\ EventsFirst'
    BY <1>0, <1>1, <1>5, OrderTypes DEF OrderInv, JobFirst, EventsFirst
  <1>7. PendingKnown'
    BY <1>0, <1>1, <1>3, <1>4, OrderTypes DEF OrderInv, PendingKnown
  <1> QED  BY <1>0, <1>1, <1>6, <1>7 DEF OrderInv, SentInOrder

\* Steps that add nothing to what is pending.
Shrinks ==
    /\ ops' = ops
    /\ \A x \in Device : row'[x].order = row[x].order \/ row'[x].order = 0
    /\ \A x \in Device : row'[x].dirty # {} => row[x].dirty # {} /\ row'[x].order = row[x].order
    /\ \A x \in Device : \A o \in outbox'[x] : \E p \in outbox[x] : o.order = p.order

LEMMA ShrinkOrder ==
  ASSUME OrderInv, Shrinks
  PROVE  PendingKnown' /\ \A x \in Device : \A k \in Nat : Precedes(k, x) => Precedes(k, x)'
  <1>0. TypeOK
    BY DEF OrderInv, ValueInv
  <1>1. PendingKnown'
    BY <1>0, OrderTypes DEF Shrinks, OrderInv, PendingKnown
  <1>2. \A x \in Device : \A k \in Nat : Precedes(k, x) => Precedes(k, x)'
    BY FewerPrecedes DEF Shrinks
  <1> QED  BY <1>1, <1>2

\* Replacing a job by one that comes before everything pending and after every event.
LEMMA NewJobOrder ==
  ASSUME OrderInv, ValueInv', Shrinks, NEW d \in Device, NEW j, job' = [job EXCEPT ![d] = j],
         events' = events,
         j.kind # "none" => /\ j.order \in Nat /\ Precedes(j.order, d)
                            /\ \A e \in events : e.dev = d => e.order =< j.order
  PROVE  OrderInv'
  <1>0. TypeOK
    BY DEF OrderInv, ValueInv
  <1>1. job'[d] = j /\ \A x \in Device \ {d} : job'[x] = job[x]
    BY <1>0 DEF TypeOK
  <1>2. PendingKnown' /\ \A x \in Device : \A k \in Nat : Precedes(k, x) => Precedes(k, x)'
    BY ShrinkOrder
  <1>3. \A x \in Device : job'[x].kind # "none" => job'[x].order \in Nat /\ Precedes(job'[x].order, x)
    BY <1>0, <1>1, OrderTypes DEF OrderInv, JobFirst
  <1>4. JobFirst'
    BY <1>2, <1>3 DEF JobFirst
  <1>5. EventsFirst'
    BY <1>0, <1>1, <1>2, OrderTypes DEF OrderInv, EventsFirst
  <1> QED  BY <1>2, <1>4, <1>5 DEF OrderInv, SentInOrder

LEMMA SendOrder ==
  ASSUME OrderInv, NEW d \in Device, SendStep(d)
  PROVE  OrderInv'
  <1>0. /\ ValueInv' /\ TypeOK /\ TypeOK' /\ row[d] \in Row /\ job[d] \in Job
        /\ outbox[d] \in SUBSET Entry
    BY SendValue DEF OrderInv, ValueInv, TypeOK
  <1>1. CASE BeginState(d)
    <2> DEFINE j == [kind |-> "state", seq |-> 0, patch |-> [f \in row[d].dirty |-> row[d].val[f]],
                     rev |-> row[d].rev, order |-> row[d].order]
    <2>1. job' = [job EXCEPT ![d] = j] /\ UNCHANGED <<row, outbox, events, ops>>
      BY <1>1 DEF BeginState
    <2>2. j.order = row[d].order
      OBVIOUS
    <2>3. row[d].order \in Nat /\ Precedes(row[d].order, d)
      BY <1>0, <1>1 DEF BeginState, StateReady, Precedes, OrderInv, PendingKnown, Row
    <2>4. \A e \in events : e.dev = d => e.order =< row[d].order
      BY <1>1 DEF BeginState, StateReady, Precedes, OrderInv, EventsFirst
    <2>5. Shrinks
      BY <2>1 DEF Shrinks
    <2> HIDE DEF j
    <2> QED  BY <1>0, <2>1, <2>2, <2>3, <2>4, <2>5, NewJobOrder
  <1>2. ASSUME NEW o \in outbox[d], BeginContent(d, o) PROVE OrderInv'
    <2> DEFINE j == [kind |-> "content", seq |-> 0, patch |-> [f \in {"present"} |-> TRUE],
                     rev |-> 0, order |-> o.order]
    <2>1. job' = [job EXCEPT ![d] = j] /\ UNCHANGED <<row, outbox, events, ops>>
      BY <1>2 DEF BeginContent
    <2>2. j.order = o.order
      OBVIOUS
    <2>3. o.order \in Nat /\ Precedes(o.order, d)
      BY <1>0, <1>2 DEF BeginContent, ContentReady, Precedes, OrderInv, PendingKnown, Entry
    <2>4. \A e \in events : e.dev = d => e.order =< o.order
      BY <1>2 DEF Precedes, OrderInv, EventsFirst
    <2>5. Shrinks
      BY <2>1 DEF Shrinks
    <2> HIDE DEF j
    <2> QED  BY <1>0, <2>1, <2>2, <2>3, <2>4, <2>5, NewJobOrder
  <1>3. ASSUME Shrinks, UNCHANGED <<job, events>> PROVE OrderInv'
    <2>1. PendingKnown' /\ \A x \in Device : \A k \in Nat : Precedes(k, x) => Precedes(k, x)'
      BY <1>3, ShrinkOrder
    <2>2. JobFirst' /\ EventsFirst'
      BY <1>0, <1>3, <2>1, OrderTypes DEF OrderInv, JobFirst, EventsFirst
    <2> QED  BY <1>0, <1>3, <2>1, <2>2 DEF OrderInv, SentInOrder
  <1>4. ASSUME NEW o \in outbox[d], DropContent(d, o) PROVE OrderInv'
    <2>1. outbox'[d] \subseteq outbox[d] /\ \A x \in Device \ {d} : outbox'[x] = outbox[x]
      BY <1>0, <1>4 DEF DropContent, TypeOK
    <2>2. Shrinks /\ UNCHANGED <<job, events>>
      BY <1>4, <2>1 DEF DropContent, Shrinks
    <2> QED  BY <1>3, <2>2
  <1>5. ASSUME NEW o \in outbox[d], RetryDue(d, o) PROVE OrderInv'
    <2>1. [o EXCEPT !.waiting = FALSE].order = o.order
      BY <1>0 DEF Entry
    <2>2. /\ \A x \in Device \ {d} : outbox'[x] = outbox[x]
          /\ \A p \in outbox'[d] : \E q \in outbox[d] : p.order = q.order
      BY <1>0, <1>5, <2>1 DEF RetryDue, TypeOK
    <2>3. Shrinks /\ UNCHANGED <<job, events>>
      BY <1>5, <2>2 DEF RetryDue, Shrinks
    <2> QED  BY <1>3, <2>3
  <1>6. CASE FailContent(d)
    <2>1. \A o \in outbox[d] : [o EXCEPT !.waiting = o.waiting \/ o.order = job[d].order].order = o.order
      BY <1>0 DEF Entry
    <2>2. /\ \A x \in Device \ {d} : outbox'[x] = outbox[x]
          /\ \A p \in outbox'[d] : \E q \in outbox[d] : p.order = q.order
      <3>1. outbox'[d] = {[o EXCEPT !.waiting = o.waiting \/ o.order = job[d].order] : o \in outbox[d]}
        BY <1>0, <1>6 DEF FailContent, TypeOK
      <3>2. \A x \in Device \ {d} : outbox'[x] = outbox[x]
        BY <1>0, <1>6 DEF FailContent, TypeOK
      <3>3. \A p \in outbox'[d] : \E q \in outbox[d] : p.order = q.order
        BY <2>1, <3>1
      <3> QED  BY <3>2, <3>3
    <2>3. Shrinks
      BY <1>6, <2>2 DEF FailContent, Shrinks
    <2>4. job' = [job EXCEPT ![d] = NoJob] /\ events' = events
      BY <1>6 DEF FailContent
    <2> QED  BY <1>0, <2>3, <2>4, NoJobParts, NewJobOrder
  <1>7. ASSUME NEW n \in clock[d] + 1 .. clock[d] + MaxJump, Allocate(d, n) PROVE OrderInv'
    <2> DEFINE j == [job[d] EXCEPT !.seq = n]
    <2>1. job' = [job EXCEPT ![d] = j] /\ UNCHANGED <<row, outbox, events, ops>>
      BY <1>0, <1>7 DEF Allocate, TypeOK
    <2>2. j.order = job[d].order /\ job[d].kind # "none" /\ job[d].order \in Nat
      BY <1>0, <1>7 DEF Allocate, Job
    <2>3. Precedes(job[d].order, d) /\ \A e \in events : e.dev = d => e.order =< job[d].order
      BY <2>2 DEF OrderInv, JobFirst, EventsFirst
    <2>4. Shrinks
      BY <2>1 DEF Shrinks
    <2> HIDE DEF j
    <2> QED  BY <1>0, <2>1, <2>2, <2>3, <2>4, NewJobOrder
  <1>8. ASSUME Publish(d), Shrinks PROVE OrderInv'
    <2>1. PendingKnown' /\ \A x \in Device : \A k \in Nat : Precedes(k, x) => Precedes(k, x)'
      BY <1>8, ShrinkOrder
    <2>2. /\ job'[d] = NoJob /\ \A x \in Device \ {d} : job'[x] = job[x]
          /\ events' = events \cup {Published(d)}
      BY <1>0, <1>8 DEF Publish, TypeOK
    <2>3. /\ job[d].kind # "none" /\ job[d].seq # 0 /\ job[d].order \in Nat /\ job[d].seq \in Nat
          /\ Published(d).order = job[d].order /\ Published(d).seq = job[d].seq /\ Published(d).dev = d
      BY <1>0, <1>8 DEF Publish, Published, Job
    <2>4. JobFirst'
      BY <1>0, <2>1, <2>2, NoJobParts, OrderTypes DEF OrderInv, JobFirst
    <2>5. /\ Precedes(job[d].order, d)
          /\ \A e \in events : e.dev = d => e.order =< job[d].order /\ e.seq < job[d].seq
      BY <2>3 DEF OrderInv, JobFirst, EventsFirst, ValueInv, Jobs, JobFresh
    <2>6. EventsFirst'
      BY <1>0, <2>1, <2>2, <2>3, <2>5, NoJobParts, OrderTypes DEF OrderInv, EventsFirst
    <2>7. \A e \in events : e.seq \in Nat
      BY <1>0 DEF TypeOK, Event
    <2>8. SentInOrder'
      BY <2>2, <2>3, <2>5, <2>7 DEF OrderInv, SentInOrder
    <2> QED  BY <1>0, <2>1, <2>4, <2>6, <2>8 DEF OrderInv
  <1>9. ASSUME NEW fields, NEW v
        PROVE  LET r == Sent(row[d], fields, v)
               IN (r.order = row[d].order \/ r.order = 0)
                  /\ (r.dirty # {} => row[d].dirty # {} /\ r.order = row[d].order)
    BY <1>0 DEF Sent, Row
  <1>10. CASE CommitState(d)
    <2>1. row'[d] = row[d] \/ \E fields, v : row'[d] = Sent(row[d], fields, v)
      BY <1>0, <1>10 DEF CommitState, StateSent, TypeOK
    <2>2. \A x \in Device \ {d} : row'[x] = row[x]
      BY <1>0, <1>10 DEF CommitState, TypeOK
    <2>3. Shrinks
      BY <1>9, <1>10, <2>1, <2>2 DEF CommitState, Publish, Shrinks
    <2> QED  BY <1>8, <1>10, <2>3 DEF CommitState
  <1>11. CASE CommitContent(d)
    <2> DEFINE v == <<job[d].seq, d>>
               s == Sent(row[d], {"present"}, v)
    <2>1. row'[d] = row[d] \/ row'[d] = [s EXCEPT !.val = [@ EXCEPT !["present"] = TRUE], !.rev = @ + 1]
      BY <1>0, <1>11 DEF CommitContent, ContentSent, TypeOK
    <2>2. s \in Row
      <3>1. v \in Version /\ {"present"} \in SUBSET Field
        BY <1>11, <1>0, PublishType DEF CommitContent, Field
      <3> QED  BY <1>0, <3>1, SentType
    <2>3. (s.order = row[d].order \/ s.order = 0) /\ (s.dirty # {} => row[d].dirty # {} /\ s.order = row[d].order)
      BY <1>9
    <2> HIDE DEF s
    <2>4. /\ row'[d].order = row[d].order \/ row'[d].order = 0
          /\ row'[d].dirty # {} => row[d].dirty # {} /\ row'[d].order = row[d].order
      BY <2>1, <2>2, <2>3 DEF Row
    <2>5. /\ \A x \in Device \ {d} : row'[x] = row[x] /\ outbox'[x] = outbox[x]
          /\ outbox'[d] \subseteq outbox[d]
      BY <1>0, <1>11 DEF CommitContent, TypeOK
    <2>6. Shrinks
      BY <1>11, <2>4, <2>5 DEF CommitContent, Publish, Shrinks
    <2> QED  BY <1>8, <1>11, <2>6 DEF CommitContent
  <1> QED  BY <1>1, <1>2, <1>4, <1>5, <1>6, <1>7, <1>10, <1>11 DEF SendStep

LEMMA ReceiveOrder ==
  ASSUME OrderInv, NEW d \in Device, ReceiveStep(d)
  PROVE  OrderInv'
  <1>0. ValueInv' /\ TypeOK /\ row[d] \in Row
    BY ReceiveValue DEF OrderInv, ValueInv, TypeOK
  <1>1. ASSUME NEW e \in events, Merge(d, e) PROVE Shrinks /\ UNCHANGED <<job, events>>
    <2>1. Merged(row[d], e).order = row[d].order /\ Merged(row[d], e).dirty = row[d].dirty
      BY <1>0 DEF Merged, Row
    <2> QED  BY <1>0, <1>1, <2>1 DEF Merge, Shrinks, TypeOK
  <1>2. ASSUME UNCHANGED <<row, outbox, job, events, ops>> PROVE Shrinks /\ UNCHANGED <<job, events>>
    BY <1>2 DEF Shrinks
  <1>3. Shrinks /\ UNCHANGED <<job, events>>
    BY <1>1, <1>2 DEF ReceiveStep, ApplyState, LearnRetention, ApplyPresence, InsertContent, DeferContent
  <1>4. PendingKnown' /\ \A x \in Device : \A k \in Nat : Precedes(k, x) => Precedes(k, x)'
    BY <1>3, ShrinkOrder
  <1>5. JobFirst' /\ EventsFirst'
    BY <1>0, <1>3, <1>4, OrderTypes DEF OrderInv, JobFirst, EventsFirst
  <1> QED  BY <1>0, <1>3, <1>4, <1>5 DEF OrderInv, SentInOrder

LEMMA InitOrder == Init => OrderInv
  <1> SUFFICES ASSUME Init PROVE OrderInv
    OBVIOUS
  <1>1. PendingKnown /\ JobFirst
    BY NoJobParts DEF Init, PendingKnown, JobFirst
  <1> QED  BY <1>1, InitValue DEF Init, OrderInv, EventsFirst, SentInOrder

LEMMA StepOrder == OrderInv /\ [Next]_vars => OrderInv'
  <1> SUFFICES ASSUME OrderInv, [Next]_vars PROVE OrderInv'
    OBVIOUS
  <1>0. ValueInv'
    BY StepValue DEF OrderInv
  <1>1. ASSUME NEW d \in Device, Crash(d) PROVE OrderInv'
    <2>1. job' = [job EXCEPT ![d] = NoJob] /\ UNCHANGED <<row, outbox, events, ops>>
      BY <1>1 DEF Crash
    <2>2. Shrinks
      BY <2>1 DEF Shrinks
    <2> QED  BY <1>0, <2>1, <2>2, NoJobParts, NewJobOrder
  <1>2. CASE UNCHANGED vars
    BY <1>0, <1>2 DEF vars, OrderInv, PendingKnown, JobFirst, EventsFirst, Precedes, SentInOrder
  <1> QED  BY <1>1, <1>2, UserOrder, SendOrder, ReceiveOrder DEF Next

\* The events of a device follow the order of its user's operations (SentInOrder).
THEOREM OperationsInOrder == Spec => []SentInOrder
  <1>1. OrderInv => SentInOrder
    BY DEF OrderInv
  <1> QED  BY <1>1, InitOrder, StepOrder, PTL DEF Spec

-----------------------------------------------------------------------------
(* The parts. *)

localVars == <<part, captureVars, historyVars, storageVars, lifecycleVars, vars, configVars, thumbVars, sizeVars>>

LEMMA Parts ==
  ASSUME [LocalNext]_localVars
  PROVE  /\ [CaptureNext]_captureVars /\ [HistoryNext]_historyVars
         /\ [StorageNext]_storageVars /\ [LifecycleNext]_lifecycleVars
         /\ [Next]_vars /\ [ConfigNext]_configVars
         /\ [ThumbNext]_thumbVars /\ [SizeNext]_sizeVars
         /\ part' = part
  BY DEF LocalNext, localVars

-----------------------------------------------------------------------------
(* The clipboard.                                                          *)
(*                                                                         *)
(* CurrentIsTrue speaks of quiet states only. Between them the fingerprint *)
(* may be one that was published for a write still to come: then it is     *)
(* what a failed write would put back that has to be true. And a result    *)
(* that is still to be committed has to be that of what is there, unless   *)
(* the generation has gone on.                                             *)

Observations == [gen : Nat, previous : Content \cup {Nothing}, restore : BOOLEAN]
Prints == [gen : Nat, current : Content \cup {Nothing}, pending : BOOLEAN]
Captures == [at : {"idle", "reading", "read", "own", "copied"}, item : Content \cup {Nothing}, obs : Observations]
CaptureTask == [item : Content, obs : Observations, rev : Nat]
WriterCell == [at : {"idle", "begun", "registered"}, item : Content \cup {Nothing}, sets : Content \cup {Nothing},
               gen : Nat, previous : Content \cup {Nothing}, pending : BOOLEAN]

\* A write that is under way changes the clipboard at most once more.
Due(cell) == IF cell.at = "idle" THEN 0 ELSE 1

PrintShape == prints \in Prints

WriterShape(cell, gen) ==
    /\ cell \in WriterCell /\ cell.gen =< gen
    /\ cell.at # "idle" => cell.item \in Content /\ cell.sets \in Content

NewsShape ==
    /\ os \in Content \cup {Nothing} /\ news \in Nat /\ changes \in Nat
    /\ news + Due(writing["user"]) + Due(writing["sync"]) =< changes
    /\ DOMAIN writing = Writer /\ \A w \in Writer : WriterShape(writing[w], prints.gen)

CaptureCell ==
    /\ capture \in Captures /\ capture.obs.gen =< prints.gen
    /\ capture.at # "idle" => capture.obs.gen > 0
    /\ capture.at \in {"read", "own", "copied"} => capture.item \in Content

TaskShape == \A t \in tasks \cup staged : t \in CaptureTask /\ t.obs.gen \in 1 .. prints.gen

CaptureShape == PrintShape /\ NewsShape /\ CaptureCell /\ TaskShape /\ history \in [Content -> Nat]

LEMMA CaptureStart == CaptureInit => CaptureShape
  <1> SUFFICES ASSUME CaptureInit PROVE CaptureShape
    OBVIOUS
  <1>1. PrintShape
    BY DEF CaptureInit, PrintShape, Prints
  <1>2. NewsShape
    BY DEF CaptureInit, NewsShape, WriterShape, WriterCell, IdleWriter, Due, Writer
  <1>3. CaptureCell
    BY DEF CaptureInit, CaptureCell, Captures, Observations, IdleCapture, NoObservation
  <1>4. TaskShape /\ history \in [Content -> Nat]
    BY DEF CaptureInit, TaskShape
  <1> QED  BY <1>1, <1>2, <1>3, <1>4 DEF CaptureShape

\* Generations only grow.
LEMMA PrintsStay ==
  ASSUME CaptureShape, [CaptureNext]_captureVars
  PROVE  PrintShape' /\ prints'.gen >= prints.gen
  <1>0. PlainOf \in [Content -> Content]
    BY CaptureAssumption
  <1>a. /\ prints.gen \in Nat /\ prints.gen + 1 \in Nat /\ prints.gen + 1 >= prints.gen
        /\ prints.current \in Content \cup {Nothing}
    BY DEF CaptureShape, PrintShape, Prints
  <1>b. ASSUME prints' = prints \/ \E print \in Content \cup {Nothing} :
                                       prints' = [prints EXCEPT !.current = print, !.pending = FALSE]
        PROVE  PrintShape' /\ prints'.gen >= prints.gen
    <2>1. prints' \in Prints /\ prints'.gen = prints.gen
      BY <1>b DEF CaptureShape, PrintShape, Prints
    <2> QED  BY <1>a, <2>1 DEF PrintShape
  <1> USE DEF CaptureShape, PrintShape
  <1>1. CASE UNCHANGED prints
    BY <1>1, <1>a
  <1>2. ASSUME NEW c \in Content, SyncBegins(c)
        PROVE  PrintShape' /\ prints'.gen >= prints.gen
    BY <1>0, <1>a, <1>2 DEF SyncBegins, PrintOf, Prints
  <1>3. CASE Observe \/ \E to \in BOOLEAN : SetPaused(to)
    BY <1>a, <1>3 DEF Observe, SetPaused, BeginObservation, Prints
  <1>4. CASE SettleOwn
    <2>1. capture.item \in Content /\ PlainOf[capture.item] \in Content
      BY <1>0, <1>4 DEF SettleOwn, CaptureCell
    <2>2. capture.obs.previous \in Content \cup {Nothing}
      BY DEF CaptureCell, Captures, Observations
    <2> QED  BY <1>b, <1>4, <2>1, <2>2 DEF SettleOwn, Restored, Committed, PrintOf
  <1>5. CASE SettleCopy
    <2>1. capture.item \in Content /\ PlainOf[capture.item] \in Content
      BY <1>0, <1>5 DEF SettleCopy, CaptureCell
    <2> QED  BY <1>b, <1>5, <2>1 DEF SettleCopy, Committed, PrintOf
  <1>6. ASSUME NEW t \in staged, Materialize(t)
        PROVE  PrintShape' /\ prints'.gen >= prints.gen
    <2>1. t.item \in Content /\ PlainOf[t.item] \in Content
      BY <1>0, <1>6 DEF TaskShape, CaptureTask
    <2> QED  BY <1>b, <1>6, <2>1 DEF Materialize, Committed, PrintOf
  <1>7. ASSUME NEW w \in Writer, SetFails(w)
        PROVE  PrintShape' /\ prints'.gen >= prints.gen
    <2>1. writing[w] \in WriterCell
      BY DEF NewsShape, WriterShape
    <2>2. \/ prints' = prints
          \/ prints' = [prints EXCEPT !.current = writing[w].previous, !.pending = writing[w].pending]
      BY <1>7 DEF SetFails, RolledBack
    <2>3. prints' \in Prints /\ prints'.gen = prints.gen
      BY <2>1, <2>2 DEF WriterCell, Prints
    <2> QED  BY <1>a, <2>3
  <1> QED
    BY <1>1, <1>2, <1>3, <1>4, <1>5, <1>6, <1>7
    DEF CaptureNext, captureVars, OtherCopies, UserWrites, ReadsNothing, Read, Recognize, Persist, GuardExpires,
        RecentExpires, SyncRegisters, Set

LEMMA NewsStay ==
  ASSUME CaptureShape, [CaptureNext]_captureVars
  PROVE  NewsShape'
  <1>0. PlainOf \in [Content -> Content]
    BY CaptureAssumption
  <1>1. /\ prints.gen \in Nat /\ prints'.gen \in Nat /\ prints'.gen >= prints.gen
        /\ prints.current \in Content \cup {Nothing} /\ prints.pending \in BOOLEAN
    BY PrintsStay DEF PrintShape, Prints, CaptureShape
  <1>2. \A cell : WriterShape(cell, prints.gen) => WriterShape(cell, prints'.gen)
    <2> SUFFICES ASSUME NEW cell, WriterShape(cell, prints.gen)
                 PROVE  WriterShape(cell, prints'.gen)
      OBVIOUS
    <2>1. cell.gen \in Nat /\ cell.gen =< prints.gen
      BY DEF WriterShape, WriterCell
    <2>2. cell.gen =< prints'.gen
      BY <1>1, <2>1
    <2> QED  BY <2>2 DEF WriterShape
  <1>3. \A cell : Due(cell) \in {0, 1}
    BY DEF Due
  <1> USE DEF CaptureShape, NewsShape
  <1>4. ASSUME UNCHANGED writing, os' \in Content \cup {Nothing}, news' \in Nat, changes' \in Nat,
               news' + changes =< news + changes'
        PROVE  NewsShape'
    <2>1. PICK due1 \in Nat, due2 \in Nat : due1 = Due(writing["user"]) /\ due2 = Due(writing["sync"])
      BY <1>3
    <2>2. news + due1 + due2 =< changes /\ news \in Nat /\ changes \in Nat
      BY <2>1
    <2>3. ASSUME NEW n \in Nat, NEW c \in Nat, NEW m \in Nat, NEW d \in Nat, m + c =< n + d, n + due1 + due2 =< c
          PROVE  m + due1 + due2 =< d
      BY <2>3
    <2>4. news' + due1 + due2 =< changes'
      BY <1>4, <2>2, <2>3
    <2> QED  BY <1>2, <1>4, <2>1, <2>4
  <1>5. CASE UNCHANGED <<os, news, changes, writing>>
    BY <1>4, <1>5
  <1>6. ASSUME NEW c \in Content, OtherCopies(c)
        PROVE  NewsShape'
    BY <1>4, <1>6 DEF OtherCopies, Attempt
  <1>7. CASE Observe \/ \E to \in BOOLEAN : SetPaused(to)
    BY <1>4, <1>7 DEF Observe, SetPaused
  <1>8. ASSUME NEW w \in Writer, NEW cell, WriterShape(cell, prints'.gen), writing' = [writing EXCEPT ![w] = cell],
               os' \in Content \cup {Nothing}, news' \in Nat, changes' \in Nat,
               news' + Due(cell) + changes =< news + Due(writing[w]) + changes'
        PROVE  NewsShape'
    <2>1. DOMAIN writing' = Writer /\ \A v \in Writer : WriterShape(writing'[v], prints'.gen)
      BY <1>2, <1>8
    <2>2. \E v \in Writer : /\ writing'[w] = cell /\ writing'[v] = writing[v]
                            /\ Due(writing["user"]) + Due(writing["sync"]) = Due(writing[w]) + Due(writing[v])
                            /\ Due(writing'["user"]) + Due(writing'["sync"]) = Due(cell) + Due(writing[v])
      BY <1>3, <1>8 DEF Writer
    <2>3. news' + Due(writing'["user"]) + Due(writing'["sync"]) =< changes'
      BY <1>3, <1>8, <2>2
    <2> QED  BY <1>8, <2>1, <2>3
  <1>9. ASSUME NEW c \in Content, SyncBegins(c)
        PROVE  NewsShape'
    <2> DEFINE cell == [at |-> "begun", item |-> c, sets |-> c, gen |-> prints.gen + 1,
                        previous |-> prints.current, pending |-> prints.pending]
    <2>1. prints.gen + 1 \in Nat /\ prints'.gen = prints.gen + 1
      BY <1>1, <1>9 DEF SyncBegins
    <2>2. WriterShape(cell, prints'.gen) /\ Due(cell) = 1
      BY <1>1, <2>1 DEF WriterShape, WriterCell, Due
    <2>3. /\ writing' = [writing EXCEPT !["sync"] = cell] /\ Due(writing["sync"]) = 0
          /\ news' = news /\ changes' = changes + 1 /\ os' = os
      BY <1>9 DEF SyncBegins, Attempt, Due
    <2> HIDE DEF cell
    <2>4. news' + Due(cell) + changes =< news + Due(writing["sync"]) + changes' /\ changes' \in Nat
      BY <2>2, <2>3
    <2> QED  BY <1>8, <2>2, <2>3, <2>4 DEF Writer
  <1>10. ASSUME NEW c \in Content, NEW plainly \in BOOLEAN, UserWrites(c, plainly)
        PROVE  NewsShape'
    <2> DEFINE cell == [writing["user"] EXCEPT !.at = "registered", !.item = c,
                                              !.sets = IF plainly THEN PlainOf[c] ELSE c]
    <2>1. WriterShape(cell, prints.gen) /\ Due(cell) = 1
      BY <1>0 DEF WriterShape, WriterCell, Writer, Due
    <2>2. /\ writing' = [writing EXCEPT !["user"] = cell] /\ Due(writing["user"]) = 0
          /\ news' = news /\ changes' = changes + 1 /\ os' = os
      BY <1>10 DEF UserWrites, Attempt, Due
    <2> HIDE DEF cell
    <2>3. news' + Due(cell) + changes =< news + Due(writing["user"]) + changes' /\ changes' \in Nat
      BY <2>1, <2>2
    <2> QED  BY <1>2, <1>8, <2>1, <2>2, <2>3 DEF Writer
  <1>11. CASE SyncRegisters
    <2> DEFINE cell == [writing["sync"] EXCEPT !.at = "registered"]
    <2>1. WriterShape(cell, prints.gen) /\ Due(cell) = 1 /\ Due(writing["sync"]) = 1
      BY <1>11 DEF SyncRegisters, WriterShape, WriterCell, Writer, Due
    <2>2. /\ writing' = [writing EXCEPT !["sync"] = cell]
          /\ news' = news /\ changes' = changes /\ os' = os
      BY <1>11 DEF SyncRegisters
    <2> HIDE DEF cell
    <2> QED  BY <1>2, <1>8, <2>1, <2>2 DEF Writer
  <1>12. ASSUME NEW w \in Writer, Set(w) \/ SetFails(w)
         PROVE  NewsShape'
    <2>1. WriterShape(IdleWriter, prints'.gen) /\ Due(IdleWriter) = 0
      BY <1>1 DEF WriterShape, WriterCell, IdleWriter, Due
    <2>2. /\ writing' = [writing EXCEPT ![w] = IdleWriter] /\ Due(writing[w]) = 1
          /\ news' \in {news, news + 1} /\ os' \in Content \cup {Nothing} /\ changes' = changes
      BY <1>12 DEF Set, SetFails, WriterShape, Due
    <2>3. news \in Nat /\ changes \in Nat
      OBVIOUS
    <2>4. ASSUME NEW n \in Nat, NEW c \in Nat, NEW m \in {n, n + 1}
          PROVE  m + 0 + c =< n + 1 + c /\ m \in Nat
      BY <2>4
    <2>5. news' + Due(IdleWriter) + changes =< news + Due(writing[w]) + changes' /\ news' \in Nat
      BY <2>1, <2>2, <2>3, <2>4
    <2> QED  BY <1>8, <2>1, <2>2, <2>3, <2>5
  <1> QED
    BY <1>5, <1>6, <1>7, <1>9, <1>10, <1>11, <1>12
    DEF CaptureNext, captureVars, ReadsNothing, Read, Recognize, SettleOwn, SettleCopy, Persist, Materialize,
        GuardExpires, RecentExpires

LEMMA TasksStay ==
  ASSUME CaptureShape, [CaptureNext]_captureVars
  PROVE  CaptureCell' /\ TaskShape' /\ (history \in [Content -> Nat])'
  <1>0. PlainOf \in [Content -> Content]
    BY CaptureAssumption
  <1>1. /\ prints.gen \in Nat /\ prints'.gen \in Nat /\ prints'.gen >= prints.gen
        /\ prints.current \in Content \cup {Nothing} /\ prints.pending \in BOOLEAN
    BY PrintsStay DEF PrintShape, Prints, CaptureShape
  <1>2. /\ os \in Content \cup {Nothing} /\ CaptureCell /\ TaskShape /\ history \in [Content -> Nat]
        /\ capture.obs.gen \in Nat
    BY DEF CaptureShape, NewsShape, CaptureCell, Captures, Observations
  <1>3. ASSUME capture' \in Captures, capture'.obs = capture.obs, capture.at # "idle",
               capture'.at \in {"read", "own", "copied"} => capture'.item \in Content
        PROVE  CaptureCell'
    BY <1>1, <1>2, <1>3 DEF CaptureCell
  <1>4. IdleCapture \in Captures /\ IdleCapture.obs.gen = 0 /\ IdleCapture.at = "idle"
    BY DEF IdleCapture, NoObservation, Captures, Observations
  <1>5. capture' = IdleCapture => CaptureCell'
    BY <1>1, <1>4 DEF CaptureCell
  <1>6. capture' = capture => CaptureCell'
    BY <1>1, <1>2 DEF CaptureCell
  <1>7. CaptureCell'
    <2>1. CASE Observe
      <3>1. CASE capture' = capture
        BY <1>6, <3>1
      <3>2. CASE capture' = [at |-> "reading", item |-> Nothing, obs |-> Observation]
        <4>1. prints.gen + 1 \in Nat /\ prints.gen + 1 > 0 /\ prints'.gen = prints.gen + 1
          BY <1>1, <2>1 DEF Observe, BeginObservation, CaptureShape, PrintShape, Prints
        <4>2. Observation \in Observations /\ Observation.gen = prints.gen + 1
          BY <1>1, <4>1 DEF Observation, Observations
        <4> QED  BY <3>2, <4>1, <4>2 DEF CaptureCell, Captures
      <3> QED  BY <2>1, <3>1, <3>2 DEF Observe
    <2>2. CASE ReadsNothing \/ SettleOwn \/ SettleCopy
      BY <1>5, <2>2 DEF ReadsNothing, SettleOwn, SettleCopy
    <2>3. CASE Read
      <3>1. capture' = [capture EXCEPT !.at = "read", !.item = ReadAs(os)] /\ capture.at = "reading" /\ ReadAs(os) \in Content
        BY <1>0, <1>2, <2>3 DEF Read, ReadAs
      <3>2. capture' \in Captures /\ capture'.obs = capture.obs /\ capture'.item \in Content
        BY <1>2, <3>1 DEF CaptureCell, Captures
      <3> QED  BY <1>3, <3>1, <3>2
    <2>4. CASE Recognize
      <3>1. capture' \in Captures /\ capture'.obs = capture.obs /\ capture'.item \in Content /\ capture.at = "read"
        BY <1>2, <2>4 DEF Recognize, CaptureCell, Captures
      <3> QED  BY <1>3, <3>1
    <2>5. CASE UNCHANGED capture
      BY <1>6, <2>5
    <2> QED
      BY <2>1, <2>2, <2>3, <2>4, <2>5
      DEF CaptureNext, captureVars, OtherCopies, SyncBegins, UserWrites, Persist, Materialize, GuardExpires,
          RecentExpires, SetPaused, SyncRegisters, Set, SetFails
  <1>8. \A t : t \in CaptureTask /\ t.obs.gen \in 1 .. prints.gen => t.obs.gen \in 1 .. prints'.gen
    <2> SUFFICES ASSUME NEW t, t \in CaptureTask, t.obs.gen \in 1 .. prints.gen
                 PROVE  t.obs.gen \in 1 .. prints'.gen
      OBVIOUS
    <2>1. t.obs.gen \in Nat /\ t.obs.gen >= 1 /\ t.obs.gen =< prints.gen
      BY <1>1 DEF CaptureTask, Observations
    <2> QED  BY <1>1, <2>1
  <1>9. tasks' \cup staged' \subseteq tasks \cup staged => TaskShape'
    BY <1>2, <1>8 DEF TaskShape
  <1>10. TaskShape' /\ history' \in [Content -> Nat]
    <2>1. CASE SettleCopy
      <3> DEFINE t == [item |-> capture.item, obs |-> capture.obs, rev |-> capture.obs.gen]
      <3>1. capture.item \in Content /\ capture.obs \in Observations /\ capture.obs.gen \in 1 .. prints.gen
        BY <1>1, <1>2, <2>1 DEF SettleCopy, CaptureCell, Captures
      <3>2. t \in CaptureTask /\ t.obs.gen \in 1 .. prints.gen
        BY <1>2, <3>1 DEF CaptureTask
      <3>3. tasks' \cup staged' \subseteq tasks \cup staged \cup {t} /\ history' = history
        BY <2>1 DEF SettleCopy
      <3> HIDE DEF t
      <3> QED  BY <1>2, <1>8, <3>2, <3>3 DEF TaskShape
    <2>2. ASSUME NEW t \in tasks, Persist(t)
          PROVE  TaskShape' /\ history' \in [Content -> Nat]
      <3>1. tasks' \cup staged' \subseteq tasks \cup staged
        BY <2>2 DEF Persist
      <3>2. t.item \in Content /\ t.rev \in Nat
        BY <1>2 DEF TaskShape, CaptureTask
      <3>3. history' = [history EXCEPT ![t.item] = t.rev]
        BY <2>2 DEF Persist
      <3> QED  BY <1>2, <1>9, <3>1, <3>2, <3>3
    <2>3. ASSUME NEW t \in staged, Materialize(t)
          PROVE  TaskShape' /\ history' \in [Content -> Nat]
      BY <1>2, <1>9, <2>3 DEF Materialize
    <2>4. CASE UNCHANGED <<tasks, staged, history>>
      BY <1>2, <1>9, <2>4
    <2> QED
      BY <2>1, <2>2, <2>3, <2>4
      DEF CaptureNext, captureVars, OtherCopies, SyncBegins, UserWrites, Observe, ReadsNothing, Read, Recognize,
          SettleOwn, GuardExpires, RecentExpires, SetPaused, SyncRegisters, Set, SetFails
  <1> QED  BY <1>7, <1>10

LEMMA CaptureStays ==
  ASSUME CaptureShape, [CaptureNext]_captureVars
  PROVE  CaptureShape'
  BY PrintsStay, NewsStay, TasksStay DEF CaptureShape

\* Of some natural numbers one is the least.
LEMMA LeastOf ==
  ASSUME NEW P \in SUBSET Nat, P # {}
  PROVE  \E n \in P : \A m \in P : n =< m
  <1>1. PICK n \in P : \A m \in P : ~(<<m, n>> \in OpToRel(<, Nat))
    BY NatLessThanWellFounded, WFMin, Zenon
  <1>2. \A m \in P : ~(m < n)
    BY <1>1, Zenon DEF OpToRel
  <1>3. n \in Nat /\ \A m \in P : m \in Nat
    OBVIOUS
  <1> QED  BY <1>2, <1>3

\* What is left of a sequence is one of the same elements, and no longer.
LEMMA WithoutKeeps ==
  ASSUME NEW T, NEW s \in Seq(T), NEW S
  PROVE  Without(s, S) \in Seq(T) /\ Len(Without(s, S)) =< Len(s)
  <1> DEFINE Remaining == {i \in 1 .. Len(s) : s[i] \notin S}
             Upto(i) == {j \in Remaining : j =< i}
             Nth(n) == CHOOSE i \in Remaining : Cardinality(Upto(i)) = n
  <1>1. /\ IsFiniteSet(Remaining) /\ Cardinality(Remaining) \in Nat /\ Cardinality(Remaining) =< Len(s)
        /\ Len(s) \in Nat
    <2>1. Len(s) \in Nat
      OBVIOUS
    <2>3. IsFiniteSet(1 .. Len(s)) /\ Cardinality(1 .. Len(s)) = Len(s)
      BY <2>1, FS_Interval
    <2>2. Remaining \subseteq 1 .. Len(s)
      OBVIOUS
    <2> HIDE DEF Remaining
    <2> QED  BY <2>1, <2>2, <2>3, FS_Subset, FS_CardinalityType
  <1>2. \A i : IsFiniteSet(Upto(i)) /\ Cardinality(Upto(i)) \in Nat
    <2>1. \A i : Upto(i) \subseteq Remaining
      OBVIOUS
    <2> HIDE DEF Upto, Remaining
    <2> QED  BY <1>1, <2>1, FS_Subset, FS_CardinalityType
  <1>3. ASSUME NEW n \in 1 .. Cardinality(Remaining) PROVE \E i \in Remaining : Cardinality(Upto(i)) = n
    <2> DEFINE Enough == {i \in Nat : Cardinality(Upto(i)) >= n}
    <2>1. Upto(Len(s)) = Remaining
      BY <1>1
    <2>2. Len(s) \in Enough
      <3> HIDE DEF Upto, Remaining
      <3> QED  BY <1>1, <2>1
    <2>3. PICK i \in Enough : \A m \in Enough : i =< m
      <3>1. Enough # {} /\ Enough \in SUBSET Nat
        BY <2>2
      <3> HIDE DEF Enough
      <3> QED  BY <3>1, LeastOf
    <2>4. i # 0
      <3>1. Upto(0) = {}
        BY <1>1
      <3>2. Cardinality(Upto(0)) = 0
        BY <3>1, FS_EmptySet
      <3> HIDE DEF Upto, Remaining
      <3> QED  BY <2>3, <3>2, <1>1
    <2>5. i \in Nat /\ i - 1 \in Nat /\ Cardinality(Upto(i)) >= n /\ ~(Cardinality(Upto(i - 1)) >= n)
      <3> HIDE DEF Upto, Remaining
      <3>1. i \in Nat /\ i - 1 \in Nat /\ Cardinality(Upto(i)) >= n
        BY <2>3, <2>4
      <3>2. i - 1 \notin Enough
        BY <2>3, <3>1
      <3> QED  BY <3>1, <3>2
    <2>6. CASE i \notin Remaining
      <3>1. Upto(i) = Upto(i - 1)
        BY <2>5, <2>6, <1>1
      <3> QED  BY <2>5, <3>1
    <2>7. CASE i \in Remaining
      <3>1. Upto(i) = Upto(i - 1) \cup {i} /\ i \notin Upto(i - 1)
        BY <2>5, <2>7, <1>1
      <3>2. Cardinality(Upto(i)) = Cardinality(Upto(i - 1)) + 1
        <4> HIDE DEF Upto, Remaining
        <4> QED  BY <3>1, <1>2, FS_AddElement
      <3>3. Cardinality(Upto(i)) \in Nat /\ Cardinality(Upto(i - 1)) \in Nat /\ n \in Nat
        <4> HIDE DEF Upto, Remaining
        <4> QED  BY <1>1, <1>2
      <3> HIDE DEF Upto, Remaining
      <3> QED  BY <2>5, <2>7, <3>2, <3>3
    <2> HIDE DEF Upto, Remaining
    <2> QED  BY <2>6, <2>7
  <1>4. ASSUME NEW n \in 1 .. Cardinality(Remaining) PROVE s[Nth(n)] \in T
    <2>1. Nth(n) \in Remaining
      <3>1. PICK i \in Remaining : Cardinality(Upto(i)) = n
        BY <1>3
      <3> HIDE DEF Upto, Remaining
      <3> QED  BY <3>1
    <2>2. Nth(n) \in 1 .. Len(s)
      <3> HIDE DEF Nth
      <3> QED  BY <2>1
    <2> HIDE DEF Nth
    <2> QED  BY <2>2
  <1>5. Without(s, S) = [n \in 1 .. Cardinality(Remaining) |-> s[Nth(n)]]
    BY DEF Without
  <1> HIDE DEF Nth, Remaining
  <1> QED  BY <1>1, <1>4, <1>5

LEMMA RemoveFirstKeeps ==
  ASSUME NEW T, NEW s \in Seq(T), NEW e, Contains(s, e)
  PROVE  RemoveFirst(s, e) \in Seq(T)
  <1> DEFINE places == {i \in 1 .. Len(s) : s[i] = e}
  <1>1. places \in SUBSET Nat /\ places # {}
    BY DEF Contains
  <1>2. PICK least \in places : \A m \in places : least =< m
    BY <1>1, LeastOf
  <1>3. Min(places) \in places
    <2> HIDE DEF places
    <2> QED  BY <1>2 DEF Min
  <1>4. RemoveFirst(s, e) = RemoveAt(s, Min(places))
    BY <1>1 DEF RemoveFirst, SelectInSeq, Contains
  <1>5. Min(places) \in 1 .. Len(s)
    BY <1>3
  <1> HIDE DEF places
  <1>6. \A i \in 1 .. Len(s) : RemoveAt(s, i) \in Seq(T)
    BY DEF RemoveAt
  <1> QED  BY <1>4, <1>5, <1>6

\* The guard and the recent images.
Recents == [print : Content, gen : Nat]

ListShape == guard \in Seq(Content) /\ recent \in Seq(Recents) /\ Len(recent) =< RecentLimit

LEMMA RememberKeeps ==
  ASSUME ListShape, NEW print \in Content, NEW gen \in Nat
  PROVE  Remember(print, gen) \in Seq(Recents) /\ Len(Remember(print, gen)) =< RecentLimit
  <1> DEFINE kept == IF Len(recent) = RecentLimit THEN Tail(recent) ELSE recent
  <1>1. [print |-> print, gen |-> gen] \in Recents
    BY DEF Recents
  <1>2. RecentLimit \in Nat \ {0} /\ recent \in Seq(Recents) /\ Len(recent) \in Nat
        /\ Len(recent) =< RecentLimit
    BY CaptureAssumption DEF ListShape
  <1>3. kept \in Seq(Recents) /\ Len(kept) + 1 =< RecentLimit
    <2>1. CASE Len(recent) = RecentLimit
      <3>1. recent # <<>>
        BY <1>2, <2>1
      <3> QED  BY <1>2, <2>1, <3>1
    <2>2. CASE Len(recent) # RecentLimit
      BY <1>2, <2>2
    <2> QED  BY <2>1, <2>2
  <1>4. Remember(print, gen) = Append(kept, [print |-> print, gen |-> gen])
    BY DEF Remember
  <1> HIDE DEF kept
  <1> QED  BY <1>1, <1>2, <1>3, <1>4

LEMMA ListsStay ==
  ASSUME CaptureShape, ListShape, [CaptureNext]_captureVars
  PROVE  ListShape'
  <1>0. /\ PlainOf \in [Content -> Content] /\ guard \in Seq(Content) /\ recent \in Seq(Recents)
        /\ Len(recent) =< RecentLimit /\ prints.gen \in Nat
    BY CaptureAssumption DEF ListShape, CaptureShape, PrintShape, Prints
  <1>1. \A c \in Content, plainly \in BOOLEAN : Hashes(c, plainly) \in Seq(Content)
    BY <1>0 DEF Hashes
  <1>2. \A c \in Content, plainly \in BOOLEAN : guard \o Hashes(c, plainly) \in Seq(Content)
    <2> TAKE c \in Content, plainly \in BOOLEAN
    <2>1. Hashes(c, plainly) \in Seq(Content)
      BY <1>1
    <2> QED  BY <1>0, <2>1
  <1>3. \A w \in Writer : writing[w] \in WriterCell /\ (writing[w].at # "idle" => writing[w].item \in Content)
    BY DEF CaptureShape, NewsShape, WriterShape
  <1>4. CASE UNCHANGED <<guard, recent>>
    BY <1>0, <1>4 DEF ListShape
  <1>5. CASE Recognize
    <2>1. Contains(guard, capture.item) => RemoveFirst(guard, capture.item) \in Seq(Content)
      BY <1>0, RemoveFirstKeeps
    <2>2. guard' \in Seq(Content) /\ recent' = recent
      BY <1>0, <1>5, <2>1 DEF Recognize
    <2> QED  BY <1>0, <2>2 DEF ListShape
  <1>6. ASSUME NEW t \in staged, Materialize(t) PROVE ListShape'
    <2>1. t.item \in Content
      BY DEF CaptureShape, TaskShape, CaptureTask
    <2>2. PrintOf(t.item) \in Content /\ 0 \in Nat
      BY <1>0, <2>1 DEF PrintOf
    <2>3. recent' = recent \/ recent' = Remember(PrintOf(t.item), 0)
      BY <1>6 DEF Materialize
    <2>4. guard' = guard
      BY <1>6 DEF Materialize
    <2> QED  BY <1>0, <2>2, <2>3, <2>4, RememberKeeps DEF ListShape
  <1>7. CASE GuardExpires
    BY <1>0, <1>7 DEF GuardExpires, ListShape
  <1>8. CASE RecentExpires
    <2>1. recent # <<>> /\ recent' = Tail(recent) /\ guard' = guard
      BY <1>8 DEF RecentExpires
    <2>2. Tail(recent) \in Seq(Recents) /\ Len(Tail(recent)) =< Len(recent) /\ Len(Tail(recent)) \in Nat /\ Len(recent) \in Nat
      BY <1>0, <2>1
    <2> QED  BY <1>0, <2>1, <2>2, CaptureAssumption DEF ListShape
  <1>9. ASSUME NEW c \in Content, NEW plainly \in BOOLEAN, UserWrites(c, plainly) PROVE ListShape'
    BY <1>0, <1>2, <1>9 DEF UserWrites, ListShape
  <1>10. ASSUME NEW c \in Content, SyncBegins(c) PROVE ListShape'
    <2>1. PrintOf(c) \in Content /\ prints.gen + 1 \in Nat
      BY <1>0 DEF PrintOf
    <2>2. guard' = guard /\ (recent' = recent \/ recent' = Remember(PrintOf(c), prints.gen + 1))
      BY <1>10 DEF SyncBegins
    <2> QED  BY <1>0, <2>1, <2>2, RememberKeeps DEF ListShape
  <1>11. CASE SyncRegisters
    <2>1. writing["sync"].item \in Content
      BY <1>3, <1>11 DEF SyncRegisters, Writer
    <2> QED  BY <1>0, <1>2, <1>11, <2>1 DEF SyncRegisters, ListShape
  <1>12. ASSUME NEW w \in Writer, SetFails(w) PROVE ListShape'
    <2>1. \A S : Without(guard, S) \in Seq(Content)
      BY <1>0, WithoutKeeps
    <2>2. \A S : Without(recent, S) \in Seq(Recents) /\ Len(Without(recent, S)) =< RecentLimit
      <3> TAKE S
      <3>1. Without(recent, S) \in Seq(Recents) /\ Len(Without(recent, S)) =< Len(recent)
        BY <1>0, WithoutKeeps
      <3> QED  BY <1>0, <3>1, CaptureAssumption
    <2>3. guard' = guard \/ \E S : guard' = Without(guard, S)
      BY <1>12 DEF SetFails
    <2>4. recent' = recent \/ \E S : recent' = Without(recent, S)
      BY <1>12 DEF SetFails
    <2> QED  BY <1>0, <2>1, <2>2, <2>3, <2>4 DEF ListShape
  <1> QED
    BY <1>4, <1>5, <1>6, <1>7, <1>8, <1>9, <1>10, <1>11, <1>12
    DEF CaptureNext, captureVars, OtherCopies, Observe, ReadsNothing, Read, SettleOwn, SettleCopy, Persist,
        SetPaused, Set

LEMMA CaptureServes == CaptureShape /\ ListShape => CaptureTypeOK
  <1> SUFFICES ASSUME CaptureShape, ListShape PROVE CaptureTypeOK
    OBVIOUS
  <1>1. os \in Content \cup {Nothing} /\ news \in 0 .. changes
    BY DEF CaptureShape, NewsShape, Due
  <1>2. Range(guard) \subseteq Content /\ Len(recent) =< RecentLimit
    BY DEF ListShape, Range
  <1>3. prints.current \in Content \cup {Nothing} /\ prints.pending \in BOOLEAN
    BY DEF CaptureShape, PrintShape, Prints
  <1>4. capture.at \in {"idle", "reading", "read", "own", "copied"} /\ capture.obs.gen =< prints.gen
    BY DEF CaptureShape, CaptureCell, Captures
  <1>5. \A t \in tasks \cup staged : t.item \in Content /\ t.obs.gen \in 1 .. prints.gen
    BY DEF CaptureShape, TaskShape, CaptureTask
  <1>6. \A w \in Writer : writing[w].at \in {"idle", "begun", "registered"} /\ writing[w].gen =< prints.gen
    BY DEF CaptureShape, NewsShape, WriterShape, WriterCell
  <1> QED  BY <1>1, <1>2, <1>3, <1>4, <1>5, <1>6 DEF CaptureTypeOK

\* What a finished observation found counts as long as the generation stands: it is still there.
Observes(what, obs) == obs.gen = prints.gen => os \in Content /\ what = ReadAs(os)

TruePrint(print) == print = Nothing \/ os \in Files \/ print = PrintOf(os)

\* The fingerprint is that of a write of synchronization that is under way.
SyncPublished == writing["sync"].at # "idle" /\ writing["sync"].gen = prints.gen

PrintTrue == TruePrint(IF SyncPublished THEN writing["sync"].previous ELSE prints.current)

ResultsTrue ==
    /\ capture.at \in {"read", "own", "copied"} => Observes(capture.item, capture.obs)
    /\ \A t \in tasks \cup staged : Observes(t.item, t.obs)

FingerprintInv == CaptureShape /\ (news = 0 => PrintTrue /\ ResultsTrue)

LEMMA ObservedPrint ==
  ASSUME CaptureShape, NEW what, os \in Content, what = ReadAs(os)
  PROVE  PrintOf(what) = PrintOf(os) /\ (what \in Files => os \in Files)
  BY CaptureAssumption DEF ReadAs, PrintOf

\* A new generation: nothing that was observed before counts.
LEMMA NewGeneration ==
  ASSUME CaptureShape, prints'.gen = prints.gen + 1,
         UNCHANGED <<tasks, staged>>, capture' = capture \/ capture'.at = "reading"
  PROVE  ResultsTrue'
  <1>1. prints.gen \in Nat
    BY DEF CaptureShape, PrintShape, Prints
  <1>2. capture.obs.gen \in Nat /\ capture.obs.gen =< prints.gen
    BY DEF CaptureShape, CaptureCell, Captures, Observations
  <1>3. \A t \in tasks \cup staged : t.obs.gen \in 1 .. prints.gen
    BY DEF CaptureShape, TaskShape
  <1>4. capture.obs.gen # prints'.gen
    BY <1>1, <1>2
  <1>5. \A t \in tasks \cup staged : t.obs.gen # prints'.gen
    BY <1>1, <1>3
  <1> QED  BY <1>4, <1>5 DEF ResultsTrue, Observes

\* A step that leaves the generation, the content and the writers alone, and commits what is true.
LEMMA SameGeneration ==
  ASSUME PrintTrue, prints'.gen = prints.gen, UNCHANGED <<os, writing>>,
         prints'.current = prints.current \/ TruePrint(prints'.current)
  PROVE  PrintTrue'
  BY DEF PrintTrue, TruePrint, SyncPublished

LEMMA CommittedTrue ==
  ASSUME CaptureShape, NEW what, NEW obs, Observes(what, obs), prints' = Committed(obs, PrintOf(what))
  PROVE  prints'.gen = prints.gen /\ (prints'.current = prints.current \/ TruePrint(prints'.current))
  <1>1. prints \in Prints
    BY DEF CaptureShape, PrintShape
  <1>2. CASE prints.gen = obs.gen
    <2>1. prints'.gen = prints.gen /\ prints'.current = PrintOf(what)
      BY <1>1, <1>2 DEF Committed, Prints
    <2>2. PrintOf(what) = PrintOf(os)
      BY <1>2, ObservedPrint DEF Observes
    <2> QED  BY <2>1, <2>2 DEF TruePrint
  <1>3. CASE prints.gen # obs.gen
    BY <1>3 DEF Committed
  <1> QED  BY <1>2, <1>3

LEMMA FingerprintStays ==
  ASSUME FingerprintInv, [CaptureNext]_captureVars
  PROVE  FingerprintInv'
  <1>1. CaptureShape /\ CaptureShape'
    BY CaptureStays DEF FingerprintInv
  <1>2. news \in Nat /\ news' \in Nat
    BY <1>1 DEF CaptureShape, NewsShape
  <1>3. prints.gen \in Nat /\ prints \in Prints
    BY <1>1 DEF CaptureShape, PrintShape, Prints
  <1>4. SUFFICES ASSUME news' = 0 PROVE PrintTrue' /\ ResultsTrue'
    BY <1>1 DEF FingerprintInv
  <1>5. news = 0 => PrintTrue /\ ResultsTrue
    BY DEF FingerprintInv
  <1>6. CASE (\E c \in Content : OtherCopies(c)) \/ (\E w \in Writer : Set(w))
    BY <1>2, <1>4, <1>6 DEF OtherCopies, Set
  <1>7. CASE Observe \/ \E to \in BOOLEAN : SetPaused(to)
    <2>1. /\ prints' = BeginObservation /\ UNCHANGED <<tasks, staged, writing>>
          /\ capture' = capture \/ capture'.at = "reading"
      BY <1>7 DEF Observe, SetPaused
    <2>2. prints'.gen = prints.gen + 1 /\ prints'.current = Nothing
      BY <1>3, <2>1 DEF BeginObservation, Prints
    <2>3. writing["sync"].gen \in Nat /\ writing["sync"].gen =< prints.gen
      BY <1>1 DEF CaptureShape, NewsShape, WriterShape, WriterCell, Writer
    <2>4. ~SyncPublished'
      BY <1>3, <2>1, <2>2, <2>3 DEF SyncPublished
    <2> QED  BY <1>1, <2>1, <2>2, <2>4, NewGeneration DEF PrintTrue, TruePrint
  <1>8. ASSUME NEW c \in Content, SyncBegins(c)
        PROVE  PrintTrue' /\ ResultsTrue'
    <2>1. /\ UNCHANGED <<os, news, tasks, staged, capture>> /\ prints'.gen = prints.gen + 1
          /\ writing["sync"].at = "idle" /\ DOMAIN writing = Writer
          /\ writing' = [writing EXCEPT !["sync"] =
                           [at |-> "begun", item |-> c, sets |-> c, gen |-> prints.gen + 1,
                            previous |-> prints.current, pending |-> prints.pending]]
      BY <1>1, <1>8 DEF SyncBegins, CaptureShape, NewsShape
    <2>2. TruePrint(prints.current)
      BY <1>4, <1>5, <2>1 DEF PrintTrue, SyncPublished
    <2>3. SyncPublished' /\ writing'["sync"].previous = prints.current
      BY <2>1 DEF SyncPublished, Writer
    <2> QED  BY <1>1, <2>1, <2>2, <2>3, NewGeneration DEF PrintTrue, TruePrint
  <1>9. CASE Read \/ Recognize \/ ReadsNothing
    <2>1. UNCHANGED <<os, news, prints, writing, tasks, staged>>
      BY <1>9 DEF Read, Recognize, ReadsNothing
    <2>2. PrintTrue'
      BY <1>4, <1>5, <2>1, SameGeneration
    <2>3. capture'.at \in {"read", "own", "copied"} => Observes(capture'.item, capture'.obs)
      <3>1. capture \in Captures /\ os \in Content \cup {Nothing}
        BY <1>1 DEF CaptureShape, CaptureCell, NewsShape
      <3>2. CASE Read
        <4>1. capture'.item = ReadAs(os) /\ os \in Content
          BY <3>1, <3>2 DEF Read, Captures
        <4> QED  BY <4>1 DEF Observes
      <3>3. CASE Recognize
        <4>1. capture'.item = capture.item /\ capture'.obs = capture.obs /\ capture.at = "read"
          BY <3>1, <3>3 DEF Recognize, Captures
        <4> QED  BY <1>4, <1>5, <2>1, <4>1 DEF ResultsTrue
      <3>4. CASE ReadsNothing
        BY <3>4 DEF ReadsNothing, IdleCapture
      <3> QED  BY <1>9, <3>2, <3>3, <3>4
    <2> QED  BY <1>4, <1>5, <2>1, <2>2, <2>3 DEF ResultsTrue, Observes
  <1>10. CASE SettleOwn \/ SettleCopy
    <2>1. /\ UNCHANGED <<os, news, writing>> /\ capture' = IdleCapture /\ capture.at \in {"own", "copied"}
          /\ tasks' \cup staged' \subseteq tasks \cup staged
                \cup {[item |-> capture.item, obs |-> capture.obs, rev |-> capture.obs.gen]}
      BY <1>10 DEF SettleOwn, SettleCopy
    <2>2. PrintTrue /\ ResultsTrue /\ Observes(capture.item, capture.obs)
      BY <1>4, <1>5, <2>1 DEF ResultsTrue
    <2>3. prints'.gen = prints.gen /\ (prints'.current = prints.current \/ TruePrint(prints'.current))
      <3>1. CASE prints' = Committed(capture.obs, PrintOf(capture.item))
        BY <1>1, <2>2, <3>1, CommittedTrue
      <3>2. CASE prints' = prints
        BY <3>2
      <3>3. CASE prints' = Restored(capture.obs) /\ capture.item \in Files
        <4>1. prints'.gen = prints.gen
          BY <1>3, <3>3 DEF Restored, Prints
        <4>2. prints.gen = capture.obs.gen => os \in Files
          BY <1>1, <2>2, <3>3, ObservedPrint DEF Observes
        <4> QED  BY <3>3, <4>1, <4>2 DEF Restored, TruePrint
      <3> QED  BY <1>10, <3>1, <3>2, <3>3 DEF SettleOwn, SettleCopy
    <2>4. ResultsTrue'
      BY <2>1, <2>2, <2>3 DEF ResultsTrue, Observes, IdleCapture
    <2> QED  BY <2>1, <2>2, <2>3, <2>4, SameGeneration
  <1>11. CASE (\E t \in tasks : Persist(t)) \/ (\E t \in staged : Materialize(t))
    <2>1. UNCHANGED <<os, news, writing, capture>> /\ tasks' \cup staged' \subseteq tasks \cup staged
      BY <1>11 DEF Persist, Materialize
    <2>2. PrintTrue /\ ResultsTrue
      BY <1>4, <1>5, <2>1
    <2>3. prints'.gen = prints.gen /\ (prints'.current = prints.current \/ TruePrint(prints'.current))
      <3>1. ASSUME NEW t \in staged, prints' = Committed(t.obs, PrintOf(t.item))
            PROVE  prints'.gen = prints.gen /\ (prints'.current = prints.current \/ TruePrint(prints'.current))
        <4>1. Observes(t.item, t.obs)
          BY <2>2 DEF ResultsTrue
        <4> QED  BY <1>1, <3>1, <4>1, CommittedTrue
      <3>2. CASE prints' = prints
        BY <3>2
      <3> QED  BY <1>11, <3>1, <3>2 DEF Persist, Materialize
    <2>4. ResultsTrue'
      BY <2>1, <2>2, <2>3 DEF ResultsTrue, Observes
    <2> QED  BY <2>1, <2>2, <2>3, <2>4, SameGeneration
  <1>12. ASSUME UNCHANGED <<os, news, prints, tasks, staged, capture>>,
                writing'["sync"].at = "idle" <=> writing["sync"].at = "idle",
                writing'["sync"].gen = writing["sync"].gen, writing'["sync"].previous = writing["sync"].previous
         PROVE  PrintTrue' /\ ResultsTrue'
    BY <1>4, <1>5, <1>12 DEF PrintTrue, TruePrint, SyncPublished, ResultsTrue, Observes
  <1>13. CASE GuardExpires \/ RecentExpires \/ UNCHANGED captureVars
    BY <1>12, <1>13 DEF GuardExpires, RecentExpires, captureVars
  <1>14. DOMAIN writing = Writer /\ \A w \in Writer : writing[w] \in WriterCell
    BY <1>1 DEF CaptureShape, NewsShape, WriterShape
  <1>15. CASE SyncRegisters
    <2>1. /\ UNCHANGED <<os, news, prints, tasks, staged, capture>> /\ writing["sync"].at = "begun"
          /\ writing' = [writing EXCEPT !["sync"].at = "registered"]
      BY <1>15 DEF SyncRegisters
    <2>2. writing'["sync"] = [writing["sync"] EXCEPT !.at = "registered"]
      BY <1>14, <2>1 DEF Writer
    <2>3. /\ writing'["sync"].at = "registered" /\ writing'["sync"].gen = writing["sync"].gen
          /\ writing'["sync"].previous = writing["sync"].previous
      BY <1>14, <2>2 DEF WriterCell, Writer
    <2> QED  BY <1>12, <2>1, <2>3
  <1>17. ASSUME NEW c \in Content, NEW plainly \in BOOLEAN, UserWrites(c, plainly)
         PROVE  PrintTrue' /\ ResultsTrue'
    <2>1. UNCHANGED <<os, news, prints, tasks, staged, capture>> /\ writing'["sync"] = writing["sync"]
      BY <1>14, <1>17 DEF UserWrites, Writer
    <2> QED  BY <1>12, <2>1
  <1>16. ASSUME NEW w \in Writer, SetFails(w)
         PROVE  PrintTrue' /\ ResultsTrue'
    <2>1. UNCHANGED <<tasks, staged, capture>> /\ writing' = [writing EXCEPT ![w] = IdleWriter]
      BY <1>16 DEF SetFails
    <2>2. UNCHANGED <<os, news>>
      BY <1>2, <1>4, <1>16 DEF SetFails
    <2>3. CASE w = "sync"
      <3>1. prints' = RolledBack("sync") /\ writing["sync"].at # "idle" /\ ~SyncPublished'
        BY <1>14, <1>16, <2>1, <2>3 DEF SetFails, SyncPublished, IdleWriter
      <3>2. prints'.gen = prints.gen
        BY <1>3, <3>1 DEF RolledBack, Prints
      <3>3. prints'.current = IF SyncPublished THEN writing["sync"].previous ELSE prints.current
        BY <1>3, <3>1 DEF RolledBack, Prints, SyncPublished
      <3> QED  BY <1>4, <1>5, <2>1, <2>2, <3>1, <3>2, <3>3 DEF PrintTrue, TruePrint, ResultsTrue, Observes
    <2>4. CASE w = "user"
      BY <1>12, <1>14, <1>16, <2>1, <2>2, <2>4 DEF SetFails, Writer
    <2> QED  BY <2>3, <2>4 DEF Writer
  <1> QED
    BY <1>6, <1>7, <1>8, <1>9, <1>10, <1>11, <1>13, <1>15, <1>16, <1>17 DEF CaptureNext

LEMMA FingerprintStarts == CaptureInit => FingerprintInv
  BY CaptureStart DEF FingerprintInv, CaptureInit, PrintTrue, TruePrint, SyncPublished, ResultsTrue, IdleWriter,
     IdleCapture, Writer

\* Whenever the clipboard is quiet, the fingerprint that synchronization goes by is that of what is
\* there (begin_observation, commit_observation, begin_synced_write and rollback in
\* clipboard/fingerprint.rs, with the watcher and the writers in any order).
THEOREM FingerprintIsTrue == LocalSpec => []CurrentIsTrue
  <1>1. FingerprintInv => CurrentIsTrue
    BY DEF FingerprintInv, CurrentIsTrue, Quiet, PrintTrue, TruePrint, SyncPublished, Writer
  <1>2. LocalInit => FingerprintInv
    BY FingerprintStarts DEF LocalInit
  <1>3. FingerprintInv /\ [LocalNext]_localVars => FingerprintInv'
    BY Parts, FingerprintStays
  <1> QED  BY <1>1, <1>2, <1>3, PTL DEF LocalSpec, localVars

-----------------------------------------------------------------------------
(* The history.                                                            *)
(*                                                                         *)
(* A file is without its record only while its writer holds the files      *)
(* lock, and then it is there; what a batch of the limit goes by stays so  *)
(* until the batch, because with the lock taken nothing becomes smaller.   *)

HistoryShape ==
    /\ favorites \cup pins \cup shared \cup dangling \subseteq rows /\ rows \subseteq Record
    /\ disk \cup doomed \subseteq Payload /\ free \in Nat /\ limit \in Limits /\ boot \in BOOLEAN
    /\ writer \in [kind : {"none", "capture", "receive", "share"}, row : Record \cup {0}]
    /\ writer # NoWriter <=> holder = "writer"
    /\ writer # NoWriter => writer.row \in Record
    /\ cleanup \in [at : {"idle", "retaining", "reclaiming", "measuring", "weighing", "evicting", "evicted"},
                    trigger : Trigger, limit : Nat, quota : BOOLEAN]
    /\ holder = "cleanup" <=> cleanup.at # "idle"

HistoryInv ==
    /\ HistoryShape
    /\ PayloadsSurvive
    /\ writer # NoWriter => PayloadOf[writer.row] \in disk
    /\ cleanup.at = "evicting" => Live(rows, disk) > Target

LEMMA Sizes ==
  ASSUME NEW batch, NEW files, batch \subseteq Record, files \subseteq Payload
  PROVE  /\ IsFiniteSet(batch) /\ Cardinality(batch) \in Nat /\ Cardinality(files) \in Nat
         /\ Live(batch, files) \in Nat
  <1>1. IsFiniteSet(batch) /\ Cardinality(batch) \in Nat
    BY HistoryAssumption, FS_Subset, FS_CardinalityType
  <1> DEFINE All == {PayloadOf[r] : r \in Record}
  <1>2. [r \in Record |-> PayloadOf[r]] \in Surjection(Record, All)
    BY DEF Surjection
  <1>3. IsFiniteSet(All)
    BY <1>2, HistoryAssumption, FS_Surjection
  <1>4. files \subseteq All
    BY DEF Payload
  <1>5. Cardinality(files) \in Nat
    BY <1>3, <1>4, FS_Subset, FS_CardinalityType
  <1> QED  BY <1>1, <1>5 DEF Live

\* More records take no less.
LEMMA LargerLive ==
  ASSUME NEW batch, NEW more, batch \subseteq more, more \subseteq Record, NEW files, files \subseteq Payload
  PROVE  Live(batch, files) =< Live(more, files)
  <1>1. Cardinality(batch) =< Cardinality(more)
    BY Sizes, FS_Subset
  <1>2. Cardinality(batch) \in Nat /\ Cardinality(more) \in Nat /\ Cardinality(files) \in Nat
    BY Sizes
  <1>3. \A a, b, c \in Nat : a =< b => a + c =< b + c
    OBVIOUS
  <1> QED  BY <1>1, <1>2, <1>3 DEF Live

LEMMA HistoryStarts == HistoryInit => HistoryInv
  <1> SUFFICES ASSUME HistoryInit PROVE HistoryInv
    OBVIOUS
  <1>1. HistoryShape
    BY DEF HistoryInit, HistoryShape, NoWriter, NoCleanup, Trigger
  <1>2. PayloadsSurvive
    BY DEF HistoryInit, PayloadsSurvive, References
  <1> QED  BY <1>1, <1>2 DEF HistoryInit, HistoryInv, NoCleanup

LEMMA HistoryShapeStays ==
  ASSUME HistoryShape, [HistoryNext]_historyVars
  PROVE  HistoryShape'
  <1> USE DEF HistoryShape
  <1>1. ASSUME NEW r \in Record, InsertText(r) \/ InsertPaths(r)
        PROVE  HistoryShape'
    BY <1>1 DEF InsertText, InsertPaths, Insert
  <1>2. ASSUME NEW r \in Record, NEW kind \in {"capture", "receive", "share"}, StoreFile(kind, r)
        PROVE  HistoryShape'
    BY <1>2 DEF StoreFile, Payload, NoWriter
  <1>3. CASE StoreRecord
    BY <1>3 DEF StoreRecord, Insert, Unlock, NoWriter
  <1>4. CASE NoRecord
    BY <1>4 DEF NoRecord, Unlock, NoWriter
  <1>5. ASSUME NEW r, ShareSent(r) \/ (r \in rows /\ (ToggleFavorite(r) \/ TogglePinned(r) \/ Annotate(r)))
        PROVE  HistoryShape'
    BY <1>5 DEF ShareSent, ToggleFavorite, TogglePinned, Annotate, SymDiff
  <1>6. ASSUME NEW batch \in SUBSET Record, Drop(batch), UNCHANGED <<disk, limit, boot, writer>>
        PROVE  /\ favorites' \cup pins' \cup shared' \cup dangling' \subseteq rows' /\ rows' \subseteq Record
               /\ free' \in Nat
    BY <1>6, Sizes DEF Drop
  <1>7. ASSUME NEW batch \in SUBSET Record, DeleteRecords(batch)
        PROVE  HistoryShape'
    BY <1>6, <1>7 DEF DeleteRecords, References, Payload
  <1>8. CASE CleanCache \/ Reclaim
    BY HistoryAssumption, <1>8 DEF CleanCache, Reclaim
  <1>9. ASSUME NEW trigger \in Trigger, CleanupBegins(trigger)
        PROVE  HistoryShape'
    BY HistoryAssumption, <1>9 DEF CleanupBegins, OverLimit
  <1>10. ASSUME NEW cutoff, NEW count, Retain(cutoff, count)
         PROVE  HistoryShape'
    <2>1. PICK batch \in SUBSET Record : Drop(batch)
      BY <1>10 DEF Retain, Evictable, BeyondNewest
    <2>2. cleanup' = [cleanup EXCEPT !.at = "reclaiming"] /\ UNCHANGED <<disk, limit, boot, holder, writer, doomed>>
      BY <1>10 DEF Retain
    <2> QED  BY <1>6, <1>10, <2>1, <2>2 DEF Retain
  <1>11. CASE ReclaimOrphans
    BY <1>11 DEF ReclaimOrphans
  <1>12. NoCleanup.at = "idle" /\ NoCleanup \in [at : {"idle"}, trigger : Trigger, limit : Nat, quota : BOOLEAN]
    BY DEF NoCleanup, Trigger
  <1>13. CASE Measure \/ Weigh \/ CleanupFails
    <2>1. /\ UNCHANGED <<rows, favorites, pins, shared, dangling, disk, limit, writer, doomed>>
          /\ free' \in {free, 0} /\ boot' \in BOOLEAN /\ cleanup.at # "idle"
          /\ \/ cleanup' = NoCleanup /\ holder' = "nobody"
             \/ \E at \in {"weighing", "evicting"} : cleanup' = [cleanup EXCEPT !.at = at] /\ holder' = holder
      BY <1>13 DEF Measure, Weigh, CleanupFails, Succeed, EndCleanup
    <2> QED  BY <1>12, <2>1
  <1>14. CASE Evict
    <2>1. UNCHANGED <<disk, limit, writer, doomed>> /\ cleanup.at = "evicting"
      BY <1>14 DEF Evict
    <2>2. CASE Evictable(rows) # {}
      <3>1. PICK batch \in SUBSET Record : Drop(batch)
        BY <1>14, <2>2 DEF Evict, Oldest, Evictable
      <3>2. cleanup' = [cleanup EXCEPT !.at = "evicted"] /\ UNCHANGED <<boot, holder>>
        BY <1>14, <2>2 DEF Evict
      <3> QED  BY <1>6, <2>1, <3>1, <3>2
    <2>3. CASE Evictable(rows) = {}
      BY <1>12, <1>14, <2>1, <2>3 DEF Evict, Succeed, EndCleanup
    <2> QED  BY <2>2, <2>3
  <1>15. CASE (\E bytes \in Limits : SetLimit(bytes)) \/ (\E to \in BOOLEAN : Bootstrap(to))
    BY <1>15 DEF SetLimit, Bootstrap
  <1>16. CASE HistoryCrash
    BY <1>16 DEF HistoryCrash, NoCleanup, NoWriter, Trigger
  <1>17. CASE UNCHANGED historyVars
    BY <1>17 DEF historyVars
  <1> QED
    BY <1>1, <1>2, <1>3, <1>4, <1>5, <1>7, <1>8, <1>9, <1>10, <1>11, <1>13, <1>14, <1>15, <1>16, <1>17
    DEF HistoryNext, UserTurn, CleanupStep, Clear

LEMMA HistoryStays ==
  ASSUME HistoryInv, [HistoryNext]_historyVars
  PROVE  HistoryInv'
  <1>1. HistoryShape /\ HistoryShape'
    BY HistoryShapeStays DEF HistoryInv
  <1>2. PayloadsSurvive'
    <2> USE DEF HistoryInv, PayloadsSurvive, References
    <2>1. ASSUME NEW r \in Record, InsertText(r) \/ InsertPaths(r)
          PROVE  PayloadsSurvive'
      BY <2>1 DEF InsertText, InsertPaths, Insert
    <2>2. ASSUME NEW r \in Record, NEW kind, StoreFile(kind, r)
          PROVE  PayloadsSurvive'
      BY <2>2 DEF StoreFile
    <2>3. CASE StoreRecord
      BY <2>3 DEF StoreRecord, Insert
    <2>4. ASSUME disk \ disk' \subseteq disk \ References(rows), UNCHANGED <<rows, dangling>>
          PROVE  PayloadsSurvive'
      BY <2>4
    <2>5. CASE NoRecord \/ Reclaim \/ ReclaimOrphans
      BY <2>4, <2>5 DEF NoRecord, Reclaim, ReclaimOrphans, Unreferenced
    <2>6. ASSUME NEW batch, Drop(batch), UNCHANGED disk
          PROVE  PayloadsSurvive'
      BY <2>6 DEF Drop
    <2>7. CASE \E batch \in SUBSET Record : DeleteRecords(batch)
      BY <2>6, <2>7 DEF DeleteRecords
    <2>8. CASE \E cutoff, count : Retain(cutoff, count)
      BY <2>6, <2>8 DEF Retain
    <2>9. CASE Evict
      BY <2>6, <2>9 DEF Evict
    <2>10. CASE UNCHANGED <<rows, dangling, disk>>
      BY <2>10
    <2> QED
      BY <1>1, <2>1, <2>2, <2>3, <2>5, <2>7, <2>8, <2>9, <2>10
      DEF HistoryNext, historyVars, UserTurn, CleanupStep, Clear, HistoryShape, ShareSent, ToggleFavorite, TogglePinned,
          Annotate, CleanCache, CleanupBegins, Measure, Weigh, CleanupFails, SetLimit, Bootstrap, HistoryCrash
  <1>3. (writer # NoWriter => PayloadOf[writer.row] \in disk)'
    <2> USE DEF HistoryInv, HistoryShape
    <2>1. ASSUME NEW r \in Record, NEW kind \in {"capture", "receive", "share"}, StoreFile(kind, r)
          PROVE  PayloadOf[writer'.row] \in disk'
      BY <2>1 DEF StoreFile
    <2>2. CASE StoreRecord \/ NoRecord \/ HistoryCrash
      BY <2>2 DEF StoreRecord, NoRecord, HistoryCrash
    \* With the files lock taken by another there is no writer.
    <2>3. CASE Reclaim \/ ReclaimOrphans
      BY <1>1, <2>3 DEF Reclaim, ReclaimOrphans
    <2>4. CASE UNCHANGED <<writer, disk>>
      BY <2>4
    <2> QED
      BY <2>1, <2>2, <2>3, <2>4
      DEF HistoryNext, historyVars, UserTurn, CleanupStep, Clear, InsertText, InsertPaths, ShareSent, ToggleFavorite,
          TogglePinned, Annotate, DeleteRecords, CleanCache, CleanupBegins, Retain, Measure, Weigh, Evict,
          CleanupFails, SetLimit, Bootstrap
  <1>4. (cleanup.at = "evicting" => Live(rows, disk) > Target)'
    <2> SUFFICES ASSUME cleanup'.at = "evicting" PROVE (Live(rows, disk) > Target)'
      OBVIOUS
    <2>1. Target \in Int /\ Live(rows, disk) \in Nat /\ Live(rows', disk') \in Nat /\ free \in Nat
      BY <1>1, Sizes DEF HistoryShape, Target, LowWatermark
    <2>2. CASE Weigh
      <3>1. CompactedUsage > Target
        BY <1>1, <2>2 DEF Weigh, HistoryShape, Succeed, EndCleanup, NoCleanup
      <3>2. \A a, b \in Nat : a + b - b = a
        OBVIOUS
      <3>3. Live(rows, disk) > Target
        BY <2>1, <3>1, <3>2 DEF CompactedUsage, Usage
      <3>4. cleanup'.limit = cleanup.limit /\ UNCHANGED <<rows, disk>>
        BY <1>1, <2>2 DEF Weigh, HistoryShape, Succeed, EndCleanup, NoCleanup
      <3> QED  BY <3>3, <3>4 DEF Target
    <2>3. ASSUME cleanup' = cleanup, rows \subseteq rows', disk' = disk
          PROVE  (Live(rows, disk) > Target)'
      <3>1. Live(rows, disk) > Target /\ Target' = Target
        BY <2>3 DEF HistoryInv, Target
      <3>2. Live(rows, disk) =< Live(rows', disk')
        BY <1>1, <2>3, LargerLive DEF HistoryShape
      <3>3. \A a, b \in Nat, c \in Int : a > c /\ a =< b => b > c
        OBVIOUS
      <3> QED  BY <2>1, <3>1, <3>2, <3>3
    <2>4. cleanup.at = "evicting" \/ Weigh
      <3>1. \/ cleanup' = cleanup \/ Weigh \/ cleanup' = NoCleanup
            \/ (\E trigger \in Trigger : CleanupBegins(trigger))
            \/ (\E at \in {"reclaiming", "evicted", "weighing", "measuring"} : cleanup' = [cleanup EXCEPT !.at = at])
        BY DEF HistoryNext, historyVars, UserTurn, CleanupStep, Clear, InsertText, InsertPaths, StoreFile,
               StoreRecord, NoRecord, ShareSent, ToggleFavorite, TogglePinned, Annotate, DeleteRecords, CleanCache,
               Reclaim, Retain, ReclaimOrphans, Measure, Evict, Succeed, EndCleanup, CleanupFails, SetLimit,
               Bootstrap, HistoryCrash
      <3> QED  BY <1>1, <3>1 DEF CleanupBegins, NoCleanup, HistoryShape
    <2>5. CASE cleanup.at = "evicting"
      <3>1. writer = NoWriter /\ holder = "cleanup"
        BY <1>1, <2>5 DEF HistoryShape
      <3>2. \/ UNCHANGED <<cleanup, rows, disk>>
            \/ (\E r \in Record : InsertText(r) \/ InsertPaths(r))
            \/ Evict \/ CleanupFails \/ HistoryCrash
        BY <2>5, <3>1
        DEF HistoryNext, historyVars, UserTurn, CleanupStep, Clear, StoreFile, StoreRecord, NoRecord, ShareSent,
            ToggleFavorite, TogglePinned, Annotate, DeleteRecords, CleanCache, Reclaim, CleanupBegins, Retain,
            ReclaimOrphans, Measure, Weigh, SetLimit, Bootstrap
      <3>3. ~(Evict \/ CleanupFails \/ HistoryCrash)
        BY <1>1 DEF Evict, CleanupFails, HistoryCrash, Succeed, EndCleanup, NoCleanup, HistoryShape
      <3>4. cleanup' = cleanup /\ rows \subseteq rows' /\ disk' = disk
        BY <3>2, <3>3 DEF InsertText, InsertPaths, Insert
      <3> QED  BY <2>3, <3>4
    <2> QED  BY <2>2, <2>4, <2>5
  <1> QED  BY <1>1, <1>2, <1>3, <1>4 DEF HistoryInv

\* The file of a record outlives every capture, deletion and cleanup that crosses it, whatever fails
\* and wherever the process dies (the files lock in clipboard/storage.rs, watcher.rs and db/retention.rs).
THEOREM PayloadsNeverLost == LocalSpec => []PayloadsSurvive
  <1>1. HistoryInv => PayloadsSurvive
    BY DEF HistoryInv
  <1>2. LocalInit => HistoryInv
    BY HistoryStarts DEF LocalInit
  <1>3. HistoryInv /\ [LocalNext]_localVars => HistoryInv'
    BY Parts, HistoryStays
  <1> QED  BY <1>1, <1>2, <1>3, PTL DEF LocalSpec, localVars

\* What goes with a batch is older than what stays: the records older than a younger one are more.
LEMMA BatchIsOldest ==
  ASSUME rows \subseteq Record, NEW excess \in Int, NEW r \in Oldest(excess), NEW o \in Evictable(rows) \ Oldest(excess)
  PROVE  r < o
  <1>1. r \in Nat /\ o \in Nat /\ r # o /\ Evictable(rows) \subseteq Record
    BY HistoryAssumption DEF Oldest, Evictable
  <1> DEFINE Older(x) == {e \in Evictable(rows) : e < x}
  <1>2. SUFFICES ASSUME o < r PROVE FALSE
    BY <1>1
  <1>3. Older(o) \subseteq Older(r)
    <2>1. \A a, b, c \in Nat : a < b /\ b < c => a < c
      OBVIOUS
    <2>2. Evictable(rows) \subseteq Nat
      BY <1>1, HistoryAssumption
    <2> QED  BY <1>1, <1>2, <2>1, <2>2
  <1>4. Cardinality(Older(r)) < excess /\ (\A e \in Older(r) : Sized(e))
    BY DEF Oldest
  <1>5. /\ Cardinality(Older(o)) =< Cardinality(Older(r))
        /\ Cardinality(Older(o)) \in Nat /\ Cardinality(Older(r)) \in Nat
    <2>1. IsFiniteSet(Older(r)) /\ IsFiniteSet(Older(o))
      BY <1>1, HistoryAssumption, FS_Subset
    <2> QED  BY <1>3, <2>1, FS_Subset, FS_CardinalityType
  <1>6. \A a, b \in Nat : a =< b /\ b < excess => a < excess
    OBVIOUS
  <1>7. Cardinality(Older(o)) < excess
    BY <1>4, <1>5, <1>6
  <1> QED  BY <1>3, <1>4, <1>7 DEF Oldest

LEMMA EvictsOldestStep ==
  ASSUME HistoryInv, [HistoryNext]_historyVars
  PROVE  EvictsOldest
  <1>1. HistoryShape /\ rows \subseteq Record
    BY DEF HistoryInv, HistoryShape
  <1>2. SUFFICES ASSUME cleanup.at # "idle", rows \ rows' # {}
                 PROVE  /\ (rows \ rows') \cap (favorites \cup pins \cup shared) = {}
                        /\ cleanup.at = "evicting" =>
                              /\ \A r \in rows \ rows', o \in Evictable(rows) \cap rows' : r < o
                              /\ Live(rows, disk) > Target
    BY DEF EvictsOldest
  \* The lock keeps a deletion by the user out.
  <1>3. (\E cutoff, count : Retain(cutoff, count)) \/ Evict
    BY <1>1, <1>2
    DEF HistoryNext, historyVars, UserTurn, CleanupStep, Clear, InsertText, InsertPaths, Insert, StoreFile, StoreRecord,
        NoRecord, ShareSent, ToggleFavorite, TogglePinned, Annotate, DeleteRecords, CleanCache, Reclaim, CleanupBegins,
        ReclaimOrphans, Measure, Weigh, SetLimit, CleanupFails, Bootstrap, HistoryCrash, HistoryShape
  <1>4. ASSUME NEW batch, batch \subseteq Evictable(rows), Drop(batch)
        PROVE  rows \ rows' = batch /\ (rows \ rows') \cap (favorites \cup pins \cup shared) = {}
    BY <1>4 DEF Drop, Evictable, Protected
  <1>5. ASSUME NEW cutoff, NEW count, Retain(cutoff, count)
        PROVE  /\ cleanup.at = "retaining"
               /\ (rows \ rows') \cap (favorites \cup pins \cup shared) = {}
    <2>1. PICK batch : batch \subseteq Evictable(rows) /\ Drop(batch)
      BY <1>5 DEF Retain, BeyondNewest
    <2> QED  BY <1>4, <1>5, <2>1 DEF Retain
  <1>6. CASE Evict
    <2> DEFINE excess == CompactedUsage - Target
    <2>1. cleanup.at = "evicting" /\ Live(rows, disk) > Target
      BY <1>6 DEF Evict, HistoryInv
    <2>2. Oldest(excess) \subseteq Evictable(rows) /\ Drop(Oldest(excess))
      BY <1>2, <1>6 DEF Evict, Oldest
    <2>3. excess \in Int
      <3>1. Live(rows, disk) \in Nat /\ free \in Nat /\ cleanup.limit \in Nat
        BY <1>1, Sizes DEF HistoryShape
      <3> QED  BY <3>1 DEF CompactedUsage, Usage, Target, LowWatermark
    <2> HIDE DEF excess
    <2>4. rows \ rows' = Oldest(excess) /\ (rows \ rows') \cap (favorites \cup pins \cup shared) = {}
      BY <1>4, <2>2
    <2>5. \A r \in rows \ rows', o \in Evictable(rows) \cap rows' : r < o
      BY <1>1, <2>3, <2>4, BatchIsOldest
    <2> QED  BY <2>1, <2>4, <2>5
  <1> QED  BY <1>3, <1>5, <1>6

-----------------------------------------------------------------------------
(* Windows.                                                                *)
(*                                                                         *)
(* A timer is void once the window has been entered since: the generation  *)
(* has gone on, except at the moment between showing and entering. Only    *)
(* commands that cross each other break this.                              *)

Calls == [at : {"idle", "building", "showing", "entering", "cancelling", "sending", "leaving", "starting"},
          kind : {"none", "show", "hide"}, request : Request \cup {0}, exists : BOOLEAN, first : BOOLEAN]

WindowShape ==
    /\ generation \in Nat /\ shown \in BOOLEAN /\ guarded \in BOOLEAN /\ light \in BOOLEAN
    /\ window \in {"none", "built", "mounted"} /\ (shown => window # "none")
    /\ phase \in {"Created", "Ready", "Visible", "HiddenWarm", "DestroyPending", "Destroyed"}
    /\ timers \in [Timer -> Int] /\ \A k \in Timer : timers[k] \in NoTimer .. generation
    /\ due \subseteq [kind : Timer, generation : Nat] /\ \A d \in due : d.generation =< generation
    /\ main \in [at : {"idle", "announcing", "destroying", "entering"}, generation : Nat, calm : BOOLEAN]
    /\ main.generation =< generation
    /\ calls \in [Thread -> Calls]
    /\ arrived \cup risky \subseteq asked /\ asked \subseteq Request /\ slot \in asked \cup {0}
    /\ \A t \in Thread : /\ calls[t].request \in asked \cup {0}
                         /\ calls[t].at \in {"building", "showing", "entering"} => calls[t].kind = "show"
                         /\ calls[t].at = "sending" => calls[t].request # 0

\* No timer of the present generation.
Void ==
    /\ \A k \in Timer : timers[k] < generation
    /\ \A d \in due : d.generation < generation
    /\ main.at = "announcing" => main.generation < generation

WindowInv ==
    /\ WindowShape
    /\ ~crossed =>
         /\ \A t, o \in Thread : calls[t].at # "idle" /\ calls[o].at # "idle" => t = o
         /\ \A t \in Thread : calls[t].at \in {"leaving", "starting"} => ~shown
         /\ \A t \in Thread : calls[t].at = "starting" => phase # "Visible"
         /\ phase = "Visible" => Void
         /\ shown => Void \/ \E t \in Thread : calls[t].at = "entering"
         /\ main.at = "destroying" /\ main.calm => ~shown /\ ~guarded

LEMMA WindowStarts == LifecycleInit => WindowInv
  <1> SUFFICES ASSUME LifecycleInit PROVE WindowInv
    OBVIOUS
  <1>1. NoCall \in Calls /\ NoMain.generation = 0 /\ NoMain.at = "idle"
        /\ NoMain \in [at : {"idle", "announcing", "destroying", "entering"}, generation : Nat, calm : BOOLEAN]
    BY DEF NoCall, Calls, NoMain
  <1>2. calls \in [Thread -> Calls] /\ \A t \in Thread : calls[t].request = 0 /\ calls[t].at = "idle"
    BY <1>1 DEF LifecycleInit, NoCall
  <1>3. timers \in [Timer -> Int] /\ \A k \in Timer : timers[k] \in NoTimer .. generation
    BY DEF LifecycleInit, NoTimer
  <1>4. main.generation =< generation /\ generation \in Nat
    BY <1>1 DEF LifecycleInit
  <1>5. WindowShape
    BY <1>1, <1>2, <1>3, <1>4 DEF LifecycleInit, WindowShape
  <1> QED  BY <1>1, <1>2, <1>5 DEF LifecycleInit, WindowInv

\* One step at a time.
WindowSteps ==
    \/ \E t \in Thread : \/ \E q \in Request \cup {0} : BeginShow(t, q)
                         \/ BeginHide(t) \/ Build(t) \/ Show(t) \/ Enter(t) \/ CancelAll(t) \/ Send(t) \/ Leave(t)
                         \/ StartIdle(t)
    \/ \E k \in Timer : GoesOff(k)
    \/ \E d \in due : IdleOver(d) \/ Deadline(d)
    \/ Announce \/ Destroy \/ EnterDestroyed \/ Mount \/ SwitchOff
    \/ \E to \in BOOLEAN : SetGuarded(to)

LEMMA ClocksStay ==
  ASSUME WindowShape, WindowSteps
  PROVE  /\ generation' \in Nat /\ generation =< generation'
         /\ timers' \in [Timer -> Int] /\ \A k \in Timer : timers'[k] \in NoTimer .. generation'
         /\ due' \subseteq [kind : Timer, generation : Nat] /\ \A d \in due' : d.generation =< generation'
         /\ main' \in [at : {"idle", "announcing", "destroying", "entering"}, generation : Nat, calm : BOOLEAN]
         /\ main'.generation =< generation'
  <1>1. generation' \in Nat /\ generation =< generation'
    <2>1. generation' \in {generation, generation + 1}
      BY DEF WindowSteps, BeginShow, BeginHide, Build, Show, Enter, EnterVisible, CancelAll, Send, Leave, StartIdle,
             GoesOff, IdleOver, Deadline, Announce, Destroy, EnterDestroyed, Mount, SwitchOff, SetGuarded
    <2> QED  BY <2>1 DEF WindowShape
  <1>2. \A k \in Timer : timers'[k] \in NoTimer .. generation /\ timers' \in [Timer -> Int]
    <2>1. \/ timers' = timers
          \/ \E kinds : Cancel(kinds)
          \/ \E t \in Thread : StartIdle(t)
          \/ \E k \in Timer : GoesOff(k)
          \/ \E d \in due : IdleOver(d) \/ Deadline(d)
          \/ Announce
      BY DEF WindowSteps, BeginShow, BeginHide, Build, Show, Enter, CancelAll, Send, Leave,
             Destroy, EnterDestroyed, Mount, SwitchOff, SetGuarded
    <2>2. NoTimer \in NoTimer .. generation /\ generation \in NoTimer .. generation /\ NoTimer .. generation \subseteq Int
      BY DEF WindowShape, NoTimer
    <2>3. timers \in [Timer -> NoTimer .. generation]
      BY DEF WindowShape
    <2>4. main.generation \in NoTimer .. generation /\ \A d \in due : d.generation \in NoTimer .. generation
      BY DEF WindowShape, NoTimer
    <2>5. timers' \in [Timer -> NoTimer .. generation]
      <3> HIDE DEF NoTimer
      <3>1. CASE \E kinds : Cancel(kinds)
        BY <2>2, <2>3, <3>1 DEF Cancel
      <3>2. CASE \E t \in Thread : StartIdle(t)
        BY <2>2, <2>3, <3>2 DEF StartIdle, Timer
      <3>3. CASE \E k \in Timer : GoesOff(k)
        BY <2>2, <2>3, <3>3 DEF GoesOff
      <3>4. CASE \E d \in due : IdleOver(d) \/ Deadline(d)
        BY <2>2, <2>3, <2>4, <3>4 DEF IdleOver, Deadline, Timer
      <3>5. CASE Announce
        BY <2>2, <2>3, <2>4, <3>5 DEF Announce, Timer
      <3> QED  BY <2>1, <2>3, <3>1, <3>2, <3>3, <3>4, <3>5
    <2> QED  BY <2>2, <2>5
  <1>3. due' \subseteq [kind : Timer, generation : Nat] /\ \A d \in due' : d.generation =< generation
    <2>1. \/ due' \subseteq due
          \/ \E k \in Timer : timers[k] # NoTimer /\ due' = due \cup {[kind |-> k, generation |-> timers[k]]}
      BY DEF WindowSteps, BeginShow, BeginHide, Build, Show, Enter, CancelAll, Send, Leave, StartIdle,
             GoesOff, IdleOver, Deadline, MainTakes, Announce, Destroy, EnterDestroyed, Mount, SwitchOff, SetGuarded
    <2>2. \A k \in Timer : timers[k] # NoTimer => timers[k] \in Nat /\ timers[k] =< generation
      BY DEF WindowShape, NoTimer
    <2> QED  BY <2>1, <2>2 DEF WindowShape
  <1>4. /\ main' \in [at : {"idle", "announcing", "destroying", "entering"}, generation : Nat, calm : BOOLEAN]
        /\ main'.generation =< generation
    <2>1. \/ main' = main \/ main' = NoMain \/ Disturbed \/ main' = [main EXCEPT !.at = "entering"]
          \/ \E d \in due, calm \in BOOLEAN, at \in {"announcing", "destroying"} :
                main' = [at |-> at, generation |-> d.generation, calm |-> calm]
      BY DEF WindowSteps, BeginShow, BeginHide, Build, Show, Enter, CancelAll, Send, Leave, StartIdle,
             GoesOff, IdleOver, Deadline, MainTakes, Announce, Destroy, EnterDestroyed, Mount, SwitchOff, SetGuarded
    <2> DEFINE Mains == [at : {"idle", "announcing", "destroying", "entering"}, generation : Nat, calm : BOOLEAN]
    <2>2. main \in Mains /\ main.generation =< generation /\ generation \in Nat /\ 0 =< generation
      BY DEF WindowShape
    <2>3. CASE main' = NoMain
      BY <2>2, <2>3 DEF NoMain
    <2>4. CASE Disturbed \/ main' = [main EXCEPT !.at = "entering"]
      BY <2>2, <2>4 DEF Disturbed
    <2>5. ASSUME NEW d \in due, NEW calm \in BOOLEAN, NEW at \in {"announcing", "destroying"},
                 main' = [at |-> at, generation |-> d.generation, calm |-> calm]
          PROVE  main' \in Mains /\ main'.generation =< generation
      <3>1. d.generation \in Nat /\ d.generation =< generation
        BY DEF WindowShape
      <3> QED  BY <2>5, <3>1
    <2> QED  BY <2>1, <2>2, <2>3, <2>4, <2>5
  <1> QED
    <2>1. \A a, b, c \in Nat : a =< b /\ b =< c => a =< c
      OBVIOUS
    <2>2. \A x \in NoTimer .. generation : x \in NoTimer .. generation'
      BY <1>1 DEF WindowShape, NoTimer
    <2>3. generation \in Nat /\ \A d \in due' : d.generation \in Nat /\ d.generation =< generation'
      BY <1>1, <1>3, <2>1 DEF WindowShape
    <2>4. main'.generation \in Nat /\ main'.generation =< generation'
      BY <1>1, <1>4, <2>1, <2>3
    <2>5. \A k \in Timer : timers'[k] \in NoTimer .. generation'
      BY <1>2, <2>2
    <2>6. timers' \in [Timer -> Int]
      BY <1>2 DEF Timer
    <2> QED  BY <1>1, <1>3, <1>4, <2>3, <2>4, <2>5, <2>6

LEMMA CallsStay ==
  ASSUME WindowShape, WindowSteps
  PROVE  /\ calls' \in [Thread -> Calls]
         /\ arrived' \cup risky' \subseteq asked' /\ asked' \subseteq Request /\ slot' \in asked' \cup {0}
         /\ asked \subseteq asked'
         /\ \A t \in Thread : /\ calls'[t].request \in asked' \cup {0}
                              /\ calls'[t].at \in {"building", "showing", "entering"} => calls'[t].kind = "show"
                              /\ calls'[t].at = "sending" => calls'[t].request # 0
  <1> DEFINE Good(call, known) == /\ call \in Calls /\ call.request \in known \cup {0}
                                  /\ call.at \in {"building", "showing", "entering"} => call.kind = "show"
                                  /\ call.at = "sending" => call.request # 0
  <1>1. calls \in [Thread -> Calls] /\ \A t \in Thread : Good(calls[t], asked)
    BY DEF WindowShape
  <1>2. asked \subseteq asked' /\ asked' \subseteq Request
    <2>1. asked' = asked \/ \E q \in Request \cup {0} : q # 0 /\ asked' = asked \cup {q}
      BY DEF WindowSteps, BeginShow, BeginHide, Build, Show, Enter, CancelAll, Send, Leave, StartIdle,
             GoesOff, IdleOver, Deadline, Announce, Destroy, EnterDestroyed, Mount, SwitchOff, SetGuarded
    <2> QED  BY <2>1 DEF WindowShape
  <1>3. \/ calls' = calls
        \/ \E t \in Thread : \E call : calls' = [calls EXCEPT ![t] = call] /\ Good(call, asked')
    <2>1. Good(NoCall, asked')
      BY DEF NoCall, Calls
    <2>2. \/ calls' = calls
          \/ \E t \in Thread :
                \/ Return(t)
                \/ Go(t, "cancelling") \/ CancelAll(t)
                \/ Build(t) \/ Show(t) \/ Leave(t) \/ BeginHide(t)
                \/ \E q \in Request \cup {0} : BeginShow(t, q)
      BY DEF WindowSteps, Enter, Send, StartIdle,
             GoesOff, IdleOver, Deadline, Announce, Destroy, EnterDestroyed, Mount, SwitchOff, SetGuarded
    <2>3. ASSUME NEW t \in Thread, NEW q \in Request \cup {0}, BeginShow(t, q)
          PROVE  \E call : calls' = [calls EXCEPT ![t] = call] /\ Good(call, asked')
      <3> DEFINE call == [NoCall EXCEPT !.at = "building", !.kind = "show", !.request = q,
                                        !.exists = (window # "none")]
      <3>1. calls' = [calls EXCEPT ![t] = call] /\ q \in asked' \cup {0}
        BY <2>3 DEF BeginShow
      <3>2. Good(call, asked')
        BY <3>1, <2>3, HistoryAssumption DEF NoCall, Calls
      <3> QED  BY <3>1, <3>2
    <2>4. ASSUME NEW t \in Thread, BeginHide(t)
          PROVE  \E call : calls' = [calls EXCEPT ![t] = call] /\ Good(call, asked')
      <3> DEFINE call == [NoCall EXCEPT !.at = "leaving", !.kind = "hide"]
      <3>1. calls' = [calls EXCEPT ![t] = call]
        BY <2>4 DEF BeginHide
      <3>2. Good(call, asked')
        BY DEF NoCall, Calls
      <3> QED  BY <3>1, <3>2
    <2>5. ASSUME NEW t \in Thread, Leave(t)
          PROVE  \E call : calls' = [calls EXCEPT ![t] = call] /\ Good(call, asked')
      <3> DEFINE call == [calls[t] EXCEPT !.at = "starting", !.first = (phase # "HiddenWarm")]
      <3>1. calls' = [calls EXCEPT ![t] = call]
        BY <1>1, <2>5 DEF Leave
      <3>2. Good(call, asked')
        BY <1>1, <1>2 DEF Calls
      <3> QED  BY <3>1, <3>2
    <2>6. ASSUME NEW t \in Thread, NEW stage \in {"cancelling", "sending"}, Go(t, stage),
                 stage = "sending" => calls[t].request # 0
          PROVE  \E call : calls' = [calls EXCEPT ![t] = call] /\ Good(call, asked')
      <3> DEFINE call == [calls[t] EXCEPT !.at = stage]
      <3>1. calls' = [calls EXCEPT ![t] = call]
        BY <1>1, <2>6 DEF Go
      <3>2. Good(call, asked')
        BY <1>1, <1>2, <2>6 DEF Calls
      <3> QED  BY <3>1, <3>2
    <2>7. ASSUME NEW t \in Thread, Build(t) \/ Show(t)
          PROVE  \E call : calls' = [calls EXCEPT ![t] = call] /\ Good(call, asked')
      <3> DEFINE call(stage) == [calls[t] EXCEPT !.at = stage]
      <3>1. \/ calls' = [calls EXCEPT ![t] = NoCall]
            \/ \E stage \in {"showing", "entering"} : calls' = [calls EXCEPT ![t] = call(stage)]
        BY <1>1, <2>7 DEF Build, Show, Go
      <3>2. \A stage \in {"showing", "entering"} : Good(call(stage), asked')
        BY <1>1, <1>2, <2>7 DEF Calls, Build, Show, At
      <3> HIDE DEF Good, call
      <3> QED  BY <2>1, <3>1, <3>2
    <2>8. ASSUME NEW t \in Thread, CancelAll(t)
          PROVE  Return(t) \/ (calls[t].request # 0 /\ Go(t, "sending"))
      BY <2>8 DEF CancelAll
    <2> HIDE DEF Good
    <2> QED  BY <2>1, <2>2, <2>3, <2>4, <2>5, <2>6, <2>7, <2>8 DEF Return
  <1>4. calls' \in [Thread -> Calls] /\ \A t \in Thread : Good(calls'[t], asked')
    BY <1>1, <1>2, <1>3
  <1>5. arrived' \cup risky' \subseteq asked' /\ slot' \in asked' \cup {0}
    <2>1. CASE \E t \in Thread, q \in Request \cup {0} : BeginShow(t, q)
      BY <2>1 DEF BeginShow, WindowShape
    <2>2. CASE UNCHANGED <<arrived, risky, slot>>
      BY <1>2, <2>2 DEF WindowShape
    <2>3. ASSUME NEW t \in Thread, Show(t) \/ Send(t)
          PROVE  arrived' \cup risky' \subseteq asked' /\ slot' \in asked' \cup {0}
      <3>2. arrived' \subseteq asked /\ slot' = slot
        <4>1. CASE Show(t)
          BY <4>1 DEF Show, WindowShape
        <4>2. CASE Send(t) /\ calls[t].request \in asked
          BY <4>2 DEF Send, WindowShape
        <4>3. Send(t) => calls[t].request \in asked
          BY DEF WindowShape, Send, At
        <4> QED  BY <2>3, <4>1, <4>2, <4>3
      <3>3. risky' \subseteq asked
        BY <2>3 DEF Show, Send, WindowShape
      <3> QED  BY <1>2, <3>2, <3>3 DEF WindowShape
    <2>5. CASE Mount
      BY <1>2, <2>5 DEF Mount, WindowShape
    <2>4. CASE Destroy
      BY <1>1, <1>2, <2>4 DEF Destroy, WindowShape
    <2> QED  BY <2>1, <2>2, <2>3, <2>4, <2>5
             DEF WindowSteps, BeginHide, Build, Enter, CancelAll, Leave, StartIdle,
                 GoesOff, IdleOver, Deadline, Announce, EnterDestroyed, SwitchOff, SetGuarded
  <1> QED  BY <1>2, <1>4, <1>5

LEMMA WindowShapeStays ==
  ASSUME WindowShape, WindowSteps
  PROVE  WindowShape'
  <1>1. /\ window' \in {"none", "built", "mounted"} /\ shown' \in BOOLEAN
        /\ shown' => window' # "none"
    <2>1. \/ UNCHANGED <<window, shown>>
          \/ \E t \in Thread : Build(t) \/ Show(t)
          \/ shown' = FALSE /\ window' \in {window, "none"}
          \/ Mount
      BY DEF WindowSteps, BeginShow, BeginHide, Enter, CancelAll, Send, Leave, StartIdle,
             GoesOff, IdleOver, Deadline, Announce, Destroy, EnterDestroyed, SwitchOff, SetGuarded
    <2> QED  BY <2>1 DEF WindowShape, Build, Show, Mount
  <1>3. guarded' \in BOOLEAN /\ light' \in BOOLEAN
    BY DEF WindowShape, WindowSteps, BeginShow, BeginHide, Build, Show, Enter, CancelAll, Send, Leave, StartIdle,
           GoesOff, IdleOver, Deadline, Announce, Destroy, EnterDestroyed, Mount, SwitchOff, SetGuarded
  <1>2. phase' \in {"Created", "Ready", "Visible", "HiddenWarm", "DestroyPending", "Destroyed"}
    BY DEF WindowShape, WindowSteps, BeginShow, BeginHide, Build, Show, Enter, EnterVisible, CancelAll, Send, Leave,
           StartIdle, GoesOff, IdleOver, Deadline, Announce, Destroy, EnterDestroyed, Mount, SwitchOff, SetGuarded
  <1>4. /\ calls' \in [Thread -> Calls]
        /\ arrived' \cup risky' \subseteq asked' /\ asked' \subseteq Request /\ slot' \in asked' \cup {0}
        /\ \A t \in Thread : /\ calls'[t].request \in asked' \cup {0}
                             /\ calls'[t].at \in {"building", "showing", "entering"} => calls'[t].kind = "show"
                             /\ calls'[t].at = "sending" => calls'[t].request # 0
    BY CallsStay
  <1>5. /\ generation' \in Nat
        /\ timers' \in [Timer -> Int] /\ \A k \in Timer : timers'[k] \in NoTimer .. generation'
        /\ due' \subseteq [kind : Timer, generation : Nat] /\ \A d \in due' : d.generation =< generation'
        /\ main' \in [at : {"idle", "announcing", "destroying", "entering"}, generation : Nat, calm : BOOLEAN]
        /\ main'.generation =< generation'
    BY ClocksStay
  <1> QED  BY ONLY <1>1, <1>2, <1>3, <1>4, <1>5 DEF WindowShape

\* A step takes one call further, from a stage of its own.
LEMMA CallMoves ==
  ASSUME WindowShape, WindowSteps
  PROVE  \/ UNCHANGED <<calls, crossed>>
         \/ \E t \in Thread :
              /\ \A o \in Thread \ {t} : calls'[o] = calls[o]
              /\ \/ calls[t].at # "idle" /\ crossed' = crossed
                 \/ calls[t].at = "idle" /\ crossed' = (crossed \/ Busy(t))
              /\ calls[t].at = "entering" => Enter(t)
              /\ calls'[t].at \in {"leaving", "starting"} => BeginHide(t) \/ Leave(t)
  <1>1. CASE UNCHANGED <<calls, crossed>>
    BY <1>1
  <1>2. ASSUME NEW t \in Thread,
               \/ \E q \in Request \cup {0} : BeginShow(t, q)
               \/ BeginHide(t) \/ Build(t) \/ Show(t) \/ Enter(t) \/ CancelAll(t) \/ Send(t) \/ Leave(t) \/ StartIdle(t)
        PROVE  /\ \A o \in Thread \ {t} : calls'[o] = calls[o]
               /\ \/ calls[t].at # "idle" /\ crossed' = crossed
                  \/ calls[t].at = "idle" /\ crossed' = (crossed \/ Busy(t))
               /\ calls[t].at = "entering" => Enter(t)
               /\ calls'[t].at \in {"leaving", "starting"} => BeginHide(t) \/ Leave(t)
    <2>1. calls \in [Thread -> Calls]
      BY DEF WindowShape
    <2>2. \A o \in Thread \ {t} : calls'[o] = calls[o]
      BY <1>2, <2>1 DEF BeginShow, BeginHide, Build, Show, Enter, CancelAll, Send, Leave, StartIdle, Go, Return
    <2>3. \/ calls[t].at # "idle" /\ crossed' = crossed
          \/ calls[t].at = "idle" /\ crossed' = (crossed \/ Busy(t))
      BY <1>2 DEF BeginShow, BeginHide, Build, Show, Enter, CancelAll, Send, Leave, StartIdle, At
    <2>4. calls[t].at = "entering" => Enter(t)
      BY <1>2 DEF BeginShow, BeginHide, Build, Show, CancelAll, Send, Leave, StartIdle, At
    <2>5. calls'[t].at \in {"leaving", "starting"} => BeginHide(t) \/ Leave(t)
      <3>1. CASE \E q \in Request \cup {0} : BeginShow(t, q)
        BY <2>1, <3>1 DEF BeginShow, NoCall
      <3>2. ASSUME Show(t) \/ Build(t) \/ Enter(t) \/ CancelAll(t) \/ Send(t) \/ StartIdle(t)
            PROVE  Return(t) \/ \E stage \in {"showing", "entering", "cancelling", "sending"} : Go(t, stage)
        <4>1. CASE Show(t)
          BY <4>1 DEF Show, Return, Go
        <4>2. CASE Build(t) \/ Enter(t) \/ CancelAll(t) \/ Send(t) \/ StartIdle(t)
          BY <4>2 DEF Build, Enter, CancelAll, Send, StartIdle
        <4> QED  BY <3>2, <4>1, <4>2
      <3>3. ASSUME Return(t) \/ \E stage \in {"showing", "entering", "cancelling", "sending"} : Go(t, stage)
            PROVE  calls'[t].at \notin {"leaving", "starting"}
        <4>1. NoCall.at = "idle"
          BY DEF NoCall
        <4>2. \A stage : [calls[t] EXCEPT !.at = stage].at = stage
          BY <2>1 DEF Calls
        <4>3. calls'[t] = NoCall \/ \E stage \in {"showing", "entering", "cancelling", "sending"} :
                                       calls'[t] = [calls[t] EXCEPT !.at = stage]
          BY <2>1, <3>3 DEF Return, Go
        <4> QED  BY <4>1, <4>2, <4>3
      <3> QED  BY <1>2, <3>1, <3>2, <3>3
    <2> QED  BY <2>2, <2>3, <2>4, <2>5
  <1> QED  BY <1>1, <1>2
           DEF WindowSteps, GoesOff, IdleOver, Deadline, Announce, Destroy, EnterDestroyed, Mount, SwitchOff, SetGuarded

\* Without a timer of the present generation there is none later, except by a hide.
LEMMA VoidStays ==
  ASSUME WindowShape, WindowSteps, Void, \A t \in Thread : ~StartIdle(t)
  PROVE  Void'
  <1>1. /\ generation \in Nat /\ generation' \in Nat /\ generation =< generation'
        /\ timers \in [Timer -> Int] /\ timers' \in [Timer -> Int]
        /\ \A d \in due : d.generation \in Nat /\ d.generation < generation
        /\ main.generation \in Nat
    BY ClocksStay DEF WindowShape, Void
  <1>2. \A a \in Int, b, c \in Nat : a < b /\ b =< c => a < c
    OBVIOUS
  <1>3. NoTimer \in Int /\ NoTimer < generation
    BY <1>1 DEF NoTimer
  <1>4. \A d \in due : \A expected : ~Still(d, expected)
    BY <1>1 DEF Still
  <1>5. \A k \in Timer : timers'[k] < generation
    <2>1. timers' = timers \/ (\E kinds : Cancel(kinds)) \/ (\E k \in Timer : GoesOff(k)) \/ Announce
      BY <1>4 DEF WindowSteps, BeginShow, BeginHide, Build, Show, Enter, CancelAll, Send, Leave,
             IdleOver, Deadline, Destroy, EnterDestroyed, Mount, SwitchOff, SetGuarded
    <2>2. CASE timers' = timers \/ (\E kinds : Cancel(kinds)) \/ (\E k \in Timer : GoesOff(k))
      BY <1>1, <1>3, <2>2 DEF Cancel, GoesOff, Void
    <2>3. CASE Announce
      BY <1>1, <1>3, <2>3 DEF Announce, Void, Timer
    <2> QED  BY <2>1, <2>2, <2>3
  <1>6. \A d \in due' : d.generation \in Nat /\ d.generation < generation
    <2>1. due' \subseteq due \/ \E k \in Timer : due' = due \cup {[kind |-> k, generation |-> timers[k]]} /\ timers[k] # NoTimer
      BY DEF WindowSteps, BeginShow, BeginHide, Build, Show, Enter, CancelAll, Send, Leave, StartIdle,
             GoesOff, IdleOver, Deadline, MainTakes, Announce, Destroy, EnterDestroyed, Mount, SwitchOff, SetGuarded
    <2>2. \A k \in Timer : timers[k] # NoTimer => timers[k] \in Nat /\ timers[k] < generation
      BY DEF WindowShape, Void, NoTimer
    <2> QED  BY <1>1, <2>1, <2>2
  <1>7. main'.at = "announcing" => main'.generation \in Nat /\ main'.generation < generation
    <2>1. \/ main' = main \/ main' = NoMain \/ Disturbed \/ main' = [main EXCEPT !.at = "entering"]
          \/ \E d \in due, calm \in BOOLEAN : main' = [at |-> "destroying", generation |-> d.generation, calm |-> calm]
      BY <1>4 DEF WindowSteps, BeginShow, BeginHide, Build, Show, Enter, CancelAll, Send, Leave, StartIdle,
             GoesOff, IdleOver, Deadline, MainTakes, Announce, Destroy, EnterDestroyed, Mount, SwitchOff, SetGuarded
    <2> QED  BY <2>1 DEF WindowShape, NoMain, Disturbed, Void
  <1> QED
    <2>1. \A k \in Timer : timers'[k] < generation'
      BY <1>1, <1>2, <1>5
    <2> QED  BY <1>1, <1>2, <1>6, <1>7, <2>1 DEF Void

\* Whoever enters from another phase leaves every timer behind.
LEMMA EnteringVoids ==
  ASSUME WindowShape, WindowSteps, NEW t \in Thread, Enter(t), phase = "Visible" => Void
  PROVE  Void'
  <1>1. CASE phase = "Visible"
    <2>1. \A o \in Thread : ~StartIdle(o)
      <3>1. calls \in [Thread -> Calls] /\ calls'[t].at = "cancelling"
        BY DEF WindowShape, Enter, Go, Calls
      <3> QED  BY <3>1 DEF Enter, StartIdle, At, Return, NoCall
    <2> QED  BY <1>1, <2>1, VoidStays
  <1>2. CASE phase # "Visible"
    <2>1. generation \in Nat /\ generation' = generation + 1
      BY <1>2 DEF WindowShape, Enter, EnterVisible
    <2>2. \A a \in Int, b \in Nat : a =< b => a < b + 1
      OBVIOUS
    <2>3. \A k \in Timer : timers[k] \in Int /\ timers[k] =< generation
      BY DEF WindowShape, NoTimer
    <2>4. \A d \in due : d.generation \in Nat /\ d.generation =< generation
      BY DEF WindowShape
    <2>5. main.generation \in Nat /\ main.generation =< generation
      BY DEF WindowShape
    <2>6. UNCHANGED <<timers, due, main>>
      BY DEF Enter
    <2> QED  BY <2>1, <2>2, <2>3, <2>4, <2>5, <2>6 DEF Void
  <1> QED  BY <1>1, <1>2

LEMMA WindowStays ==
  ASSUME WindowInv, [LifecycleNext]_lifecycleVars
  PROVE  WindowInv'
  <1>1. CASE UNCHANGED lifecycleVars
    BY <1>1 DEF lifecycleVars, WindowInv, WindowShape, Void
  <1>2. CASE WindowSteps
    <2>1. WindowShape /\ WindowShape'
      BY <1>2, WindowShapeStays DEF WindowInv
    <2>2. SUFFICES ASSUME ~crossed'
                   PROVE  /\ \A t, o \in Thread : calls'[t].at # "idle" /\ calls'[o].at # "idle" => t = o
                          /\ \A t \in Thread : calls'[t].at \in {"leaving", "starting"} => ~shown'
                          /\ \A t \in Thread : calls'[t].at = "starting" => phase' # "Visible"
                          /\ phase' = "Visible" => Void'
                          /\ shown' => Void' \/ \E t \in Thread : calls'[t].at = "entering"
                          /\ main'.at = "destroying" /\ main'.calm => ~shown' /\ ~guarded'
      BY <2>1 DEF WindowInv
    <2>3. ~crossed
      BY <1>2, <2>1, <2>2, CallMoves
    <2>4. /\ \A t, o \in Thread : calls[t].at # "idle" /\ calls[o].at # "idle" => t = o
          /\ \A t \in Thread : calls[t].at \in {"leaving", "starting"} => ~shown
          /\ \A t \in Thread : calls[t].at = "starting" => phase # "Visible"
          /\ phase = "Visible" => Void
          /\ shown => Void \/ \E t \in Thread : calls[t].at = "entering"
          /\ main.at = "destroying" /\ main.calm => ~shown /\ ~guarded
      BY <2>3 DEF WindowInv
    <2>5. \A t, o \in Thread : calls'[t].at # "idle" /\ calls'[o].at # "idle" => t = o
      <3>1. CASE UNCHANGED <<calls, crossed>>
        BY <2>4, <3>1
      <3>2. ASSUME NEW t \in Thread, \A o \in Thread \ {t} : calls'[o] = calls[o],
                   \/ calls[t].at # "idle" /\ crossed' = crossed
                   \/ calls[t].at = "idle" /\ crossed' = (crossed \/ Busy(t))
            PROVE  \A o \in Thread \ {t} : calls'[o].at = "idle"
        BY <2>2, <2>4, <3>2 DEF Busy
      <3> QED  BY <1>2, <2>1, <3>1, <3>2, CallMoves
    <2>6. ASSUME NEW t \in Thread, Show(t)
          PROVE  calls'[t].at \in {"idle", "entering"} /\ ~main'.calm /\ phase' = phase
                 /\ (shown' => calls'[t].at = "entering")
      <3>1. calls \in [Thread -> Calls] /\ main'.calm = FALSE /\ phase' = phase
        BY <2>1, <2>6 DEF WindowShape, Show, Disturbed
      <3>2. calls[t] \in Calls /\ [calls[t] EXCEPT !.at = "entering"].at = "entering" /\ NoCall.at = "idle"
        BY <3>1 DEF Calls, NoCall
      <3>3. CASE window = "none"
        <4>1. calls' \in {[calls EXCEPT ![t] = NoCall], [calls EXCEPT ![t].at = "entering"]} /\ shown' = shown
          BY <2>6, <3>3 DEF Show
        <4>2. calls'[t] \in {NoCall, [calls[t] EXCEPT !.at = "entering"]}
          BY <3>1, <4>1
        <4> QED  BY <2>1, <3>1, <3>2, <3>3, <4>1, <4>2 DEF WindowShape
      <3>4. CASE window # "none"
        <4>1. calls'[t] = [calls[t] EXCEPT !.at = "entering"]
          BY <2>6, <3>1, <3>4 DEF Show, Go
        <4> QED  BY <3>1, <3>2, <4>1
      <3> QED  BY <3>3, <3>4
    <2>7. (\A t \in Thread : ~Show(t)) => (shown' => shown)
      BY <1>2 DEF WindowSteps, BeginShow, BeginHide, Build, Enter, CancelAll, Send, Leave, StartIdle,
             GoesOff, IdleOver, Deadline, Announce, Destroy, EnterDestroyed, Mount, SwitchOff, SetGuarded
    <2>8. (\A t \in Thread : ~Enter(t)) => (phase' = "Visible" => phase = "Visible")
      BY <1>2 DEF WindowSteps, BeginShow, BeginHide, Build, Show, CancelAll, Send, Leave, StartIdle,
             GoesOff, IdleOver, Deadline, Announce, Destroy, EnterDestroyed, Mount, SwitchOff, SetGuarded
    <2>14. ASSUME NEW t \in Thread, calls'[t].at \in {"leaving", "starting"}
           PROVE  calls'[t] = calls[t] \/ BeginHide(t) \/ Leave(t)
      BY <1>2, <2>1, <2>14, CallMoves
    <2>9. \A t \in Thread : calls'[t].at \in {"leaving", "starting"} => ~shown'
      <3>1. TAKE t \in Thread
      <3>2. HAVE calls'[t].at \in {"leaving", "starting"}
      <3>3. \A o \in Thread : ~Show(o)
        <4>1. ASSUME NEW o \in Thread, Show(o) PROVE FALSE
          <5>1. calls'[o].at \in {"idle", "entering"} /\ calls[o].at = "showing"
            BY <2>6, <4>1 DEF Show, At
          <5>2. o # t
            BY <3>2, <5>1
          <5>3. calls'[t] = calls[t]
            BY <4>1, <5>2, <2>1 DEF Show, Go, WindowShape
          <5> QED  BY <2>4, <3>2, <5>1, <5>2, <5>3
        <4> QED  BY <4>1
      <3>4. CASE BeginHide(t)
        BY <3>4 DEF BeginHide
      <3>5. CASE Leave(t)
        BY <2>4, <2>7, <3>3, <3>5 DEF Leave, At
      <3>6. CASE calls'[t] = calls[t]
        BY <2>4, <2>7, <3>2, <3>3, <3>6
      <3> QED  BY <2>14, <3>2, <3>4, <3>5, <3>6
    <2>10. \A t \in Thread : calls'[t].at = "starting" => phase' # "Visible"
      <3>1. TAKE t \in Thread
      <3>2. HAVE calls'[t].at = "starting"
      <3>3. CASE BeginHide(t)
        <4>1. [NoCall EXCEPT !.at = "leaving", !.kind = "hide"].at = "leaving"
          BY DEF NoCall
        <4>2. calls'[t] = [NoCall EXCEPT !.at = "leaving", !.kind = "hide"]
          BY <2>1, <3>3 DEF WindowShape, BeginHide
        <4> QED  BY <3>2, <4>1, <4>2
      <3>4. CASE Leave(t)
        BY <3>4 DEF Leave
      <3>5. CASE calls'[t] = calls[t]
        <4>1. \A o \in Thread : ~Enter(o)
          <5>1. ASSUME NEW o \in Thread, Enter(o) PROVE FALSE
            <6>1. calls[o].at = "entering" /\ calls[t].at = "starting"
              BY <3>2, <3>5, <5>1 DEF Enter, At
            <6> QED  BY <2>4, <6>1
          <5> QED  BY <5>1
        <4> QED  BY <2>4, <2>8, <3>2, <3>5, <4>1
      <3> QED  BY <2>14, <3>2, <3>3, <3>4, <3>5
    <2>11. phase' = "Visible" => Void'
      <3>1. CASE \E t \in Thread : Enter(t)
        BY <1>2, <2>1, <2>4, <3>1, EnteringVoids
      <3>2. CASE phase = "Visible" /\ \A t \in Thread : ~StartIdle(t)
        BY <1>2, <2>1, <2>4, <3>2, VoidStays
      <3>3. phase = "Visible" => \A t \in Thread : ~StartIdle(t)
        BY <2>4 DEF StartIdle, At
      <3> QED  BY <2>8, <3>1, <3>2, <3>3
    <2>12. shown' => Void' \/ \E t \in Thread : calls'[t].at = "entering"
      <3>1. CASE \E t \in Thread : Show(t)
        BY <2>6, <3>1
      <3>2. CASE \E t \in Thread : Enter(t)
        BY <1>2, <2>1, <2>4, <3>2, EnteringVoids
      <3>3. ASSUME shown, Void PROVE Void'
        <4>1. \A t \in Thread : ~StartIdle(t)
          BY <2>4, <3>3 DEF StartIdle, At
        <4> QED  BY <1>2, <2>1, <3>3, <4>1, VoidStays
      <3>4. ASSUME NEW t \in Thread, calls[t].at = "entering", ~Enter(t)
            PROVE  calls'[t].at = "entering"
        BY <1>2, <2>1, <3>4, CallMoves
      <3> QED  BY <2>4, <2>7, <3>1, <3>2, <3>3, <3>4
    <2>13. main'.at = "destroying" /\ main'.calm => ~shown' /\ ~guarded'
      <3>1. SUFFICES ASSUME main'.at = "destroying", main'.calm
                     PROVE  ~shown' /\ ~guarded'
        OBVIOUS
      <3>2. \A t \in Thread : ~Show(t)
        BY <2>6, <3>1
      <3>4. ~SetGuarded(TRUE)
        <4>1. Disturbed => main'.calm = FALSE
          BY <2>1 DEF Disturbed, WindowShape
        <4> QED  BY <3>1, <4>1 DEF SetGuarded
      <3>5. CASE \E d \in due : Deadline(d)
        <4>1. PICK d \in due : Deadline(d)
          BY <3>5
        <4>2. CASE main' = main
          BY <2>4, <3>1, <4>1, <4>2 DEF Deadline
        <4>3. CASE main' # main
          <5> DEFINE NoShow == \A t \in Thread : calls[t].kind # "show"
          <5>1. /\ Still(d, "DestroyPending") /\ ~guarded /\ guarded' = guarded /\ shown' = shown
                /\ main' = [at |-> "destroying", generation |-> d.generation, calm |-> NoShow]
            BY <4>1, <4>3 DEF Deadline
          <5>2. ~Void
            BY <2>1, <5>1 DEF Still, Void, WindowShape
          <5>4. \A t \in Thread : calls[t].kind # "show"
            <6> HIDE DEF NoShow
            <6>1. main'.calm = NoShow
              BY <5>1
            <6>2. NoShow
              BY <3>1, <6>1, Zenon
            <6> QED  BY <6>2 DEF NoShow
          <5>3. \A t \in Thread : calls[t].at # "entering"
            BY <2>1, <5>4 DEF WindowShape
          <5> QED  BY <2>4, <5>1, <5>2, <5>3
        <4> QED  BY <4>2, <4>3
      <3>6. CASE main' = main /\ (guarded' => guarded)
        BY <2>4, <2>7, <3>1, <3>2, <3>6
      <3>7. CASE Announce \/ EnterDestroyed \/ Destroy \/ \E d \in due : IdleOver(d)
        BY <2>1, <2>4, <3>1, <3>7 DEF Announce, EnterDestroyed, Destroy, IdleOver, NoMain, WindowShape
      <3>8. \/ main' = main /\ guarded' = guarded
            \/ \E t \in Thread : Show(t)
            \/ \E d \in due : Deadline(d) \/ IdleOver(d)
            \/ Announce \/ EnterDestroyed \/ Destroy
            \/ \E to \in BOOLEAN : SetGuarded(to)
        BY <1>2 DEF WindowSteps, BeginShow, BeginHide, Build, Enter, CancelAll, Send, Leave, StartIdle,
                    GoesOff, Mount, SwitchOff
      <3>9. ASSUME NEW to \in BOOLEAN, SetGuarded(to)
            PROVE  main' = main /\ (guarded' => guarded)
        BY <3>4, <3>9 DEF SetGuarded
      <3> QED  BY <3>2, <3>5, <3>6, <3>7, <3>8, <3>9
    <2> QED  BY <2>5, <2>9, <2>10, <2>11, <2>12, <2>13
  <1> QED  BY <1>1, <1>2 DEF LifecycleNext, CallStep, TimerStep, WindowSteps

\* A calm destruction finds the window hidden and unprotected.
LEMMA DestroyedIdleStep ==
  ASSUME WindowInv, [LifecycleNext]_lifecycleVars
  PROVE  DestroyedIdle
  <1>1. SUFFICES ASSUME window # "none", window' = "none", main.calm, ~crossed
                 PROVE  ~shown /\ ~guarded
    BY DEF DestroyedIdle
  <1>2. Destroy
    BY <1>1 DEF LifecycleNext, CallStep, TimerStep, lifecycleVars, BeginShow, BeginHide, Build, Show, Enter, CancelAll,
                Send, Leave, StartIdle, GoesOff, IdleOver, Deadline, Announce, EnterDestroyed, Mount, SwitchOff, SetGuarded
  <1> QED  BY <1>1, <1>2 DEF Destroy, WindowInv

\* What is taken away was idle: a cleanup evicts from the oldest on, nothing protected, and stops at
\* its target; a window goes only when it is hidden and its page has nothing to keep (lifecycle.rs).
THEOREM TakenIsIdle == LocalSpec => TakesOnlyIdle
  <1>1. LocalInit => HistoryInv /\ WindowInv
    BY HistoryStarts, WindowStarts DEF LocalInit
  <1>2. HistoryInv /\ WindowInv /\ [LocalNext]_localVars => HistoryInv' /\ WindowInv'
    BY Parts, HistoryStays, WindowStays
  <1>3. HistoryInv /\ WindowInv /\ [LocalNext]_localVars
           => [EvictsOldest /\ DestroyedIdle]_<<historyVars, lifecycleVars>>
    BY Parts, EvictsOldestStep, DestroyedIdleStep
  <1> QED  BY <1>1, <1>2, <1>3, PTL DEF LocalSpec, localVars, TakesOnlyIdle
-----------------------------------------------------------------------------
(* The files of a client, whose invariants are in FilesProofs, and the     *)
(* states of an item, whose invariants come first here.                     *)

\* A start finds the history and the preferences that were there, wherever the data was moved to and
\* whatever was imported, as long as no disk was unplugged under it, no import was cut off, no two
\* writes of the preferences overlapped, and nothing was written to the old place after a move that
\* ended before the stores were led to the new one (commands/storage.rs, settings/store.rs,
\* backup/mod.rs).
THEOREM DataFollowsManifest == LocalSpec => []DataFollows
  <1>1. LocalInit => StorageInv
    BY StorageStarts DEF LocalInit
  <1>2. StorageInv /\ [LocalNext]_localVars => StorageInv'
    BY Parts, StorageStays
  <1>3. StorageInv => DataFollows
    BY StorageServes
  <1> QED  BY <1>1, <1>2, <1>3, PTL DEF LocalSpec, localVars

\* The settings in memory and on disk are settings somebody wrote, and the same once nothing is under
\* way, unless two of an update, an import and any resets met; the identity on disk is the one in
\* memory unless its write failed.
THEOREM ConfigurationKept == LocalSpec => []ConfigSound
  <1>1. LocalInit => ConfigInv
    BY ConfigStarts DEF LocalInit
  <1>2. ConfigInv /\ [LocalNext]_localVars => ConfigInv'
    BY Parts, ConfigStays
  <1>3. ConfigInv => ConfigSound
    BY ConfigServes
  <1> QED  BY <1>1, <1>2, <1>3, PTL DEF LocalSpec, localVars

\* A thumbnail shows the version it is kept under, and a size was counted after the copy it belongs to,
\* whatever changes while they are made (clipboard/thumbnail.rs, clipboard/ingest.rs).
THEOREM DerivedMatches == LocalSpec => []DerivedIsOfItsVersion
  <1>1. LocalInit => ThumbInv /\ SizeInv
    BY ThumbStarts, SizesStart DEF LocalInit
  <1>2. ThumbInv /\ SizeInv /\ [LocalNext]_localVars => ThumbInv' /\ SizeInv'
    BY Parts, ThumbsStay, SizesStay
  <1>3. ThumbInv /\ SizeInv => DerivedIsOfItsVersion
    BY ThumbsServe, SizesServe DEF DerivedIsOfItsVersion
  <1> QED  BY <1>1, <1>2, <1>3, PTL DEF LocalSpec, localVars

\* The cells of every part keep their shape: also, the guard and the fingerprint know of nothing that
\* the clipboard never held, and no observation is newer than the state it is committed to.
THEOREM LocalTyped == LocalSpec => []LocalTypeOK
  <1> DEFINE Together == /\ CaptureShape /\ ListShape /\ HistoryInv /\ StorageInv /\ WindowInv /\ TypeOK
                         /\ ConfigInv /\ ThumbInv /\ SizeInv
  <1>1. LocalInit => Together
    <2>1. CaptureInit => ListShape
      BY CaptureAssumption DEF CaptureInit, ListShape
    <2> QED
      BY <2>1, CaptureStart, HistoryStarts, StorageStarts, WindowStarts, InitType, ConfigStarts, ThumbStarts,
         SizesStart
      DEF LocalInit
  <1>2. Together /\ [LocalNext]_localVars => Together'
    BY Parts, CaptureStays, ListsStay, HistoryStays, StorageStays, WindowStays, StepType, ConfigStays, ThumbsStay, SizesStay
  <1>3. Together => ConfigTypeOK /\ ThumbTypeOK /\ SizeTypeOK /\ StorageTypeOK /\ TypeOK /\ CaptureTypeOK
    BY CaptureServes, ConfigServes, ThumbsServe, SizesServe, StorageServes
  <1>4. Together => HistoryTypeOK
    <2> SUFFICES ASSUME HistoryInv PROVE HistoryTypeOK
      OBVIOUS
    <2>1. cleanup.at \in {"idle", "retaining", "reclaiming", "measuring", "weighing", "evicting", "evicted"}
      BY DEF HistoryInv, HistoryShape
    <2> QED  BY <2>1 DEF HistoryInv, HistoryShape, HistoryTypeOK
  <1>5. Together => LifecycleTypeOK
    <2> SUFFICES ASSUME WindowInv PROVE LifecycleTypeOK
      OBVIOUS
    <2>1. ASSUME NEW d \in due PROVE d.kind \in Timer /\ d.generation \in 0 .. generation
      BY <2>1 DEF WindowInv, WindowShape
    <2> QED  BY <2>1 DEF WindowInv, WindowShape, LifecycleTypeOK
  <1> HIDE DEF Together
  <1>6. Together => LocalTypeOK
    BY <1>3, <1>4, <1>5 DEF LocalTypeOK
  <1> QED  BY <1>1, <1>2, <1>6, PTL DEF LocalSpec, localVars
=============================================================================
