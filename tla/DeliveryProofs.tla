---------------------------- MODULE DeliveryProofs ----------------------------
(***************************************************************************)
(* What a device relies on when it exchanges events with the Hub, and what *)
(* the Hub is given by it: everything the device counts as uploaded, and   *)
(* the events of an item in their order. Proved for any number of devices  *)
(* and events, any page size and any failures.                             *)
(***************************************************************************)
EXTENDS Delivery, FiniteSetTheorems, TLAPS

-----------------------------------------------------------------------------
(* Types *)

\* A cycle that is about to start a round has one left.
Before == {"idle", "plan", "planned", "round"}
RoundsLeft ==
    \A d \in Device : cycle[d].step \in Before => cycle[d].rounds < MaxRounds

TypeInv == TypeOK /\ RoundsLeft

\* An idle cycle is a cycle.
LEMMA IdleType == Idle \in Cycle
  BY DeliveryAssumption DEF Idle, Cycle, Step, NoGoal

\* Appending keeps the types of the log.
LEMMA AppendType ==
  ASSUME TypeOK, NEW new \in SUBSET Event, NEW at \in Cursors(new), Append(new, at)
  PROVE  /\ cursorOf' \in [Event -> Nat] /\ issued' \in Nat /\ assigned' \subseteq Nat
         /\ pruned' \in Nat
  <1>1. \A e \in new : at[e] \in Nat
    BY DEF Cursors, TypeOK
  <1> QED  BY <1>1 DEF Append, TypeOK

\* Pruning keeps the types of the log.
LEMMA PruneType ==
  ASSUME TypeOK, NEW gone \in SUBSET Event, Prune(gone)
  PROVE  /\ cursorOf' \in [Event -> Nat] /\ issued' \in Nat /\ assigned' \subseteq Nat
         /\ pruned' \in Nat
  BY DEF Prune, TypeOK

\* Accepting a batch keeps the types of the log.
LEMMA AcceptType ==
  ASSUME TypeOK, NEW batch \in SUBSET Event, Accept(batch)
  PROVE  /\ cursorOf' \in [Event -> Nat] /\ issued' \in Nat /\ assigned' \subseteq Nat
         /\ pruned' \in Nat /\ published' \subseteq Event
  <1>1. CASE batch \ Retained = {}
    BY <1>1 DEF Accept, TypeOK, logVars
  <1>2. CASE batch \ Retained # {}
    <2>1. PICK at \in NextCursors(batch \ Retained) : Append(batch \ Retained, at)
      BY <1>2 DEF Accept
    <2>2. at \in Cursors(batch \ Retained)
      BY <2>1 DEF NextCursors
    <2> QED  BY <2>1, <2>2, AppendType DEF Accept, TypeOK
  <1> QED  BY <1>1, <1>2

LEMMA InitType == Init => TypeInv
  BY DeliveryAssumption, IdleType DEF Init, LogInit, TypeInv, TypeOK, RoundsLeft, Before, Idle

\* Replacing the cycle of one device.
LEMMA BecomeType ==
  ASSUME TypeInv, NEW d \in Device, NEW c \in Cycle, Become(d, c),
         c.step \in Before => c.rounds < MaxRounds
  PROVE  cycle' \in [Device -> Cycle] /\ RoundsLeft'
  BY DEF TypeInv, TypeOK, RoundsLeft, Become

\* The steps of a device.
LEMMA DeviceType ==
  ASSUME TypeInv, NEW d \in Device, DeviceStep(d)
  PROVE  TypeInv'
  <1> USE DeliveryAssumption
  <1> DEFINE c == cycle[d]
  <1>0. /\ TypeOK /\ RoundsLeft /\ c \in Cycle
    BY DEF TypeInv, TypeOK
  <1>1. CASE StartCycle(d)
    <2>1. [c EXCEPT !.step = "plan"] \in Cycle
      BY <1>0 DEF Cycle, Step
    <2>2. [c EXCEPT !.step = "round", !.at = cursor[d],
                   !.goal = IF boot[d].stage = "pending" THEN boot[d].target ELSE NoGoal] \in Cycle
      BY <1>0 DEF Cycle, Step, TypeOK
    <2>3. cycle' \in [Device -> Cycle] /\ RoundsLeft'
      BY <1>0, <1>1, <2>1, <2>2, BecomeType DEF StartCycle, Cycle, TypeInv, RoundsLeft, Before
    <2> QED
      BY <1>0, <1>1, <2>3 DEF StartCycle, TypeInv, TypeOK, logVars
  <1>2. CASE Plan(d)
    <2>1. PICK latest \in {pruned} \cup {cursorOf[e] : e \in Retained} :
             Become(d, [c EXCEPT
                !.step = IF @ = "plan" THEN "planned" ELSE "replanned",
                !.at = IF \E e \in Retained : cursorOf[e] <= pruned THEN 0 ELSE pruned,
                !.upTo = latest])
      BY <1>2 DEF Plan
    <2>2. latest \in Nat
      BY <1>0 DEF TypeOK, Retained
    <2>3. [c EXCEPT
                !.step = IF @ = "plan" THEN "planned" ELSE "replanned",
                !.at = IF \E e \in Retained : cursorOf[e] <= pruned THEN 0 ELSE pruned,
                !.upTo = latest] \in Cycle
      BY <1>0, <2>2 DEF Cycle, Step, TypeOK
    <2>4. cycle' \in [Device -> Cycle] /\ RoundsLeft'
      BY <1>0, <1>2, <2>1, <2>3, BecomeType DEF Plan, Cycle, TypeInv, RoundsLeft, Before
    <2> QED
      BY <1>0, <1>2, <2>4 DEF Plan, TypeInv, TypeOK, logVars, deviceVars
  <1>3. CASE StorePlan(d)
    <2>1. [c EXCEPT !.step = "round", !.goal = c.upTo, !.upTo = 0] \in Cycle
      BY <1>0 DEF Cycle, Step
    <2>2. [c EXCEPT !.step = "exchange", !.more = TRUE, !.batch = {}, !.upTo = 0] \in Cycle
      BY <1>0 DEF Cycle, Step
    <2>3. cycle' \in [Device -> Cycle] /\ RoundsLeft'
      BY <1>0, <1>3, <2>1, <2>2, BecomeType DEF StorePlan, Cycle, TypeInv, RoundsLeft, Before
    <2> QED
      BY <1>0, <1>3, <2>3 DEF StorePlan, TypeInv, TypeOK, logVars, Cycle
  <1>4. CASE NewRound(d)
    <2>1. c.rounds + 1 \in 0..MaxRounds
      BY <1>0, <1>4 DEF NewRound, RoundsLeft, Before, Cycle
    <2>2. NextEvents(d) \subseteq Event
      BY <1>0 DEF NextEvents, Pending, TypeOK
    <2>3. [c EXCEPT !.step = "exchange", !.rounds = @ + 1, !.pull = TRUE,
                   !.queue = NextEvents(d)] \in Cycle
      BY <1>0, <2>1, <2>2 DEF Cycle, Step
    <2>4. cycle' \in [Device -> Cycle] /\ RoundsLeft'
      BY <1>0, <1>4, <2>3, BecomeType DEF NewRound, Cycle, TypeInv, RoundsLeft, Before
    <2> QED
      BY <1>0, <1>4, <2>4 DEF NewRound, TypeInv, TypeOK, logVars, deviceVars
  <1>5. CASE \E batch \in SUBSET Event : Send(d, batch)
    <2>1. PICK batch \in SUBSET Event : Send(d, batch)
      BY <1>5
    <2>2. [c EXCEPT !.step = "sent", !.pull = FALSE, !.batch = batch] \in Cycle
      BY <1>0 DEF Cycle, Step
    <2>3. cycle' \in [Device -> Cycle] /\ RoundsLeft'
      BY <1>0, <2>1, <2>2, BecomeType DEF Send, Cycle, TypeInv, RoundsLeft, Before
    <2> QED
      BY <1>0, <2>1, <2>3 DEF Send, TypeInv, TypeOK, logVars, deviceVars
  <1>6. CASE EndRound(d)
    <2>1. [c EXCEPT !.step = IF AnotherRound(c) THEN "round" ELSE "ended"] \in Cycle
      BY <1>0 DEF Cycle, Step, AnotherRound
    <2>2. ASSUME c.error PROVE cycle' \in [Device -> Cycle] /\ RoundsLeft'
      <3>1. Become(d, Idle)
        BY <1>6, <2>2 DEF EndRound
      <3> QED  BY <3>1, BecomeType, IdleType DEF Idle, Before
    <2>3. ASSUME ~c.error PROVE cycle' \in [Device -> Cycle] /\ RoundsLeft'
      <3> DEFINE next == [c EXCEPT !.step = IF AnotherRound(c) THEN "round" ELSE "ended"]
      <3>1. Become(d, next)
        BY <1>6, <2>3 DEF EndRound
      <3>2. next.step \in Before => next.rounds < MaxRounds
        BY <1>0 DEF Cycle, AnotherRound, Before
      <3> HIDE DEF next
      <3> QED  BY <2>1, <3>1, <3>2, BecomeType DEF next
    <2>4. cycle' \in [Device -> Cycle] /\ RoundsLeft'
      BY <2>2, <2>3
    <2> QED
      BY <1>0, <1>6, <2>4 DEF EndRound, TypeInv, TypeOK, logVars, deviceVars
  <1>7. CASE FinishCycle(d)
    <2>1. cycle' \in [Device -> Cycle] /\ RoundsLeft'
      BY <1>0, <1>7, BecomeType, IdleType DEF FinishCycle, Idle, Before
    <2> QED
      BY <1>0, <1>7, <2>1 DEF FinishCycle, TypeInv, TypeOK, logVars
  <1>8. CASE Serve(d)
    <2>0. /\ cursorOf' \in [Event -> Nat] /\ issued' \in Nat /\ assigned' \subseteq Nat
          /\ pruned' \in Nat /\ published' \subseteq Event
      BY <1>0, <1>8, AcceptType DEF Serve, Cycle
    <2> DEFINE listed == Listed(cursorOf', c.at)
               page(last) == {e \in listed : cursorOf'[e] <= cursorOf'[last]}
               empty == [c EXCEPT !.step = "received", !.page = {}, !.upTo = c.at,
                                  !.more = c.queue # {}]
               full(last) == [c EXCEPT !.step = "received", !.page = page(last),
                        !.upTo = EndOfPage(cursorOf', last),
                        !.more = c.queue # {} \/ page(last) # listed \/ Cardinality(listed) >= Limit]
    <2>1. empty \in Cycle /\ empty.step = "received"
      BY <1>0 DEF Cycle, Step
    <2>2. ASSUME NEW last \in listed PROVE full(last) \in Cycle /\ full(last).step = "received"
      <3>1. page(last) \subseteq Event /\ EndOfPage(cursorOf', last) \in Nat
        BY <2>0 DEF Listed, EndOfPage
      <3>2. (c.queue # {} \/ page(last) # listed \/ Cardinality(listed) >= Limit) \in BOOLEAN
        OBVIOUS
      <3> HIDE DEF page, listed
      <3> QED  BY <1>0, <3>1, <3>2 DEF Cycle, Step
    <2>3. Become(d, empty) \/ \E last \in listed : Become(d, full(last))
      BY <1>8 DEF Serve
    <2>4. cycle' \in [Device -> Cycle] /\ RoundsLeft'
      <3> HIDE DEF empty, full
      <3> QED  BY <2>1, <2>2, <2>3, BecomeType DEF Before
    <2> QED
      BY <1>0, <1>8, <2>0, <2>4 DEF Serve, TypeInv, TypeOK, deviceVars
  <1>9. CASE ServeGap(d)
    <2>1. [c EXCEPT !.step = "gap"] \in Cycle
      BY <1>0 DEF Cycle, Step
    <2>2. cycle' \in [Device -> Cycle] /\ RoundsLeft'
      BY <1>0, <1>9, <2>1, BecomeType DEF ServeGap, Cycle, TypeInv, RoundsLeft, Before
    <2> QED
      BY <1>0, <1>9, <2>2 DEF ServeGap, TypeInv, TypeOK, logVars, deviceVars
  <1>10. CASE MarkDelivered(d)
    <2>1. [c EXCEPT !.step = "delivered"] \in Cycle
      BY <1>0 DEF Cycle, Step
    <2>2. cycle' \in [Device -> Cycle] /\ RoundsLeft'
      BY <1>0, <1>10, <2>1, BecomeType DEF MarkDelivered, Cycle, TypeInv, RoundsLeft, Before
    <2> QED
      BY <1>0, <1>10, <2>2 DEF MarkDelivered, TypeInv, TypeOK, logVars, Cycle
  <1>11. CASE StoreBatch(d)
    <2>1. PICK unapplied \in BOOLEAN :
             Become(d, [c EXCEPT !.step = "exchange", !.at = c.upTo, !.queue = @ \ c.batch,
                             !.more = @ \/ unapplied, !.batch = {}, !.page = {}, !.upTo = 0])
      BY <1>11 DEF StoreBatch
    <2>2. [c EXCEPT !.step = "exchange", !.at = c.upTo, !.queue = @ \ c.batch,
                  !.more = @ \/ unapplied, !.batch = {}, !.page = {}, !.upTo = 0] \in Cycle
      BY <1>0 DEF Cycle, Step
    <2>3. cycle' \in [Device -> Cycle] /\ RoundsLeft'
      BY <1>0, <2>1, <2>2, BecomeType DEF Cycle, Before
    <2> QED
      BY <1>0, <1>11, <2>3 DEF StoreBatch, TypeInv, TypeOK, logVars, Own, Cycle
  <1> QED
    BY <1>1, <1>2, <1>3, <1>4, <1>5, <1>6, <1>7, <1>8, <1>9, <1>10, <1>11 DEF DeviceStep

\* The end of a request that failed.
LEMMA GiveUpType ==
  ASSUME TypeInv, NEW d \in Device, NEW events \in SUBSET Event, GiveUp(d, events)
  PROVE  cycle' \in [Device -> Cycle] /\ RoundsLeft'
  <1> DEFINE next == [cycle[d] EXCEPT !.step = "exchange", !.failed = @ \cup events,
                                     !.error = TRUE, !.batch = {}]
  <1>0. cycle[d] \in Cycle
    BY DEF TypeInv, TypeOK
  <1>1. next \in Cycle /\ next.step = "exchange"
    BY <1>0 DEF Cycle, Step
  <1>2. Become(d, next) \/ Become(d, Idle)
    BY DEF GiveUp
  <1>3. Idle.step \in Before => Idle.rounds < MaxRounds
    BY DeliveryAssumption DEF Idle
  <1> HIDE DEF next
  <1> QED  BY <1>1, <1>2, <1>3, BecomeType, IdleType DEF Before

\* The requests that may still arrive are requests.
LEMMA InTransitType ==
  ASSUME TypeOK, NEW d \in Device
  PROVE  InTransit(d) \subseteq Request
  BY DEF TypeOK, InTransit, Request, Cycle

LEMMA StepType == TypeInv /\ [Next]_vars => TypeInv'
  <1> SUFFICES ASSUME TypeInv, [Next]_vars PROVE TypeInv'
    OBVIOUS
  <1> USE DeliveryAssumption
  <1>0. TypeOK /\ RoundsLeft
    BY DEF TypeInv
  <1>1. ASSUME NEW e \in Event, Record(e) PROVE TypeInv'
    BY <1>0, <1>1 DEF Record, TypeInv, TypeOK, RoundsLeft, logVars
  <1>2. ASSUME NEW d \in Device, DeviceStep(d) PROVE TypeInv'
    BY <1>2, DeviceType
  <1>3. ASSUME NEW d \in Device, NEW e \in Event, Forget(d, e) PROVE TypeInv'
    BY <1>0, <1>3 DEF Forget, TypeInv, TypeOK, RoundsLeft, logVars
  <1>4. ASSUME NEW r \in late, ServeLate(r) PROVE TypeInv'
    <2>1. r.batch \in SUBSET Event
      BY <1>0 DEF TypeOK, Request
    <2>2. /\ cursorOf' \in [Event -> Nat] /\ issued' \in Nat /\ assigned' \subseteq Nat
          /\ pruned' \in Nat /\ published' \subseteq Event
      BY <1>0, <1>4, <2>1, AcceptType DEF ServeLate, TypeOK, logVars
    <2> QED
      BY <1>0, <1>4, <2>2 DEF ServeLate, TypeInv, TypeOK, RoundsLeft, deviceVars
  <1>5. CASE PruneLog
    <2>1. PICK gone \in SUBSET Retained : Prune(gone)
      BY <1>5 DEF PruneLog
    <2>2. /\ cursorOf' \in [Event -> Nat] /\ issued' \in Nat /\ assigned' \subseteq Nat
          /\ pruned' \in Nat
      BY <1>0, <2>1, PruneType DEF Retained
    <2> QED
      BY <1>0, <1>5, <2>2 DEF PruneLog, TypeInv, TypeOK, RoundsLeft, deviceVars
  <1>6. ASSUME NEW e \in Event, OtherDevice(e) PROVE TypeInv'
    <2>1. /\ cursorOf' \in [Event -> Nat] /\ issued' \in Nat /\ assigned' \subseteq Nat
          /\ pruned' \in Nat /\ published' \subseteq Event
      BY <1>0, <1>6, AcceptType DEF OtherDevice
    <2> QED
      BY <1>0, <1>6, <2>1 DEF OtherDevice, TypeInv, TypeOK, RoundsLeft, deviceVars
  <1>7. ASSUME NEW d \in Device, NEW events \in SUBSET Event, FailAttachment(d, events)
        PROVE  TypeInv'
    BY <1>0, <1>7, GiveUpType
       DEF FailAttachment, Failing, TypeInv, TypeOK, logVars, deviceVars
  <1>8. ASSUME NEW d \in Device, Timeout(d) PROVE TypeInv'
    <2>1. cycle' \in [Device -> Cycle] /\ RoundsLeft'
      BY <1>0, <1>8, GiveUpType DEF Timeout, TypeOK, Cycle
    <2> QED
      BY <1>0, <1>8, <2>1, InTransitType
         DEF Timeout, Failing, TypeInv, TypeOK, logVars, deviceVars
  <1>9. ASSUME NEW d \in Device, Refuse(d) PROVE TypeInv'
    <2>1. cycle' \in [Device -> Cycle] /\ RoundsLeft'
      BY <1>0, <1>9, GiveUpType DEF Refuse, TypeOK, Cycle
    <2> QED
      BY <1>0, <1>9, <2>1 DEF Refuse, Failing, TypeInv, TypeOK, logVars, deviceVars
  <1>10. ASSUME NEW d \in Device, RetentionFirst(d) PROVE TypeInv'
    <2>0. cycle[d] \in Cycle
      BY <1>0 DEF TypeOK
    <2>1. [cycle[d] EXCEPT !.step = "ended"] \in Cycle
      BY <2>0 DEF Cycle, Step
    <2>2. cycle' \in [Device -> Cycle] /\ RoundsLeft'
      BY <1>0, <1>10, <2>1, BecomeType DEF RetentionFirst, TypeOK, Cycle, Before
    <2> QED
      BY <1>0, <1>10, <2>2 DEF RetentionFirst, Failing, TypeInv, TypeOK, logVars, deviceVars
  <1>11. ASSUME NEW d \in Device, Crash(d) PROVE TypeInv'
    <2>1. cycle' \in [Device -> Cycle] /\ RoundsLeft'
      BY <1>0, <1>11, BecomeType, IdleType DEF Crash, Idle, Before
    <2> QED
      BY <1>0, <1>11, <2>1, InTransitType
         DEF Crash, Failing, TypeInv, TypeOK, logVars, deviceVars
  <1>12. CASE UNCHANGED vars
    BY <1>0, <1>12 DEF vars, TypeInv, TypeOK, RoundsLeft, logVars, deviceVars
  <1> QED
    BY <1>1, <1>2, <1>3, <1>4, <1>5, <1>6, <1>7, <1>8, <1>9, <1>10, <1>11, <1>12 DEF Next

\* No cursor, round count or queue of a device ever leaves its type: the rounds
\* of a cycle stay within the limit, and no queue holds anything but events.
THEOREM TypeCorrect == Spec => []TypeOK
  <1>1. Spec => []TypeInv
    BY InitType, StepType, PTL DEF Spec
  <1> QED  BY <1>1, PTL DEF TypeInv

-----------------------------------------------------------------------------
(* No event is skipped *)

\* The cursors handed out are at most the last one issued.
LogSound == pruned <= issued /\ \A e \in Event : cursorOf[e] <= issued

\* The exchanges of a cycle use the stored cursor; a plan starts below every
\* retained event; a page holds what the device has not seen up to its end.
Position(d) ==
    LET c == cycle[d]
    IN  /\ cursor[d] <= issued
        /\ \A e \in Retained : cursorOf[e] <= cursor[d] => e \in seen[d]
        /\ c.step \in {"round", "exchange", "sent", "gap", "received", "delivered"}
              => c.at = cursor[d]
        /\ c.step \in {"planned", "replanned"}
              => c.at <= issued /\ \A e \in Retained : cursorOf[e] > c.at
        /\ c.step \in {"received", "delivered"}
              => /\ c.upTo <= issued
                 /\ \A e \in Retained : cursorOf[e] <= c.upTo => e \in seen[d] \cup c.page

SkipInv == LogSound /\ \A d \in Device : Position(d)

\* What a step may do to the log: it grows above the last cursor issued, and
\* below it nothing changes but for events that are pruned.
LogGrows ==
    /\ issued <= issued' /\ pruned' <= issued'
    /\ \A e \in Event :
          /\ cursorOf'[e] <= issued'
          /\ cursorOf'[e] = 0 \/ cursorOf'[e] > issued \/ cursorOf'[e] = cursorOf[e]

LEMMA SameLogGrows ==
  ASSUME TypeOK, LogSound, UNCHANGED logVars
  PROVE  LogGrows
  BY DEF TypeOK, LogSound, logVars, LogGrows

LEMMA AcceptGrows ==
  ASSUME TypeOK, LogSound, NEW batch \in SUBSET Event, Accept(batch)
  PROVE  LogGrows
  <1>1. CASE batch \ Retained = {}
    BY <1>1, SameLogGrows DEF Accept
  <1>2. CASE batch \ Retained # {}
    <2> DEFINE new == batch \ Retained
    <2>1. PICK at \in Cursors(new) : Append(new, at)
      BY <1>2 DEF Accept, NextCursors
    <2>2. \A e \in new : at[e] \in Nat /\ at[e] > issued
      BY CursorAssumption DEF Cursors, TypeOK
    <2>3. issued' \in Nat /\ issued' > issued
      BY <2>1, <2>2 DEF Append
    <2> QED
      BY <2>1, <2>2, <2>3 DEF Append, TypeOK, LogSound, LogGrows
  <1> QED  BY <1>1, <1>2

LEMMA PruneGrows ==
  ASSUME TypeOK, LogSound, PruneLog
  PROVE  LogGrows
  <1>1. PICK gone \in SUBSET Retained : Prune(gone)
    BY DEF PruneLog
  <1> QED  BY <1>1 DEF Prune, Retained, TypeOK, LogSound, LogGrows

\* A device that a step leaves alone, but for what it has seen, keeps its position.
Kept(d) == cycle'[d] = cycle[d] /\ cursor'[d] = cursor[d] /\ seen[d] \subseteq seen'[d]

LEMMA KeptPosition ==
  ASSUME TypeInv, TypeInv', LogGrows, NEW d \in Device, Position(d), Kept(d)
  PROVE  Position(d)'
  <1>1. /\ cursor[d] \in Nat /\ cursor'[d] \in Nat /\ issued \in Nat /\ issued' \in Nat
        /\ cycle[d].at \in Nat /\ cycle[d].upTo \in Nat
        /\ \A e \in Event : cursorOf[e] \in Nat /\ cursorOf'[e] \in Nat
    BY DEF TypeInv, TypeOK, Cycle
  <1> QED  BY <1>1 DEF LogGrows, Position, Kept, Retained

LEMMA Frame ==
  ASSUME TypeInv, TypeInv', SkipInv, LogGrows, NEW d \in Device, Position(d)',
         \A x \in Device \ {d} : Kept(x)
  PROVE  SkipInv'
  <1>1. LogSound'
    BY DEF LogGrows, LogSound
  <1>2. \A x \in Device \ {d} : Position(x)'
    BY KeptPosition DEF SkipInv
  <1> QED  BY <1>1, <1>2 DEF SkipInv

LEMMA FrameAll ==
  ASSUME TypeInv, TypeInv', SkipInv, LogGrows, \A x \in Device : Kept(x)
  PROVE  SkipInv'
  BY KeptPosition DEF LogGrows, LogSound, SkipInv

\* A cycle that only moves between steps that use the stored cursor, or to a
\* step without a position.
LEMMA SamePosition ==
  ASSUME TypeInv, TypeInv', SkipInv, LogGrows, NEW d \in Device, NEW c \in Cycle,
         Become(d, c), UNCHANGED <<cursor, seen>>,
         \/ c.step \in {"idle", "plan", "ended"}
         \/ c.step \in {"round", "exchange", "sent", "gap"} /\ c.at = cursor[d]
  PROVE  SkipInv'
  <1>1. \A x \in Device \ {d} : Kept(x)
    BY DEF Become, Kept, TypeInv, TypeOK
  <1>2. cycle'[d] = c
    BY DEF Become, TypeInv, TypeOK
  <1>3. /\ cursor[d] \in Nat /\ issued \in Nat /\ issued' \in Nat
        /\ \A e \in Event : cursorOf[e] \in Nat /\ cursorOf'[e] \in Nat
    BY DEF TypeInv, TypeOK
  <1>4. /\ cursor'[d] <= issued'
        /\ \A e \in Retained' : cursorOf'[e] <= cursor'[d] => e \in seen'[d]
    BY <1>3 DEF SkipInv, Position, LogGrows, Retained
  <1>5. Position(d)'
    BY <1>2, <1>4 DEF Position
  <1> QED  BY <1>1, <1>5, Frame

LEMMA InitSkip == Init => SkipInv
  BY DEF Init, LogInit, SkipInv, LogSound, Position, Retained, Idle

\* A page holds every retained event between the cursor and its last event.
LEMMA PageComplete ==
  ASSUME NEW log \in [Event -> Nat], NEW after \in Nat, NEW last \in Listed(log, after),
         NEW e \in Event, log[e] > after, log[e] <= log[last]
  PROVE  e \in Listed(log, after)
  <1> DEFINE above == {x \in Event : log[x] > after}
             below(y) == {x \in above : log[x] < log[y]}
  <1>1. IsFiniteSet(below(last)) /\ below(e) \subseteq below(last) /\ last \in Event
    <2>1. IsFiniteSet(above) /\ last \in Event
      BY DeliveryAssumption, FS_Subset DEF Listed
    <2> QED  BY <2>1, FS_Subset
  <1>2. Cardinality(below(e)) <= Cardinality(below(last))
    BY <1>1, FS_Subset
  <1>3. Cardinality(below(e)) \in Nat /\ Cardinality(below(last)) \in Nat
    BY <1>1, FS_Subset, FS_CardinalityType
  <1>4. Cardinality(below(last)) < Limit
    BY DEF Listed
  <1> QED  BY <1>2, <1>3, <1>4, DeliveryAssumption DEF Listed

\* Every step of a device changes the log only as above.
LEMMA DeviceGrows ==
  ASSUME TypeInv, LogSound, NEW d \in Device, DeviceStep(d)
  PROVE  LogGrows
  <1>0. TypeOK /\ cycle[d].batch \in SUBSET Event
    BY DEF TypeInv, TypeOK, Cycle
  <1>1. CASE Serve(d)
    BY <1>0, <1>1, AcceptGrows DEF Serve
  <1>2. CASE UNCHANGED logVars
    BY <1>0, <1>2, SameLogGrows
  <1> QED
    BY <1>1, <1>2
       DEF DeviceStep, StartCycle, Plan, StorePlan, NewRound, Send, EndRound, FinishCycle,
           ServeGap, MarkDelivered, StoreBatch

LEMMA DeviceSkip ==
  ASSUME TypeInv, TypeInv', SkipInv, NEW d \in Device, DeviceStep(d)
  PROVE  SkipInv'
  <1> DEFINE c == cycle[d]
  <1>0. /\ TypeOK /\ LogSound /\ LogGrows /\ Position(d)
        /\ c \in Cycle /\ cycle'[d] \in Cycle /\ cycle \in [Device -> Cycle]
    BY DeviceGrows DEF TypeInv, TypeOK, SkipInv
  <1>n. /\ issued \in Nat /\ issued' \in Nat /\ pruned \in Nat /\ cursor[d] \in Nat
        /\ c.at \in Nat /\ c.upTo \in Nat
        /\ \A e \in Event : cursorOf[e] \in Nat /\ cursorOf'[e] \in Nat
    BY <1>0 DEF TypeInv, TypeOK, Cycle
  <1>1. CASE StartCycle(d)
    <2>1. Become(d, cycle'[d])
      BY <1>0, <1>1 DEF StartCycle, Become
    <2>2. \/ cycle'[d].step = "plan"
          \/ cycle'[d].step = "round" /\ cycle'[d].at = cursor[d]
      <3>1. CASE boot[d].stage = "none" /\ cursor[d] = 0
        <4>1. cycle' = [cycle EXCEPT ![d] = [c EXCEPT !.step = "plan"]]
          BY <1>1, <3>1 DEF StartCycle, Become
        <4> QED  BY <1>0, <4>1 DEF Cycle
      <3>2. CASE ~(boot[d].stage = "none" /\ cursor[d] = 0)
        <4>1. PICK goal : cycle' = [cycle EXCEPT ![d] = [c EXCEPT !.step = "round",
                                      !.at = cursor[d], !.goal = goal]]
          BY <1>1, <3>2 DEF StartCycle, Become
        <4> QED  BY <1>0, <4>1 DEF Cycle
      <3> QED  BY <3>1, <3>2
    <2> QED
      BY <1>0, <1>1, <2>1, <2>2, SamePosition DEF StartCycle
  <1>2. CASE Plan(d)
    <2>1. PICK latest \in {pruned} \cup {cursorOf[e] : e \in Retained} :
             Become(d, [c EXCEPT
                !.step = IF @ = "plan" THEN "planned" ELSE "replanned",
                !.at = IF \E e \in Retained : cursorOf[e] <= pruned THEN 0 ELSE pruned,
                !.upTo = latest])
      BY <1>2 DEF Plan
    <2>2. /\ cycle'[d].step \in {"planned", "replanned"}
          /\ cycle'[d].at = IF \E e \in Retained : cursorOf[e] <= pruned THEN 0 ELSE pruned
      BY <1>0, <2>1 DEF Become, Cycle
    <2>3. UNCHANGED <<logVars, cursor, seen>> /\ \A x \in Device \ {d} : Kept(x)
      BY <1>0, <1>2 DEF Plan, Become, Kept, deviceVars
    <2>4. cycle'[d].at <= issued /\ \A e \in Retained : cursorOf[e] > cycle'[d].at
      BY <1>0, <1>n, <2>2 DEF LogSound, Retained
    <2>5. Position(d)'
      BY <1>0, <1>n, <2>2, <2>3, <2>4 DEF Position, Retained, logVars
    <2> QED
      BY <1>0, <2>3, <2>5, Frame
  <1>3. CASE StorePlan(d)
    <2>1. /\ cursor'[d] = c.at /\ cycle'[d].at = c.at
          /\ cycle'[d].step \in {"round", "exchange"}
      BY <1>0, <1>3 DEF StorePlan, Become, Cycle, TypeOK
    <2>2. UNCHANGED <<logVars, seen>> /\ \A x \in Device \ {d} : Kept(x)
      BY <1>0, <1>3 DEF StorePlan, Become, Kept, TypeOK
    <2>3. c.at <= issued /\ \A e \in Retained : cursorOf[e] > c.at
      BY <1>0, <1>3 DEF StorePlan, Position
    <2>4. Position(d)'
      BY <1>0, <1>n, <2>1, <2>2, <2>3 DEF Position, Retained, logVars
    <2> QED
      BY <1>0, <2>2, <2>4, Frame
  <1>4. CASE NewRound(d)
    <2>1. PICK next : next = cycle'[d]
      OBVIOUS
    <2>2. Become(d, next) /\ next.step = "exchange" /\ next.at = c.at
      BY <1>0, <1>4, <2>1 DEF NewRound, Become, Cycle
    <2>3. c.at = cursor[d]
      BY <1>0, <1>4 DEF NewRound, Position
    <2> QED
      BY <1>0, <1>4, <2>1, <2>2, <2>3, SamePosition DEF NewRound, deviceVars
  <1>5. CASE \E batch \in SUBSET Event : Send(d, batch)
    <2>1. PICK batch \in SUBSET Event : Send(d, batch)
      BY <1>5
    <2>2. /\ Become(d, cycle'[d]) /\ cycle'[d].step = "sent" /\ cycle'[d].at = c.at
      BY <1>0, <2>1 DEF Send, Become, Cycle
    <2>3. c.at = cursor[d]
      BY <1>0, <2>1 DEF Send, Position
    <2> QED
      BY <1>0, <2>1, <2>2, <2>3, SamePosition DEF Send, deviceVars
  <1>6. CASE EndRound(d)
    <2>1. Become(d, cycle'[d])
      BY <1>0, <1>6 DEF EndRound, Become
    <2>2. \/ cycle'[d].step \in {"idle", "ended"}
          \/ cycle'[d].step = "round" /\ cycle'[d].at = c.at
      BY <1>0, <1>6 DEF EndRound, Become, Cycle, Idle
    <2>3. c.at = cursor[d]
      BY <1>0, <1>6 DEF EndRound, Position
    <2> QED
      BY <1>0, <1>6, <2>1, <2>2, <2>3, SamePosition DEF EndRound, deviceVars
  <1>7. CASE FinishCycle(d)
    BY <1>0, <1>7, IdleType, SamePosition DEF FinishCycle, Idle
  <1>8. CASE Serve(d)
    <2> DEFINE listed == Listed(cursorOf', c.at)
               page(last) == {e \in listed : cursorOf'[e] <= cursorOf'[last]}
    <2>0. /\ UNCHANGED <<cursor, seen>> /\ \A x \in Device \ {d} : Kept(x)
          /\ cursorOf' \in [Event -> Nat] /\ c.at = cursor[d]
      BY <1>0, <1>8 DEF Serve, deviceVars, Kept, Become, TypeInv, TypeOK, Position
    <2>1. \A e \in Retained' : cursorOf'[e] <= cursor[d] => e \in seen[d]
      BY <1>0, <1>n DEF LogGrows, Position, Retained
    <2>2. ASSUME listed = {}, cycle'[d].step = "received", cycle'[d].at = c.at,
                 cycle'[d].upTo = c.at
          PROVE  Position(d)'
      <3>1. cursor'[d] = cursor[d] /\ cursor[d] <= issued' /\ seen'[d] = seen[d]
        BY <1>0, <1>n, <2>0 DEF Position, LogGrows
      <3> QED  BY <2>0, <2>1, <2>2, <3>1 DEF Position
    <2>3. ASSUME NEW last \in listed, cycle'[d].step = "received", cycle'[d].at = c.at,
                 cycle'[d].page = page(last), cycle'[d].upTo = cursorOf'[last]
          PROVE  Position(d)'
      <3>1. \A e \in Retained' : cursorOf'[e] <= cursorOf'[last] => e \in seen[d] \cup page(last)
        BY <1>n, <2>0, <2>1, PageComplete DEF Retained
      <3>2. cursorOf'[last] <= issued'
        BY <1>0 DEF LogGrows, Listed
      <3>3. cursor'[d] = cursor[d] /\ cursor[d] <= issued' /\ seen'[d] = seen[d]
        BY <1>0, <1>n, <2>0 DEF Position, LogGrows
      <3> HIDE DEF page
      <3> QED  BY <2>0, <2>1, <2>3, <3>1, <3>2, <3>3 DEF Position
    <2>4. /\ cycle'[d].step = "received" /\ cycle'[d].at = c.at
          /\ \/ listed = {} /\ cycle'[d].upTo = c.at
             \/ \E last \in listed : /\ cycle'[d].page = page(last)
                                     /\ cycle'[d].upTo = cursorOf'[last]
      <3>1. CASE /\ listed = {}
                 /\ Become(d, [c EXCEPT !.step = "received", !.page = {}, !.upTo = c.at,
                                        !.more = c.queue # {}])
        BY <1>0, <3>1 DEF Become, Cycle
      <3>2. ASSUME NEW last \in listed, NEW more,
                   Become(d, [c EXCEPT !.step = "received", !.page = page(last),
                        !.upTo = EndOfPage(cursorOf', last), !.more = more])
            PROVE  /\ cycle'[d].step = "received" /\ cycle'[d].at = c.at
                   /\ cycle'[d].page = page(last) /\ cycle'[d].upTo = cursorOf'[last]
        <4> HIDE DEF page, listed
        <4> QED  BY <1>0, <3>2 DEF Become, Cycle, EndOfPage
      <3> QED  BY <1>8, <3>1, <3>2 DEF Serve
    <2> HIDE DEF listed, page
    <2> QED
      BY <1>0, <2>0, <2>2, <2>3, <2>4, Frame
  <1>9. CASE ServeGap(d)
    <2>1. Become(d, cycle'[d]) /\ cycle'[d].step = "gap" /\ cycle'[d].at = c.at
      BY <1>0, <1>9 DEF ServeGap, Become, Cycle
    <2>2. c.at = cursor[d]
      BY <1>0, <1>9 DEF ServeGap, Position
    <2> QED
      BY <1>0, <1>9, <2>1, <2>2, SamePosition DEF ServeGap, deviceVars
  <1>10. CASE MarkDelivered(d)
    <2>1. /\ cycle'[d].step = "delivered" /\ cycle'[d].at = c.at
          /\ cycle'[d].page = c.page /\ cycle'[d].upTo = c.upTo
      BY <1>0, <1>10 DEF MarkDelivered, Become, Cycle
    <2>2. UNCHANGED <<logVars, cursor, seen>> /\ \A x \in Device \ {d} : Kept(x)
      BY <1>0, <1>10 DEF MarkDelivered, Become, Kept
    <2>3. Position(d)'
      BY <1>0, <1>n, <1>10, <2>1, <2>2 DEF MarkDelivered, Position, Retained, logVars
    <2> QED
      BY <1>0, <2>2, <2>3, Frame
  <1>11. CASE StoreBatch(d)
    <2>1. /\ cycle'[d].step = "exchange" /\ cycle'[d].at = c.upTo
          /\ cursor'[d] = c.upTo /\ seen'[d] = seen[d] \cup c.page
      BY <1>0, <1>11 DEF StoreBatch, Become, Cycle, TypeOK
    <2>2. UNCHANGED logVars /\ \A x \in Device \ {d} : Kept(x)
      BY <1>0, <1>11 DEF StoreBatch, Become, Kept, TypeOK
    <2>3. c.upTo <= issued /\ \A e \in Retained : cursorOf[e] <= c.upTo => e \in seen[d] \cup c.page
      BY <1>0, <1>11 DEF StoreBatch, Position
    <2>4. Position(d)'
      BY <1>0, <1>n, <2>1, <2>2, <2>3 DEF Position, Retained, logVars
    <2> QED
      BY <1>0, <2>2, <2>4, Frame
  <1> QED
    BY <1>1, <1>2, <1>3, <1>4, <1>5, <1>6, <1>7, <1>8, <1>9, <1>10, <1>11 DEF DeviceStep

\* After a failure the round goes on from the stored cursor, or the cycle is over.
LEMMA GiveUpSkip ==
  ASSUME TypeInv, TypeInv', SkipInv, LogGrows, NEW d \in Device,
         NEW events \in SUBSET Event, GiveUp(d, events),
         cycle[d].step \in {"exchange", "sent", "gap"}, UNCHANGED <<cursor, seen>>
  PROVE  SkipInv'
  <1> DEFINE next == [cycle[d] EXCEPT !.step = "exchange", !.failed = @ \cup events,
                                     !.error = TRUE, !.batch = {}]
  <1>0. cycle[d] \in Cycle /\ cycle[d].at = cursor[d]
    BY DEF TypeInv, TypeOK, SkipInv, Position
  <1>1. next \in Cycle /\ next.step = "exchange" /\ next.at = cursor[d]
    BY <1>0 DEF Cycle, Step
  <1>2. Become(d, next) \/ Become(d, Idle)
    BY DEF GiveUp
  <1>3. Idle \in Cycle /\ Idle.step = "idle"
    BY IdleType DEF Idle
  <1> HIDE DEF next
  <1> QED  BY <1>1, <1>2, <1>3, SamePosition

LEMMA StepSkip == TypeInv /\ TypeInv' /\ SkipInv /\ [Next]_vars => SkipInv'
  <1> SUFFICES ASSUME TypeInv, TypeInv', SkipInv, [Next]_vars PROVE SkipInv'
    OBVIOUS
  <1>0. TypeOK /\ LogSound
    BY DEF TypeInv, SkipInv
  <1>1. ASSUME NEW e \in Event, Record(e) PROVE SkipInv'
    <2>1. LogGrows /\ \A x \in Device : Kept(x)
      BY <1>0, <1>1, SameLogGrows DEF Record, Kept, TypeOK
    <2> QED  BY <2>1, FrameAll
  <1>2. ASSUME NEW d \in Device, DeviceStep(d) PROVE SkipInv'
    BY <1>2, DeviceSkip
  <1>3. ASSUME NEW d \in Device, NEW e \in Event, Forget(d, e) PROVE SkipInv'
    <2>1. LogGrows /\ \A x \in Device : Kept(x)
      BY <1>0, <1>3, SameLogGrows DEF Forget, Kept
    <2> QED  BY <2>1, FrameAll
  <1>4. ASSUME NEW r \in late, ServeLate(r) PROVE SkipInv'
    <2>1. r.batch \in SUBSET Event
      BY <1>0 DEF TypeOK, Request
    <2>2. LogGrows /\ \A x \in Device : Kept(x)
      BY <1>0, <1>4, <2>1, SameLogGrows, AcceptGrows DEF ServeLate, Kept, deviceVars
    <2> QED  BY <2>2, FrameAll
  <1>5. CASE PruneLog
    <2>1. LogGrows /\ \A x \in Device : Kept(x)
      BY <1>0, <1>5, PruneGrows DEF PruneLog, Kept, deviceVars
    <2> QED  BY <2>1, FrameAll
  <1>6. ASSUME NEW e \in Event, OtherDevice(e) PROVE SkipInv'
    <2>1. LogGrows /\ \A x \in Device : Kept(x)
      BY <1>0, <1>6, AcceptGrows DEF OtherDevice, Kept, deviceVars
    <2> QED  BY <2>1, FrameAll
  <1>7. ASSUME Failing PROVE LogGrows /\ UNCHANGED <<cursor, seen>>
    BY <1>0, <1>7, SameLogGrows DEF Failing, deviceVars
  <1>8. ASSUME NEW d \in Device, NEW events \in SUBSET Event, FailAttachment(d, events)
        PROVE  SkipInv'
    BY <1>7, <1>8, GiveUpSkip DEF FailAttachment
  <1>9. ASSUME NEW d \in Device, Timeout(d) \/ Refuse(d) PROVE SkipInv'
    <2>1. cycle[d].batch \in SUBSET Event
      BY <1>0 DEF TypeOK, Cycle
    <2> QED  BY <1>7, <1>9, <2>1, GiveUpSkip DEF Timeout, Refuse
  <1>10. ASSUME NEW d \in Device, RetentionFirst(d) PROVE SkipInv'
    <2>0. cycle[d] \in Cycle
      BY <1>0 DEF TypeOK
    <2> DEFINE next == [cycle[d] EXCEPT !.step = "ended"]
    <2>1. next \in Cycle /\ next.step = "ended"
      BY <2>0 DEF Cycle, Step
    <2>2. Become(d, next)
      BY <1>10 DEF RetentionFirst
    <2> HIDE DEF next
    <2> QED  BY <1>7, <1>10, <2>1, <2>2, SamePosition DEF RetentionFirst
  <1>11. ASSUME NEW d \in Device, Crash(d) PROVE SkipInv'
    <2>1. Idle \in Cycle /\ Idle.step = "idle"
      BY IdleType DEF Idle
    <2> QED  BY <1>7, <1>11, <2>1, SamePosition DEF Crash
  <1>12. CASE UNCHANGED vars
    <2>1. LogGrows /\ \A x \in Device : Kept(x)
      BY <1>0, <1>12, SameLogGrows DEF vars, Kept, deviceVars
    <2> QED  BY <2>1, FrameAll
  <1> QED
    BY <1>1, <1>2, <1>3, <1>4, <1>5, <1>6, <1>8, <1>9, <1>10, <1>11, <1>12 DEF Next

\* A device has stored every event of the log up to its cursor, for any number of
\* devices and events, any page size and any interleaving of cycles, pruning,
\* lost and late requests and crashes.
THEOREM NothingSkipped == Spec => []NoSkip
  <1>1. SkipInv => NoSkip
    BY DEF SkipInv, Position, NoSkip
  <1>2. Spec => []TypeInv
    BY InitType, StepType, PTL DEF Spec
  <1> QED  BY <1>1, <1>2, InitSkip, StepSkip, PTL DEF Spec

-----------------------------------------------------------------------------
(* What is confirmed was taken *)

\* The pages a device received and the batches it had answered hold what the Hub
\* accepted; so do its confirmations.
Taken(d) ==
    LET c == cycle[d]
    IN  /\ confirmed[d] \subseteq published
        /\ c.page \subseteq published
        /\ c.step \in {"received", "delivered"} => c.batch \subseteq published

TakenInv == Retained \subseteq published /\ \A d \in Device : Taken(d)

\* The log holds only what the Hub accepted, and the history only grows.
LogTaken == published \subseteq published' /\ Retained' \subseteq published'

LEMMA AcceptTaken ==
  ASSUME TypeInv, TakenInv, NEW batch \in SUBSET Event, Accept(batch)
  PROVE  LogTaken
  <1>1. CASE batch \ Retained = {}
    BY <1>1 DEF Accept, TakenInv, LogTaken, Retained, logVars
  <1>2. CASE batch \ Retained # {}
    BY <1>2 DEF Accept, Append, TakenInv, LogTaken, Retained, TypeInv, TypeOK
  <1> QED  BY <1>1, <1>2

LEMMA PruneTaken ==
  ASSUME TypeInv, TakenInv, PruneLog
  PROVE  LogTaken
  BY DEF PruneLog, Prune, TakenInv, LogTaken, Retained, TypeInv, TypeOK

\* A step that replaces at most the cycle of d.
LEMMA BecomeTaken ==
  ASSUME TypeInv, TakenInv, LogTaken, UNCHANGED confirmed,
         NEW d \in Device, NEW c \in Cycle, Become(d, c), c.page \subseteq published',
         c.step \in {"received", "delivered"} => c.batch \subseteq published'
  PROVE  TakenInv'
  <1>1. cycle'[d] = c /\ \A x \in Device \ {d} : cycle'[x] = cycle[x]
    BY DEF Become, TypeInv, TypeOK
  <1> QED  BY <1>1 DEF TakenInv, Taken, LogTaken

\* A step that leaves the cycles alone.
LEMMA SameTaken ==
  ASSUME TakenInv, LogTaken, UNCHANGED cycle, \A d \in Device : confirmed'[d] \subseteq published'
  PROVE  TakenInv'
  BY DEF TakenInv, Taken, LogTaken

LEMMA InitTaken == Init => TakenInv
  BY DEF Init, LogInit, TakenInv, Taken, Retained, Idle

LEMMA DeviceTaken ==
  ASSUME TypeInv, TypeInv', TakenInv, NEW d \in Device, DeviceStep(d)
  PROVE  TakenInv'
  <1> DEFINE c == cycle[d]
  <1>0. /\ c \in Cycle /\ cycle'[d] \in Cycle /\ cycle \in [Device -> Cycle]
        /\ c.page \subseteq published /\ confirmed[d] \subseteq published /\ Taken(d)
        /\ confirmed \in [Device -> SUBSET Event]
    BY DEF TypeInv, TypeOK, TakenInv, Taken
  <1>1. ASSUME UNCHANGED <<logVars, published>> PROVE LogTaken
    BY <1>1 DEF logVars, LogTaken, TakenInv, Retained
  <1>2. ASSUME UNCHANGED <<logVars, published, confirmed>>, Become(d, cycle'[d]),
               cycle'[d].page \subseteq c.page, cycle'[d].step \notin {"received", "delivered"}
        PROVE  TakenInv'
    BY <1>0, <1>1, <1>2, BecomeTaken
  <1>3. CASE StartCycle(d)
    <2>1. Become(d, cycle'[d])
      BY <1>0, <1>3 DEF StartCycle, Become
    <2>2. cycle'[d].page = c.page /\ cycle'[d].step \in {"plan", "round"}
      <3>1. CASE boot[d].stage = "none" /\ cursor[d] = 0
        <4>1. cycle' = [cycle EXCEPT ![d] = [c EXCEPT !.step = "plan"]]
          BY <1>3, <3>1 DEF StartCycle, Become
        <4> QED  BY <1>0, <4>1 DEF Cycle
      <3>2. CASE ~(boot[d].stage = "none" /\ cursor[d] = 0)
        <4>1. PICK goal : cycle' = [cycle EXCEPT ![d] = [c EXCEPT !.step = "round",
                                      !.at = cursor[d], !.goal = goal]]
          BY <1>3, <3>2 DEF StartCycle, Become
        <4> QED  BY <1>0, <4>1 DEF Cycle
      <3> QED  BY <3>1, <3>2
    <2> QED  BY <1>2, <1>3, <2>1, <2>2 DEF StartCycle
  <1>4. CASE Plan(d)
    <2>1. PICK at, latest : Become(d, [c EXCEPT
                !.step = IF @ = "plan" THEN "planned" ELSE "replanned",
                !.at = at, !.upTo = latest])
      BY <1>4 DEF Plan
    <2>2. /\ Become(d, cycle'[d]) /\ cycle'[d].page = c.page
          /\ cycle'[d].step \in {"planned", "replanned"}
      BY <1>0, <2>1 DEF Become, Cycle
    <2> QED  BY <1>2, <1>4, <2>2 DEF Plan, deviceVars
  <1>5. CASE StorePlan(d)
    <2>1. /\ Become(d, cycle'[d]) /\ cycle'[d].page = c.page
          /\ cycle'[d].step \in {"round", "exchange"}
      BY <1>0, <1>5 DEF StorePlan, Become, Cycle
    <2> QED  BY <1>2, <1>5, <2>1 DEF StorePlan
  <1>6. CASE NewRound(d)
    <2>1. Become(d, cycle'[d]) /\ cycle'[d].page = c.page /\ cycle'[d].step = "exchange"
      BY <1>0, <1>6 DEF NewRound, Become, Cycle
    <2> QED  BY <1>2, <1>6, <2>1 DEF NewRound, deviceVars
  <1>7. CASE \E batch \in SUBSET Event : Send(d, batch)
    <2>1. Become(d, cycle'[d]) /\ cycle'[d].page = c.page /\ cycle'[d].step = "sent"
      BY <1>0, <1>7 DEF Send, Become, Cycle
    <2> QED  BY <1>2, <1>7, <2>1 DEF Send, deviceVars
  <1>8. CASE EndRound(d)
    <2>1. Become(d, cycle'[d]) /\ cycle'[d].page \subseteq c.page
          /\ cycle'[d].step \in {"idle", "round", "ended"}
      BY <1>0, <1>8 DEF EndRound, Become, Cycle, Idle
    <2> QED  BY <1>2, <1>8, <2>1 DEF EndRound, deviceVars
  <1>9. CASE FinishCycle(d)
    <2>1. Become(d, cycle'[d]) /\ cycle'[d].page = {} /\ cycle'[d].step = "idle"
      BY <1>0, <1>9 DEF FinishCycle, Become, Idle
    <2> QED  BY <1>2, <1>9, <2>1 DEF FinishCycle
  <1>10. CASE Serve(d)
    <2> DEFINE listed == Listed(cursorOf', c.at)
               page(last) == {e \in listed : cursorOf'[e] <= cursorOf'[last]}
    <2>1. LogTaken /\ c.batch \subseteq published' /\ UNCHANGED confirmed
      BY <1>0, <1>10, AcceptTaken DEF Serve, Accept, deviceVars, Cycle
    <2>2. listed \subseteq published'
      <3>1. c.at \in Nat /\ cursorOf' \in [Event -> Nat]
        BY <1>0 DEF Cycle, TypeInv, TypeOK
      <3> QED  BY <2>1, <3>1 DEF LogTaken, Listed, Retained
    <2>3. Become(d, cycle'[d]) /\ cycle'[d].page \subseteq listed /\ cycle'[d].batch = c.batch
      <3>1. ASSUME NEW upTo, NEW more, NEW part \in SUBSET listed,
                   Become(d, [c EXCEPT !.step = "received", !.page = part, !.upTo = upTo,
                                      !.more = more])
            PROVE  Become(d, cycle'[d]) /\ cycle'[d].page \subseteq listed /\ cycle'[d].batch = c.batch
        <4> HIDE DEF listed
        <4> QED  BY <1>0, <3>1 DEF Become, Cycle
      <3>2. \E upTo, more : \E part \in SUBSET listed :
                   Become(d, [c EXCEPT !.step = "received", !.page = part, !.upTo = upTo,
                                      !.more = more])
        <4>1. CASE Become(d, [c EXCEPT !.step = "received", !.page = {}, !.upTo = c.at,
                                        !.more = c.queue # {}])
          BY <4>1
        <4>2. ASSUME NEW last \in listed, NEW more,
                   Become(d, [c EXCEPT !.step = "received", !.page = page(last),
                        !.upTo = EndOfPage(cursorOf', last), !.more = more])
              PROVE  \E upTo, m : \E part \in SUBSET listed :
                   Become(d, [c EXCEPT !.step = "received", !.page = part, !.upTo = upTo,
                                      !.more = m])
          BY <4>2
        <4> QED  BY <1>10, <4>1, <4>2 DEF Serve
      <3> HIDE DEF listed
      <3> QED  BY <3>1, <3>2
    <2> HIDE DEF listed
    <2> QED  BY <1>0, <2>1, <2>2, <2>3, BecomeTaken
  <1>11. CASE ServeGap(d)
    <2>1. Become(d, cycle'[d]) /\ cycle'[d].page = c.page /\ cycle'[d].step = "gap"
      BY <1>0, <1>11 DEF ServeGap, Become, Cycle
    <2> QED  BY <1>2, <1>11, <2>1 DEF ServeGap, deviceVars
  <1>12. CASE MarkDelivered(d)
    <2>1. /\ cycle'[d].page = c.page /\ cycle'[d].batch = c.batch
          /\ c.batch \subseteq published /\ UNCHANGED published
          /\ \A x \in Device \ {d} : cycle'[x] = cycle[x] /\ confirmed'[x] = confirmed[x]
          /\ confirmed'[d] = confirmed[d] \cup c.batch
      BY <1>0, <1>12 DEF MarkDelivered, Become, Cycle, Taken
    <2>2. LogTaken
      BY <1>1, <1>12 DEF MarkDelivered
    <2> QED  BY <1>0, <2>1, <2>2 DEF TakenInv, Taken, LogTaken
  <1>13. CASE StoreBatch(d)
    <2>1. /\ cycle'[d].page = {} /\ cycle'[d].step = "exchange" /\ UNCHANGED published
          /\ \A x \in Device \ {d} : cycle'[x] = cycle[x] /\ confirmed'[x] = confirmed[x]
          /\ confirmed'[d] \subseteq confirmed[d] \cup c.page
      BY <1>0, <1>13 DEF StoreBatch, Become, Cycle
    <2>2. LogTaken
      BY <1>1, <1>13 DEF StoreBatch
    <2> QED  BY <1>0, <2>1, <2>2 DEF TakenInv, Taken, LogTaken
  <1> QED
    BY <1>3, <1>4, <1>5, <1>6, <1>7, <1>8, <1>9, <1>10, <1>11, <1>12, <1>13 DEF DeviceStep

\* A failing step ends the cycle or lets it go on with the same page.
LEMMA GiveUpTaken ==
  ASSUME TypeInv, TakenInv, LogTaken, UNCHANGED confirmed,
         NEW d \in Device, NEW events \in SUBSET Event, GiveUp(d, events)
  PROVE  TakenInv'
  <1> DEFINE next == [cycle[d] EXCEPT !.step = "exchange", !.failed = @ \cup events,
                                     !.error = TRUE, !.batch = {}]
  <1>0. cycle[d] \in Cycle /\ cycle[d].page \subseteq published'
    BY DEF TypeInv, TypeOK, TakenInv, Taken, LogTaken
  <1>1. next \in Cycle /\ next.step = "exchange" /\ next.page \subseteq published'
    BY <1>0 DEF Cycle, Step
  <1>2. Become(d, next) \/ Become(d, Idle)
    BY DEF GiveUp
  <1>3. Idle \in Cycle /\ Idle.step = "idle" /\ Idle.page = {}
    BY IdleType DEF Idle
  <1> HIDE DEF next
  <1> QED  BY <1>1, <1>2, <1>3, BecomeTaken

LEMMA StepTaken == TypeInv /\ TypeInv' /\ TakenInv /\ [Next]_vars => TakenInv'
  <1> SUFFICES ASSUME TypeInv, TypeInv', TakenInv, [Next]_vars PROVE TakenInv'
    OBVIOUS
  <1>0. /\ TypeOK /\ \A d \in Device : cycle[d] \in Cycle /\ confirmed[d] \subseteq published
    BY DEF TypeInv, TypeOK, TakenInv, Taken
  <1>s. ASSUME UNCHANGED <<logVars, published>> PROVE LogTaken
    BY <1>s DEF logVars, LogTaken, TakenInv, Retained
  <1>k. ASSUME LogTaken, UNCHANGED <<confirmed, cycle>> PROVE TakenInv'
    BY <1>k, <1>0, SameTaken DEF LogTaken
  <1>1. ASSUME NEW e \in Event, Record(e) PROVE TakenInv'
    BY <1>1, <1>s, <1>k DEF Record
  <1>2. ASSUME NEW d \in Device, DeviceStep(d) PROVE TakenInv'
    BY <1>2, DeviceTaken
  <1>3. ASSUME NEW d \in Device, NEW e \in Event, Forget(d, e) PROVE TakenInv'
    <2>1. LogTaken /\ UNCHANGED cycle /\ \A x \in Device : confirmed'[x] \subseteq published'
      BY <1>0, <1>3, <1>s DEF Forget, TypeOK
    <2> QED  BY <2>1, SameTaken
  <1>4. ASSUME NEW r \in late, ServeLate(r) PROVE TakenInv'
    <2>1. r.batch \in SUBSET Event
      BY <1>0 DEF TypeOK, Request
    <2> QED  BY <1>4, <2>1, <1>s, <1>k, AcceptTaken DEF ServeLate, deviceVars
  <1>5. CASE PruneLog
    BY <1>5, <1>k, PruneTaken DEF PruneLog, deviceVars
  <1>6. ASSUME NEW e \in Event, OtherDevice(e) PROVE TakenInv'
    BY <1>6, <1>k, AcceptTaken DEF OtherDevice, deviceVars
  <1>7. ASSUME Failing PROVE LogTaken /\ UNCHANGED confirmed
    BY <1>7, <1>s DEF Failing, deviceVars
  <1>8. ASSUME NEW d \in Device, NEW events \in SUBSET Event, FailAttachment(d, events)
        PROVE  TakenInv'
    BY <1>7, <1>8, GiveUpTaken DEF FailAttachment
  <1>9. ASSUME NEW d \in Device, Timeout(d) \/ Refuse(d) PROVE TakenInv'
    <2>1. cycle[d].batch \in SUBSET Event
      BY <1>0 DEF Cycle
    <2> QED  BY <1>7, <1>9, <2>1, GiveUpTaken DEF Timeout, Refuse
  <1>10. ASSUME NEW d \in Device, RetentionFirst(d) PROVE TakenInv'
    <2> DEFINE next == [cycle[d] EXCEPT !.step = "ended"]
    <2>1. next \in Cycle /\ next.step = "ended" /\ next.page = cycle[d].page
      BY <1>0 DEF Cycle, Step
    <2>2. Become(d, next) /\ cycle[d].page \subseteq published'
      BY <1>7, <1>10 DEF RetentionFirst, TakenInv, Taken, LogTaken
    <2> HIDE DEF next
    <2> QED  BY <1>7, <1>10, <2>1, <2>2, BecomeTaken DEF RetentionFirst
  <1>11. ASSUME NEW d \in Device, Crash(d) PROVE TakenInv'
    <2>1. Idle \in Cycle /\ Idle.step = "idle" /\ Idle.page = {}
      BY IdleType DEF Idle
    <2> QED  BY <1>7, <1>11, <2>1, BecomeTaken DEF Crash
  <1>12. CASE UNCHANGED vars
    BY <1>12, <1>s, <1>k DEF vars, deviceVars
  <1> QED
    BY <1>1, <1>2, <1>3, <1>4, <1>5, <1>6, <1>8, <1>9, <1>10, <1>11, <1>12 DEF Next

\* A device counts an event as uploaded only if the Hub took it, whatever became
\* of the requests and replies that carried it.
THEOREM ConfirmedTaken == Spec => []ConfirmedWereTaken
  <1>1. TakenInv => ConfirmedWereTaken
    BY DEF TakenInv, Taken, ConfirmedWereTaken
  <1>2. Spec => []TypeInv
    BY InitType, StepType, PTL DEF Spec
  <1> QED  BY <1>1, <1>2, InitTaken, StepTaken, PTL DEF Spec

-----------------------------------------------------------------------------
(* The order of the events of an item *)

Recorded(d) == Own(d) \cap seen[d]

\* What the Hub has or may still get from the device.
Submitted(d) ==
    {e \in Event : \/ e \in published /\ Origin[e] = d
                   \/ e \in cycle[d].batch
                   \/ \E r \in late : r.from = d /\ e \in r.batch}

\* What the device still has and has not had confirmed.
Cleared(d, f) == \A e \in Pending(d) : ~(Earlier(e, f) /\ Item[e] = Item[f])

\* The device records its events in their order; its queue holds every pending
\* event before one it holds; what it submitted is cleared.
Order(d) ==
    LET c == cycle[d]
    IN  /\ rows[d] \subseteq Recorded(d)
        /\ \A e \in Event, f \in Recorded(d) : Earlier(e, f) => e \in Recorded(d)
        /\ c.queue \subseteq Recorded(d)
        /\ \A f \in c.queue, e \in Pending(d) : Earlier(e, f) => e \in c.queue
        /\ Submitted(d) \subseteq Recorded(d)
        /\ \A f \in Submitted(d) : Cleared(d, f)
        /\ c.step = "delivered" => c.batch \subseteq confirmed[d]

OrderInv == \A d \in Device : Order(d)

\* A step in which a device neither records nor submits anything, and drops from
\* its queue only what is confirmed, or everything.
Quiet(d) ==
    /\ Recorded(d)' = Recorded(d) /\ rows'[d] \subseteq Recorded(d)
    /\ Pending(d)' \subseteq Pending(d)
    /\ cycle'[d].queue \subseteq cycle[d].queue
    /\ cycle'[d].queue = {} \/ cycle[d].queue \ cycle'[d].queue \subseteq confirmed'[d]
    /\ Submitted(d)' \subseteq Submitted(d)
    /\ cycle'[d].step = "delivered" => cycle'[d].batch \subseteq confirmed'[d]

LEMMA QuietOrder ==
  ASSUME NEW d \in Device, Order(d), Quiet(d)
  PROVE  Order(d)'
  <1>1. \A f \in cycle'[d].queue, e \in Pending(d)' : Earlier(e, f) => e \in cycle'[d].queue
    BY DEF Order, Quiet, Pending
  <1>2. \A f \in Submitted(d)' : Cleared(d, f)'
    BY DEF Order, Quiet, Cleared
  <1>3. \A e \in Event, f \in Recorded(d)' : Earlier(e, f) => e \in Recorded(d)'
    BY DEF Order, Quiet
  <1> QED  BY <1>1, <1>2, <1>3 DEF Order, Quiet

\* A step that does nothing with a device.
Untouched(d) ==
    /\ rows'[d] = rows[d] /\ confirmed'[d] = confirmed[d] /\ seen'[d] = seen[d]
    /\ cycle'[d] = cycle[d] /\ Submitted(d)' \subseteq Submitted(d)

LEMMA UntouchedOrder ==
  ASSUME NEW d \in Device, Order(d), Untouched(d)
  PROVE  Order(d)'
  <1>1. Recorded(d)' = Recorded(d) /\ Pending(d)' = Pending(d)
    BY DEF Untouched, Recorded, Pending
  <1>2. Quiet(d)
    BY <1>1 DEF Untouched, Quiet, Order
  <1> QED  BY <1>2, QuietOrder

LEMMA InitOrder == Init => OrderInv
  BY DEF Init, OrderInv, Order, Recorded, Submitted, Pending, Cleared, Idle

\* Recording an event: it comes after all the device recorded.
LEMMA RecordOrder ==
  ASSUME TypeInv, OrderInv, NEW e \in Event, Record(e)
  PROVE  OrderInv'
  <1> DEFINE d == Origin[e]
  <1>0. /\ d \in Device /\ Order(d) /\ e \notin seen[d]
        /\ rows \in [Device -> SUBSET Event] /\ seen \in [Device -> SUBSET Event]
    BY DEF Record, OrderInv, TypeInv, TypeOK
  <1>1. /\ rows'[d] = rows[d] \cup {e} /\ Recorded(d)' = Recorded(d) \cup {e}
        /\ UNCHANGED <<confirmed, cycle, late, published>>
        /\ \A x \in Device \ {d} : rows'[x] = rows[x] /\ seen'[x] = seen[x]
    BY <1>0 DEF Record, Recorded, Own
  <1>2. \A x \in Device \ {d} : Untouched(x)
    BY <1>1 DEF Untouched, Submitted
  <1>3. /\ \A f \in Event : Earlier(f, e) => f \in Recorded(d)
        /\ \A f \in Recorded(d) : ~Earlier(e, f)
    BY <1>0 DEF Record, Recorded, Order, Own, Earlier
  <1>4. Pending(d)' \subseteq Pending(d) \cup {e} /\ Submitted(d)' = Submitted(d)
    BY <1>1 DEF Pending, Submitted
  <1>5. /\ rows'[d] \subseteq Recorded(d)'
        /\ \A x \in Event, f \in Recorded(d)' : Earlier(x, f) => x \in Recorded(d)'
    <2>1. ~Earlier(e, e)
      BY DeliveryAssumption DEF Earlier
    <2> QED  BY <1>0, <1>1, <1>3, <2>1 DEF Order
  <1>6. \A f \in cycle'[d].queue, x \in Pending(d)' : Earlier(x, f) => x \in cycle'[d].queue
    BY <1>0, <1>1, <1>3, <1>4 DEF Order
  <1>7. \A f \in Submitted(d)' : Cleared(d, f)'
    BY <1>0, <1>3, <1>4 DEF Order, Cleared
  <1>8. Order(d)'
    BY <1>0, <1>1, <1>4, <1>5, <1>6, <1>7 DEF Order
  <1> QED  BY <1>2, <1>8, UntouchedOrder DEF OrderInv

\* A round takes on a prefix of what is pending.
LEMMA QueueClosed ==
  ASSUME TypeInv, NEW d \in Device, NEW f \in NextEvents(d), NEW e \in Pending(d), Earlier(e, f)
  PROVE  e \in NextEvents(d)
  <1> DEFINE before(x) == {y \in Pending(d) : Earlier(y, x)}
  <1>1. Pending(d) \subseteq Event /\ f \in Pending(d)
    BY DEF TypeInv, TypeOK, Pending, NextEvents
  <1>2. IsFiniteSet(before(f)) /\ IsFiniteSet(before(e))
    BY <1>1, DeliveryAssumption, FS_Subset
  <1>3. before(e) \subseteq before(f)
    BY <1>1, DeliveryAssumption DEF Earlier
  <1>4. /\ Cardinality(before(e)) <= Cardinality(before(f))
        /\ Cardinality(before(e)) \in Nat /\ Cardinality(before(f)) \in Nat
    BY <1>2, <1>3, FS_Subset, FS_CardinalityType
  <1>5. Cardinality(before(f)) < Limit
    BY DEF NextEvents
  <1> QED  BY <1>4, <1>5, DeliveryAssumption DEF NextEvents

LEMMA NewRoundOrder ==
  ASSUME TypeInv, OrderInv, NEW d \in Device, NewRound(d)
  PROVE  Order(d)'
  <1> DEFINE c == cycle[d]
  <1>0. /\ Order(d) /\ c \in Cycle /\ cycle \in [Device -> Cycle]
        /\ UNCHANGED <<rows, confirmed, seen, late, published>>
    BY DEF NewRound, OrderInv, TypeInv, TypeOK, deviceVars
  <1>1. /\ cycle'[d].queue = NextEvents(d) /\ cycle'[d].batch = c.batch
        /\ cycle'[d].step = "exchange"
    BY <1>0 DEF NewRound, Become, Cycle
  <1>2. /\ Recorded(d)' = Recorded(d) /\ Pending(d)' = Pending(d)
        /\ Submitted(d)' = Submitted(d) /\ rows'[d] = rows[d]
    BY <1>0, <1>1 DEF Recorded, Pending, Submitted
  <1>3. NextEvents(d) \subseteq Recorded(d)
    BY <1>0 DEF NextEvents, Pending, Order
  <1>4. \A f \in NextEvents(d), e \in Pending(d) : Earlier(e, f) => e \in NextEvents(d)
    BY QueueClosed
  <1>5. \A f \in Submitted(d)' : Cleared(d, f)'
    BY <1>0, <1>2 DEF Order, Cleared
  <1> QED  BY <1>0, <1>1, <1>2, <1>3, <1>4, <1>5 DEF Order

\* Nothing pending of its item comes before an event that is ready.
LEMMA SendOrder ==
  ASSUME TypeInv, OrderInv, NEW d \in Device, NEW batch \in SUBSET Event, Send(d, batch)
  PROVE  Order(d)'
  <1> DEFINE c == cycle[d]
  <1>0. /\ Order(d) /\ c \in Cycle /\ cycle \in [Device -> Cycle]
        /\ UNCHANGED <<rows, confirmed, seen, late, published>>
    BY DEF Send, OrderInv, TypeInv, TypeOK, deviceVars
  <1>1. /\ cycle'[d].queue = c.queue /\ cycle'[d].batch = batch /\ cycle'[d].step = "sent"
    BY <1>0 DEF Send, Become, Cycle
  <1>2. /\ Recorded(d)' = Recorded(d) /\ Pending(d)' = Pending(d) /\ rows'[d] = rows[d]
        /\ Submitted(d)' \subseteq Submitted(d) \cup batch
    BY <1>0, <1>1 DEF Recorded, Pending, Submitted
  <1>3. batch \subseteq c.queue /\ \A f \in batch : Cleared(d, f)
    BY <1>0 DEF Send, Ready, Order, Cleared
  <1>4. \A f \in Submitted(d)' : Cleared(d, f)'
    BY <1>0, <1>2, <1>3 DEF Order, Cleared
  <1> QED  BY <1>0, <1>1, <1>2, <1>3, <1>4 DEF Order

\* A step of d that keeps or empties its queue and batch.
LEMMA CycleQuiet ==
  ASSUME TypeInv, OrderInv, NEW d \in Device,
         UNCHANGED <<rows, confirmed, seen>>,
         cycle'[d].queue \in {{}, cycle[d].queue}, cycle'[d].step # "delivered",
         Submitted(d)' \subseteq Submitted(d)
  PROVE  Order(d)'
  <1>1. Recorded(d)' = Recorded(d) /\ Pending(d)' = Pending(d) /\ Order(d)
    BY DEF Recorded, Pending, OrderInv
  <1>2. Quiet(d)
    BY <1>1 DEF Quiet, Order
  <1> QED  BY <1>1, <1>2, QuietOrder

\* The steps of a device do nothing with the others.
LEMMA Others ==
  ASSUME TypeInv, OrderInv, NEW d \in Device, DeviceStep(d), NEW x \in Device \ {d}
  PROVE  Untouched(x)
  <1>0. cycle \in [Device -> Cycle] /\ rows \in [Device -> SUBSET Event]
        /\ confirmed \in [Device -> SUBSET Event] /\ seen \in [Device -> SUBSET Event]
    BY DEF TypeInv, TypeOK
  <1>1. /\ cycle'[x] = cycle[x] /\ late' = late
        /\ rows'[x] = rows[x] /\ confirmed'[x] = confirmed[x] /\ seen'[x] = seen[x]
    BY <1>0 DEF DeviceStep, StartCycle, Plan, StorePlan, NewRound, Send, EndRound, FinishCycle,
           Serve, ServeGap, MarkDelivered, StoreBatch, Become, deviceVars
  <1>2. published' \subseteq published \cup cycle[d].batch
    BY DEF DeviceStep, StartCycle, Plan, StorePlan, NewRound, Send, EndRound, FinishCycle,
           Serve, Accept, ServeGap, MarkDelivered, StoreBatch
  <1>3. \A e \in cycle[d].batch : Origin[e] = d
    <2>1. cycle[d].batch \subseteq Submitted(d)
      BY DEF TypeInv, TypeOK, Cycle, Submitted
    <2> QED  BY <2>1 DEF OrderInv, Order, Recorded, Own
  <1> QED  BY <1>1, <1>2, <1>3 DEF Untouched, Submitted

LEMMA DeviceOrder ==
  ASSUME TypeInv, TakenInv, OrderInv, NEW d \in Device, DeviceStep(d)
  PROVE  Order(d)'
  <1> DEFINE c == cycle[d]
  <1>0. /\ Order(d) /\ Taken(d) /\ c \in Cycle /\ cycle \in [Device -> Cycle]
        /\ rows \in [Device -> SUBSET Event] /\ confirmed \in [Device -> SUBSET Event]
        /\ seen \in [Device -> SUBSET Event] /\ published \subseteq Event
    BY DEF OrderInv, TakenInv, TypeInv, TypeOK
  <1>1. ASSUME UNCHANGED <<rows, confirmed, seen, late, published>>,
               \/ cycle'[d].queue = c.queue /\ cycle'[d].batch \in {c.batch, {}}
               \/ cycle'[d] = Idle,
               cycle'[d].step # "delivered"
        PROVE  Order(d)'
    <2>1. cycle'[d].queue \in {{}, c.queue} /\ cycle'[d].batch \in {{}, c.batch}
      BY <1>1 DEF Idle
    <2>2. Submitted(d)' \subseteq Submitted(d)
      BY <1>1, <2>1 DEF Submitted
    <2> QED  BY <1>1, <2>1, <2>2, CycleQuiet
  <1>2. CASE StartCycle(d)
    <2>1. /\ cycle'[d].queue = c.queue /\ cycle'[d].batch = c.batch
          /\ cycle'[d].step \in {"plan", "round"}
      <3>1. CASE boot[d].stage = "none" /\ cursor[d] = 0
        <4>1. cycle' = [cycle EXCEPT ![d] = [c EXCEPT !.step = "plan"]]
          BY <1>2, <3>1 DEF StartCycle, Become
        <4> QED  BY <1>0, <4>1 DEF Cycle
      <3>2. CASE ~(boot[d].stage = "none" /\ cursor[d] = 0)
        <4>1. PICK goal : cycle' = [cycle EXCEPT ![d] = [c EXCEPT !.step = "round",
                                      !.at = cursor[d], !.goal = goal]]
          BY <1>2, <3>2 DEF StartCycle, Become
        <4> QED  BY <1>0, <4>1 DEF Cycle
      <3> QED  BY <3>1, <3>2
    <2> QED  BY <1>1, <1>2, <2>1 DEF StartCycle
  <1>3. CASE Plan(d)
    <2>1. PICK at, latest : Become(d, [c EXCEPT
                !.step = IF @ = "plan" THEN "planned" ELSE "replanned",
                !.at = at, !.upTo = latest])
      BY <1>3 DEF Plan
    <2>2. /\ cycle'[d].queue = c.queue /\ cycle'[d].batch = c.batch
          /\ cycle'[d].step \in {"planned", "replanned"}
      BY <1>0, <2>1 DEF Become, Cycle
    <2> QED  BY <1>1, <1>3, <2>2 DEF Plan, deviceVars
  <1>4. CASE StorePlan(d)
    <2>1. /\ cycle'[d].queue = c.queue /\ cycle'[d].batch \in {c.batch, {}}
          /\ cycle'[d].step \in {"round", "exchange"}
      BY <1>0, <1>4 DEF StorePlan, Become, Cycle
    <2> QED  BY <1>1, <1>4, <2>1 DEF StorePlan
  <1>5. CASE NewRound(d)
    BY <1>5, NewRoundOrder
  <1>6. CASE \E batch \in SUBSET Event : Send(d, batch)
    BY <1>6, SendOrder
  <1>7. CASE EndRound(d)
    <2>1. \/ cycle'[d] = Idle
          \/ /\ cycle'[d].queue = c.queue /\ cycle'[d].batch = c.batch
             /\ cycle'[d].step \in {"round", "ended"}
      BY <1>0, <1>7 DEF EndRound, Become, Cycle
    <2>2. cycle'[d].step # "delivered"
      BY <2>1 DEF Idle
    <2> QED  BY <1>1, <1>7, <2>1, <2>2 DEF EndRound, deviceVars
  <1>8. CASE FinishCycle(d)
    <2>1. cycle'[d] = Idle /\ cycle'[d].step # "delivered"
      BY <1>0, <1>8 DEF FinishCycle, Become, Idle
    <2> QED  BY <1>1, <1>8, <2>1 DEF FinishCycle
  <1>9. CASE Serve(d)
    <2>1. /\ cycle'[d].queue = c.queue /\ cycle'[d].batch = c.batch
          /\ cycle'[d].step = "received"
      <3>1. \E page, upTo, more :
               cycle' = [cycle EXCEPT ![d] = [c EXCEPT !.step = "received", !.page = page,
                                                      !.upTo = upTo, !.more = more]]
        <4> DEFINE listed == Listed(cursorOf', c.at)
                   page(last) == {e \in listed : cursorOf'[e] <= cursorOf'[last]}
        <4>1. CASE Become(d, [c EXCEPT !.step = "received", !.page = {}, !.upTo = c.at,
                                        !.more = c.queue # {}])
          BY <4>1 DEF Become
        <4>2. ASSUME NEW last \in listed, NEW more,
                     Become(d, [c EXCEPT !.step = "received", !.page = page(last),
                        !.upTo = EndOfPage(cursorOf', last), !.more = more])
              PROVE  \E p, upTo, m :
                       cycle' = [cycle EXCEPT ![d] = [c EXCEPT !.step = "received", !.page = p,
                                                      !.upTo = upTo, !.more = m]]
          BY <4>2 DEF Become
        <4> QED  BY <1>9, <4>1, <4>2 DEF Serve
      <3> QED  BY <1>0, <3>1 DEF Cycle
    <2>2. /\ UNCHANGED <<rows, confirmed, seen, late>> /\ published' = published \cup c.batch
      BY <1>9 DEF Serve, Accept, deviceVars
    <2>3. Submitted(d)' \subseteq Submitted(d)
      BY <2>1, <2>2 DEF Submitted
    <2> QED  BY <2>1, <2>2, <2>3, CycleQuiet
  <1>10. CASE ServeGap(d)
    <2>1. cycle'[d].queue = c.queue /\ cycle'[d].batch = c.batch /\ cycle'[d].step = "gap"
      BY <1>0, <1>10 DEF ServeGap, Become, Cycle
    <2> QED  BY <1>1, <1>10, <2>1 DEF ServeGap, deviceVars
  <1>11. CASE MarkDelivered(d)
    <2>1. /\ cycle'[d].queue = c.queue /\ cycle'[d].batch = c.batch
          /\ UNCHANGED <<rows, seen, late, published>>
          /\ confirmed'[d] = confirmed[d] \cup c.batch
      BY <1>0, <1>11 DEF MarkDelivered, Become, Cycle
    <2>2. /\ Recorded(d)' = Recorded(d) /\ Pending(d)' \subseteq Pending(d)
          /\ Submitted(d)' \subseteq Submitted(d)
      BY <2>1 DEF Recorded, Pending, Submitted
    <2>3. Quiet(d)
      BY <1>0, <2>1, <2>2 DEF Quiet, Order
    <2> QED  BY <1>0, <2>3, QuietOrder
  <1>12. CASE StoreBatch(d)
    <2>1. /\ c.batch \subseteq confirmed[d]
          /\ cycle'[d].queue = c.queue \ c.batch /\ cycle'[d].batch = {}
          /\ cycle'[d].step = "exchange"
          /\ UNCHANGED <<late, published>>
          /\ rows'[d] = rows[d] \cup (c.page \cap Own(d))
          /\ confirmed'[d] = confirmed[d] \cup (c.page \cap Own(d))
          /\ seen'[d] = seen[d] \cup c.page
      BY <1>0, <1>12 DEF StoreBatch, Become, Cycle, Order
    <2>2. c.page \cap Own(d) \subseteq Recorded(d)
      BY <1>0 DEF Taken, Order, Own, Submitted
    <2>3. /\ Recorded(d)' = Recorded(d) /\ Pending(d)' \subseteq Pending(d)
          /\ Submitted(d)' \subseteq Submitted(d)
      BY <2>1, <2>2 DEF Recorded, Pending, Submitted
    <2>4. Quiet(d)
      BY <1>0, <2>1, <2>2, <2>3 DEF Quiet, Order
    <2> QED  BY <1>0, <2>4, QuietOrder
  <1> QED
    BY <1>2, <1>3, <1>4, <1>5, <1>6, <1>7, <1>8, <1>9, <1>10, <1>11, <1>12 DEF DeviceStep

\* A failing step of d: what was in flight may still arrive, and nothing more.
LEMMA FailOrder ==
  ASSUME TypeInv, OrderInv, Failing, NEW d \in Device,
         \/ \E events \in SUBSET Event : GiveUp(d, events)
         \/ Become(d, Idle)
         \/ Become(d, [cycle[d] EXCEPT !.step = "ended"]),
         late' \subseteq late \cup InTransit(d)
  PROVE  OrderInv'
  <1> DEFINE c == cycle[d]
  <1>0. /\ c \in Cycle /\ cycle \in [Device -> Cycle]
        /\ UNCHANGED <<rows, confirmed, seen, published>>
    BY DEF Failing, deviceVars, TypeInv, TypeOK
  <1>1. \/ cycle'[d] = Idle
        \/ cycle'[d].queue = c.queue /\ cycle'[d].batch = {} /\ cycle'[d].step = "exchange"
        \/ cycle'[d].queue = c.queue /\ cycle'[d].batch = c.batch /\ cycle'[d].step = "ended"
    <2>1. ASSUME NEW events \in SUBSET Event, GiveUp(d, events)
          PROVE  \/ cycle'[d] = Idle
                 \/ cycle'[d].queue = c.queue /\ cycle'[d].batch = {} /\ cycle'[d].step = "exchange"
      BY <1>0, <2>1 DEF GiveUp, Become, Cycle
    <2>2. CASE Become(d, Idle)
      BY <1>0, <2>2 DEF Become
    <2>3. CASE Become(d, [c EXCEPT !.step = "ended"])
      BY <1>0, <2>3 DEF Become, Cycle
    <2> QED  BY <2>1, <2>2, <2>3
  <1>2. /\ cycle'[d].queue \in {{}, c.queue} /\ cycle'[d].batch \in {{}, c.batch}
        /\ cycle'[d].step # "delivered"
    BY <1>1 DEF Idle
  <1>3. \A r \in InTransit(d) : r.from = d /\ r.batch = c.batch
    BY DEF InTransit
  <1>4. Submitted(d)' \subseteq Submitted(d)
    BY <1>0, <1>2, <1>3 DEF Submitted
  <1>5. Order(d)'
    BY <1>0, <1>2, <1>4, CycleQuiet
  <1>6. \A x \in Device \ {d} : Untouched(x)
    <2>1. \A x \in Device \ {d} : cycle'[x] = cycle[x]
      BY <1>0 DEF GiveUp, Become
    <2> QED  BY <1>0, <1>3, <2>1 DEF Untouched, Submitted
  <1> QED  BY <1>5, <1>6, UntouchedOrder DEF OrderInv

LEMMA StepOrder == TypeInv /\ TakenInv /\ OrderInv /\ [Next]_vars => OrderInv'
  <1> SUFFICES ASSUME TypeInv, TakenInv, OrderInv, [Next]_vars PROVE OrderInv'
    OBVIOUS
  <1>0. \A d \in Device : Order(d)
    BY DEF OrderInv
  <1>u. ASSUME \A d \in Device : Untouched(d) PROVE OrderInv'
    BY <1>0, <1>u, UntouchedOrder DEF OrderInv
  <1>1. ASSUME NEW e \in Event, Record(e) PROVE OrderInv'
    BY <1>1, RecordOrder
  <1>2. ASSUME NEW d \in Device, DeviceStep(d) PROVE OrderInv'
    <2>1. Order(d)'
      BY <1>2, DeviceOrder
    <2>2. \A x \in Device \ {d} : Order(x)'
      BY <1>0, <1>2, Others, UntouchedOrder
    <2> QED  BY <2>1, <2>2 DEF OrderInv
  <1>3. ASSUME NEW d \in Device, NEW e \in Event, Forget(d, e) PROVE OrderInv'
    <2>1. /\ rows'[d] = rows[d] \ {e} /\ confirmed'[d] = confirmed[d] \ {e}
          /\ \A x \in Device \ {d} : rows'[x] = rows[x] /\ confirmed'[x] = confirmed[x]
          /\ UNCHANGED <<cycle, late, seen, published>>
          /\ cycle[d].step \in {"idle", "ended"}
      BY <1>3 DEF Forget, TypeInv, TypeOK
    <2>2. \A x \in Device \ {d} : Untouched(x)
      BY <2>1 DEF Untouched, Submitted
    <2>3. /\ Recorded(d)' = Recorded(d) /\ Pending(d)' \subseteq Pending(d)
          /\ Submitted(d)' = Submitted(d)
      BY <2>1 DEF Recorded, Pending, Submitted
    <2>4. Quiet(d)
      BY <1>0, <2>1, <2>3 DEF Quiet, Order
    <2> QED  BY <1>0, <2>2, <2>4, QuietOrder, UntouchedOrder DEF OrderInv
  <1>4. ASSUME NEW r \in late, ServeLate(r) PROVE OrderInv'
    <2>1. /\ UNCHANGED <<rows, confirmed, seen, cycle>> /\ late' \subseteq late
          /\ published' \subseteq published \cup r.batch
      BY <1>4 DEF ServeLate, Accept, deviceVars
    <2>2. r.from \in Device /\ r.batch \in SUBSET Event
      BY DEF TypeInv, TypeOK, Request
    <2>3. \A e \in r.batch : Origin[e] = r.from
      <3>1. r.batch \subseteq Submitted(r.from)
        BY <2>2 DEF Submitted
      <3> QED  BY <1>0, <2>2, <3>1 DEF Order, Recorded, Own
    <2>4. \A d \in Device : Untouched(d)
      BY <2>1, <2>3 DEF Untouched, Submitted
    <2> QED  BY <2>4, <1>u
  <1>5. CASE PruneLog
    BY <1>5, <1>u DEF PruneLog, deviceVars, Untouched, Submitted
  <1>6. ASSUME NEW e \in Event, OtherDevice(e) PROVE OrderInv'
    <2>1. /\ UNCHANGED <<rows, confirmed, seen, cycle, late>> /\ Origin[e] \notin Device
          /\ published' = published \cup {e}
      BY <1>6 DEF OtherDevice, Accept, deviceVars
    <2>2. \A d \in Device : Untouched(d)
      BY <2>1 DEF Untouched, Submitted
    <2> QED  BY <2>2, <1>u
  <1>7. ASSUME NEW d \in Device, NEW events \in SUBSET Event, FailAttachment(d, events)
        PROVE  OrderInv'
    BY <1>7, FailOrder DEF FailAttachment
  <1>8. ASSUME NEW d \in Device, Timeout(d) \/ Refuse(d) \/ RetentionFirst(d) \/ Crash(d)
        PROVE  OrderInv'
    <2>1. cycle[d].batch \in SUBSET Event
      BY DEF TypeInv, TypeOK, Cycle
    <2> QED  BY <1>8, <2>1, FailOrder DEF Timeout, Refuse, RetentionFirst, Crash
  <1>9. CASE UNCHANGED vars
    BY <1>9, <1>u DEF vars, deviceVars, Untouched, Submitted
  <1> QED
    BY <1>1, <1>2, <1>3, <1>4, <1>5, <1>6, <1>7, <1>8, <1>9 DEF Next

\* The Hub is given an event only when every earlier one that the device still has
\* of the same item is confirmed, also after failed attachments and late requests.
THEOREM ItemsInOrder == Spec => []ItemOrder
  <1>1. TypeInv /\ OrderInv => ItemOrder
    <2> SUFFICES ASSUME TypeInv, OrderInv, NEW e \in Event, NEW f \in Event,
                        Origin[e] \in Device, Earlier(e, f), Item[e] = Item[f],
                        f \in published, e \in rows[Origin[e]], e \notin confirmed[Origin[e]]
                 PROVE  FALSE
      BY DEF ItemOrder
    <2>1. f \in Submitted(Origin[e]) /\ e \in Pending(Origin[e])
      BY DEF Submitted, Earlier, Pending
    <2> QED  BY <2>1 DEF OrderInv, Order, Cleared
  <1>2. Spec => []TypeInv
    BY InitType, StepType, PTL DEF Spec
  <1>3. Spec => []TakenInv
    BY <1>2, InitTaken, StepTaken, PTL DEF Spec
  <1> QED  BY <1>1, <1>2, <1>3, InitOrder, StepOrder, PTL DEF Spec

=============================================================================
