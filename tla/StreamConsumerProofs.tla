----------------------- MODULE StreamConsumerProofs -----------------------
(* Proofs about StreamConsumer, for any number of entries, slots, retries   *)
(* and environment events.                                                  *)
EXTENDS StreamConsumer, TLAPS

\* A handler in one of these places may hold the dedup key of its entry.
Holding == {"run", "release", "recover"}

Excused(m) == Settled(m) \/ m \in leaked \/ m \in overtaken

\* The strengthening of LossOnlyThroughClaim that every step preserves: who
\* may have which entry, why a dedup key exists and why an entry is acked.
SlotsOK ==
    /\ \A s \in Slots : hs[s].pc = "free" <=> hs[s].msg = NoMsg
    /\ \A s \in Slots : hs[s].msg # NoMsg => hs[s].msg \in Delivered

DeliveryOK ==
    /\ Pending \subseteq Delivered
    /\ ~group => cursor = 0 /\ batch = {} /\ loop = "down" /\ \A s \in Slots : hs[s] = Free

ExclusiveOrOvertaken ==
    /\ \A m \in batch : Busy(m) => m \in overtaken
    /\ \A s, t \in Slots : s # t /\ hs[s].msg = hs[t].msg /\ hs[s].msg # NoMsg
                              => hs[s].msg \in overtaken

KeyExplained ==
    \A m \in dedup : \/ m \in done \/ m \in leaked
                     \/ \E s \in Slots : hs[s].msg = m /\ hs[s].pc \in Holding

AckExplained ==
    UseDLQ => \A s \in Slots : hs[s].pc = "ack" => Excused(hs[s].msg)

IInv ==
    /\ TypeOK
    /\ SlotsOK
    /\ DeliveryOK
    /\ ExclusiveOrOvertaken
    /\ KeyExplained
    /\ AckExplained
    /\ LossOnlyThroughClaim

\* The invariant holds at first.
LEMMA InitIInv == Init => IInv
<1> SUFFICES ASSUME Init PROVE IInv
  OBVIOUS
<1> USE ConfigAssumption DEF ConfigAssumption, Init
<1>1. Pending = {} /\ Delivered = {}
  BY DEF Pending, Delivered, Msgs
<1>a. group \in BOOLEAN /\ cancelled \in BOOLEAN
  BY Zenon
<1>b. hs \in [Slots -> [pc : HandlerPC, msg : {NoMsg} \cup Msgs]]
  BY DEF Free, HandlerPC
<1>2. TypeOK
  BY <1>1, <1>a, <1>b DEF TypeOK, Msgs, NoMsg, Free, LoopPC
<1>3. SlotsOK /\ DeliveryOK /\ ExclusiveOrOvertaken
  BY <1>1 DEF SlotsOK, DeliveryOK, ExclusiveOrOvertaken, Busy, Free, NoMsg
<1>4. KeyExplained /\ AckExplained /\ LossOnlyThroughClaim
  BY <1>1 DEF KeyExplained, AckExplained, LossOnlyThroughClaim, Free
<1> QED
  BY <1>2, <1>3, <1>4 DEF IInv

\* XADD by the producer.
LEMMA ProduceIInv == IInv /\ Produce => IInv'
<1> SUFFICES ASSUME IInv, Produce PROVE IInv'
  OBVIOUS
<1> USE ConfigAssumption DEF ConfigAssumption, IInv, Produce, procVars, histVars
<1>1. Pending' = Pending /\ Delivered' = Delivered
  BY DEF Pending, Delivered
<1>2. TypeOK'
  BY <1>1 DEF TypeOK
<1>3. SlotsOK' /\ DeliveryOK' /\ ExclusiveOrOvertaken'
  BY <1>1 DEF SlotsOK, DeliveryOK, ExclusiveOrOvertaken, Busy
<1>4. KeyExplained' /\ AckExplained' /\ LossOnlyThroughClaim'
  BY <1>1 DEF KeyExplained, AckExplained, LossOnlyThroughClaim, Excused, Settled
<1> QED
  BY <1>2, <1>3, <1>4

\* A pending entry passes MinIdle.
LEMMA GrowIdleIInv == ASSUME NEW m \in Msgs, IInv, GrowIdle(m) PROVE IInv'
<1> USE ConfigAssumption DEF ConfigAssumption, IInv, GrowIdle, procVars, histVars
<1>1. Pending' = Pending /\ Delivered' = Delivered
  BY DEF Pending, Delivered
<1>2. TypeOK'
  BY <1>1 DEF TypeOK
<1>3. SlotsOK' /\ DeliveryOK' /\ ExclusiveOrOvertaken'
  BY <1>1 DEF SlotsOK, DeliveryOK, ExclusiveOrOvertaken, Busy
<1>4. KeyExplained' /\ AckExplained' /\ LossOnlyThroughClaim'
  BY <1>1 DEF KeyExplained, AckExplained, LossOnlyThroughClaim, Excused, Settled
<1> QED
  BY <1>2, <1>3, <1>4

\* The worker starts and creates the group if need be.
LEMMA StartConsumerIInv == IInv /\ StartConsumer => IInv'
<1> SUFFICES ASSUME IInv, StartConsumer PROVE IInv'
  OBVIOUS
<1> USE ConfigAssumption DEF ConfigAssumption, IInv, StartConsumer
<1>1. Pending' = Pending
  BY DEF Pending
<1>2. Delivered' = Delivered
  BY DEF Delivered, DeliveryOK, TypeOK
<1>3. TypeOK'
  <2>1. group' \in BOOLEAN
    OBVIOUS
  <2> QED
    BY <1>1, <1>2, <2>1 DEF TypeOK, LoopPC
<1>4. SlotsOK' /\ DeliveryOK' /\ ExclusiveOrOvertaken'
  BY <1>1, <1>2 DEF SlotsOK, DeliveryOK, ExclusiveOrOvertaken, Busy
<1>5. KeyExplained' /\ AckExplained' /\ LossOnlyThroughClaim'
  BY <1>1, <1>2 DEF KeyExplained, AckExplained, LossOnlyThroughClaim, Excused, Settled
<1> QED
  BY <1>3, <1>4, <1>5

\* The process ends: unfinished claims become leaks.
LEMMA ProcessGoneIInv == ASSUME IInv, ProcessGone, events' \in 0..MaxEvents PROVE IInv'
<1> USE ConfigAssumption DEF ConfigAssumption, IInv, ProcessGone, redisVars
<1>1. Pending' = Pending /\ Delivered' = Delivered
  BY DEF Pending, Delivered
<1>2. TypeOK'
  <2>1. cancelled' \in BOOLEAN
    BY Zenon
  <2>2. hs' \in [Slots -> [pc : HandlerPC, msg : {NoMsg} \cup Msgs]]
    BY DEF Free, HandlerPC
  <2>3. leaked' \subseteq Msgs
    BY DEF TypeOK
  <2> QED
    BY <1>1, <2>1, <2>2, <2>3 DEF TypeOK, LoopPC
<1>3. SlotsOK' /\ DeliveryOK' /\ ExclusiveOrOvertaken'
  BY <1>1 DEF SlotsOK, DeliveryOK, ExclusiveOrOvertaken, Busy, Free
<1>4. KeyExplained'
  BY DEF KeyExplained, Holding
<1>5. AckExplained' /\ LossOnlyThroughClaim'
  BY <1>1 DEF AckExplained, LossOnlyThroughClaim, Excused, Settled, Free
<1> QED
  BY <1>2, <1>3, <1>4, <1>5

\* The budget of environment events is kept.
LEMMA EventType == ASSUME NEW e, TypeOK, Event(e) PROVE events' \in 0..MaxEvents
  BY ConfigAssumption DEF ConfigAssumption, TypeOK, Event

\* A step that only moves the loop and the environment along.
LEMMA QuietStepIInv ==
  ASSUME IInv, loop' \in LoopPC, batch' \subseteq batch, scan' \in Nat, cancelled' \in BOOLEAN, events' \in 0..MaxEvents,
         UNCHANGED <<redisVars, hs, histVars>>, loop # "down"
  PROVE  IInv'
<1> USE ConfigAssumption DEF ConfigAssumption, IInv, redisVars, histVars
<1>1. Pending' = Pending /\ Delivered' = Delivered
  BY DEF Pending, Delivered
<1>2. TypeOK'
  BY <1>1 DEF TypeOK
<1>3. SlotsOK' /\ DeliveryOK' /\ ExclusiveOrOvertaken'
  BY <1>1 DEF SlotsOK, DeliveryOK, ExclusiveOrOvertaken, Busy
<1>4. KeyExplained' /\ AckExplained' /\ LossOnlyThroughClaim'
  BY <1>1 DEF KeyExplained, AckExplained, LossOnlyThroughClaim, Excused, Settled
<1> QED
  BY <1>2, <1>3, <1>4

\* Crash, cancellation and exit of the worker.
LEMMA ProcessIInv == IInv /\ (Crash \/ Cancel \/ Exit \/ ExitTimeout) => IInv'
<1> SUFFICES ASSUME IInv PROVE (Crash \/ Cancel \/ Exit \/ ExitTimeout) => IInv'
  OBVIOUS
<1> USE DEF IInv
<1>1. Crash => IInv'
  BY Zenon, EventType, ProcessGoneIInv DEF Crash
<1>2. Cancel => IInv'
  BY Zenon, EventType, QuietStepIInv DEF Cancel, TypeOK
<1>3. Exit => IInv'
  BY Zenon, ProcessGoneIInv DEF Exit, TypeOK
<1>4. ExitTimeout => IInv'
  BY ProcessGoneIInv DEF ExitTimeout, TypeOK
<1> QED
  BY <1>1, <1>2, <1>3, <1>4

\* Steps of the loop that deliver and dispatch nothing.
LEMMA QuietLoopIInv ==
  IInv /\ (LoopDone \/ LoopTick \/ LoopDefault \/ Dispatched \/ DispatchDone \/ Drained) => IInv'
<1> SUFFICES ASSUME IInv
             PROVE (LoopDone \/ LoopTick \/ LoopDefault \/ Dispatched \/ DispatchDone \/ Drained)
                     => IInv'
  OBVIOUS
<1>0. TypeOK
  BY DEF IInv
<1>1. LoopDone => IInv'
  BY <1>0, QuietStepIInv DEF LoopDone, TypeOK, LoopPC
<1>2. LoopTick => IInv'
  BY <1>0, QuietStepIInv DEF LoopTick, TypeOK, LoopPC
<1>3. LoopDefault => IInv'
  BY <1>0, QuietStepIInv DEF LoopDefault, TypeOK, LoopPC
<1>4. Dispatched => IInv'
  BY <1>0, QuietStepIInv DEF Dispatched, ClaimReturns, TypeOK, LoopPC
<1>5. DispatchDone => IInv'
  BY <1>0, QuietStepIInv DEF DispatchDone, ClaimReturns, TypeOK, LoopPC
<1>6. Drained => IInv'
  BY Zenon, <1>0, QuietStepIInv DEF Drained, TypeOK, LoopPC
<1> QED
  BY <1>1, <1>2, <1>3, <1>4, <1>5, <1>6

\* XREADGROUP delivers new entries.
LEMMA XReadGroupIInv == IInv /\ XReadGroup => IInv'
<1> SUFFICES ASSUME IInv, XReadGroup PROVE IInv'
  OBVIOUS
<1> DEFINE upto == IF cursor + BatchSize < added THEN cursor + BatchSize ELSE added
<1> USE ConfigAssumption DEF ConfigAssumption, IInv, XReadGroup, histVars
<1>0. TypeOK /\ group
  BY Zenon DEF DeliveryOK
<1>1. upto \in cursor..added /\ added \in Nat /\ cursor \in Nat
  BY <1>0 DEF TypeOK
<1>2. CASE loop' = "top" /\ events' \in 0..MaxEvents /\ UNCHANGED <<cursor, pel, batch>>
  BY Zenon, <1>0, <1>2, QuietStepIInv DEF TypeOK, LoopPC, redisVars
<1>3. CASE /\ Deliver(upto)
           /\ batch' = (cursor + 1)..upto \/ batch' = batch
           /\ loop' \in LoopPC
           /\ events' \in 0..MaxEvents
  <2> USE <1>0, <1>1, <1>3
  <2> HIDE DEF upto
  <2>1. Pending' = Pending \cup ((cursor + 1)..upto)
    <3> HIDE DEF IInv, XReadGroup
    <3> QED
      BY SMTT(60) DEF Pending, Deliver, Msgs, TypeOK
  <2>2. Delivered' = Delivered \cup ((cursor + 1)..upto)
    BY DEF Delivered, Deliver, TypeOK
  <2>3. TypeOK'
    <3>1. cursor' \in 0..added' /\ skipped' \subseteq 1..cursor'
      BY SMTT(60) DEF TypeOK, Deliver
    <3>2. pel' \in [Msgs -> Nat]
      BY Zenon DEF TypeOK, Deliver
    <3>3. batch' \subseteq Delivered' /\ idle' \subseteq Pending'
      BY Zenon, <2>1, <2>2 DEF TypeOK
    <3> QED
      BY <3>1, <3>2, <3>3 DEF TypeOK
  <2>4. SlotsOK' /\ DeliveryOK'
    BY Zenon, <2>1, <2>2 DEF SlotsOK, DeliveryOK
  <2>5. ExclusiveOrOvertaken'
    <3>1. ASSUME NEW m \in (cursor + 1)..upto PROVE ~Busy(m)
      BY SMTT(60) DEF Busy, SlotsOK, Delivered, NoMsg, TypeOK
    <3> QED
      BY Zenon, <3>1 DEF ExclusiveOrOvertaken, Busy
  <2>6. KeyExplained' /\ AckExplained'
    BY Zenon DEF KeyExplained, AckExplained, Excused, Settled
  <2>7. LossOnlyThroughClaim'
    BY <2>1, <2>2 DEF LossOnlyThroughClaim, Settled
  <2> QED
    BY Zenon, <2>3, <2>4, <2>5, <2>6, <2>7
<1> QED
  <2>1. Event("redis_error") => events' \in 0..MaxEvents
    BY Zenon, <1>0, EventType
  <2>2. UNCHANGED events => events' \in 0..MaxEvents
    BY <1>0 DEF TypeOK
  <2> QED
    BY <1>2, <1>3, <2>1, <2>2 DEF LoopPC

\* An entry of the batch gets a slot.
LEMMA DispatchIInv == ASSUME NEW s \in Slots, IInv, Dispatch(s) PROVE IInv'
<1> USE ConfigAssumption DEF ConfigAssumption, IInv, Dispatch, histVars, redisVars
<1>0. PICK m \in batch :
        /\ batch' = batch \ {m}
        /\ hs' = [hs EXCEPT ![s] =
                     [pc |-> IF m \in Undecodable THEN "dead" ELSE "claim", msg |-> m]]
  BY Zenon
<1>1. Pending' = Pending /\ Delivered' = Delivered
  BY DEF Pending, Delivered
<1>2. m \in Msgs /\ m \in Delivered /\ m # NoMsg
  BY DEF TypeOK, Delivered, Msgs, NoMsg
<1>3. hs[s].pc = "free" /\ hs[s].msg = NoMsg
  BY Zenon DEF SlotsOK
<1>4. /\ hs'[s].msg = m /\ hs'[s].pc \in {"dead", "claim"}
      /\ \A t \in Slots \ {s} : hs'[t] = hs[t]
  BY Zenon, <1>0 DEF TypeOK
<1>5. TypeOK'
  <2>1. hs' \in [Slots -> [pc : HandlerPC, msg : {NoMsg} \cup Msgs]]
    BY Zenon, <1>0, <1>2 DEF TypeOK, HandlerPC
  <2> QED
    BY Zenon, <1>0, <1>1, <2>1 DEF TypeOK
<1>6. SlotsOK' /\ DeliveryOK'
  BY ZenonT(90), <1>1, <1>2, <1>4 DEF SlotsOK, DeliveryOK
<1>7. ExclusiveOrOvertaken'
  BY SMTT(60), <1>0, <1>2, <1>3, <1>4 DEF ExclusiveOrOvertaken, Busy
<1>8. KeyExplained' /\ AckExplained'
  BY <1>3, <1>4 DEF KeyExplained, AckExplained, Excused, Settled, Holding
<1>9. LossOnlyThroughClaim'
  BY <1>1 DEF LossOnlyThroughClaim, Settled
<1> QED
  BY <1>5, <1>6, <1>7, <1>8, <1>9

\* XAUTOCLAIM takes idle entries, also from running handlers.
LEMMA XAutoClaimIInv == IInv /\ XAutoClaim => IInv'
<1> SUFFICES ASSUME IInv, XAutoClaim PROVE IInv'
  OBVIOUS
<1> DEFINE found == FirstOf({m \in idle : m >= scan}, BatchSize)
<1> USE ConfigAssumption DEF ConfigAssumption, IInv
<1>0. TypeOK /\ loop = "reclaim" /\ found \subseteq idle
  BY Zenon DEF XAutoClaim, FirstOf
<1>1. /\ (pel' = pel /\ idle' = idle) \/ Redeliver(found)
      /\ \/ batch' = batch /\ overtaken' = overtaken
         \/ batch' = found /\ overtaken' = overtaken \cup {m \in found : Busy(m)}
      /\ loop' \in LoopPC
      /\ UNCHANGED <<added, group, cursor, dedup, dlq, cancelled, hs, skipped, done, mails, leaked,
                     exposed>>
  BY Zenon DEF XAutoClaim, ClaimReturns, LoopPC
<1>2. events' \in 0..MaxEvents
  BY <1>0, EventType DEF XAutoClaim, TypeOK
<1>3. scan' \in Nat
  <2>1. scan \in Nat /\ \A m \in Pending : m \in Nat
    BY SMTT(60) DEF TypeOK, Pending, Msgs
  <2>2. scan' = scan \/ scan' = 0 \/ scan' \in Pending
    BY DEF XAutoClaim
  <2> QED
    BY <2>1, <2>2
<1> HIDE DEF found
<1>4. Delivered' = Delivered
  BY Zenon, <1>1 DEF Delivered
<1>5. Pending' = Pending
  BY SMTT(60), <1>0, <1>1 DEF Pending, Redeliver, TypeOK
<1>6. TypeOK'
  <2>1. pel' \in [Msgs -> Nat]
    BY SMTT(60), <1>0, <1>1 DEF TypeOK, Redeliver
  <2>2. idle' \subseteq Pending'
    BY Zenon, <1>0, <1>1, <1>5 DEF TypeOK, Redeliver
  <2>3. batch' \subseteq Delivered' /\ overtaken' \subseteq Msgs
    BY <1>0, <1>1, <1>4 DEF TypeOK, DeliveryOK, Pending
  <2> QED
    BY Zenon, <1>0, <1>1, <1>2, <1>3, <2>1, <2>2, <2>3 DEF TypeOK
<1>7. SlotsOK' /\ DeliveryOK'
  BY Zenon, <1>0, <1>1, <1>4, <1>5 DEF SlotsOK, DeliveryOK
<1>8. ExclusiveOrOvertaken'
  BY Zenon, <1>1 DEF ExclusiveOrOvertaken, Busy
<1>9. KeyExplained' /\ AckExplained' /\ LossOnlyThroughClaim'
  BY <1>1, <1>4, <1>5 DEF KeyExplained, AckExplained, LossOnlyThroughClaim, Excused, Settled
<1> QED
  BY Zenon, <1>6, <1>7, <1>8, <1>9

\* What every handler step has in common: it works on an entry it was given
\* and touches its own slot only.
LEMMA HandlerEntry ==
  ASSUME IInv, NEW s \in Slots, hs[s].pc # "free"
  PROVE  /\ hs[s].msg \in Msgs /\ hs[s].msg \in Delivered /\ hs[s].msg # NoMsg
  BY DEF IInv, TypeOK, SlotsOK

\* A handler that goes on keeps its entry.
LEMMA StepEffect ==
  ASSUME IInv, NEW s \in Slots, hs[s].pc # "free"
  PROVE  \A pc \in HandlerPC \ {"free"} :
           Step(s, pc) =>
             /\ hs'[s].pc = pc
             /\ hs'[s].msg = hs[s].msg
             /\ \A t \in Slots \ {s} : hs'[t] = hs[t]
             /\ hs' \in [Slots -> [pc : HandlerPC, msg : {NoMsg} \cup Msgs]]
  BY DEF IInv, TypeOK, Step

\* A handler that ends frees its slot.
LEMMA FinishEffect ==
  ASSUME IInv, NEW s \in Slots, Finish(s)
  PROVE  /\ hs'[s] = Free
         /\ \A t \in Slots \ {s} : hs'[t] = hs[t]
         /\ hs' \in [Slots -> [pc : HandlerPC, msg : {NoMsg} \cup Msgs]]
  BY Zenon DEF IInv, TypeOK, Finish, Free, HandlerPC

\* The invariants about who has which entry survive any step of one slot.
LEMMA SlotStepIInv ==
  ASSUME IInv, NEW s \in Slots, hs[s].pc # "free",
         \/ hs'[s] = Free
         \/ hs'[s].msg = hs[s].msg /\ hs'[s].pc # "free",
         \A t \in Slots \ {s} : hs'[t] = hs[t],
         UNCHANGED <<group, cursor, skipped, batch, overtaken>>, Pending' \subseteq Pending
  PROVE  SlotsOK' /\ DeliveryOK' /\ ExclusiveOrOvertaken'
<1> USE HandlerEntry DEF IInv
<1>1. Delivered' = Delivered
  BY Zenon DEF Delivered
<1>2. SlotsOK'
  BY SMTT(60), <1>1 DEF SlotsOK, Free, NoMsg
<1>3. DeliveryOK'
  BY SMTT(60), <1>1 DEF DeliveryOK, Free
<1>4. ExclusiveOrOvertaken'
  BY DEF ExclusiveOrOvertaken, Busy, Free, NoMsg, TypeOK, Delivered
<1> QED
  BY <1>2, <1>3, <1>4

\* SET NX of the dedup key.
LEMMA ClaimDedupIInv == ASSUME IInv, NEW s \in Slots, ClaimDedup(s) PROVE IInv'
<1> DEFINE m == hs[s].msg
<1>0. hs[s].pc = "claim" /\ m \in Msgs /\ m # NoMsg
  BY HandlerEntry, Zenon DEF ClaimDedup
<1>f. UNCHANGED <<added, group, cursor, pel, idle, dlq, loop, batch, scan, cancelled,
                  skipped, done, mails, overtaken>>
  BY Zenon DEF ClaimDedup
<1>1. Pending' = Pending /\ Delivered' = Delivered
  BY <1>f DEF Pending, Delivered
<1>2. /\ \/ dedup' = dedup \cup {m} /\ leaked' = leaked /\ Step(s, "run")
         \/ dedup' = dedup /\ leaked' = leaked /\ Step(s, "run")
         \/ dedup' = dedup /\ leaked' = leaked /\ Step(s, "ack") /\ m \in dedup
         \/ dedup' = dedup \cup {m} /\ leaked' = leaked \cup {m} /\ Step(s, "ack")
      /\ events' = events \/ Event("redis_error") \/ Event("set_retry")
      /\ exposed' = exposed \/ exposed' = exposed \cup {m}
  BY Zenon DEF ClaimDedup
<1>3. /\ \A t \in Slots \ {s} : hs'[t] = hs[t]
      /\ hs' \in [Slots -> [pc : HandlerPC, msg : {NoMsg} \cup Msgs]]
      /\ hs'[s].msg = m
      /\ \/ hs'[s].pc = "run" /\ Step(s, "run")
         \/ hs'[s].pc = "ack" /\ Step(s, "ack")
  BY ZenonT(90), <1>0, <1>2, StepEffect DEF HandlerPC
<1>a. hs'[s].pc = "run" => dedup' \subseteq dedup \cup {m} /\ leaked' = leaked
  BY ZenonT(90), <1>0, <1>2, <1>3, StepEffect DEF HandlerPC
<1>b. hs'[s].pc = "ack" =>
        /\ dedup' \subseteq dedup \cup {m}
        /\ leaked \subseteq leaked'
        /\ m \in dedup \/ m \in leaked'
        /\ m \in dedup' \ dedup => m \in leaked'
  BY SMTT(60), <1>0, <1>2, <1>3, StepEffect DEF HandlerPC
<1>4. TypeOK'
  <2>1. events' \in 0..MaxEvents
    BY Zenon, <1>2, EventType DEF IInv, TypeOK
  <2>2. dedup' \subseteq Msgs /\ leaked' \subseteq Msgs /\ exposed' \subseteq Msgs
    BY <1>0, <1>2 DEF IInv, TypeOK
  <2> QED
    BY Zenon, <1>f, <1>1, <1>3, <2>1, <2>2 DEF IInv, TypeOK
<1>5. SlotsOK' /\ DeliveryOK' /\ ExclusiveOrOvertaken'
  BY ZenonT(90), <1>0, <1>f, <1>1, <1>3, SlotStepIInv
<1>6. KeyExplained'
  <2>1. \A t \in Slots : hs[t].pc \in Holding => hs'[t] = hs[t]
    BY <1>0, <1>3 DEF Holding
  <2>2. m \in dedup' => m \in done' \/ m \in leaked' \/ (hs'[s].msg = m /\ hs'[s].pc \in Holding)
                        \/ m \in dedup
    BY Zenon, <1>3, <1>a, <1>b DEF Holding
  <2>3. dedup' \subseteq dedup \cup {m} /\ leaked \subseteq leaked' /\ done' = done
    BY Zenon, <1>f, <1>2
  <2> QED
    BY SMTT(60), <2>1, <2>2, <2>3 DEF IInv, KeyExplained
<1>7. AckExplained'
  <2>1. m \in dedup => Excused(m)
    BY Zenon, <1>0 DEF IInv, KeyExplained, ExclusiveOrOvertaken, Excused, Settled, Holding
  <2>2. \A k : Excused(k) => Excused(k)'
    BY <1>f, <1>2 DEF Excused, Settled
  <2>3. ASSUME NEW k, k = m, hs'[s].pc = "ack" PROVE Excused(k)'
    <3>1. k \in leaked' => Excused(k)'
      BY Zenon DEF Excused
    <3> QED
      BY Zenon, <1>b, <2>1, <2>2, <2>3, <3>1
  <2> QED
    BY Zenon, <1>3, <2>2, <2>3 DEF IInv, AckExplained
<1>8. LossOnlyThroughClaim'
  BY <1>f, <1>1, <1>2 DEF IInv, LossOnlyThroughClaim, Settled
<1> QED
  BY <1>4, <1>5, <1>6, <1>7, <1>8 DEF IInv

\* The handler itself.
LEMMA RunHandlerIInv == ASSUME IInv, NEW s \in Slots, RunHandler(s) PROVE IInv'
<1> DEFINE m == hs[s].msg
<1>0. hs[s].pc = "run" /\ m \in Msgs /\ m # NoMsg
  BY HandlerEntry, Zenon DEF RunHandler
<1>f. UNCHANGED <<added, group, cursor, pel, idle, dedup, dlq, loop, batch, scan,
                  cancelled, skipped, leaked, overtaken>>
  BY Zenon DEF RunHandler, redisVars
<1>1. Pending' = Pending /\ Delivered' = Delivered
  BY <1>f DEF Pending, Delivered
<1>2. /\ \/ done' = done \cup {m} /\ Step(s, "ack")
         \/ done' = done /\ Step(s, "release")
         \/ done' = done /\ Step(s, "recover")
      /\ mails' = mails \/ Sent(m)
      /\ events' = events \/ Event("mail_late")
      /\ exposed' = exposed \/ exposed' = exposed \cup {m}
  BY Zenon DEF RunHandler
<1>3. /\ \A t \in Slots \ {s} : hs'[t] = hs[t]
      /\ hs' \in [Slots -> [pc : HandlerPC, msg : {NoMsg} \cup Msgs]]
      /\ hs'[s].msg = m
      /\ \/ hs'[s].pc = "ack" /\ done' = done \cup {m}
         \/ hs'[s].pc \in {"release", "recover"} /\ done' = done
  BY Zenon, <1>0, <1>2, StepEffect DEF HandlerPC
<1>4. TypeOK'
  <2>1. events' \in 0..MaxEvents
    BY Zenon, <1>2, EventType DEF IInv, TypeOK
  <2>2. done' \subseteq Msgs
    BY Zenon, <1>0, <1>3 DEF IInv, TypeOK
  <2>3. mails' \in [Msgs -> Nat]
    BY <1>0, <1>2 DEF IInv, TypeOK, Sent
  <2>4. exposed' \subseteq Msgs
    BY <1>0, <1>2 DEF IInv, TypeOK
  <2> QED
    BY Zenon, <1>f, <1>1, <1>3, <2>1, <2>2, <2>3, <2>4 DEF IInv, TypeOK
<1>5. SlotsOK' /\ DeliveryOK' /\ ExclusiveOrOvertaken'
  BY ZenonT(90), <1>0, <1>f, <1>1, <1>3, SlotStepIInv
<1>6. KeyExplained'
  <2>1. hs'[s].pc \in Holding \/ m \in done'
    BY Zenon, <1>3 DEF Holding
  <2> QED
    BY <1>f, <1>3, <2>1 DEF IInv, KeyExplained
<1>7. AckExplained'
  BY Zenon, <1>f, <1>3 DEF IInv, AckExplained, Excused, Settled
<1>8. LossOnlyThroughClaim'
  BY Zenon, <1>f, <1>1, <1>3 DEF IInv, LossOnlyThroughClaim, Settled
<1> QED
  BY <1>4, <1>5, <1>6, <1>7, <1>8 DEF IInv

\* DEL of the dedup key after a failure.
LEMMA ReleaseDedupIInv == ASSUME IInv, NEW s \in Slots, ReleaseDedup(s) PROVE IInv'
<1> DEFINE m == hs[s].msg
<1>0. hs[s].pc \in {"release", "recover"} /\ m \in Msgs /\ m # NoMsg
  <2>1. hs[s].pc = "release" \/ hs[s].pc = "recover"
    BY Zenon DEF ReleaseDedup
  <2> QED
    BY <2>1, HandlerEntry
<1>f. UNCHANGED <<added, group, cursor, pel, idle, dlq, loop, batch, scan, cancelled,
                  skipped, done, mails, overtaken, exposed>>
  BY Zenon DEF ReleaseDedup
<1>1. Pending' = Pending /\ Delivered' = Delivered
  BY <1>f DEF Pending, Delivered
<1>2. /\ dedup' = dedup \/ dedup' = dedup \ {m}
      /\ leaked' = leaked \cup ({m} \cap (dedup' \ done))
      /\ Step(s, "decide") \/ Step(s, "dead")
      /\ events' = events \/ Event("redis_error")
  BY Zenon DEF ReleaseDedup
<1>3. /\ \A t \in Slots \ {s} : hs'[t] = hs[t]
      /\ hs' \in [Slots -> [pc : HandlerPC, msg : {NoMsg} \cup Msgs]]
      /\ hs'[s].msg = m /\ hs'[s].pc \in {"decide", "dead"}
  BY Zenon, <1>0, <1>2, StepEffect DEF HandlerPC
<1>4. TypeOK'
  <2>1. events' \in 0..MaxEvents
    BY Zenon, <1>2, EventType DEF IInv, TypeOK
  <2>2. dedup' \subseteq Msgs /\ leaked' \subseteq Msgs
    BY <1>0, <1>2 DEF IInv, TypeOK
  <2> QED
    BY Zenon, <1>f, <1>1, <1>3, <2>1, <2>2 DEF IInv, TypeOK
<1>5. SlotsOK' /\ DeliveryOK' /\ ExclusiveOrOvertaken'
  BY Zenon, <1>0, <1>f, <1>1, <1>3, SlotStepIInv
<1>6. KeyExplained'
  <2> SUFFICES ASSUME NEW k \in dedup'
               PROVE \/ k \in done \/ k \in leaked'
                     \/ \E t \in Slots : hs'[t].msg = k /\ hs'[t].pc \in Holding
    BY <1>f DEF KeyExplained
  <2>1. CASE k = m
    BY Zenon, <1>2, <2>1
  <2>2. CASE k # m
    BY ZenonT(90), <1>2, <1>3, <2>2 DEF IInv, KeyExplained
  <2> QED
    BY Zenon, <2>1, <2>2
<1>7. AckExplained'
  BY Zenon, <1>f, <1>2, <1>3 DEF IInv, AckExplained, Excused, Settled
<1>8. LossOnlyThroughClaim'
  BY <1>f, <1>1, <1>2 DEF IInv, LossOnlyThroughClaim, Settled
<1> QED
  BY <1>4, <1>5, <1>6, <1>7, <1>8 DEF IInv

\* Retry or dead-letter.
LEMMA DecideRetryIInv == ASSUME IInv, NEW s \in Slots, DecideRetry(s) PROVE IInv'
<1> DEFINE m == hs[s].msg
<1>0. hs[s].pc = "decide" /\ m \in Msgs /\ m # NoMsg
  BY HandlerEntry, Zenon DEF DecideRetry
<1>f. UNCHANGED <<added, group, cursor, pel, idle, dedup, dlq, loop, batch, scan,
                  cancelled, skipped, done, mails, leaked, overtaken, exposed>>
  BY Zenon DEF DecideRetry, redisVars, histVars
<1>1. Pending' = Pending /\ Delivered' = Delivered
  BY <1>f DEF Pending, Delivered
<1>2. /\ Step(s, "dead") \/ Finish(s)
      /\ events' = events \/ Event("redis_error")
  BY Zenon DEF DecideRetry
<1>3. /\ \A t \in Slots \ {s} : hs'[t] = hs[t]
      /\ hs' \in [Slots -> [pc : HandlerPC, msg : {NoMsg} \cup Msgs]]
      /\ hs'[s] = Free \/ (hs'[s].msg = m /\ hs'[s].pc = "dead")
  BY ZenonT(90), <1>0, <1>2, StepEffect, FinishEffect DEF HandlerPC
<1>4. TypeOK'
  <2>1. events' \in 0..MaxEvents
    BY <1>2, EventType DEF IInv, TypeOK
  <2> QED
    BY Zenon, <1>f, <1>1, <1>3, <2>1 DEF IInv, TypeOK
<1>5. SlotsOK' /\ DeliveryOK' /\ ExclusiveOrOvertaken'
  BY ZenonT(90), <1>0, <1>f, <1>1, <1>3, SlotStepIInv
<1>6. KeyExplained'
  <2>1. \A t \in Slots : hs[t].pc \in Holding => hs'[t] = hs[t]
    BY Zenon, <1>0, <1>3 DEF Holding
  <2> QED
    BY <1>f, <2>1 DEF IInv, KeyExplained
<1>7. AckExplained'
  BY <1>f, <1>3 DEF IInv, AckExplained, Excused, Settled, Free
<1>8. LossOnlyThroughClaim'
  BY <1>f, <1>1 DEF IInv, LossOnlyThroughClaim, Settled
<1> QED
  BY <1>4, <1>5, <1>6, <1>7, <1>8 DEF IInv

\* The write to the dead-letter stream.
LEMMA toDLQIInv == ASSUME IInv, NEW s \in Slots, toDLQ(s) PROVE IInv'
<1> DEFINE m == hs[s].msg
<1>0. hs[s].pc = "dead" /\ m \in Msgs /\ m # NoMsg
  BY HandlerEntry, Zenon DEF toDLQ
<1>f. UNCHANGED <<added, group, cursor, pel, idle, dedup, loop, batch, scan,
                  cancelled, skipped, done, mails, leaked, overtaken, exposed>>
  BY Zenon DEF toDLQ, histVars
<1>1. Pending' = Pending /\ Delivered' = Delivered
  BY <1>f DEF Pending, Delivered
<1>2. /\ \/ Step(s, "ack") /\ dlq' = IF UseDLQ THEN dlq \cup {m} ELSE dlq
         \/ Finish(s) /\ (dlq' = dlq \/ dlq' = dlq \cup {m})
      /\ events' = events \/ Event("redis_error")
  BY Zenon DEF toDLQ
<1>3. /\ \A t \in Slots \ {s} : hs'[t] = hs[t]
      /\ hs' \in [Slots -> [pc : HandlerPC, msg : {NoMsg} \cup Msgs]]
      /\ \/ hs'[s] = Free
         \/ hs'[s].msg = m /\ hs'[s].pc = "ack" /\ (UseDLQ => m \in dlq')
  BY Zenon, <1>0, <1>2, StepEffect, FinishEffect DEF HandlerPC
<1>a. dlq \subseteq dlq' /\ dlq' \subseteq Msgs
  BY <1>0, <1>2 DEF IInv, TypeOK
<1>4. TypeOK'
  <2>1. events' \in 0..MaxEvents
    BY <1>2, EventType DEF IInv, TypeOK
  <2> QED
    BY Zenon, <1>f, <1>1, <1>3, <1>a, <2>1 DEF IInv, TypeOK
<1>5. SlotsOK' /\ DeliveryOK' /\ ExclusiveOrOvertaken'
  BY Zenon, <1>0, <1>f, <1>1, <1>3, SlotStepIInv
<1>6. KeyExplained'
  <2>1. \A t \in Slots : hs[t].pc \in Holding => hs'[t] = hs[t]
    BY ZenonT(90), <1>0, <1>3 DEF Holding
  <2> QED
    BY ZenonT(90), <1>f, <2>1 DEF IInv, KeyExplained
<1>7. AckExplained'
  BY <1>f, <1>3, <1>a DEF IInv, AckExplained, Excused, Settled, Free
<1>8. LossOnlyThroughClaim'
  BY <1>f, <1>1, <1>a DEF IInv, LossOnlyThroughClaim, Settled
<1> QED
  BY <1>4, <1>5, <1>6, <1>7, <1>8 DEF IInv

\* XACK.
LEMMA AckIInv == ASSUME IInv, NEW s \in Slots, Ack(s) PROVE IInv'
<1> DEFINE m == hs[s].msg
<1>0. hs[s].pc = "ack" /\ m \in Msgs /\ m # NoMsg
  BY HandlerEntry, Zenon DEF Ack
<1>f. UNCHANGED <<added, group, cursor, dedup, dlq, loop, batch, scan, cancelled,
                  skipped, done, mails, leaked, overtaken, exposed>>
  BY Zenon DEF Ack, histVars
<1>1. Delivered' = Delivered
  BY <1>f DEF Delivered
<1>2. /\ Finish(s)
      /\ \/ pel' = [pel EXCEPT ![m] = 0] /\ idle' = idle \ {m} /\ events' = events
         \/ pel' = pel /\ idle' = idle /\ Event("redis_error")
  BY Zenon DEF Ack
<1>3. /\ hs'[s] = Free
      /\ \A t \in Slots \ {s} : hs'[t] = hs[t]
      /\ hs' \in [Slots -> [pc : HandlerPC, msg : {NoMsg} \cup Msgs]]
  BY Zenon, <1>2, FinishEffect
<1>a. \/ Pending' = Pending /\ idle' = idle
      \/ Pending' = Pending \ {m} /\ idle' = idle \ {m}
  BY <1>0, <1>2 DEF Pending, IInv, TypeOK
<1>4. TypeOK'
  <2>1. events' \in 0..MaxEvents
    BY Zenon, <1>2, EventType DEF IInv, TypeOK
  <2>2. pel' \in [Msgs -> Nat]
    BY <1>2 DEF IInv, TypeOK
  <2>3. idle' \subseteq Pending'
    BY <1>a DEF IInv, TypeOK
  <2> QED
    BY Zenon, <1>f, <1>1, <1>3, <2>1, <2>2, <2>3 DEF IInv, TypeOK
<1>5. SlotsOK' /\ DeliveryOK' /\ ExclusiveOrOvertaken'
  <2>1. Pending' \subseteq Pending
    BY Zenon, <1>a
  <2> QED
    BY Zenon, <1>0, <1>f, <1>3, <2>1, SlotStepIInv
<1>6. KeyExplained'
  <2>1. \A t \in Slots : hs[t].pc \in Holding => hs'[t] = hs[t]
    BY Zenon, <1>0, <1>3 DEF Holding
  <2> QED
    BY <1>f, <2>1 DEF IInv, KeyExplained
<1>7. AckExplained'
  BY SMTT(60), <1>f, <1>3 DEF IInv, AckExplained, Excused, Settled, Free
<1>8. LossOnlyThroughClaim'
  <2>1. UseDLQ => Excused(m)
    BY <1>0 DEF IInv, AckExplained
  <2> QED
    BY Zenon, <1>f, <1>1, <1>a, <2>1 DEF IInv, LossOnlyThroughClaim, Excused, Settled
<1> QED
  BY <1>4, <1>5, <1>6, <1>7, <1>8 DEF IInv

\* Every step keeps the invariant.
LEMMA NextIInv == IInv /\ [Next]_vars => IInv'
<1> SUFFICES ASSUME IInv, [Next]_vars PROVE IInv'
  OBVIOUS
<1>1. CASE UNCHANGED vars
  BY Zenon, <1>1 DEF vars, IInv, TypeOK, SlotsOK, DeliveryOK, ExclusiveOrOvertaken, KeyExplained,
        AckExplained, LossOnlyThroughClaim, Excused, Settled, Pending, Delivered, Busy
<1>2. CASE LoopStep
  BY <1>2, QuietLoopIInv, XReadGroupIInv, XAutoClaimIInv, DispatchIInv DEF LoopStep
<1>3. ASSUME NEW s \in Slots, Handle(s) PROVE IInv'
  BY <1>3, ClaimDedupIInv, RunHandlerIInv, ReleaseDedupIInv, DecideRetryIInv, toDLQIInv, AckIInv
     DEF Handle
<1> QED
  BY <1>1, <1>2, <1>3, ProduceIInv, GrowIdleIInv, StartConsumerIInv, ProcessIInv DEF Next

\* The invariant holds throughout.
LEMMA InductiveInvariant == Spec => []IInv
  BY InitIInv, NextIInv, PTL DEF Spec

\* The state of Redis and of the worker process is well formed in every
\* reachable state of stream_consumer.go, for every configuration.
THEOREM TypeCorrect == Spec => []TypeOK
<1>1. IInv => TypeOK
  BY DEF IInv
<1> QED
  BY <1>1, InductiveInvariant, PTL

\* handle acknowledges an entry only when it was processed, copied to the DLQ,
\* or found under a dedup key whose handler never finished or still runs.
THEOREM LossOnlyThroughClaimHolds == Spec => []LossOnlyThroughClaim
<1>1. IInv => LossOnlyThroughClaim
  BY DEF IInv
<1> QED
  BY <1>1, InductiveInvariant, PTL

-----------------------------------------------------------------------------
Holds(s) == hs[s].pc \in Holding

\* The strengthening of DuplicateOnlyUnclaimed: an entry that was never exposed
\* has one holder of its key at most, and keeps the key once it is finished.
OneInv ==
    /\ \A m \in Msgs \ exposed : mails[m] = IF m \in done THEN 1 ELSE 0
    /\ \A m \in done \ exposed : m \in dedup
    /\ \A s \in Slots : Holds(s) => hs[s].msg \in exposed \cup (dedup \ done)
    /\ \A s, t \in Slots : Holds(s) /\ Holds(t) /\ s # t /\ hs[s].msg = hs[t].msg
                             => hs[s].msg \in exposed

\* A step that leaves the keys, the mails and every holder alone.
LEMMA OneInvQuiet ==
  ASSUME OneInv, UNCHANGED <<dedup, done, mails, exposed>>,
         \A t \in Slots : Holds(t)' => Holds(t) /\ hs'[t].msg = hs[t].msg
  PROVE  OneInv'
BY ZenonT(90) DEF OneInv

\* A step about one entry that exposes it, and at most finishes or holds it.
LEMMA OneInvExposed ==
  ASSUME IInv, OneInv, NEW m \in Msgs, exposed' = exposed \cup {m},
         dedup \subseteq dedup', done' = done, \A k \in Msgs \ {m} : mails'[k] = mails[k],
         \A t \in Slots : Holds(t)' => hs'[t].msg = m \/ (Holds(t) /\ hs'[t].msg = hs[t].msg)
  PROVE  OneInv'
<1>1. \A k \in Msgs \ exposed' : mails'[k] = IF k \in done' THEN 1 ELSE 0
  BY Zenon DEF OneInv
<1>2. \A k \in done' \ exposed' : k \in dedup'
  BY Zenon DEF OneInv
<1>3. \A t \in Slots : Holds(t)' => hs'[t].msg \in exposed' \cup (dedup' \ done')
  BY Zenon DEF OneInv
<1>4. \A t, u \in Slots : Holds(t)' /\ Holds(u)' /\ t # u /\ hs'[t].msg = hs'[u].msg
                             => hs'[t].msg \in exposed'
  BY Zenon DEF OneInv
<1> QED
  BY Zenon, <1>1, <1>2, <1>3, <1>4 DEF OneInv

\* SET NX: a new holder has a key nobody else holds, or its entry is exposed.
LEMMA OneInvClaim ==
  ASSUME IInv, OneInv, NEW s \in Slots, ClaimDedup(s) PROVE OneInv'
<1> DEFINE m == hs[s].msg
<1>0. UNCHANGED <<done, mails>> /\ hs[s].pc = "claim" /\ m \in Msgs
  BY ZenonT(90), HandlerEntry DEF ClaimDedup
<1>1. \/ m \notin dedup /\ dedup' = dedup \cup {m} /\ exposed' = exposed /\ Step(s, "run")
      \/ dedup \subseteq dedup' /\ exposed' = exposed /\ Step(s, "ack")
      \/ dedup \subseteq dedup' /\ exposed' = exposed \cup {m} /\ Step(s, "run")
  BY DEF ClaimDedup
<1>2. CASE m \notin dedup /\ dedup' = dedup \cup {m} /\ exposed' = exposed /\ Step(s, "run")
  <2>1. /\ hs'[s].msg = m
        /\ \A t \in Slots \ {s} : hs'[t] = hs[t]
    BY ZenonT(90), <1>0, <1>2, StepEffect DEF HandlerPC, IInv
  <2>2. m \notin done \/ m \in exposed
    BY Zenon, <1>2 DEF OneInv
  <2>3. \A t \in Slots : Holds(t)' => t = s \/ (Holds(t) /\ hs'[t] = hs[t])
    BY Zenon, <2>1 DEF Holds
  <2>4. \A t \in Slots : t # s /\ Holds(t) /\ hs[t].msg = m => m \in exposed
    BY Zenon, <1>2 DEF OneInv
  <2>5. \A t \in Slots : Holds(t)' => hs'[t].msg \in exposed' \cup (dedup' \ done')
    BY Zenon, <1>0, <1>2, <2>1, <2>2, <2>3 DEF OneInv
  <2>6. \A t, u \in Slots : Holds(t)' /\ Holds(u)' /\ t # u /\ hs'[t].msg = hs'[u].msg
                               => hs'[t].msg \in exposed'
    BY Zenon, <1>2, <2>1, <2>3, <2>4 DEF OneInv
  <2>7. \A k \in done' \ exposed' : k \in dedup'
    BY Zenon, <1>0, <1>2 DEF OneInv
  <2> QED
    BY Zenon, <1>0, <1>2, <2>5, <2>6, <2>7 DEF OneInv
<1>3. CASE dedup \subseteq dedup' /\ exposed' = exposed /\ Step(s, "ack")
  <2>1. /\ hs'[s].pc = "ack"
        /\ \A t \in Slots \ {s} : hs'[t] = hs[t]
    BY Zenon, <1>0, <1>3, StepEffect DEF HandlerPC, IInv
  <2>2. \A t \in Slots : Holds(t)' => Holds(t) /\ hs'[t] = hs[t]
    BY SMTT(60), <2>1 DEF Holds, Holding
  <2> QED
    BY <1>0, <1>3, <2>2 DEF OneInv
<1>4. CASE dedup \subseteq dedup' /\ exposed' = exposed \cup {m} /\ Step(s, "run")
  <2>1. /\ hs'[s].msg = m
        /\ \A t \in Slots \ {s} : hs'[t] = hs[t]
    BY ZenonT(90), <1>0, <1>4, StepEffect DEF HandlerPC, IInv
  <2>2. \A t \in Slots : Holds(t)' => hs'[t].msg = m \/ (Holds(t) /\ hs'[t].msg = hs[t].msg)
    BY <2>1 DEF Holds
  <2> QED
    BY Zenon, <1>0, <1>4, <2>2, OneInvExposed
<1> QED
  BY <1>1, <1>2, <1>3, <1>4

\* The handler sends its mail as the only holder, or exposes its entry.
LEMMA OneInvRun ==
  ASSUME IInv, OneInv, NEW s \in Slots, RunHandler(s) PROVE OneInv'
<1> DEFINE m == hs[s].msg
<1>0. dedup' = dedup /\ hs[s].pc = "run" /\ m \in Msgs /\ Holds(s)
  BY Zenon, HandlerEntry DEF RunHandler, redisVars, Holds, Holding
<1>1. \/ done' = done \cup {m} /\ Sent(m) /\ exposed' = exposed /\ Step(s, "ack")
      \/ UNCHANGED <<done, mails, exposed>> /\ (Step(s, "release") \/ Step(s, "recover"))
      \/ done' = done /\ Sent(m) /\ exposed' = exposed \cup {m} /\ Step(s, "release")
  BY Zenon DEF RunHandler
<1>2. CASE done' = done \cup {m} /\ Sent(m) /\ exposed' = exposed /\ Step(s, "ack")
  <2>1. /\ hs'[s].pc = "ack"
        /\ \A t \in Slots \ {s} : hs'[t] = hs[t]
    BY Zenon, <1>0, <1>2, StepEffect DEF HandlerPC, IInv
  <2>2. \A k \in Msgs \ exposed' : mails'[k] = IF k \in done' THEN 1 ELSE 0
    BY <1>0, <1>2 DEF Sent, IInv, TypeOK, OneInv
  <2>3. \A t \in Slots : Holds(t)' => t # s /\ Holds(t) /\ hs'[t] = hs[t]
    BY Zenon, <2>1 DEF Holds, Holding
  <2>4. \A k \in done' \ exposed' : k \in dedup'
    BY ZenonT(90), <1>0, <1>2 DEF OneInv
  <2>5. \A t \in Slots : Holds(t)' => hs'[t].msg \in exposed' \cup (dedup' \ done')
    BY <1>0, <1>2, <2>3 DEF OneInv
  <2> QED
    BY Zenon, <1>2, <2>2, <2>3, <2>4, <2>5 DEF OneInv
<1>3. CASE UNCHANGED <<done, mails, exposed>> /\ (Step(s, "release") \/ Step(s, "recover"))
  <2>1. /\ hs'[s].msg = m
        /\ \A t \in Slots \ {s} : hs'[t] = hs[t]
    BY Zenon, <1>0, <1>3, StepEffect DEF HandlerPC, IInv
  <2>2. \A t \in Slots : Holds(t)' => Holds(t) /\ hs'[t].msg = hs[t].msg
    BY SMTT(60), <1>0, <2>1 DEF Holds
  <2> QED
    BY Zenon, <1>0, <1>3, <2>2, OneInvQuiet
<1>4. CASE done' = done /\ Sent(m) /\ exposed' = exposed \cup {m} /\ Step(s, "release")
  <2>1. /\ hs'[s].msg = m
        /\ \A t \in Slots \ {s} : hs'[t] = hs[t]
    BY Zenon, <1>0, <1>4, StepEffect DEF HandlerPC, IInv
  <2>2. \A t \in Slots : Holds(t)' => hs'[t].msg = m \/ (Holds(t) /\ hs'[t].msg = hs[t].msg)
    BY <2>1 DEF Holds
  <2>3. \A k \in Msgs \ {m} : mails'[k] = mails[k]
    BY <1>4 DEF Sent, IInv, TypeOK
  <2> QED
    BY Zenon, <1>0, <1>4, <2>2, <2>3, OneInvExposed
<1> QED
  BY <1>1, <1>2, <1>3, <1>4

\* DEL gives a key back, or fails to: its holder is gone either way.
LEMMA OneInvRelease ==
  ASSUME IInv, OneInv, NEW s \in Slots, ReleaseDedup(s) PROVE OneInv'
<1> DEFINE m == hs[s].msg
<1>0. (dedup' = dedup \/ dedup' = dedup \ {m}) /\ UNCHANGED <<done, mails, exposed>> /\ Holds(s)
  BY Zenon DEF ReleaseDedup, Holds, Holding
<1>1. m \in exposed \/ m \notin done
  BY <1>0 DEF OneInv
<1>2. (Step(s, "decide") \/ Step(s, "dead")) /\ hs[s].pc # "free" /\ m \in Msgs
  BY ZenonT(90), HandlerEntry DEF ReleaseDedup
<1>3. /\ hs'[s].pc \notin Holding
      /\ \A t \in Slots \ {s} : hs'[t] = hs[t]
  BY SMTT(60), <1>2, StepEffect DEF HandlerPC, Holding, IInv
<1>4. \A t \in Slots : Holds(t)' => t # s /\ Holds(t) /\ hs'[t] = hs[t]
  BY Zenon, <1>3 DEF Holds
<1>5. \A t \in Slots : Holds(t)' => hs'[t].msg \in exposed' \cup (dedup' \ done')
  BY Zenon, <1>0, <1>4 DEF OneInv
<1>6. \A k \in done' \ exposed' : k \in dedup'
  BY <1>0, <1>1 DEF OneInv
<1> QED
  BY ZenonT(90), <1>0, <1>4, <1>5, <1>6 DEF OneInv

\* A handler step mails an entry that was never exposed at most once.
LEMMA OneInvHandle ==
  ASSUME IInv, OneInv, NEW s \in Slots, Handle(s) PROVE OneInv'
<1>1. CASE DecideRetry(s) \/ toDLQ(s) \/ Ack(s)
  <2>0. hs[s].pc # "free" /\ hs[s].msg \in Msgs
    BY Zenon, <1>1, HandlerEntry DEF DecideRetry, toDLQ, Ack
  <2>1. UNCHANGED <<dedup, done, mails, exposed>>
    BY Zenon, <1>1 DEF DecideRetry, toDLQ, Ack, redisVars, histVars
  <2>2. Step(s, "dead") \/ Step(s, "ack") \/ Finish(s)
    BY ZenonT(90), <1>1 DEF DecideRetry, toDLQ, Ack
  <2>3. /\ hs'[s].pc \notin Holding
        /\ \A t \in Slots \ {s} : hs'[t] = hs[t]
    BY SMTT(60), <2>0, <2>2, StepEffect, FinishEffect DEF HandlerPC, Holding, Free, IInv
  <2>4. \A t \in Slots : Holds(t)' => Holds(t) /\ hs'[t].msg = hs[t].msg
    BY <2>3 DEF Holds
  <2> QED
    BY Zenon, <2>1, <2>4, OneInvQuiet
<1> QED
  BY Zenon, <1>1, OneInvClaim, OneInvRun, OneInvRelease DEF Handle

\* Nor does any other step.
LEMMA OneInvNext == ASSUME IInv, OneInv, [Next]_vars PROVE OneInv'
<1> USE DEF Holds, Holding
<1>1. CASE UNCHANGED vars
  BY Zenon, <1>1, OneInvQuiet DEF vars
<1>2. CASE Produce \/ (\E m \in Msgs : GrowIdle(m)) \/ StartConsumer \/ Cancel
  BY Zenon, <1>2, OneInvQuiet DEF Produce, GrowIdle, StartConsumer, Cancel, procVars, redisVars, histVars
<1>3. CASE Crash \/ Exit \/ ExitTimeout
  <2>1. UNCHANGED <<dedup, done, mails, exposed>> /\ \A t \in Slots : hs'[t] = Free
    BY <1>3 DEF Crash, Exit, ExitTimeout, ProcessGone, redisVars
  <2> QED
    BY SMTT(60), <2>1, OneInvQuiet DEF Free
<1>5. CASE LoopStep
  <2>1. CASE \E s \in Slots : Dispatch(s)
    <3>1. UNCHANGED <<dedup, done, mails, exposed>>
      BY ZenonT(90), <2>1 DEF Dispatch, redisVars, histVars
    <3>2. \A t \in Slots : Holds(t)' => hs'[t] = hs[t]
      BY SMTT(60), <2>1 DEF Dispatch, IInv, TypeOK
    <3> QED
      BY <3>1, <3>2, OneInvQuiet
  <2>2. CASE ~(\E s \in Slots : Dispatch(s))
    BY Zenon, <1>5, <2>2, OneInvQuiet DEF LoopStep, LoopDone, LoopTick, LoopDefault, XReadGroup,
       XAutoClaim, Dispatched, DispatchDone, Drained, redisVars, histVars
  <2> QED
    BY Zenon, <2>1, <2>2
<1>6. CASE \E s \in Slots : Handle(s)
  BY Zenon, <1>6, OneInvHandle
<1> QED
  BY Zenon, <1>1, <1>2, <1>3, <1>5, <1>6 DEF Next

\* Whatever fails and whenever, only an entry that was handled without a claim,
\* or whose failed send went out, is mailed twice: no redelivery does it, not
\* after a crash at any point and not when a running entry is reclaimed.
THEOREM SecondMailOnlyUnclaimed == Spec => []DuplicateOnlyUnclaimed
<1>1. Init => OneInv
  BY DEF Init, OneInv, Holds, Holding, Free
<1>2. IInv /\ OneInv /\ [Next]_vars => OneInv'
  BY SMTT(60), OneInvNext
<1>3. IInv /\ OneInv => DuplicateOnlyUnclaimed
  BY DEF IInv, TypeOK, OneInv, DuplicateOnlyUnclaimed
<1> QED
  BY <1>1, <1>2, <1>3, InductiveInvariant, PTL DEF Spec

-----------------------------------------------------------------------------
\* One more delivery of m is within the bound.
Slack(m) == pel[m] < MaxRetries + events

\* The strengthening of RetriesBounded: an entry that nobody has any more, or
\* that a cancelled worker lets go, was let go below MaxRetries or at the price
\* of an event, and only such an entry is reclaimed.
BudgetInv ==
    /\ \A m \in Msgs : pel[m] <= MaxRetries + events
    /\ cancelled => events > 0 /\ \A m \in Msgs : Slack(m)
    /\ \A m \in Pending : m \in batch \/ Busy(m) \/ Slack(m)
    /\ \A m \in idle : m \notin batch /\ ~Busy(m)
    /\ loop \in {"drain", "returned"} => cancelled
    /\ loop \notin {"dispatch", "redispatch"} => batch = {}

LEMMA Counters ==
  ASSUME IInv
  PROVE  /\ events \in Nat /\ MaxRetries \in Nat /\ MaxRetries >= 1 /\ BatchSize \in Nat
         /\ \A m \in Msgs : pel[m] \in Nat
         /\ idle \subseteq Pending /\ Pending \subseteq Msgs /\ cancelled \in BOOLEAN
BY ConfigAssumption DEF IInv, TypeOK, Pending

\* A step that changes no counter, and lets go only of what has slack.
LEMMA BudgetKept ==
  ASSUME IInv, BudgetInv, UNCHANGED <<pel, idle>>, batch' \subseteq batch,
         events' = events \/ events' = events + 1,
         \A m \in Msgs : m \in batch \/ Busy(m) => m \in batch' \/ Busy(m)' \/ Slack(m)',
         \A m \in Msgs : Busy(m)' => Busy(m) \/ m \in batch,
         cancelled' => cancelled \/ events' = events + 1,
         loop' \in {"drain", "returned"} => cancelled',
         loop' \notin {"dispatch", "redispatch"} => batch' = {}
  PROVE  BudgetInv'
<1>1. Pending' = Pending
  BY DEF Pending
<1>2. \A m \in Msgs : /\ Slack(m) => Slack(m)'
                      /\ pel'[m] <= MaxRetries + events'
                      /\ events' = events + 1 => Slack(m)'
  BY Counters DEF BudgetInv, Slack
<1>3. Pending \subseteq Msgs /\ idle \subseteq Msgs
  BY Counters
<1>4. cancelled' => events' > 0 /\ \A m \in Msgs : Slack(m)'
  <2>1. events > 0 => events' > 0
    BY Counters
  <2>2. events' = events + 1 => events' > 0
    BY Counters
  <2> QED
    BY Zenon, <1>2, <2>1, <2>2 DEF BudgetInv
<1>5. \A m \in Pending' : m \in batch' \/ Busy(m)' \/ Slack(m)'
  BY Zenon, <1>1, <1>2, <1>3 DEF BudgetInv
<1>6. \A m \in idle' : m \notin batch' /\ ~Busy(m)'
  BY Zenon, <1>3 DEF BudgetInv
<1> QED
  BY Zenon, <1>2, <1>4, <1>5, <1>6 DEF BudgetInv

\* Start-up, cancellation and the end of the process.
LEMMA BudgetProcess ==
  ASSUME IInv, BudgetInv, "slow" \notin Env,
         Produce \/ StartConsumer \/ Crash \/ Cancel \/ Exit \/ ExitTimeout
  PROVE  BudgetInv'
<1>1. CASE Produce
  BY Zenon, <1>1, BudgetKept DEF Produce, procVars, Busy, BudgetInv
<1>2. CASE StartConsumer
  <2>1. batch = {}
    BY <1>2 DEF StartConsumer, BudgetInv
  <2> QED
    BY ZenonT(90), <1>2, <2>1, BudgetKept DEF StartConsumer, Busy
<1>3. CASE Cancel
  <2>1. events' = events + 1 /\ cancelled' /\ UNCHANGED <<pel, idle, batch, loop, hs>>
    BY Zenon, <1>3 DEF Cancel, Event, redisVars
  <2> QED
    BY Zenon, <2>1, BudgetKept DEF Busy, BudgetInv
<1>4. ASSUME ProcessGone, events' = events + 1 \/ (events' = events /\ cancelled) PROVE BudgetInv'
  <2>1. /\ UNCHANGED <<pel, idle>> /\ batch' = {} /\ ~cancelled' /\ loop' = "down"
        /\ \A s \in Slots : hs'[s] = Free
    BY Zenon, <1>4 DEF ProcessGone, redisVars
  <2>2. \A m \in Msgs : Slack(m)'
    <3>1. /\ events \in Nat /\ MaxRetries \in Nat
          /\ \A m \in Msgs : pel[m] \in Nat /\ pel[m] <= MaxRetries + events
          /\ cancelled => \A m \in Msgs : pel[m] < MaxRetries + events
      BY Zenon, Counters DEF BudgetInv, Slack
    <3>2. \A m \in Msgs : pel[m] < MaxRetries + events'
      BY SMTT(60), <1>4, <3>1
    <3> QED
      BY Zenon, <2>1, <3>2 DEF Slack
  <2>3. \A m \in Msgs : ~Busy(m)'
    BY <2>1 DEF Busy, Free, NoMsg, Msgs
  <2> QED
    BY ZenonT(90), <1>4, <2>1, <2>2, <2>3, BudgetKept
<1>5. CASE Crash
  BY Zenon, <1>4, <1>5 DEF Crash, Event
<1>6. CASE Exit
  BY Zenon, <1>4, <1>6 DEF Exit, BudgetInv
<1> QED
  BY Zenon, <1>1, <1>2, <1>3, <1>5, <1>6 DEF ExitTimeout

\* Only what nobody has becomes idle.
LEMMA BudgetIdle ==
  ASSUME IInv, BudgetInv, "slow" \notin Env, NEW m \in Msgs, GrowIdle(m) PROVE BudgetInv'
<1>1. /\ m \notin batch /\ ~Busy(m) /\ idle' = idle \cup {m}
      /\ UNCHANGED <<pel, batch, hs, loop, cancelled, events>>
  BY Zenon DEF GrowIdle, procVars
<1>2. Pending' = Pending /\ \A k : Busy(k)' = Busy(k) /\ Slack(k)' = Slack(k)
  BY Zenon, <1>1 DEF Pending, Busy, Slack
<1> QED
  BY Zenon, <1>1, <1>2 DEF BudgetInv

\* The loop, commands apart: a batch is dropped only when the context is cancelled.
LEMMA BudgetLoop ==
  ASSUME IInv, BudgetInv,
         LoopDone \/ LoopTick \/ LoopDefault \/ Dispatched \/ DispatchDone \/ Drained
  PROVE  BudgetInv'
<1>1. /\ UNCHANGED <<pel, idle, hs, cancelled, events>> /\ batch' \subseteq batch
      /\ batch' = batch \/ (batch' = {} /\ cancelled)
      /\ loop' \notin {"dispatch", "redispatch"} /\ batch' = {}
      /\ loop' \in {"drain", "returned"} => cancelled
  BY Zenon DEF LoopDone, LoopTick, LoopDefault, Dispatched, DispatchDone, Drained, ClaimReturns, redisVars, BudgetInv
<1>2. \A m \in Msgs : Busy(m)' = Busy(m) /\ Slack(m)' = Slack(m)
  BY Zenon, <1>1 DEF Busy, Slack
<1>3. \A m \in Msgs : m \in batch \/ Busy(m) => m \in batch' \/ Busy(m)' \/ Slack(m)'
  BY Zenon, <1>1, <1>2 DEF BudgetInv
<1> QED
  BY ZenonT(90), <1>1, <1>2, <1>3, BudgetKept

LEMMA BudgetDispatch ==
  ASSUME IInv, BudgetInv, NEW s \in Slots, Dispatch(s) PROVE BudgetInv'
<1>0. PICK m \in batch :
        /\ batch' = batch \ {m}
        /\ hs' = [hs EXCEPT ![s] =
                     [pc |-> IF m \in Undecodable THEN "dead" ELSE "claim", msg |-> m]]
  BY Zenon DEF Dispatch
<1>1. /\ UNCHANGED <<pel, idle, loop, cancelled, events>> /\ loop \in {"dispatch", "redispatch"}
      /\ hs[s].pc = "free"
  BY Zenon DEF Dispatch, redisVars
<1>2. hs[s].msg = NoMsg
  BY SMTT(60), <1>1 DEF IInv, SlotsOK
<1>3. hs'[s].msg = m /\ \A t \in Slots \ {s} : hs'[t] = hs[t]
  BY Zenon, <1>0 DEF IInv, TypeOK
<1>4. \A k \in Msgs : Busy(k) => Busy(k)'
  BY <1>2, <1>3 DEF Busy, NoMsg, Msgs
<1>5. \A k \in Msgs : Busy(k)' => Busy(k) \/ k = m
  BY Zenon, <1>3 DEF Busy
<1>6. Busy(m)'
  BY Zenon, <1>3 DEF Busy
<1>7. \A k \in Msgs : k \in batch \/ Busy(k) => k \in batch' \/ Busy(k)'
  BY Zenon, <1>0, <1>4, <1>6
<1>8. loop' \notin {"drain", "returned"}
  BY <1>1
<1> QED
  BY Zenon, <1>0, <1>1, <1>5, <1>7, <1>8, BudgetKept

\* New entries start with counter 1, in the batch or with an error reported.
LEMMA BudgetRead == ASSUME IInv, BudgetInv, XReadGroup PROVE BudgetInv'
<1> DEFINE upto == IF cursor + BatchSize < added THEN cursor + BatchSize ELSE added
<1>0. /\ loop = "read" /\ batch = {} /\ UNCHANGED <<idle, hs, cancelled>>
  BY Zenon DEF XReadGroup, BudgetInv, histVars
<1>1. \A m \in Msgs : Busy(m)' = Busy(m)
  BY Zenon, <1>0 DEF Busy
<1>2. CASE UNCHANGED <<pel, batch>> /\ loop' = "top" /\ (events' = events \/ events' = events + 1)
  BY Zenon, <1>0, <1>1, <1>2, BudgetKept
<1>3. CASE Deliver(upto) /\ batch' = (cursor + 1)..upto /\ events' = events
           /\ loop' = (IF upto = cursor THEN "top" ELSE "dispatch")
  <2>0. upto \in Nat /\ cursor \in Nat
    BY Counters, ConfigAssumption DEF IInv, TypeOK
  <2> HIDE DEF upto
  <2>1. \A m \in Msgs : /\ m \in batch' => pel'[m] = 1
                        /\ m \notin batch' => pel'[m] = pel[m]
    BY SMTT(60), <1>3, <2>0 DEF Deliver, Msgs
  <2>2. \A m \in Msgs : pel'[m] <= MaxRetries + events'
    BY <1>3, <2>1, Counters DEF BudgetInv
  <2>3. \A m \in Msgs : Slack(m) => m \in batch' \/ Slack(m)'
    BY Zenon, <1>3, <2>1 DEF Slack
  <2>4. cancelled' => \A m \in Msgs : Slack(m)'
    <3> SUFFICES ASSUME cancelled, NEW m \in Msgs PROVE Slack(m)'
      BY Zenon, <1>0
    <3>1. pel[m] < MaxRetries + events /\ pel'[m] \in {1, pel[m]}
      BY <2>1 DEF BudgetInv, Slack
    <3>2. CASE pel'[m] = pel[m]
      BY <1>3, <3>1, <3>2 DEF Slack
    <3>3. CASE pel'[m] = 1
      <4>1. events > 0
        BY DEF BudgetInv
      <4> QED
        BY <1>3, <3>3, <4>1, Counters DEF Slack
    <3> QED
      BY <3>1, <3>2, <3>3
  <2>5. \A m \in Pending' : m \in batch' \/ Busy(m)' \/ Slack(m)'
    <3> SUFFICES ASSUME NEW m \in Msgs, pel'[m] > 0, m \notin batch' PROVE Busy(m)' \/ Slack(m)'
      BY DEF Pending
    <3>1. m \in Pending
      BY <2>1 DEF Pending
    <3> QED
      BY Zenon, <1>0, <1>1, <2>3, <3>1 DEF BudgetInv
  <2>6. \A m \in idle' : m \notin batch' /\ ~Busy(m)'
    <3> SUFFICES ASSUME NEW m \in idle PROVE m \notin batch' /\ ~Busy(m)'
      BY Zenon, <1>0
    <3>1. m \in Msgs /\ m \in Delivered
      BY Counters DEF IInv, DeliveryOK
    <3>2. m <= cursor /\ m \in Nat
      BY <2>0, <3>1 DEF Delivered, Msgs
    <3>3. m \notin batch'
      BY <1>3, <2>0, <3>2
    <3> QED
      BY Zenon, <1>1, <3>1, <3>3 DEF BudgetInv
  <2>7. loop' \notin {"dispatch", "redispatch"} => batch' = {}
    BY <1>3, <2>0
  <2>8. loop' \notin {"drain", "returned"}
    BY <1>3
  <2> QED
    BY ZenonT(90), <1>0, <1>3, <2>2, <2>4, <2>5, <2>6, <2>7, <2>8 DEF BudgetInv
<1>4. CASE Deliver(upto) /\ UNCHANGED batch /\ loop' = "top" /\ events' = events + 1
  <2>1. \A m \in Msgs : pel'[m] \in {1, pel[m]}
    BY Zenon, <1>4 DEF Deliver
  <2>2. \A m \in Msgs : pel'[m] <= MaxRetries + events' /\ Slack(m)'
    BY <1>4, <2>1, Counters DEF BudgetInv, Slack
  <2>3. Pending' \subseteq Msgs /\ idle \subseteq Msgs
    BY Counters DEF Pending
  <2>4. loop' \notin {"drain", "returned"}
    BY <1>4
  <2>5. \A m \in Pending' : m \in batch' \/ Busy(m)' \/ Slack(m)'
    BY Zenon, <2>2, <2>3
  <2>6. \A m \in idle' : m \notin batch' /\ ~Busy(m)'
    BY Zenon, <1>0, <1>1, <1>4, <2>3 DEF BudgetInv
  <2>7. events' > 0
    <3>1. events \in Nat /\ events' = events + 1
      BY Zenon, <1>4, Counters
    <3> QED
      BY <3>1
  <2> QED
    BY Zenon, <1>0, <1>4, <2>2, <2>4, <2>5, <2>6, <2>7 DEF BudgetInv
<1> QED
  BY Zenon, <1>2, <1>3, <1>4 DEF XReadGroup, Event

\* XAUTOCLAIM counts up only what had slack.
LEMMA BudgetReclaim == ASSUME IInv, BudgetInv, XAutoClaim PROVE BudgetInv'
<1> DEFINE found == FirstOf({m \in idle : m >= scan}, BatchSize)
<1>0. /\ loop = "reclaim" /\ batch = {} /\ UNCHANGED <<hs, cancelled>> /\ found \subseteq idle
  BY DEF XAutoClaim, BudgetInv, FirstOf
<1>1. \A m \in Msgs : Busy(m)' = Busy(m)
  BY Zenon, <1>0 DEF Busy
<1>2. \A m \in found : m \in Msgs /\ ~Busy(m) /\ Slack(m)
  <2>1. idle \subseteq Pending /\ Pending \subseteq Msgs
    BY Counters
  <2> QED
    BY Zenon, <1>0, <2>1 DEF BudgetInv
<1>n. /\ events \in Nat /\ MaxRetries \in Nat
      /\ \A m \in Msgs : pel[m] \in Nat /\ pel[m] <= MaxRetries + events
  BY Zenon, Counters DEF BudgetInv
<1>s. \A m \in found : pel[m] < MaxRetries + events
  BY Zenon, <1>2 DEF Slack
<1>r. ClaimReturns \notin {"drain", "returned", "dispatch", "redispatch"}
  BY DEF ClaimReturns
<1>3. CASE UNCHANGED <<pel, idle, batch>> /\ loop' = ClaimReturns /\ (events' = events \/ events' = events + 1)
  BY Zenon, <1>0, <1>1, <1>3, <1>r, BudgetKept
<1> HIDE DEF found
<1>4. CASE Redeliver(found)
  <2>1. \A m \in Msgs : /\ m \in found => pel'[m] = pel[m] + 1
                        /\ m \notin found => pel'[m] = pel[m]
    BY <1>4 DEF Redeliver
  <2>2. idle' = idle \ found
    BY <1>4 DEF Redeliver
  <2>3. \A m \in Msgs : m \in Pending' => m \in Pending \/ m \in found
    BY <2>1 DEF Pending
  <2>4. Pending' \subseteq Msgs /\ idle \subseteq Msgs
    BY Counters DEF Pending
  <2>5. CASE ~cancelled /\ batch' = found /\ loop' = "redispatch" /\ events' = events
    <3>0. events' = events
      BY Zenon, <2>5
    <3>1. \A m \in Msgs : pel'[m] <= MaxRetries + events'
      BY SMTT(60), <1>n, <1>s, <2>1, <3>0
    <3>2. \A m \in Msgs \ found : Slack(m) => Slack(m)'
      BY Zenon, <2>1, <3>0 DEF Slack
    <3>3. \A m \in Pending' : m \in batch' \/ Busy(m)' \/ Slack(m)'
      BY Zenon, <1>0, <1>1, <2>3, <2>4, <2>5, <3>2 DEF BudgetInv
    <3>4. \A m \in idle' : m \notin batch' /\ ~Busy(m)'
      BY Zenon, <1>1, <2>2, <2>4, <2>5 DEF BudgetInv
    <3>5. loop' \in {"dispatch", "redispatch"} /\ loop' \notin {"drain", "returned"}
      BY <2>5
    <3> QED
      BY ZenonT(90), <1>0, <2>5, <3>1, <3>3, <3>4, <3>5 DEF BudgetInv
  <2>6. CASE UNCHANGED batch /\ loop' = ClaimReturns /\ events' = events + 1
    <3>0. events' = events + 1
      BY Zenon, <2>6
    <3>1. \A m \in Msgs : pel'[m] <= MaxRetries + events' /\ pel'[m] < MaxRetries + events'
      BY SMTT(60), <1>n, <1>s, <2>1, <3>0
    <3>2. \A m \in Msgs : Slack(m)'
      BY Zenon, <3>1 DEF Slack
    <3>3. events' > 0
      BY <1>n, <3>0
    <3>4. \A m \in idle' : m \notin batch' /\ ~Busy(m)'
      BY Zenon, <1>1, <2>2, <2>4, <2>6 DEF BudgetInv
    <3> QED
      BY ZenonT(90), <1>0, <1>r, <2>4, <2>6, <3>1, <3>2, <3>3, <3>4 DEF BudgetInv
  <2> QED
    BY Zenon, <1>4, <2>5, <2>6, <1>3 DEF XAutoClaim, Event, found
<1> QED
  BY ZenonT(90), <1>3, <1>4 DEF XAutoClaim, Event, found

\* A handler ends with an ack, below MaxRetries, or by an event.
LEMMA BudgetHandle ==
  ASSUME IInv, BudgetInv, NEW s \in Slots, Handle(s) PROVE BudgetInv'
<1>0. hs[s].pc # "free" /\ UNCHANGED <<loop, batch, cancelled>> /\ (events' = events \/ events' = events + 1)
  BY Zenon DEF Handle, ClaimDedup, RunHandler, ReleaseDedup, DecideRetry, toDLQ, Ack, Event
<1>1. PICK m \in Msgs : hs[s].msg = m
  BY Zenon, <1>0, HandlerEntry
<1>n. /\ events \in Nat /\ MaxRetries \in Nat /\ MaxRetries >= 1
      /\ \A k \in Msgs : pel[k] \in Nat /\ pel[k] <= MaxRetries + events
  BY Zenon, Counters DEF BudgetInv
<1>e. /\ events' \in Nat /\ events <= events' /\ MaxRetries \in Nat
      /\ 0 < MaxRetries + events' /\ MaxRetries <= MaxRetries + events'
  BY SMTT(60), <1>0, <1>n
<1>b. batch' = batch /\ (loop' \in {"drain", "returned"} => cancelled')
      /\ (loop' \notin {"dispatch", "redispatch"} => batch' = {}) /\ (cancelled' => cancelled)
  BY Zenon, <1>0 DEF BudgetInv
<1>2. ASSUME NEW pc \in HandlerPC \ {"free"}, Step(s, pc), UNCHANGED <<pel, idle>> PROVE BudgetInv'
  <2>1. hs'[s].msg = hs[s].msg /\ \A t \in Slots \ {s} : hs'[t] = hs[t]
    BY Zenon, <1>0, <1>2, StepEffect
  <2>2. \A k \in Msgs : Busy(k)' = Busy(k)
    BY Zenon, <2>1 DEF Busy
  <2> QED
    BY Zenon, <1>0, <1>2, <1>b, <2>2, BudgetKept
<1>3. ASSUME Finish(s) PROVE \A k \in Msgs : /\ Busy(k)' => Busy(k)
                                             /\ k # m /\ Busy(k) => Busy(k)'
  <2>1. hs'[s] = Free /\ \A t \in Slots \ {s} : hs'[t] = hs[t]
    BY Zenon, <1>3, FinishEffect
  <2> QED
    BY <1>1, <2>1 DEF Busy, Free, NoMsg, Msgs
<1>4. ASSUME Finish(s), UNCHANGED <<pel, idle>>, m \in Pending => Slack(m)' PROVE BudgetInv'
  <2>1. pel[m] = 0 => Slack(m)'
    BY Zenon, <1>4, <1>e DEF Slack
  <2>2. m \notin Pending => pel[m] = 0
    BY <1>1, Counters DEF Pending
  <2>3. Slack(m)'
    BY ZenonT(90), <1>4, <2>1, <2>2
  <2> QED
    BY ZenonT(90), <1>0, <1>3, <1>4, <1>b, <2>3, BudgetKept
<1>5. events' = events + 1 /\ pel' = pel => Slack(m)'
  <2>1. events' = events + 1 => pel[m] < MaxRetries + events'
    BY <1>1, <1>n
  <2> QED
    BY Zenon, <2>1 DEF Slack
<1>6. /\ "run" \in HandlerPC \ {"free"} /\ "ack" \in HandlerPC \ {"free"} /\ "release" \in HandlerPC \ {"free"}
      /\ "recover" \in HandlerPC \ {"free"} /\ "decide" \in HandlerPC \ {"free"} /\ "dead" \in HandlerPC \ {"free"}
  BY DEF HandlerPC
<1>7. CASE ClaimDedup(s)
  BY Zenon, <1>2, <1>6, <1>7 DEF ClaimDedup
<1>8. CASE RunHandler(s)
  BY Zenon, <1>2, <1>6, <1>8 DEF RunHandler, redisVars
<1>9. CASE ReleaseDedup(s)
  BY Zenon, <1>2, <1>6, <1>9 DEF ReleaseDedup
<1>10. CASE DecideRetry(s)
  <2>0. UNCHANGED <<pel, idle>>
    BY Zenon, <1>10 DEF DecideRetry, redisVars
  <2>1. PICK failed \in BOOLEAN :
          /\ IF failed /\ ~cancelled THEN Event("redis_error") ELSE UNCHANGED events
          /\ cancelled => failed
          /\ IF deliveryCount(m, failed) >= MaxRetries THEN Step(s, "dead") ELSE Finish(s)
    BY Zenon, <1>1, <1>10 DEF DecideRetry
  <2>2. CASE Step(s, "dead")
    BY Zenon, <1>2, <1>6, <2>0, <2>2
  <2>3. CASE Finish(s) /\ ~(deliveryCount(m, failed) >= MaxRetries)
    <3>1. CASE failed /\ ~cancelled
      BY Zenon, <1>4, <1>5, <2>0, <2>1, <2>3, <3>1 DEF Event
    <3>2. CASE cancelled
      <4>1. Slack(m)'
        <5>1. pel[m] < MaxRetries + events
          BY Zenon, <1>1, <3>2 DEF BudgetInv, Slack
        <5>2. pel[m] < MaxRetries + events'
          BY <1>1, <1>n, <1>e, <5>1
        <5> QED
          BY Zenon, <2>0, <5>2 DEF Slack
      <4> QED
        BY Zenon, <1>4, <2>0, <2>3, <4>1
    <3>3. CASE ~failed /\ m \in Pending
      <4>1. deliveryCount(m, failed) = pel[m] /\ pel[m] \in Nat
        BY <1>1, <3>3, Counters DEF deliveryCount, Pending
      <4>2. ~(pel[m] >= MaxRetries)
        BY Zenon, <2>3, <4>1
      <4>3. pel[m] < MaxRetries + events'
        BY <1>e, <4>1, <4>2
      <4>4. Slack(m)'
        BY Zenon, <2>0, <4>3 DEF Slack
      <4> QED
        BY Zenon, <1>4, <2>0, <2>3, <4>4
    <3>4. CASE m \notin Pending
      BY Zenon, <1>4, <2>0, <2>3, <3>4
    <3> QED
      BY Zenon, <3>1, <3>2, <3>3, <3>4
  <2> QED
    BY Zenon, <2>1, <2>2, <2>3
<1>11. CASE toDLQ(s)
  BY Zenon, <1>2, <1>4, <1>5, <1>6, <1>11 DEF toDLQ, Event
<1>12. CASE Ack(s)
  <2>1. CASE Event("redis_error") /\ UNCHANGED <<pel, idle>>
    BY Zenon, <1>4, <1>5, <1>12, <2>1 DEF Ack, Event
  <2>2. CASE pel' = [pel EXCEPT ![m] = 0] /\ idle' = idle \ {m} /\ events' = events
    <3>1. \A k \in Msgs : pel'[k] = IF k = m THEN 0 ELSE pel[k]
      BY Zenon, <1>1, <2>2 DEF IInv, TypeOK
    <3>0. events' = events
      BY Zenon, <2>2
    <3>2. \A k \in Msgs : pel'[k] <= MaxRetries + events' /\ (Slack(k) => Slack(k)') /\ Slack(m)'
      BY SMTT(60), <1>1, <1>n, <3>0, <3>1 DEF Slack
    <3>3. \A k \in Pending' : k \in Pending /\ k # m /\ k \in Msgs
      BY <3>1 DEF Pending
    <3>4. Finish(s)
      BY Zenon, <1>12 DEF Ack
    <3>5. \A k \in Pending' : k \in batch' \/ Busy(k)' \/ Slack(k)'
      BY Zenon, <1>0, <1>3, <3>2, <3>3, <3>4 DEF BudgetInv
    <3>6. \A k \in idle' : k \in idle /\ k \in Msgs
      BY <2>2, Counters
    <3>7. \A k \in idle' : k \notin batch' /\ ~Busy(k)'
      BY Zenon, <1>0, <1>3, <3>4, <3>6 DEF BudgetInv
    <3> QED
      BY Zenon, <1>0, <1>b, <2>2, <3>2, <3>5, <3>7 DEF BudgetInv
  <2> QED
    BY Zenon, <1>1, <1>12, <2>1, <2>2 DEF Ack
<1> QED
  BY ZenonT(90), <1>7, <1>8, <1>9, <1>10, <1>11, <1>12 DEF Handle

\* deliveryCount and the dead-letter path bound the deliveries of an entry, for
\* any number of entries, slots and events: MaxRetries, and one more for each
\* time a command, the process or its context failed, as long as handlers end
\* before claimPending takes their entry.
THEOREM RetriesAreBounded == Spec => []RetriesBounded
<1>1. Init => BudgetInv
  <2> SUFFICES ASSUME Init PROVE BudgetInv
    OBVIOUS
  <2>1. Pending = {}
    BY DEF Init, Pending
  <2>2. \A m \in Msgs : pel[m] <= MaxRetries + events
    BY ConfigAssumption DEF Init
  <2>3. ~cancelled /\ batch = {} /\ idle = {} /\ loop = "down"
    BY DEF Init
  <2> QED
    BY <2>1, <2>2, <2>3 DEF BudgetInv
<1>2. ASSUME IInv, BudgetInv, "slow" \notin Env, [Next]_vars PROVE BudgetInv'
  <2>1. CASE UNCHANGED vars
    <3>1. \A m \in Msgs : Busy(m)' = Busy(m)
      BY Zenon, <2>1 DEF vars, Busy
    <3> QED
      BY Zenon, <1>2, <2>1, <3>1, BudgetKept DEF vars, BudgetInv
  <2>2. CASE LoopStep
    BY Zenon, <1>2, <2>2, BudgetLoop, BudgetRead, BudgetReclaim, BudgetDispatch DEF LoopStep
  <2> QED
    BY Zenon, <1>2, <2>1, <2>2, BudgetProcess, BudgetIdle, BudgetHandle DEF Next
<1>3. ("slow" \notin Env => BudgetInv) => RetriesBounded
  BY Zenon DEF BudgetInv, RetriesBounded
<1>4. IInv /\ ("slow" \notin Env => BudgetInv) /\ [Next]_vars => ("slow" \notin Env => BudgetInv)'
  BY Zenon, <1>2
<1> QED
  BY <1>1, <1>3, <1>4, InductiveInvariant, PTL DEF Spec
==============================================================================
