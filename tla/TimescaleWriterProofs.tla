------------------------ MODULE TimescaleWriterProofs ------------------------
(***************************************************************************)
(* Theorems about TimescaleWriter, for every set of ids, every number of   *)
(* regions, every number of receive threads and every queue, batch and     *)
(* cache size that satisfies the assumptions of the module.                *)
(***************************************************************************)
EXTENDS TimescaleWriter, FiniteSetTheorems, SequenceTheorems, TLAPS

(* Heads and tails of the queues stay in the type of their elements.        *)
LEMMA HeadTailType ==
  ASSUME NEW S, NEW s \in Seq(S), s # <<>>
  PROVE  Head(s) \in S /\ Tail(s) \in Seq(S)
  OBVIOUS

LEMMA SubSeqType ==
  ASSUME NEW S, NEW s \in Seq(S), NEW k \in 0..Len(s)
  PROVE  /\ SubSeq(s, 1, k) \in Seq(S)
         /\ SubSeq(s, k + 1, Len(s)) \in Seq(S)
  OBVIOUS

LEMMA IdsInType ==
  ASSUME NEW s \in Seq(Envelope)
  PROVE  IdsIn(s) \subseteq Ids
<1>1. ASSUME NEW i \in DOMAIN s PROVE s[i].id \in Ids
  <2>1. s[i] \in Envelope
    BY <1>1
  <2>2. QED
    BY <2>1 DEF Envelope
<1>2. QED
  BY <1>1 DEF IdsIn

-----------------------------------------------------------------------------
(* The duplicate cache: the set and the FIFO agree, and the set is as large *)
(* as the FIFO is long, so a full cache has an oldest id to forget.         *)
CacheInv ==
  /\ CacheConsistent
  /\ IsFiniteSet(seen)
  /\ Cardinality(seen) = Len(idOrder)

LEMMA CacheAdmit ==
  ASSUME TypeOK, CacheInv, PendingAdmit
  PROVE  /\ idOrder' \in Seq(Ids)
         /\ seen' \subseteq Ids
         /\ CacheInv'
<1> DEFINE x   == Head(hand).id
           old == IF CacheFull THEN Tail(idOrder) ELSE idOrder
           kept == IF CacheFull THEN seen \ {Head(idOrder)} ELSE seen
<1>1. x \in Ids /\ x \notin seen
  <2>1. Head(hand) \in Envelope
    BY DEF PendingAdmit, SubmitNext, TypeOK
  <2>2. QED
    BY <2>1 DEF PendingAdmit, Envelope
<1>2. idOrder' = Append(old, x) /\ seen' = kept \cup {x}
  BY DEF PendingAdmit
<1>3. CacheFull => idOrder # <<>>
  BY ConstantsAssumption, CacheAssumption DEF CacheFull, CacheInv, TypeOK
<1>4. /\ old \in Seq(Ids)
      /\ Len(old) < SeenCap
      /\ kept \subseteq Ids
      /\ kept = {old[i] : i \in DOMAIN old}
      /\ \A i, j \in DOMAIN old : old[i] = old[j] => i = j
      /\ IsFiniteSet(kept)
      /\ Cardinality(kept) = Len(old)
  <2>1. CASE CacheFull
    <3>1. /\ Tail(idOrder) \in Seq(Ids)
          /\ Len(Tail(idOrder)) = Len(idOrder) - 1
          /\ \A i \in 1..Len(idOrder) - 1 : Tail(idOrder)[i] = idOrder[i + 1]
          /\ Head(idOrder) = idOrder[1]
          /\ Len(idOrder) \in Nat \ {0}
          /\ DOMAIN idOrder = 1..Len(idOrder)
          /\ DOMAIN Tail(idOrder) = 1..Len(idOrder) - 1
      BY <1>3, <2>1 DEF TypeOK
    <3>2. Head(idOrder) \in seen
      BY <3>1 DEF CacheInv, CacheConsistent
    <3>3. kept = {Tail(idOrder)[i] : i \in 1..Len(idOrder) - 1}
      <4>1. ASSUME NEW i \in 1..Len(idOrder) - 1
            PROVE  Tail(idOrder)[i] \in kept
        <5>1. i + 1 \in 1..Len(idOrder) /\ i + 1 # 1
          BY <3>1
        <5>2. idOrder[i + 1] \in seen /\ idOrder[i + 1] # idOrder[1]
          BY <3>1, <5>1 DEF CacheInv, CacheConsistent
        <5>3. QED
          BY <2>1, <3>1, <5>2
      <4>2. ASSUME NEW y \in kept
            PROVE  \E i \in 1..Len(idOrder) - 1 : y = Tail(idOrder)[i]
        <5>1. PICK j \in 1..Len(idOrder) : y = idOrder[j]
          BY <2>1, <3>1 DEF CacheInv, CacheConsistent
        <5>2. j # 1
          BY <2>1, <3>1, <5>1
        <5>3. j - 1 \in 1..Len(idOrder) - 1 /\ (j - 1) + 1 = j
          BY <3>1, <5>2
        <5>4. QED
          BY <3>1, <5>1, <5>3
      <4>3. QED
        BY <4>1, <4>2
    <3>4. ASSUME NEW i \in DOMAIN Tail(idOrder), NEW j \in DOMAIN Tail(idOrder),
                 Tail(idOrder)[i] = Tail(idOrder)[j]
          PROVE  i = j
      <4>1. i + 1 \in DOMAIN idOrder /\ j + 1 \in DOMAIN idOrder
        BY <3>1
      <4>2. idOrder[i + 1] = idOrder[j + 1]
        BY <3>1, <3>4
      <4>3. QED
        BY <3>1, <4>1, <4>2 DEF CacheInv, CacheConsistent
    <3>5. IsFiniteSet(kept) /\ Cardinality(kept) = Len(idOrder) - 1
      BY <2>1, <3>2, FS_RemoveElement DEF CacheInv
    <3>6. Len(idOrder) - 1 < SeenCap
      BY <3>1, CacheAssumption DEF CacheInv, CacheConsistent
    <3>7. old = Tail(idOrder) /\ kept \subseteq Ids
      BY <2>1 DEF TypeOK
    <3> HIDE DEF old, kept
    <3>8. old \in Seq(Ids) /\ Len(old) < SeenCap /\ DOMAIN old = 1..Len(idOrder) - 1
      BY <3>1, <3>6, <3>7
    <3>9. kept = {old[i] : i \in DOMAIN old}
      BY <3>1, <3>3, <3>7, <3>8
    <3>10. \A i, j \in DOMAIN old : old[i] = old[j] => i = j
      BY <3>4, <3>7
    <3>11. IsFiniteSet(kept) /\ Cardinality(kept) = Len(old)
      BY <3>1, <3>5, <3>7
    <3>12. QED
      BY <3>7, <3>8, <3>9, <3>10, <3>11
  <2>2. CASE ~CacheFull
    BY <2>2, CacheAssumption DEF CacheFull, CacheInv, CacheConsistent, TypeOK
  <2>3. QED
    BY <2>1, <2>2
<1> DEFINE new == Append(old, x)
<1>5. /\ new \in Seq(Ids)
      /\ Len(new) = Len(old) + 1
      /\ \A i \in 1..Len(old) : new[i] = old[i]
      /\ new[Len(old) + 1] = x
      /\ DOMAIN old = 1..Len(old)
      /\ DOMAIN new = 1..Len(old) + 1
      /\ Len(old) \in Nat
  <2> HIDE DEF x, old, kept
  <2>1. QED
    BY <1>1, <1>4
<1>6. x \notin kept
  BY <1>1
<1> HIDE DEF x, old, kept, new
<1>7. kept \cup {x} = {new[i] : i \in 1..Len(old) + 1}
  <2>1. \A i \in 1..Len(old) + 1 : i \in 1..Len(old) \/ i = Len(old) + 1
    BY <1>5
  <2>2. \A i \in 1..Len(old) : i \in 1..Len(old) + 1
    BY <1>5
  <2>3. Len(old) + 1 \in 1..Len(old) + 1
    BY <1>5
  <2>4. kept = {new[i] : i \in 1..Len(old)}
    BY <1>4, <1>5
  <2>5. QED
    BY <1>5, <2>1, <2>2, <2>3, <2>4
<1>8. ASSUME NEW i \in 1..Len(old) + 1, NEW j \in 1..Len(old) + 1, new[i] = new[j]
      PROVE  i = j
  <2>1. \A k \in 1..Len(old) : new[k] \in kept
    BY <1>4, <1>5
  <2>2. \A k, l \in 1..Len(old) : new[k] = new[l] => k = l
    BY <1>4, <1>5
  <2>3. \A k \in 1..Len(old) + 1 : k \in 1..Len(old) \/ k = Len(old) + 1
    BY <1>5
  <2>4. QED
    BY <1>5, <1>6, <1>8, <2>1, <2>2, <2>3
<1>9. IsFiniteSet(kept \cup {x}) /\ Cardinality(kept \cup {x}) = Len(old) + 1
  BY <1>4, <1>6, FS_AddElement
<1>10. Len(old) + 1 <= SeenCap
  <2>1. Len(old) < SeenCap /\ Len(old) \in Nat /\ SeenCap \in Nat
    BY <1>4, <1>5, CacheAssumption
  <2>2. QED
    BY <2>1
<1>11. CacheConsistent'
  <2>1. idOrder' = new
    BY <1>2 DEF new
  <2>2. QED
    BY <1>2, <1>5, <1>7, <1>8, <1>10, <2>1 DEF CacheConsistent
<1>12. QED
  BY <1>1, <1>2, <1>4, <1>5, <1>9, <1>11 DEF CacheInv, new

-----------------------------------------------------------------------------
(* The variables always have the types TypeOK gives them.                   *)
LEMMA TypeStep ==
  ASSUME TypeOK, CacheInv, [Next]_vars
  PROVE  TypeOK'
<1> USE DEF TypeOK, receiving, partition, processing, batching, flushing
<1>1. CASE Signal
  BY <1>1 DEF Signal
<1>2. ASSUME NEW t \in Receivers, ReceiverLoop(t) PROVE TypeOK'
  BY <1>2 DEF ReceiverLoop
<1>3. ASSUME NEW t \in Receivers, ReceiveTimeout(t) PROVE TypeOK'
  BY <1>3 DEF ReceiveTimeout
<1>4. ASSUME NEW t \in Receivers, NEW id \in Ids, SubmitAccept(t, id)
      PROVE TypeOK'
  <2>1. arrivals' \in 0..MaxArrivals
    BY <1>4, ConstantsAssumption DEF SubmitAccept
  <2>2. [n |-> arrivals + 1, id |-> id] \in Envelope
    BY <1>4, ConstantsAssumption DEF SubmitAccept, Envelope
  <2>3. queues' \in [Regions -> Seq(Envelope)]
    <3>1. RegionOf[id] \in Regions
      BY ConstantsAssumption
    <3>2. Append(queues[RegionOf[id]], [n |-> arrivals + 1, id |-> id])
            \in Seq(Envelope)
      BY <2>2, <3>1
    <3>3. QED
      BY <1>4, <3>1, <3>2 DEF SubmitAccept
  <2>4. QED
    BY <1>4, <2>1, <2>3 DEF SubmitAccept
<1>5. ASSUME NEW t \in Receivers, SubmitReject(t) PROVE TypeOK'
  BY <1>5 DEF SubmitReject
<1>6. CASE MainLoop
  BY <1>6 DEF MainLoop
<1>7. CASE DequeueBegin
  BY <1>7 DEF DequeueBegin
<1>8. CASE DequeueOne
  BY <1>8, ConstantsAssumption DEF DequeueOne, NextRegion, Regions
<1>9. CASE DequeueEnd
  BY <1>9 DEF DequeueEnd
<1>10. CASE DrainOne
  BY <1>10 DEF DrainOne
<1>11. CASE DrainEnd
  BY <1>11 DEF DrainEnd
<1>12. CASE PendingFull
  BY <1>12 DEF PendingFull, SubmitNext
<1>13. CASE PendingDuplicate
  BY <1>13 DEF PendingDuplicate, SubmitNext
<1>14. CASE PendingAdmit
  <2>1. Head(hand) \in Envelope /\ Tail(hand) \in Seq(Envelope)
    BY <1>14 DEF PendingAdmit, SubmitNext
  <2>2. Head(hand).id \in Ids
    BY <2>1 DEF Envelope
  <2>3. idOrder' \in Seq(Ids)
    BY <1>14, CacheAdmit
  <2>4. QED
    BY <1>14, <2>1, <2>2, <2>3 DEF PendingAdmit, SubmitNext
<1>15. CASE SubmitEnd
  BY <1>15 DEF SubmitEnd
<1>16. CASE JoinBatchThread
  BY <1>16 DEF JoinBatchThread
<1>17. CASE JoinSubscriber
  BY <1>17 DEF JoinSubscriber
<1>18. CASE BatchLoop
  BY <1>18 DEF BatchLoop
<1>19. CASE TakeBatch
  BY <1>19, ConstantsAssumption DEF TakeBatch
<1>20. CASE TakeFinalBatch
  BY <1>20 DEF TakeFinalBatch
<1>21. CASE FlushBatch
  BY <1>21, IdsInType DEF FlushBatch
<1>22. CASE UNCHANGED vars
  BY <1>22 DEF vars
<1>23. QED
  BY <1>1, <1>2, <1>3, <1>4, <1>5, <1>6, <1>7, <1>8, <1>9, <1>10, <1>11,
     <1>12, <1>13, <1>14, <1>15, <1>16, <1>17, <1>18, <1>19, <1>20, <1>21,
     <1>22 DEF Next, Receiver, Main, Batcher, Terminated

LEMMA CacheStep ==
  ASSUME TypeOK, CacheInv, [Next]_vars
  PROVE  CacheInv'
<1>1. CASE PendingAdmit
  BY <1>1, CacheAdmit
<1>2. CASE UNCHANGED <<seen, idOrder>>
  BY <1>2 DEF CacheInv, CacheConsistent
<1>3. PendingAdmit \/ UNCHANGED <<seen, idOrder>>
  BY DEF Next, Receiver, Main, Batcher, Terminated, vars, batching, Signal,
         ReceiverLoop, ReceiveTimeout, SubmitAccept, SubmitReject, MainLoop,
         DequeueBegin, DequeueOne, DequeueEnd, DrainOne, DrainEnd,
         PendingFull, PendingDuplicate, SubmitEnd, JoinBatchThread,
         JoinSubscriber, BatchLoop, TakeBatch, TakeFinalBatch, FlushBatch
<1>4. QED
  BY <1>1, <1>2, <1>3

BaseInv == TypeOK /\ CacheInv

LEMMA BaseInvariant == Spec => []BaseInv
<1>1. Init => BaseInv
  <2>1. Init => TypeOK
    BY ConstantsAssumption DEF Init, TypeOK
  <2>2. Init => CacheInv
    BY FS_EmptySet, CacheAssumption DEF Init, CacheInv, CacheConsistent
  <2>3. QED
    BY <2>1, <2>2 DEF BaseInv
<1>2. BaseInv /\ [Next]_vars => BaseInv'
  BY TypeStep, CacheStep DEF BaseInv
<1>3. QED
  BY <1>1, <1>2, PTL DEF Spec

(* The variables always have the types TypeOK gives them.                   *)
THEOREM TypeCorrect == Spec => []TypeOK
<1>1. BaseInv => TypeOK
  BY DEF BaseInv
<1>2. QED
  BY <1>1, BaseInvariant, PTL

(* The two halves of the duplicate cache (seenIds_ and idOrder_) always     *)
(* describe the same ids, each once, and never exceed the cache size.       *)
THEOREM CacheIsConsistent == Spec => []CacheConsistent
<1>1. BaseInv => CacheConsistent
  BY DEF BaseInv, CacheInv
<1>2. QED
  BY <1>1, BaseInvariant, PTL

-----------------------------------------------------------------------------
(* Queueing an envelope adds one slot, taking one removes one.              *)
LEMMA SlotsAppend ==
  ASSUME NEW q \in [Regions -> Seq(Envelope)], NEW r \in Regions, NEW e \in Envelope
  PROVE  /\ Slots([q EXCEPT ![r] = Append(@, e)]) = Slots(q) \cup {<<r, Len(q[r]) + 1>>}
         /\ <<r, Len(q[r]) + 1>> \notin Slots(q)
<1> DEFINE p == [q EXCEPT ![r] = Append(@, e)]
<1>1. Len(q[r]) \in Nat /\ Len(p[r]) = Len(q[r]) + 1
  OBVIOUS
<1>2. \A s \in Regions : s # r => p[s] = q[s]
  OBVIOUS
<1> HIDE DEF p
<1>3. 1..Len(p[r]) = (1..Len(q[r])) \cup {Len(q[r]) + 1}
  BY <1>1
<1>4. Len(q[r]) + 1 \notin 1..Len(q[r])
  BY <1>1
<1>5. Slots(p) = Slots(q) \cup {<<r, Len(q[r]) + 1>>}
  BY <1>2, <1>3 DEF Slots
<1>6. <<r, Len(q[r]) + 1>> \notin Slots(q)
  BY <1>4 DEF Slots
<1>7. QED
  BY <1>5, <1>6 DEF p

LEMMA SlotsTail ==
  ASSUME NEW q \in [Regions -> Seq(Envelope)], NEW r \in Regions, q[r] # <<>>
  PROVE  /\ Slots([q EXCEPT ![r] = Tail(@)]) = Slots(q) \ {<<r, Len(q[r])>>}
         /\ <<r, Len(q[r])>> \in Slots(q)
<1> DEFINE p == [q EXCEPT ![r] = Tail(@)]
<1>1. Len(q[r]) \in Nat \ {0} /\ Len(p[r]) = Len(q[r]) - 1
  OBVIOUS
<1>2. \A s \in Regions : s # r => p[s] = q[s]
  OBVIOUS
<1> HIDE DEF p
<1>3. 1..Len(p[r]) = (1..Len(q[r])) \ {Len(q[r])}
  BY <1>1
<1>4. Len(q[r]) \in 1..Len(q[r])
  BY <1>1
<1>5. Slots(p) = Slots(q) \ {<<r, Len(q[r])>>}
  BY <1>2, <1>3 DEF Slots
<1>6. <<r, Len(q[r])>> \in Slots(q)
  BY <1>4 DEF Slots
<1>7. QED
  BY <1>5, <1>6 DEF p

LEMMA SlotsCount ==
  ASSUME TypeOK, IsFiniteSet(Slots(queues)), NEW r \in Regions
  PROVE  /\ Cardinality(Slots(queues)) \in Nat
         /\ \A e \in Envelope :
              LET s == Slots([queues EXCEPT ![r] = Append(@, e)])
              IN IsFiniteSet(s) /\ Cardinality(s) = Cardinality(Slots(queues)) + 1
         /\ queues[r] # <<>> =>
              LET s == Slots([queues EXCEPT ![r] = Tail(@)])
              IN IsFiniteSet(s) /\ Cardinality(s) = Cardinality(Slots(queues)) - 1
<1>1. Cardinality(Slots(queues)) \in Nat
  BY FS_CardinalityType
<1>2. ASSUME NEW e \in Envelope
      PROVE  LET s == Slots([queues EXCEPT ![r] = Append(@, e)])
             IN IsFiniteSet(s) /\ Cardinality(s) = Cardinality(Slots(queues)) + 1
  <2>1. queues \in [Regions -> Seq(Envelope)]
    BY DEF TypeOK
  <2>2. /\ Slots([queues EXCEPT ![r] = Append(@, e)])
             = Slots(queues) \cup {<<r, Len(queues[r]) + 1>>}
        /\ <<r, Len(queues[r]) + 1>> \notin Slots(queues)
    BY <2>1, SlotsAppend
  <2>3. QED
    BY <2>2, FS_AddElement
<1>3. ASSUME queues[r] # <<>>
      PROVE  LET s == Slots([queues EXCEPT ![r] = Tail(@)])
             IN IsFiniteSet(s) /\ Cardinality(s) = Cardinality(Slots(queues)) - 1
  <2>1. queues \in [Regions -> Seq(Envelope)]
    BY DEF TypeOK
  <2>2. /\ Slots([queues EXCEPT ![r] = Tail(@)])
             = Slots(queues) \ {<<r, Len(queues[r])>>}
        /\ <<r, Len(queues[r])>> \in Slots(queues)
    BY <1>3, <2>1, SlotsTail
  <2>3. QED
    BY <2>2, FS_RemoveElement
<1>4. QED
  BY <1>1, <1>2, <1>3

-----------------------------------------------------------------------------
(* The inductive form of MemoryBounded and MetricsAccount: while main holds *)
(* the mutex the envelopes only move from the queues to its batch, and each *)
(* thread's batch is empty outside the part of its loop that handles it.    *)
BoundsInv ==
  /\ IsFiniteSet(Slots(queues))
  /\ Cardinality(Slots(queues)) <= MaxQueue
  /\ QueueLocked => Cardinality(Slots(queues)) + Len(hand) <= MaxQueue
  /\ Len(hand) <= MaxQueue
  /\ mpc \in {"dequeue", "submit"} => Len(hand) <= BatchSize
  /\ mpc \in {"loop", "wait", "join", "joinSubscriber", "exit"} => hand = <<>>
  /\ Len(pending) <= MaxQueue
  /\ Len(flight) <= MaxQueue
  /\ bpc \notin {"flush", "finalFlush"} => flight = <<>>
  /\ MetricsAccount

(* An envelope that leaves main's batch is processed or a write error.      *)
LEMMA OneLeaves ==
  ASSUME NEW a \in Nat, NEW c \in Nat, NEW h \in Nat, NEW p \in Nat, NEW w \in Nat,
         a = c + h + p + w
  PROVE  a = c + (h - 1) + p + (w + 1) /\ a = c + (h - 1) + (p + 1) + w
  OBVIOUS

LEMMA BoundsStep ==
  ASSUME TypeOK, BoundsInv, [Next]_vars
  PROVE  BoundsInv'
<1> USE ConstantsAssumption, BatchAssumption
    DEF BoundsInv, MetricsAccount, receiving, partition, processing, batching,
        flushing, QueueLocked
<1>0. Cardinality(Slots(queues)) \in Nat
  BY FS_CardinalityType
<1>1. CASE Signal
  BY <1>1 DEF Signal
<1>2. ASSUME NEW t \in Receivers, ReceiverLoop(t) PROVE BoundsInv'
  BY <1>2 DEF ReceiverLoop
<1>3. ASSUME NEW t \in Receivers, ReceiveTimeout(t) PROVE BoundsInv'
  BY <1>3 DEF ReceiveTimeout
<1>4. ASSUME NEW t \in Receivers, NEW id \in Ids, SubmitAccept(t, id)
      PROVE BoundsInv'
  <2>1. [n |-> arrivals + 1, id |-> id] \in Envelope
    <3>1. arrivals \in 0..MaxArrivals /\ arrivals < MaxArrivals /\ MaxArrivals \in Nat
      BY <1>4 DEF SubmitAccept, TypeOK
    <3>2. arrivals + 1 \in 1..MaxArrivals
      BY ONLY <3>1
    <3>3. QED
      BY <3>2 DEF Envelope
  <2>2. RegionOf[id] \in Regions
    OBVIOUS
  <2>3. /\ IsFiniteSet(Slots(queues'))
        /\ Cardinality(Slots(queues')) = Cardinality(Slots(queues)) + 1
    BY <1>4, <2>1, <2>2, SlotsCount DEF SubmitAccept
  <2>4. Cardinality(Slots(queues)) < MaxQueue
    BY <1>4 DEF SubmitAccept, TotalQueued
  <2>5. QED
    <3>1. /\ arrivals' = arrivals + 1 /\ arrivals \in Nat
          /\ mpc \notin {"dequeue", "drain"}
          /\ UNCHANGED <<mpc, hand, processed, writeErrors, pending, flight, bpc>>
      BY <1>4 DEF SubmitAccept, TypeOK
    <3>2. Len(hand) \in Nat /\ processed \in Nat /\ writeErrors \in Nat
      BY DEF TypeOK
    <3>3. MetricsAccount'
      BY <1>0, <2>3, <3>1, <3>2
    <3>4. QED
      BY <1>0, <2>3, <2>4, <3>1, <3>3
<1>5. ASSUME NEW t \in Receivers, SubmitReject(t) PROVE BoundsInv'
  BY <1>5 DEF SubmitReject
<1>6. CASE MainLoop
  BY <1>0, <1>6 DEF MainLoop, TypeOK
<1>7. CASE DequeueBegin
  BY <1>0, <1>7 DEF DequeueBegin, TypeOK
<1>8. ASSUME NEW r \in Regions, queues[r] # <<>>,
             hand' = Append(hand, Head(queues[r])),
             queues' = [queues EXCEPT ![r] = Tail(@)]
      PROVE  /\ IsFiniteSet(Slots(queues'))
             /\ Cardinality(Slots(queues')) = Cardinality(Slots(queues)) - 1
             /\ Len(hand') = Len(hand) + 1
             /\ Len(hand) \in Nat
  <2>1. Len(Append(hand, Head(queues[r]))) = Len(hand) + 1 /\ Len(hand) \in Nat
    <3>1. hand \in Seq(Envelope) /\ Head(queues[r]) \in Envelope
      BY <1>8 DEF TypeOK
    <3>2. QED
      BY <3>1
  <2>2. QED
    BY <1>8, <2>1, SlotsCount
<1>9. CASE DequeueOne
  <2>1. PICK r \in Regions : /\ queues[r] # <<>>
                             /\ hand' = Append(hand, Head(queues[r]))
                             /\ queues' = [queues EXCEPT ![r] = Tail(@)]
    BY <1>9 DEF DequeueOne, NextRegion
  <2>2. QED
    <3>1. /\ IsFiniteSet(Slots(queues'))
          /\ Cardinality(Slots(queues')) = Cardinality(Slots(queues)) - 1
          /\ Cardinality(Slots(queues')) \in Nat
          /\ Len(hand') = Len(hand) + 1
          /\ Len(hand) \in Nat
      BY <1>8, <2>1, FS_CardinalityType
    <3>2. /\ mpc = "dequeue" /\ Len(hand) < BatchSize
          /\ UNCHANGED <<arrivals, mpc, processed, writeErrors, pending, flight, bpc>>
      BY <1>9 DEF DequeueOne
    <3>3. arrivals \in Nat /\ processed \in Nat /\ writeErrors \in Nat
      BY DEF TypeOK
    <3>4. MetricsAccount'
      BY <1>0, <3>1, <3>2, <3>3
    <3>5. QED
      BY <1>0, <3>1, <3>2, <3>4
<1>10. CASE DequeueEnd
  BY <1>10 DEF DequeueEnd
<1>11. CASE DrainOne
  <2>1. PICK r \in Regions : /\ queues[r] # <<>>
                             /\ hand' = Append(hand, Head(queues[r]))
                             /\ queues' = [queues EXCEPT ![r] = Tail(@)]
    BY <1>11 DEF DrainOne
  <2>2. QED
    <3>1. /\ IsFiniteSet(Slots(queues'))
          /\ Cardinality(Slots(queues')) = Cardinality(Slots(queues)) - 1
          /\ Cardinality(Slots(queues')) \in Nat
          /\ Len(hand') = Len(hand) + 1
          /\ Len(hand) \in Nat
      BY <1>8, <2>1, FS_CardinalityType
    <3>2. /\ mpc = "drain"
          /\ UNCHANGED <<arrivals, mpc, processed, writeErrors, pending, flight, bpc>>
      BY <1>11 DEF DrainOne
    <3>3. arrivals \in Nat /\ processed \in Nat /\ writeErrors \in Nat
      BY DEF TypeOK
    <3>4. MetricsAccount'
      BY <1>0, <3>1, <3>2, <3>3
    <3>5. QED
      BY <1>0, <3>1, <3>2, <3>4
<1>12. CASE DrainEnd
  BY <1>12 DEF DrainEnd
<1>13. ASSUME SubmitNext
       PROVE  Len(hand') = Len(hand) - 1 /\ Len(hand) \in Nat \ {0}
  BY <1>13 DEF SubmitNext, TypeOK
<1>14. CASE PendingFull
  <2>1. /\ SubmitNext /\ writeErrors' = writeErrors + 1
        /\ UNCHANGED <<queues, arrivals, mpc, processed>>
        /\ UNCHANGED <<flight, bpc>>
        /\ mpc \in {"submit", "finalSubmit"}
    BY <1>14 DEF PendingFull, SubmitNext
  <2>2. Len(pending') <= MaxQueue
    BY <1>14 DEF PendingFull, SubmitNext, TypeOK
  <2>3. arrivals \in Nat /\ processed \in Nat /\ writeErrors \in Nat
    BY DEF TypeOK
  <2>4. MetricsAccount'
    <3>1. Len(hand') = Len(hand) - 1 /\ Len(hand) \in Nat \ {0}
      BY <1>13, <2>1
    <3>2. Cardinality(Slots(queues')) = Cardinality(Slots(queues))
      BY <2>1
    <3>3. arrivals = Cardinality(Slots(queues)) + Len(hand) + processed + writeErrors
      OBVIOUS
    <3>4. arrivals' = arrivals /\ processed' = processed /\ writeErrors' = writeErrors + 1
      BY <2>1
    <3>5. arrivals = Cardinality(Slots(queues)) + (Len(hand) - 1) + processed + (writeErrors + 1)
      BY ONLY <1>0, <2>3, <3>1, <3>3, OneLeaves
    <3>6. arrivals' = Cardinality(Slots(queues')) + Len(hand') + processed' + writeErrors'
      BY ONLY <3>1, <3>2, <3>4, <3>5, Zenon
    <3>7. QED
      BY <3>6
  <2>5. QED
    BY <1>0, <1>13, <2>1, <2>2, <2>4
<1>15. CASE PendingDuplicate
  <2>1. /\ SubmitNext /\ processed' = processed + 1
        /\ UNCHANGED <<queues, arrivals, mpc, writeErrors>>
        /\ UNCHANGED <<flight, bpc>>
        /\ mpc \in {"submit", "finalSubmit"}
    BY <1>15 DEF PendingDuplicate, SubmitNext
  <2>2. Len(pending') <= MaxQueue
    BY <1>15 DEF PendingDuplicate, SubmitNext, TypeOK
  <2>3. arrivals \in Nat /\ processed \in Nat /\ writeErrors \in Nat
    BY DEF TypeOK
  <2>4. MetricsAccount'
    <3>1. Len(hand') = Len(hand) - 1 /\ Len(hand) \in Nat \ {0}
      BY <1>13, <2>1
    <3>2. Cardinality(Slots(queues')) = Cardinality(Slots(queues))
      BY <2>1
    <3>3. arrivals = Cardinality(Slots(queues)) + Len(hand) + processed + writeErrors
      OBVIOUS
    <3>4. arrivals' = arrivals /\ processed' = processed + 1 /\ writeErrors' = writeErrors
      BY <2>1
    <3>5. arrivals = Cardinality(Slots(queues)) + (Len(hand) - 1) + (processed + 1) + writeErrors
      BY ONLY <1>0, <2>3, <3>1, <3>3, OneLeaves
    <3>6. arrivals' = Cardinality(Slots(queues')) + Len(hand') + processed' + writeErrors'
      BY ONLY <3>1, <3>2, <3>4, <3>5, Zenon
    <3>7. QED
      BY <3>6
  <2>5. QED
    BY <1>0, <1>13, <2>1, <2>2, <2>4
<1>16. CASE PendingAdmit
  <2>1. Len(pending') = Len(pending) + 1 /\ Len(pending) \in Nat
    BY <1>16 DEF PendingAdmit, SubmitNext, TypeOK
  <2>2. QED
    <3>1. /\ SubmitNext /\ processed' = processed + 1
          /\ UNCHANGED <<queues, arrivals, mpc, writeErrors>>
          /\ UNCHANGED <<flight, bpc>>
          /\ mpc \in {"submit", "finalSubmit"}
      BY <1>16 DEF PendingAdmit, SubmitNext
    <3>2. Len(pending') <= MaxQueue
      BY <1>16, <2>1 DEF PendingAdmit, SubmitNext, TypeOK
    <3>3. arrivals \in Nat /\ processed \in Nat /\ writeErrors \in Nat
      BY DEF TypeOK
    <3>4. MetricsAccount'
      <4>1. Len(hand') = Len(hand) - 1 /\ Len(hand) \in Nat \ {0}
        BY <1>13, <3>1
      <4>2. Cardinality(Slots(queues')) = Cardinality(Slots(queues))
        BY <3>1
      <4>3. arrivals = Cardinality(Slots(queues)) + Len(hand) + processed + writeErrors
        OBVIOUS
      <4>4. arrivals' = arrivals /\ processed' = processed + 1 /\ writeErrors' = writeErrors
        BY <3>1
      <4>5. arrivals = Cardinality(Slots(queues)) + (Len(hand) - 1) + (processed + 1) + writeErrors
        BY ONLY <1>0, <3>3, <4>1, <4>3, OneLeaves
      <4>6. arrivals' = Cardinality(Slots(queues')) + Len(hand') + processed' + writeErrors'
        BY ONLY <4>1, <4>2, <4>4, <4>5, Zenon
      <4>7. QED
        BY <4>6
    <3>5. QED
      BY <1>0, <1>13, <3>1, <3>2, <3>4
<1>17. CASE SubmitEnd
  BY <1>17 DEF SubmitEnd
<1>18. CASE JoinBatchThread
  BY <1>18 DEF JoinBatchThread
<1>19. CASE JoinSubscriber
  BY <1>19 DEF JoinSubscriber
<1>20. CASE BatchLoop
  BY <1>20 DEF BatchLoop, TypeOK
<1>21. CASE TakeBatch
  <2>1. \A k \in 0..Len(pending) :
          /\ Len(SubSeq(pending, 1, k)) = k
          /\ Len(SubSeq(pending, k + 1, Len(pending))) = Len(pending) - k
    BY DEF TypeOK
  <2>2. \A s \in Seq(Envelope) : Len(s) = 0 => s = <<>>
    OBVIOUS
  <2>3. QED
    BY <1>21, <2>1, <2>2, SubSeqType DEF TakeBatch, TypeOK
<1>22. CASE TakeFinalBatch
  BY <1>22 DEF TakeFinalBatch, TypeOK
<1>23. CASE FlushBatch
  BY <1>23 DEF FlushBatch, TypeOK
<1>24. CASE UNCHANGED vars
  BY <1>24 DEF vars
<1>25. QED
  BY <1>1, <1>2, <1>3, <1>4, <1>5, <1>6, <1>7, <1>9, <1>10, <1>11, <1>12,
     <1>14, <1>15, <1>16, <1>17, <1>18, <1>19, <1>20, <1>21, <1>22, <1>23,
     <1>24 DEF Next, Receiver, Main, Batcher, Terminated

LEMMA BoundsInvariant == Spec => []BoundsInv
<1>1. Init => BoundsInv
  <2>1. Slots([r \in Regions |-> <<>>]) = {}
    BY DEF Slots
  <2>2. QED
    <3>1. ASSUME Init
          PROVE  /\ IsFiniteSet(Slots(queues)) /\ Cardinality(Slots(queues)) = 0
                 /\ Len(hand) = 0 /\ Len(pending) = 0 /\ Len(flight) = 0
      BY <2>1, <3>1, FS_EmptySet DEF Init
    <3>2. QED
      BY <3>1, ConstantsAssumption
      DEF Init, BoundsInv, MetricsAccount, QueueLocked
<1>2. BaseInv /\ BoundsInv /\ [Next]_vars => BoundsInv'
  BY BoundsStep DEF BaseInv
<1>3. QED
  BY <1>1, <1>2, BaseInvariant, PTL DEF Spec

(* Every stage of the writer stays within its configured size, at once and  *)
(* at every moment, shutdown included.                                      *)
THEOREM MemoryIsBounded == Spec => []MemoryBounded
<1>1. BoundsInv => MemoryBounded
  BY DEF BoundsInv, MemoryBounded
<1>2. QED
  BY <1>1, BoundsInvariant, PTL

(* Every accepted envelope is queued, in main's batch or counted.           *)
THEOREM MetricsAccountForAll == Spec => []MetricsAccount
<1>1. BoundsInv => MetricsAccount
  BY DEF BoundsInv
<1>2. QED
  BY <1>1, BoundsInvariant, PTL

-----------------------------------------------------------------------------
(* Order along the path.  A block is a contiguous part of a sequence: the   *)
(* tail of a queue and both halves of a split are blocks of it.             *)
Block(t, s) ==
  \E k \in Nat : \A i \in DOMAIN t : i + k \in DOMAIN s /\ t[i] = s[i + k]

LEMMA TailIsBlock ==
  ASSUME NEW S, NEW s \in Seq(S), s # <<>>
  PROVE  Block(Tail(s), s)
<1>1. \A i \in DOMAIN Tail(s) : i + 1 \in DOMAIN s /\ Tail(s)[i] = s[i + 1]
  OBVIOUS
<1>2. QED
  BY <1>1 DEF Block

LEMMA SubSeqIsBlock ==
  ASSUME NEW S, NEW s \in Seq(S), NEW k \in 0..Len(s)
  PROVE  /\ Block(SubSeq(s, 1, k), s)
         /\ Block(SubSeq(s, k + 1, Len(s)), s)
<1>1. \A i \in DOMAIN SubSeq(s, 1, k) :
        i + 0 \in DOMAIN s /\ SubSeq(s, 1, k)[i] = s[i + 0]
  OBVIOUS
<1>2. \A i \in DOMAIN SubSeq(s, k + 1, Len(s)) :
        i + k \in DOMAIN s /\ SubSeq(s, k + 1, Len(s))[i] = s[i + k]
  OBVIOUS
<1>3. QED
  BY <1>1, <1>2 DEF Block

LEMMA BlockKeepsOrder ==
  ASSUME NEW s \in Seq(Envelope), NEW t \in Seq(Envelope), Block(t, s)
  PROVE  /\ InOrder(s) => InOrder(t)
         /\ \A u \in Seq(Envelope) : Precedes(s, u) => Precedes(t, u)
         /\ \A u \in Seq(Envelope) : Precedes(u, s) => Precedes(u, t)
<1>1. PICK k \in Nat : \A i \in DOMAIN t : i + k \in DOMAIN s /\ t[i] = s[i + k]
  BY DEF Block
<1>2. ASSUME InOrder(s) PROVE InOrder(t)
  <2>1. \A i, j \in DOMAIN t : i < j => i + k < j + k
    OBVIOUS
  <2>2. QED
    BY <1>1, <1>2, <2>1 DEF InOrder
<1>3. QED
  BY <1>1, <1>2 DEF Precedes

LEMMA AppendKeepsOrder ==
  ASSUME NEW s \in Seq(Envelope), NEW e \in Envelope
  PROVE  /\ /\ InOrder(s)
            /\ \A i \in DOMAIN s : Region(s[i]) = Region(e) => s[i].n < e.n
            => InOrder(Append(s, e))
         /\ \A u \in Seq(Envelope) :
              /\ Precedes(s, u)
              /\ \A j \in DOMAIN u : Region(e) = Region(u[j]) => e.n < u[j].n
              => Precedes(Append(s, e), u)
         /\ \A u \in Seq(Envelope) :
              /\ Precedes(u, s)
              /\ \A j \in DOMAIN u : Region(u[j]) = Region(e) => u[j].n < e.n
              => Precedes(u, Append(s, e))
<1> DEFINE t == Append(s, e)
<1>1. /\ Len(s) \in Nat
      /\ DOMAIN s = 1..Len(s)
      /\ DOMAIN t = 1..Len(s) + 1
      /\ \A i \in 1..Len(s) : t[i] = s[i]
      /\ t[Len(s) + 1] = e
  OBVIOUS
<1> HIDE DEF t
<1>2. \A i \in DOMAIN t : i \in DOMAIN s \/ i = Len(s) + 1
  BY <1>1
<1>3. ASSUME InOrder(s),
             \A i \in DOMAIN s : Region(s[i]) = Region(e) => s[i].n < e.n,
             NEW i \in DOMAIN t, NEW j \in DOMAIN t, i < j,
             Region(t[i]) = Region(t[j])
      PROVE  t[i].n < t[j].n
  <2>1. i \in DOMAIN s
    BY <1>1, <1>3
  <2>2. CASE j \in DOMAIN s
    BY <1>1, <1>3, <2>1, <2>2 DEF InOrder
  <2>3. CASE j = Len(s) + 1
    BY <1>1, <1>3, <2>1, <2>3
  <2>4. QED
    BY <1>2, <2>2, <2>3
<1>4. ASSUME NEW u \in Seq(Envelope), Precedes(s, u),
             \A j \in DOMAIN u : Region(e) = Region(u[j]) => e.n < u[j].n
      PROVE  Precedes(t, u)
  BY <1>1, <1>2, <1>4 DEF Precedes
<1>5. ASSUME NEW u \in Seq(Envelope), Precedes(u, s),
             \A j \in DOMAIN u : Region(u[j]) = Region(e) => u[j].n < e.n
      PROVE  Precedes(u, t)
  BY <1>1, <1>2, <1>5 DEF Precedes
<1>6. QED
  BY <1>3, <1>4, <1>5 DEF InOrder, t

(* The inductive form of RegionOrder: no envelope carries a number that     *)
(* submit has not given out, and each region queue holds its region only.   *)
Numbered(s) == \A i \in DOMAIN s : s[i].n <= arrivals

OrderInv ==
  /\ RegionOrder
  /\ Numbered(flight) /\ Numbered(pending) /\ Numbered(hand)
  /\ \A r \in Regions :
       /\ Numbered(queues[r])
       /\ \A i \in DOMAIN queues[r] : Region(queues[r][i]) = r

(* Taking the head of a region queue into main's batch keeps the order.     *)
LEMMA MoveToHand ==
  ASSUME TypeOK, OrderInv, NEW r \in Regions, queues[r] # <<>>,
         hand' = Append(hand, Head(queues[r])),
         queues' = [queues EXCEPT ![r] = Tail(@)],
         UNCHANGED <<arrivals, pending, flight>>
  PROVE  OrderInv'
<1> DEFINE q == queues[r]  e == Head(queues[r])
<1>1. /\ q \in Seq(Envelope) /\ q # <<>> /\ e \in Envelope
      /\ Tail(q) \in Seq(Envelope) /\ e = q[1] /\ 1 \in DOMAIN q
      /\ \A i \in DOMAIN Tail(q) : i + 1 \in DOMAIN q /\ 1 < i + 1 /\ Tail(q)[i] = q[i + 1]
  BY DEF TypeOK
<1>2. /\ hand \in Seq(Envelope) /\ pending \in Seq(Envelope) /\ flight \in Seq(Envelope)
      /\ \A s \in Regions : queues[s] \in Seq(Envelope)
  BY DEF TypeOK
<1>3. queues'[r] = Tail(q) /\ \A s \in Regions : s # r => queues'[s] = queues[s]
  BY DEF TypeOK
<1>4. Region(e) = r /\ e.n <= arrivals
  BY <1>1 DEF OrderInv, Numbered
<1>5. /\ InOrder(q) /\ Precedes(flight, q) /\ Precedes(pending, q) /\ Precedes(hand, q)
  BY DEF OrderInv, RegionOrder
<1>6. /\ \A i \in DOMAIN hand : Region(hand[i]) = Region(e) => hand[i].n < e.n
      /\ \A i \in DOMAIN pending : Region(pending[i]) = Region(e) => pending[i].n < e.n
      /\ \A i \in DOMAIN flight : Region(flight[i]) = Region(e) => flight[i].n < e.n
  BY <1>1, <1>5 DEF Precedes
<1>7. InOrder(hand') /\ Precedes(flight, hand') /\ Precedes(pending, hand')
  BY <1>1, <1>2, <1>6, AppendKeepsOrder DEF OrderInv, RegionOrder
<1>8. Block(Tail(q), q)
  BY <1>1, TailIsBlock
<1>9. /\ InOrder(Tail(q)) /\ Precedes(flight, Tail(q)) /\ Precedes(pending, Tail(q))
      /\ Precedes(hand, Tail(q))
  BY <1>1, <1>2, <1>5, <1>8, BlockKeepsOrder
<1>10. \A s \in Regions : Precedes(hand', queues'[s])
  <2>1. ASSUME NEW j \in DOMAIN Tail(q), Region(e) = Region(Tail(q)[j])
        PROVE  e.n < Tail(q)[j].n
    BY <1>1, <1>5, <2>1 DEF InOrder
  <2>2. Precedes(hand', Tail(q))
    BY <1>1, <1>2, <1>9, <2>1, AppendKeepsOrder
  <2>3. ASSUME NEW s \in Regions, s # r PROVE Precedes(hand', queues[s])
    <3>1. \A j \in DOMAIN queues[s] : Region(e) # Region(queues[s][j])
      BY <1>4, <2>3 DEF OrderInv
    <3>2. Precedes(hand, queues[s])
      BY DEF OrderInv, RegionOrder
    <3>3. QED
      BY <1>1, <1>2, <3>1, <3>2, AppendKeepsOrder
  <2>4. QED
    BY <1>3, <2>2, <2>3
<1>11. \A s \in Regions : /\ InOrder(queues'[s])
                          /\ Precedes(flight, queues'[s])
                          /\ Precedes(pending, queues'[s])
  BY <1>3, <1>9 DEF OrderInv, RegionOrder
<1>12. RegionOrder'
  BY <1>7, <1>10, <1>11 DEF OrderInv, RegionOrder
<1>13. \A i \in DOMAIN hand' : hand'[i].n <= arrivals
  BY <1>1, <1>2, <1>4 DEF OrderInv, Numbered
<1>14. \A s \in Regions : \A i \in DOMAIN queues'[s] :
         queues'[s][i].n <= arrivals /\ Region(queues'[s][i]) = s
  BY <1>1, <1>3 DEF OrderInv, Numbered
<1>15. QED
  BY <1>12, <1>13, <1>14 DEF OrderInv, Numbered


(* Accepting an envelope gives it a number larger than any other.           *)
LEMMA AcceptKeepsOrder ==
  ASSUME TypeOK, OrderInv, NEW t \in Receivers, NEW id \in Ids, SubmitAccept(t, id)
  PROVE  OrderInv'
<1> DEFINE r == RegionOf[id]  e == [n |-> arrivals + 1, id |-> id]
<1>1. /\ arrivals' = arrivals + 1 /\ arrivals \in Nat
      /\ queues' = [queues EXCEPT ![r] = Append(@, e)]
      /\ UNCHANGED <<hand, pending, flight>>
  BY DEF SubmitAccept, processing, batching, flushing, TypeOK
<1>2. e \in Envelope /\ e.n = arrivals + 1 /\ Region(e) = r /\ r \in Regions
  BY ConstantsAssumption DEF SubmitAccept, Envelope, Region, TypeOK
<1>3. /\ hand \in Seq(Envelope) /\ pending \in Seq(Envelope) /\ flight \in Seq(Envelope)
      /\ \A s \in Regions : queues[s] \in Seq(Envelope)
  BY DEF TypeOK
<1>4. \A s \in Seq(Envelope) : Numbered(s) => \A i \in DOMAIN s : s[i].n < arrivals + 1
  <2>1. ASSUME NEW s \in Seq(Envelope), NEW i \in DOMAIN s PROVE s[i].n \in Nat
    <3>1. s[i] \in Envelope
      OBVIOUS
    <3>2. QED
      BY <3>1, ConstantsAssumption DEF Envelope
  <2>2. QED
    BY <1>1, <2>1 DEF Numbered
<1>5. /\ queues'[r] = Append(queues[r], e)
      /\ \A s \in Regions : s # r => queues'[s] = queues[s]
  BY <1>1, <1>2 DEF TypeOK
<1> HIDE DEF r, e
<1>6. /\ InOrder(queues'[r])
      /\ Precedes(flight, queues'[r])
      /\ Precedes(pending, queues'[r])
      /\ Precedes(hand, queues'[r])
  BY <1>2, <1>3, <1>4, <1>5, AppendKeepsOrder DEF OrderInv, RegionOrder
<1>7. RegionOrder'
  BY <1>1, <1>5, <1>6 DEF OrderInv, RegionOrder
<1>8. \A s \in Seq(Envelope) : Numbered(s) => \A i \in DOMAIN s : s[i].n <= arrivals + 1
  <2>1. ASSUME NEW s \in Seq(Envelope), NEW i \in DOMAIN s PROVE s[i].n \in Nat
    <3>1. s[i] \in Envelope
      OBVIOUS
    <3>2. QED
      BY <3>1, ConstantsAssumption DEF Envelope
  <2>2. QED
    BY <1>1, <1>4, <2>1
<1>9. /\ \A i \in DOMAIN hand : hand[i].n <= arrivals + 1
      /\ \A i \in DOMAIN pending : pending[i].n <= arrivals + 1
      /\ \A i \in DOMAIN flight : flight[i].n <= arrivals + 1
  BY <1>3, <1>8 DEF OrderInv
<1>10. ASSUME NEW s \in Regions, NEW i \in DOMAIN queues'[s]
       PROVE  queues'[s][i].n <= arrivals + 1 /\ Region(queues'[s][i]) = s
  <2>1. CASE s # r
    BY <1>3, <1>5, <1>8, <1>10, <2>1 DEF OrderInv
  <2>2. CASE s = r
    <3>1. \/ i \in DOMAIN queues[r] /\ queues'[r][i] = queues[r][i]
          \/ queues'[r][i] = e
      BY <1>2, <1>3, <1>5, <1>10, <2>2
    <3>2. QED
      BY <1>1, <1>2, <1>3, <1>8, <2>2, <3>1 DEF OrderInv
  <2>3. QED
    BY <2>1, <2>2
<1>11. QED
  BY <1>1, <1>7, <1>9, <1>10 DEF OrderInv, Numbered

(* Removing the head of main's batch, and appending it to pending_ when it  *)
(* is admitted, keeps the order.                                            *)
LEMMA SubmitKeepsOrder ==
  ASSUME TypeOK, OrderInv, SubmitNext, UNCHANGED <<queues, arrivals, flight>>,
         \/ UNCHANGED pending
         \/ pending' = Append(pending, Head(hand))
  PROVE  OrderInv'
<1> DEFINE e == Head(hand)  h == Tail(hand)
<1>1. /\ hand \in Seq(Envelope) /\ hand # <<>> /\ e \in Envelope
      /\ h \in Seq(Envelope) /\ e = hand[1] /\ 1 \in DOMAIN hand
      /\ \A i \in DOMAIN h : i + 1 \in DOMAIN hand /\ 1 < i + 1 /\ h[i] = hand[i + 1]
  BY DEF TypeOK, SubmitNext
<1>2. /\ pending \in Seq(Envelope) /\ flight \in Seq(Envelope)
      /\ \A s \in Regions : queues[s] \in Seq(Envelope)
  BY DEF TypeOK
<1>3. hand' = h
  BY DEF SubmitNext
<1>4. Block(h, hand)
  BY <1>1, TailIsBlock
<1> HIDE DEF e, h
<1>5. /\ InOrder(h) /\ Precedes(flight, h) /\ Precedes(pending, h)
      /\ \A r \in Regions : Precedes(h, queues[r])
  BY <1>1, <1>2, <1>4, BlockKeepsOrder DEF OrderInv, RegionOrder
<1>6. \A i \in DOMAIN h : h[i].n <= arrivals
  BY <1>1 DEF OrderInv, Numbered
<1>7. CASE UNCHANGED pending
  BY <1>3, <1>5, <1>6, <1>7 DEF OrderInv, RegionOrder, Numbered
<1>8. CASE pending' = Append(pending, e)
  <2>1. /\ \A i \in DOMAIN pending : Region(pending[i]) = Region(e) => pending[i].n < e.n
        /\ \A i \in DOMAIN flight : Region(flight[i]) = Region(e) => flight[i].n < e.n
        /\ \A j \in DOMAIN h : Region(e) = Region(h[j]) => e.n < h[j].n
        /\ \A r \in Regions : \A j \in DOMAIN queues[r] :
             Region(e) = Region(queues[r][j]) => e.n < queues[r][j].n
    BY <1>1 DEF OrderInv, RegionOrder, Precedes, InOrder
  <2>2. InOrder(pending') /\ Precedes(flight, pending') /\ Precedes(pending', h)
    BY <1>1, <1>2, <1>5, <1>8, <2>1, AppendKeepsOrder DEF OrderInv, RegionOrder
  <2>3. \A r \in Regions : Precedes(pending', queues[r])
    BY <1>1, <1>2, <1>8, <2>1, AppendKeepsOrder DEF OrderInv, RegionOrder
  <2>4. \A i \in DOMAIN pending' : pending'[i].n <= arrivals
    BY <1>1, <1>2, <1>8 DEF OrderInv, Numbered
  <2>5. QED
    BY <1>3, <1>5, <1>6, <2>2, <2>3, <2>4 DEF OrderInv, RegionOrder, Numbered
<1>9. QED
  BY <1>7, <1>8 DEF e

(* Splitting pending_ into a batch and the rest keeps the order.            *)
LEMMA TakeKeepsOrder ==
  ASSUME TypeOK, OrderInv, NEW k \in 0..Len(pending),
         flight' = SubSeq(pending, 1, k),
         pending' = SubSeq(pending, k + 1, Len(pending)),
         UNCHANGED <<queues, arrivals, hand>>
  PROVE  OrderInv'
<1> DEFINE f == SubSeq(pending, 1, k)  p == SubSeq(pending, k + 1, Len(pending))
<1>1. /\ pending \in Seq(Envelope) /\ hand \in Seq(Envelope)
      /\ f \in Seq(Envelope) /\ p \in Seq(Envelope)
      /\ \A r \in Regions : queues[r] \in Seq(Envelope)
  BY SubSeqType DEF TypeOK
<1>2. Block(f, pending) /\ Block(p, pending)
  BY <1>1, SubSeqIsBlock
<1>3. /\ DOMAIN f = 1..k
      /\ \A i \in DOMAIN f : i \in DOMAIN pending /\ f[i] = pending[i]
      /\ \A j \in DOMAIN p : j + k \in DOMAIN pending /\ p[j] = pending[j + k]
      /\ \A i \in DOMAIN f, j \in DOMAIN p : i < j + k
  BY <1>1
<1> HIDE DEF f, p
<1>4. /\ InOrder(f) /\ InOrder(p) /\ Precedes(f, hand) /\ Precedes(p, hand)
      /\ \A r \in Regions : Precedes(f, queues[r]) /\ Precedes(p, queues[r])
  BY <1>1, <1>2, BlockKeepsOrder DEF OrderInv, RegionOrder
<1>5. Precedes(f, p)
  <2>1. InOrder(pending)
    BY DEF OrderInv, RegionOrder
  <2>2. QED
    BY <1>3, <2>1 DEF Precedes, InOrder
<1>6. /\ \A i \in DOMAIN f : f[i].n <= arrivals
      /\ \A i \in DOMAIN p : p[i].n <= arrivals
  BY <1>3 DEF OrderInv, Numbered
<1>7. flight' = f /\ pending' = p
  BY DEF f, p
<1>8. QED
  BY <1>4, <1>5, <1>6, <1>7 DEF OrderInv, RegionOrder, Numbered


(* The two ways of taking a batch split pending_ in two.                    *)
LEMMA TakeSplits ==
  ASSUME TypeOK, TakeBatch \/ TakeFinalBatch
  PROVE  \E k \in 0..Len(pending) :
           /\ flight' = SubSeq(pending, 1, k)
           /\ pending' = SubSeq(pending, k + 1, Len(pending))
<1>1. CASE TakeBatch
  <2> DEFINE k == IF Len(pending) < BatchSize THEN Len(pending) ELSE BatchSize
  <2>1. k \in 0..Len(pending)
    BY ConstantsAssumption DEF TypeOK
  <2>2. /\ flight' = SubSeq(pending, 1, k)
        /\ pending' = SubSeq(pending, k + 1, Len(pending))
    BY <1>1 DEF TakeBatch
  <2>3. QED
    BY <2>1, <2>2
<1>2. CASE TakeFinalBatch
  <2>1. /\ Len(pending) \in 0..Len(pending)
        /\ SubSeq(pending, 1, Len(pending)) = pending
        /\ SubSeq(pending, Len(pending) + 1, Len(pending)) = <<>>
    BY DEF TypeOK
  <2>2. QED
    BY <1>2, <2>1 DEF TakeFinalBatch
<1>3. QED
  BY <1>1, <1>2

LEMMA OrderStep ==
  ASSUME TypeOK, BoundsInv, OrderInv, [Next]_vars
  PROVE  OrderInv'
<1>1. ASSUME UNCHANGED <<queues, arrivals, hand, pending, flight>>
      PROVE  OrderInv'
  BY <1>1 DEF OrderInv, RegionOrder, Numbered
<1>2. ASSUME NEW t \in Receivers, Receiver(t)
      PROVE  OrderInv'
  <2>1. CASE \E id \in Ids : SubmitAccept(t, id)
    BY <2>1, AcceptKeepsOrder
  <2>2. CASE ReceiverLoop(t) \/ ReceiveTimeout(t) \/ SubmitReject(t)
    BY <1>1, <2>2 DEF ReceiverLoop, ReceiveTimeout, SubmitReject, partition,
                      processing, batching, flushing
  <2>3. QED
    BY <1>2, <2>1, <2>2 DEF Receiver
<1>3. CASE DequeueOne \/ DrainOne
  <2>1. PICK r \in Regions : /\ queues[r] # <<>>
                             /\ hand' = Append(hand, Head(queues[r]))
                             /\ queues' = [queues EXCEPT ![r] = Tail(@)]
    BY <1>3 DEF DequeueOne, DrainOne, NextRegion
  <2>2. UNCHANGED <<arrivals, pending, flight>>
    BY <1>3 DEF DequeueOne, DrainOne, batching, flushing
  <2>3. QED
    BY <2>1, <2>2, MoveToHand
<1>4. CASE PendingFull \/ PendingDuplicate \/ PendingAdmit
  <2>1. /\ SubmitNext
        /\ UNCHANGED <<queues, arrivals, flight>>
        /\ \/ UNCHANGED pending
           \/ pending' = Append(pending, Head(hand))
    BY <1>4 DEF PendingFull, PendingDuplicate, PendingAdmit, SubmitNext,
                partition, batching, flushing
  <2>2. QED
    BY <2>1, SubmitKeepsOrder
<1>5. CASE TakeBatch \/ TakeFinalBatch
  <2>1. PICK k \in 0..Len(pending) :
               /\ flight' = SubSeq(pending, 1, k)
               /\ pending' = SubSeq(pending, k + 1, Len(pending))
    BY <1>5, TakeSplits
  <2>2. UNCHANGED <<queues, arrivals, hand>>
    BY <1>5 DEF TakeBatch, TakeFinalBatch, partition, processing
  <2>3. QED
    BY <2>1, <2>2, TakeKeepsOrder
<1>6. CASE FlushBatch
  <2>1. flight' = <<>> /\ UNCHANGED <<queues, arrivals, hand, pending>>
    BY <1>6 DEF FlushBatch, partition, processing, batching
  <2>2. QED
    BY <2>1 DEF OrderInv, RegionOrder, Numbered, InOrder, Precedes
<1>7. CASE Signal \/ MainLoop \/ DequeueBegin \/ DequeueEnd \/ DrainEnd
           \/ SubmitEnd \/ JoinBatchThread \/ JoinSubscriber \/ BatchLoop
           \/ UNCHANGED vars
  BY <1>1, <1>7 DEF Signal, MainLoop, DequeueBegin, DequeueEnd, DrainEnd,
       SubmitEnd, JoinBatchThread, JoinSubscriber, BatchLoop, vars, partition,
       processing, batching, flushing
<1>8. QED
  BY <1>2, <1>3, <1>4, <1>5, <1>6, <1>7 DEF Next, Main, Batcher, Terminated

LEMMA OrderInvariant == Spec => []OrderInv
<1>1. Init => OrderInv
  BY DEF Init, OrderInv, RegionOrder, Numbered, InOrder, Precedes
<1>2. BaseInv /\ BoundsInv /\ OrderInv /\ [Next]_vars => OrderInv'
  BY OrderStep DEF BaseInv
<1>3. QED
  BY <1>1, <1>2, BaseInvariant, BoundsInvariant, PTL DEF Spec

(* The envelopes of one region stay in the order in which they were         *)
(* accepted, from the region queue to the batch being flushed.              *)
THEOREM RegionOrderKept == Spec => []RegionOrder
<1>1. OrderInv => RegionOrder
  BY DEF OrderInv
<1>2. QED
  BY <1>1, OrderInvariant, PTL

-----------------------------------------------------------------------------
(* What is pending or in flight are the youngest ids of the cache, in the   *)
(* same order: the cache holds twice MaxQueue ids, so it never forgets one  *)
(* that is still on its way.  Hence no id is on its way twice.              *)
Way == flight \o pending

SuffixInv ==
  /\ Len(Way) <= Len(idOrder)
  /\ \A i \in 1..Len(Way) : Way[i].id = idOrder[Len(idOrder) - Len(Way) + i]

LEMMA WayType ==
  ASSUME TypeOK
  PROVE  /\ Way \in Seq(Envelope)
         /\ Len(Way) = Len(flight) + Len(pending)
         /\ Len(Way) \in Nat /\ Len(idOrder) \in Nat
         /\ Len(flight) \in Nat /\ Len(pending) \in Nat
         /\ DOMAIN Way = 1..Len(Way)
  BY DEF TypeOK, Way

LEMMA AdmitKeepsSuffix ==
  ASSUME TypeOK, CacheInv, BoundsInv, SuffixInv, PendingAdmit
  PROVE  SuffixInv'
<1> DEFINE e == Head(hand)
           old == IF CacheFull THEN Tail(idOrder) ELSE idOrder
           w == Len(Way)
<1>1. e \in Envelope /\ e.id \in Ids
  <2>1. e \in Envelope
    BY DEF PendingAdmit, SubmitNext, TypeOK
  <2>2. QED
    BY <2>1 DEF Envelope
<1>2. /\ idOrder' = Append(old, e.id)
      /\ pending' = Append(pending, e)
      /\ flight' = flight
      /\ Len(pending) < MaxQueue
  BY DEF PendingAdmit, SubmitNext, flushing
<1>3. Way' = Append(Way, e)
  <2>1. flight \in Seq(Envelope) /\ pending \in Seq(Envelope) /\ <<e>> \in Seq(Envelope)
    BY <1>1 DEF TypeOK
  <2>2. /\ Append(pending, e) = pending \o <<e>>
        /\ Append(flight \o pending, e) = (flight \o pending) \o <<e>>
    BY <1>1, <2>1, AppendIsConcat, ConcatProperties
  <2>3. flight \o (pending \o <<e>>) = (flight \o pending) \o <<e>>
    BY <2>1, ConcatAssociative
  <2>4. QED
    BY <1>2, <2>2, <2>3 DEF Way
<1>4. w \in Nat /\ w < SeenCap
  <2>1. Len(flight) <= MaxQueue
    BY DEF BoundsInv
  <2>2. QED
    BY <1>2, <2>1, WayType, ConstantsAssumption, CacheAssumption
<1>5. /\ old \in Seq(Ids) /\ Len(old) \in Nat /\ w <= Len(old)
      /\ \A i \in 1..w : Way[i].id = old[Len(old) - w + i]
  <2>1. CASE CacheFull
    <3>1. Len(idOrder) >= SeenCap /\ idOrder # <<>> /\ SeenCap \in Nat
      BY <2>1, <1>4, CacheAssumption DEF CacheFull, CacheInv
    <3>2. /\ old = Tail(idOrder) /\ old \in Seq(Ids)
          /\ Len(old) = Len(idOrder) - 1 /\ Len(idOrder) \in Nat
          /\ \A j \in 1..Len(idOrder) - 1 : old[j] = idOrder[j + 1]
      BY <2>1, <3>1 DEF TypeOK
    <3> HIDE DEF old
    <3>3. w <= Len(old) /\ Len(old) \in Nat
      BY <1>4, <3>1, <3>2
    <3>4. ASSUME NEW i \in 1..w PROVE Way[i].id = old[Len(old) - w + i]
      <4>1. Len(old) - w + i \in 1..Len(idOrder) - 1
        BY <1>4, <3>2, <3>3
      <4>2. (Len(old) - w + i) + 1 = Len(idOrder) - w + i
        BY <1>4, <3>2
      <4>3. old[Len(old) - w + i] = idOrder[Len(idOrder) - w + i]
        BY <3>2, <4>1, <4>2
      <4>4. QED
        BY <4>3 DEF SuffixInv
    <3>5. QED
      BY <3>2, <3>3, <3>4
  <2>2. CASE ~CacheFull
    BY <2>2, WayType DEF SuffixInv, TypeOK
  <2>3. QED
    BY <2>1, <2>2
<1> HIDE DEF old, e
<1>6. /\ Len(idOrder') = Len(old) + 1
      /\ idOrder'[Len(old) + 1] = e.id
      /\ \A j \in 1..Len(old) : idOrder'[j] = old[j]
  BY <1>1, <1>2, <1>5
<1>7. /\ Len(Way') = w + 1
      /\ Way'[w + 1] = e
      /\ \A i \in 1..w : Way'[i] = Way[i]
  BY <1>1, <1>3, WayType
<1> HIDE DEF w
<1>8. ASSUME NEW i \in 1..w + 1
      PROVE  Way'[i].id = idOrder'[Len(old) + 1 - (w + 1) + i]
  <2>1. CASE i = w + 1
    <3>1. Len(old) + 1 - (w + 1) + i = Len(old) + 1
      BY <1>4, <1>5, <2>1
    <3>2. QED
      BY <1>6, <1>7, <2>1, <3>1
  <2>2. CASE i \in 1..w
    <3>1. /\ Len(old) + 1 - (w + 1) + i = Len(old) - w + i
          /\ Len(old) - w + i \in 1..Len(old)
      BY <1>4, <1>5, <2>2
    <3>2. QED
      BY <1>5, <1>6, <1>7, <2>2, <3>1
  <2>3. QED
    BY <1>4, <1>8, <2>1, <2>2
<1>9. w + 1 <= Len(old) + 1
  BY <1>4, <1>5
<1>10. QED
  BY <1>6, <1>7, <1>8, <1>9 DEF SuffixInv

LEMMA SuffixStep ==
  ASSUME TypeOK, CacheInv, BoundsInv, SuffixInv, [Next]_vars
  PROVE  SuffixInv'
<1>1. CASE PendingAdmit
  BY <1>1, AdmitKeepsSuffix
<1>2. CASE TakeBatch \/ TakeFinalBatch
  <2>1. flight = <<>>
    BY <1>2 DEF TakeBatch, TakeFinalBatch, BoundsInv
  <2>2. PICK k \in 0..Len(pending) :
               /\ flight' = SubSeq(pending, 1, k)
               /\ pending' = SubSeq(pending, k + 1, Len(pending))
    BY <1>2, TakeSplits
  <2>3. Way = pending
    BY <2>1 DEF Way, TypeOK
  <2>4. Way' = pending
    <3>1. /\ pending \in Seq(Envelope) /\ Len(pending) \in Nat
          /\ 1 \in 1..Len(pending) + 1 /\ k \in 1 - 1..Len(pending)
          /\ Len(pending) \in k..Len(pending)
      BY DEF TypeOK
    <3>2. SubSeq(pending, 1, k) \o SubSeq(pending, k + 1, Len(pending))
            = SubSeq(pending, 1, Len(pending))
      BY <3>1, ConcatAdjacentSubSeq
    <3>3. SubSeq(pending, 1, Len(pending)) = pending
      BY <3>1
    <3>4. QED
      BY <2>2, <3>2, <3>3 DEF Way
  <2>5. idOrder' = idOrder
    BY <1>2 DEF TakeBatch, TakeFinalBatch
  <2>6. QED
    BY <2>3, <2>4, <2>5 DEF SuffixInv
<1>3. CASE FlushBatch
  <2>1. flight' = <<>> /\ pending' = pending /\ idOrder' = idOrder
    BY <1>3 DEF FlushBatch, batching
  <2>2. Way' = pending
    BY <2>1 DEF Way, TypeOK
  <2>3. \A i \in 1..Len(pending) : Way[Len(flight) + i] = pending[i]
    BY DEF Way, TypeOK
  <2>4. ASSUME NEW i \in 1..Len(pending)
        PROVE  pending[i].id = idOrder[Len(idOrder) - Len(pending) + i]
    <3>1. Len(flight) + i \in 1..Len(Way)
      BY WayType
    <3>2. Len(idOrder) - Len(Way) + (Len(flight) + i) = Len(idOrder) - Len(pending) + i
      BY WayType
    <3>3. Way[Len(flight) + i].id = idOrder[Len(idOrder) - Len(Way) + (Len(flight) + i)]
      BY <3>1 DEF SuffixInv
    <3>4. QED
      BY <2>3, <3>2, <3>3
  <2>5. Len(pending) <= Len(idOrder)
    BY WayType DEF SuffixInv
  <2>6. QED
    BY <2>1, <2>2, <2>4, <2>5 DEF SuffixInv
<1>4. CASE UNCHANGED <<idOrder, flight, pending>>
  BY <1>4 DEF SuffixInv, Way
<1>5. PendingAdmit \/ TakeBatch \/ TakeFinalBatch \/ FlushBatch
        \/ UNCHANGED <<idOrder, flight, pending>>
  BY DEF Next, Receiver, Main, Batcher, Terminated, vars, batching, flushing,
         Signal, ReceiverLoop, ReceiveTimeout, SubmitAccept, SubmitReject,
         MainLoop, DequeueBegin, DequeueOne, DequeueEnd, DrainOne, DrainEnd,
         PendingFull, PendingDuplicate, SubmitNext, SubmitEnd,
         JoinBatchThread, JoinSubscriber, BatchLoop
<1>6. QED
  BY <1>1, <1>2, <1>3, <1>4, <1>5

LEMMA SuffixInvariant == Spec => []SuffixInv
<1>1. Init => SuffixInv
  <2>1. ASSUME Init PROVE Len(Way) = 0 /\ Len(idOrder) = 0
    BY <2>1 DEF Init, Way
  <2>2. QED
    BY <2>1 DEF SuffixInv
<1>2. BaseInv /\ BoundsInv /\ SuffixInv /\ [Next]_vars => SuffixInv'
  BY SuffixStep DEF BaseInv
<1>3. QED
  BY <1>1, <1>2, BaseInvariant, BoundsInvariant, PTL DEF Spec

(* No id is twice among the pending and in-flight envelopes: a batch never  *)
(* counts an observation twice.                                             *)
THEOREM NothingCountedTwice == Spec => []NoDoubleCount
<1>1. BaseInv /\ SuffixInv => NoDoubleCount
  <2> SUFFICES ASSUME BaseInv, SuffixInv,
                      NEW i \in DOMAIN Way, NEW j \in DOMAIN Way,
                      Way[i].id = Way[j].id
               PROVE  i = j
    BY DEF NoDoubleCount, Way
  <2> DEFINE d == Len(idOrder) - Len(Way)
  <2>1. /\ d + i \in 1..Len(idOrder) /\ d + j \in 1..Len(idOrder)
        /\ i \in 1..Len(Way) /\ j \in 1..Len(Way)
        /\ DOMAIN idOrder = 1..Len(idOrder)
        /\ d \in Int
    <3>1. /\ DOMAIN Way = 1..Len(Way) /\ Len(Way) \in Nat /\ Len(idOrder) \in Nat
      BY WayType DEF BaseInv
    <3>2. Len(Way) <= Len(idOrder) /\ DOMAIN idOrder = 1..Len(idOrder)
      BY DEF SuffixInv, BaseInv, TypeOK
    <3>3. QED
      BY <3>1, <3>2
  <2>2. idOrder[d + i] = idOrder[d + j]
    BY <2>1 DEF SuffixInv
  <2>3. d + i = d + j
    BY <2>1, <2>2 DEF BaseInv, CacheInv, CacheConsistent
  <2>4. QED
    BY <2>1, <2>3
<1>2. QED
  BY <1>1, BaseInvariant, SuffixInvariant, PTL

-----------------------------------------------------------------------------
(* An id the cache knows was really taken.                                  *)
LEMMA SeenStep ==
  ASSUME TypeOK, BoundsInv, SeenWasTaken, [Next]_vars
  PROVE  SeenWasTaken'
<1>1. CASE PendingAdmit
  <2>1. /\ pending' = Append(pending, Head(hand))
        /\ seen' \subseteq seen \cup {Head(hand).id}
        /\ UNCHANGED <<flight, durable, dropped>>
    BY <1>1 DEF PendingAdmit, SubmitNext, flushing
  <2>2. Head(hand) \in Envelope
    BY <1>1 DEF PendingAdmit, SubmitNext, TypeOK
  <2>3. /\ \A i \in DOMAIN pending : i \in DOMAIN pending' /\ pending'[i] = pending[i]
        /\ Len(pending) + 1 \in DOMAIN pending'
        /\ pending'[Len(pending) + 1] = Head(hand)
    BY <2>1, <2>2 DEF TypeOK
  <2>4. IdsIn(pending) \cup {Head(hand).id} \subseteq IdsIn(pending')
    BY <2>3 DEF IdsIn
  <2>5. QED
    BY <2>1, <2>4 DEF SeenWasTaken
<1>2. CASE TakeBatch \/ TakeFinalBatch
  <2>1. PICK k \in 0..Len(pending) :
               /\ flight' = SubSeq(pending, 1, k)
               /\ pending' = SubSeq(pending, k + 1, Len(pending))
    BY <1>2, TakeSplits
  <2>2. flight = <<>> /\ UNCHANGED <<seen, durable, dropped>>
    BY <1>2 DEF TakeBatch, TakeFinalBatch, BoundsInv
  <2>3. IdsIn(flight) = {}
    BY <2>2 DEF IdsIn
  <2>4. ASSUME NEW i \in DOMAIN pending
        PROVE  pending[i].id \in IdsIn(flight') \cup IdsIn(pending')
    <3>1. Len(pending) \in Nat /\ DOMAIN pending = 1..Len(pending)
      BY DEF TypeOK
    <3>2. CASE i <= k
      <4>1. i \in DOMAIN flight' /\ flight'[i] = pending[i]
        BY <2>1, <3>1, <3>2 DEF TypeOK
      <4>2. QED
        BY <4>1 DEF IdsIn
    <3>3. CASE i > k
      <4>1. i - k \in DOMAIN pending' /\ pending'[i - k] = pending[i]
        BY <2>1, <3>1, <3>3 DEF TypeOK
      <4>2. QED
        BY <4>1 DEF IdsIn
    <3>4. QED
      BY <3>1, <3>2, <3>3
  <2>5. IdsIn(pending) \subseteq IdsIn(flight') \cup IdsIn(pending')
    BY <2>4 DEF IdsIn
  <2>6. QED
    BY <2>2, <2>3, <2>5 DEF SeenWasTaken
<1>3. CASE FlushBatch
  <2>1. /\ durable' \cup dropped' = durable \cup dropped \cup IdsIn(flight)
        /\ UNCHANGED <<seen, pending>>
    BY <1>3 DEF FlushBatch, batching
  <2>2. QED
    BY <2>1 DEF SeenWasTaken
<1>4. CASE UNCHANGED <<seen, pending, flight, durable, dropped>>
  BY <1>4 DEF SeenWasTaken
<1>5. PendingAdmit \/ TakeBatch \/ TakeFinalBatch \/ FlushBatch
        \/ UNCHANGED <<seen, pending, flight, durable, dropped>>
  BY DEF Next, Receiver, Main, Batcher, Terminated, vars, batching, flushing,
         Signal, ReceiverLoop, ReceiveTimeout, SubmitAccept, SubmitReject,
         MainLoop, DequeueBegin, DequeueOne, DequeueEnd, DrainOne, DrainEnd,
         PendingFull, PendingDuplicate, SubmitNext, SubmitEnd,
         JoinBatchThread, JoinSubscriber, BatchLoop
<1>6. QED
  BY <1>1, <1>2, <1>3, <1>4, <1>5

(* submit skips an envelope as a duplicate only when its first copy is      *)
(* pending, being flushed, in the database or the outbox, or was lost with  *)
(* a batch that could be written to neither (`dropped'): the cache still    *)
(* answers for the ids of that batch, and for no id that was refused.       *)
THEOREM DuplicatesWereTaken == Spec => []SeenWasTaken
<1>1. Init => SeenWasTaken
  BY DEF Init, SeenWasTaken
<1>2. BaseInv /\ BoundsInv /\ SeenWasTaken /\ [Next]_vars => SeenWasTaken'
  BY SeenStep DEF BaseInv
<1>3. QED
  BY <1>1, <1>2, BaseInvariant, BoundsInvariant, PTL DEF Spec
-----------------------------------------------------------------------------
(* The round robin.  In the middle of a dequeueBatch the regions before the *)
(* iterator are one envelope ahead of the others; only an empty region may  *)
(* be behind that.  The batch begins empty.                                *)

InRound(k) ==
  \A r \in Regions : LET due == IF r < cursor THEN k + 1 ELSE k
                     IN /\ Served(r) <= due
                        /\ queues[r] # <<>> => Served(r) = due

RoundInv ==
  /\ mpc \in {"loop", "wait"} => hand = <<>>
  /\ mpc = "dequeue" => \E k \in Nat : InRound(k)

LEMMA ServedAppend ==
  ASSUME NEW s \in Seq(Envelope), NEW e \in Envelope, NEW r \in Regions
  PROVE  LET Count(u) == Cardinality({i \in DOMAIN u : Region(u[i]) = r})
         IN /\ Count(s) \in Nat
            /\ Count(Append(s, e)) = IF Region(e) = r THEN Count(s) + 1 ELSE Count(s)
<1> DEFINE At(u) == {i \in DOMAIN u : Region(u[i]) = r}
           n == Len(s)
           t == Append(s, e)
<1>1. /\ n \in Nat /\ DOMAIN s = 1..n /\ DOMAIN t = 1..(n + 1)
      /\ t[n + 1] = e /\ \A i \in 1..n : t[i] = s[i]
  OBVIOUS
<1>2. IsFiniteSet(At(s)) /\ n + 1 \notin At(s)
  <2>1. At(s) \subseteq 1..n /\ IsFiniteSet(1..n)
    BY <1>1, FS_Interval
  <2>2. n + 1 \notin 1..n
    BY <1>1
  <2>3. QED
    BY <2>1, <2>2, FS_Subset
<1> HIDE DEF t, n
<1>3. At(t) = IF Region(e) = r THEN At(s) \cup {n + 1} ELSE At(s)
  <2>1. 1..(n + 1) = 1..n \cup {n + 1}
    BY <1>1
  <2>2. QED
    BY <1>1, <2>1
<1>4. Cardinality(At(s)) \in Nat
  BY <1>2, FS_CardinalityType
<1>5. Cardinality(At(s) \cup {n + 1}) = Cardinality(At(s)) + 1
  BY <1>2, FS_AddElement
<1>6. Cardinality(At(t)) = IF Region(e) = r THEN Cardinality(At(s)) + 1 ELSE Cardinality(At(s))
  BY <1>3, <1>5
<1>7. QED
  BY <1>4, <1>6 DEF t

(* Taking the next region in turn keeps the rounds.                        *)
LEMMA DequeueKeepsRound ==
  ASSUME TypeOK, OrderInv, RoundInv, DequeueOne
  PROVE  \E k \in Nat : InRound(k)'
<1>1. PICK k \in Nat : InRound(k)
  BY DEF DequeueOne, RoundInv
<1>2. PICK r \in Regions : /\ NextRegion(r)
                           /\ hand' = Append(hand, Head(queues[r]))
                           /\ queues' = [queues EXCEPT ![r] = Tail(@)]
                           /\ cursor' = r + 1
  BY DEF DequeueOne
<1>3. /\ queues[r] \in Seq(Envelope) /\ queues[r] # <<>> /\ hand \in Seq(Envelope)
      /\ cursor \in Nat /\ Regions \subseteq Nat
  <2>1. Regions \subseteq Nat
    BY DEF Regions
  <2>2. QED
    BY <1>2, <2>1 DEF TypeOK, NextRegion
<1>4. Head(queues[r]) \in Envelope /\ Head(queues[r]) = queues[r][1] /\ 1 \in DOMAIN queues[r]
  BY <1>3
<1>5. Region(Head(queues[r])) = r
  BY <1>4 DEF OrderInv
<1>6. \A s \in Regions : /\ Served(s) \in Nat
                         /\ Served(s)' = IF s = r THEN Served(s) + 1 ELSE Served(s)
  <2>1. ASSUME NEW s \in Regions
        PROVE  /\ Served(s) \in Nat
               /\ Served(s)' = IF s = r THEN Served(s) + 1 ELSE Served(s)
    <3> DEFINE e == Head(queues[r])
               Count(u) == Cardinality({i \in DOMAIN u : Region(u[i]) = s})
    <3>1. Count(hand) \in Nat
      BY <1>3, <1>4, ServedAppend
    <3>2. Count(Append(hand, e)) = IF Region(e) = s THEN Count(hand) + 1 ELSE Count(hand)
      BY <1>3, <1>4, ServedAppend
    <3>3. Served(s) = Count(hand) /\ Served(s)' = Count(Append(hand, e))
      BY <1>2 DEF Served
    <3> HIDE DEF Count, e
    <3>4. QED
      BY <1>5, <3>1, <3>2, <3>3 DEF e
  <2>2. QED
    BY <2>1
<1>7. \A s \in Regions : s # r => queues'[s] = queues[s]
  BY <1>2 DEF TypeOK
<1>8. \A s \in Regions : /\ Served(s) <= IF s < cursor THEN k + 1 ELSE k
                         /\ queues[s] # <<>> => Served(s) = IF s < cursor THEN k + 1 ELSE k
  BY <1>1 DEF InRound
<1>9. \A s \in Regions : queues[s] # <<>> => IF r >= cursor THEN s < cursor \/ r <= s
                                             ELSE s < cursor /\ r <= s
  BY <1>2 DEF NextRegion
<1>10. CASE r >= cursor
  <2>1. ASSUME NEW s \in Regions
        PROVE  /\ Served(s)' <= IF s < r + 1 THEN k + 1 ELSE k
               /\ queues'[s] # <<>> => Served(s)' = IF s < r + 1 THEN k + 1 ELSE k
    <3>1. CASE s = r
      BY <1>3, <1>6, <1>8, <1>10, <3>1
    <3>2. CASE s # r
      BY <1>3, <1>6, <1>7, <1>8, <1>9, <1>10, <3>2
    <3>3. QED
      BY <3>1, <3>2
  <2>2. QED
    BY <1>2, <2>1 DEF InRound
<1>11. CASE ~(r >= cursor)
  <2>1. ASSUME NEW s \in Regions
        PROVE  /\ Served(s)' <= IF s < r + 1 THEN (k + 1) + 1 ELSE k + 1
               /\ queues'[s] # <<>> => Served(s)' = IF s < r + 1 THEN (k + 1) + 1 ELSE k + 1
    <3>1. CASE s = r
      BY <1>3, <1>6, <1>8, <1>11, <3>1
    <3>2. CASE s # r
      BY <1>3, <1>6, <1>7, <1>8, <1>9, <1>11, <3>2
    <3>3. QED
      BY <3>1, <3>2
  <2>2. k + 1 \in Nat /\ InRound(k + 1)'
    BY <1>2, <2>1 DEF InRound
  <2>3. QED
    BY <2>2
<1>12. QED
  BY <1>10, <1>11

LEMMA RoundStep ==
  ASSUME TypeOK, OrderInv, RoundInv, [Next]_vars
  PROVE  RoundInv'
<1>1. CASE UNCHANGED <<mpc, hand, cursor, queues>>
  BY <1>1 DEF RoundInv, InRound, Served
<1>2. CASE \E t \in Receivers : \E id \in Ids : SubmitAccept(t, id)
  BY <1>2 DEF SubmitAccept, QueueLocked, RoundInv, processing
<1>3. CASE MainLoop
  BY <1>3 DEF MainLoop, RoundInv
<1>4. CASE DequeueBegin
  <2>1. hand = <<>> /\ hand' = <<>> /\ cursor' = 1 /\ queues' = queues
    BY <1>4 DEF DequeueBegin, RoundInv, partition
  <2>2. ASSUME NEW r \in Regions PROVE Served(r)' = 0 /\ ~(r < 1)
    <3>1. {i \in DOMAIN <<>> : Region(<<>>[i]) = r} = {}
      OBVIOUS
    <3>2. QED
      BY <2>1, <3>1, FS_EmptySet DEF Served, Regions
  <2>3. InRound(0)'
    BY <2>1, <2>2 DEF InRound
  <2>4. QED
    BY <1>4, <2>1, <2>3 DEF DequeueBegin, RoundInv
<1>5. CASE DequeueOne
  BY <1>5, DequeueKeepsRound DEF DequeueOne, RoundInv
<1>6. CASE DequeueEnd \/ DrainOne \/ DrainEnd \/ JoinBatchThread \/ JoinSubscriber
  BY <1>6 DEF DequeueEnd, DrainOne, DrainEnd, JoinBatchThread, JoinSubscriber, RoundInv
<1>7. CASE PendingFull \/ PendingDuplicate \/ PendingAdmit
  BY <1>7 DEF PendingFull, PendingDuplicate, PendingAdmit, SubmitNext, RoundInv
<1>8. CASE SubmitEnd
  BY <1>8 DEF SubmitEnd, RoundInv
<1>9. \/ UNCHANGED <<mpc, hand, cursor, queues>>
      \/ \E t \in Receivers : \E id \in Ids : SubmitAccept(t, id)
      \/ Main
  BY DEF Next, Receiver, Batcher, Terminated, vars, partition, processing, Signal,
         ReceiverLoop, ReceiveTimeout, SubmitReject, BatchLoop, TakeBatch,
         TakeFinalBatch, FlushBatch
<1>10. QED
  BY <1>1, <1>2, <1>3, <1>4, <1>5, <1>6, <1>7, <1>8, <1>9 DEF Main

(* dequeueBatch serves the regions in turn: while one of them still holds   *)
(* something, no other gets more than one envelope ahead of it.             *)
THEOREM RoundRobinIsFair == Spec => []RoundRobinFair
<1>1. Init => RoundInv
  BY DEF Init, RoundInv
<1>2. BaseInv /\ OrderInv /\ RoundInv /\ [Next]_vars => RoundInv'
  BY RoundStep DEF BaseInv
<1>3. BaseInv /\ RoundInv => RoundRobinFair
  <2> SUFFICES ASSUME BaseInv, RoundInv, mpc = "dequeue", NEW r \in Regions, NEW s \in Regions,
                      queues[r] # <<>>
               PROVE  Served(s) <= Served(r) + 1
    BY DEF RoundRobinFair
  <2>1. PICK k \in Nat : InRound(k)
    BY DEF RoundInv
  <2>2. /\ Served(r) = IF r < cursor THEN k + 1 ELSE k
        /\ Served(s) <= IF s < cursor THEN k + 1 ELSE k
    BY <2>1 DEF InRound
  <2>3. Served(s) \in Nat
    <3>1. IsFiniteSet({i \in DOMAIN hand : Region(hand[i]) = s})
      <4>1. hand \in Seq(Envelope) /\ DOMAIN hand = 1..Len(hand) /\ Len(hand) \in Nat
        BY DEF BaseInv, TypeOK
      <4>2. IsFiniteSet(1..Len(hand))
        BY <4>1, FS_Interval
      <4>3. {i \in DOMAIN hand : Region(hand[i]) = s} \subseteq 1..Len(hand)
        BY <4>1
      <4>4. QED
        BY <4>2, <4>3, FS_Subset
    <3>2. QED
      BY <3>1, FS_CardinalityType DEF Served
  <2>4. QED
    BY <2>1, <2>2, <2>3
<1>4. QED
  BY <1>1, <1>2, <1>3, BaseInvariant, OrderInvariant, PTL DEF Spec
=============================================================================
