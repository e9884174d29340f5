---------------------- MODULE PersonalComparatorProofs ----------------------
(***************************************************************************)
(* The ring buffer of any capacity implements the bounded FIFO, and its    *)
(* two threads never touch the same slot at the same time.  Over two such  *)
(* FIFOs, for any number of events: from the server to the table the       *)
(* events keep their order and none vanishes, and the actuator has been    *)
(* triggered for exactly those beyond the threshold that have left the     *)
(* ingest queue.                                                           *)
(***************************************************************************)
EXTENDS PersonalComparator, SpscRing, TLAPS

(* Indices are below 2 * Capacity: the mask is one conditional subtraction.*)
Wrap(n) == IF n < Capacity THEN n ELSE n - Capacity

LEMMA MaskIsWrap ==
  ASSUME NEW n \in 0..(2 * Capacity - 1)
  PROVE  n % Capacity = Wrap(n)
  BY CapacityAssumption, SMT DEF Wrap

LEMMA FollowingIsWrap ==
  ASSUME NEW i \in Slots
  PROVE  Following(i) = Wrap(i + 1) /\ Following(i) \in Slots
  BY CapacityAssumption, MaskIsWrap DEF Following, Slots, Wrap

-----------------------------------------------------------------------------
(* What each thread knows between its steps: the producer past its test has *)
(* room, the consumer past its test has an item, and both still hold when   *)
(* the other thread moves, because that only makes more room or more items. *)
ProducerInv ==
  /\ ppc \in {"test", "write", "publish"} => item \in Items
  /\ ppc \in {"write", "publish"} => Following(tail) # head
  /\ ppc = "publish" => buffer[tail] = item

ConsumerInv ==
  /\ cpc \in {"read", "release"} => head # tail
  /\ cpc = "release" => copy = buffer[head]

RingInv == RingTypeOK /\ ProducerInv /\ ConsumerInv

LEMMA RingInvInit == RingInit => RingInv
  BY CapacityAssumption, ItemsAssumption
     DEF RingInit, RingInv, RingTypeOK, ProducerInv, ConsumerInv, Slots

LEMMA RingInvStep == RingInv /\ [RingNext]_ringVars => RingInv'
<1> SUFFICES ASSUME RingInv, [RingNext]_ringVars PROVE RingInv'
  OBVIOUS
<1> USE CapacityAssumption, ItemsAssumption DEF RingInv, RingTypeOK
<1>1. ASSUME NEW x \in Items, PushCall(x) PROVE RingInv'
  BY <1>1 DEF PushCall, ProducerInv, ConsumerInv, consumer
<1>2. CASE PushTest
  BY <1>2 DEF PushTest, ProducerInv, ConsumerInv, consumer
<1>3. CASE PushWrite
  <2>1. head # tail => buffer'[head] = buffer[head]
    BY <1>3 DEF PushWrite
  <2>2. RingTypeOK'
    BY <1>3 DEF PushWrite, ProducerInv, consumer
  <2>3. ProducerInv' /\ ConsumerInv'
    BY <1>3, <2>1 DEF PushWrite, ProducerInv, ConsumerInv, consumer
  <2> QED BY <2>2, <2>3
<1>4. CASE PushPublish
  <2>1. Following(tail) \in Slots
    BY FollowingIsWrap
  <2>2. RingTypeOK' /\ ProducerInv'
    BY <1>4, <2>1 DEF PushPublish, ProducerInv, consumer
  <2>3. ConsumerInv'
    BY <1>4 DEF PushPublish, ProducerInv, ConsumerInv, consumer
  <2> QED BY <2>2, <2>3
<1>5. CASE PopCall
  BY <1>5 DEF PopCall, ProducerInv, ConsumerInv, producer
<1>6. CASE PopTest
  BY <1>6 DEF PopTest, ProducerInv, ConsumerInv, producer
<1>7. CASE PopRead
  BY <1>7 DEF PopRead, ProducerInv, ConsumerInv, producer
<1>8. CASE PopRelease
  <2>1. Following(head) \in Slots
    BY FollowingIsWrap
  <2>2. RingTypeOK' /\ ConsumerInv'
    BY <1>8, <2>1 DEF PopRelease, ConsumerInv, producer
  <2>3. head # tail /\ Following(head) # Following(tail)
    BY <1>8, FollowingIsWrap DEF PopRelease, ConsumerInv, Wrap, Slots
  <2>4. ProducerInv'
    BY <1>8, <2>3 DEF PopRelease, ProducerInv, producer
  <2> QED BY <2>2, <2>4
<1>9. CASE UNCHANGED ringVars
  BY <1>9 DEF ringVars, producer, consumer, ProducerInv, ConsumerInv, Following
<1> QED
  BY <1>1, <1>2, <1>3, <1>4, <1>5, <1>6, <1>7, <1>8, <1>9
     DEF RingNext, Producer, Consumer

LEMMA RingInvariant == RingSpec => []RingInv
  BY RingInvInit, RingInvStep, PTL DEF RingSpec

(* The types of the ring hold for every capacity and set of items.          *)
THEOREM RingTypeCorrect == RingSpec => []RingTypeOK
<1>1. RingInv => RingTypeOK
  BY DEF RingInv
<1> QED BY <1>1, RingInvariant, PTL

(* No data race on a slot: with room, the slot at tail is not the one at    *)
(* head; without items, the consumer does not read.                         *)
THEOREM RingSlotsNotShared == RingSpec => []SlotsNotShared
<1>1. RingInv => SlotsNotShared
  BY DEF RingInv, ConsumerInv, SlotsNotShared
<1> QED BY <1>1, RingInvariant, PTL

-----------------------------------------------------------------------------
(* The refinement: the contents of the ring under each step.                *)

SizeOK ==
  /\ Size \in 0..(Capacity - 1)
  /\ Size = 0 <=> head = tail
  /\ Size = Capacity - 1 <=> Following(tail) = head
  /\ Contents \in Seq(Items \cup {NoItem})
  /\ Len(Contents) = Size
  /\ \A i \in 1..Size : /\ Wrap(head + i - 1) \in Slots \ {tail}
                        /\ Contents[i] = buffer[Wrap(head + i - 1)]

LEMMA SizeFacts == RingTypeOK => SizeOK
<1> SUFFICES ASSUME RingTypeOK PROVE SizeOK
  OBVIOUS
<1> USE CapacityAssumption DEF RingTypeOK, Slots
<1>1. /\ Size \in 0..(Capacity - 1)
      /\ Size = 0 <=> head = tail
  BY DEF Size
<1>2. Size = Capacity - 1 <=> Following(tail) = head
  <2>1. Following(tail) = Wrap(tail + 1)
    BY FollowingIsWrap
  <2>2. CASE tail + 1 < Capacity
    BY <2>1, <2>2 DEF Size, Wrap
  <2>3. CASE tail + 1 = Capacity
    <3>1. Following(tail) = 0
      BY <2>1, <2>3 DEF Wrap
    <3> QED BY <2>3, <3>1 DEF Size
  <2> QED BY <2>2, <2>3
<1>3. ASSUME NEW i \in 1..Size
      PROVE  /\ (head + i - 1) % Capacity = Wrap(head + i - 1)
             /\ Wrap(head + i - 1) \in Slots \ {tail}
  <2>1. head + i - 1 \in 0..(2 * Capacity - 1)
    BY <1>1
  <2>2. (head + i - 1) % Capacity = Wrap(head + i - 1)
    BY <2>1, MaskIsWrap
  <2>3. Wrap(head + i - 1) \in Slots \ {tail}
    BY <1>1 DEF Wrap, Size
  <2> QED BY <2>2, <2>3
<1>4. \A i \in 1..Size : Contents[i] = buffer[Wrap(head + i - 1)]
  BY <1>1, <1>3 DEF Contents
<1>5. Contents \in Seq(Items \cup {NoItem}) /\ Len(Contents) = Size
  BY <1>1, <1>3 DEF Contents
<1> QED BY <1>1, <1>2, <1>3, <1>4, <1>5 DEF SizeOK

LEMMA SizeFactsNext == RingTypeOK' => SizeOK'
  BY SizeFacts, PTL

(* Two sequences over the same set are equal when they have the same length *)
(* and elements.                                                            *)
LEMMA SameSequence ==
  ASSUME NEW S, NEW s \in Seq(S), NEW u \in Seq(S), Len(s) = Len(u),
         \A i \in 1..Len(s) : s[i] = u[i]
  PROVE  s = u
  OBVIOUS

(* The producer writes a slot that holds no item of the contents.           *)
LEMMA WriteKeepsContents ==
  ASSUME RingInv, RingInv', PushWrite
  PROVE  Contents' = Contents
<1>1. Size' = Size /\ head' = head /\ tail' = tail
  BY DEF PushWrite, Size
<1>2. \A i \in 1..Size : Contents'[i] = Contents[i]
  BY <1>1, SizeFacts, SizeFactsNext, CapacityAssumption
     DEF SizeOK, PushWrite, RingInv, RingTypeOK, Wrap, Slots
<1>3. /\ Contents \in Seq(Items \cup {NoItem}) /\ Len(Contents) = Size
      /\ Contents' \in Seq(Items \cup {NoItem}) /\ Len(Contents') = Size'
  BY SizeFacts, SizeFactsNext DEF SizeOK, RingInv
<1> QED BY <1>1, <1>2, <1>3, SameSequence

LEMMA PublishAppends ==
  ASSUME RingInv, RingInv', PushPublish
  PROVE  /\ Len(Contents) < Capacity - 1
         /\ Contents' = Append(Contents, item)
<1> USE CapacityAssumption
<1>1. /\ Size < Capacity - 1 /\ Len(Contents) = Size
      /\ item \in Items /\ buffer[tail] = item
  BY SizeFacts DEF SizeOK, RingInv, ProducerInv, PushPublish
<1>2. head' = head /\ buffer' = buffer /\ tail' = Wrap(tail + 1) /\ tail' \in Slots
  BY FollowingIsWrap DEF PushPublish, RingInv, RingTypeOK
<1>3. Size' = Size + 1
  BY <1>1, <1>2 DEF RingInv, RingTypeOK, Size, Wrap, Slots
<1>4. tail = Wrap(head + (Size + 1) - 1)
  BY DEF RingInv, RingTypeOK, Size, Wrap, Slots
<1>5. /\ Contents \in Seq(Items \cup {NoItem})
      /\ Contents' \in Seq(Items \cup {NoItem}) /\ Len(Contents') = Size'
  BY SizeFacts, SizeFactsNext DEF SizeOK, RingInv
<1>6. \A i \in 1..(Size + 1) : Contents'[i] = buffer[Wrap(head + i - 1)]
  BY <1>2, <1>3, SizeFactsNext DEF SizeOK, RingInv, Wrap
<1>7. \A i \in 1..Size : Contents[i] = buffer[Wrap(head + i - 1)]
  BY SizeFacts DEF SizeOK, RingInv
<1>8. Append(Contents, item) \in Seq(Items \cup {NoItem})
  BY <1>1, <1>5
<1>9. Len(Append(Contents, item)) = Size + 1 /\ Size \in Nat
  BY <1>1, <1>5, SizeFacts DEF SizeOK, RingInv
<1>10. \A i \in 1..(Size + 1) : Contents'[i] = Append(Contents, item)[i]
  <2>1. ASSUME NEW i \in 1..Size PROVE Contents'[i] = Append(Contents, item)[i]
    <3>1. Append(Contents, item)[i] = Contents[i]
      BY <1>1, <1>5, <1>9
    <3>2. i \in 1..(Size + 1)
      BY <1>9
    <3> QED BY <1>6, <1>7, <3>1, <3>2
  <2>2. Contents'[Size + 1] = Append(Contents, item)[Size + 1]
    <3>1. Append(Contents, item)[Size + 1] = item
      BY <1>1, <1>5, <1>9
    <3>2. Size + 1 \in 1..(Size + 1)
      BY <1>9
    <3> QED BY <1>1, <1>4, <1>6, <3>1, <3>2
  <2>3. \A i \in 1..(Size + 1) : i \in 1..Size \/ i = Size + 1
    BY <1>9
  <2> QED BY <2>1, <2>2, <2>3
<1> QED BY <1>1, <1>3, <1>5, <1>8, <1>9, <1>10, SameSequence

LEMMA ReleaseRemovesHead ==
  ASSUME RingInv, RingInv', PopRelease
  PROVE  /\ Contents # <<>>
         /\ copy = Head(Contents)
         /\ Contents' = Tail(Contents)
<1> USE CapacityAssumption
<1>1. /\ Size >= 1 /\ Size \in Nat /\ Len(Contents) = Size
      /\ Contents \in Seq(Items \cup {NoItem})
      /\ Contents' \in Seq(Items \cup {NoItem}) /\ Len(Contents') = Size'
  BY SizeFacts, SizeFactsNext DEF SizeOK, RingInv, ConsumerInv, PopRelease
<1>2. tail' = tail /\ buffer' = buffer /\ head' = Wrap(head + 1) /\ head' \in Slots
  BY FollowingIsWrap DEF PopRelease, RingInv, RingTypeOK
<1>3. Size' = Size - 1
  BY <1>1, <1>2 DEF RingInv, RingTypeOK, Size, Wrap, Slots
<1>4. Contents # <<>> /\ copy = Head(Contents)
  <2>1. Contents[1] = buffer[Wrap(head + 1 - 1)] /\ Wrap(head + 1 - 1) = head
    BY <1>1, SizeFacts DEF SizeOK, RingInv, RingTypeOK, Wrap, Slots
  <2> QED BY <1>1, <2>1 DEF RingInv, ConsumerInv, PopRelease
<1>5. \A i \in 1..(Size - 1) : Contents'[i] = buffer[Wrap(Wrap(head + 1) + i - 1)]
  BY <1>1, <1>2, <1>3, SizeFactsNext DEF SizeOK, RingInv, Wrap
<1>6. \A i \in 1..(Size - 1) : /\ Contents[i + 1] = buffer[Wrap(head + (i + 1) - 1)]
                               /\ Wrap(Wrap(head + 1) + i - 1) = Wrap(head + (i + 1) - 1)
  BY <1>1, SizeFacts DEF SizeOK, RingInv, RingTypeOK, Wrap, Slots
<1>7. /\ Tail(Contents) \in Seq(Items \cup {NoItem})
      /\ Len(Tail(Contents)) = Size - 1
      /\ \A i \in 1..(Size - 1) : Tail(Contents)[i] = Contents[i + 1]
  BY <1>1, <1>4
<1>8. \A i \in 1..(Size - 1) : Contents'[i] = Tail(Contents)[i]
  BY <1>5, <1>6, <1>7
<1> QED BY <1>1, <1>3, <1>4, <1>7, <1>8, SameSequence

LEMMA FifoInit == RingInit => Fifo!Init
<1> SUFFICES ASSUME RingInit PROVE Fifo!Init
  OBVIOUS
<1>1. RingTypeOK
  BY RingInvInit DEF RingInv
<1>2. Size = 0 /\ Contents \in Seq(Items \cup {NoItem}) /\ Len(Contents) = Size
  BY <1>1, SizeFacts DEF SizeOK, RingInit
<1> QED BY <1>2 DEF Fifo!Init, RingInit

(* An action that leaves the indices, the slots and the answers alone is    *)
(* invisible to the FIFO.                                                   *)
LEMMA Invisible ==
  UNCHANGED <<buffer, head, tail, pushed, popped>> => UNCHANGED Fifo!vars
  BY DEF Fifo!vars, Contents, Size

LEMMA FifoStep == RingInv /\ RingInv' /\ [RingNext]_ringVars => [Fifo!Next]_(Fifo!vars)
<1> SUFFICES ASSUME RingInv, RingInv', [RingNext]_ringVars PROVE [Fifo!Next]_(Fifo!vars)
  OBVIOUS
<1>1. ASSUME NEW x \in Items, PushCall(x) PROVE UNCHANGED Fifo!vars
  BY <1>1, Invisible DEF PushCall, consumer
<1>2. CASE PushTest
  <2>1. Contents' = Contents
    BY <1>2 DEF PushTest, Contents, Size
  <2>2. CASE Following(tail) = head
    <3>1. Len(Contents) = Capacity - 1
      BY <2>2, SizeFacts DEF SizeOK, RingInv
    <3>2. Fifo!PushFull
      BY <1>2, <2>1, <2>2, <3>1 DEF Fifo!PushFull, PushTest, consumer
    <3> QED BY <3>2 DEF Fifo!Next
  <2>3. CASE Following(tail) # head
    BY <1>2, <2>3, Invisible DEF PushTest, consumer
  <2> QED BY <2>2, <2>3
<1>3. CASE PushWrite
  BY <1>3, WriteKeepsContents DEF PushWrite, consumer, Fifo!vars
<1>4. CASE PushPublish
  <2>1. Fifo!PushOk(item)
    BY <1>4, PublishAppends DEF Fifo!PushOk, PushPublish, consumer
  <2>2. item \in Items
    BY <1>4 DEF RingInv, ProducerInv, PushPublish
  <2> QED BY <2>1, <2>2 DEF Fifo!Next
<1>5. CASE PopCall
  BY <1>5, Invisible DEF PopCall, producer
<1>6. CASE PopTest
  <2>1. Contents' = Contents
    BY <1>6 DEF PopTest, Contents, Size
  <2>2. CASE head = tail
    <3>1. Contents = <<>>
      BY <2>2, SizeFacts DEF SizeOK, RingInv
    <3>2. Fifo!PopEmpty
      BY <1>6, <2>1, <2>2, <3>1 DEF Fifo!PopEmpty, PopTest, producer
    <3> QED BY <3>2 DEF Fifo!Next
  <2>3. CASE head # tail
    BY <1>6, <2>3, Invisible DEF PopTest, producer
  <2> QED BY <2>2, <2>3
<1>7. CASE PopRead
  BY <1>7, Invisible DEF PopRead, producer
<1>8. CASE PopRelease
  <2>1. Fifo!PopOk
    BY <1>8, ReleaseRemovesHead DEF Fifo!PopOk, PopRelease, producer
  <2> QED BY <2>1 DEF Fifo!Next
<1>9. CASE UNCHANGED ringVars
  BY <1>9, Invisible DEF ringVars, producer, consumer
<1> QED
  BY <1>1, <1>2, <1>3, <1>4, <1>5, <1>6, <1>7, <1>8, <1>9
     DEF RingNext, Producer, Consumer

(* LocklessRingBuffer of any power-of-two capacity is a FIFO of one item    *)
(* less for one producer and one consumer.                                  *)
THEOREM RingImplementsFifo == RingSpec => ImplementsFifo
<1>1. RingSpec => []RingInv /\ RingInit /\ [][RingNext]_ringVars
  BY RingInvariant, PTL DEF RingSpec
<1> QED BY <1>1, FifoInit, FifoStep, PTL DEF ImplementsFifo, Fifo!Spec

-----------------------------------------------------------------------------
(* The comparator over the FIFOs.                                          *)

(* A record is in the comparator's hands while it pushes, a row is in the  *)
(* worker's while it inserts.                                              *)
HandsInv ==
  /\ IF rpc = "push" THEN \E e \in Event : record = <<e>> ELSE record = <<>>
  /\ IF dpc = "insert" THEN \E e \in Event : row = <<e>> ELSE row = <<>>

(* The flag is only cleared when the server has ended, and it only ends    *)
(* before its first event: what is pushed while the process stops, and     *)
(* would be dropped on a full ring, does not exist.                        *)
StopInv ==
  /\ ~running => spc = "done"
  /\ spc \in {"setup", "done"} => arrived = 0

(* Nothing is later than the last arrival, and what the worker gave up is  *)
(* earlier than everything it has not yet done.                            *)
Behind == Members(row) \cup Members(sync) \cup Members(record) \cup Members(ingest)

KnownInv ==
  /\ \A e \in Members(table) \cup Behind \cup overflowed \cup refused : e.n <= arrived
  /\ \A e \in refused, x \in Behind : e.n < x.n

Inv ==
  /\ TypeOK /\ HandsInv /\ StopInv /\ KnownInv
  /\ ArrivalOrder /\ EveryEventAccounted /\ ActuatedExactly

-----------------------------------------------------------------------------
(* Sequences of events by their members and their order.                   *)

Ordered(s) == \A i, j \in DOMAIN s : i < j => s[i].n < s[j].n
Before(s, t) == \A x \in Members(s), y \in Members(t) : x.n < y.n
Join(s, t) == s \o t

LEMMA JoinType ==
  ASSUME NEW a \in Seq(Event), NEW b \in Seq(Event)
  PROVE  Join(a, b) \in Seq(Event)
  BY DEF Join

LEMMA JoinPositions ==
  ASSUME NEW a \in Seq(Event), NEW b \in Seq(Event)
  PROVE  \E m, n \in Nat :
           /\ DOMAIN a = 1..m /\ DOMAIN b = 1..n /\ DOMAIN Join(a, b) = 1..(m + n)
           /\ \A k \in 1..m : Join(a, b)[k] = a[k]
           /\ \A k \in 1..n : Join(a, b)[m + k] = b[k]
<1>1. Len(a) \in Nat /\ Len(b) \in Nat
  OBVIOUS
<1> SUFFICES /\ DOMAIN a = 1..Len(a) /\ DOMAIN b = 1..Len(b)
             /\ DOMAIN Join(a, b) = 1..(Len(a) + Len(b))
             /\ \A k \in 1..Len(a) : Join(a, b)[k] = a[k]
             /\ \A k \in 1..Len(b) : Join(a, b)[Len(a) + k] = b[k]
  BY <1>1
<1> QED
  BY DEF Join

LEMMA JoinMembers ==
  ASSUME NEW a \in Seq(Event), NEW b \in Seq(Event)
  PROVE  Members(Join(a, b)) = Members(a) \cup Members(b)
<1>1. PICK m \in Nat, n \in Nat :
        /\ DOMAIN a = 1..m /\ DOMAIN b = 1..n /\ DOMAIN Join(a, b) = 1..(m + n)
        /\ \A k \in 1..m : Join(a, b)[k] = a[k]
        /\ \A k \in 1..n : Join(a, b)[m + k] = b[k]
  BY JoinPositions
<1>2. \A k \in 1..(m + n) : k \in 1..m \/ (k - m \in 1..n /\ k = m + (k - m))
  OBVIOUS
<1>3. \A k \in 1..n : m + k \in 1..(m + n)
  OBVIOUS
<1>4. \A k \in 1..m : k \in 1..(m + n)
  OBVIOUS
<1>5. ASSUME NEW x \in Members(Join(a, b)) PROVE x \in Members(a) \cup Members(b)
  <2>1. PICK k \in 1..(m + n) : x = Join(a, b)[k]
    BY <1>1, <1>5 DEF Members
  <2>2. CASE k \in 1..m
    BY <1>1, <2>1, <2>2 DEF Members
  <2>3. CASE k - m \in 1..n /\ k = m + (k - m)
    BY <1>1, <2>1, <2>3 DEF Members
  <2> QED BY <1>2, <2>2, <2>3
<1>6. Members(a) \subseteq Members(Join(a, b))
  BY <1>1, <1>4 DEF Members
<1>7. Members(b) \subseteq Members(Join(a, b))
  BY <1>1, <1>3 DEF Members
<1> QED BY <1>5, <1>6, <1>7

LEMMA JoinOrdered ==
  ASSUME NEW a \in Seq(Event), NEW b \in Seq(Event)
  PROVE  Ordered(Join(a, b)) <=> Ordered(a) /\ Ordered(b) /\ Before(a, b)
<1>1. PICK m \in Nat, n \in Nat :
        /\ DOMAIN a = 1..m /\ DOMAIN b = 1..n /\ DOMAIN Join(a, b) = 1..(m + n)
        /\ \A k \in 1..m : Join(a, b)[k] = a[k]
        /\ \A k \in 1..n : Join(a, b)[m + k] = b[k]
  BY JoinPositions
<1>2. ASSUME Ordered(Join(a, b)) PROVE Ordered(a) /\ Ordered(b) /\ Before(a, b)
  <2>1. \A k \in 1..m : k \in 1..(m + n)
    OBVIOUS
  <2>2. Ordered(a)
    BY <1>1, <1>2, <2>1 DEF Ordered
  <2>3. ASSUME NEW k \in 1..n, NEW l \in 1..n, k < l PROVE b[k].n < b[l].n
    <3>1. m + k \in 1..(m + n) /\ m + l \in 1..(m + n) /\ m + k < m + l
      BY <2>3
    <3> QED BY <1>1, <1>2, <3>1 DEF Ordered
  <2>4. ASSUME NEW k \in 1..m, NEW l \in 1..n PROVE a[k].n < b[l].n
    <3>1. k \in 1..(m + n) /\ m + l \in 1..(m + n) /\ k < m + l
      OBVIOUS
    <3> QED BY <1>1, <1>2, <3>1 DEF Ordered
  <2> QED BY <1>1, <2>2, <2>3, <2>4 DEF Ordered, Before, Members
<1>3. ASSUME Ordered(a), Ordered(b), Before(a, b) PROVE Ordered(Join(a, b))
  <2> SUFFICES ASSUME NEW k \in 1..(m + n), NEW l \in 1..(m + n), k < l
               PROVE  Join(a, b)[k].n < Join(a, b)[l].n
    BY <1>1 DEF Ordered
  <2>1. CASE l \in 1..m
    <3>1. k \in 1..m
      BY <2>1
    <3> QED BY <1>1, <1>3, <2>1, <3>1 DEF Ordered
  <2>2. CASE k \notin 1..m
    <3>1. /\ k - m \in 1..n /\ l - m \in 1..n /\ k - m < l - m
          /\ m + (k - m) = k /\ m + (l - m) = l
      BY <2>2
    <3>2. b[k - m].n < b[l - m].n
      BY <1>1, <1>3, <3>1 DEF Ordered
    <3>3. Join(a, b)[k] = b[k - m] /\ Join(a, b)[l] = b[l - m]
      BY <1>1, <3>1
    <3> QED BY <3>2, <3>3
  <2>3. CASE k \in 1..m /\ l \notin 1..m
    <3>1. l - m \in 1..n /\ m + (l - m) = l
      BY <2>3
    <3> QED BY <1>1, <1>3, <2>3, <3>1 DEF Before, Members
  <2> QED BY <2>1, <2>2, <2>3
<1> QED BY <1>2, <1>3

LEMMA SingleEvent ==
  ASSUME NEW e \in Event
  PROVE  <<e>> \in Seq(Event) /\ Members(<<e>>) = {e} /\ Ordered(<<e>>)
  BY DEF Members, Ordered

LEMMA NoEvent == <<>> \in Seq(Event) /\ Members(<<>>) = {} /\ Ordered(<<>>)
  BY DEF Members, Ordered

LEMMA HeadTailEvents ==
  ASSUME NEW s \in Seq(Event), s # <<>>
  PROVE  /\ Head(s) \in Event /\ Tail(s) \in Seq(Event)
         /\ Len(Tail(s)) \in Nat /\ Len(Tail(s)) <= Len(s)
         /\ s = Join(<<Head(s)>>, Tail(s))
  BY DEF Join

(* Taking the first event off a queue.                                     *)
LEMMA TakeFirst ==
  ASSUME NEW s \in Seq(Event), s # <<>>
  PROVE  /\ Members(s) = {Head(s)} \cup Members(Tail(s))
         /\ Ordered(s) => Ordered(Tail(s)) /\ \A y \in Members(Tail(s)) : Head(s).n < y.n
<1> DEFINE h == Head(s)
           t == Tail(s)
<1>1. h \in Event /\ t \in Seq(Event) /\ s = Join(<<h>>, t)
  BY HeadTailEvents
<1> HIDE DEF h, t
<1>2. <<h>> \in Seq(Event) /\ Members(<<h>>) = {h}
  BY <1>1, SingleEvent
<1>3. Members(s) = {h} \cup Members(t)
  BY <1>1, <1>2, JoinMembers
<1>4. Ordered(s) => Ordered(t) /\ \A y \in Members(t) : h.n < y.n
  BY <1>1, <1>2, JoinOrdered DEF Before
<1> QED BY <1>3, <1>4 DEF h, t

(* Adding an event at the end of a queue.                                  *)
Add(s, e) == Append(s, e)

LEMMA AppendIsJoin ==
  ASSUME NEW s \in Seq(Event), NEW e \in Event
  PROVE  s \o <<e>> = Add(s, e)
  BY DEF Add

LEMMA AddLast ==
  ASSUME NEW s \in Seq(Event), NEW e \in Event
  PROVE  /\ Add(s, e) \in Seq(Event)
         /\ Len(Add(s, e)) = Len(s) + 1
         /\ Members(Add(s, e)) = Members(s) \cup {e}
         /\ Ordered(Add(s, e)) <=> Ordered(s) /\ \A x \in Members(s) : x.n < e.n
<1>1. Add(s, e) = Join(s, <<e>>) /\ Add(s, e) \in Seq(Event) /\ Len(Add(s, e)) = Len(s) + 1
  BY DEF Join, Add
<1> HIDE DEF Add
<1>2. <<e>> \in Seq(Event) /\ Members(<<e>>) = {e} /\ Ordered(<<e>>)
  BY SingleEvent
<1> DEFINE last == <<e>>
<1> HIDE DEF last
<1>3. /\ Add(s, e) = Join(s, last) /\ last \in Seq(Event)
      /\ Members(last) = {e} /\ Ordered(last)
  BY <1>1, <1>2 DEF last
<1>4. Members(Add(s, e)) = Members(s) \cup {e}
  BY <1>3, JoinMembers
<1>5. Ordered(Add(s, e)) <=> Ordered(s) /\ \A x \in Members(s) : x.n < e.n
  BY <1>3, JoinOrdered DEF Before
<1> QED BY <1>1, <1>4, <1>5

-----------------------------------------------------------------------------
(* The pipeline is in order when its five parts are, one behind the other. *)

InOrder ==
  /\ Ordered(table) /\ Ordered(row) /\ Ordered(sync) /\ Ordered(record) /\ Ordered(ingest)
  /\ Before(table, row) /\ Before(table, sync) /\ Before(table, record) /\ Before(table, ingest)
  /\ Before(row, sync) /\ Before(row, record) /\ Before(row, ingest)
  /\ Before(sync, record) /\ Before(sync, ingest)
  /\ Before(record, ingest)

Compared == Members(table) \cup Members(row) \cup Members(sync) \cup Members(record)

LEMMA PipelineParts ==
  TypeOK => /\ ArrivalOrder <=> InOrder
            /\ Members(Pipeline) = Members(table) \cup Behind
            /\ Members(table \o row \o sync \o record) = Compared
<1> SUFFICES ASSUME TypeOK
             PROVE  /\ ArrivalOrder <=> InOrder
                    /\ Members(Pipeline) = Members(table) \cup Behind
                    /\ Members(table \o row \o sync \o record) = Compared
  OBVIOUS
<1> DEFINE p2 == Join(table, row)
           p3 == Join(p2, sync)
           p4 == Join(p3, record)
           p5 == Join(p4, ingest)
<1>1. p5 = Pipeline /\ p4 = table \o row \o sync \o record
  BY DEF Join, Pipeline
<1>2. /\ table \in Seq(Event) /\ row \in Seq(Event) /\ sync \in Seq(Event)
      /\ record \in Seq(Event) /\ ingest \in Seq(Event)
  BY DEF TypeOK
<1>3. p2 \in Seq(Event) /\ p3 \in Seq(Event) /\ p4 \in Seq(Event)
  BY <1>2, JoinType
<1> HIDE DEF p2, p3, p4, p5
<1>4. Members(p2) = Members(table) \cup Members(row)
  BY <1>2, JoinMembers DEF p2
<1>5. Members(p3) = Members(p2) \cup Members(sync)
  BY <1>2, <1>3, JoinMembers DEF p3
<1>6. Members(p4) = Members(p3) \cup Members(record)
  BY <1>2, <1>3, JoinMembers DEF p4
<1>7. Members(p5) = Members(p4) \cup Members(ingest)
  BY <1>2, <1>3, JoinMembers DEF p5
<1>8. Ordered(p2) <=> Ordered(table) /\ Ordered(row) /\ Before(table, row)
  BY <1>2, JoinOrdered DEF p2
<1>9. Ordered(p3) <=> Ordered(p2) /\ Ordered(sync) /\ Before(p2, sync)
  BY <1>2, <1>3, JoinOrdered DEF p3
<1>10. Ordered(p4) <=> Ordered(p3) /\ Ordered(record) /\ Before(p3, record)
  BY <1>2, <1>3, JoinOrdered DEF p4
<1>11. Ordered(p5) <=> Ordered(p4) /\ Ordered(ingest) /\ Before(p4, ingest)
  BY <1>2, <1>3, JoinOrdered DEF p5
<1>12. Before(p2, sync) <=> Before(table, sync) /\ Before(row, sync)
  BY <1>4 DEF Before
<1>13. Before(p3, record) <=> Before(table, record) /\ Before(row, record) /\ Before(sync, record)
  BY <1>4, <1>5 DEF Before
<1>14. Before(p4, ingest) <=> /\ Before(table, ingest) /\ Before(row, ingest)
                             /\ Before(sync, ingest) /\ Before(record, ingest)
  BY <1>4, <1>5, <1>6 DEF Before
<1>15. ArrivalOrder <=> Ordered(p5)
  BY <1>1 DEF ArrivalOrder, Ordered
<1>16. ArrivalOrder <=> InOrder
  BY <1>8, <1>9, <1>10, <1>11, <1>12, <1>13, <1>14, <1>15 DEF InOrder
<1> QED BY <1>1, <1>4, <1>5, <1>6, <1>7, <1>16 DEF Behind, Compared

(* The same invariant, stated part by part.                                *)
Parts ==
  /\ HandsInv /\ StopInv /\ KnownInv /\ InOrder
  /\ \A n \in 1..arrived :
       \E e \in Members(table) \cup Behind \cup overflowed \cup refused : e.n = n
  /\ LossTraced
  /\ Ordered(actuated)
  /\ Members(actuated) = {e \in Compared \cup refused : e.exceeds}

LEMMA InvParts == TypeOK => (Inv <=> Parts)
  BY PipelineParts
     DEF Inv, Parts, EveryEventAccounted, EventsKnown, ActuatedExactly, Ordered

LEMMA SameTrace ==
  ASSUME LossTraced, UNCHANGED <<link, table, refused, reported>>
  PROVE  LossTraced'
  BY DEF LossTraced, Taken

-----------------------------------------------------------------------------
(* Each step, as a step of the parts.                                      *)

LEMMA EventParts ==
  TypeOK => /\ Members(table) \cup Behind \cup overflowed \cup refused \subseteq Event
            /\ \A e \in Event : e.n \in Nat
<1>1. \A s \in Seq(Event) : Members(s) \subseteq Event
  BY DEF Members
<1>2. \A e \in Event : e.n \in Nat
  BY ComparatorAssumption DEF Event
<1> QED BY <1>1, <1>2 DEF TypeOK, Behind

LEMMA InitParts == Init => TypeOK /\ Parts
<1> SUFFICES ASSUME Init PROVE TypeOK /\ Parts
  OBVIOUS
<1> USE ComparatorAssumption, NoEvent DEF Init
<1>1. TypeOK
  BY DEF TypeOK
<1>2. HandsInv /\ StopInv
  BY DEF HandsInv, StopInv
<1>3. KnownInv /\ InOrder
  BY DEF KnownInv, InOrder, Behind, Before
<1>4. Ordered(actuated) /\ Members(actuated) = {e \in Compared \cup refused : e.exceeds}
  BY DEF Compared
<1>5. LossTraced
  BY DEF LossTraced
<1> QED BY <1>1, <1>2, <1>3, <1>4, <1>5 DEF Parts

LEMMA ArriveParts ==
  ASSUME TypeOK, Parts, NEW r \in Readings, ServerLine(r)
  PROVE  TypeOK' /\ Parts'
<1> DEFINE e == [n |-> arrived + 1, at |-> r.at, exceeds |-> r.exceeds]
<1>1. e \in Event /\ e.n = arrived + 1 /\ arrived + 1 \in 1..MaxEvents
  BY ComparatorAssumption DEF ServerLine, Event, TypeOK
<1>2. /\ spc = "recv" /\ arrived' = arrived + 1
      /\ \/ Len(ingest) < RingBound /\ ingest' = Add(ingest, e) /\ UNCHANGED overflowed
         \/ overflowed' = overflowed \cup {e} /\ UNCHANGED ingest
      /\ UNCHANGED <<running, mpc, spc, comparator, sync, worker>>
  BY DEF ServerLine, Add
<1> HIDE DEF e
<1>3. ingest \in Seq(Event) /\ Len(ingest) \in Nat /\ arrived \in Nat
  BY DEF TypeOK
<1>4. \A x \in Members(table) \cup Behind \cup overflowed \cup refused : x.n < e.n
  BY <1>1, <1>3, EventParts DEF Parts, KnownInv
<1>5. TypeOK'
  <2>1. /\ ingest' \in Seq(Event) /\ Len(ingest') <= RingBound
        /\ overflowed' \subseteq Event /\ arrived' \in 0..MaxEvents
    <3>1. CASE UNCHANGED ingest
      BY <1>1, <1>2, <1>3, <3>1 DEF TypeOK
    <3>2. CASE Len(ingest) < RingBound /\ ingest' = Add(ingest, e) /\ UNCHANGED overflowed
      <4>1. ingest' \in Seq(Event) /\ Len(ingest') = Len(ingest) + 1
        BY <1>1, <1>3, <3>2, AddLast
      <4>2. Len(ingest') <= RingBound
        BY <1>3, <3>2, <4>1, ComparatorAssumption
      <4> QED BY <1>1, <1>2, <3>2, <4>1, <4>2 DEF TypeOK
    <3> QED BY <1>2, <3>1, <3>2
  <2> QED BY <1>2, <2>1 DEF TypeOK, comparator, worker
<1>6. /\ Members(ingest') \subseteq Members(ingest) \cup {e}
      /\ Members(ingest) \subseteq Members(ingest')
      /\ e \in Members(ingest') \cup overflowed'
      /\ Ordered(ingest')
  <2>1. Ordered(ingest) /\ (\A x \in Members(ingest) : x.n < e.n)
    BY <1>4 DEF Parts, InOrder, Behind
  <2>2. CASE UNCHANGED ingest /\ overflowed' = overflowed \cup {e}
    BY <2>1, <2>2
  <2>3. CASE ingest' = Add(ingest, e)
    BY <1>1, <1>3, <2>1, <2>3, AddLast
  <2> QED BY <1>2, <2>2, <2>3
<1>7. HandsInv' /\ StopInv'
  BY <1>2 DEF Parts, HandsInv, StopInv, comparator, worker
<1>8. /\ UNCHANGED <<table, row, sync, record, refused, actuated>>
      /\ Behind' \subseteq Behind \cup {e} /\ Behind \subseteq Behind'
      /\ Compared' = Compared
  BY <1>2, <1>6 DEF Behind, Compared, comparator, worker
<1>9. KnownInv'
  BY <1>1, <1>2, <1>3, <1>4, <1>8, EventParts DEF Parts, KnownInv
<1>10. InOrder'
  BY <1>4, <1>6, <1>8 DEF Parts, InOrder, Before, Behind
<1>11. \A n \in 1..arrived' :
         \E x \in (Members(table) \cup Behind \cup overflowed \cup refused)' : x.n = n
  BY <1>1, <1>2, <1>3, <1>6, <1>8 DEF Parts, Behind
<1>12. LossTraced'
  BY <1>2, SameTrace DEF Parts, worker
<1> QED BY <1>5, <1>7, <1>8, <1>9, <1>10, <1>11, <1>12 DEF Parts

LEMMA ComparePopParts ==
  ASSUME TypeOK, Parts, ComparePop
  PROVE  TypeOK' /\ Parts'
<1> DEFINE h == Head(ingest)
<1>1. /\ ingest \in Seq(Event) /\ ingest # <<>> /\ rpc = "pop" /\ record = <<>>
      /\ h \in Event /\ ingest' = Tail(ingest) /\ ingest' \in Seq(Event)
      /\ Len(ingest') <= RingBound
      /\ record' = <<h>> /\ rpc' = "push"
      /\ actuated \in Seq(Event)
      /\ actuated' = IF h.exceeds THEN Add(actuated, h) ELSE actuated
      /\ UNCHANGED <<running, mpc, server, sync, worker>>
  BY HeadTailEvents, ComparatorAssumption
     DEF ComparePop, Trigger, Add, TypeOK, Parts, HandsInv
<1>2. /\ Members(ingest) = {h} \cup Members(ingest')
      /\ Ordered(ingest') /\ \A y \in Members(ingest') : h.n < y.n
  BY <1>1, TakeFirst DEF Parts, InOrder
<1> HIDE DEF h
<1>3. record' \in Seq(Event) /\ Members(record') = {h} /\ Ordered(record') /\ Members(record) = {}
  BY <1>1, SingleEvent, NoEvent
<1>4. \A x \in Compared \cup refused : x.n < h.n
  BY <1>2, <1>3 DEF Parts, InOrder, KnownInv, Before, Behind, Compared
<1>5. /\ actuated' \in Seq(Event) /\ Ordered(actuated')
      /\ Members(actuated') = Members(actuated) \cup {x \in {h} : x.exceeds}
  <2>1. \A x \in Members(actuated) : x.n < h.n
    BY <1>4 DEF Parts
  <2>2. CASE h.exceeds
    <3>1. actuated' = Add(actuated, h) /\ actuated \in Seq(Event) /\ h \in Event
      BY <1>1, <2>2
    <3>2. Ordered(actuated)
      BY DEF Parts
    <3>3. /\ actuated' \in Seq(Event) /\ Ordered(actuated')
          /\ Members(actuated') = Members(actuated) \cup {h}
      BY <2>1, <3>1, <3>2, AddLast
    <3>4. {x \in {h} : x.exceeds} = {h}
      BY <2>2
    <3> QED BY <3>3, <3>4
  <2>3. CASE ~h.exceeds
    BY <1>1, <2>3 DEF Parts
  <2> QED BY <2>2, <2>3
<1>6. TypeOK'
  BY <1>1, <1>3, <1>5 DEF TypeOK, server, worker
<1>7. HandsInv' /\ StopInv'
  BY <1>1 DEF Parts, HandsInv, StopInv, server, worker
<1>8. /\ UNCHANGED <<table, row, sync, refused, overflowed, arrived>>
      /\ Behind' = Behind /\ Compared' = Compared \cup {h}
  BY <1>1, <1>2, <1>3 DEF Behind, Compared, server, worker
<1>9. KnownInv'
  BY <1>8 DEF Parts, KnownInv
<1>10. InOrder'
  BY <1>2, <1>3, <1>8 DEF Parts, InOrder, Before
<1>12. LossTraced'
  BY <1>1, SameTrace DEF Parts, worker
<1> QED BY <1>5, <1>6, <1>7, <1>8, <1>9, <1>10, <1>12 DEF Parts

(* The record moves to the sync queue.  A full ring drops it only while    *)
(* the process stops, and then there is no record.                         *)
LEMMA ComparePushParts ==
  ASSUME TypeOK, Parts, ComparePush
  PROVE  TypeOK' /\ Parts'
<1>1. PICK e \in Event : record = <<e>>
  BY DEF ComparePush, Parts, HandsInv
<1>2. Members(record) = {e}
  BY <1>1, SingleEvent
<1>3. running /\ Len(sync) < RingBound
  <2>1. e.n \in 1..MaxEvents /\ e.n <= arrived
    BY <1>2 DEF Event, Parts, KnownInv, Behind
  <2>2. running
    BY <2>1, ComparatorAssumption DEF Parts, StopInv, TypeOK
  <2> QED BY <2>2 DEF ComparePush
<1>4. /\ rpc = "push" /\ rpc' = "loop" /\ record' = <<>> /\ sync' = Add(sync, e)
      /\ UNCHANGED <<running, mpc, server, ingest, actuated, worker>>
  BY <1>1, <1>3, AppendIsJoin DEF ComparePush, TypeOK
<1>5. /\ sync' \in Seq(Event) /\ Len(sync') <= RingBound
      /\ Members(sync') = Members(sync) \cup {e}
      /\ Ordered(sync')
  <2>1. sync \in Seq(Event) /\ Len(sync) \in Nat
    BY DEF TypeOK
  <2>2. sync' \in Seq(Event) /\ Len(sync') = Len(sync) + 1
    BY <1>4, <2>1, AddLast
  <2>3. \A x \in Members(sync) : x.n < e.n
    BY <1>2 DEF Parts, InOrder, Before
  <2>4. Members(sync') = Members(sync) \cup {e} /\ Ordered(sync')
    BY <1>4, <2>1, <2>3, AddLast DEF Parts, InOrder
  <2> QED BY <1>3, <2>1, <2>2, <2>4, ComparatorAssumption
<1>6. record' \in Seq(Event) /\ Members(record') = {} /\ Ordered(record')
  BY <1>4, NoEvent
<1>7. TypeOK'
  BY <1>4, <1>5, <1>6 DEF TypeOK, server, worker
<1>8. HandsInv' /\ StopInv'
  BY <1>4 DEF Parts, HandsInv, StopInv, server, worker
<1>9. /\ UNCHANGED <<table, row, ingest, refused, overflowed, arrived, actuated>>
      /\ Behind' = Behind /\ Compared' = Compared
  BY <1>2, <1>4, <1>5, <1>6 DEF Behind, Compared, server, worker
<1>10. KnownInv'
  BY <1>9 DEF Parts, KnownInv
<1>11. InOrder'
  BY <1>2, <1>5, <1>6, <1>9 DEF Parts, InOrder, Before
<1>12. LossTraced'
  BY <1>4, SameTrace DEF Parts, worker
<1> QED BY <1>7, <1>8, <1>9, <1>10, <1>11, <1>12 DEF Parts

LEMMA SyncPopParts ==
  ASSUME TypeOK, Parts, SyncPop
  PROVE  TypeOK' /\ Parts'
<1> DEFINE h == Head(sync)
<1>1. /\ sync \in Seq(Event) /\ sync # <<>> /\ dpc = "pop" /\ row = <<>>
      /\ h \in Event /\ sync' = Tail(sync) /\ sync' \in Seq(Event)
      /\ Len(sync') <= RingBound
      /\ row' = <<h>> /\ dpc' = "insert"
      /\ UNCHANGED <<running, mpc, server, ingest, comparator, link, table, refused,
                     reported>>
  BY HeadTailEvents, ComparatorAssumption DEF SyncPop, TypeOK, Parts, HandsInv
<1>2. /\ Members(sync) = {h} \cup Members(sync')
      /\ Ordered(sync') /\ \A y \in Members(sync') : h.n < y.n
  BY <1>1, TakeFirst DEF Parts, InOrder
<1> HIDE DEF h
<1>3. row' \in Seq(Event) /\ Members(row') = {h} /\ Ordered(row') /\ Members(row) = {}
  BY <1>1, SingleEvent, NoEvent
<1>4. TypeOK'
  BY <1>1, <1>3 DEF TypeOK, server, comparator
<1>5. HandsInv' /\ StopInv'
  BY <1>1 DEF Parts, HandsInv, StopInv, server, comparator
<1>6. /\ UNCHANGED <<table, record, ingest, refused, overflowed, arrived, actuated>>
      /\ Behind' = Behind /\ Compared' = Compared
  BY <1>1, <1>2, <1>3 DEF Behind, Compared, server, comparator
<1>7. KnownInv'
  BY <1>6 DEF Parts, KnownInv
<1>8. InOrder'
  BY <1>2, <1>3, <1>6 DEF Parts, InOrder, Before
<1>12. LossTraced'
  BY <1>1, SameTrace DEF Parts
<1> QED BY <1>4, <1>5, <1>6, <1>7, <1>8, <1>12 DEF Parts

(* The row leaves the worker's hands: into the table, or given up (a       *)
(* failed INSERT, a time that is taken), or both (its answer is lost).     *)
LEMMA RowLeavesParts ==
  ASSUME TypeOK, Parts, SyncInsert \/ SyncFail \/ SyncUnanswered
  PROVE  TypeOK' /\ Parts'
<1>1. PICK e \in Event : row = <<e>>
  BY DEF SyncInsert, SyncFail, SyncUnanswered, Parts, HandsInv
<1>2. Members(row) = {e} /\ row[1] = e /\ table \in Seq(Event) /\ table \o row = Add(table, e)
  BY <1>1, SingleEvent, AppendIsJoin DEF TypeOK
<1>3. /\ dpc = "insert" /\ dpc' = "loop" /\ row' = <<>>
      /\ link' \in {"up", "broken", "psql"}
      /\ \/ table' = Add(table, e) /\ UNCHANGED refused
         \/ refused' = refused \cup {e} /\ UNCHANGED table
         \/ table' = Add(table, e) /\ refused' = refused \cup {e}
      /\ \/ UNCHANGED reported
         \/ reported' = reported \cup {e} /\ refused' = refused \cup {e}
      /\ UNCHANGED <<running, mpc, server, ingest, comparator, sync>>
  <2>1. CASE SyncInsert
    BY <1>2, <2>1 DEF SyncInsert, Inserted, TypeOK
  <2>2. CASE SyncFail
    BY <1>2, <2>2 DEF SyncFail, Report, TypeOK
  <2>3. CASE SyncUnanswered
    BY <1>2, <2>3 DEF SyncUnanswered, Inserted, Report, TypeOK
  <2> QED BY <2>1, <2>2, <2>3
<1>4. row' \in Seq(Event) /\ Members(row') = {} /\ Ordered(row')
  BY <1>3, NoEvent
<1>5. /\ table' \in Seq(Event) /\ Ordered(table') /\ refused' \subseteq Event
      /\ Members(table) \subseteq Members(table')
      /\ Members(table') \subseteq Members(table) \cup {e}
      /\ Members(table') \cup refused' = Members(table) \cup {e} \cup refused
  <2>1. \A x \in Members(table) : x.n < e.n
    BY <1>2 DEF Parts, InOrder, Before
  <2>2. CASE table' = Add(table, e) /\ refused' \in {refused, refused \cup {e}}
    <3>1. Ordered(table) /\ refused \subseteq Event
      BY DEF Parts, InOrder, TypeOK
    <3>2. /\ table' \in Seq(Event) /\ Ordered(table')
          /\ Members(table') = Members(table) \cup {e}
      BY <1>2, <2>1, <2>2, <3>1, AddLast
    <3> QED BY <2>2, <3>1, <3>2
  <2>3. CASE refused' = refused \cup {e} /\ UNCHANGED table
    BY <1>2, <2>3 DEF Parts, InOrder, TypeOK
  <2> QED BY <1>3, <2>2, <2>3
<1>13. reported' \subseteq refused'
  BY <1>3 DEF TypeOK
<1>6. TypeOK'
  BY <1>3, <1>4, <1>5, <1>13 DEF TypeOK, server, comparator
<1>7. HandsInv' /\ StopInv'
  BY <1>3 DEF Parts, HandsInv, StopInv, server, comparator
<1>8. /\ UNCHANGED <<sync, record, ingest, overflowed, arrived, actuated>>
      /\ Behind = {e} \cup Behind'
      /\ Compared' \cup refused' = Compared \cup refused
      /\ refused' \subseteq refused \cup {e}
      /\ \A x \in Behind' : e.n < x.n
  <2>1. /\ UNCHANGED <<sync, record, ingest, overflowed, arrived, actuated>>
        /\ Behind = {e} \cup Behind'
        /\ refused' \subseteq refused \cup {e}
    BY <1>2, <1>3, <1>4 DEF Behind, server, comparator
  <2>2. Compared' \cup refused' = Compared \cup refused
    BY <1>2, <1>4, <1>5, <2>1 DEF Compared
  <2>3. \A x \in Behind' : e.n < x.n
    BY <1>2, <1>4, <2>1 DEF Behind, Parts, InOrder, Before
  <2> QED BY <2>1, <2>2, <2>3
<1>9. KnownInv'
  BY <1>5, <1>8 DEF Parts, KnownInv
<1>10. InOrder'
  BY <1>2, <1>4, <1>5, <1>8 DEF Parts, InOrder, Before
<1>11. \A n \in 1..arrived' :
         \E x \in (Members(table) \cup Behind \cup overflowed \cup refused)' : x.n = n
  BY <1>5, <1>8 DEF Parts
<1>12. LossTraced'
  <2> SUFFICES ASSUME link' # "psql", NEW x \in refused' PROVE x \in reported' \/ Taken(x.at)'
    BY DEF LossTraced
  <2>1. link # "psql"
    BY DEF SyncInsert, SyncFail, SyncUnanswered
  <2>2. CASE x \in refused
    BY <1>3, <1>5, <2>1, <2>2 DEF Parts, LossTraced, Taken
  <2>3. CASE x \notin refused
    <3>1. x = e
      BY <1>3, <2>3
    <3>2. CASE SyncInsert
      <4>1. Taken(e.at)
        BY <1>2, <2>3, <3>2 DEF SyncInsert
      <4> QED BY <1>5, <3>1, <4>1 DEF Taken
    <3>3. CASE SyncFail \/ SyncUnanswered
      BY <1>2, <2>1, <3>1, <3>3 DEF SyncFail, SyncUnanswered, Report
    <3> QED BY <3>2, <3>3
  <2> QED BY <2>2, <2>3
<1> QED BY <1>6, <1>7, <1>8, <1>9, <1>10, <1>11, <1>12 DEF Parts

(* The steps that move no event.                                           *)
LEMMA QuietParts ==
  ASSUME TypeOK, Parts,
         \/ ServerSetup \/ ServerAccept \/ ServerDisconnect
         \/ CompareLoop \/ CompareIdle \/ SyncLoop \/ SyncIdle
         \/ JoinServer \/ JoinThreads \/ UNCHANGED vars
  PROVE  TypeOK' /\ Parts'
<1> USE DEF ServerSetup, ServerAccept, ServerDisconnect, CompareLoop, CompareIdle,
            SyncLoop, SyncIdle, JoinServer, JoinThreads, vars, server, comparator, worker
<1>1. /\ UNCHANGED <<arrived, overflowed, ingest, record, actuated, sync, row, link,
                     table, refused>>
      /\ HandsInv' /\ StopInv'
  BY DEF Parts, HandsInv, StopInv
<1>2. TypeOK'
  BY DEF TypeOK
<1>3. KnownInv' /\ InOrder' /\ Behind' = Behind /\ Compared' = Compared
  BY <1>1 DEF Parts, KnownInv, InOrder, Before, Behind, Compared
<1>4. LossTraced'
  BY SameTrace DEF Parts
<1> QED BY <1>1, <1>2, <1>3, <1>4 DEF Parts

LEMMA InvStep == TypeOK /\ Inv /\ [Next]_vars => TypeOK' /\ Inv'
<1> SUFFICES ASSUME TypeOK, Inv, [Next]_vars PROVE TypeOK' /\ Inv'
  OBVIOUS
<1>1. Parts
  BY InvParts
<1>2. TypeOK' /\ Parts'
  BY <1>1, ArriveParts, ComparePopParts, ComparePushParts, SyncPopParts, RowLeavesParts,
     QuietParts DEF Next, Server, Comparator, Worker, Main, Terminated
<1>3. (TypeOK => (Inv <=> Parts))'
  BY InvParts, PTL
<1> QED BY <1>2, <1>3

(* The invariant holds in every state the process reaches.                 *)
THEOREM Invariant == Spec => []Inv
<1>1. Init => TypeOK /\ Inv
  BY InitParts, InvParts
<1> QED BY <1>1, InvStep, PTL DEF Spec, Inv

(* The variables keep their types, and the rings their bounds.             *)
THEOREM TypeCorrect == Spec => []TypeOK
<1>1. Inv => TypeOK
  BY DEF Inv
<1> QED BY <1>1, Invariant, PTL

(* The two hand-overs keep the order of arrival.                           *)
THEOREM OrderOfArrivalKept == Spec => []ArrivalOrder
<1>1. Inv => ArrivalOrder
  BY DEF Inv
<1> QED BY <1>1, Invariant, PTL

(* No event is lost without a trace: a record the comparator cannot push   *)
(* would be, but only while the process stops, and it only stops before    *)
(* the first event; and an INSERT over libpq that stores no row leaves a   *)
(* message, or has met a row of its time.                                  *)
THEOREM NoEventVanishes == Spec => []EveryEventAccounted
<1>1. Inv => EveryEventAccounted
  BY DEF Inv
<1> QED BY <1>1, Invariant, PTL

(* The actuator is triggered once for each event beyond the threshold that *)
(* has been compared, whatever becomes of its row.                         *)
THEOREM TriggeredExactly == Spec => []ActuatedExactly
<1>1. Inv => ActuatedExactly
  BY DEF Inv
<1> QED BY <1>1, Invariant, PTL
=============================================================================
