------------------------------ MODULE SpscRing ------------------------------
(***************************************************************************)
(* LocklessRingBuffer, one step per access to memory that the other thread *)
(* shares: the indices head_ and tail_ and the slots.  Each index is read  *)
(* with acquire and written with release, so a thread that sees a value of *)
(* it also sees the slot written before; the slots themselves are plain    *)
(* memory, and SlotsNotShared says that the two threads are never at the   *)
(* same one.  A thread's relaxed read of its own index reads what it wrote *)
(* last.  The masks are remainders, the capacity being a power of two.     *)
(***************************************************************************)
EXTENDS Naturals, Sequences

CONSTANTS Items, Capacity, Nullopt, NoItem

ASSUME CapacityAssumption == Capacity \in Nat \ {0}
ASSUME ItemsAssumption == Nullopt \notin Items /\ NoItem \notin Items

VARIABLES
  buffer, head, tail,   \* buffer_, head_, tail_
  ppc, item,            \* the producer: where it is in push, and its argument
  cpc, copy,            \* the consumer: where it is in pop, and its copy
  pushed, popped        \* what the last push and the last pop answered

producer == <<ppc, item, pushed>>
consumer == <<cpc, copy, popped>>
ringVars == <<buffer, head, tail, producer, consumer>>

Slots == 0..(Capacity - 1)

(* (i + 1) & mask_                                                         *)
Following(i) == (i + 1) % Capacity

RingInit ==
  /\ buffer = [s \in Slots |-> NoItem]
  /\ head = 0 /\ tail = 0
  /\ ppc = "idle" /\ item = NoItem /\ pushed = TRUE
  /\ cpc = "idle" /\ copy = NoItem /\ popped = Nullopt

-----------------------------------------------------------------------------
(* push: the producer.                                                     *)

PushCall(x) ==
  /\ ppc = "idle"
  /\ item' = x
  /\ ppc' = "test"
  /\ UNCHANGED <<buffer, head, tail, pushed, consumer>>

(* Mutant: push does not test for room.                                    *)
MutNoFullTest ==
  /\ ppc = "test"
  /\ ppc' = "write"
  /\ UNCHANGED <<buffer, head, tail, item, pushed, consumer>>

(* Loads head_: the one access of push to what the consumer writes.        *)
PushTest ==
  /\ ppc = "test"
  /\ IF Following(tail) = head
     THEN pushed' = FALSE /\ ppc' = "idle"
     ELSE ppc' = "write" /\ UNCHANGED pushed
  /\ UNCHANGED <<buffer, head, tail, item, consumer>>

PushWrite ==
  /\ ppc = "write"
  /\ buffer' = [buffer EXCEPT ![tail] = item]
  /\ ppc' = "publish"
  /\ UNCHANGED <<head, tail, item, pushed, consumer>>

PushPublish ==
  /\ ppc = "publish"
  /\ tail' = Following(tail)
  /\ pushed' = TRUE
  /\ ppc' = "idle"
  /\ UNCHANGED <<buffer, head, item, consumer>>

-----------------------------------------------------------------------------
(* pop: the consumer.                                                      *)

PopCall ==
  /\ cpc = "idle"
  /\ cpc' = "test"
  /\ UNCHANGED <<buffer, head, tail, producer, copy, popped>>

(* Mutant: pop takes a ring with one item for an empty one.                *)
MutEmptyTest ==
  /\ cpc = "test"
  /\ IF head = tail \/ Following(head) = tail
     THEN popped' = Nullopt /\ cpc' = "idle"
     ELSE cpc' = "read" /\ UNCHANGED popped
  /\ UNCHANGED <<buffer, head, tail, producer, copy>>

PopTest ==
  /\ cpc = "test"
  /\ IF head = tail
     THEN popped' = Nullopt /\ cpc' = "idle"
     ELSE cpc' = "read" /\ UNCHANGED popped
  /\ UNCHANGED <<buffer, head, tail, producer, copy>>

PopRead ==
  /\ cpc = "read"
  /\ copy' = buffer[head]
  /\ cpc' = "release"
  /\ UNCHANGED <<buffer, head, tail, producer, popped>>

PopRelease ==
  /\ cpc = "release"
  /\ head' = Following(head)
  /\ popped' = copy
  /\ cpc' = "idle"
  /\ UNCHANGED <<buffer, tail, producer, copy>>

-----------------------------------------------------------------------------
Producer == (\E x \in Items : PushCall(x)) \/ PushTest \/ PushWrite \/ PushPublish

Consumer == PopCall \/ PopTest \/ PopRead \/ PopRelease

RingNext == Producer \/ Consumer

RingSpec == RingInit /\ [][RingNext]_ringVars

-----------------------------------------------------------------------------
RingTypeOK ==
  /\ buffer \in [Slots -> Items \cup {NoItem}]
  /\ head \in Slots /\ tail \in Slots
  /\ ppc \in {"idle", "test", "write", "publish"}
  /\ item \in Items \cup {NoItem}
  /\ pushed \in BOOLEAN
  /\ cpc \in {"idle", "test", "read", "release"}
  /\ copy \in Items \cup {NoItem}
  /\ popped \in Items \cup {NoItem, Nullopt}

(* The slots are plain memory: the producer never writes the slot that the *)
(* consumer reads (the data race acquire and release must exclude).        *)
SlotsNotShared == ~(ppc = "write" /\ cpc = "read" /\ tail = head)

(* The items in the ring, oldest first (size() counts them).               *)
Size == IF tail >= head THEN tail - head ELSE (Capacity - head) + tail
Contents == [i \in 1..Size |-> buffer[(head + i - 1) % Capacity]]

(* The ring is a FIFO of Capacity - 1 items for its two threads: nothing   *)
(* is lost, duplicated, reordered or torn, push answers false only when it *)
(* is full and pop nullopt only when it is empty.                          *)
Fifo == INSTANCE BoundedFifo WITH q <- Contents, Bound <- Capacity - 1
ImplementsFifo == Fifo!Spec
=============================================================================
