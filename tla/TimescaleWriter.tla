--------------------------- MODULE TimescaleWriter ---------------------------
(***************************************************************************)
(* The timescale_writer process: the path of an envelope from the receive  *)
(* threads of TcpSubscriber, through the region queues of AsyncQueueWriter *)
(* and the pending queue of TimescaleBatchWriter, to a flushed batch.      *)
(*                                                                         *)
(* Threads: the receive threads (Receivers), the main thread, which runs   *)
(* AsyncQueueWriter::run, and the batch thread, which runs                 *)
(* TimescaleBatchWriter::run.  The signal handler clears `running', which  *)
(* every loop polls.  Two mutexes: queueMutex_ guards the region queues    *)
(* (main holds it over a whole dequeueBatch or drain), mutex_ guards       *)
(* pending_ and the duplicate cache (held for one submit or one take).     *)
(*                                                                         *)
(* What flushBatch does with a batch is abstracted here to its outcome;    *)
(* OutboxStore models it in full.                                          *)
(***************************************************************************)
EXTENDS Naturals, Sequences, FiniteSets

CONSTANTS Ids,          \* message ids (MessageEnvelope.message_id)
          NumRegions,   \* number of region keys that occur
          RegionOf,     \* extractRegion: the partition key of an envelope
          Receivers,    \* receive threads of TcpSubscriber
          MaxQueue,     \* Config::maxQueueSize, of both queues
          BatchSize,    \* Config::batchSize
          SeenCap,      \* size of the duplicate cache (10000)
          MaxArrivals   \* model bound: envelopes accepted in one behaviour

(* The region keys, numbered in the order of the std::map.                 *)
Regions == 1..NumRegions

ASSUME ConstantsAssumption ==
  /\ NumRegions \in Nat \ {0}
  /\ RegionOf \in [Ids -> Regions]
  /\ MaxQueue \in Nat \ {0}
  /\ BatchSize \in Nat \ {0}
  /\ MaxArrivals \in Nat

\* The deployed values satisfy these two: 4096, 250 and 10000.
ASSUME BatchAssumption == BatchSize <= MaxQueue
ASSUME CacheAssumption == SeenCap \in Nat /\ 2 * MaxQueue <= SeenCap

VARIABLES
  running,     \* the process-wide flag cleared by SIGINT / SIGTERM
  rpc,         \* control state of each receive thread
  queues,      \* AsyncQueueWriter::queues_ (an empty queue is an erased one)
  arrivals,    \* how many envelopes submit has accepted so far
  mpc,         \* control state of the main thread
  cursor,      \* dequeueBatch: the map iterator, as the next region to visit
  hand,        \* the batch main has dequeued and not yet submitted
  pending,     \* TimescaleBatchWriter::pending_
  seen,        \* TimescaleBatchWriter::seenIds_
  idOrder,     \* TimescaleBatchWriter::idOrder_
  bpc,         \* control state of the batch thread
  flight,      \* the batch inside flushBatch
  processed,   \* Metrics::messagesProcessed
  writeErrors, \* Metrics::writeErrors
  durable,     \* ids of the batches flushed to the database or to the outbox
  dropped      \* ids of the batches whose outbox file could not be opened

receiving  == <<rpc>>
partition  == <<queues, arrivals>>
processing == <<mpc, cursor, hand, processed, writeErrors>>
batching   == <<pending, seen, idOrder>>
flushing   == <<bpc, flight, durable, dropped>>
vars == <<running, receiving, partition, processing, batching, flushing>>

-----------------------------------------------------------------------------
(* An envelope carries its id and, for the order properties, the position  *)
(* at which AsyncQueueWriter::submit accepted it.                          *)
Envelope == [n : 1..MaxArrivals, id : Ids]

Region(e) == RegionOf[e.id]

IdsIn(s) == {s[i].id : i \in DOMAIN s}

(* One element per queued envelope: getTotalQueueSize counts them.         *)
Slots(q) == UNION {{r} \X (1..Len(q[r])) : r \in Regions}

(* Mutant: counts the partitions, the mistake AsyncQueueWriter.hpp:68 warns *)
(* of.                                                                      *)
MutCountPartitions == Cardinality({r \in Regions : queues[r] # <<>>})

TotalQueued == Cardinality(Slots(queues))

QueuesEmpty == \A r \in Regions : queues[r] = <<>>

(* Main holds queueMutex_ from the moment it starts taking envelopes.      *)
QueueLocked == mpc \in {"dequeue", "drain"}

Init ==
  /\ running = TRUE
  /\ rpc = [t \in Receivers |-> "loop"]
  /\ queues = [r \in Regions |-> <<>>]
  /\ arrivals = 0
  /\ mpc = "loop"
  /\ cursor = 1
  /\ hand = <<>>
  /\ pending = <<>>
  /\ seen = {}
  /\ idOrder = <<>>
  /\ bpc = "loop"
  /\ flight = <<>>
  /\ processed = 0
  /\ writeErrors = 0
  /\ durable = {}
  /\ dropped = {}

(* handleShutdownSignal *)
Signal ==
  /\ running
  /\ running' = FALSE
  /\ UNCHANGED <<receiving, partition, processing, batching, flushing>>

-----------------------------------------------------------------------------
(* Receive threads: while (running) { receive; consume }.  An envelope that *)
(* passes the validation pipeline reaches the callback, which submits it    *)
(* and drops it when submit answers false.                                  *)

(* Mutant: while (true) instead of while (running).                         *)
MutReceiveForever(t) ==
  /\ rpc[t] = "loop"
  /\ rpc' = [rpc EXCEPT ![t] = "receive"]
  /\ UNCHANGED <<running, partition, processing, batching, flushing>>

ReceiverLoop(t) ==
  /\ rpc[t] = "loop"
  /\ rpc' = [rpc EXCEPT ![t] = IF running THEN "receive" ELSE "done"]
  /\ UNCHANGED <<running, partition, processing, batching, flushing>>

ReceiveTimeout(t) ==
  /\ rpc[t] = "receive"
  /\ rpc' = [rpc EXCEPT ![t] = "loop"]
  /\ UNCHANGED <<running, partition, processing, batching, flushing>>

(* AsyncQueueWriter::submit answers true.                                   *)
SubmitAccept(t, id) ==
  /\ rpc[t] = "receive"
  /\ ~QueueLocked
  /\ TotalQueued < MaxQueue
  /\ arrivals < MaxArrivals
  /\ arrivals' = arrivals + 1
  /\ queues' = [queues EXCEPT ![RegionOf[id]] =
                  Append(@, [n |-> arrivals + 1, id |-> id])]
  /\ rpc' = [rpc EXCEPT ![t] = "loop"]
  /\ UNCHANGED <<running, processing, batching, flushing>>

(* AsyncQueueWriter::submit answers false: backpressure.                    *)
SubmitReject(t) ==
  /\ rpc[t] = "receive"
  /\ ~QueueLocked
  /\ TotalQueued >= MaxQueue
  /\ rpc' = [rpc EXCEPT ![t] = "loop"]
  /\ UNCHANGED <<running, partition, processing, batching, flushing>>

-----------------------------------------------------------------------------
(* Main thread: AsyncQueueWriter::run.                                      *)

MainLoop ==
  /\ mpc = "loop"
  /\ mpc' = IF running THEN "wait" ELSE "drain"
  /\ UNCHANGED <<running, receiving, partition, cursor, hand, processed,
                 writeErrors, batching, flushing>>

(* dequeueBatch: cv_.wait_for returns with or without an envelope; an empty *)
(* batch goes back to the loop.                                             *)
DequeueBegin ==
  /\ mpc = "wait"
  /\ mpc' = IF QueuesEmpty THEN "loop" ELSE "dequeue"
  /\ cursor' = 1
  /\ UNCHANGED <<running, receiving, partition, hand, processed, writeErrors,
                 batching, flushing>>

(* The iterator visits the regions that hold something in the order of the  *)
(* map, and starts a new round from the first one at the end.               *)
NextRegion(r) ==
  /\ queues[r] # <<>>
  /\ \A s \in Regions :
       queues[s] # <<>> => IF r >= cursor THEN s < cursor \/ r <= s
                                          ELSE s < cursor /\ r <= s

(* Mutant: the iterator stays on its region until the region is empty.      *)
MutDrainRegionFirst ==
  /\ mpc = "dequeue"
  /\ Len(hand) < BatchSize
  /\ \E r \in Regions :
       /\ NextRegion(r)
       /\ hand' = Append(hand, Head(queues[r]))
       /\ queues' = [queues EXCEPT ![r] = Tail(@)]
       /\ cursor' = r
  /\ UNCHANGED <<running, receiving, arrivals, mpc, processed, writeErrors,
                 batching, flushing>>

DequeueOne ==
  /\ mpc = "dequeue"
  /\ Len(hand) < BatchSize
  /\ \E r \in Regions :
       /\ NextRegion(r)
       /\ hand' = Append(hand, Head(queues[r]))
       /\ queues' = [queues EXCEPT ![r] = Tail(@)]
       /\ cursor' = r + 1
  /\ UNCHANGED <<running, receiving, arrivals, mpc, processed, writeErrors,
                 batching, flushing>>

DequeueEnd ==
  /\ mpc = "dequeue"
  /\ Len(hand) = BatchSize \/ QueuesEmpty
  /\ mpc' = "submit"
  /\ UNCHANGED <<running, receiving, partition, cursor, hand, processed,
                 writeErrors, batching, flushing>>

(* drainAndSubmit empties the map region by region under the mutex.         *)
DrainOne ==
  /\ mpc = "drain"
  /\ \E r \in Regions :
       /\ queues[r] # <<>>
       /\ \A s \in Regions : queues[s] # <<>> => r <= s
       /\ hand' = Append(hand, Head(queues[r]))
       /\ queues' = [queues EXCEPT ![r] = Tail(@)]
  /\ UNCHANGED <<running, receiving, arrivals, mpc, cursor, processed,
                 writeErrors, batching, flushing>>

DrainEnd ==
  /\ mpc = "drain"
  /\ QueuesEmpty
  /\ mpc' = "finalSubmit"
  /\ UNCHANGED <<running, receiving, partition, cursor, hand, processed,
                 writeErrors, batching, flushing>>

-----------------------------------------------------------------------------
(* submitBatch: one TimescaleBatchWriter::submit per envelope of the batch. *)
(* Its answer only moves a counter: the envelope leaves `hand' either way.  *)

SubmitNext ==
  /\ mpc \in {"submit", "finalSubmit"}
  /\ hand # <<>>
  /\ hand' = Tail(hand)
  /\ UNCHANGED <<running, receiving, partition, mpc, cursor, flushing>>

(* Mutant: the id enters the duplicate cache before the capacity test.      *)
MutSeenBeforeCapacity ==
  /\ SubmitNext
  /\ Len(pending) >= MaxQueue
  /\ seen' = seen \cup {Head(hand).id}
  /\ idOrder' = Append(idOrder, Head(hand).id)
  /\ writeErrors' = writeErrors + 1
  /\ UNCHANGED <<processed, pending>>

(* Mutant: the error counter is moved the wrong way.                        *)
MutErrorsDecrease ==
  /\ SubmitNext
  /\ Len(pending) >= MaxQueue
  /\ writeErrors' = writeErrors - 1
  /\ UNCHANGED <<processed, batching>>

(* pending_.size() >= maxQueueSize_ is tested before the duplicate cache.   *)
(* The other refusal of submit(), of an envelope that is no weather packet, *)
(* does not occur: consume() has put such an envelope in no queue.          *)
PendingFull ==
  /\ SubmitNext
  /\ Len(pending) >= MaxQueue
  /\ writeErrors' = writeErrors + 1
  /\ UNCHANGED <<processed, batching>>

(* Mutant: an ignored duplicate is not counted.                             *)
MutDuplicateUncounted ==
  /\ SubmitNext
  /\ Len(pending) < MaxQueue
  /\ Head(hand).id \in seen
  /\ UNCHANGED <<processed, writeErrors, batching>>

PendingDuplicate ==
  /\ SubmitNext
  /\ Len(pending) < MaxQueue
  /\ Head(hand).id \in seen
  /\ processed' = processed + 1
  /\ UNCHANGED <<writeErrors, batching>>

(* The cache forgets its oldest id when it is full.                         *)
CacheFull == Cardinality(seen) >= SeenCap

(* Mutant: the admitted id is not remembered.                               *)
MutNotRemembered ==
  /\ SubmitNext
  /\ Len(pending) < MaxQueue
  /\ Head(hand).id \notin seen
  /\ pending' = Append(pending, Head(hand))
  /\ processed' = processed + 1
  /\ UNCHANGED <<writeErrors, seen, idOrder>>

(* Mutant: eviction forgets to pop the FIFO.                                *)
MutEvictSetOnly ==
  /\ SubmitNext
  /\ Len(pending) < MaxQueue
  /\ Head(hand).id \notin seen
  /\ seen' = (IF CacheFull THEN seen \ {Head(idOrder)} ELSE seen)
               \cup {Head(hand).id}
  /\ idOrder' = Append(idOrder, Head(hand).id)
  /\ pending' = Append(pending, Head(hand))
  /\ processed' = processed + 1
  /\ UNCHANGED writeErrors

PendingAdmit ==
  /\ SubmitNext
  /\ Len(pending) < MaxQueue
  /\ Head(hand).id \notin seen
  /\ seen' = (IF CacheFull THEN seen \ {Head(idOrder)} ELSE seen)
               \cup {Head(hand).id}
  /\ idOrder' = Append(IF CacheFull THEN Tail(idOrder) ELSE idOrder,
                       Head(hand).id)
  /\ pending' = Append(pending, Head(hand))
  /\ processed' = processed + 1
  /\ UNCHANGED writeErrors

SubmitEnd ==
  /\ mpc \in {"submit", "finalSubmit"}
  /\ hand = <<>>
  /\ mpc' = IF mpc = "submit" THEN "loop" ELSE "join"
  /\ UNCHANGED <<running, receiving, partition, cursor, hand, processed,
                 writeErrors, batching, flushing>>

(* batchWriterThread.join() and, back in main, subscriberThread.join().     *)
JoinBatchThread ==
  /\ mpc = "join"
  /\ bpc = "done"
  /\ mpc' = "joinSubscriber"
  /\ UNCHANGED <<running, receiving, partition, cursor, hand, processed,
                 writeErrors, batching, flushing>>

JoinSubscriber ==
  /\ mpc = "joinSubscriber"
  /\ \A t \in Receivers : rpc[t] = "done"
  /\ mpc' = "exit"
  /\ UNCHANGED <<running, receiving, partition, cursor, hand, processed,
                 writeErrors, batching, flushing>>

-----------------------------------------------------------------------------
(* Batch thread: TimescaleBatchWriter::run.                                 *)

BatchLoop ==
  /\ bpc = "loop"
  /\ bpc' = IF running THEN "wait" ELSE "final"
  /\ UNCHANGED <<running, receiving, partition, processing, batching, flight,
                 durable, dropped>>

(* cv_.wait_for returns with something pending, on a timeout or at shutdown *)
(* (then the batch may be empty).                                           *)
TakeBatch ==
  /\ bpc = "wait"
  /\ LET k == IF Len(pending) < BatchSize THEN Len(pending) ELSE BatchSize
     IN /\ flight' = SubSeq(pending, 1, k)
        /\ pending' = SubSeq(pending, k + 1, Len(pending))
        /\ bpc' = IF k = 0 THEN "loop" ELSE "flush"
  /\ UNCHANGED <<running, receiving, partition, processing, seen, idOrder,
                 durable, dropped>>

TakeFinalBatch ==
  /\ bpc = "final"
  /\ flight' = pending
  /\ pending' = <<>>
  /\ bpc' = IF pending = <<>> THEN "done" ELSE "finalFlush"
  /\ UNCHANGED <<running, receiving, partition, processing, seen, idOrder,
                 durable, dropped>>

(* Mutant: a batch that could not be stored goes back to the end of the     *)
(* pending queue.                                                           *)
MutKeepUnstored ==
  /\ bpc \in {"flush", "finalFlush"}
  /\ \/ durable' = durable \cup IdsIn(flight) /\ UNCHANGED pending
     \/ pending' = pending \o flight /\ UNCHANGED durable
  /\ flight' = <<>>
  /\ bpc' = IF bpc = "flush" THEN "loop" ELSE "final"
  /\ UNCHANGED <<running, receiving, partition, processing, seen, idOrder,
                 dropped>>

(* flushBatch: the batch reaches the database, or the outbox file, or, when *)
(* the file cannot be opened either, it is gone.                            *)
FlushBatch ==
  /\ bpc \in {"flush", "finalFlush"}
  /\ \/ durable' = durable \cup IdsIn(flight) /\ UNCHANGED dropped
     \/ dropped' = dropped \cup IdsIn(flight) /\ UNCHANGED durable
  /\ flight' = <<>>
  /\ bpc' = IF bpc = "flush" THEN "loop" ELSE "done"
  /\ UNCHANGED <<running, receiving, partition, processing, batching>>

Terminated == mpc = "exit" /\ UNCHANGED vars

-----------------------------------------------------------------------------
Receiver(t) ==
  \/ ReceiverLoop(t)
  \/ ReceiveTimeout(t)
  \/ \E id \in Ids : SubmitAccept(t, id)
  \/ SubmitReject(t)

Main ==
  \/ MainLoop
  \/ DequeueBegin
  \/ DequeueOne
  \/ DequeueEnd
  \/ DrainOne
  \/ DrainEnd
  \/ PendingFull
  \/ PendingDuplicate
  \/ PendingAdmit
  \/ SubmitEnd
  \/ JoinBatchThread
  \/ JoinSubscriber

Batcher ==
  \/ BatchLoop
  \/ TakeBatch
  \/ TakeFinalBatch
  \/ FlushBatch

Next ==
  \/ Signal
  \/ \E t \in Receivers : Receiver(t)
  \/ Main
  \/ Batcher
  \/ Terminated

Spec == Init /\ [][Next]_vars

(* The three kinds of threads are scheduled by the kernel and wait with     *)
(* timeouts only, so each of them keeps taking steps.  No fairness for the  *)
(* signal or for arrivals.                                                  *)
FairSpec ==
  /\ Spec
  /\ \A t \in Receivers : WF_vars(Receiver(t))
  /\ WF_vars(Main)
  /\ WF_vars(Batcher)

-----------------------------------------------------------------------------
TypeOK ==
  /\ running \in BOOLEAN
  /\ rpc \in [Receivers -> {"loop", "receive", "done"}]
  /\ queues \in [Regions -> Seq(Envelope)]
  /\ arrivals \in 0..MaxArrivals
  /\ mpc \in {"loop", "wait", "dequeue", "submit", "drain", "finalSubmit",
              "join", "joinSubscriber", "exit"}
  /\ cursor \in Nat
  /\ hand \in Seq(Envelope)
  /\ pending \in Seq(Envelope)
  /\ seen \subseteq Ids
  /\ idOrder \in Seq(Ids)
  /\ bpc \in {"loop", "wait", "flush", "final", "finalFlush", "done"}
  /\ flight \in Seq(Envelope)
  /\ processed \in Nat
  /\ writeErrors \in Nat
  /\ durable \subseteq Ids
  /\ dropped \subseteq Ids

(* Memory stays bounded ("Bounded in-memory queue", AsyncQueueWriter.hpp:25)*)
(* at every stage at once, however the three threads interleave and during  *)
(* shutdown: at most MaxQueue envelopes in the region queues, MaxQueue in a *)
(* batch main holds, MaxQueue pending and MaxQueue being flushed.           *)
MemoryBounded ==
  /\ Cardinality(Slots(queues)) <= MaxQueue
  /\ Len(hand) <= MaxQueue
  /\ Len(pending) <= MaxQueue
  /\ Len(flight) <= MaxQueue
  /\ mpc \in {"dequeue", "submit"} => Len(hand) <= BatchSize

(* The set and the FIFO of the duplicate cache describe the same ids, each  *)
(* once, and never more than SeenCap of them.                               *)
CacheConsistent ==
  /\ seen = {idOrder[i] : i \in DOMAIN idOrder}
  /\ \A i, j \in DOMAIN idOrder : idOrder[i] = idOrder[j] => i = j
  /\ Len(idOrder) <= SeenCap

(* No id is twice among the envelopes that are pending or being flushed, so *)
(* no observation is counted twice by one batch's aggregates, whatever the  *)
(* cache has forgotten meanwhile.                                           *)
NoDoubleCount ==
  LET s == flight \o pending
  IN \A i, j \in DOMAIN s : s[i].id = s[j].id => i = j

(* "Region-based partitioning (preserves ordering for same city)",          *)
(* AsyncQueueWriter.hpp:26: along the path queues -> hand -> pending ->     *)
(* flight the envelopes of one region are in the order submit accepted them.*)
InOrder(s) ==
  \A i, j \in DOMAIN s : i < j /\ Region(s[i]) = Region(s[j]) => s[i].n < s[j].n
Precedes(s, u) ==
  \A i \in DOMAIN s, j \in DOMAIN u : Region(s[i]) = Region(u[j]) => s[i].n < u[j].n

RegionOrder ==
  /\ InOrder(flight) /\ InOrder(pending) /\ InOrder(hand)
  /\ Precedes(flight, pending) /\ Precedes(flight, hand) /\ Precedes(pending, hand)
  /\ \A r \in Regions :
       /\ InOrder(queues[r])
       /\ Precedes(flight, queues[r])
       /\ Precedes(pending, queues[r])
       /\ Precedes(hand, queues[r])

(* The metrics account for every accepted envelope: it is queued, in main's *)
(* batch, counted as processed or counted as a write error.                 *)
MetricsAccount ==
  arrivals = Cardinality(Slots(queues)) + Len(hand) + processed + writeErrors

(* The duplicate cache never answers for an id that submit() refused.  The  *)
(* first copy of an envelope that is skipped is pending, being flushed, in  *)
(* the database or the outbox, or it was in a batch that could be written   *)
(* to neither.  That batch (`dropped') is lost, and a copy of it that comes *)
(* again is ignored all the same, until its id leaves the cache: the only   *)
(* way in which an envelope can be skipped and nowhere.                     *)
SeenWasTaken ==
  seen \subseteq IdsIn(pending) \cup IdsIn(flight) \cup durable \cup dropped

(* "Round-robin through regions to prevent starvation",                     *)
(* AsyncQueueWriter.hpp:175: when dequeueBatch stops with a region left non *)
(* empty, no other region has got more than one envelope more out of it.    *)
Served(r) == Cardinality({i \in DOMAIN hand : Region(hand[i]) = r})
RoundRobinFair ==
  mpc = "dequeue" =>
    \A r, s \in Regions : queues[r] # <<>> => Served(s) <= Served(r) + 1

(* After a signal the process ends: no thread waits for another for ever.   *)
ShutdownCompletes == ~running ~> mpc = "exit"

(* While no shutdown is requested, an accepted envelope does not stay in    *)
(* memory for ever: it is flushed, or refused by a full pending queue.      *)
InMemory(n) ==
  \/ \E r \in Regions : \E i \in DOMAIN queues[r] : queues[r][i].n = n
  \/ \E i \in DOMAIN hand : hand[i].n = n
  \/ \E i \in DOMAIN pending : pending[i].n = n
  \/ \E i \in DOMAIN flight : flight[i].n = n
EventuallyFlushed ==
  \A n \in 1..MaxArrivals : InMemory(n) ~> (~InMemory(n) \/ ~running)

-----------------------------------------------------------------------------
(* What the comments promise and the code does not do.                      *)

(* "Drain all remaining messages on shutdown", AsyncQueueWriter.hpp:224:    *)
(* when the process has ended, no drained envelope is still pending.        *)
DrainedAtExit == mpc = "exit" => pending = <<>>
=============================================================================
