-------------------------- MODULE InProcessBroker --------------------------
(***************************************************************************)
(* The Asia consumer: a TcpSubscriber whose receive threads publish the    *)
(* envelopes of their clients to a topic of the in-process broker, and one *)
(* thread that takes them out again and feeds the validation pipeline.     *)
(*                                                                         *)
(* The broker keeps three static maps (queues, mutexes, condition          *)
(* variables) from topic to value.  operator[] inserts what it does not    *)
(* find.  publish_to_topic touches all three under the registry mutex      *)
(* first, and then looks them up again without it, as the consumer does.   *)
(* The program has one topic, so each map is empty or has one node, named  *)
(* after the thread that made it.  A lookup that meets an insertion into   *)
(* the same map by another thread is a data race (`raced'): two nodes may  *)
(* be made, of which either is found later, and the process may be killed. *)
(***************************************************************************)
EXTENDS Naturals, Sequences, Functions

CONSTANTS Receivers,   \* model bound: receive threads, one for each client
          Consumer,    \* the thread of InProcessBrokerSubscriber::run
          Nobody,      \* no thread, no node
          MaxMessages  \* model bound: envelopes of all clients

Threads == Receivers \cup {Consumer}

ASSUME BrokerAssumption ==
  /\ Consumer \notin Receivers /\ Nobody \notin Threads
  /\ MaxMessages \in Nat

VARIABLES
  running,   \* the flag the signal handler clears
  main,      \* main(): "wait", "joined" (the TCP thread), "exited", "crashed"
  tcp,       \* the TCP thread: "start", "accept", "join", "done"
  at,        \* where each thread is
  inserting, \* has a thread found nothing, and is about to insert?
  registry,  \* who holds registry_mutex
  nodes,     \* the node that a lookup in each map finds
  uses,      \* the mutex and the queue each thread got a reference to
  owner,     \* who holds the mutex of a node
  queue,     \* the std::queue of a node
  copy,      \* a queue as a thread that changes it has read it
  received,  \* envelopes each receive thread has parsed
  hand,      \* the envelope the consumer has taken out
  consumed,  \* envelopes given to the pipeline
  pushed,    \* history: envelopes published, in the order of the pushes
  scanned,   \* history: has the consumer gone through the maps once?
  raced      \* history: has a lookup met an insertion?

program == <<running, main, tcp, received>>
places == <<at, inserting, registry, nodes, uses>>
data == <<owner, queue, copy, hand, consumed, pushed, scanned>>
core == <<program, places, data>>
vars == <<core, raced>>

Maps == {"queues", "mutexes", "cvs"}

(* The lookups, by where a thread is.                                      *)
MapAt == [regQueues |-> "queues", regMutexes |-> "mutexes", regCvs |-> "cvs",
          mutex |-> "mutexes", queue |-> "queues", cv |-> "cvs"]
Looks(t) == at[t] \in DOMAIN MapAt

Init ==
  /\ running = TRUE /\ main = "wait" /\ tcp = "start"
  /\ at = [t \in Threads |-> IF t = Consumer THEN "scan" ELSE "none"]
  /\ inserting = [t \in Threads |-> FALSE]
  /\ registry = Nobody
  /\ nodes = [m \in Maps |-> Nobody]
  /\ uses = [t \in Threads |-> [queues |-> Nobody, mutexes |-> Nobody]]
  /\ owner = [n \in Threads |-> Nobody]
  /\ queue = [n \in Threads |-> <<>>]
  /\ copy = [t \in Threads |-> <<>>]
  /\ received = [r \in Receivers |-> 0]
  /\ hand = <<>> /\ consumed = <<>> /\ pushed = <<>>
  /\ scanned = FALSE /\ raced = FALSE

-----------------------------------------------------------------------------
(* operator[] of the maps.                                                 *)

(* Mutant: the registry section leaves the condition variable to be made   *)
(* by whoever notifies first.                                              *)
MutSkipCv(t) ==
  CASE at[t] = "regQueues" -> "regMutexes"
    [] at[t] = "regMutexes" -> "mutex"
    [] at[t] = "regCvs" -> "mutex"
    [] at[t] = "mutex" -> "lock"
    [] at[t] = "queue" -> "read"
    [] at[t] = "cv" -> IF t = Consumer THEN "consume" ELSE "idle"

After(t) ==
  CASE at[t] = "regQueues" -> "regMutexes"
    [] at[t] = "regMutexes" -> "regCvs"
    [] at[t] = "regCvs" -> "mutex"
    [] at[t] = "mutex" -> "lock"
    [] at[t] = "queue" -> "read"
    [] at[t] = "cv" -> IF t = Consumer THEN "consume" ELSE "idle"

(* The lookup has returned a reference into node n.  The registry mutex is *)
(* given back behind the third of its lookups.                             *)
Reached(t, n) ==
  /\ at' = [at EXCEPT ![t] = After(t)]
  /\ registry' = IF registry = t /\ After(t) = "mutex" THEN Nobody ELSE registry
  /\ uses' = IF at[t] \in {"mutex", "queue"}
             THEN [uses EXCEPT ![t][MapAt[at[t]]] = n] ELSE uses

Find(t) ==
  /\ Looks(t) /\ ~inserting[t]
  /\ nodes[MapAt[at[t]]] # Nobody
  /\ Reached(t, nodes[MapAt[at[t]]])
  /\ UNCHANGED <<program, inserting, nodes, data>>

FindNothing(t) ==
  /\ Looks(t) /\ ~inserting[t]
  /\ nodes[MapAt[at[t]]] = Nobody
  /\ inserting' = [inserting EXCEPT ![t] = TRUE]
  /\ UNCHANGED <<program, at, registry, nodes, uses, data>>

(* The thread goes on with its own node, whichever the map finds later.    *)
InsertNode(t) ==
  /\ Looks(t) /\ inserting[t]
  /\ LET m == MapAt[at[t]] IN
       \E n \in {t, nodes[m]} \ {Nobody} : nodes' = [nodes EXCEPT ![m] = n]
  /\ inserting' = [inserting EXCEPT ![t] = FALSE]
  /\ Reached(t, t)
  /\ UNCHANGED <<program, data>>

Lookup(t) == Find(t) \/ FindNothing(t) \/ InsertNode(t)

-----------------------------------------------------------------------------
(* The critical section of both sides.  push and pop read the queue and    *)
(* write it; only the topic's mutex makes one step of the two.             *)

Goto(t, place) == at' = [at EXCEPT ![t] = place]
Unlock(t) == owner' = [owner EXCEPT ![uses[t].mutexes] = Nobody]

(* Mutant: the queue is used without its mutex.                            *)
MutNoLock(t) ==
  /\ at[t] = "lock"
  /\ Goto(t, "queue")
  /\ UNCHANGED <<program, inserting, registry, nodes, uses, data>>

Lock(t) ==
  /\ at[t] = "lock" /\ owner[uses[t].mutexes] = Nobody
  /\ owner' = [owner EXCEPT ![uses[t].mutexes] = t]
  /\ Goto(t, "queue")
  /\ UNCHANGED <<program, inserting, registry, nodes, uses, queue, copy, hand,
                 consumed, pushed, scanned>>

ReadQueue(t) ==
  /\ at[t] = "read"
  /\ t = Consumer => queue[uses[t].queues] # <<>>
  /\ copy' = [copy EXCEPT ![t] = queue[uses[t].queues]]
  /\ Goto(t, "write")
  /\ UNCHANGED <<program, inserting, registry, nodes, uses, owner, queue, hand,
                 consumed, pushed, scanned>>

-----------------------------------------------------------------------------
(* A receive thread: parse, publish_to_topic.                              *)

Received == FoldFunction(+, 0, received)

(* Model bound: behind a race only the envelopes that were on their way    *)
(* are followed.                                                           *)
Receive(t) ==
  /\ at[t] = "idle" /\ running
  /\ Received < MaxMessages /\ ~raced
  /\ received' = [received EXCEPT ![t] = @ + 1]
  /\ Goto(t, "registry")
  /\ UNCHANGED <<running, main, tcp, inserting, registry, nodes, uses, data>>

(* A client that closes its connection is one that sends nothing more.     *)
ReceiverStops(t) ==
  /\ at[t] = "idle" /\ ~running
  /\ Goto(t, "left")
  /\ UNCHANGED <<program, inserting, registry, nodes, uses, data>>

LockRegistry(t) ==
  /\ at[t] = "registry" /\ registry = Nobody
  /\ registry' = t
  /\ Goto(t, "regQueues")
  /\ UNCHANGED <<program, inserting, nodes, uses, data>>

Envelope(t) == [from |-> t, n |-> received[t]]

Push(t) ==
  /\ at[t] = "write"
  /\ queue' = [queue EXCEPT ![uses[t].queues] = Append(copy[t], Envelope(t))]
  /\ copy' = [copy EXCEPT ![t] = <<>>]
  /\ pushed' = Append(pushed, Envelope(t))
  /\ Unlock(t)
  /\ Goto(t, "cv")
  /\ UNCHANGED <<program, inserting, registry, nodes, uses, hand, consumed,
                 scanned>>

Receiver(t) ==
  \/ Lookup(t) \/ Lock(t) \/ ReadQueue(t)
  \/ ReceiverStops(t) \/ LockRegistry(t) \/ Push(t)

-----------------------------------------------------------------------------
(* The consumer thread.  Nobody waits on the condition variable it         *)
(* notifies: an empty topic is polled every 100 ms.                        *)

(* Mutant: while (true).                                                   *)
MutScanForever ==
  /\ at[Consumer] = "scan"
  /\ Goto(Consumer, "mutex")
  /\ UNCHANGED <<program, inserting, registry, nodes, uses, data>>

Scan ==
  /\ at[Consumer] = "scan"
  /\ Goto(Consumer, IF running THEN "mutex" ELSE "done")
  /\ UNCHANGED <<program, inserting, registry, nodes, uses, data>>

TopicEmpty ==
  /\ at[Consumer] = "read" /\ queue[uses[Consumer].queues] = <<>>
  /\ Unlock(Consumer)
  /\ scanned' = TRUE
  /\ Goto(Consumer, "sleep")
  /\ UNCHANGED <<program, inserting, registry, nodes, uses, queue, copy, hand,
                 consumed, pushed>>

(* Mutant: break instead of continue.                                      *)
MutBreak ==
  /\ at[Consumer] = "sleep"
  /\ Goto(Consumer, "done")
  /\ UNCHANGED <<program, inserting, registry, nodes, uses, data>>

Sleep ==
  /\ at[Consumer] = "sleep"
  /\ Goto(Consumer, "scan")
  /\ UNCHANGED <<program, inserting, registry, nodes, uses, data>>

Pop ==
  /\ at[Consumer] = "write"
  /\ hand' = <<Head(copy[Consumer])>>
  /\ queue' = [queue EXCEPT ![uses[Consumer].queues] = Tail(copy[Consumer])]
  /\ copy' = [copy EXCEPT ![Consumer] = <<>>]
  /\ scanned' = TRUE
  /\ Unlock(Consumer)
  /\ Goto(Consumer, "cv")
  /\ UNCHANGED <<program, inserting, registry, nodes, uses, consumed, pushed>>

(* What the pipeline answers is only logged: an envelope it refuses is     *)
(* gone as well.                                                           *)
Consume ==
  /\ at[Consumer] = "consume"
  /\ consumed' = consumed \o hand
  /\ hand' = <<>>
  /\ Goto(Consumer, "scan")
  /\ UNCHANGED <<program, inserting, registry, nodes, uses, owner, queue, copy,
                 pushed, scanned>>

Subscriber ==
  \/ Lookup(Consumer) \/ Lock(Consumer) \/ ReadQueue(Consumer)
  \/ Scan \/ TopicEmpty \/ Sleep \/ Pop \/ Consume

-----------------------------------------------------------------------------
(* The TCP thread and main().                                              *)

(* A port that is taken ends the TCP thread, and nothing else.             *)
CreateServer ==
  /\ tcp = "start"
  /\ \E outcome \in {"accept", "done"} : tcp' = outcome
  /\ UNCHANGED <<running, main, received, places, data>>

Accept(t) ==
  /\ tcp = "accept" /\ at[t] = "none"
  /\ Goto(t, "idle")
  /\ UNCHANGED <<program, inserting, registry, nodes, uses, data>>

AcceptStops ==
  /\ tcp = "accept" /\ ~running
  /\ tcp' = "join"
  /\ UNCHANGED <<running, main, received, places, data>>

JoinReceivers ==
  /\ tcp = "join" /\ \A t \in Receivers : at[t] \in {"none", "left"}
  /\ tcp' = "done"
  /\ UNCHANGED <<running, main, received, places, data>>

Acceptor == CreateServer \/ AcceptStops \/ JoinReceivers

JoinTcp ==
  /\ main = "wait" /\ ~running /\ tcp = "done"
  /\ main' = "joined"
  /\ UNCHANGED <<running, tcp, received, places, data>>

JoinConsumer ==
  /\ main = "joined" /\ at[Consumer] = "done"
  /\ main' = "exited"
  /\ UNCHANGED <<running, tcp, received, places, data>>

Signal ==
  /\ main = "wait" /\ running
  /\ running' = FALSE
  /\ UNCHANGED <<main, tcp, received, places, data>>

(* A map that was changed under a reader may kill the process.             *)
Crash ==
  /\ raced /\ main \in {"wait", "joined"}
  /\ main' = "crashed"
  /\ tcp' = "done"
  /\ at' = [t \in Threads |-> "gone"]
  /\ UNCHANGED <<running, received, inserting, registry, nodes, uses, data>>

Terminated == main \in {"exited", "crashed"} /\ UNCHANGED core

-----------------------------------------------------------------------------
(* Two threads are at one map, and one of them inserts.                    *)
Race ==
  \E t, u \in Threads :
    /\ t # u /\ Looks(t) /\ Looks(u)
    /\ inserting[t] /\ MapAt[at[t]] = MapAt[at[u]]

Step ==
  \/ \E t \in Receivers : Receiver(t) \/ Receive(t) \/ Accept(t)
  \/ Subscriber
  \/ Acceptor
  \/ JoinTcp \/ JoinConsumer
  \/ Signal \/ Crash \/ Terminated

Next == Step /\ raced' = (raced \/ Race')

(* No wait of the program is without a timeout; clients owe nothing.  A    *)
(* receive thread that waits for the topic's mutex gets it while the       *)
(* consumer sleeps without it.                                             *)
Spec ==
  /\ Init /\ [][Next]_vars
  /\ \A t \in Receivers : WF_core(Receiver(t)) /\ SF_core(Lock(t))
  /\ WF_core(Subscriber)
  /\ WF_core(Acceptor)
  /\ WF_core(JoinTcp \/ JoinConsumer)

-----------------------------------------------------------------------------
TypeOK ==
  /\ running \in BOOLEAN /\ scanned \in BOOLEAN /\ raced \in BOOLEAN
  /\ main \in {"wait", "joined", "exited", "crashed"}
  /\ tcp \in {"start", "accept", "join", "done"}
  /\ inserting \in [Threads -> BOOLEAN]
  /\ registry \in Receivers \cup {Nobody}
  /\ nodes \in [Maps -> Threads \cup {Nobody}]
  /\ owner \in [Threads -> Threads \cup {Nobody}]
  /\ received \in [Receivers -> 0..MaxMessages]
  /\ Len(hand) <= 1

(* The topic loses, doubles and reorders nothing: what was published is    *)
(* what the pipeline has had, what the consumer holds and what is queued.  *)
(* This needs the mutex around push and pop, and one mutex and one queue   *)
(* for all threads, whoever made them.                                     *)
TopicExact ==
  ~raced => pushed = consumed \o hand
                       \o (IF nodes["queues"] = Nobody THEN <<>>
                           ELSE queue[nodes["queues"]])

(* The maps are indexed outside the registry mutex, and yet a lookup can   *)
(* only meet an insertion while the consumer makes its first scan and the  *)
(* first envelope is on its way: afterwards nothing is left to insert.     *)
RacesOnlyAtFirst == [][~raced /\ raced' => ~scanned /\ pushed = <<>>]_vars

(* What the receive threads have taken from their clients reaches the     *)
(* pipeline once a burst is over, unless the process is told to stop.      *)
BurstsAreConsumed == []<>(~running \/ raced \/ Len(consumed) = Received)

(* After a signal the process ends, also when it never had a server or the *)
(* maps were damaged.                                                      *)
ShutdownCompletes == ~running ~> main \in {"exited", "crashed"}
=============================================================================
