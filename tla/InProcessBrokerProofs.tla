----------------------- MODULE InProcessBrokerProofs -----------------------
(***************************************************************************)
(* For any number of receive threads: until a lookup of the broker's maps  *)
(* meets an insertion the topic is exact, and none can once the consumer   *)
(* has been through the maps or an envelope has been published.            *)
(***************************************************************************)
EXTENDS InProcessBroker, SequenceTheorems, TLAPS

(* Where the threads can be.  The consumer never takes the registry mutex. *)
CriticalPlaces == {"queue", "read", "write"}
RegistryPlaces == {"regQueues", "regMutexes", "regCvs"}
SharedPlaces == {"mutex", "lock", "cv"} \cup CriticalPlaces
ReceiverPlaces ==
  {"none", "idle", "registry", "left"} \cup RegistryPlaces \cup SharedPlaces
ConsumerPlaces == {"scan", "sleep", "consume", "done"} \cup SharedPlaces

Envelopes == [from : Receivers, n : Nat]

PlacesOK(f) ==
  /\ f \in [Threads -> ReceiverPlaces \cup ConsumerPlaces]
  /\ \A t \in Receivers : f[t] \in ReceiverPlaces
  /\ f[Consumer] \in ConsumerPlaces

Types ==
  /\ PlacesOK(at)
  /\ inserting \in [Threads -> BOOLEAN]
  /\ nodes \in [Maps -> Threads \cup {Nobody}]
  /\ uses \in [Threads -> [queues : Threads \cup {Nobody},
                           mutexes : Threads \cup {Nobody}]]
  /\ owner \in [Threads -> Threads \cup {Nobody}]
  /\ queue \in [Threads -> Seq(Envelopes)]
  /\ copy \in [Threads -> Seq(Envelopes)]
  /\ received \in [Receivers -> Nat]
  /\ hand \in Seq(Envelopes) /\ consumed \in Seq(Envelopes)
  /\ pushed \in Seq(Envelopes)
  /\ scanned \in BOOLEAN

Made(m) == nodes[m] # Nobody

(* The registry mutex is owned by the thread inside the registry section.  *)
RegistryInv ==
  \A t \in Receivers : at[t] \in RegistryPlaces => registry = t

(* Which nodes there must be: one that a thread is about to insert is not  *)
(* there, and behind the registry section a receive thread finds all three.*)
NodesInv ==
  /\ \A t \in Threads :
       inserting[t] => Looks(t) /\ nodes[MapAt[at[t]]] = Nobody
  /\ \A t \in Receivers :
       /\ at[t] \in SharedPlaces => \A m \in Maps : Made(m)
       /\ at[t] = "regMutexes" => Made("queues")
       /\ at[t] = "regCvs" => Made("queues") /\ Made("mutexes")
  /\ scanned => Made("queues") /\ Made("mutexes")
  /\ pushed # <<>> => \A m \in Maps : Made(m)
  /\ at[Consumer] = "cv" => pushed # <<>>

(* All threads use the mutex and the queue that the maps hold.             *)
UsesInv ==
  \A t \in Threads :
    /\ at[t] \in CriticalPlaces \cup {"lock"} =>
         Made("mutexes") /\ uses[t].mutexes = nodes["mutexes"]
    /\ at[t] \in {"read", "write"} =>
         Made("queues") /\ uses[t].queues = nodes["queues"]

(* The topic's mutex is owned by the thread inside the critical section,   *)
(* so what it has read of the queue is still what the queue is.            *)
MutexInv ==
  \A t \in Threads :
    /\ at[t] \in CriticalPlaces => owner[nodes["mutexes"]] = t
    /\ at[t] = "write" => copy[t] = queue[nodes["queues"]]

(* A queue nobody has found yet is empty, and the consumer pops from one   *)
(* that is not.                                                            *)
QueueInv ==
  /\ \A n \in Threads : n # nodes["queues"] => queue[n] = <<>>
  /\ at[Consumer] = "write" => copy[Consumer] # <<>>
  /\ at[Consumer] \notin {"cv", "consume"} => hand = <<>>

Exact ==
  pushed = consumed \o hand \o (IF nodes["queues"] = Nobody THEN <<>>
                                ELSE queue[nodes["queues"]])

Strong ==
  /\ Types /\ RegistryInv /\ NodesInv /\ UsesInv /\ MutexInv /\ QueueInv
  /\ Exact

Inv == ~raced => Strong /\ ~Race

-----------------------------------------------------------------------------
(* The lookups.                                                            *)

LEMMA MapAtValues ==
  /\ DOMAIN MapAt = RegistryPlaces \cup {"mutex", "queue", "cv"}
  /\ MapAt["regQueues"] = "queues" /\ MapAt["queue"] = "queues"
  /\ MapAt["regMutexes"] = "mutexes" /\ MapAt["mutex"] = "mutexes"
  /\ MapAt["regCvs"] = "cvs" /\ MapAt["cv"] = "cvs"
  BY DEF MapAt, RegistryPlaces

LEMMA MapAtInMaps == ASSUME NEW t, Looks(t) PROVE MapAt[at[t]] \in Maps
  BY MapAtValues DEF Looks, Maps, RegistryPlaces

LEMMA StrongInit == Init => Strong /\ ~Race
<1> SUFFICES ASSUME Init PROVE Strong /\ ~Race
  OBVIOUS
<1> USE BrokerAssumption DEF Init
<1>1. Types
  <2>1. at \in [Threads -> ReceiverPlaces \cup ConsumerPlaces]
    BY DEF Threads, ReceiverPlaces, ConsumerPlaces
  <2>2. at[Consumer] \in ConsumerPlaces /\ \A t \in Receivers : at[t] \in ReceiverPlaces
    BY DEF Threads, ReceiverPlaces, ConsumerPlaces
  <2>3. [queues |-> Nobody, mutexes |-> Nobody]
          \in [queues : Threads \cup {Nobody}, mutexes : Threads \cup {Nobody}]
    OBVIOUS
  <2>4. uses \in [Threads -> [queues : Threads \cup {Nobody},
                                mutexes : Threads \cup {Nobody}]]
    BY <2>3
  <2>5. /\ inserting \in [Threads -> BOOLEAN]
        /\ nodes \in [Maps -> Threads \cup {Nobody}]
        /\ owner \in [Threads -> Threads \cup {Nobody}]
        /\ received \in [Receivers -> Nat]
    OBVIOUS
  <2>6. /\ queue \in [Threads -> Seq(Envelopes)]
        /\ copy \in [Threads -> Seq(Envelopes)]
    OBVIOUS
  <2>7. /\ hand \in Seq(Envelopes) /\ consumed \in Seq(Envelopes)
        /\ pushed \in Seq(Envelopes)
    OBVIOUS
  <2>8. scanned \in BOOLEAN
    OBVIOUS
  <2> HIDE DEF Init
  <2> QED BY <2>1, <2>2, <2>4, <2>5, <2>6, <2>7, <2>8, Zenon DEF Types, PlacesOK
<1>2. RegistryInv /\ UsesInv /\ MutexInv /\ QueueInv /\ Exact
  BY DEF RegistryInv, UsesInv, MutexInv, QueueInv, Exact, RegistryPlaces,
         CriticalPlaces, Threads, Maps
<1>3. NodesInv
  BY MapAtValues DEF NodesInv, SharedPlaces, CriticalPlaces, Threads, Looks
<1>4. ~Race
  BY DEF Race
<1> QED BY <1>1, <1>2, <1>3, <1>4 DEF Strong

-----------------------------------------------------------------------------
(* A thread that goes to another of its places.                             *)
LEMMA MovePlaces ==
  ASSUME PlacesOK(at), NEW t \in Threads, NEW to,
         t \in Receivers => to \in ReceiverPlaces,
         t = Consumer => to \in ConsumerPlaces
  PROVE  PlacesOK([at EXCEPT ![t] = to])
  BY BrokerAssumption DEF PlacesOK, Threads

-----------------------------------------------------------------------------
(* The lookups, one case for each place of a thread.                       *)

(* After and Reached, place by place.                                      *)
Goes(t, from, to) == at[t] = from /\ at' = [at EXCEPT ![t] = to]

Returned(t, n) ==
  \/ Goes(t, "regQueues", "regMutexes") /\ t \in Receivers /\ UNCHANGED <<registry, uses>>
  \/ Goes(t, "regMutexes", "regCvs") /\ t \in Receivers /\ UNCHANGED <<registry, uses>>
  \/ /\ Goes(t, "regCvs", "mutex") /\ t \in Receivers
     /\ registry = t /\ UNCHANGED uses
  \/ /\ Goes(t, "mutex", "lock")
     /\ uses' = [uses EXCEPT ![t]["mutexes"] = n] /\ UNCHANGED registry
  \/ /\ Goes(t, "queue", "read")
     /\ uses' = [uses EXCEPT ![t]["queues"] = n] /\ UNCHANGED registry
  \/ Goes(t, "cv", "idle") /\ t \in Receivers /\ UNCHANGED <<registry, uses>>
  \/ Goes(t, "cv", "consume") /\ t = Consumer /\ UNCHANGED <<registry, uses>>

LEMMA ReachedCases ==
  ASSUME Types, RegistryInv, NEW t \in Threads, NEW n \in Threads, Looks(t), Reached(t, n)
  PROVE  Returned(t, n)
<1> USE BrokerAssumption, MapAtValues DEF Types, PlacesOK, Threads, Returned, Goes
<1>1. at[t] \in RegistryPlaces => t \in Receivers
  BY DEF ConsumerPlaces, SharedPlaces, CriticalPlaces, RegistryPlaces
<1>2. CASE at[t] \in RegistryPlaces
  BY <1>1, <1>2 DEF Reached, After, RegistryInv, RegistryPlaces
<1>3. CASE at[t] = "mutex"
  BY <1>3 DEF Reached, After
<1>4. CASE at[t] = "queue"
  BY <1>4 DEF Reached, After
<1>5. CASE at[t] = "cv"
  BY <1>5 DEF Reached, After
<1>6. at[t] \in RegistryPlaces \cup {"mutex", "queue", "cv"}
  BY Zenon DEF Looks
<1> HIDE DEF Types, PlacesOK, Threads, Returned, Goes
<1> QED BY <1>2, <1>3, <1>4, <1>5, <1>6


(* What the two ways a lookup returns have in common: the node was there,  *)
(* or it is the thread's own and no other thread is about to insert.       *)
LEMMA LookupReturns ==
  ASSUME Strong, ~Race, NEW t \in Threads, Find(t) \/ InsertNode(t)
  PROVE  \E n \in Threads :
           LET m == MapAt[at[t]] IN
           /\ Looks(t) /\ m \in Maps /\ Reached(t, n)
           /\ nodes' = [nodes EXCEPT ![m] = n]
           /\ inserting' = [inserting EXCEPT ![t] = FALSE]
           /\ \/ nodes[m] = n
              \/ /\ nodes[m] = Nobody
                 /\ \A u \in Threads \ {t} : inserting[u] => MapAt[at[u]] # m
           /\ UNCHANGED <<program, data>>
<1> USE BrokerAssumption DEF Strong, Types, PlacesOK
<1>1. CASE Find(t)
  <2> DEFINE n == nodes[MapAt[at[t]]]
  <2>1. MapAt[at[t]] \in Maps /\ n \in Threads
    BY <1>1, MapAtInMaps DEF Find
  <2>2. nodes' = [nodes EXCEPT ![MapAt[at[t]]] = n] /\ inserting' = [inserting EXCEPT ![t] = FALSE]
    BY <1>1, <2>1 DEF Find
  <2> QED BY <1>1, <2>1, <2>2 DEF Find
<1>2. CASE InsertNode(t)
  <2>1. MapAt[at[t]] \in Maps /\ nodes[MapAt[at[t]]] = Nobody
    BY <1>2, MapAtInMaps DEF InsertNode, NodesInv
  <2>2. \A u \in Threads \ {t} : inserting[u] => MapAt[at[u]] # MapAt[at[t]]
    BY <1>2 DEF InsertNode, Race, NodesInv
  <2>3. nodes' = [nodes EXCEPT ![MapAt[at[t]]] = t]
    BY <1>2, <2>1 DEF InsertNode, Threads
  <2> WITNESS t \in Threads
  <2> QED BY <1>2, <2>1, <2>2, <2>3 DEF InsertNode
<1> QED BY <1>1, <1>2

LEMMA LookupStrong ==
  ASSUME Strong, ~Race, NEW t \in Threads, Find(t) \/ InsertNode(t)
  PROVE  Strong'
<1> DEFINE m == MapAt[at[t]]
<1>1. PICK n \in Threads :
        /\ Looks(t) /\ m \in Maps /\ Reached(t, n)
        /\ nodes' = [nodes EXCEPT ![m] = n]
        /\ inserting' = [inserting EXCEPT ![t] = FALSE]
        /\ \/ nodes[m] = n
           \/ /\ nodes[m] = Nobody
              /\ \A u \in Threads \ {t} : inserting[u] => MapAt[at[u]] # m
        /\ UNCHANGED <<program, data>>
  BY LookupReturns
<1>2. n # Nobody
  BY <1>1, BrokerAssumption
<1>3. /\ \A k \in Maps : Made(k) => nodes'[k] = nodes[k] /\ Made(k)'
      /\ nodes'[m] = n
  BY <1>1, <1>2 DEF Made, Strong, Types, PlacesOK
<1>4. Returned(t, n)
  BY <1>1, ReachedCases DEF Strong
<1> USE DEF Strong, Types, PlacesOK, Returned, Goes
<1>5. Types'
  <2> DEFINE Refs == [queues : Threads \cup {Nobody}, mutexes : Threads \cup {Nobody}]
  <2>1. /\ at' \in [Threads -> ReceiverPlaces \cup ConsumerPlaces]
        /\ \A u \in Receivers : at'[u] \in ReceiverPlaces
        /\ at'[Consumer] \in ConsumerPlaces
    <3>1. at' = [at EXCEPT ![t] = at'[t]]
      BY <1>4
    <3>2. /\ t \in Receivers => at'[t] \in ReceiverPlaces
          /\ t = Consumer => at'[t] \in ConsumerPlaces
      BY <1>4, BrokerAssumption DEF ReceiverPlaces, ConsumerPlaces,
         SharedPlaces, CriticalPlaces, RegistryPlaces
    <3> QED BY <3>1, <3>2, BrokerAssumption DEF Threads
  <2>2. uses' \in [Threads -> Refs]
    <3>1. /\ [uses[t] EXCEPT !.mutexes = n] \in Refs
          /\ [uses[t] EXCEPT !.queues = n] \in Refs
      BY Zenon
    <3>2. CASE UNCHANGED uses
      BY <3>2
    <3>3. CASE uses' = [uses EXCEPT ![t]["mutexes"] = n]
      BY <3>1, <3>3
    <3>4. CASE uses' = [uses EXCEPT ![t]["queues"] = n]
      BY <3>1, <3>4
    <3> QED BY <1>4, <3>2, <3>3, <3>4
  <2>3. /\ inserting' \in [Threads -> BOOLEAN]
        /\ nodes' \in [Maps -> Threads \cup {Nobody}]
    BY <1>1
  <2> QED BY <1>1, <2>1, <2>2, <2>3 DEF data, program
<1>6. RegistryInv'
  BY <1>4 DEF RegistryInv, RegistryPlaces, Threads
<1>7. UsesInv'
  <2> SUFFICES ASSUME NEW u \in Threads
               PROVE  /\ at'[u] \in CriticalPlaces \cup {"lock"} =>
                           Made("mutexes")' /\ uses'[u].mutexes = nodes'["mutexes"]
                      /\ at'[u] \in {"read", "write"} =>
                           Made("queues")' /\ uses'[u].queues = nodes'["queues"]
    BY DEF UsesInv
  <2>1. CASE u # t
    BY <1>3, <1>4, <2>1 DEF UsesInv, CriticalPlaces, Maps
  <2>2. CASE u = t
    BY <1>2, <1>3, <1>4, <2>2, MapAtValues DEF UsesInv, CriticalPlaces, Maps, Made
  <2> QED BY <2>1, <2>2
<1>8. MutexInv'
  BY <1>1, <1>3, <1>4 DEF MutexInv, UsesInv, CriticalPlaces, data, Maps
<1>9. QueueInv'
  <2>1. \A k \in Threads : k # nodes'["queues"] => queue'[k] = <<>>
    BY <1>1, <1>3, BrokerAssumption DEF QueueInv, data, Made, Maps
  <2>2. at'[Consumer] = "write" => copy'[Consumer] # <<>>
    BY <1>1, <1>4 DEF QueueInv, data, Threads
  <2>3. at'[Consumer] \notin {"cv", "consume"} => hand' = <<>>
    BY <1>1, <1>4, BrokerAssumption DEF QueueInv, data, Threads
  <2> QED BY <2>1, <2>2, <2>3 DEF QueueInv
<1>10. Exact'
  BY <1>1, <1>3 DEF Exact, QueueInv, data, Made, Maps
<1>11. NodesInv'
  <2>1. ASSUME NEW u \in Threads, inserting'[u]
        PROVE  Looks(u)' /\ nodes'[MapAt[at'[u]]] = Nobody
    <3>1. u # t /\ inserting[u] /\ at'[u] = at[u]
      BY <1>1, <1>4, <2>1
    <3>2. Looks(u) /\ MapAt[at[u]] # m /\ nodes[MapAt[at[u]]] = Nobody
      BY <1>1, <1>2, <3>1 DEF NodesInv
    <3>3. MapAt[at[u]] \in Maps
      BY <3>2, MapAtInMaps
    <3> QED BY <1>1, <3>1, <3>2, <3>3 DEF Looks
  <2>2. ASSUME NEW u \in Receivers
        PROVE  /\ at'[u] \in SharedPlaces => \A k \in Maps : Made(k)'
               /\ at'[u] = "regMutexes" => Made("queues")'
               /\ at'[u] = "regCvs" => Made("queues")' /\ Made("mutexes")'
    <3>1. CASE u # t
      BY <1>3, <1>4, <3>1 DEF NodesInv, Maps, Threads
    <3>2. CASE u = t
      BY <1>2, <1>3, <1>4, <3>2, MapAtValues
         DEF NodesInv, Maps, Made, SharedPlaces, CriticalPlaces, Threads
    <3> QED BY <3>1, <3>2
  <2>3. /\ scanned' => Made("queues")' /\ Made("mutexes")'
        /\ pushed' # <<>> => \A k \in Maps : Made(k)'
        /\ at'[Consumer] = "cv" => pushed' # <<>>
    BY <1>1, <1>3, <1>4 DEF NodesInv, data, Maps, Threads
  <2> QED BY <2>1, <2>2, <2>3 DEF NodesInv
<1> QED BY <1>5, <1>6, <1>7, <1>8, <1>9, <1>10, <1>11 DEF Strong

LEMMA FindNothingStrong ==
  ASSUME Strong, NEW t \in Threads, FindNothing(t)
  PROVE  Strong'
<1> USE DEF FindNothing, Strong, data
<1>1. Types'
  BY DEF Types, program
<1>2. NodesInv'
  BY DEF NodesInv, Looks, Made, Types
<1>3. RegistryInv' /\ UsesInv' /\ MutexInv' /\ QueueInv' /\ Exact'
  BY DEF RegistryInv, UsesInv, MutexInv, QueueInv, Exact, Made
<1> QED BY <1>1, <1>2, <1>3

-----------------------------------------------------------------------------
(* The critical section.                                                   *)

LEMMA LockStrong ==
  ASSUME Strong, NEW t \in Threads, Lock(t)
  PROVE  Strong'
<1> USE DEF Lock, Goto, Strong, Types
<1>1. PlacesOK(at)'
  BY MovePlaces DEF ReceiverPlaces, ConsumerPlaces, SharedPlaces, CriticalPlaces
<1>2. RegistryInv'
  BY DEF RegistryInv, RegistryPlaces, PlacesOK
<1>3. NodesInv'
  BY MapAtValues, BrokerAssumption DEF NodesInv, Looks, Made, SharedPlaces,
     CriticalPlaces, RegistryPlaces, PlacesOK, Threads
<1>4. UsesInv'
  BY DEF UsesInv, Made, CriticalPlaces, PlacesOK, Maps
<1>5. MutexInv'
  <2>1. Made("mutexes") /\ uses[t].mutexes = nodes["mutexes"]
    BY DEF UsesInv
  <2>2. \A u \in Threads : at[u] \notin CriticalPlaces
    BY <2>1, BrokerAssumption DEF MutexInv
  <2> QED BY <2>1, <2>2 DEF MutexInv, CriticalPlaces, PlacesOK, Made, Maps
<1>6. QueueInv' /\ Exact'
  BY BrokerAssumption DEF QueueInv, Exact, PlacesOK, Threads
<1>7. Types'
  BY <1>1 DEF program
<1> QED BY <1>1, <1>2, <1>3, <1>4, <1>5, <1>6, <1>7

LEMMA ReadQueueStrong ==
  ASSUME Strong, NEW t \in Threads, ReadQueue(t)
  PROVE  Strong'
<1> USE DEF ReadQueue, Goto, Strong, Types
<1>1. PlacesOK(at)'
  BY MovePlaces DEF ReceiverPlaces, ConsumerPlaces, SharedPlaces, CriticalPlaces
<1>2. RegistryInv'
  BY DEF RegistryInv, RegistryPlaces, PlacesOK
<1>3. NodesInv'
  BY MapAtValues, BrokerAssumption DEF NodesInv, Looks, Made, SharedPlaces,
     CriticalPlaces, RegistryPlaces, PlacesOK, Threads
<1>4. UsesInv' /\ MutexInv'
  BY DEF UsesInv, MutexInv, Made, CriticalPlaces, PlacesOK, Maps
<1>5. QueueInv' /\ Exact'
  BY BrokerAssumption DEF QueueInv, Exact, PlacesOK, UsesInv, Threads
<1>6. Types'
  <2>1. uses[t].queues \in Threads
    BY BrokerAssumption DEF UsesInv, Made, Maps
  <2> QED BY <1>1, <2>1 DEF program
<1> QED BY <1>1, <1>2, <1>3, <1>4, <1>5, <1>6

(* What a thread between the read and the write of the queue relies on.    *)
LEMMA WriterFacts ==
  ASSUME Strong, NEW t \in Threads, at[t] = "write"
  PROVE  /\ Made("mutexes") /\ uses[t].mutexes = nodes["mutexes"]
         /\ Made("queues") /\ uses[t].queues = nodes["queues"]
         /\ copy[t] = queue[nodes["queues"]]
         /\ nodes["mutexes"] \in Threads /\ nodes["queues"] \in Threads
         /\ \A u \in Threads : u # t => at[u] \notin CriticalPlaces
  BY DEF Strong, UsesInv, MutexInv, CriticalPlaces, Types, Made, Maps

LEMMA PushStrong ==
  ASSUME Strong, NEW t \in Receivers, Push(t)
  PROVE  Strong'
<1> DEFINE q == nodes["queues"]
           e == Envelope(t)
<1> USE DEF Strong
<1>1. t \in Threads /\ t # Consumer /\ at[t] = "write" /\ (\A m \in Maps : Made(m))
  BY BrokerAssumption DEF Push, Threads, NodesInv, SharedPlaces, CriticalPlaces
<1>2. /\ nodes["mutexes"] \in Threads /\ q \in Threads /\ q # Nobody
      /\ \A u \in Threads : u # t => at[u] \notin CriticalPlaces
  BY <1>1, WriterFacts, BrokerAssumption
<1>3. e \in Envelopes
  BY DEF Envelope, Envelopes, Types
<1>4. /\ queue' = [queue EXCEPT ![q] = Append(queue[q], e)]
      /\ owner' = [owner EXCEPT ![nodes["mutexes"]] = Nobody]
      /\ copy' = [copy EXCEPT ![t] = <<>>]
      /\ at' = [at EXCEPT ![t] = "cv"]
      /\ pushed' = Append(pushed, e)
      /\ UNCHANGED <<program, inserting, registry, nodes, uses, hand, consumed,
                     scanned>>
  BY <1>1, WriterFacts DEF Push, Unlock, Goto
<1>5. /\ queue[q] \in Seq(Envelopes) /\ Append(queue[q], e) \in Seq(Envelopes)
      /\ pushed \in Seq(Envelopes) /\ Append(pushed, e) \in Seq(Envelopes)
      /\ Append(pushed, e) # <<>>
      /\ hand \in Seq(Envelopes) /\ consumed \in Seq(Envelopes)
  <2>1. queue[q] \in Seq(Envelopes)
    BY <1>2 DEF Types
  <2>2. pushed \in Seq(Envelopes) /\ hand \in Seq(Envelopes) /\ consumed \in Seq(Envelopes)
    BY DEF Types
  <2>3. Append(queue[q], e) \in Seq(Envelopes)
    BY ONLY <1>3, <2>1, AppendProperties
  <2>4. Append(pushed, e) \in Seq(Envelopes) /\ Append(pushed, e) # <<>>
    BY ONLY <1>3, <2>2, AppendProperties
  <2> QED BY <2>1, <2>2, <2>3, <2>4
<1>6. PlacesOK(at)'
  BY <1>1, <1>4, MovePlaces DEF ReceiverPlaces, SharedPlaces, Types
<1>7. Types'
  <2>1. owner' \in [Threads -> Threads \cup {Nobody}]
    BY <1>4 DEF Types
  <2>2. queue' \in [Threads -> Seq(Envelopes)]
    BY <1>4, <1>5 DEF Types
  <2>3. copy' \in [Threads -> Seq(Envelopes)]
    <3>1. <<>> \in Seq(Envelopes)
      OBVIOUS
    <3> QED BY <1>4, <3>1 DEF Types
  <2>4. pushed' \in Seq(Envelopes)
    BY <1>4, <1>5
  <2>5. UNCHANGED <<inserting, nodes, uses, received, hand, consumed, scanned>>
    BY <1>4 DEF program
  <2> QED BY <1>6, <2>1, <2>2, <2>3, <2>4, <2>5 DEF Types
<1>8. RegistryInv'
  BY <1>1, <1>4 DEF RegistryInv, RegistryPlaces, Types, PlacesOK
<1>9. NodesInv'
  <2>1. \A u \in Threads : inserting[u] => u # t
    BY <1>1, MapAtValues DEF NodesInv, Looks, RegistryPlaces
  <2> QED BY <1>1, <1>4, <1>5, <2>1
          DEF NodesInv, Looks, Made, SharedPlaces, Types, PlacesOK, Maps
<1>10. UsesInv'
  BY <1>1, <1>2, <1>4 DEF UsesInv, Made, CriticalPlaces, Types, PlacesOK
<1>11. MutexInv'
  BY <1>1, <1>2, <1>4 DEF MutexInv, CriticalPlaces, Types, PlacesOK
<1>12. QueueInv'
  BY <1>1, <1>2, <1>4, BrokerAssumption
     DEF QueueInv, CriticalPlaces, Types, PlacesOK, Threads
<1>13. Exact'
  <2>1. pushed = (consumed \o hand) \o queue[q] /\ consumed \o hand \in Seq(Envelopes)
    BY <1>2, <1>5, ConcatProperties DEF Exact
  <2>2. Append(pushed, e) = (consumed \o hand) \o Append(queue[q], e)
    <3> DEFINE p == consumed \o hand
               z == queue[q]
    <3>1. p \in Seq(Envelopes) /\ z \in Seq(Envelopes) /\ e \in Envelopes
      BY <1>3, <1>5, <2>1
    <3> HIDE DEF p, z, e
    <3>2. Append(p \o z, e) = p \o Append(z, e)
      BY <3>1
    <3> QED BY <2>1, <3>2 DEF p, z
  <2> QED BY <1>2, <1>4, <2>2 DEF Exact, Types
<1> QED BY <1>7, <1>8, <1>9, <1>10, <1>11, <1>12, <1>13

(* The first envelope of a queue moves in front of the rest of it.         *)
LEMMA HeadMoves ==
  ASSUME NEW s \in Seq(Envelopes), NEW z \in Seq(Envelopes), z # <<>>
  PROVE  /\ s \o <<>> \o z = s \o <<Head(z)>> \o Tail(z)
         /\ <<Head(z)>> \in Seq(Envelopes) /\ Tail(z) \in Seq(Envelopes)
  OBVIOUS

LEMMA PopStrong ==
  ASSUME Strong, Pop
  PROVE  Strong'
<1> DEFINE q == nodes["queues"]
<1> USE DEF Strong
<1>1. Consumer \in Threads /\ at[Consumer] = "write" /\ Consumer \notin Receivers
  BY BrokerAssumption DEF Pop, Threads
<1>2. /\ nodes["mutexes"] \in Threads /\ q \in Threads /\ q # Nobody
      /\ Made("mutexes") /\ Made("queues")
      /\ \A u \in Threads : u # Consumer => at[u] \notin CriticalPlaces
  BY <1>1, WriterFacts, BrokerAssumption
<1>3. /\ queue[q] # <<>> /\ queue[q] \in Seq(Envelopes)
      /\ consumed \in Seq(Envelopes) /\ hand = <<>>
  BY <1>1, <1>2, WriterFacts DEF QueueInv, Types
<1>4. /\ queue' = [queue EXCEPT ![q] = Tail(queue[q])]
      /\ owner' = [owner EXCEPT ![nodes["mutexes"]] = Nobody]
      /\ copy' = [copy EXCEPT ![Consumer] = <<>>]
      /\ at' = [at EXCEPT ![Consumer] = "cv"]
      /\ hand' = <<Head(queue[q])>> /\ scanned' = TRUE
      /\ UNCHANGED <<program, inserting, registry, nodes, uses, consumed, pushed>>
  BY <1>1, WriterFacts DEF Pop, Unlock, Goto
<1>5. /\ consumed \o <<>> \o queue[q] = consumed \o <<Head(queue[q])>> \o Tail(queue[q])
      /\ <<Head(queue[q])>> \in Seq(Envelopes) /\ Tail(queue[q]) \in Seq(Envelopes)
  BY <1>3, HeadMoves
<1>6. PlacesOK(at)'
  BY <1>1, <1>4, MovePlaces DEF ConsumerPlaces, SharedPlaces, Types
<1>7. Types'
  BY <1>1, <1>2, <1>4, <1>5, <1>6 DEF Types, program
<1>8. RegistryInv'
  BY <1>1, <1>4 DEF RegistryInv, Types, PlacesOK
<1>9. pushed # <<>>
  BY <1>2, <1>3 DEF Exact
<1>10. NodesInv'
  <2>1. \A u \in Threads : inserting[u] => u # Consumer
    BY <1>1, MapAtValues DEF NodesInv, Looks, RegistryPlaces
  <2> QED BY <1>1, <1>2, <1>4, <1>9, <2>1
          DEF NodesInv, Looks, Made, SharedPlaces, Types, PlacesOK, Maps, Threads
<1>11. UsesInv'
  BY <1>1, <1>2, <1>4 DEF UsesInv, Made, CriticalPlaces, Types, PlacesOK
<1>12. MutexInv'
  BY <1>1, <1>2, <1>4 DEF MutexInv, CriticalPlaces, Types, PlacesOK
<1>13. QueueInv'
  BY <1>1, <1>2, <1>4 DEF QueueInv, Types, PlacesOK
<1>14. Exact'
  BY <1>2, <1>3, <1>4, <1>5 DEF Exact, Types
<1> QED BY <1>7, <1>8, <1>10, <1>11, <1>12, <1>13, <1>14

LEMMA TopicEmptyStrong ==
  ASSUME Strong, TopicEmpty
  PROVE  Strong'
<1> USE DEF Strong
<1>1. Consumer \in Threads /\ at[Consumer] = "read" /\ Consumer \notin Receivers
  BY BrokerAssumption DEF TopicEmpty, Threads
<1>2. /\ Made("mutexes") /\ Made("queues") /\ uses[Consumer].mutexes = nodes["mutexes"]
      /\ \A u \in Threads : u # Consumer => at[u] \notin CriticalPlaces
  BY <1>1 DEF UsesInv, MutexInv, CriticalPlaces
<1>3. /\ owner' = [owner EXCEPT ![nodes["mutexes"]] = Nobody]
      /\ at' = [at EXCEPT ![Consumer] = "sleep"]
      /\ scanned' = TRUE
      /\ UNCHANGED <<program, inserting, registry, nodes, uses, queue, copy, hand,
                     consumed, pushed>>
  BY <1>2 DEF TopicEmpty, Unlock, Goto
<1>4. PlacesOK(at)'
  BY <1>1, <1>3, MovePlaces DEF ConsumerPlaces, Types
<1>5. Types'
  BY <1>3, <1>4 DEF Types, program
<1>6. RegistryInv' /\ Exact'
  BY <1>1, <1>3 DEF RegistryInv, Exact, Types, PlacesOK
<1>7. NodesInv'
  <2>1. \A u \in Threads : inserting[u] => u # Consumer
    BY <1>1, MapAtValues DEF NodesInv, Looks, RegistryPlaces
  <2> QED BY <1>1, <1>2, <1>3, <2>1
          DEF NodesInv, Looks, Made, Types, PlacesOK, Maps, Threads
<1>8. UsesInv'
  BY <1>1, <1>3 DEF UsesInv, Made, CriticalPlaces, Types, PlacesOK
<1>9. MutexInv'
  BY <1>1, <1>2, <1>3 DEF MutexInv, CriticalPlaces, Types, PlacesOK
<1>10. QueueInv'
  BY <1>1, <1>3 DEF QueueInv, Types, PlacesOK
<1> QED BY <1>5, <1>6, <1>7, <1>8, <1>9, <1>10

(* A thread that walks between places at which it uses nothing of the      *)
(* topic; the consumer may walk to the lookup of the mutex.                *)
QuietPlaces == {"none", "idle", "registry", "left", "scan", "sleep", "done"}

LEMMA QuietStrong ==
  ASSUME Strong, NEW t \in Threads, NEW to, at[t] \in QuietPlaces,
         at' = [at EXCEPT ![t] = to],
         t \in Receivers => to \in ReceiverPlaces \cap QuietPlaces,
         t = Consumer => to \in ConsumerPlaces \cap (QuietPlaces \cup {"mutex"}),
         received' \in [Receivers -> Nat],
         UNCHANGED <<inserting, registry, nodes, uses, data>>
  PROVE  Strong'
<1> USE DEF Strong, data
<1>1. PlacesOK(at)'
  BY MovePlaces DEF Types
<1>2. Types'
  BY <1>1 DEF Types
<1>3. to \in QuietPlaces \/ (t = Consumer /\ to = "mutex")
  BY DEF Threads
<1>4. RegistryInv' /\ Exact'
  BY <1>3, BrokerAssumption DEF RegistryInv, RegistryPlaces, QuietPlaces, Exact, Types, PlacesOK, Threads
<1>5. NodesInv'
  <2>1. \A u \in Threads : inserting[u] => u # t
    BY MapAtValues DEF NodesInv, Looks, RegistryPlaces, QuietPlaces
  <2> QED BY <1>3, <2>1, BrokerAssumption
          DEF NodesInv, Looks, Made, SharedPlaces, CriticalPlaces, QuietPlaces, Types, PlacesOK, Threads
<1>6. UsesInv' /\ MutexInv'
  BY <1>3 DEF UsesInv, MutexInv, Made, CriticalPlaces, QuietPlaces, Types, PlacesOK
<1>7. QueueInv'
  BY <1>3 DEF QueueInv, QuietPlaces, Types, PlacesOK
<1> QED BY <1>2, <1>4, <1>5, <1>6, <1>7

LEMMA ConsumeStrong ==
  ASSUME Strong, Consume
  PROVE  Strong'
<1> USE DEF Strong
<1>1. /\ Consumer \in Threads /\ at[Consumer] = "consume" /\ Consumer \notin Receivers
      /\ at' = [at EXCEPT ![Consumer] = "scan"]
      /\ consumed' = consumed \o hand /\ hand' = <<>>
      /\ UNCHANGED <<program, inserting, registry, nodes, uses, owner, queue, copy,
                     pushed, scanned>>
  BY BrokerAssumption DEF Consume, Goto, Threads
<1>2. PlacesOK(at)'
  BY <1>1, MovePlaces DEF ConsumerPlaces, Types
<1>3. Types'
  BY <1>1, <1>2, ConcatProperties DEF Types, program
<1>4. RegistryInv'
  BY <1>1 DEF RegistryInv, Types, PlacesOK
<1>5. NodesInv'
  <2>1. \A u \in Threads : inserting[u] => u # Consumer
    BY <1>1, MapAtValues DEF NodesInv, Looks, RegistryPlaces
  <2> QED BY <1>1, <2>1 DEF NodesInv, Looks, Made, Types, PlacesOK, Threads
<1>6. UsesInv' /\ MutexInv'
  BY <1>1 DEF UsesInv, MutexInv, Made, CriticalPlaces, Types, PlacesOK
<1>7. QueueInv'
  BY <1>1 DEF QueueInv, Types, PlacesOK
<1>8. Exact'
  <2>1. consumed \o hand \o <<>> = consumed \o hand
    BY ConcatProperties, ConcatEmptySeq DEF Types
  <2> QED BY <1>1, <2>1 DEF Exact
<1> QED BY <1>3, <1>4, <1>5, <1>6, <1>7, <1>8

LEMMA LockRegistryStrong ==
  ASSUME Strong, NEW t \in Receivers, LockRegistry(t)
  PROVE  Strong'
<1> USE DEF Strong
<1>1. /\ t \in Threads /\ at[t] = "registry" /\ t # Consumer
      /\ at' = [at EXCEPT ![t] = "regQueues"] /\ registry' = t
      /\ UNCHANGED <<program, inserting, nodes, uses, data>>
  BY BrokerAssumption DEF LockRegistry, Goto, Threads
<1>2. PlacesOK(at)'
  BY <1>1, MovePlaces DEF ReceiverPlaces, RegistryPlaces, Types
<1>3. Types'
  BY <1>1, <1>2 DEF Types, program, data
<1>4. RegistryInv'
  BY <1>1, BrokerAssumption DEF LockRegistry, RegistryInv, Types, PlacesOK, Threads
<1>5. NodesInv'
  <2>1. \A u \in Threads : inserting[u] => u # t
    BY <1>1, MapAtValues DEF NodesInv, Looks, RegistryPlaces
  <2> QED BY <1>1, <2>1 DEF NodesInv, Looks, Made, SharedPlaces, CriticalPlaces,
                           Types, PlacesOK, Threads, data
<1>6. UsesInv' /\ MutexInv'
  BY <1>1 DEF UsesInv, MutexInv, Made, CriticalPlaces, Types, PlacesOK, data
<1>7. QueueInv' /\ Exact'
  BY <1>1 DEF QueueInv, Exact, Types, PlacesOK, data
<1> QED BY <1>3, <1>4, <1>5, <1>6, <1>7

(* A step before the first race keeps all of it, also a step into one.     *)
LEMMA StepStrong ==
  ASSUME Strong, ~Race, ~raced, Step
  PROVE  Strong'
<1> USE DEF QuietPlaces, ReceiverPlaces, ConsumerPlaces
<1>1. ASSUME NEW t \in Threads, Lookup(t) \/ Lock(t) \/ ReadQueue(t)
      PROVE  Strong'
  BY <1>1, LookupStrong, FindNothingStrong, LockStrong, ReadQueueStrong DEF Lookup
<1>2. Receivers \subseteq Threads /\ Consumer \in Threads /\ Consumer \notin Receivers
  BY BrokerAssumption DEF Threads
<1>3. received \in [Receivers -> Nat]
  BY DEF Strong, Types
<1>4. ASSUME NEW t \in Receivers, Receiver(t)
      PROVE  Strong'
  <2>1. CASE ReceiverStops(t)
    <3>1. /\ at[t] = "idle" /\ at' = [at EXCEPT ![t] = "left"]
          /\ UNCHANGED <<received, inserting, registry, nodes, uses, data>>
      BY <2>1 DEF ReceiverStops, Goto, program
    <3> QED BY <1>2, <1>3, <3>1, QuietStrong
  <2> QED BY <1>1, <1>2, <1>4, <2>1, LockRegistryStrong, PushStrong DEF Receiver
<1>5. ASSUME NEW t \in Receivers, Receive(t)
      PROVE  Strong'
  <2>1. /\ at[t] = "idle" /\ at' = [at EXCEPT ![t] = "registry"]
        /\ received' \in [Receivers -> Nat]
        /\ UNCHANGED <<inserting, registry, nodes, uses, data>>
    BY <1>3, <1>5 DEF Receive, Goto
  <2> QED BY <1>2, <2>1, QuietStrong
<1>6. ASSUME NEW t \in Receivers, Accept(t)
      PROVE  Strong'
  <2>1. /\ at[t] = "none" /\ at' = [at EXCEPT ![t] = "idle"]
        /\ UNCHANGED <<received, inserting, registry, nodes, uses, data>>
    BY <1>6 DEF Accept, Goto, program
  <2> QED BY <1>2, <1>3, <2>1, QuietStrong
<1>7. CASE Subscriber
  <2>1. CASE Scan
    <3>1. /\ at[Consumer] = "scan"
          /\ UNCHANGED <<received, inserting, registry, nodes, uses, data>>
      BY <2>1 DEF Scan, program
    <3>2. CASE at' = [at EXCEPT ![Consumer] = "mutex"]
      <4>1. /\ "mutex" \in ConsumerPlaces \cap (QuietPlaces \cup {"mutex"})
            /\ at[Consumer] \in QuietPlaces
        BY <3>1 DEF SharedPlaces
      <4> HIDE DEF QuietPlaces, ConsumerPlaces, ReceiverPlaces
      <4> QED BY <1>2, <1>3, <3>1, <3>2, <4>1, QuietStrong
    <3>3. CASE at' = [at EXCEPT ![Consumer] = "done"]
      BY <1>2, <1>3, <3>1, <3>3, QuietStrong
    <3> QED BY <2>1, <3>2, <3>3 DEF Scan, Goto
  <2>2. CASE Sleep
    <3>1. /\ at[Consumer] = "sleep" /\ at' = [at EXCEPT ![Consumer] = "scan"]
          /\ UNCHANGED <<received, inserting, registry, nodes, uses, data>>
      BY <2>2 DEF Sleep, Goto, program
    <3> QED BY <1>2, <1>3, <3>1, QuietStrong
  <2> QED BY <1>1, <1>2, <1>7, <2>1, <2>2, TopicEmptyStrong, PopStrong, ConsumeStrong
          DEF Subscriber
<1>8. CASE UNCHANGED <<received, places, data>>
  BY <1>8 DEF places, data, Strong, Types, PlacesOK, RegistryInv, NodesInv, Looks,
              Made, UsesInv, MutexInv, QueueInv, Exact
<1> QED
  BY <1>4, <1>5, <1>6, <1>7, <1>8
     DEF Step, Acceptor, CreateServer, AcceptStops, JoinReceivers, JoinTcp,
         JoinConsumer, Signal, Crash, Terminated, core, program

LEMMA InvStep == Inv /\ [Next]_vars => Inv'
<1> SUFFICES ASSUME Inv, [Next]_vars, ~raced' PROVE Strong' /\ ~Race'
  BY DEF Inv
<1>1. CASE Next
  BY <1>1, StepStrong DEF Inv, Next
<1>2. CASE UNCHANGED vars
  <2>1. UNCHANGED <<raced, at, inserting>> /\ UNCHANGED <<received, places, data>>
    BY <1>2 DEF vars, core, places, program
  <2>2. Strong /\ ~Race
    BY <2>1 DEF Inv
  <2>3. Strong'
    BY <2>1, <2>2 DEF places, data, Strong, Types, PlacesOK, RegistryInv, NodesInv,
       Looks, Made, UsesInv, MutexInv, QueueInv, Exact
  <2>4. ~Race'
    BY <2>1, <2>2 DEF Race, Looks
  <2> QED BY <2>3, <2>4
<1> QED BY <1>1, <1>2

(* The invariant that the two theorems below rest on.                      *)
THEOREM Invariant == Spec => []Inv
<1>1. Init => Inv
  BY StrongInit DEF Inv
<1> QED BY <1>1, InvStep, PTL DEF Spec

(* The topic loses, doubles and reorders nothing, whatever the number of   *)
(* clients and envelopes (publish_to_topic, tryPopMessage).                *)
THEOREM TopicIsExact == Spec => []TopicExact
<1>1. Inv => TopicExact
  BY DEF Inv, Strong, Exact, TopicExact
<1> QED BY <1>1, Invariant, PTL

-----------------------------------------------------------------------------
(* Why a race needs a first scan and a first envelope: otherwise there is  *)
(* no thread left that may insert, but the one inside the registry section.*)
LEMMA NoRaceLater ==
  ASSUME Strong, scanned \/ pushed # <<>>
  PROVE  ~Race
<1> SUFFICES ASSUME NEW t \in Threads, NEW u \in Threads, t # u, Looks(t), Looks(u),
                    inserting[t], MapAt[at[t]] = MapAt[at[u]]
             PROVE  FALSE
  BY DEF Race
<1> USE DEF Strong
<1>1. MapAt[at[t]] \in Maps /\ ~Made(MapAt[at[t]])
  BY MapAtInMaps DEF NodesInv, Made
<1>2. pushed = <<>> /\ MapAt[at[t]] = "cvs"
  BY <1>1 DEF NodesInv, Maps
<1>3. at[t] \in {"regCvs", "cv"} /\ at[u] \in {"regCvs", "cv"}
  BY <1>2, MapAtValues DEF Looks, RegistryPlaces
<1>4. \A v \in {t, u} : at[v] = "regCvs" /\ v \in Receivers
  BY <1>1, <1>2, <1>3, BrokerAssumption
     DEF NodesInv, Types, PlacesOK, ConsumerPlaces, SharedPlaces, CriticalPlaces, Threads
<1> QED BY <1>4 DEF RegistryInv, RegistryPlaces

LEMMA ScannedStays ==
  ASSUME Strong, ~raced, Step
  PROVE  (scanned => scanned') /\ (pushed # <<>> => pushed' # <<>>)
<1>1. ASSUME NEW t \in Threads, Lookup(t) \/ Lock(t) \/ ReadQueue(t)
      PROVE  UNCHANGED <<scanned, pushed>>
  BY <1>1 DEF Lookup, Find, FindNothing, InsertNode, Lock, ReadQueue, data
<1>2. ASSUME NEW t \in Receivers, Push(t)
      PROVE  UNCHANGED scanned /\ pushed' # <<>>
  <2>1. Envelope(t) \in Envelopes /\ pushed \in Seq(Envelopes)
    BY DEF Envelope, Envelopes, Strong, Types
  <2> QED BY <1>2, <2>1, AppendProperties DEF Push
<1> QED
  BY <1>1, <1>2 DEF Step, Receiver, Receive, ReceiverStops, LockRegistry, Accept,
     Subscriber, Scan, TopicEmpty, Sleep, Pop, Consume, Acceptor, CreateServer,
     AcceptStops, JoinReceivers, JoinTcp, JoinConsumer, Signal, Crash, Terminated,
     core, data, Threads

(* Only the first scan and the first envelope can meet in the maps: the    *)
(* lookups outside the registry mutex are safe from then on, for any       *)
(* number of receive threads.                                              *)
THEOREM RacesOnlyFirst == Spec => RacesOnlyAtFirst
<1>1. Inv /\ Next /\ ~raced /\ raced' => ~scanned /\ pushed = <<>>
  <2> SUFFICES ASSUME Inv, Next, ~raced, raced', scanned \/ pushed # <<>> PROVE FALSE
    OBVIOUS
  <2>1. Strong /\ ~Race /\ Step /\ Race'
    BY DEF Inv, Next
  <2>2. Strong'
    BY <2>1, StepStrong
  <2>3. (scanned \/ pushed # <<>>)'
    BY <2>1, ScannedStays
  <2>4. Strong' /\ (scanned \/ pushed # <<>>)' => ~Race'
    BY NoRaceLater, PTL
  <2> QED BY <2>1, <2>2, <2>3, <2>4
<1>2. Inv /\ [Next]_vars => [~raced /\ raced' => ~scanned /\ pushed = <<>>]_vars
  BY <1>1
<1> QED BY <1>2, Invariant, PTL DEF Spec, RacesOnlyAtFirst
=============================================================================
