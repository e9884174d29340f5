------------------------------ MODULE Collector ------------------------------
(***************************************************************************)
(* A collector: a poll thread per city samples the weather service round   *)
(* after round and pushes packets into weatherQueue, and one sender thread *)
(* publishes them.  The queue holds at most MAX_QUEUE_SIZE packets.  All   *)
(* threads share one mutex and one condition variable, queueCv, on which   *)
(* they wait for three different things and which is signalled with        *)
(* notify_one: a thread may be woken for what another one waits for.       *)
(*                                                                         *)
(* A critical section (from the lock or the return of a wait to the next   *)
(* wait or unlock) is one action, a notification behind it another one.    *)
(* The weather service answers what it likes, and the publisher succeeds,  *)
(* fails, or does not return: connect() and send() have no timeout.        *)
(***************************************************************************)
EXTENDS Naturals, Sequences

CONSTANTS Cities,       \* a poll thread for each
          MaxQueueSize, \* MAX_QUEUE_SIZE
          Points,       \* sample points of a city
          MaxPackets    \* model bound: packets of a city

ASSUME CollectorAssumption ==
  MaxQueueSize \in Nat \ {0} /\ Points \in Nat \ {0} /\ MaxPackets \in Nat

VARIABLES
  running,   \* the flag, cleared by the signal handler
  pollPc,    \* per city: "init", "loop", "next", "fetch", "offer", "full" (in
             \* a wait), "notify", "pause", "rest" (in a wait), "done"; "dead"
             \* like sendPc once an exception has ended the process
  point,     \* per city: sample points done in this round
  made,      \* per city: packets made so far
  queue,     \* weatherQueue, of [city, n]
  sendPc,    \* "loop", "take", "empty" (in a wait), "notify", "publish",
             \* "done", "dead"
  packet,    \* the sender's packet, a sequence of at most one
  published, \* packets publish_to_topic answered true for, in order
  failed     \* packets it answered false for: they are dropped

polls == <<pollPc, point, made>>
sends == <<sendPc, packet, published, failed>>
vars == <<running, polls, queue, sends>>

Packet == [city : Cities, n : 1..MaxPackets]
Elements(s) == {s[i] : i \in DOMAIN s}

Init ==
  /\ running = TRUE
  /\ pollPc = [c \in Cities |-> "init"]
  /\ point = [c \in Cities |-> 0]
  /\ made = [c \in Cities |-> 0]
  /\ queue = <<>>
  /\ sendPc = "loop" /\ packet = <<>>
  /\ published = <<>> /\ failed = {}

(* queueCv.notify_one(), called by a thread that goes on as polling and    *)
(* sending say: one thread that waits, if there is any, is woken.          *)
WokenAt == [full |-> "offer", rest |-> "pause"]

NotifyOne(polling, sending) ==
  LET sleepers == {c \in Cities : polling[c] \in DOMAIN WokenAt}
  IN \/ /\ \E c \in sleepers :
             pollPc' = [polling EXCEPT ![c] = WokenAt[polling[c]]]
        /\ sendPc' = sending
     \/ /\ sending = "empty"
        /\ sendPc' = "take" /\ pollPc' = polling
     \/ /\ sleepers = {} /\ sending # "empty"
        /\ pollPc' = polling /\ sendPc' = sending

-----------------------------------------------------------------------------
(* pollCity                                                                *)

(* curl_easy_init: without a handle the thread returns, its city is not    *)
(* sampled.                                                                *)
PollInit(c) ==
  /\ pollPc[c] = "init"
  /\ \E to \in {"loop", "done"} : pollPc' = [pollPc EXCEPT ![c] = to]
  /\ UNCHANGED <<running, point, made, queue, sends>>

(* Mutant: while (true).                                                   *)
MutPollForever(c) ==
  /\ pollPc[c] = "loop"
  /\ pollPc' = [pollPc EXCEPT ![c] = "next"]
  /\ point' = [point EXCEPT ![c] = 0]
  /\ UNCHANGED <<running, made, queue, sends>>

PollLoop(c) ==
  /\ pollPc[c] = "loop"
  /\ pollPc' = [pollPc EXCEPT ![c] = IF running THEN "next" ELSE "done"]
  /\ point' = [point EXCEPT ![c] = 0]
  /\ UNCHANGED <<running, made, queue, sends>>

NextPoint(c) ==
  /\ pollPc[c] = "next"
  /\ pollPc' = [pollPc EXCEPT ![c] =
                  IF point[c] < Points /\ running THEN "fetch" ELSE "pause"]
  /\ UNCHANGED <<running, point, made, queue, sends>>

FetchFails(c) ==
  /\ pollPc[c] = "fetch"
  /\ point' = [point EXCEPT ![c] = @ + 1]
  /\ pollPc' = [pollPc EXCEPT ![c] = IF running THEN "next" ELSE "pause"]
  /\ UNCHANGED <<running, made, queue, sends>>

FetchPacket(c) ==
  /\ pollPc[c] = "fetch" /\ running /\ made[c] < MaxPackets
  /\ made' = [made EXCEPT ![c] = @ + 1]
  /\ pollPc' = [pollPc EXCEPT ![c] = "offer"]
  /\ UNCHANGED <<running, point, queue, sends>>

(* A measurement that is not a number: current.value throws, nobody        *)
(* catches it, and the process ends.                                       *)
FetchThrows(c) ==
  /\ pollPc[c] = "fetch" /\ running
  /\ pollPc' = [d \in Cities |-> "dead"]
  /\ sendPc' = "dead"
  /\ UNCHANGED <<running, point, made, queue, packet, published, failed>>

(* while (running && full) wait_for(250 ms)                                *)
OfferFull(c) ==
  /\ pollPc[c] = "offer" /\ running
  /\ Len(queue) >= MaxQueueSize
  /\ pollPc' = [pollPc EXCEPT ![c] = "full"]
  /\ UNCHANGED <<running, point, made, queue, sends>>

OfferStopped(c) ==
  /\ pollPc[c] = "offer" /\ ~running
  /\ pollPc' = [pollPc EXCEPT ![c] = "pause"]
  /\ UNCHANGED <<running, point, made, queue, sends>>

OfferPush(c) ==
  /\ pollPc[c] = "offer" /\ running
  /\ Len(queue) < MaxQueueSize
  /\ queue' = Append(queue, [city |-> c, n |-> made[c]])
  /\ point' = [point EXCEPT ![c] = @ + 1]
  /\ pollPc' = [pollPc EXCEPT ![c] = "notify"]
  /\ UNCHANGED <<running, made, sends>>

(* lock.unlock(); queueCv.notify_one()                                     *)
NotifyPushed(c) ==
  /\ pollPc[c] = "notify"
  /\ NotifyOne([pollPc EXCEPT ![c] = "next"], sendPc)
  /\ UNCHANGED <<running, point, made, queue, packet, published, failed>>

(* Mutant: if (full) instead of while (full): a packet is pushed once the  *)
(* wait is over.                                                           *)
MutWaitOnce(c) ==
  /\ pollPc[c] = "full"
  /\ queue' = Append(queue, [city |-> c, n |-> made[c]])
  /\ point' = [point EXCEPT ![c] = @ + 1]
  /\ pollPc' = [pollPc EXCEPT ![c] = "next"]
  /\ UNCHANGED <<running, made, sends>>

(* Mutant: a packet that met a full queue is given up for the next point.  *)
MutGiveUpFull(c) ==
  /\ pollPc[c] = "full"
  /\ point' = [point EXCEPT ![c] = @ + 1]
  /\ pollPc' = [pollPc EXCEPT ![c] = "next"]
  /\ UNCHANGED <<running, made, queue, sends>>

FullTimeout(c) ==
  /\ pollPc[c] = "full"
  /\ pollPc' = [pollPc EXCEPT ![c] = "offer"]
  /\ UNCHANGED <<running, point, made, queue, sends>>

(* wait_for(5 s, !running) between two rounds                              *)
Pause(c) ==
  /\ pollPc[c] = "pause"
  /\ pollPc' = [pollPc EXCEPT ![c] = IF running THEN "rest" ELSE "loop"]
  /\ UNCHANGED <<running, point, made, queue, sends>>

RestTimeout(c) ==
  /\ pollPc[c] = "rest"
  /\ pollPc' = [pollPc EXCEPT ![c] = "loop"]
  /\ UNCHANGED <<running, point, made, queue, sends>>

-----------------------------------------------------------------------------
(* The sender                                                              *)

SendLoop ==
  /\ sendPc = "loop"
  /\ sendPc' = IF running THEN "take" ELSE "done"
  /\ UNCHANGED <<running, polls, queue, packet, published, failed>>

TakeStopped ==
  /\ sendPc = "take" /\ ~running
  /\ sendPc' = "done"
  /\ UNCHANGED <<running, polls, queue, packet, published, failed>>

TakeEmpty ==
  /\ sendPc = "take" /\ running /\ queue = <<>>
  /\ sendPc' = "empty"
  /\ UNCHANGED <<running, polls, queue, packet, published, failed>>

(* Mutant: the newest packet is taken (a stack instead of a queue).        *)
MutTakeNewest ==
  /\ sendPc = "take" /\ running /\ queue # <<>>
  /\ packet' = <<queue[Len(queue)]>>
  /\ queue' = SubSeq(queue, 1, Len(queue) - 1)
  /\ sendPc' = "notify"
  /\ UNCHANGED <<running, polls, published, failed>>

TakePacket ==
  /\ sendPc = "take" /\ running /\ queue # <<>>
  /\ packet' = <<Head(queue)>>
  /\ queue' = Tail(queue)
  /\ sendPc' = "notify"
  /\ UNCHANGED <<running, polls, published, failed>>

NotifyTaken ==
  /\ sendPc = "notify"
  /\ NotifyOne(pollPc, "publish")
  /\ UNCHANGED <<running, point, made, queue, packet, published, failed>>

(* Mutant: wait() for wait_for(100 ms): the sender relies on notify_one.   *)
MutWaitForNotify ==
  /\ sendPc = "empty" /\ ~running
  /\ sendPc' = "take"
  /\ UNCHANGED <<running, polls, queue, packet, published, failed>>

EmptyTimeout ==
  /\ sendPc = "empty"
  /\ sendPc' = "take"
  /\ UNCHANGED <<running, polls, queue, packet, published, failed>>

PublishOk ==
  /\ sendPc = "publish"
  /\ published' = published \o packet
  /\ packet' = <<>> /\ sendPc' = "loop"
  /\ UNCHANGED <<running, polls, queue, failed>>

PublishFails ==
  /\ sendPc = "publish"
  /\ failed' = failed \cup Elements(packet)
  /\ packet' = <<>> /\ sendPc' = "loop"
  /\ UNCHANGED <<running, polls, queue, published>>

-----------------------------------------------------------------------------
(* The signal handler clears the flag and wakes nobody.                    *)
Signal ==
  /\ running /\ sendPc # "dead"
  /\ running' = FALSE
  /\ UNCHANGED <<polls, queue, sends>>

Poller(c) ==
  \/ PollInit(c)
  \/ PollLoop(c)
  \/ NextPoint(c)
  \/ FetchFails(c)
  \/ FetchPacket(c)
  \/ FetchThrows(c)
  \/ OfferFull(c)
  \/ OfferStopped(c)
  \/ OfferPush(c)
  \/ NotifyPushed(c)
  \/ FullTimeout(c)
  \/ Pause(c)
  \/ RestTimeout(c)

Sender ==
  \/ SendLoop
  \/ TakeStopped
  \/ TakeEmpty
  \/ TakePacket
  \/ NotifyTaken
  \/ EmptyTimeout

Publish ==
  \/ PublishOk
  \/ PublishFails

Dead == sendPc = "dead"
AllDone == sendPc \in {"done", "dead"} /\ \A c \in Cities : pollPc[c] \in {"done", "dead"}

Next ==
  \/ \E c \in Cities : Poller(c)
  \/ Sender
  \/ Publish
  \/ Signal
  \/ AllDone /\ UNCHANGED vars

Spec == Init /\ [][Next]_vars

(* Every wait on queueCv has a timeout, a fetch ends within that of        *)
(* libcurl, and no critical section blocks: each thread keeps taking       *)
(* steps, except that publish_to_topic need not return, because connect()  *)
(* and send() block as long as the next tier lets them.                    *)
FairSpec ==
  /\ Spec
  /\ WF_vars(Sender)
  /\ \A c \in Cities : WF_vars(Poller(c))

-----------------------------------------------------------------------------
TypeOK ==
  /\ running \in BOOLEAN
  /\ pollPc \in [Cities -> {"init", "loop", "next", "fetch", "offer", "full", "notify",
                            "pause", "rest", "done", "dead"}]
  /\ point \in [Cities -> 0..Points]
  /\ made \in [Cities -> 0..MaxPackets]
  /\ queue \in Seq(Packet) /\ Len(queue) <= MaxQueueSize
  /\ sendPc \in {"loop", "take", "empty", "notify", "publish", "done", "dead"}
  /\ packet \in Seq(Packet)
  /\ published \in Seq(Packet) /\ failed \subseteq Packet

(* The packets of a city leave in the order they were sampled.             *)
CityOrder ==
  LET s == published \o packet \o queue
  IN \A i, j \in DOMAIN s : i < j /\ s[i].city = s[j].city => s[i].n < s[j].n

(* A packet in the queue or beyond is in one place: waiting, in the        *)
(* sender's hands, published or failed, and none has disappeared.          *)
PacketsAccounted ==
  LET pushed == UNION {{[city |-> c, n |-> k] : k \in 1..made[c]} : c \in Cities}
      held == {[city |-> c, n |-> made[c]] :
                 c \in {d \in Cities : pollPc[d] \in {"offer", "full"}}}
      waiting == Elements(queue) \cup Elements(packet)
      settled == Elements(published) \cup failed
  IN /\ waiting \cap settled = {}
     /\ running /\ ~Dead => pushed \ held = waiting \cup settled

(* publish_to_topic always returns in the end.                             *)
PublishReturns == []<>(sendPc # "publish")

(* Nothing stops while the collector runs, whichever thread a notification *)
(* wakes: the sender gets to every packet, if publishing returns, also     *)
(* when the notification of the push went to a poll thread that could not  *)
(* use it; and a city is sampled again after every round, whatever the     *)
(* sender does.                                                            *)
KeepsGoing ==
  /\ PublishReturns =>
       \A p \in Packet :
         p \in Elements(queue) ~> p \notin Elements(queue) \/ ~running \/ Dead
  /\ \A c \in Cities : pollPc[c] = "rest" ~> pollPc[c] = "fetch" \/ ~running \/ Dead

(* After the signal every poll thread ends, also one that waits for room   *)
(* behind a sender that never comes back; and if publishing returns the    *)
(* sender ends too, so main's joins return.                                *)
ShutdownCompletes ==
  /\ \A c \in Cities : ~running ~> pollPc[c] \in {"done", "dead"}
  /\ PublishReturns => (~running ~> AllDone)
=============================================================================
