---------------------------- MODULE CollectorProofs ----------------------------
(***************************************************************************)
(* For any cities, queue bound and number of packets: whichever thread a   *)
(* notification wakes, the packets of a city leave in the order they were  *)
(* sampled, each is in one place, and none disappears while the collector  *)
(* runs.                                                                   *)
(***************************************************************************)
EXTENDS Collector, TLAPS

(* The cities whose thread holds a sampled packet it has not pushed yet.   *)
Offering == {c \in Cities : pollPc[c] \in {"offer", "full"}}

(* The sender has a packet in its hands from the queue until it is         *)
(* published.                                                              *)
HandsInv ==
  /\ sendPc \in {"notify", "publish"} => \E p \in Packet : packet = <<p>>
  /\ sendPc \in {"loop", "take", "empty", "done"} => packet = <<>>

(* A thread only fetches for a point that is left, and what it offers has  *)
(* been made.                                                              *)
PointInv ==
  /\ \A c \in Cities : pollPc[c] \in {"fetch", "offer", "full"} => point[c] < Points
  /\ \A c \in Offering : made[c] >= 1

(* The packets that have been pushed were made, and are none of those that *)
(* are still offered.                                                      *)
Waiting == Elements(packet) \cup Elements(queue)
Pushed == Elements(published) \cup failed \cup Waiting

PushedInv ==
  \A p \in Pushed :
    p.n <= made[p.city] /\ (p.city \in Offering => p.n < made[p.city])

(* Conversely, what was made is offered or pushed.                         *)
CoveredInv ==
  running /\ ~Dead => \A c \in Cities : \A k \in 1..made[c] :
               (c \in Offering /\ k = made[c]) \/ [city |-> c, n |-> k] \in Pushed

(* Of one city, a packet published or failed is earlier than one that      *)
(* waits, and one in the sender's hands is earlier than one in the queue.  *)
Precedes(p, q) == p.city = q.city => p.n < q.n
Ordered(s) == \A i, j \in DOMAIN s : i < j => Precedes(s[i], s[j])
Before(s, t) == \A x \in Elements(s), y \in Elements(t) : Precedes(x, y)

OrderInv ==
  /\ Ordered(published) /\ Ordered(packet) /\ Ordered(queue)
  /\ Before(published, packet) /\ Before(published, queue) /\ Before(packet, queue)
  /\ \A x \in failed, y \in Waiting : Precedes(x, y)

Inv == TypeOK /\ HandsInv /\ PointInv /\ PushedInv /\ CoveredInv /\ OrderInv

-----------------------------------------------------------------------------
(* Sequences of packets by their elements and their order.                 *)

Join(s, t) == s \o t

LEMMA JoinType ==
  ASSUME NEW a \in Seq(Packet), NEW b \in Seq(Packet)
  PROVE  Join(a, b) \in Seq(Packet)
  BY DEF Join

LEMMA JoinPositions ==
  ASSUME NEW a \in Seq(Packet), NEW b \in Seq(Packet)
  PROVE  \E m, n \in Nat :
           /\ DOMAIN a = 1..m /\ DOMAIN b = 1..n /\ DOMAIN Join(a, b) = 1..(m + n)
           /\ \A k \in 1..m : Join(a, b)[k] = a[k]
           /\ \A k \in 1..n : Join(a, b)[m + k] = b[k]
<1>1. Len(a) \in Nat /\ Len(b) \in Nat
  OBVIOUS
<1> SUFFICES /\ DOMAIN a = 1..Len(a) /\ DOMAIN b = 1..Len(b)
             /\ DOMAIN Join(a, b) = 1..(Len(a) + Len(b))
             /\ \A k \in 1..Len(a) : Join(a, b)[k] = a[k]
             /\ \A k \in 1..Len(b) : Join(a, b)[Len(a) + k] = b[k]
  BY <1>1
<1> QED
  BY DEF Join

LEMMA JoinElements ==
  ASSUME NEW a \in Seq(Packet), NEW b \in Seq(Packet)
  PROVE  Elements(Join(a, b)) = Elements(a) \cup Elements(b)
<1>1. PICK m \in Nat, n \in Nat :
        /\ DOMAIN a = 1..m /\ DOMAIN b = 1..n /\ DOMAIN Join(a, b) = 1..(m + n)
        /\ \A k \in 1..m : Join(a, b)[k] = a[k]
        /\ \A k \in 1..n : Join(a, b)[m + k] = b[k]
  BY JoinPositions
<1>2. \A k \in 1..(m + n) : k \in 1..m \/ (k - m \in 1..n /\ k = m + (k - m))
  OBVIOUS
<1>3. \A k \in 1..n : m + k \in 1..(m + n)
  OBVIOUS
<1>4. \A k \in 1..m : k \in 1..(m + n)
  OBVIOUS
<1>5. ASSUME NEW x \in Elements(Join(a, b)) PROVE x \in Elements(a) \cup Elements(b)
  <2>1. PICK k \in 1..(m + n) : x = Join(a, b)[k]
    BY <1>1, <1>5 DEF Elements
  <2>2. CASE k \in 1..m
    BY <1>1, <2>1, <2>2 DEF Elements
  <2>3. CASE k - m \in 1..n /\ k = m + (k - m)
    BY <1>1, <2>1, <2>3 DEF Elements
  <2> QED BY <1>2, <2>2, <2>3
<1>6. Elements(a) \subseteq Elements(Join(a, b))
  BY <1>1, <1>4 DEF Elements
<1>7. Elements(b) \subseteq Elements(Join(a, b))
  BY <1>1, <1>3 DEF Elements
<1> QED BY <1>5, <1>6, <1>7

LEMMA JoinOrdered ==
  ASSUME NEW a \in Seq(Packet), NEW b \in Seq(Packet)
  PROVE  Ordered(Join(a, b)) <=> Ordered(a) /\ Ordered(b) /\ Before(a, b)
<1>1. PICK m \in Nat, n \in Nat :
        /\ DOMAIN a = 1..m /\ DOMAIN b = 1..n /\ DOMAIN Join(a, b) = 1..(m + n)
        /\ \A k \in 1..m : Join(a, b)[k] = a[k]
        /\ \A k \in 1..n : Join(a, b)[m + k] = b[k]
  BY JoinPositions
<1>2. ASSUME Ordered(Join(a, b)) PROVE Ordered(a) /\ Ordered(b) /\ Before(a, b)
  <2>1. \A k \in 1..m : k \in 1..(m + n)
    OBVIOUS
  <2>2. Ordered(a)
    BY <1>1, <1>2, <2>1 DEF Ordered
  <2>3. ASSUME NEW k \in 1..n, NEW l \in 1..n, k < l PROVE Precedes(b[k], b[l])
    <3>1. m + k \in 1..(m + n) /\ m + l \in 1..(m + n) /\ m + k < m + l
      BY <2>3
    <3> QED BY <1>1, <1>2, <3>1 DEF Ordered
  <2>4. ASSUME NEW k \in 1..m, NEW l \in 1..n PROVE Precedes(a[k], b[l])
    <3>1. k \in 1..(m + n) /\ m + l \in 1..(m + n) /\ k < m + l
      OBVIOUS
    <3> QED BY <1>1, <1>2, <3>1 DEF Ordered
  <2> QED BY <1>1, <2>2, <2>3, <2>4 DEF Ordered, Before, Elements
<1>3. ASSUME Ordered(a), Ordered(b), Before(a, b) PROVE Ordered(Join(a, b))
  <2> SUFFICES ASSUME NEW k \in 1..(m + n), NEW l \in 1..(m + n), k < l
               PROVE  Precedes(Join(a, b)[k], Join(a, b)[l])
    BY <1>1 DEF Ordered
  <2>1. CASE l \in 1..m
    <3>1. k \in 1..m
      BY <2>1
    <3> QED BY <1>1, <1>3, <2>1, <3>1 DEF Ordered
  <2>2. CASE k \notin 1..m
    <3>1. /\ k - m \in 1..n /\ l - m \in 1..n /\ k - m < l - m
          /\ m + (k - m) = k /\ m + (l - m) = l
      BY <2>2
    <3>2. Precedes(b[k - m], b[l - m])
      BY <1>1, <1>3, <3>1 DEF Ordered
    <3>3. Join(a, b)[k] = b[k - m] /\ Join(a, b)[l] = b[l - m]
      BY <1>1, <3>1
    <3> QED BY <3>2, <3>3
  <2>3. CASE k \in 1..m /\ l \notin 1..m
    <3>1. l - m \in 1..n /\ m + (l - m) = l
      BY <2>3
    <3> QED BY <1>1, <1>3, <2>3, <3>1 DEF Before, Elements
  <2> QED BY <2>1, <2>2, <2>3
<1> QED BY <1>2, <1>3

LEMMA SinglePacket ==
  ASSUME NEW e \in Packet
  PROVE  <<e>> \in Seq(Packet) /\ Elements(<<e>>) = {e} /\ Ordered(<<e>>)
  BY DEF Elements, Ordered

LEMMA NoPacket == <<>> \in Seq(Packet) /\ Elements(<<>>) = {} /\ Ordered(<<>>)
  BY DEF Elements, Ordered

LEMMA HeadTailPackets ==
  ASSUME NEW s \in Seq(Packet), s # <<>>
  PROVE  /\ Head(s) \in Packet /\ Tail(s) \in Seq(Packet)
         /\ Len(Tail(s)) \in Nat /\ Len(Tail(s)) <= Len(s)
         /\ s = Join(<<Head(s)>>, Tail(s))
  BY DEF Join

(* Taking the first packet off a queue.                                     *)
LEMMA TakeFirst ==
  ASSUME NEW s \in Seq(Packet), s # <<>>
  PROVE  /\ Elements(s) = {Head(s)} \cup Elements(Tail(s))
         /\ Ordered(s) => Ordered(Tail(s)) /\ \A y \in Elements(Tail(s)) : Precedes(Head(s), y)
<1> DEFINE h == Head(s)
           t == Tail(s)
<1>1. h \in Packet /\ t \in Seq(Packet) /\ s = Join(<<h>>, t)
  BY HeadTailPackets
<1> HIDE DEF h, t
<1>2. <<h>> \in Seq(Packet) /\ Elements(<<h>>) = {h}
  BY <1>1, SinglePacket
<1>3. Elements(s) = {h} \cup Elements(t)
  BY <1>1, <1>2, JoinElements
<1>4. Ordered(s) => Ordered(t) /\ \A y \in Elements(t) : Precedes(h, y)
  BY <1>1, <1>2, JoinOrdered DEF Before
<1> QED BY <1>3, <1>4 DEF h, t

(* Adding a packet at the end of a queue.                                  *)
Add(s, e) == Append(s, e)

LEMMA AppendIsJoin ==
  ASSUME NEW s \in Seq(Packet), NEW e \in Packet
  PROVE  s \o <<e>> = Add(s, e)
  BY DEF Add

LEMMA AddLast ==
  ASSUME NEW s \in Seq(Packet), NEW e \in Packet
  PROVE  /\ Add(s, e) \in Seq(Packet)
         /\ Len(Add(s, e)) = Len(s) + 1
         /\ Elements(Add(s, e)) = Elements(s) \cup {e}
         /\ Ordered(Add(s, e)) <=> Ordered(s) /\ \A x \in Elements(s) : Precedes(x, e)
<1>1. Add(s, e) = Join(s, <<e>>) /\ Add(s, e) \in Seq(Packet) /\ Len(Add(s, e)) = Len(s) + 1
  BY DEF Join, Add
<1> HIDE DEF Add
<1>2. <<e>> \in Seq(Packet) /\ Elements(<<e>>) = {e} /\ Ordered(<<e>>)
  BY SinglePacket
<1> DEFINE last == <<e>>
<1> HIDE DEF last
<1>3. /\ Add(s, e) = Join(s, last) /\ last \in Seq(Packet)
      /\ Elements(last) = {e} /\ Ordered(last)
  BY <1>1, <1>2 DEF last
<1>4. Elements(Add(s, e)) = Elements(s) \cup {e}
  BY <1>3, JoinElements
<1>5. Ordered(Add(s, e)) <=> Ordered(s) /\ \A x \in Elements(s) : Precedes(x, e)
  BY <1>3, JoinOrdered DEF Before
<1> QED BY <1>1, <1>4, <1>5

-----------------------------------------------------------------------------
(* What the invariant says of the two properties.                          *)

LEMMA InvOrder == Inv => CityOrder
<1> SUFFICES ASSUME Inv PROVE CityOrder
  OBVIOUS
<1>1. /\ published \in Seq(Packet) /\ packet \in Seq(Packet) /\ queue \in Seq(Packet)
      /\ OrderInv
  BY DEF Inv, TypeOK
<1> DEFINE front == Join(published, packet)
<1>2. front \in Seq(Packet) /\ Elements(front) = Elements(published) \cup Elements(packet)
  BY <1>1, JoinType, JoinElements
<1>3. Ordered(front)
  BY <1>1, JoinOrdered DEF OrderInv
<1>4. published \o packet \o queue = Join(front, queue)
  BY DEF Join
<1> HIDE DEF front
<1>5. Before(front, queue)
  BY <1>1, <1>2 DEF OrderInv, Before
<1>6. Ordered(Join(front, queue))
  BY <1>1, <1>2, <1>3, <1>5, JoinOrdered DEF OrderInv
<1> DEFINE s == Join(front, queue)
<1> HIDE DEF s
<1>7. Ordered(s) /\ published \o packet \o queue = s
  BY <1>4, <1>6 DEF s
<1> QED BY <1>7 DEF CityOrder, Ordered, Precedes

LEMMA InvAccounted == Inv => PacketsAccounted
<1> SUFFICES ASSUME Inv PROVE PacketsAccounted
  OBVIOUS
<1> DEFINE pushed == UNION {{[city |-> c, n |-> k] : k \in 1..made[c]} : c \in Cities}
           held == {[city |-> c, n |-> made[c]] :
                      c \in {d \in Cities : pollPc[d] \in {"offer", "full"}}}
           waiting == Elements(queue) \cup Elements(packet)
           settled == Elements(published) \cup failed
<1>1. Pushed \subseteq Packet /\ made \in [Cities -> Nat]
  BY DEF Inv, TypeOK, Pushed, Waiting, Elements
<1>2. waiting \cap settled = {}
  <2> SUFFICES ASSUME NEW p \in Packet, p \in waiting, p \in settled PROVE FALSE
    BY <1>1 DEF Pushed, Waiting
  <2>1. Precedes(p, p)
    BY DEF Inv, OrderInv, Before, Waiting
  <2> QED BY <2>1 DEF Precedes, Packet
<1>3. ASSUME running, ~Dead PROVE pushed \ held = Pushed
  <2>1. ASSUME NEW p \in Pushed PROVE p \in pushed \ held
    <3>1. /\ p.city \in Cities /\ p.n \in 1..MaxPackets /\ p = [city |-> p.city, n |-> p.n]
      BY <1>1, <2>1 DEF Packet
    <3>2. /\ p.n <= made[p.city] /\ (p.city \in Offering => p.n < made[p.city])
      BY <2>1 DEF Inv, PushedInv
    <3>3. p.n \in 1..made[p.city] /\ (p.city \in Offering => p.n # made[p.city])
      BY <1>1, <3>1, <3>2
    <3>4. p \in pushed
      BY <3>1, <3>3
    <3>5. p \notin held
      BY <3>1, <3>3 DEF Offering
    <3> QED BY <3>4, <3>5
  <2>2. ASSUME NEW p \in pushed \ held PROVE p \in Pushed
    <3>1. PICK c \in Cities : \E k \in 1..made[c] : p = [city |-> c, n |-> k]
      BY <2>2
    <3>2. PICK k \in 1..made[c] : p = [city |-> c, n |-> k]
      BY <3>1
    <3>3. ~(c \in Offering /\ k = made[c])
      BY <2>2, <3>2 DEF Offering
    <3> QED BY <1>3, <3>2, <3>3 DEF Inv, CoveredInv
  <2> QED BY <2>1, <2>2
<1>4. Pushed = waiting \cup settled
  BY DEF Pushed, Waiting
<1> QED BY <1>2, <1>3, <1>4 DEF PacketsAccounted

-----------------------------------------------------------------------------
Places == {"init", "loop", "next", "fetch", "offer", "full", "notify", "pause", "rest",
           "done", "dead"}
SenderPlaces == {"loop", "take", "empty", "notify", "publish", "done", "dead"}

(* Whom a notification wakes does not change who holds a packet.           *)
LEMMA Woken ==
  ASSUME NEW polling \in [Cities -> Places], NEW sending \in SenderPlaces,
         NotifyOne(polling, sending)
  PROVE  /\ pollPc' \in [Cities -> Places] /\ sendPc' \in SenderPlaces
         /\ \A c \in Cities : \/ pollPc'[c] = polling[c]
                              \/ polling[c] = "full" /\ pollPc'[c] = "offer"
                              \/ polling[c] = "rest" /\ pollPc'[c] = "pause"
         /\ sendPc' = sending \/ (sending = "empty" /\ sendPc' = "take")
<1>1. DOMAIN WokenAt = {"full", "rest"} /\ WokenAt["full"] = "offer" /\ WokenAt["rest"] = "pause"
  BY DEF WokenAt
<1>2. CASE \E c \in {d \in Cities : polling[d] \in DOMAIN WokenAt} :
             /\ pollPc' = [polling EXCEPT ![c] = WokenAt[polling[c]]]
             /\ sendPc' = sending
  <2>1. PICK c \in Cities : /\ polling[c] \in {"full", "rest"}
                            /\ pollPc' = [polling EXCEPT ![c] = WokenAt[polling[c]]]
                            /\ sendPc' = sending
    BY <1>1, <1>2
  <2>2. CASE polling[c] = "full"
    BY <1>1, <2>1, <2>2 DEF Places
  <2>3. CASE polling[c] = "rest"
    BY <1>1, <2>1, <2>3 DEF Places
  <2> QED BY <2>1, <2>2, <2>3
<1>3. CASE sendPc' \in {sending, "take"} /\ (sendPc' = sending \/ sending = "empty")
           /\ pollPc' = polling
  BY <1>3 DEF SenderPlaces
<1> QED BY <1>2, <1>3 DEF NotifyOne

-----------------------------------------------------------------------------
LEMMA InitInv == Init => Inv
<1> SUFFICES ASSUME Init PROVE Inv
  OBVIOUS
<1>1. <<>> \in Seq(Packet) /\ Elements(<<>>) = {} /\ Ordered(<<>>)
  BY NoPacket
<1>2. Len(queue) = 0 /\ \A c \in Cities : pollPc[c] = "init" /\ made[c] = 0
  BY DEF Init
<1>3. TypeOK
  BY <1>1, CollectorAssumption DEF Init, TypeOK
<1>4. Pushed = {} /\ Waiting = {}
  BY <1>1 DEF Init, Pushed, Waiting
<1>5. HandsInv /\ PointInv /\ PushedInv /\ CoveredInv
  BY <1>2, <1>4 DEF Init, HandsInv, PointInv, PushedInv, CoveredInv, Offering
<1>6. OrderInv
  BY <1>1, <1>4 DEF Init, OrderInv, Before
<1> QED BY <1>3, <1>5, <1>6 DEF Inv

(* A poll thread at its own steps.                                         *)
LEMMA Moved ==
  ASSUME NEW polling \in [Cities -> Places], NEW c \in Cities, NEW place \in Places
  PROVE  /\ [polling EXCEPT ![c] = place] \in [Cities -> Places]
         /\ \A d \in Cities : [polling EXCEPT ![c] = place][d] = IF d = c THEN place ELSE polling[d]
  OBVIOUS

LEMMA Counted ==
  ASSUME NEW S, NEW f \in [Cities -> S], NEW c \in Cities, f[c] + 1 \in S
  PROVE  /\ [f EXCEPT ![c] = @ + 1] \in [Cities -> S]
         /\ \A d \in Cities : [f EXCEPT ![c] = @ + 1][d] = IF d = c THEN f[c] + 1 ELSE f[d]
  OBVIOUS

(* The steps that move no packet and start or end no offer.                *)
QuietPoll(c) ==
  \/ PollInit(c) \/ PollLoop(c) \/ NextPoint(c) \/ FetchFails(c) \/ OfferFull(c)
  \/ FullTimeout(c) \/ Pause(c) \/ RestTimeout(c)

QuietElse ==
  \/ SendLoop \/ TakeStopped \/ TakeEmpty \/ EmptyTimeout \/ Signal \/ UNCHANGED vars

LEMMA QuietPlaces ==
  ASSUME Inv, NEW c \in Cities, QuietPoll(c)
  PROVE  /\ pollPc' \in [Cities -> Places] /\ point' \in [Cities -> 0..Points]
         /\ Offering' = Offering
         /\ \A d \in Cities : pollPc'[d] \in {"fetch", "offer", "full"} => point'[d] < Points
<1>1. /\ pollPc \in [Cities -> Places] /\ point \in [Cities -> 0..Points]
      /\ \A d \in Cities : pollPc[d] \in {"fetch", "offer", "full"} => point[d] < Points
  BY DEF Inv, TypeOK, PointInv, Places
<1>2. Points \in Nat \ {0}
  BY CollectorAssumption
<1>3. ASSUME NEW place \in Places, pollPc' = [pollPc EXCEPT ![c] = place],
             pollPc[c] \in {"offer", "full"} <=> place \in {"offer", "full"},
             \/ UNCHANGED point /\ (place \in {"fetch", "offer", "full"} => point[c] < Points)
             \/ /\ point' = [point EXCEPT ![c] = 0]
                /\ place \notin {"fetch", "offer", "full"}
             \/ /\ point' = [point EXCEPT ![c] = @ + 1] /\ point[c] < Points
                /\ place \notin {"fetch", "offer", "full"}
      PROVE  /\ pollPc' \in [Cities -> Places] /\ point' \in [Cities -> 0..Points]
             /\ Offering' = Offering
             /\ \A d \in Cities : pollPc'[d] \in {"fetch", "offer", "full"} => point'[d] < Points
  <2>1. /\ pollPc' \in [Cities -> Places]
        /\ \A d \in Cities : pollPc'[d] = IF d = c THEN place ELSE pollPc[d]
    BY <1>1, <1>3, Moved
  <2>2. /\ point' \in [Cities -> 0..Points]
        /\ \A d \in Cities : d # c => point'[d] = point[d]
    BY <1>1, <1>2, <1>3
  <2>3. Offering' = Offering
    BY <1>3, <2>1 DEF Offering
  <2>4. place \in {"fetch", "offer", "full"} => point'[c] < Points
    BY <1>3
  <2> QED BY <1>1, <2>1, <2>2, <2>3, <2>4
<1>11. CASE PollInit(c)
  <2>1. PICK place \in {"loop", "done"} : pollPc' = [pollPc EXCEPT ![c] = place]
    BY <1>11 DEF PollInit
  <2>2. UNCHANGED point /\ pollPc[c] = "init"
    BY <1>11 DEF PollInit
  <2>3. place \in Places /\ place \notin {"fetch", "offer", "full"}
    BY DEF Places
  <2> QED BY <1>3, <2>1, <2>2, <2>3
<1>4. CASE PollLoop(c)
  <2> DEFINE place == IF running THEN "next" ELSE "done"
  <2>1. place \in Places /\ place \notin {"fetch", "offer", "full"}
    BY DEF Places
  <2>2. pollPc' = [pollPc EXCEPT ![c] = place] /\ point' = [point EXCEPT ![c] = 0]
        /\ pollPc[c] = "loop"
    BY <1>4 DEF PollLoop
  <2> HIDE DEF place
  <2> QED BY <1>3, <2>1, <2>2
<1>5. CASE NextPoint(c)
  <2> DEFINE place == IF point[c] < Points /\ running THEN "fetch" ELSE "pause"
  <2>1. place \in Places /\ place \notin {"offer", "full"} /\ (place = "fetch" => point[c] < Points)
    BY DEF Places
  <2>2. pollPc' = [pollPc EXCEPT ![c] = place] /\ UNCHANGED point /\ pollPc[c] = "next"
    BY <1>5 DEF NextPoint
  <2> HIDE DEF place
  <2> QED BY <1>3, <2>1, <2>2
<1>6. CASE FetchFails(c)
  <2> DEFINE place == IF running THEN "next" ELSE "pause"
  <2>1. place \in Places /\ place \notin {"fetch", "offer", "full"}
    BY DEF Places
  <2>2. /\ pollPc' = [pollPc EXCEPT ![c] = place] /\ point' = [point EXCEPT ![c] = @ + 1]
        /\ pollPc[c] = "fetch"
    BY <1>6 DEF FetchFails
  <2> HIDE DEF place
  <2> QED BY <1>1, <1>3, <2>1, <2>2
<1>7. CASE OfferFull(c)
  BY <1>1, <1>3, <1>7 DEF OfferFull, Places
<1>8. CASE FullTimeout(c)
  BY <1>1, <1>3, <1>8 DEF FullTimeout, Places
<1>9. CASE Pause(c)
  <2> DEFINE place == IF running THEN "rest" ELSE "loop"
  <2>1. place \in Places /\ place \notin {"fetch", "offer", "full"}
    BY DEF Places
  <2>2. pollPc' = [pollPc EXCEPT ![c] = place] /\ UNCHANGED point /\ pollPc[c] = "pause"
    BY <1>9 DEF Pause
  <2> HIDE DEF place
  <2> QED BY <1>3, <2>1, <2>2
<1>10. CASE RestTimeout(c)
  BY <1>3, <1>10 DEF RestTimeout, Places
<1> QED BY <1>4, <1>5, <1>6, <1>7, <1>8, <1>9, <1>10, <1>11 DEF QuietPoll

LEMMA QuietInv ==
  ASSUME Inv, (\E c \in Cities : QuietPoll(c)) \/ QuietElse
  PROVE  Inv'
<1>1. /\ UNCHANGED <<made, queue, packet, published, failed>>
      /\ (running' => running) /\ running' \in BOOLEAN
  <2>1. CASE \E c \in Cities : QuietPoll(c)
    BY <2>1 DEF Inv, TypeOK, QuietPoll, PollInit, PollLoop, NextPoint, FetchFails, OfferFull, FullTimeout,
                Pause, RestTimeout, sends
  <2>2. CASE QuietElse
    <3>1. UNCHANGED <<made, queue, packet, published, failed>>
      BY <2>2 DEF QuietElse, SendLoop, TakeStopped, TakeEmpty, EmptyTimeout, Signal,
                  vars, polls, sends
    <3>2. UNCHANGED running \/ running' = FALSE
      BY <2>2 DEF QuietElse, SendLoop, TakeStopped, TakeEmpty, EmptyTimeout, Signal, vars
    <3>3. running \in BOOLEAN
      BY DEF Inv, TypeOK
    <3>4. running' \in BOOLEAN
      BY <3>2, <3>3
    <3>5. running' => running
      BY <3>2
    <3> QED BY <3>1, <3>4, <3>5
  <2> QED BY <2>1, <2>2
<1>2. /\ pollPc' \in [Cities -> Places] /\ point' \in [Cities -> 0..Points]
      /\ Offering' = Offering
      /\ \A d \in Cities : pollPc'[d] \in {"fetch", "offer", "full"} => point'[d] < Points
  <2>1. CASE QuietElse
    <3>1. UNCHANGED <<pollPc, point>>
      BY <2>1 DEF QuietElse, SendLoop, TakeStopped, TakeEmpty, EmptyTimeout, Signal, vars, polls
    <3> QED BY <3>1 DEF Inv, TypeOK, PointInv, Offering, Places
  <2> QED BY <2>1, QuietPlaces
<1>3. /\ sendPc' \in SenderPlaces /\ (sendPc' = "dead" <=> sendPc = "dead")
      /\ sendPc' \in {"notify", "publish"} <=> sendPc \in {"notify", "publish"}
  <2>1. CASE \E c \in Cities : QuietPoll(c)
    BY <2>1 DEF Inv, TypeOK, QuietPoll, PollInit, PollLoop, NextPoint, FetchFails, OfferFull, FullTimeout,
                Pause, RestTimeout, sends, SenderPlaces
  <2>2. CASE QuietElse
    BY <2>2 DEF Inv, TypeOK, QuietElse, SendLoop, TakeStopped, TakeEmpty, EmptyTimeout, Signal,
                vars, polls, sends, SenderPlaces
  <2> QED BY <2>1, <2>2
<1>4. TypeOK'
  BY <1>1, <1>2, <1>3 DEF Inv, TypeOK, Places, SenderPlaces
<1>5. HandsInv' /\ PointInv'
  BY <1>1, <1>2, <1>3 DEF Inv, TypeOK, HandsInv, PointInv, SenderPlaces
<1>6. Pushed' = Pushed /\ Waiting' = Waiting
  BY <1>1 DEF Pushed, Waiting
<1>7. PushedInv' /\ CoveredInv'
  BY <1>1, <1>2, <1>3, <1>6 DEF Inv, PushedInv, CoveredInv, Dead
<1>8. OrderInv'
  BY <1>1, <1>6 DEF Inv, OrderInv, Before
<1> QED BY <1>4, <1>5, <1>7, <1>8 DEF Inv

(* Whoever a notification wakes, no packet moves.                          *)
LEMMA NotifyInv ==
  ASSUME Inv, (\E c \in Cities : NotifyPushed(c)) \/ NotifyTaken
  PROVE  Inv'
<1>1. UNCHANGED <<running, point, made, queue, packet, published, failed>>
  BY DEF NotifyPushed, NotifyTaken
<1>2. pollPc \in [Cities -> Places] /\ sendPc \in SenderPlaces
  BY DEF Inv, TypeOK, Places, SenderPlaces
<1>3. PICK polling \in [Cities -> Places], sending \in SenderPlaces :
        /\ NotifyOne(polling, sending)
        /\ \A d \in Cities : \/ polling[d] = pollPc[d]
                             \/ pollPc[d] = "notify" /\ polling[d] = "next"
        /\ sending = sendPc \/ (sendPc = "notify" /\ sending = "publish")
  <2>1. ASSUME NEW c \in Cities, NotifyPushed(c)
        PROVE  /\ NotifyOne([pollPc EXCEPT ![c] = "next"], sendPc)
               /\ [pollPc EXCEPT ![c] = "next"] \in [Cities -> Places]
               /\ \A d \in Cities : \/ [pollPc EXCEPT ![c] = "next"][d] = pollPc[d]
                                    \/ /\ pollPc[d] = "notify"
                                       /\ [pollPc EXCEPT ![c] = "next"][d] = "next"
    BY <1>2, <2>1 DEF NotifyPushed, Places
  <2>2. CASE NotifyTaken
    BY <1>2, <2>2 DEF NotifyTaken, SenderPlaces
  <2> QED BY <1>2, <2>1, <2>2
<1>4. /\ pollPc' \in [Cities -> Places] /\ sendPc' \in SenderPlaces
      /\ \A d \in Cities : \/ pollPc'[d] = polling[d]
                           \/ polling[d] = "full" /\ pollPc'[d] = "offer"
                           \/ polling[d] = "rest" /\ pollPc'[d] = "pause"
      /\ sendPc' = sending \/ (sending = "empty" /\ sendPc' = "take")
  BY <1>3, Woken
<1>5. Offering' = Offering
  BY <1>3, <1>4 DEF Offering
<1>6. /\ sendPc' \in {"notify", "publish"} <=> sendPc \in {"notify", "publish"}
      /\ sendPc' = "dead" <=> sendPc = "dead"
  BY <1>3, <1>4
<1>7. TypeOK'
  BY <1>1, <1>4 DEF Inv, TypeOK, Places, SenderPlaces
<1>8. HandsInv'
  BY <1>1, <1>2, <1>6 DEF Inv, HandsInv, SenderPlaces
<1>9. PointInv'
  <2>1. \A d \in Cities : pollPc'[d] \in {"fetch", "offer", "full"} =>
                            pollPc[d] \in {"fetch", "offer", "full"}
    BY <1>3, <1>4
  <2> QED BY <1>1, <1>5, <2>1 DEF Inv, PointInv
<1>10. Pushed' = Pushed /\ Waiting' = Waiting
  BY <1>1 DEF Pushed, Waiting
<1>11. PushedInv' /\ CoveredInv'
  BY <1>1, <1>5, <1>6, <1>10 DEF Inv, PushedInv, CoveredInv, Dead
<1>12. OrderInv'
  BY <1>1, <1>10 DEF Inv, OrderInv, Before
<1> QED BY <1>7, <1>8, <1>9, <1>11, <1>12 DEF Inv

(* The process ends with its packets where they are.                       *)
LEMMA FetchThrowsInv ==
  ASSUME Inv, NEW c \in Cities, FetchThrows(c)
  PROVE  Inv'
<1>1. /\ UNCHANGED <<running, point, made, queue, packet, published, failed>>
      /\ pollPc' = [d \in Cities |-> "dead"] /\ sendPc' = "dead"
  BY DEF FetchThrows
<1>2. Offering' = {} /\ Dead'
  BY <1>1 DEF Offering, Dead
<1>3. TypeOK'
  BY <1>1 DEF Inv, TypeOK
<1>4. HandsInv' /\ PointInv'
  BY <1>1, <1>2 DEF HandsInv, PointInv
<1>5. Pushed' = Pushed /\ Waiting' = Waiting
  BY <1>1 DEF Pushed, Waiting
<1>6. PushedInv' /\ CoveredInv'
  BY <1>1, <1>2, <1>5 DEF Inv, PushedInv, CoveredInv
<1>7. OrderInv'
  BY <1>1, <1>5 DEF Inv, OrderInv, Before
<1> QED BY <1>3, <1>4, <1>6, <1>7 DEF Inv

(* A stopping thread gives up what it offered; nothing else drops.         *)
LEMMA OfferStoppedInv ==
  ASSUME Inv, NEW c \in Cities, OfferStopped(c)
  PROVE  Inv'
<1>1. /\ UNCHANGED <<running, point, made, queue, packet, published, failed, sendPc>>
      /\ ~running /\ pollPc \in [Cities -> Places]
      /\ pollPc' = [pollPc EXCEPT ![c] = "pause"]
  BY DEF Inv, TypeOK, OfferStopped, sends, Places
<1>2. /\ pollPc' \in [Cities -> Places]
      /\ \A d \in Cities : pollPc'[d] = IF d = c THEN "pause" ELSE pollPc[d]
  BY <1>1, Moved DEF Places
<1>3. Offering' \subseteq Offering
  BY <1>2 DEF Offering
<1>4. TypeOK'
  BY <1>1, <1>2 DEF Inv, TypeOK, Places
<1>5. HandsInv' /\ PointInv'
  BY <1>1, <1>2, <1>3 DEF Inv, HandsInv, PointInv
<1>6. Pushed' = Pushed /\ Waiting' = Waiting
  BY <1>1 DEF Pushed, Waiting
<1>7. PushedInv' /\ CoveredInv'
  BY <1>1, <1>3, <1>6 DEF Inv, PushedInv, CoveredInv
<1>8. OrderInv'
  BY <1>1, <1>6 DEF Inv, OrderInv, Before
<1> QED BY <1>4, <1>5, <1>7, <1>8 DEF Inv

LEMMA FetchPacketInv ==
  ASSUME Inv, NEW c \in Cities, FetchPacket(c)
  PROVE  Inv'
<1>1. /\ UNCHANGED <<running, point, queue, packet, published, failed, sendPc>>
      /\ pollPc \in [Cities -> Places] /\ pollPc[c] = "fetch"
      /\ pollPc' = [pollPc EXCEPT ![c] = "offer"]
      /\ made \in [Cities -> 0..MaxPackets] /\ made[c] < MaxPackets
      /\ made' = [made EXCEPT ![c] = @ + 1]
      /\ MaxPackets \in Nat
  BY CollectorAssumption DEF Inv, TypeOK, FetchPacket, sends, Places
<1>2. /\ pollPc' \in [Cities -> Places]
      /\ \A d \in Cities : pollPc'[d] = IF d = c THEN "offer" ELSE pollPc[d]
  BY <1>1, Moved DEF Places
<1>3. /\ made' \in [Cities -> 0..MaxPackets]
      /\ \A d \in Cities : made'[d] = IF d = c THEN made[c] + 1 ELSE made[d]
  <2>1. made[c] + 1 \in 0..MaxPackets
    BY <1>1
  <2> QED BY <1>1, <2>1, Counted
<1>4. Offering' = Offering \cup {c} /\ c \notin Offering
  BY <1>1, <1>2 DEF Offering
<1>5. TypeOK'
  BY <1>1, <1>2, <1>3 DEF Inv, TypeOK, Places
<1>6. HandsInv' /\ PointInv'
  BY <1>1, <1>2, <1>3, <1>4 DEF Inv, HandsInv, PointInv
<1>7. Pushed' = Pushed /\ Waiting' = Waiting /\ Pushed \subseteq Packet
  BY <1>1 DEF Pushed, Waiting, Inv, TypeOK, Elements
<1>8. PushedInv'
  BY <1>1, <1>3, <1>4, <1>7 DEF Inv, PushedInv, Packet
<1>9. CoveredInv'
  <2> SUFFICES ASSUME running, ~Dead, NEW d \in Cities, NEW k \in 1..made'[d],
                      ~(d \in Offering' /\ k = made'[d])
               PROVE  [city |-> d, n |-> k] \in Pushed
    BY <1>1, <1>3, <1>7 DEF CoveredInv, Dead
  <2>1. k \in 1..made[d] /\ ~(d \in Offering /\ k = made[d])
    BY <1>1, <1>3, <1>4
  <2> QED BY <2>1 DEF Inv, CoveredInv
<1>10. OrderInv'
  BY <1>1, <1>7 DEF Inv, OrderInv, Before
<1> QED BY <1>5, <1>6, <1>8, <1>9, <1>10 DEF Inv

(* The offered packet is later than every packet of its city.              *)
LEMMA OfferPushInv ==
  ASSUME Inv, NEW c \in Cities, OfferPush(c)
  PROVE  Inv'
<1> DEFINE p == [city |-> c, n |-> made[c]]
<1>1. /\ UNCHANGED <<running, made, packet, published, failed, sendPc>>
      /\ pollPc \in [Cities -> Places] /\ pollPc[c] = "offer" /\ sendPc \in SenderPlaces
      /\ point \in [Cities -> 0..Points] /\ point[c] < Points
      /\ point' = [point EXCEPT ![c] = @ + 1]
      /\ made \in [Cities -> 0..MaxPackets] /\ made[c] >= 1
      /\ queue \in Seq(Packet) /\ Len(queue) < MaxQueueSize
      /\ MaxQueueSize \in Nat /\ Points \in Nat /\ MaxPackets \in Nat
      /\ c \in Offering
      /\ pollPc' = [pollPc EXCEPT ![c] = "notify"]
  BY CollectorAssumption DEF Inv, TypeOK, PointInv, OfferPush, Offering, Places, SenderPlaces, sends
<1>2. p \in Packet /\ p.city = c /\ p.n = made[c] /\ queue' = Add(queue, p)
  BY <1>1 DEF OfferPush, Packet, Add
<1> HIDE DEF p
<1>3. /\ pollPc' \in [Cities -> Places]
      /\ \A d \in Cities : pollPc'[d] = IF d = c THEN "notify" ELSE pollPc[d]
  BY <1>1, Moved DEF Places
<1>5. /\ point' \in [Cities -> 0..Points]
      /\ \A d \in Cities : point'[d] = IF d = c THEN point[c] + 1 ELSE point[d]
  <2>1. point[c] + 1 \in 0..Points
    BY <1>1
  <2> QED BY <1>1, <2>1, Counted
<1>6. Offering' = Offering \ {c}
  BY <1>3 DEF Offering
<1>7. \A x \in Pushed : Precedes(x, p)
  BY <1>1, <1>2 DEF Inv, PushedInv, Precedes
<1>8. /\ queue' \in Seq(Packet) /\ Len(queue') = Len(queue) + 1
      /\ Elements(queue') = Elements(queue) \cup {p}
      /\ Ordered(queue')
  <2>1. Ordered(queue) /\ \A x \in Elements(queue) : Precedes(x, p)
    BY <1>7 DEF Inv, OrderInv, Pushed, Waiting
  <2> QED BY <1>1, <1>2, <2>1, AddLast
<1>9. Pushed' = Pushed \cup {p} /\ Waiting' = Waiting \cup {p} /\ Pushed \subseteq Packet
  <2>1. Pushed' = Pushed \cup {p} /\ Waiting' = Waiting \cup {p}
    BY <1>1, <1>8 DEF Pushed, Waiting
  <2>2. Pushed \subseteq Packet
    BY DEF Pushed, Waiting, Inv, TypeOK, Elements
  <2> QED BY <2>1, <2>2
<1>10. TypeOK'
  <2>1. Len(queue') <= MaxQueueSize
    BY <1>1, <1>8
  <2> QED BY <1>1, <1>3, <1>5, <1>8, <2>1 DEF Inv, TypeOK, Places, SenderPlaces
<1>11. HandsInv'
  BY <1>1 DEF Inv, HandsInv
<1>12. PointInv'
  <2>1. \A d \in Cities : pollPc'[d] \in {"fetch", "offer", "full"} =>
                            d # c /\ pollPc[d] \in {"fetch", "offer", "full"}
    BY <1>3
  <2> QED BY <1>1, <1>5, <1>6, <2>1 DEF Inv, PointInv
<1>13. PushedInv'
  BY <1>1, <1>2, <1>6, <1>9 DEF Inv, PushedInv, Packet
<1>14. CoveredInv'
  <2> SUFFICES ASSUME running, ~Dead, NEW d \in Cities, NEW k \in 1..made[d],
                      ~(d \in Offering' /\ k = made[d]), [city |-> d, n |-> k] \notin Pushed
               PROVE  [city |-> d, n |-> k] = p
    BY <1>1, <1>9 DEF CoveredInv, Dead
  <2>1. d \in Offering /\ k = made[d]
    BY DEF Inv, CoveredInv
  <2>2. d = c
    BY <1>6, <2>1
  <2> QED BY <2>1, <2>2 DEF p
<1>15. OrderInv'
  BY <1>1, <1>7, <1>8, <1>9 DEF Inv, OrderInv, Before, Pushed, Waiting
<1> QED BY <1>10, <1>11, <1>12, <1>13, <1>14, <1>15 DEF Inv

LEMMA TakePacketInv ==
  ASSUME Inv, TakePacket
  PROVE  Inv'
<1> DEFINE p == Head(queue)
<1>1. /\ UNCHANGED <<running, pollPc, point, made, published, failed>>
      /\ pollPc \in [Cities -> Places] /\ sendPc = "take" /\ packet = <<>>
      /\ queue \in Seq(Packet) /\ queue # <<>> /\ Len(queue) <= MaxQueueSize
      /\ MaxQueueSize \in Nat
      /\ packet' = <<p>> /\ queue' = Tail(queue)
      /\ sendPc' = "notify"
  BY CollectorAssumption DEF Inv, TypeOK, HandsInv, TakePacket, Places, polls
<1>2. p \in Packet /\ queue' \in Seq(Packet) /\ Len(queue') <= MaxQueueSize
  BY <1>1, HeadTailPackets
<1>3. /\ Elements(queue) = {p} \cup Elements(queue')
      /\ Ordered(queue') /\ \A y \in Elements(queue') : Precedes(p, y)
  BY <1>1, TakeFirst DEF Inv, OrderInv
<1> HIDE DEF p
<1>4. packet' \in Seq(Packet) /\ Elements(packet') = {p} /\ Ordered(packet') /\ Elements(packet) = {}
  BY <1>1, <1>2, SinglePacket, NoPacket
<1>6. Offering' = Offering
  BY <1>1 DEF Offering
<1>7. Pushed' = Pushed /\ Waiting' = Waiting
  BY <1>1, <1>3, <1>4 DEF Pushed, Waiting
<1>8. TypeOK'
  BY <1>1, <1>2, <1>4 DEF Inv, TypeOK, Places
<1>9. HandsInv' /\ PointInv'
  BY <1>1, <1>2, <1>6 DEF Inv, HandsInv, PointInv
<1>10. PushedInv' /\ CoveredInv'
  BY <1>1, <1>6, <1>7 DEF Inv, PushedInv, CoveredInv, Dead
<1>11. OrderInv'
  BY <1>1, <1>3, <1>4, <1>7 DEF Inv, OrderInv, Before
<1> QED BY <1>8, <1>9, <1>10, <1>11 DEF Inv

(* The sender is done with its packet, whatever the publisher answered.    *)
LEMMA PublishInv ==
  ASSUME Inv, PublishOk \/ PublishFails
  PROVE  Inv'
<1>1. PICK p \in Packet : packet = <<p>>
  BY DEF Inv, HandsInv, PublishOk, PublishFails
<1>2. /\ Elements(packet) = {p} /\ published \in Seq(Packet) /\ failed \subseteq Packet
      /\ published \o packet = Add(published, p)
  BY <1>1, SinglePacket, AppendIsJoin DEF Inv, TypeOK
<1>3. /\ packet' = <<>> /\ sendPc' = "loop"
      /\ sendPc = "publish"
      /\ UNCHANGED <<running, pollPc, point, made, queue>>
      /\ \/ published' = Add(published, p) /\ UNCHANGED failed
         \/ failed' = failed \cup {p} /\ UNCHANGED published
  BY <1>2 DEF PublishOk, PublishFails, polls
<1>4. packet' \in Seq(Packet) /\ Elements(packet') = {} /\ Ordered(packet')
  BY <1>3, NoPacket
<1>5. /\ Ordered(published) /\ \A x \in Elements(published) : Precedes(x, p)
      /\ \A y \in Elements(queue) : Precedes(p, y)
      /\ Ordered(queue) /\ Before(published, queue)
      /\ \A x \in failed, y \in Elements(queue) : Precedes(x, y)
  BY <1>2 DEF Inv, OrderInv, Before, Waiting
<1>6. /\ published' \in Seq(Packet) /\ Ordered(published') /\ failed' \subseteq Packet
      /\ Elements(published') \cup failed' = Elements(published) \cup failed \cup {p}
  <2>1. CASE published' = Add(published, p) /\ UNCHANGED failed
    <3>1. /\ published' \in Seq(Packet) /\ Ordered(published')
          /\ Elements(published') = Elements(published) \cup {p}
      BY <1>2, <1>5, <2>1, AddLast
    <3> QED BY <1>2, <2>1, <3>1
  <2>2. CASE failed' = failed \cup {p} /\ UNCHANGED published
    BY <1>2, <1>5, <2>2
  <2> QED BY <1>3, <2>1, <2>2
<1>7. Pushed' = Pushed /\ Waiting' = Elements(queue) /\ Elements(queue') = Elements(queue)
  BY <1>2, <1>3, <1>4, <1>6 DEF Pushed, Waiting
<1>8. TypeOK'
  BY <1>3, <1>4, <1>6 DEF Inv, TypeOK
<1>9. HandsInv' /\ PointInv' /\ PushedInv' /\ CoveredInv'
  BY <1>3, <1>7 DEF Inv, HandsInv, PointInv, PushedInv, CoveredInv, Offering, Dead
<1>10. OrderInv'
  BY <1>3, <1>4, <1>5, <1>6, <1>7 DEF OrderInv, Before
<1> QED BY <1>8, <1>9, <1>10 DEF Inv

LEMMA InvStep == Inv /\ [Next]_vars => Inv'
<1> SUFFICES ASSUME Inv, [Next]_vars PROVE Inv'
  OBVIOUS
<1>1. ASSUME NEW c \in Cities, Poller(c) PROVE Inv'
  BY <1>1, QuietInv, OfferStoppedInv, FetchPacketInv, OfferPushInv,
     NotifyInv, FetchThrowsInv DEF Poller, QuietPoll
<1>2. CASE Sender \/ Publish
  BY <1>2, QuietInv, TakePacketInv, NotifyInv, PublishInv DEF Sender, Publish, QuietElse
<1>3. CASE Signal \/ UNCHANGED vars
  BY <1>3, QuietInv DEF QuietElse
<1> QED BY <1>1, <1>2, <1>3 DEF Next

(* The invariant holds in every state a collector reaches.                 *)
THEOREM Invariant == Spec => []Inv
  BY InitInv, InvStep, PTL DEF Spec

(* The variables keep their types, and the queue its bound: a thread that  *)
(* is woken, or times out, looks at the queue again before it pushes.      *)
THEOREM TypeCorrect == Spec => []TypeOK
<1>1. Inv => TypeOK
  BY DEF Inv
<1> QED BY <1>1, Invariant, PTL

(* The packets of a city leave in the order they were sampled.             *)
THEOREM CityOrderKept == Spec => []CityOrder
  BY InvOrder, Invariant, PTL

(* No packet is in two places, and none disappears while the collector     *)
(* runs: not in a full queue, and not with a lost notification.            *)
THEOREM NoPacketVanishes == Spec => []PacketsAccounted
  BY InvAccounted, Invariant, PTL
==============================================================================
