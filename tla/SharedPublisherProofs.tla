------------------------- MODULE SharedPublisherProofs -------------------------
(***************************************************************************)
(* A publisher with one thread that calls it, the sender of a collector,   *)
(* leaks no descriptor, and fails for a cause outside it only, for any     *)
(* number of descriptors, envelopes, resets and failing calls.  With two   *)
(* threads neither is true; the run of ClientsNotCoupled shows the second. *)
(***************************************************************************)
EXTENDS SharedPublisher, TLAPS

(* One thread publishes.                                                   *)
Sender == CHOOSE t : Threads = {t}
OneSender == Threads = {Sender}

(* Where the sender is in publish_to_topic, and its envelope.               *)
Step == pc[Sender]
Envelope == holds[Sender]

(* The descriptors that only connectToServer opens.                         *)
IsSocket(f) == table[f] \in {"new", "up", "reset", "closed", "broken"}
Connection == socketFd \in Fds /\ table[socketFd] \in {"up", "reset", "closed", "broken"}

(* While the process serves, the publisher's sockets are the one socketFd   *)
(* names, or none between close and the assignment behind socket(); its     *)
(* destructor closes what the listening TCPSocket has left.                 *)
SocketInv ==
  /\ \A f \in Fds : IsSocket(f) =>
       f = socketFd /\ Step \notin {"clear", "optClear", "failClear", "socket", "fail"}
  /\ (stage \in {"serving", "stopping"} /\ Step \notin {"clear", "optClear", "failClear"}) =>
       (socketFd \in Fds => IsSocket(socketFd))
  /\ stage \in {"returned", "ended"} =>
       Step = "idle" /\ \A f \in Fds : table[f] # "client"
  /\ stage = "ended" => \A f \in Fds : table[f] = "free"
  /\ stage = "killed" <=> Step = "killed"

(* connected_ is false from the check on until the result is stored, and    *)
(* where it is true socketFd is a connection; the result says so too.       *)
ConnectedInv ==
  /\ (connected /\ stage \in {"serving", "stopping"}
        /\ Step \notin {"failClose", "failClear", "fail"}) => Connection
  /\ Step \in {"close", "clear", "socket", "connect", "optClose", "optClear", "store"} =>
       ~connected
  /\ Step = "connect" => socketFd \in Fds /\ table[socketFd] = "new"
  /\ Step \in {"optClose", "optClear"} => ~result[Sender]
  /\ (Step = "store" /\ result[Sender]) => Connection
  /\ Step = "send" => connected

(* An envelope that is about to fail has met its cause, and every other one *)
(* was sent or has met one, but for the one that the sender still holds.    *)
OutcomeInv ==
  /\ strayed = {}
  /\ failed \subseteq hit
  /\ \A m \in 1..given : m \in sent \cup hit \/ (Step # "idle" /\ m = Envelope)
  /\ Step # "idle" => given # 0 /\ Envelope = given
  /\ Step \in {"optClose", "optClear", "failClose", "failClear", "fail"} => Envelope \in hit
  /\ (Step = "store" /\ ~result[Sender]) => Envelope \in hit
  /\ (Step = "test" /\ ~connected) => Envelope \in hit

Inv == OneSender /\ TypeOK /\ SocketInv /\ ConnectedInv /\ OutcomeInv

(* No socket is open when the publisher is made.                           *)
LEMMA InvInit == OneSender /\ Init => Inv
<1> SUFFICES ASSUME OneSender, Init PROVE Inv
  OBVIOUS
<1> USE PublisherAssumption DEF OneSender
<1>1. TypeOK
  <2>1. given \in 0..MaxMessages /\ resets \in 0..MaxResets
    BY DEF Init
  <2>2. holds \in [Threads -> 0..MaxMessages]
    BY DEF Init
  <2>3. sent \cup failed \cup hit \cup strayed \subseteq 1..MaxMessages
    BY DEF Init
  <2>4. pc \in [Threads -> {"idle", "check", "close", "clear", "socket", "connect",
                           "optClose", "optClear", "store", "test", "send",
                           "failClose", "failClear", "fail", "killed"}]
    BY DEF Init
  <2> QED BY <2>1, <2>2, <2>3, <2>4 DEF Init, TypeOK
<1>2. SocketInv /\ ConnectedInv
  BY DEF Init, SocketInv, ConnectedInv, IsSocket, Connection, Step
<1>3. OutcomeInv
  BY DEF Init, OutcomeInv, Step
<1> QED BY <1>1, <1>2, <1>3 DEF Inv

(* What the steps of the sender, of the next tier and of the listening      *)
(* socket preserve together.                                                *)
LEMMA InvStep == Inv /\ [Next]_vars => Inv'
<1> SUFFICES ASSUME Inv, [Next]_vars PROVE Inv'
  OBVIOUS
<1> DEFINE t == Sender
<1> USE PublisherAssumption DEF Inv, OneSender, Step, Envelope, IsSocket, Connection
<1> USE DEF At, Goto, Lowest, Freed, Broken
<1> USE DEF publisher, server, outcome, caller
<1>1. CASE Call(t)
  <2>1. TypeOK'
    BY <1>1 DEF Call, TypeOK
  <2>2. SocketInv'
    BY <1>1 DEF Call, TypeOK, SocketInv, ConnectedInv
  <2>3. ConnectedInv'
    BY <1>1 DEF Call, TypeOK, SocketInv, ConnectedInv
  <2>4. OutcomeInv'
    BY <1>1 DEF Call, TypeOK, ConnectedInv, OutcomeInv
  <2> QED BY <2>1, <2>2, <2>3, <2>4
<1>2. CASE Check(t)
  <2>1. TypeOK'
    BY <1>2 DEF Check, TypeOK
  <2>2. SocketInv'
    BY <1>2 DEF Check, TypeOK, SocketInv, ConnectedInv
  <2>3. ConnectedInv'
    BY <1>2 DEF Check, TypeOK, SocketInv, ConnectedInv
  <2>4. OutcomeInv'
    BY <1>2 DEF Check, TypeOK, ConnectedInv, OutcomeInv
  <2> QED BY <2>1, <2>2, <2>3, <2>4
<1>3. CASE Close(t)
  <2>1. TypeOK'
    BY <1>3 DEF Close, TypeOK
  <2>2. SocketInv'
    BY <1>3 DEF Close, TypeOK, SocketInv, ConnectedInv
  <2>3. ConnectedInv'
    BY <1>3 DEF Close, TypeOK, SocketInv, ConnectedInv
  <2>4. OutcomeInv'
    BY <1>3 DEF Close, TypeOK, ConnectedInv, OutcomeInv
  <2> QED BY <2>1, <2>2, <2>3, <2>4
<1>4. CASE Clear(t)
  <2>1. TypeOK'
    BY <1>4 DEF Clear, TypeOK
  <2>2. SocketInv'
    BY <1>4 DEF Clear, TypeOK, SocketInv, ConnectedInv
  <2>3. ConnectedInv'
    BY <1>4 DEF Clear, TypeOK, SocketInv, ConnectedInv
  <2>4. OutcomeInv'
    BY <1>4 DEF Clear, TypeOK, ConnectedInv, OutcomeInv
  <2> QED BY <2>1, <2>2, <2>3, <2>4
<1>5. CASE Socket(t)
  <2>1. TypeOK'
    BY <1>5 DEF Socket, TypeOK
  <2>2. SocketInv'
    BY <1>5 DEF Socket, TypeOK, SocketInv, ConnectedInv
  <2>3. ConnectedInv'
    BY <1>5 DEF Socket, TypeOK, SocketInv, ConnectedInv
  <2>4. OutcomeInv'
    BY <1>5 DEF Socket, TypeOK, ConnectedInv, OutcomeInv
  <2> QED BY <2>1, <2>2, <2>3, <2>4
<1>6. CASE SocketFails(t)
  <2>1. TypeOK'
    <3>1. sent' \cup failed' \cup hit' \cup strayed' \subseteq 1..MaxMessages
      <4>1. Envelope \in 1..MaxMessages
        BY <1>6 DEF SocketFails, OutcomeInv, TypeOK
      <4>2. sent \cup failed \cup hit \cup strayed \subseteq 1..MaxMessages
        BY DEF TypeOK
      <4>3. \A m \in sent' \cup failed' \cup hit' \cup strayed' :
              m \in sent \cup failed \cup hit \cup strayed \cup {Envelope}
        BY <1>6 DEF SocketFails
      <4> QED BY <4>1, <4>2, <4>3
    <3>2. resets' \in 0..MaxResets
      BY <1>6 DEF SocketFails, TypeOK
    <3> QED BY <1>6, <3>1, <3>2 DEF SocketFails, TypeOK
  <2>2. SocketInv'
    BY <1>6 DEF SocketFails, TypeOK, SocketInv, ConnectedInv
  <2>3. ConnectedInv'
    BY <1>6 DEF SocketFails, TypeOK, SocketInv, ConnectedInv
  <2>4. OutcomeInv'
    BY <1>6 DEF SocketFails, TypeOK, ConnectedInv, OutcomeInv
  <2> QED BY <2>1, <2>2, <2>3, <2>4
<1>7. CASE ConfigureFails(t)
  <2>1. TypeOK'
    <3>1. sent' \cup failed' \cup hit' \cup strayed' \subseteq 1..MaxMessages
      <4>1. Envelope \in 1..MaxMessages
        BY <1>7 DEF ConfigureFails, OutcomeInv, TypeOK
      <4>2. sent \cup failed \cup hit \cup strayed \subseteq 1..MaxMessages
        BY DEF TypeOK
      <4>3. \A m \in sent' \cup failed' \cup hit' \cup strayed' :
              m \in sent \cup failed \cup hit \cup strayed \cup {Envelope}
        BY <1>7 DEF ConfigureFails
      <4> QED BY <4>1, <4>2, <4>3
    <3>2. resets' \in 0..MaxResets
      BY <1>7 DEF ConfigureFails, TypeOK
    <3> QED BY <1>7, <3>1, <3>2 DEF ConfigureFails, TypeOK
  <2>2. SocketInv'
    BY <1>7 DEF ConfigureFails, TypeOK, SocketInv, ConnectedInv
  <2>3. ConnectedInv'
    BY <1>7 DEF ConfigureFails, TypeOK, SocketInv, ConnectedInv
  <2>4. OutcomeInv'
    BY <1>7 DEF ConfigureFails, TypeOK, ConnectedInv, OutcomeInv
  <2> QED BY <2>1, <2>2, <2>3, <2>4
<1>8. CASE Connect(t)
  <2>1. TypeOK'
    BY <1>8 DEF Connect, TypeOK
  <2>2. SocketInv'
    BY <1>8 DEF Connect, TypeOK, SocketInv, ConnectedInv
  <2>3. ConnectedInv'
    BY <1>8 DEF Connect, TypeOK, SocketInv, ConnectedInv
  <2>4. OutcomeInv'
    BY <1>8 DEF Connect, TypeOK, ConnectedInv, OutcomeInv
  <2> QED BY <2>1, <2>2, <2>3, <2>4
<1>9. CASE Refused(t)
  <2>1. TypeOK'
    <3>1. sent' \cup failed' \cup hit' \cup strayed' \subseteq 1..MaxMessages
      <4>1. Envelope \in 1..MaxMessages
        BY <1>9 DEF Refused, OutcomeInv, TypeOK
      <4>2. sent \cup failed \cup hit \cup strayed \subseteq 1..MaxMessages
        BY DEF TypeOK
      <4>3. \A m \in sent' \cup failed' \cup hit' \cup strayed' :
              m \in sent \cup failed \cup hit \cup strayed \cup {Envelope}
        BY <1>9 DEF Refused
      <4> QED BY <4>1, <4>2, <4>3
    <3>2. resets' \in 0..MaxResets
      BY <1>9 DEF Refused, TypeOK
    <3> QED BY <1>9, <3>1, <3>2 DEF Refused, TypeOK
  <2>2. SocketInv'
    BY <1>9 DEF Refused, TypeOK, SocketInv, ConnectedInv
  <2>3. ConnectedInv'
    BY <1>9 DEF Refused, TypeOK, SocketInv, ConnectedInv
  <2>4. OutcomeInv'
    BY <1>9 DEF Refused, TypeOK, ConnectedInv, OutcomeInv
  <2> QED BY <2>1, <2>2, <2>3, <2>4
<1>10. CASE Store(t)
  <2>1. TypeOK'
    BY <1>10 DEF Store, TypeOK
  <2>2. SocketInv'
    BY <1>10 DEF Store, TypeOK, SocketInv, ConnectedInv
  <2>3. ConnectedInv'
    BY <1>10 DEF Store, TypeOK, SocketInv, ConnectedInv
  <2>4. OutcomeInv'
    BY <1>10 DEF Store, TypeOK, ConnectedInv, OutcomeInv
  <2> QED BY <2>1, <2>2, <2>3, <2>4
<1>11. CASE Test(t)
  <2>1. TypeOK'
    <3>1. sent' \cup failed' \cup hit' \cup strayed' \subseteq 1..MaxMessages
      <4>1. Envelope \in 1..MaxMessages
        BY <1>11 DEF Test, OutcomeInv, TypeOK
      <4>2. sent \cup failed \cup hit \cup strayed \subseteq 1..MaxMessages
        BY DEF TypeOK
      <4>3. \A m \in sent' \cup failed' \cup hit' \cup strayed' :
              m \in sent \cup failed \cup hit \cup strayed \cup {Envelope}
        BY <1>11 DEF Test
      <4> QED BY <4>1, <4>2, <4>3
    <3>2. resets' \in 0..MaxResets
      BY <1>11 DEF Test, TypeOK
    <3> QED BY <1>11, <3>1, <3>2 DEF Test, TypeOK
  <2>2. SocketInv'
    BY <1>11 DEF Test, TypeOK, SocketInv, ConnectedInv
  <2>3. ConnectedInv'
    BY <1>11 DEF Test, TypeOK, SocketInv, ConnectedInv
  <2>4. OutcomeInv'
    BY <1>11 DEF Test, TypeOK, ConnectedInv, OutcomeInv
  <2> QED BY <2>1, <2>2, <2>3, <2>4
<1>12. CASE Send(t)
  <2>1. TypeOK'
    <3>1. sent' \cup failed' \cup hit' \cup strayed' \subseteq 1..MaxMessages
      <4>1. Envelope \in 1..MaxMessages
        BY <1>12 DEF Send, OutcomeInv, TypeOK
      <4>2. sent \cup failed \cup hit \cup strayed \subseteq 1..MaxMessages
        BY DEF TypeOK
      <4>3. \A m \in sent' \cup failed' \cup hit' \cup strayed' :
              m \in sent \cup failed \cup hit \cup strayed \cup {Envelope}
        BY <1>12 DEF Send
      <4> QED BY <4>1, <4>2, <4>3
    <3>2. resets' \in 0..MaxResets
      BY <1>12 DEF Send, TypeOK
    <3> QED BY <1>12, <3>1, <3>2 DEF Send, TypeOK
  <2>2. SocketInv'
    BY <1>12 DEF Send, TypeOK, SocketInv, ConnectedInv
  <2>3. ConnectedInv'
    BY <1>12 DEF Send, TypeOK, SocketInv, ConnectedInv
  <2>4. OutcomeInv'
    <3>1. Connection /\ table[socketFd] \in {"up", "reset", "closed"}
      BY <1>12 DEF Send, TypeOK, SocketInv, ConnectedInv
    <3>2. Envelope' = Envelope /\ given' = given /\ failed' = failed /\ strayed' = strayed
      BY <1>12, <3>1 DEF Send, TypeOK
    <3>3. CASE table[socketFd] = "up"
      <4>1. Step' = "idle" /\ sent' = sent \cup {Envelope} /\ hit' = hit
        BY <1>12, <3>1, <3>3 DEF Send, TypeOK
      <4> QED BY <3>2, <4>1 DEF OutcomeInv
    <3>4. CASE table[socketFd] = "closed"
      <4>1. Step' = "idle" /\ sent' = sent /\ hit' = hit \cup {Envelope}
        BY <1>12, <3>1, <3>4 DEF Send, TypeOK
      <4> QED BY <3>2, <4>1 DEF OutcomeInv
    <3>5. CASE table[socketFd] = "reset"
      <4>1. /\ Step = "send" /\ Step' = "failClose"
            /\ sent' = sent /\ hit' = hit \cup {Envelope}
        BY <1>12, <3>1, <3>5 DEF Send, TypeOK
      <4> QED BY <3>2, <4>1 DEF OutcomeInv
    <3> QED BY <3>1, <3>3, <3>4, <3>5
  <2> QED BY <2>1, <2>2, <2>3, <2>4
<1>13. CASE SendKills(t)
  <2>1. TypeOK'
    BY <1>13 DEF SendKills, TypeOK
  <2>2. SocketInv'
    BY <1>13 DEF SendKills, TypeOK, SocketInv, ConnectedInv
  <2>3. ConnectedInv'
    BY <1>13 DEF SendKills, TypeOK, SocketInv, ConnectedInv
  <2>4. OutcomeInv'
    BY <1>13 DEF SendKills, TypeOK, ConnectedInv, OutcomeInv
  <2> QED BY <2>1, <2>2, <2>3, <2>4
<1>14. CASE Fail(t)
  <2>1. TypeOK'
    <3>1. sent' \cup failed' \cup hit' \cup strayed' \subseteq 1..MaxMessages
      <4>1. Envelope \in 1..MaxMessages
        BY <1>14 DEF Fail, OutcomeInv, TypeOK
      <4>2. sent \cup failed \cup hit \cup strayed \subseteq 1..MaxMessages
        BY DEF TypeOK
      <4>3. \A m \in sent' \cup failed' \cup hit' \cup strayed' :
              m \in sent \cup failed \cup hit \cup strayed \cup {Envelope}
        BY <1>14 DEF Fail
      <4> QED BY <4>1, <4>2, <4>3
    <3>2. resets' \in 0..MaxResets
      BY <1>14 DEF Fail, TypeOK
    <3> QED BY <1>14, <3>1, <3>2 DEF Fail, TypeOK
  <2>2. SocketInv'
    BY <1>14 DEF Fail, TypeOK, SocketInv, ConnectedInv
  <2>3. ConnectedInv'
    BY <1>14 DEF Fail, TypeOK, SocketInv, ConnectedInv
  <2>4. OutcomeInv'
    BY <1>14 DEF Fail, TypeOK, ConnectedInv, OutcomeInv
  <2> QED BY <2>1, <2>2, <2>3, <2>4
<1>15. CASE Reset
  <2>1. TypeOK'
    BY <1>15 DEF Reset, TypeOK
  <2>2. SocketInv'
    BY <1>15 DEF Reset, TypeOK, SocketInv, ConnectedInv
  <2>3. ConnectedInv'
    BY <1>15 DEF Reset, TypeOK, SocketInv, ConnectedInv
  <2>4. OutcomeInv'
    BY <1>15 DEF Reset, TypeOK, ConnectedInv, OutcomeInv
  <2> QED BY <2>1, <2>2, <2>3, <2>4
<1>16. CASE AcceptClient
  <2>1. TypeOK'
    BY <1>16 DEF AcceptClient, TypeOK
  <2>2. SocketInv'
    BY <1>16 DEF AcceptClient, TypeOK, SocketInv, ConnectedInv
  <2>3. ConnectedInv'
    BY <1>16 DEF AcceptClient, TypeOK, SocketInv, ConnectedInv
  <2>4. OutcomeInv'
    BY <1>16 DEF AcceptClient, TypeOK, ConnectedInv, OutcomeInv
  <2> QED BY <2>1, <2>2, <2>3, <2>4
<1>17. CASE AcceptFails
  <2>1. TypeOK'
    BY <1>17 DEF AcceptFails, TypeOK
  <2>2. SocketInv'
    BY <1>17 DEF AcceptFails, TypeOK, SocketInv, ConnectedInv
  <2>3. ConnectedInv'
    BY <1>17 DEF AcceptFails, TypeOK, SocketInv, ConnectedInv
  <2>4. OutcomeInv'
    BY <1>17 DEF AcceptFails, TypeOK, ConnectedInv, OutcomeInv
  <2> QED BY <2>1, <2>2, <2>3, <2>4
<1>18. CASE ClientLeaves
  <2>1. TypeOK'
    BY <1>18 DEF ClientLeaves, TypeOK
  <2>2. SocketInv'
    BY <1>18 DEF ClientLeaves, TypeOK, SocketInv, ConnectedInv
  <2>3. ConnectedInv'
    BY <1>18 DEF ClientLeaves, TypeOK, SocketInv, ConnectedInv
  <2>4. OutcomeInv'
    BY <1>18 DEF ClientLeaves, TypeOK, ConnectedInv, OutcomeInv
  <2> QED BY <2>1, <2>2, <2>3, <2>4
<1>19. CASE Signal
  <2>1. TypeOK'
    BY <1>19 DEF Signal, TypeOK
  <2>2. SocketInv'
    BY <1>19 DEF Signal, TypeOK, SocketInv, ConnectedInv
  <2>3. ConnectedInv'
    BY <1>19 DEF Signal, TypeOK, SocketInv, ConnectedInv
  <2>4. OutcomeInv'
    BY <1>19 DEF Signal, TypeOK, ConnectedInv, OutcomeInv
  <2> QED BY <2>1, <2>2, <2>3, <2>4
<1>20. CASE RunReturns
  <2>1. TypeOK'
    BY <1>20 DEF RunReturns, TypeOK
  <2>2. SocketInv'
    BY <1>20 DEF RunReturns, TypeOK, SocketInv, ConnectedInv
  <2>3. ConnectedInv'
    BY <1>20 DEF RunReturns, TypeOK, SocketInv, ConnectedInv
  <2>4. OutcomeInv'
    BY <1>20 DEF RunReturns, TypeOK, ConnectedInv, OutcomeInv
  <2> QED BY <2>1, <2>2, <2>3, <2>4
<1>21. CASE MainEnds
  <2>1. TypeOK'
    BY <1>21 DEF MainEnds, TypeOK
  <2>2. SocketInv'
    BY <1>21 DEF MainEnds, TypeOK, SocketInv, ConnectedInv
  <2>3. ConnectedInv'
    BY <1>21 DEF MainEnds, TypeOK, SocketInv, ConnectedInv
  <2>4. OutcomeInv'
    BY <1>21 DEF MainEnds, TypeOK, ConnectedInv, OutcomeInv
  <2> QED BY <2>1, <2>2, <2>3, <2>4
<1>22. CASE UNCHANGED vars
  BY <1>22 DEF vars, TypeOK, SocketInv, ConnectedInv, OutcomeInv
<1> QED
  BY <1>1, <1>2, <1>3, <1>4, <1>5, <1>6, <1>7, <1>8, <1>9, <1>10, <1>11,
     <1>12, <1>13, <1>14, <1>15, <1>16, <1>17, <1>18, <1>19, <1>20, <1>21, <1>22
     DEF Next, Thread, Server, Terminated

LEMMA Invariant == OneSender /\ Spec => []Inv
  BY InvInit, InvStep, PTL DEF Spec

(* A publisher with one sender leaks no descriptor and its connected_ is    *)
(* never stale between two calls, for any descriptors, resets, refusals and *)
(* system calls that fail, whatever clients the process accepts in between  *)
(* and although the listening TCPSocket closes a number it does not own any *)
(* more (TcpBrokerPublisher, acceptClient and the destructors).             *)
THEOREM OneSenderLeaksNothing ==
  OneSender /\ Spec => []SocketNotLeakedOrStale
<1>1. Inv => SocketNotLeakedOrStale
  BY DEF Inv, OneSender, SocketInv, ConnectedInv, SocketNotLeakedOrStale, At,
         Step, Connection, IsSocket, Connected, TypeOK
<1> QED BY <1>1, Invariant, PTL

(* An envelope is sent on a live connection, or it met a reset, a closed    *)
(* connection, a refusal or a system call that failed; publish_to_topic     *)
(* answers false only then, and no envelope goes to a client that was given *)
(* the number of a closed socket.                                           *)
THEOREM OneSenderFailsForCause ==
  OneSender /\ Spec => []FailsOnlyForCause
<1>1. Inv => FailsOnlyForCause
  BY DEF Inv, OneSender, OutcomeInv, FailsOnlyForCause, At, Step, Envelope
<1> QED BY <1>1, Invariant, PTL
=============================================================================
