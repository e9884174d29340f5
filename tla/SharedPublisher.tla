--------------------------- MODULE SharedPublisher ---------------------------
(***************************************************************************)
(* One TcpBrokerPublisher and the threads that call it.  A collector has   *)
(* one sender thread; an aggregator and a RegionalGateway call the same    *)
(* publisher from the receive thread of every client, with no mutex.       *)
(*                                                                         *)
(* The members socketFd and connected_ are read and written one step at a  *)
(* time, and the kernel's table of file descriptors is part of the state,  *)
(* because a descriptor that one thread closes is given out again at once. *)
(* The next tier may reset, close or refuse a connection, and the calls    *)
(* that make a socket may fail.  A send into a broken connection, or on a  *)
(* socket that is not connected, raises SIGPIPE, which nobody handles.     *)
(* The listening TCPSocket keeps the number of the client it accepted      *)
(* last, and closes it at the end, whatever it stands for by then.         *)
(***************************************************************************)
EXTENDS Integers, FiniteSets

CONSTANTS Threads,     \* threads that publish
          Fds,         \* model bound: descriptors of the process
          MaxMessages, \* model bound: envelopes published
          MaxResets    \* model bound: resets, closings, refusals of the next
                       \* tier, and system calls that fail

ASSUME PublisherAssumption ==
  Fds \subseteq Nat /\ MaxMessages \in Nat /\ MaxResets \in Nat

VARIABLES
  connected,  \* TcpBrokerPublisher::connected_
  socketFd,   \* TCPSocket::socketFd, -1 for none
  table,      \* the kernel's descriptors: "free", "new" (a socket that is not
              \* connected), "up", "reset", "closed" (by the next tier, which
              \* answers a send with a reset), "broken" (by that reset), or
              \* "client" (an accepted client)
  clientFd,   \* clientFd of the listening TCPSocket: the last one accepted
  stage,      \* run(): "serving", "stopping", "returned"; main(): "ended"; or
              \* "killed" by SIGPIPE
  pc,         \* per thread, in publish_to_topic
  result,     \* per thread, what connectToServer answered
  given,      \* envelopes handed to publish_to_topic
  holds,      \* per thread, its envelope
  sent,       \* envelopes sent to the next tier
  failed,     \* envelopes publish_to_topic answered false for
  hit,        \* envelopes that met a reset or closed connection, a refusal
              \* or a system call that failed
  strayed,    \* envelopes sent to one of the clients
  resets      \* resets, closings, refusals and failing calls so far

publisher == <<connected, socketFd>>
caller == <<pc, result, given, holds>>
outcome == <<sent, failed, hit, strayed>>
server == <<clientFd, stage>>
vars == <<publisher, table, server, caller, outcome, resets>>

Init ==
  /\ connected = FALSE /\ socketFd = -1
  /\ table = [f \in Fds |-> "free"]
  /\ clientFd = -1 /\ stage = "serving"
  /\ pc = [t \in Threads |-> "idle"]
  /\ result = [t \in Threads |-> FALSE]
  /\ given = 0 /\ holds = [t \in Threads |-> 0]
  /\ sent = {} /\ failed = {} /\ hit = {} /\ strayed = {}
  /\ resets = 0

Goto(t, to) == pc' = [pc EXCEPT ![t] = to]
At(t, where) == pc[t] = where

(* What send() answers with EPIPE and SIGPIPE.                             *)
Broken == socketFd # -1 /\ table[socketFd] \in {"new", "broken"}

Lowest(f) == table[f] = "free" /\ \A g \in Fds : table[g] = "free" => f <= g

-----------------------------------------------------------------------------
Call(t) ==
  /\ At(t, "idle") /\ stage = "serving" /\ given < MaxMessages
  /\ given' = given + 1
  /\ holds' = [holds EXCEPT ![t] = given + 1]
  /\ Goto(t, "check")
  /\ UNCHANGED <<publisher, table, server, result, outcome, resets>>

(* Mutant: the envelope is sent without connecting first.                  *)
MutNoReconnect(t) ==
  /\ At(t, "check")
  /\ Goto(t, "send")
  /\ UNCHANGED <<publisher, table, server, result, given, holds, outcome, resets>>

(* if (!connected_) connectToServer                                        *)
Check(t) ==
  /\ At(t, "check")
  /\ Goto(t, IF connected THEN "send" ELSE "close")
  /\ UNCHANGED <<publisher, table, server, result, given, holds, outcome, resets>>

(* closeConnection, at the start of connectToServer, when setsockopt has   *)
(* failed, and after a failed send: if (socketFd != -1), close(socketFd),  *)
(* then socketFd = -1.                                                     *)
Close(t) ==
  /\ pc[t] \in {"close", "optClose", "failClose"}
  /\ IF socketFd = -1
     THEN /\ Goto(t, CASE At(t, "close") -> "socket"
                       [] At(t, "optClose") -> "store"
                       [] At(t, "failClose") -> "fail")
          /\ UNCHANGED table
     ELSE /\ Goto(t, CASE At(t, "close") -> "clear"
                       [] At(t, "optClose") -> "optClear"
                       [] At(t, "failClose") -> "failClear")
          /\ table' = [table EXCEPT ![socketFd] = "free"]
  /\ UNCHANGED <<publisher, server, result, given, holds, outcome, resets>>

Clear(t) ==
  /\ pc[t] \in {"clear", "optClear", "failClear"}
  /\ socketFd' = -1
  /\ Goto(t, CASE At(t, "clear") -> "socket"
               [] At(t, "optClear") -> "store"
               [] At(t, "failClear") -> "fail")
  /\ UNCHANGED <<connected, table, server, result, given, holds, outcome, resets>>

(* socket() takes the lowest free descriptor.                              *)
Socket(t) ==
  /\ At(t, "socket")
  /\ \E f \in Fds : /\ Lowest(f)
                    /\ table' = [table EXCEPT ![f] = "new"]
                    /\ socketFd' = f
  /\ Goto(t, "connect")
  /\ UNCHANGED <<connected, server, result, given, holds, outcome, resets>>

(* The call fails, for want of a descriptor or for another reason.         *)
SocketFails(t) ==
  /\ At(t, "socket")
  /\ IF \E f \in Fds : table[f] = "free"
     THEN resets < MaxResets /\ resets' = resets + 1
     ELSE UNCHANGED resets
  /\ socketFd' = -1
  /\ result' = [result EXCEPT ![t] = FALSE]
  /\ hit' = hit \cup {holds[t]}
  /\ Goto(t, "store")
  /\ UNCHANGED <<connected, table, server, given, holds, sent, failed, strayed>>

(* setsockopt fails: connectToServer closes the socket again.              *)
ConfigureFails(t) ==
  /\ At(t, "connect") /\ resets < MaxResets
  /\ resets' = resets + 1
  /\ result' = [result EXCEPT ![t] = FALSE]
  /\ hit' = hit \cup {holds[t]}
  /\ Goto(t, "optClose")
  /\ UNCHANGED <<publisher, table, server, given, holds, sent, failed, strayed>>

(* connect() works on a socket that is not connected yet.                  *)
Connect(t) ==
  /\ At(t, "connect")
  /\ LET ok == socketFd \in Fds /\ table[socketFd] = "new"
     IN /\ result' = [result EXCEPT ![t] = ok]
        /\ table' = IF ok THEN [table EXCEPT ![socketFd] = "up"] ELSE table
  /\ Goto(t, "store")
  /\ UNCHANGED <<publisher, server, given, holds, outcome, resets>>

(* Nobody listens, or inet_pton does not take the host: the socket stays   *)
(* open, closeConnection of the next attempt gets rid of it.               *)
Refused(t) ==
  /\ At(t, "connect") /\ resets < MaxResets
  /\ resets' = resets + 1
  /\ result' = [result EXCEPT ![t] = FALSE]
  /\ hit' = hit \cup {holds[t]}
  /\ Goto(t, "store")
  /\ UNCHANGED <<publisher, table, server, given, holds, sent, failed, strayed>>

Store(t) ==
  /\ At(t, "store")
  /\ connected' = result[t]
  /\ Goto(t, "test")
  /\ UNCHANGED <<socketFd, table, server, result, given, holds, outcome, resets>>

(* if (!connected_) return false                                           *)
Test(t) ==
  /\ At(t, "test")
  /\ IF connected
     THEN Goto(t, "send") /\ UNCHANGED failed
     ELSE Goto(t, "idle") /\ failed' = failed \cup {holds[t]}
  /\ UNCHANGED <<publisher, table, server, result, given, holds, sent, hit, strayed,
                 resets>>

(* sendMessage, on whatever the descriptor stands for by now.  A send into *)
(* a connection that the next tier has closed is answered true.            *)
Send(t) ==
  /\ At(t, "send") /\ ~Broken
  /\ LET what == IF socketFd = -1 THEN "free" ELSE table[socketFd]
     IN /\ sent' = IF what = "up" THEN sent \cup {holds[t]} ELSE sent
        /\ strayed' = IF what = "client" THEN strayed \cup {holds[t]} ELSE strayed
        /\ hit' = IF what \in {"reset", "closed"} THEN hit \cup {holds[t]} ELSE hit
        /\ \/ UNCHANGED table
           \/ what = "closed" /\ table' = [table EXCEPT ![socketFd] = "broken"]
        /\ Goto(t, IF what \in {"up", "client", "closed"} THEN "idle" ELSE "failClose")
  /\ UNCHANGED <<publisher, server, result, given, holds, failed, resets>>

(* SIGPIPE ends the process.                                               *)
SendKills(t) ==
  /\ At(t, "send") /\ Broken
  /\ stage' = "killed"
  /\ pc' = [u \in Threads |-> "killed"]
  /\ UNCHANGED <<publisher, table, clientFd, result, given, holds, outcome, resets>>

(* connected_ = false; return false, behind closeConnection.               *)
Fail(t) ==
  /\ At(t, "fail")
  /\ connected' = FALSE
  /\ failed' = failed \cup {holds[t]}
  /\ Goto(t, "idle")
  /\ UNCHANGED <<socketFd, table, server, result, given, holds, sent, hit, strayed,
                 resets>>

-----------------------------------------------------------------------------
(* The next tier resets the connection, or closes it in order.             *)
Reset ==
  /\ resets < MaxResets
  /\ \E f \in Fds, how \in {"reset", "closed"} :
       table[f] = "up" /\ table' = [table EXCEPT ![f] = how]
  /\ resets' = resets + 1
  /\ UNCHANGED <<publisher, server, caller, outcome>>

(* Mutant: the number of the previous client is closed before it is        *)
(* overwritten.                                                            *)
MutCloseStale ==
  /\ stage = "serving" /\ \A f \in Fds : table[f] # "client"
  /\ \E f \in Fds :
       /\ Lowest(f)
       /\ table' = [g \in Fds |-> IF g = f THEN "client"
                                  ELSE IF g = clientFd THEN "free" ELSE table[g]]
       /\ clientFd' = f
  /\ UNCHANGED <<publisher, stage, caller, outcome, resets>>

(* acceptClient: the thread of the client owns the descriptor, and clientFd*)
(* has its number as well.                                                 *)
AcceptClient ==
  /\ stage = "serving" /\ \A f \in Fds : table[f] # "client"
  /\ \E f \in Fds :
       /\ Lowest(f)
       /\ table' = [table EXCEPT ![f] = "client"]
       /\ clientFd' = f
  /\ UNCHANGED <<publisher, stage, caller, outcome, resets>>

AcceptFails ==
  /\ stage = "serving"
  /\ clientFd' = -1
  /\ UNCHANGED <<publisher, table, stage, caller, outcome, resets>>

(* The thread of a client ends and closes its descriptor.                  *)
ClientLeaves ==
  /\ stage # "killed"
  /\ \E f \in Fds : table[f] = "client" /\ table' = [table EXCEPT ![f] = "free"]
  /\ UNCHANGED <<publisher, server, caller, outcome, resets>>

Freed(f) == IF f \in Fds THEN [table EXCEPT ![f] = "free"] ELSE table

Signal ==
  /\ stage = "serving"
  /\ stage' = "stopping"
  /\ UNCHANGED <<publisher, table, clientFd, caller, outcome, resets>>

(* The receive threads are joined, the listening TCPSocket is destroyed:   *)
(* its clientFd may be the publisher's connection by now.                  *)
RunReturns ==
  /\ stage = "stopping"
  /\ \A t \in Threads : At(t, "idle")
  /\ \A f \in Fds : table[f] # "client"
  /\ table' = Freed(clientFd)
  /\ clientFd' = -1
  /\ stage' = "returned"
  /\ UNCHANGED <<publisher, caller, outcome, resets>>

(* main() destroys the publisher.                                          *)
MainEnds ==
  /\ stage = "returned"
  /\ table' = Freed(socketFd)
  /\ socketFd' = -1
  /\ stage' = "ended"
  /\ UNCHANGED <<connected, clientFd, caller, outcome, resets>>

Thread(t) ==
  \/ Call(t)
  \/ Check(t)
  \/ Close(t)
  \/ Clear(t)
  \/ Socket(t)
  \/ SocketFails(t)
  \/ ConfigureFails(t)
  \/ Connect(t)
  \/ Refused(t)
  \/ Store(t)
  \/ Test(t)
  \/ Send(t)
  \/ SendKills(t)
  \/ Fail(t)

Server ==
  \/ AcceptClient
  \/ AcceptFails
  \/ ClientLeaves
  \/ Signal
  \/ RunReturns
  \/ MainEnds

Terminated == stage \in {"ended", "killed"} /\ UNCHANGED vars

Next ==
  \/ \E t \in Threads : Thread(t)
  \/ Reset
  \/ Server
  \/ Terminated

Spec == Init /\ [][Next]_vars

-----------------------------------------------------------------------------
TypeOK ==
  /\ connected \in BOOLEAN
  /\ socketFd \in Fds \cup {-1}
  /\ table \in [Fds -> {"free", "new", "up", "reset", "closed", "broken", "client"}]
  /\ clientFd \in Fds \cup {-1}
  /\ stage \in {"serving", "stopping", "returned", "ended", "killed"}
  /\ pc \in [Threads -> {"idle", "check", "close", "clear", "socket", "connect",
                         "optClose", "optClear", "store", "test", "send",
                         "failClose", "failClear", "fail", "killed"}]
  /\ result \in [Threads -> BOOLEAN]
  /\ given \in 0..MaxMessages
  /\ holds \in [Threads -> 0..MaxMessages]
  /\ sent \cup failed \cup hit \cup strayed \subseteq 1..MaxMessages
  /\ resets \in 0..MaxResets

(* A connection, of which the publisher may not know that it is gone.      *)
Connected(f) == table[f] \in {"up", "reset", "closed", "broken"}

(* The publisher's idea of its socket is right between two calls: the only *)
(* socket it can have open is socketFd, so reconnecting for ever, through  *)
(* calls that fail half way, does not use up the descriptors; and          *)
(* connected_ is not stale: it says that socketFd stands for a connection  *)
(* (which the next tier may have reset or closed since).  The listening    *)
(* TCPSocket, which remembers a number it does not own, does not disturb   *)
(* this before the last thread has been joined; and nothing is left open   *)
(* behind main().                                                          *)
SocketNotLeakedOrStale ==
  /\ (stage \in {"serving", "stopping"} /\ \A t \in Threads : At(t, "idle")) =>
       /\ \A f \in Fds : table[f] = "new" \/ Connected(f) => f = socketFd
       /\ connected => socketFd \in Fds /\ Connected(socketFd)
  /\ stage = "ended" => \A f \in Fds : table[f] = "free"

(* An envelope that publish_to_topic has returned for was sent on a live   *)
(* connection, or something outside the publisher was in its way: the      *)
(* connection had been reset or closed, the next tier refused one, or a    *)
(* system call failed.  publish_to_topic answers false for such a cause    *)
(* only (and may answer true for a closed connection), and no envelope is  *)
(* ever sent to another peer.                                              *)
FailsOnlyForCause ==
  /\ strayed = {}
  /\ failed \subseteq hit
  /\ \A m \in 1..given :
       m \in sent \cup hit \/ \E t \in Threads : ~At(t, "idle") /\ holds[t] = m

-----------------------------------------------------------------------------
(* A receive thread per client "avoids coupling client traffic together",  *)
(* docs/ARCHITECTURE.md:179: with a next tier that is always there, no     *)
(* client makes the envelope of another one fail or go astray.             *)
ClientsNotCoupled == resets = 0 => failed = {} /\ strayed = {}
=============================================================================
