------------------------------- MODULE TcpHop -------------------------------
(***************************************************************************)
(* One hop of the hierarchy: a process that publishes envelopes with a     *)
(* TcpBrokerPublisher (the sender thread of a collector, the receive       *)
(* thread of an aggregator with one client), and the next process, whose   *)
(* TcpSubscriber accepts connections and runs a receive thread for each.   *)
(* The receiving process may be stopped by a signal, crash and start again;*)
(* a sender that outlives it reconnects.  The sending process may end and  *)
(* be started again as well.                                               *)
(*                                                                         *)
(* A frame is one message and its newline, sent by one send(), which may   *)
(* stop short of the newline.  It arrives in two pieces, the second with   *)
(* the newline: receiveMessage takes bytes one at a time, and what matters *)
(* is whether its timeout falls inside a frame.  connect(), send() and, in *)
(* an aggregator, consume() have no timeout.  TCP itself (ordered bytes,   *)
(* FIN, RST) is modelled from how TCPSocket uses it.                       *)
(***************************************************************************)
EXTENDS Naturals, Sequences, FiniteSets

CONSTANTS Conns,       \* model bound: connections, in the order they are made
          MaxMessages, \* model bound: envelopes published
          MaxRestarts, \* model bound: starts of the receiving process
          MaxShort     \* model bound: short sends

ASSUME HopAssumption ==
  Conns \in Nat /\ MaxMessages \in Nat /\ MaxRestarts \in Nat /\ MaxShort \in Nat

VARIABLES
  alive,      \* the sending process
  spc,        \* publish_to_topic: "idle", "send"
  conn,       \* its connection, 0 when connected_ is false
  made,       \* connections made so far
  published,  \* envelopes handed to publish_to_topic
  answered,   \* the ones it answered true for
  via,        \* per envelope: the connection it was sent on, 0 for none
  short,      \* envelopes of which send() took only the first piece
  wire,       \* per connection: pieces sent and not yet received
  far,        \* per connection: what the sender's kernel knows of the far end
  near,       \* per connection: is the sender's end open?
  writer,     \* is the receiving process timescale_writer, which passes a
              \* shutdown eventfd to run(), or an aggregator?  Constant
  state,      \* the receiving process: "down", "up"
  listening,  \* has it a listening socket?
  running,    \* its flag
  event,      \* its eventfd is readable
  apc,        \* its accept loop: "loop", "accept", "done"
  rpc,        \* per connection: its receive thread
  frame,      \* per connection: `message', the pieces received so far
  consumed,   \* envelopes given to consume(), in order
  cut,        \* envelopes of which a timeout threw a piece away
  starts

history == <<via, short>>
sender == <<alive, spc, conn, made, published, answered, near, history>>
flags == <<writer, state, listening, starts>>
process == <<flags, running, event>>
threads == <<apc, rpc, frame, consumed, cut>>
vars == <<sender, wire, far, process, threads>>

Links == 1..Conns
Piece == [m : 1..MaxMessages, last : BOOLEAN]
Frame(m) == <<[m |-> m, last |-> FALSE], [m |-> m, last |-> TRUE]>>
Elements(s) == {s[i] : i \in DOMAIN s}

Init ==
  /\ alive = TRUE /\ spc = "idle" /\ conn = 0 /\ made = 0
  /\ published = 0 /\ answered = {}
  /\ via = [m \in 1..MaxMessages |-> 0] /\ short = {}
  /\ wire = [k \in Links |-> <<>>]
  /\ far = [k \in Links |-> "none"] /\ near = [k \in Links |-> FALSE]
  /\ writer \in BOOLEAN
  /\ state = "down" /\ listening = FALSE /\ running = FALSE /\ event = FALSE
  /\ starts = 0
  /\ apc = "done" /\ rpc = [k \in Links |-> "none"]
  /\ frame = [k \in Links |-> <<>>] /\ consumed = <<>> /\ cut = {}

-----------------------------------------------------------------------------
(* publish_to_topic: connect if needed, then send.                         *)

PublishConnected ==
  /\ alive /\ spc = "idle" /\ published < MaxMessages
  /\ conn # 0
  /\ published' = published + 1
  /\ spc' = "send"
  /\ UNCHANGED <<alive, conn, made, answered, near, history, wire, far, process,
                 threads>>

(* connectToServer succeeds when somebody listens.                         *)
PublishConnect ==
  /\ alive /\ spc = "idle" /\ published < MaxMessages
  /\ conn = 0 /\ listening /\ made < Conns
  /\ made' = made + 1
  /\ conn' = made + 1
  /\ near' = [near EXCEPT ![made + 1] = TRUE]
  /\ far' = [far EXCEPT ![made + 1] = "open"]
  /\ published' = published + 1
  /\ spc' = "send"
  /\ UNCHANGED <<alive, answered, history, wire, process, threads>>

(* Nobody listens: publish_to_topic answers false, the envelope is dropped.*)
PublishRefused ==
  /\ alive /\ spc = "idle" /\ published < MaxMessages
  /\ conn = 0 /\ ~listening
  /\ published' = published + 1
  /\ UNCHANGED <<alive, spc, conn, made, answered, near, history, wire, far,
                 process, threads>>

(* send() has taken something: publish_to_topic answers true.              *)
AnswerTrue ==
  /\ answered' = answered \cup {published}
  /\ via' = [via EXCEPT ![published] = conn]
  /\ spc' = "idle"

(* Mutant: an interrupted send is repeated although the kernel has the     *)
(* frame already.                                                          *)
MutSendTwice ==
  /\ alive /\ spc = "send" /\ far[conn] = "open"
  /\ wire' = [wire EXCEPT ![conn] = @ \o Frame(published) \o Frame(published)]
  /\ AnswerTrue
  /\ UNCHANGED <<alive, conn, made, published, near, short, far, process, threads>>

SendOk ==
  /\ alive /\ spc = "send" /\ far[conn] = "open"
  /\ wire' = [wire EXCEPT ![conn] = @ \o Frame(published)]
  /\ AnswerTrue
  /\ UNCHANGED <<alive, conn, made, published, near, short, far, process, threads>>

(* send() is interrupted behind some of the bytes: their number, which is  *)
(* not negative, is taken for success, and the connection stays.           *)
SendShort ==
  /\ alive /\ spc = "send" /\ far[conn] = "open"
  /\ Cardinality(short) < MaxShort
  /\ wire' = [wire EXCEPT ![conn] = Append(@, [m |-> published, last |-> FALSE])]
  /\ short' = short \cup {published}
  /\ AnswerTrue
  /\ UNCHANGED <<alive, conn, made, published, near, far, process, threads>>

(* The far end has closed: the first send is taken by the kernel, and the  *)
(* answer to it breaks the pipe.                                           *)
SendIntoClosed ==
  /\ alive /\ spc = "send" /\ far[conn] = "closed"
  /\ far' = [far EXCEPT ![conn] = "broken"]
  /\ AnswerTrue
  /\ UNCHANGED <<alive, conn, made, published, near, short, wire, process, threads>>

(* The far end has reset the connection: send() fails, the publisher closes*)
(* its socket and answers false.                                           *)
SendFails ==
  /\ alive /\ spc = "send" /\ far[conn] = "reset"
  /\ near' = [near EXCEPT ![conn] = FALSE]
  /\ conn' = 0
  /\ spc' = "idle"
  /\ UNCHANGED <<alive, made, published, answered, history, wire, far, process,
                 threads>>

(* The pipe is broken: send() without MSG_NOSIGNAL raises SIGPIPE, which no*)
(* main() ignores.                                                         *)
SendKilled ==
  /\ alive /\ spc = "send" /\ far[conn] = "broken"
  /\ alive' = FALSE
  /\ near' = [near EXCEPT ![conn] = FALSE]
  /\ UNCHANGED <<spc, conn, made, published, answered, history, wire, far,
                 process, threads>>

(* The sending process ends, by its shutdown or by a crash: its end of the *)
(* connection is closed behind what it has sent.  A new one may be started.*)
SenderEnds ==
  /\ alive
  /\ alive' = FALSE
  /\ near' = [k \in Links |-> FALSE]
  /\ UNCHANGED <<spc, conn, made, published, answered, history, wire, far,
                 process, threads>>

SenderStarts ==
  /\ ~alive
  /\ alive' = TRUE /\ spc' = "idle" /\ conn' = 0
  /\ UNCHANGED <<made, published, answered, near, history, wire, far, process,
                 threads>>

-----------------------------------------------------------------------------
(* The receiving process: TcpSubscriber::run.                              *)

(* createServer fails when the port is taken: run() returns at once.       *)
Start ==
  /\ state = "down" /\ starts < MaxRestarts
  /\ state' = "up" /\ running' = TRUE /\ event' = FALSE
  /\ starts' = starts + 1
  /\ listening' \in BOOLEAN
  /\ apc' = IF listening' THEN "loop" ELSE "done"
  /\ UNCHANGED <<sender, wire, far, writer, rpc, frame, consumed, cut>>

Signal ==
  /\ state = "up" /\ running
  /\ running' = FALSE /\ event' = writer
  /\ UNCHANGED <<sender, wire, far, flags, threads>>

AcceptLoop ==
  /\ apc = "loop"
  /\ apc' = IF running THEN "accept" ELSE "done"
  /\ UNCHANGED <<sender, wire, far, process, rpc, frame, consumed, cut>>

(* The kernel hands connections over in the order they were made.          *)
Backlog == {k \in Links : far[k] = "open" /\ rpc[k] = "none"}

Accept ==
  /\ apc = "accept"
  /\ \E k \in Backlog :
       /\ \A j \in Backlog : k <= j
       /\ rpc' = [rpc EXCEPT ![k] = "loop"]
  /\ apc' = "loop"
  /\ UNCHANGED <<sender, wire, far, process, frame, consumed, cut>>

AcceptTimeout ==
  /\ apc = "accept"
  /\ apc' = "loop"
  /\ UNCHANGED <<sender, wire, far, process, rpc, frame, consumed, cut>>

(* The eventfd wakes one waiter, which reads it empty and ends.            *)
AcceptWoken ==
  /\ apc = "accept" /\ event
  /\ event' = FALSE
  /\ apc' = "done"
  /\ UNCHANGED <<sender, wire, far, flags, running, rpc, frame, consumed, cut>>

(* Mutant: while (true) instead of while (running).                        *)
MutReceiveForever(k) ==
  /\ rpc[k] = "loop"
  /\ rpc' = [rpc EXCEPT ![k] = "recv"]
  /\ frame' = [frame EXCEPT ![k] = <<>>]
  /\ UNCHANGED <<sender, wire, far, process, apc, consumed, cut>>

(* Mutant: message.clear() is missing.                                     *)
MutNoClear(k) ==
  /\ rpc[k] = "loop"
  /\ rpc' = [rpc EXCEPT ![k] = IF running THEN "recv" ELSE "end"]
  /\ UNCHANGED <<sender, wire, far, process, apc, frame, consumed, cut>>

(* A receive thread: while (running) { receiveMessage; parse; consume }.   *)
(* receiveMessage clears `message' first.                                  *)
ReceiveLoop(k) ==
  /\ rpc[k] = "loop"
  /\ rpc' = [rpc EXCEPT ![k] = IF running THEN "recv" ELSE "end"]
  /\ frame' = [frame EXCEPT ![k] = <<>>]
  /\ UNCHANGED <<sender, wire, far, process, apc, consumed, cut>>

ReceivePiece(k) ==
  /\ rpc[k] = "recv"
  /\ wire[k] # <<>> /\ ~Head(wire[k]).last
  /\ frame' = [frame EXCEPT ![k] = Append(@, Head(wire[k]))]
  /\ wire' = [wire EXCEPT ![k] = Tail(@)]
  /\ UNCHANGED <<sender, far, process, apc, rpc, consumed, cut>>

(* The newline: the message parses when the frame is whole, and is given to*)
(* consume().                                                              *)
Whole(s) == \E m \in 1..MaxMessages : s = Frame(m)

(* Mutant: the flag is tested once more when the line is there.            *)
MutDropAtStop(k) ==
  /\ rpc[k] = "recv"
  /\ wire[k] # <<>> /\ Head(wire[k]).last
  /\ wire' = [wire EXCEPT ![k] = Tail(@)]
  /\ IF running /\ Whole(Append(frame[k], Head(wire[k])))
     THEN /\ consumed' = Append(consumed, Head(wire[k]).m)
          /\ rpc' = [rpc EXCEPT ![k] = "consume"]
     ELSE /\ rpc' = [rpc EXCEPT ![k] = "loop"]
          /\ UNCHANGED consumed
  /\ UNCHANGED <<sender, far, process, apc, frame, cut>>

ReceiveNewline(k) ==
  /\ rpc[k] = "recv"
  /\ wire[k] # <<>> /\ Head(wire[k]).last
  /\ wire' = [wire EXCEPT ![k] = Tail(@)]
  /\ IF Whole(Append(frame[k], Head(wire[k])))
     THEN /\ consumed' = Append(consumed, Head(wire[k]).m)
          /\ rpc' = [rpc EXCEPT ![k] = "consume"]
     ELSE /\ rpc' = [rpc EXCEPT ![k] = "loop"]
          /\ UNCHANGED consumed
  /\ UNCHANGED <<sender, far, process, apc, frame, cut>>

(* consume() returns: in timescale_writer it has put the envelope in a     *)
(* queue or refused it, in an aggregator it has published it to the next   *)
(* tier, with a connect() and a send() that may wait for ever.             *)
ConsumeReturns(k) ==
  /\ rpc[k] = "consume"
  /\ rpc' = [rpc EXCEPT ![k] = "loop"]
  /\ UNCHANGED <<sender, wire, far, process, apc, frame, consumed, cut>>

(* Nothing arrives for a second, which may be in the middle of a frame.    *)
ReceiveTimeout(k) ==
  /\ rpc[k] = "recv"
  /\ rpc' = [rpc EXCEPT ![k] = "loop"]
  /\ cut' = cut \cup {frame[k][i].m : i \in DOMAIN frame[k]}
  /\ UNCHANGED <<sender, wire, far, process, apc, frame, consumed>>

ReceiveWoken(k) ==
  /\ rpc[k] = "recv" /\ event
  /\ event' = FALSE
  /\ rpc' = [rpc EXCEPT ![k] = "end"]
  /\ UNCHANGED <<sender, wire, far, flags, running, apc, frame, consumed, cut>>

ReceiveEof(k) ==
  /\ rpc[k] = "recv" /\ wire[k] = <<>> /\ ~near[k]
  /\ rpc' = [rpc EXCEPT ![k] = "end"]
  /\ UNCHANGED <<sender, wire, far, process, apc, frame, consumed, cut>>

(* What a closed end does to the sender: a FIN, or a RST when bytes were   *)
(* left unread.                                                            *)
Closed(k) == IF wire[k] = <<>> THEN "closed" ELSE "reset"

(* ~TCPSocket: the thread's socket is closed.                              *)
ReceiveEnd(k) ==
  /\ rpc[k] = "end"
  /\ rpc' = [rpc EXCEPT ![k] = "done"]
  /\ far' = [far EXCEPT ![k] = Closed(k)]
  /\ wire' = [wire EXCEPT ![k] = <<>>]
  /\ frame' = [frame EXCEPT ![k] = <<>>]
  /\ UNCHANGED <<sender, process, apc, consumed, cut>>

(* The process is gone, by joining its threads or by a crash: its sockets  *)
(* are closed, and connections nobody accepted are reset.                  *)
Gone ==
  /\ state' = "down" /\ listening' = FALSE /\ running' = FALSE /\ event' = FALSE
  /\ apc' = "done"
  /\ far' = [k \in Links |-> IF far[k] # "open" THEN far[k]
                             ELSE IF rpc[k] = "none" THEN "reset" ELSE Closed(k)]
  /\ rpc' = [k \in Links |-> IF far[k] = "open" THEN "done" ELSE rpc[k]]
  /\ wire' = [k \in Links |-> <<>>]
  /\ frame' = [k \in Links |-> <<>>]
  /\ UNCHANGED <<sender, writer, starts, consumed, cut>>

(* An aggregator's main() ends with run(); the one of timescale_writer goes*)
(* on without a receiver until the signal.                                 *)
Exit ==
  /\ state = "up" /\ apc = "done"
  /\ writer => ~running
  /\ \A k \in Links : rpc[k] \in {"none", "done"}
  /\ Gone

Crash == state = "up" /\ Gone

(* A sender with nothing to publish and a receiver that waits.             *)
Quiet ==
  /\ published = MaxMessages \/ (conn = 0 /\ made = Conns)
  /\ state = "down" /\ starts = MaxRestarts
  /\ UNCHANGED vars

-----------------------------------------------------------------------------
Publish ==
  \/ PublishConnected
  \/ PublishConnect
  \/ PublishRefused
  \/ SendOk
  \/ SendShort
  \/ SendIntoClosed
  \/ SendFails
  \/ SendKilled
  \/ SenderEnds
  \/ SenderStarts

Acceptor == AcceptLoop \/ Accept \/ AcceptTimeout \/ AcceptWoken

Receiver(k) ==
  \/ ReceiveLoop(k)
  \/ ReceivePiece(k)
  \/ ReceiveNewline(k)
  \/ ReceiveTimeout(k)
  \/ ReceiveWoken(k)
  \/ ReceiveEof(k)
  \/ ReceiveEnd(k)

Next ==
  \/ Publish
  \/ Start \/ Signal \/ Crash \/ Exit
  \/ Acceptor
  \/ \E k \in Links : Receiver(k) \/ ConsumeReturns(k)
  \/ Quiet

Spec == Init /\ [][Next]_vars

(* Every wait in run() and receiveMessage has a timeout of a second, so    *)
(* each thread keeps taking steps, except in consume(): it returns in      *)
(* timescale_writer, and need not in an aggregator.                        *)
FairSpec ==
  /\ Spec
  /\ WF_vars(Acceptor)
  /\ WF_vars(Exit)
  /\ \A k \in Links : WF_vars(Receiver(k)) /\ WF_vars(writer /\ ConsumeReturns(k))

-----------------------------------------------------------------------------
TypeOK ==
  /\ alive \in BOOLEAN /\ spc \in {"idle", "send"}
  /\ conn \in 0..Conns /\ made \in 0..Conns
  /\ published \in 0..MaxMessages /\ answered \subseteq 1..MaxMessages
  /\ via \in [1..MaxMessages -> 0..Conns] /\ short \subseteq 1..MaxMessages
  /\ wire \in [Links -> Seq(Piece)]
  /\ far \in [Links -> {"none", "open", "closed", "reset", "broken"}]
  /\ near \in [Links -> BOOLEAN]
  /\ writer \in BOOLEAN /\ state \in {"down", "up"} /\ listening \in BOOLEAN
  /\ running \in BOOLEAN /\ event \in BOOLEAN
  /\ apc \in {"loop", "accept", "done"}
  /\ rpc \in [Links -> {"none", "loop", "recv", "consume", "end", "done"}]
  /\ frame \in [Links -> Seq(Piece)]
  /\ consumed \in Seq(1..MaxMessages) /\ cut \subseteq 1..MaxMessages
  /\ starts \in 0..MaxRestarts

(* Only a short send mixes two envelopes in one line.  Behind every other  *)
(* one its newline comes next, whatever a timeout has cut off before.      *)
FramesPure ==
  \A k \in Links : \A i \in DOMAIN frame[k] :
    \/ frame[k][i].m \in short
    \/ /\ i = Len(frame[k])
       /\ (rpc[k] = "recv" /\ wire[k] # <<>>) =>
            Head(wire[k]) = [m |-> frame[k][i].m, last |-> TRUE]

(* No envelope reaches a pipeline twice, through reconnections and         *)
(* restarts of the receiver (the hop does not rely on the duplicate cache).*)
AtMostOnce ==
  \A i, j \in DOMAIN consumed : consumed[i] = consumed[j] => i = j

(* publish_to_topic answers true for what the kernel took, not for what    *)
(* arrived.  What of it is lost, though the receiver keeps the connection, *)
(* is an envelope a timeout fell into, one that was sent short, or the one *)
(* behind it on the connection, which is in the same line; every other one *)
(* is consumed or still on the wire.                                       *)
Spoilt(m) == m \in short \cup cut \/ (m - 1 \in short /\ via[m - 1] = via[m])
OnTheWire(m) ==
  \E i \in DOMAIN wire[via[m]] : wire[via[m]][i] = [m |-> m, last |-> TRUE]

LossHasCause ==
  \A m \in answered :
    (far[via[m]] = "open" /\ ~Spoilt(m)) => m \in Elements(consumed) \/ OnTheWire(m)

(* Once signalled the process ends, whichever thread drains the eventfd,   *)
(* and also when it never had a listening socket, provided that the calls  *)
(* of consume() return.  In timescale_writer they do; the run() of an      *)
(* aggregator waits for a thread that the next tier keeps for ever.        *)
ConsumesReturn == \A k \in Links : []<>(rpc[k] # "consume")
ShutdownCompletes == ConsumesReturn => (state = "up" /\ ~running ~> state = "down")
=============================================================================
