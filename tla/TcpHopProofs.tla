---------------------------- MODULE TcpHopProofs ----------------------------
(***************************************************************************)
(* For any number of connections, messages, restarts and short sends: only *)
(* a short send mixes two envelopes, no envelope is consumed twice, and    *)
(* what the publisher answered for is lost only with the connection or to  *)
(* a timeout or a short send.                                              *)
(***************************************************************************)
EXTENDS TcpHop, SequenceTheorems, TLAPS

First(m) == [m |-> m, last |-> FALSE]
LastOf(p) == [m |-> p.m, last |-> TRUE]

(* A frame is written by one send(): on the wire a first piece is followed *)
(* by its newline unless the send was short, and only the beginning of the *)
(* wire may lack the first piece.                                          *)
Framed(w, S) ==
  \A i \in DOMAIN w :
    ~w[i].last => w[i].m \in S \/ (i + 1 \in DOMAIN w /\ w[i + 1] = LastOf(w[i]))

WireInv == \A k \in Links : Framed(wire[k], short)

(* A thread has first pieces only.  While it receives, the newline of what *)
(* it has is the next piece, unless the send was short.                    *)
FrameInv ==
  \A k \in Links : \A i \in DOMAIN frame[k] :
    /\ ~frame[k][i].last
    /\ \/ frame[k][i].m \in short
       \/ /\ i = Len(frame[k])
          /\ rpc[k] = "recv" => wire[k] # <<>> /\ wire[k][1] = LastOf(frame[k][i])

(* What is on a wire: the envelopes, and those whose newline is to come.   *)
Carried(w) == {w[i].m : i \in DOMAIN w}
Newlines(w) == {w[i].m : i \in {j \in DOMAIN w : w[j].last}}
Once(w) == \A i, j \in DOMAIN w : w[i].last /\ w[j].last /\ w[i].m = w[j].m => i = j

(* What is sent has been answered for, and what is being sent has not.     *)
SentInv ==
  /\ answered \subseteq 1..published
  /\ (alive /\ spc = "send") => conn # 0 /\ published # 0 /\ published \notin answered
  /\ \A k \in Links : Carried(wire[k]) \subseteq answered
  /\ Elements(consumed) \subseteq answered

(* The newline of an envelope is on one wire at most, once, and then the   *)
(* envelope has not been consumed.                                         *)
OnceInv ==
  /\ \A k \in Links : /\ Once(wire[k])
                      /\ Newlines(wire[k]) \cap Elements(consumed) = {}
  /\ \A k, l \in Links : k # l => Newlines(wire[k]) \cap Newlines(wire[l]) = {}
  /\ AtMostOnce

Inv == TypeOK /\ WireInv /\ FrameInv /\ SentInv /\ OnceInv

-----------------------------------------------------------------------------
(* A wire: a frame is sent, a piece is received, the connection is closed. *)

LEMMA NoPieces ==
  /\ <<>> \in Seq(Piece) /\ (\A S : Framed(<<>>, S)) /\ Once(<<>>)
  /\ Carried(<<>>) = {} /\ Newlines(<<>>) = {}
  BY DEF Framed, Once, Carried, Newlines

Sent(w, m) == w \o Frame(m)

LEMMA SentPositions ==
  ASSUME NEW w \in Seq(Piece), NEW m \in 1..MaxMessages
  PROVE  \E n \in Nat :
           /\ DOMAIN w = 1..n
           /\ Sent(w, m) \in Seq(Piece) /\ DOMAIN Sent(w, m) = 1..(n + 2)
           /\ \A i \in 1..n : Sent(w, m)[i] = w[i]
           /\ Sent(w, m)[n + 1] = [m |-> m, last |-> FALSE]
           /\ Sent(w, m)[n + 2] = [m |-> m, last |-> TRUE]
<1> DEFINE first == [m |-> m, last |-> FALSE]
           newline == [m |-> m, last |-> TRUE]
<1>1. first \in Piece /\ newline \in Piece
  BY DEF Piece
<1>2. Frame(m) = <<first, newline>>
  BY DEF Frame
<1> HIDE DEF first, newline
<1>3. Len(w) \in Nat /\ DOMAIN w = 1..Len(w)
  OBVIOUS
<1>4. w \o <<first, newline>> \in Seq(Piece)
  BY <1>1
<1>5. DOMAIN (w \o <<first, newline>>) = 1..(Len(w) + 2)
  BY <1>1
<1>6. \A i \in 1..Len(w) : (w \o <<first, newline>>)[i] = w[i]
  BY <1>1
<1>7. /\ (w \o <<first, newline>>)[Len(w) + 1] = first
      /\ (w \o <<first, newline>>)[Len(w) + 2] = newline
  BY <1>1
<1>8. Sent(w, m) = w \o <<first, newline>>
  BY <1>2 DEF Sent
<1> QED BY <1>3, <1>4, <1>5, <1>6, <1>7, <1>8 DEF first, newline

LEMMA SendFrame ==
  ASSUME NEW w \in Seq(Piece), NEW m \in 1..MaxMessages, NEW S, Framed(w, S), Once(w),
         m \notin Newlines(w)
  PROVE  /\ Sent(w, m) \in Seq(Piece) /\ Framed(Sent(w, m), S) /\ Once(Sent(w, m))
         /\ Carried(Sent(w, m)) = Carried(w) \cup {m}
         /\ Newlines(Sent(w, m)) = Newlines(w) \cup {m}
         /\ Sent(w, m) # <<>>
         /\ w # <<>> => Sent(w, m)[1] = w[1]
<1> DEFINE v == Sent(w, m)
<1>1. PICK n \in Nat :
           /\ DOMAIN w = 1..n
           /\ v \in Seq(Piece) /\ DOMAIN v = 1..(n + 2)
           /\ \A i \in 1..n : v[i] = w[i]
           /\ v[n + 1] = [m |-> m, last |-> FALSE]
           /\ v[n + 2] = [m |-> m, last |-> TRUE]
  BY SentPositions
<1> HIDE DEF v
<1>2. \A i \in 1..(n + 2) : i \in 1..n \/ i = n + 1 \/ i = n + 2
  OBVIOUS
<1>3. /\ n + 1 \in 1..(n + 2) /\ n + 2 \in 1..(n + 2) /\ (n + 1) + 1 = n + 2
      /\ n + 2 \notin 1..n /\ \A i \in 1..n : i \in 1..(n + 2)
  OBVIOUS
<1>4. Framed(v, S)
  <2> SUFFICES ASSUME NEW i \in 1..(n + 2), ~v[i].last, v[i].m \notin S
               PROVE  i + 1 \in 1..(n + 2) /\ v[i + 1] = LastOf(v[i])
    BY <1>1 DEF Framed
  <2>1. CASE i \in 1..n
    <3>1. i + 1 \in 1..n /\ w[i + 1] = LastOf(w[i])
      BY <1>1, <2>1 DEF Framed
    <3> QED BY <1>1, <1>3, <2>1, <3>1
  <2>2. CASE i = n + 1
    <3>1. v[i] = [m |-> m, last |-> FALSE] /\ i + 1 = n + 2
      BY <1>1, <2>2
    <3>2. LastOf(v[i]) = [m |-> m, last |-> TRUE]
      BY <3>1 DEF LastOf
    <3> QED BY <1>1, <1>3, <3>1, <3>2
  <2> QED BY <1>1, <1>2, <2>1, <2>2
<1>5. Once(v)
  <2> SUFFICES ASSUME NEW i \in 1..(n + 2), NEW j \in 1..(n + 2),
                      v[i].last, v[j].last, v[i].m = v[j].m
               PROVE  i = j
    BY <1>1 DEF Once
  <2>1. (i \in 1..n \/ i = n + 2) /\ (j \in 1..n \/ j = n + 2)
    BY <1>1, <1>2
  <2>2. \A k \in 1..n : v[k].last => v[k].m # m
    BY <1>1 DEF Newlines
  <2>3. CASE i \in 1..n /\ j \in 1..n
    <3>1. v[i] = w[i] /\ v[j] = w[j] /\ i \in DOMAIN w /\ j \in DOMAIN w
      BY <1>1, <2>3
    <3> QED BY <3>1 DEF Once
  <2>4. v[n + 2].m = m
    BY <1>1
  <2> QED BY <2>1, <2>2, <2>3, <2>4
<1>6. Carried(v) = Carried(w) \cup {m}
  <2>1. \A x : x \in Carried(v) <=> \E i \in 1..(n + 2) : x = v[i].m
    BY <1>1 DEF Carried
  <2>2. \A x : x \in Carried(w) <=> \E i \in 1..n : x = w[i].m
    BY <1>1 DEF Carried
  <2>3. \A i \in 1..n : v[i].m = w[i].m
    BY <1>1
  <2>4. v[n + 1].m = m /\ v[n + 2].m = m
    BY <1>1
  <2>5. ASSUME NEW x \in Carried(v) PROVE x \in Carried(w) \cup {m}
    BY <1>2, <2>1, <2>2, <2>3, <2>4
  <2>6. ASSUME NEW x \in Carried(w) \cup {m} PROVE x \in Carried(v)
    BY <1>3, <2>1, <2>2, <2>3, <2>4
  <2> QED BY <2>5, <2>6
<1>7. Newlines(v) = Newlines(w) \cup {m}
  <2>1. \A x : x \in Newlines(v) <=> \E i \in 1..(n + 2) : v[i].last /\ x = v[i].m
    BY <1>1 DEF Newlines
  <2>2. \A x : x \in Newlines(w) <=> \E i \in 1..n : w[i].last /\ x = w[i].m
    BY <1>1 DEF Newlines
  <2>3. \A i \in 1..n : v[i].m = w[i].m /\ v[i].last = w[i].last
    BY <1>1
  <2>4. v[n + 1].last = FALSE /\ v[n + 2].last = TRUE /\ v[n + 2].m = m
    BY <1>1
  <2>5. ASSUME NEW x \in Newlines(v) PROVE x \in Newlines(w) \cup {m}
    BY <1>2, <2>1, <2>2, <2>3, <2>4
  <2>6. ASSUME NEW x \in Newlines(w) \cup {m} PROVE x \in Newlines(v)
    BY <1>3, <2>1, <2>2, <2>3, <2>4
  <2> QED BY <2>5, <2>6
<1>8. v # <<>>
  BY <1>1
<1>9. w # <<>> => v[1] = w[1]
  BY <1>1
<1> QED BY <1>1, <1>4, <1>5, <1>6, <1>7, <1>8, <1>9 DEF v

(* A short send: the first piece alone.                                    *)
Half(w, m) == Append(w, First(m))

LEMMA SendHalf ==
  ASSUME NEW w \in Seq(Piece), NEW m \in 1..MaxMessages, NEW S, Framed(w, S), Once(w)
  PROVE  /\ Half(w, m) \in Seq(Piece) /\ Framed(Half(w, m), S \cup {m}) /\ Once(Half(w, m))
         /\ Carried(Half(w, m)) = Carried(w) \cup {m}
         /\ Newlines(Half(w, m)) = Newlines(w)
         /\ Half(w, m) # <<>>
         /\ w # <<>> => Half(w, m)[1] = w[1]
<1> DEFINE v == Half(w, m)
           n == Len(w)
<1>1. First(m) \in Piece /\ First(m).last = FALSE /\ First(m).m = m
  BY DEF First, Piece
<1>2. n \in Nat /\ DOMAIN w = 1..n
  OBVIOUS
<1>3. v \in Seq(Piece) /\ Len(v) = n + 1
  BY <1>1 DEF Half
<1>4. DOMAIN v = 1..(n + 1)
  BY <1>3
<1>5. v[n + 1] = First(m)
  BY <1>1 DEF Half
<1>6. \A i \in 1..n : v[i] = w[i]
  BY <1>1 DEF Half
<1> HIDE DEF v, n
<1>7. /\ \A i \in 1..(n + 1) : i \in 1..n \/ i = n + 1
      /\ n + 1 \in 1..(n + 1) /\ \A i \in 1..n : i \in 1..(n + 1)
  BY <1>2
<1>8. Framed(v, S \cup {m})
  <2> SUFFICES ASSUME NEW i \in 1..(n + 1), ~v[i].last, v[i].m \notin S \cup {m}
               PROVE  i + 1 \in 1..(n + 1) /\ v[i + 1] = LastOf(v[i])
    BY <1>4 DEF Framed
  <2>1. i \in 1..n
    BY <1>1, <1>5, <1>7
  <2>2. i + 1 \in 1..n /\ w[i + 1] = LastOf(w[i])
    BY <1>2, <1>6, <2>1 DEF Framed
  <2> QED BY <1>6, <1>7, <2>1, <2>2
<1>9. \A i \in 1..(n + 1) : v[i].last => i \in 1..n
  BY <1>1, <1>5, <1>7
<1>10. Once(v)
  BY <1>2, <1>4, <1>6, <1>9 DEF Once
<1>11. Carried(v) = Carried(w) \cup {m}
  <2>1. \A x : x \in Carried(v) <=> \E i \in 1..(n + 1) : x = v[i].m
    BY <1>4 DEF Carried
  <2>2. \A x : x \in Carried(w) <=> \E i \in 1..n : x = w[i].m
    BY <1>2 DEF Carried
  <2>3. ASSUME NEW x \in Carried(v) PROVE x \in Carried(w) \cup {m}
    BY <1>1, <1>5, <1>6, <1>7, <2>1, <2>2
  <2>4. ASSUME NEW x \in Carried(w) \cup {m} PROVE x \in Carried(v)
    BY <1>1, <1>5, <1>6, <1>7, <2>1, <2>2
  <2> QED BY <2>3, <2>4
<1>12. Newlines(v) = Newlines(w)
  <2>1. \A x : x \in Newlines(v) <=> \E i \in 1..(n + 1) : v[i].last /\ x = v[i].m
    BY <1>4 DEF Newlines
  <2>2. \A x : x \in Newlines(w) <=> \E i \in 1..n : w[i].last /\ x = w[i].m
    BY <1>2 DEF Newlines
  <2>3. ASSUME NEW x \in Newlines(v) PROVE x \in Newlines(w)
    BY <1>6, <1>9, <2>1, <2>2
  <2>4. ASSUME NEW x \in Newlines(w) PROVE x \in Newlines(v)
    BY <1>6, <1>7, <2>1, <2>2
  <2> QED BY <2>3, <2>4
<1>13. v # <<>>
  BY <1>4, <1>7
<1>14. w # <<>> => v[1] = w[1]
  <2>1. w # <<>> => 1 \in 1..n
    BY DEF n
  <2> QED BY <1>6, <2>1
<1> QED BY <1>3, <1>8, <1>10, <1>11, <1>12, <1>13, <1>14 DEF v

LEMMA MoreShort ==
  ASSUME NEW w, NEW S, NEW R, Framed(w, S), S \subseteq R
  PROVE  Framed(w, R)
  BY DEF Framed

LEMMA TakePiece ==
  ASSUME NEW w \in Seq(Piece), w # <<>>, NEW S, Framed(w, S), Once(w)
  PROVE  /\ Head(w) \in Piece /\ Head(w) = w[1] /\ Head(w).m \in Carried(w)
         /\ Tail(w) \in Seq(Piece) /\ Framed(Tail(w), S) /\ Once(Tail(w))
         /\ Carried(Tail(w)) \subseteq Carried(w)
         /\ ~Head(w).last => Newlines(Tail(w)) = Newlines(w)
         /\ (~Head(w).last /\ Head(w).m \notin S) =>
              Tail(w) # <<>> /\ Tail(w)[1] = LastOf(Head(w))
         /\ Head(w).last => /\ Newlines(w) = Newlines(Tail(w)) \cup {Head(w).m}
                            /\ Head(w).m \notin Newlines(Tail(w))
<1> DEFINE h == Head(w)
           v == Tail(w)
           n == Len(w)
<1>1. /\ n \in Nat \ {0} /\ DOMAIN w = 1..n /\ h = w[1] /\ h \in Piece
      /\ v \in Seq(Piece) /\ DOMAIN v = 1..(n - 1)
      /\ \A i \in 1..(n - 1) : v[i] = w[i + 1]
  <2>1. n \in Nat \ {0} /\ DOMAIN w = 1..n
    OBVIOUS
  <2>2. h = w[1] /\ h \in Piece
    OBVIOUS
  <2>3. v \in Seq(Piece) /\ Len(v) = n - 1
    OBVIOUS
  <2>4. \A i \in 1..(n - 1) : v[i] = w[i + 1]
    OBVIOUS
  <2>5. DOMAIN v = 1..(n - 1)
    BY <2>3
  <2> QED BY <2>1, <2>2, <2>3, <2>4, <2>5
<1>2. n = 1 \/ v # <<>>
  <2>1. Len(v) = n - 1
    OBVIOUS
  <2>2. Len(<<>>) = 0
    OBVIOUS
  <2> HIDE DEF v, n
  <2> QED BY <1>1, <2>1, <2>2
<1> HIDE DEF h, v, n
<1>3. /\ 1 \in 1..n
      /\ \A i \in 1..(n - 1) : i + 1 \in 1..n /\ i + 1 # 1
      /\ \A i \in 1..n : i = 1 \/ (i - 1 \in 1..(n - 1) /\ (i - 1) + 1 = i)
  BY <1>1
<1>4. Framed(v, S)
  <2> SUFFICES ASSUME NEW i \in 1..(n - 1), ~v[i].last, v[i].m \notin S
               PROVE  i + 1 \in 1..(n - 1) /\ v[i + 1] = LastOf(v[i])
    BY <1>1 DEF Framed
  <2>1. (i + 1) + 1 \in 1..n /\ w[(i + 1) + 1] = LastOf(w[i + 1])
    BY <1>1, <1>3 DEF Framed
  <2>2. i + 1 \in 1..(n - 1)
    BY <1>1, <2>1
  <2> QED BY <1>1, <2>1, <2>2
<1>5. Once(v)
  <2> SUFFICES ASSUME NEW i \in 1..(n - 1), NEW j \in 1..(n - 1),
                      v[i].last, v[j].last, v[i].m = v[j].m
               PROVE  i = j
    BY <1>1 DEF Once
  <2>1. i + 1 = j + 1
    BY <1>1, <1>3 DEF Once
  <2> QED BY <2>1
<1>6. Carried(v) \subseteq Carried(w) /\ h.m \in Carried(w)
  BY <1>1, <1>3 DEF Carried
<1>7. \A x : x \in Newlines(v) <=> \E i \in 1..(n - 1) : w[i + 1].last /\ x = w[i + 1].m
  BY <1>1 DEF Newlines
<1>8. \A x : x \in Newlines(w) <=> \E i \in 1..n : w[i].last /\ x = w[i].m
  BY <1>1 DEF Newlines
<1>9. ASSUME ~h.last
      PROVE  Newlines(v) = Newlines(w) /\ (h.m \notin S => v # <<>> /\ v[1] = LastOf(h))
  <2>1. Newlines(v) = Newlines(w)
    <3>1. ASSUME NEW x \in Newlines(v) PROVE x \in Newlines(w)
      BY <1>3, <1>7, <1>8
    <3>2. ASSUME NEW x \in Newlines(w) PROVE x \in Newlines(v)
      <4>1. PICK i \in 1..n : w[i].last /\ x = w[i].m
        BY <1>8, <3>2
      <4>2. i # 1
        BY <1>1, <1>9, <4>1
      <4>3. i - 1 \in 1..(n - 1) /\ w[(i - 1) + 1].last /\ x = w[(i - 1) + 1].m
        BY <1>3, <4>1, <4>2
      <4> QED BY <1>7, <4>3
    <3> QED BY <3>1, <3>2
  <2>2. h.m \notin S => 1 + 1 \in 1..n /\ w[1 + 1] = LastOf(h)
    BY <1>1, <1>3, <1>9 DEF Framed
  <2> QED BY <1>1, <1>2, <2>1, <2>2
<1>10. ASSUME h.last PROVE Newlines(w) = Newlines(v) \cup {h.m} /\ h.m \notin Newlines(v)
  <2>1. Newlines(w) = Newlines(v) \cup {h.m}
    <3>1. ASSUME NEW x \in Newlines(v) PROVE x \in Newlines(w)
      BY <1>3, <1>7, <1>8
    <3>2. ASSUME NEW x \in Newlines(w), x # h.m PROVE x \in Newlines(v)
      <4>1. PICK i \in 1..n : w[i].last /\ x = w[i].m
        BY <1>8, <3>2
      <4>2. i # 1
        BY <1>1, <3>2, <4>1
      <4>3. i - 1 \in 1..(n - 1) /\ w[(i - 1) + 1].last /\ x = w[(i - 1) + 1].m
        BY <1>3, <4>1, <4>2
      <4> QED BY <1>7, <4>3
    <3>3. h.m \in Newlines(w)
      BY <1>1, <1>3, <1>8, <1>10
    <3> QED BY <3>1, <3>2, <3>3
  <2>2. h.m \notin Newlines(v)
    <3> SUFFICES ASSUME NEW i \in 1..(n - 1), w[i + 1].last, h.m = w[i + 1].m PROVE FALSE
      BY <1>7
    <3>1. i + 1 \in DOMAIN w /\ 1 \in DOMAIN w /\ i + 1 # 1
      BY <1>1, <1>3
    <3> QED BY <1>1, <1>10, <3>1 DEF Once
  <2> QED BY <2>1, <2>2
<1> QED BY <1>1, <1>4, <1>5, <1>6, <1>9, <1>10 DEF h, v

-----------------------------------------------------------------------------
Sending == (alive /\ spc = "send") => conn # 0 /\ published # 0

LEMMA Constants ==
  /\ Conns \in Nat /\ MaxMessages \in Nat /\ MaxRestarts \in Nat
  /\ \A k \in Links : k \in Nat /\ k # 0
  /\ \A k \in 0..Conns : k # 0 => k \in Links
  BY HopAssumption DEF Links

LEMMA PublishType ==
  ASSUME TypeOK, Sending, Publish
  PROVE  TypeOK'
<1> USE Constants DEF sender, history, flags, process, threads
<1>1. CASE PublishConnected
  <2>1. published' \in 0..MaxMessages /\ spc' \in {"idle", "send"}
    BY <1>1 DEF PublishConnected, TypeOK
  <2> QED BY <1>1, <2>1 DEF PublishConnected, TypeOK
<1>2. CASE PublishConnect
  <2>1. made + 1 \in 0..Conns /\ made + 1 \in Links
    BY <1>2 DEF PublishConnect, TypeOK
  <2>2. near' \in [Links -> BOOLEAN]
    BY <1>2, <2>1 DEF PublishConnect, TypeOK
  <2>3. far' \in [Links -> {"none", "open", "closed", "reset", "broken"}]
    BY <1>2, <2>1 DEF PublishConnect, TypeOK
  <2>4. conn' \in 0..Conns /\ made' \in 0..Conns /\ published' \in 0..MaxMessages
    BY <1>2, <2>1 DEF PublishConnect, TypeOK
  <2> QED BY <1>2, <2>2, <2>3, <2>4 DEF PublishConnect, TypeOK
<1>3. CASE PublishRefused
  BY <1>3 DEF PublishRefused, TypeOK
<1>4. CASE SendOk
  <2>1. conn \in Links /\ published \in 1..MaxMessages
    BY <1>4 DEF SendOk, TypeOK, Sending
  <2>5. via' \in [1..MaxMessages -> 0..Conns]
    BY <1>4, <2>1 DEF SendOk, AnswerTrue, TypeOK, Links
  <2>2. Sent(wire[conn], published) \in Seq(Piece)
    BY <2>1, SentPositions DEF TypeOK
  <2>3. wire' = [wire EXCEPT ![conn] = Sent(wire[conn], published)]
    BY <1>4 DEF SendOk, Sent
  <2>4. wire' \in [Links -> Seq(Piece)]
    BY <2>1, <2>2, <2>3 DEF TypeOK
  <2> QED BY <1>4, <2>1, <2>4, <2>5 DEF SendOk, AnswerTrue, TypeOK
<1>10. CASE SendShort
  <2>1. conn \in Links /\ published \in 1..MaxMessages
    BY <1>10 DEF SendShort, TypeOK, Sending
  <2>2. via' \in [1..MaxMessages -> 0..Conns] /\ short' \subseteq 1..MaxMessages
    BY <1>10, <2>1 DEF SendShort, AnswerTrue, TypeOK, Links
  <2>3. Append(wire[conn], First(published)) \in Seq(Piece)
    <3>1. First(published) \in Piece
      BY <2>1 DEF Piece, First
    <3>2. wire[conn] \in Seq(Piece)
      BY <2>1 DEF TypeOK
    <3> QED BY <3>1, <3>2
  <2>4. wire' \in [Links -> Seq(Piece)]
    BY <1>10, <2>1, <2>3 DEF SendShort, TypeOK, First
  <2> QED BY <1>10, <2>1, <2>2, <2>4 DEF SendShort, AnswerTrue, TypeOK
<1>5. CASE SendIntoClosed
  <2>1. conn \in Links /\ published \in 1..MaxMessages
    BY <1>5 DEF SendIntoClosed, TypeOK, Sending
  <2>2. via' \in [1..MaxMessages -> 0..Conns]
    BY <1>5, <2>1 DEF SendIntoClosed, AnswerTrue, TypeOK, Links
  <2> QED BY <1>5, <2>1, <2>2 DEF SendIntoClosed, AnswerTrue, TypeOK
<1>6. CASE SendFails
  <2>1. near' \in [Links -> BOOLEAN]
    BY <1>6 DEF SendFails, TypeOK
  <2>2. conn' \in 0..Conns /\ spc' \in {"idle", "send"}
    BY <1>6 DEF SendFails
  <2> QED BY <1>6, <2>1, <2>2 DEF SendFails, TypeOK
<1>7. CASE SendKilled
  BY <1>7 DEF SendKilled, TypeOK
<1>8. CASE SenderEnds
  BY <1>8 DEF SenderEnds, TypeOK
<1>9. CASE SenderStarts
  BY <1>9 DEF SenderStarts, TypeOK
<1> QED BY <1>1, <1>2, <1>3, <1>4, <1>5, <1>6, <1>7, <1>8, <1>9, <1>10 DEF Publish

LEMMA ProcessType ==
  ASSUME TypeOK, Start \/ Signal \/ Crash \/ Exit \/ Acceptor
  PROVE  TypeOK'
<1> USE Constants DEF sender, history, flags, process, threads
<1>1. CASE Start
  <2>1. apc' \in {"loop", "accept", "done"} /\ starts' \in 0..MaxRestarts
    BY <1>1 DEF Start, TypeOK
  <2>2. listening' \in BOOLEAN /\ running' \in BOOLEAN /\ event' \in BOOLEAN
    BY <1>1 DEF Start
  <2> QED BY <1>1, <2>1, <2>2 DEF Start, TypeOK
<1>2. CASE Signal
  BY <1>2 DEF Signal, TypeOK
<1>3. CASE Crash \/ Exit
  <2>1. Gone
    BY <1>3 DEF Crash, Exit
  <2>2. wire' \in [Links -> Seq(Piece)] /\ frame' \in [Links -> Seq(Piece)]
    BY <2>1, NoPieces DEF Gone
  <2>3. far' \in [Links -> {"none", "open", "closed", "reset", "broken"}]
    BY <2>1 DEF Gone, Closed, TypeOK
  <2>4. rpc' \in [Links -> {"none", "loop", "recv", "consume", "end", "done"}]
    BY <2>1 DEF Gone, TypeOK
  <2> QED BY <2>1, <2>2, <2>3, <2>4 DEF Gone, TypeOK
<1>4. CASE AcceptLoop
  BY <1>4 DEF AcceptLoop, TypeOK
<1>5. CASE Accept
  BY <1>5 DEF Accept, TypeOK
<1>6. CASE AcceptTimeout
  BY <1>6 DEF AcceptTimeout, TypeOK
<1>7. CASE AcceptWoken
  BY <1>7 DEF AcceptWoken, TypeOK
<1> QED BY <1>1, <1>2, <1>3, <1>4, <1>5, <1>6, <1>7 DEF Acceptor

LEMMA ReceiverType ==
  ASSUME TypeOK, WireInv, OnceInv, NEW k \in Links, Receiver(k) \/ ConsumeReturns(k)
  PROVE  TypeOK'
<1> USE Constants DEF sender, history, flags, process, threads
<1>1. CASE ReceiveLoop(k)
  BY <1>1, NoPieces DEF ReceiveLoop, TypeOK
<1>2. CASE ReceivePiece(k) \/ ReceiveNewline(k)
  <2>1. /\ wire[k] \in Seq(Piece) /\ wire[k] # <<>> /\ Framed(wire[k], short) /\ Once(wire[k])
        /\ wire' = [wire EXCEPT ![k] = Tail(wire[k])]
    BY <1>2 DEF ReceivePiece, ReceiveNewline, TypeOK, WireInv, OnceInv
  <2>2. Head(wire[k]) \in Piece /\ Tail(wire[k]) \in Seq(Piece)
    BY <2>1, TakePiece
  <2>3. wire' \in [Links -> Seq(Piece)]
    BY <2>1, <2>2 DEF TypeOK
  <2>4. CASE ReceivePiece(k)
    <3>1. Append(frame[k], Head(wire[k])) \in Seq(Piece)
      BY <2>2 DEF TypeOK
    <3>2. frame' \in [Links -> Seq(Piece)]
      BY <2>4, <3>1 DEF ReceivePiece, TypeOK
    <3> QED BY <2>3, <2>4, <3>2 DEF ReceivePiece, TypeOK
  <2>5. CASE ReceiveNewline(k)
    <3>1. Head(wire[k]).m \in 1..MaxMessages
      BY <2>2 DEF Piece
    <3>2. Append(consumed, Head(wire[k]).m) \in Seq(1..MaxMessages)
      BY <3>1 DEF TypeOK
    <3>3. consumed' \in Seq(1..MaxMessages)
      BY <2>5, <3>2 DEF ReceiveNewline, TypeOK
    <3> QED BY <2>3, <2>5, <3>3 DEF ReceiveNewline, TypeOK
  <2> QED BY <1>2, <2>4, <2>5
<1>3. CASE ReceiveTimeout(k)
  <2>1. \A i \in DOMAIN frame[k] : frame[k][i].m \in 1..MaxMessages
    <3>1. frame[k] \in Seq(Piece)
      BY DEF TypeOK
    <3>2. \A i \in DOMAIN frame[k] : frame[k][i] \in Piece
      BY <3>1
    <3> QED BY <3>2 DEF Piece
  <2>2. cut' \subseteq 1..MaxMessages
    BY <1>3, <2>1 DEF ReceiveTimeout, TypeOK
  <2> QED BY <1>3, <2>2 DEF ReceiveTimeout, TypeOK
<1>7. CASE ConsumeReturns(k)
  BY <1>7 DEF ConsumeReturns, TypeOK
<1>4. CASE ReceiveWoken(k)
  BY <1>4 DEF ReceiveWoken, TypeOK
<1>5. CASE ReceiveEof(k)
  BY <1>5 DEF ReceiveEof, TypeOK
<1>6. CASE ReceiveEnd(k)
  BY <1>6, NoPieces DEF ReceiveEnd, Closed, TypeOK
<1> QED BY <1>1, <1>2, <1>3, <1>4, <1>5, <1>6, <1>7 DEF Receiver

LEMMA TypeStep == Inv /\ [Next]_vars => TypeOK'
<1> SUFFICES ASSUME Inv, [Next]_vars PROVE TypeOK'
  OBVIOUS
<1>1. CASE UNCHANGED vars
  BY <1>1 DEF vars, sender, history, flags, process, threads, Inv, TypeOK
<1>2. Sending
  BY DEF Inv, SentInv, Sending
<1> QED BY <1>1, <1>2, PublishType, ProcessType, ReceiverType DEF Next, Quiet, Inv

-----------------------------------------------------------------------------
(* The steps that move no piece.                                           *)

Core == WireInv /\ FrameInv /\ SentInv /\ OnceInv

LEMMA QuietCore ==
  ASSUME Core, UNCHANGED <<wire, frame, consumed, answered, short>>,
         \A k \in Links : rpc'[k] = "recv" => rpc[k] = "recv",
         published' \in Nat, published \in Nat, published <= published',
         (alive' /\ spc' = "send") => conn' # 0 /\ published' # 0 /\ published' \notin answered
  PROVE  Core'
<1>1. WireInv' /\ FrameInv'
  BY DEF Core, WireInv, FrameInv
<1>2. answered \subseteq 1..published'
  BY DEF Core, SentInv
<1>3. SentInv'
  BY <1>2 DEF Core, SentInv
<1>4. OnceInv'
  BY DEF Core, OnceInv, AtMostOnce
<1> QED BY <1>1, <1>3, <1>4 DEF Core

LEMMA PublishCore ==
  ASSUME TypeOK, Core,
         \/ PublishConnected \/ PublishConnect \/ PublishRefused \/ SendFails
         \/ SendKilled \/ SenderEnds \/ SenderStarts
  PROVE  Core'
<1>1. /\ UNCHANGED <<wire, frame, consumed, answered, rpc, short>>
      /\ published \in Nat /\ answered \subseteq 1..published
  BY HopAssumption DEF Core, SentInv, TypeOK, PublishConnected, PublishConnect, PublishRefused,
     SendFails, SendKilled, SenderEnds, SenderStarts, process, threads, history
<1>2. CASE PublishConnected \/ PublishConnect \/ PublishRefused
  <2>1. /\ published' = published + 1
        /\ (alive' /\ spc' = "send") => conn' # 0
    BY <1>2, HopAssumption DEF PublishConnected, PublishConnect, PublishRefused, TypeOK,
       process, threads
  <2>2. /\ published' \in Nat /\ published <= published' /\ published' # 0
        /\ published' \notin answered
    BY <1>1, <2>1
  <2> QED BY <1>1, <2>1, <2>2, QuietCore
<1>3. CASE SendFails \/ SendKilled \/ SenderEnds \/ SenderStarts
  <2>1. published' = published /\ ~(alive' /\ spc' = "send")
    BY <1>3 DEF SendFails, SendKilled, SenderEnds, SenderStarts, process, threads
  <2>2. published <= published'
    BY <1>1, <2>1
  <2> QED BY <1>1, <2>1, <2>2, QuietCore
<1> QED BY <1>2, <1>3

LEMMA ProcessCore ==
  ASSUME TypeOK, Core, Start \/ Signal \/ Acceptor \/ UNCHANGED vars
  PROVE  Core'
<1> USE DEF Start, Signal, Acceptor, AcceptLoop, Accept, AcceptTimeout, AcceptWoken,
            sender, history, flags, process, threads, vars
<1>1. UNCHANGED <<wire, frame, consumed, answered, published, alive, spc, conn, short>>
  OBVIOUS
<1>2. \A k \in Links : rpc'[k] = "recv" => rpc[k] = "recv"
  BY DEF TypeOK
<1>3. published \in Nat /\ published <= published'
  BY <1>1 DEF TypeOK
<1>4. Sending /\ ((alive /\ spc = "send") => published \notin answered)
  BY DEF Core, SentInv, Sending
<1> QED BY <1>1, <1>2, <1>3, <1>4, QuietCore DEF Sending

LEMMA ReceiverQuietCore ==
  ASSUME TypeOK, Core, NEW k \in Links,
         ReceiveTimeout(k) \/ ReceiveWoken(k) \/ ReceiveEof(k) \/ ConsumeReturns(k)
  PROVE  Core'
<1> USE DEF ReceiveTimeout, ReceiveWoken, ReceiveEof, ConsumeReturns, sender, history, flags, process, threads
<1>1. UNCHANGED <<wire, frame, consumed, answered, published, alive, spc, conn, short>>
  OBVIOUS
<1>2. \A l \in Links : rpc'[l] = "recv" => rpc[l] = "recv"
  BY DEF TypeOK
<1>3. published \in Nat /\ published <= published'
  BY <1>1 DEF TypeOK
<1>4. Sending /\ ((alive /\ spc = "send") => published \notin answered)
  BY DEF Core, SentInv, Sending
<1> QED BY <1>1, <1>2, <1>3, <1>4, QuietCore DEF Sending

(* A thread clears what it has before it waits for the next piece.         *)
LEMMA ReceiveLoopCore ==
  ASSUME TypeOK, Core, NEW k \in Links, ReceiveLoop(k)
  PROVE  Core'
<1>1. /\ UNCHANGED <<wire, consumed, answered, published, alive, spc, conn, short>>
      /\ \A l \in Links : IF l = k THEN frame'[l] = <<>>
                          ELSE frame'[l] = frame[l] /\ rpc'[l] = rpc[l]
  BY DEF ReceiveLoop, TypeOK, sender, history, process
<1>2. DOMAIN <<>> = {}
  OBVIOUS
<1>3. FrameInv'
  BY <1>1, <1>2 DEF Core, FrameInv
<1>4. WireInv' /\ SentInv' /\ OnceInv'
  BY <1>1 DEF Core, WireInv, SentInv, OnceInv, AtMostOnce
<1> QED BY <1>3, <1>4 DEF Core

-----------------------------------------------------------------------------
(* A frame is sent: its envelope is on no wire and has not been consumed.  *)
LEMMA SendOkCore ==
  ASSUME TypeOK, Core, SendOk
  PROVE  Core'
<1> DEFINE w == wire[conn]
           v == Sent(w, published)
<1>1. /\ UNCHANGED <<published, frame, rpc, consumed, short>>
      /\ wire' = [wire EXCEPT ![conn] = v]
      /\ answered' = answered \cup {published} /\ spc' = "idle"
      /\ published \in 1..MaxMessages /\ conn \in Links /\ published \notin answered
  BY Constants DEF SendOk, AnswerTrue, TypeOK, Core, SentInv, Sent, threads, process
<1>2. w \in Seq(Piece) /\ Framed(w, short) /\ Once(w) /\ Newlines(w) \subseteq Carried(w)
  BY <1>1 DEF TypeOK, Core, WireInv, OnceInv, Carried, Newlines
<1>3. \A k \in Links : Newlines(wire[k]) \subseteq answered
  BY DEF Core, SentInv, Carried, Newlines
<1>4. Elements(consumed) \subseteq answered
  BY DEF Core, SentInv
<1>5. /\ Framed(v, short) /\ Once(v) /\ Carried(v) = Carried(w) \cup {published}
      /\ Newlines(v) = Newlines(w) \cup {published}
      /\ v # <<>> /\ (w # <<>> => v[1] = w[1])
  BY <1>1, <1>2, <1>3, SendFrame
<1> HIDE DEF v
<1>6. \A k \in Links : wire'[k] = IF k = conn THEN v ELSE wire[k]
  BY <1>1 DEF TypeOK
<1>7. WireInv'
  BY <1>1, <1>5, <1>6 DEF Core, WireInv
<1>8. FrameInv'
  BY <1>1, <1>5, <1>6 DEF Core, FrameInv
<1>9. SentInv'
  <2>1. answered' \subseteq 1..published'
    BY <1>1 DEF Core, SentInv
  <2>2. \A k \in Links : Carried(wire'[k]) \subseteq answered'
    BY <1>1, <1>5, <1>6 DEF Core, SentInv
  <2> QED BY <1>1, <1>4, <2>1, <2>2 DEF SentInv
<1>10. OnceInv'
  <2>1. \A k \in Links : Once(wire'[k]) /\ Newlines(wire'[k]) \cap Elements(consumed') = {}
    BY <1>1, <1>4, <1>5, <1>6 DEF Core, OnceInv
  <2>2. \A k, l \in Links : k # l => Newlines(wire'[k]) \cap Newlines(wire'[l]) = {}
    BY <1>1, <1>3, <1>5, <1>6 DEF Core, OnceInv
  <2>3. AtMostOnce'
    BY <1>1 DEF Core, OnceInv, AtMostOnce
  <2> QED BY <2>1, <2>2, <2>3 DEF OnceInv
<1> QED BY <1>7, <1>8, <1>9, <1>10 DEF Core

LEMMA SendShortCore ==
  ASSUME TypeOK, Core, SendShort
  PROVE  Core'
<1> DEFINE w == wire[conn]
           v == Half(w, published)
<1>1. /\ UNCHANGED <<published, frame, rpc, consumed>>
      /\ wire' = [wire EXCEPT ![conn] = v]
      /\ answered' = answered \cup {published} /\ spc' = "idle"
      /\ short' = short \cup {published}
      /\ published \in 1..MaxMessages /\ conn \in Links /\ published \notin answered
  BY Constants DEF SendShort, AnswerTrue, TypeOK, Core, SentInv, Half, First, threads, process
<1>2. w \in Seq(Piece) /\ Framed(w, short) /\ Once(w)
  BY <1>1 DEF TypeOK, Core, WireInv, OnceInv
<1>3. Elements(consumed) \subseteq answered
  BY DEF Core, SentInv
<1>4. /\ Framed(v, short') /\ Once(v) /\ Carried(v) = Carried(w) \cup {published}
      /\ Newlines(v) = Newlines(w)
      /\ v # <<>> /\ (w # <<>> => v[1] = w[1])
  BY <1>1, <1>2, SendHalf
<1> HIDE DEF v
<1>5. \A k \in Links : wire'[k] = IF k = conn THEN v ELSE wire[k]
  BY <1>1 DEF TypeOK
<1>6. WireInv'
  <2>1. \A k \in Links : Framed(wire[k], short')
    BY <1>1, MoreShort DEF Core, WireInv
  <2> QED BY <1>4, <1>5, <2>1 DEF WireInv
<1>7. FrameInv'
  BY <1>1, <1>4, <1>5 DEF Core, FrameInv
<1>8. SentInv'
  <2>1. answered' \subseteq 1..published'
    BY <1>1 DEF Core, SentInv
  <2>2. \A k \in Links : Carried(wire'[k]) \subseteq answered'
    BY <1>1, <1>4, <1>5 DEF Core, SentInv
  <2> QED BY <1>1, <1>3, <2>1, <2>2 DEF SentInv
<1>9. OnceInv'
  BY <1>1, <1>4, <1>5 DEF Core, OnceInv, AtMostOnce
<1> QED BY <1>6, <1>7, <1>8, <1>9 DEF Core

LEMMA SendIntoClosedCore ==
  ASSUME TypeOK, Core, SendIntoClosed
  PROVE  Core'
<1>1. /\ UNCHANGED <<published, wire, frame, rpc, consumed, short>>
      /\ answered' = answered \cup {published} /\ spc' = "idle"
      /\ published \in 1..MaxMessages
  BY Constants DEF SendIntoClosed, AnswerTrue, TypeOK, Core, SentInv, threads, process
<1>2. WireInv' /\ FrameInv' /\ OnceInv'
  BY <1>1 DEF Core, WireInv, FrameInv, OnceInv, AtMostOnce
<1>3. answered' \subseteq 1..published'
  BY <1>1 DEF Core, SentInv
<1>4. SentInv'
  BY <1>1, <1>3 DEF Core, SentInv
<1> QED BY <1>2, <1>4 DEF Core

(* A piece leaves the wire of a thread that receives.                      *)
LEMMA WireShrinks ==
  ASSUME Core, NEW k \in Links,
         wire[k] \in Seq(Piece), wire[k] # <<>>,
         wire \in [Links -> Seq(Piece)], wire' = [wire EXCEPT ![k] = Tail(wire[k])],
         UNCHANGED <<alive, spc, conn, published, answered, short>>
  PROVE  /\ WireInv' /\ \A l \in Links : Once(wire'[l])
         /\ \A l \in Links : Carried(wire'[l]) \subseteq answered'
         /\ \A l \in Links : wire'[l] = IF l = k THEN Tail(wire[k]) ELSE wire[l]
         /\ \A l \in Links : Newlines(wire'[l]) \subseteq Newlines(wire[l])
         /\ \A l, n \in Links : l # n => Newlines(wire'[l]) \cap Newlines(wire'[n]) = {}
<1> DEFINE v == Tail(wire[k])
<1>1. Framed(wire[k], short) /\ Once(wire[k])
  BY DEF Core, WireInv, OnceInv
<1>2. /\ Framed(v, short) /\ Once(v) /\ Carried(v) \subseteq Carried(wire[k])
      /\ Head(wire[k]) \in Piece
      /\ ~Head(wire[k]).last => Newlines(v) = Newlines(wire[k])
      /\ Head(wire[k]).last => Newlines(wire[k]) = Newlines(v) \cup {Head(wire[k]).m}
  BY <1>1, TakePiece
<1>3. Newlines(v) \subseteq Newlines(wire[k])
  <2>1. Head(wire[k]).last \in BOOLEAN
    BY <1>2 DEF Piece
  <2> QED BY <1>2, <2>1
<1>4. \A l \in Links : wire'[l] = IF l = k THEN v ELSE wire[l]
  OBVIOUS
<1> HIDE DEF v
<1>5. WireInv' /\ \A l \in Links : Once(wire'[l])
  BY <1>2, <1>4 DEF Core, WireInv, OnceInv
<1>6. \A l \in Links : Carried(wire'[l]) \subseteq answered'
  BY <1>2, <1>4 DEF Core, SentInv
<1>7. \A l \in Links : Newlines(wire'[l]) \subseteq Newlines(wire[l])
  BY <1>3, <1>4
<1>8. \A l, n \in Links : l # n => Newlines(wire'[l]) \cap Newlines(wire'[n]) = {}
  BY <1>7 DEF Core, OnceInv
<1> QED BY <1>4, <1>5, <1>6, <1>7, <1>8 DEF v

LEMMA ReceivePieceCore ==
  ASSUME TypeOK, Core, NEW k \in Links, ReceivePiece(k)
  PROVE  Core'
<1> DEFINE h == Head(wire[k])
           v == Tail(wire[k])
<1>1. /\ UNCHANGED <<alive, spc, conn, published, answered, rpc, consumed, short>>
      /\ wire \in [Links -> Seq(Piece)] /\ wire[k] \in Seq(Piece) /\ wire[k] # <<>> /\ ~h.last
      /\ wire' = [wire EXCEPT ![k] = v]
      /\ frame' = [frame EXCEPT ![k] = Append(frame[k], h)]
      /\ frame \in [Links -> Seq(Piece)] /\ rpc[k] = "recv"
  BY DEF ReceivePiece, TypeOK, threads, process, sender, history
<1>2. Framed(wire[k], short) /\ Once(wire[k])
  BY DEF Core, WireInv, OnceInv
<1>3. /\ h \in Piece /\ h = wire[k][1]
      /\ h.m \notin short => v # <<>> /\ v[1] = LastOf(h)
  BY <1>1, <1>2, TakePiece
<1>4. /\ WireInv' /\ \A l \in Links : Once(wire'[l])
      /\ \A l \in Links : Carried(wire'[l]) \subseteq answered'
      /\ \A l \in Links : wire'[l] = IF l = k THEN v ELSE wire[l]
      /\ \A l \in Links : Newlines(wire'[l]) \subseteq Newlines(wire[l])
      /\ \A l, n \in Links : l # n => Newlines(wire'[l]) \cap Newlines(wire'[n]) = {}
  BY <1>1, WireShrinks
<1> HIDE DEF h, v
<1>5. \A i \in DOMAIN frame[k] : ~frame[k][i].last /\ frame[k][i].m \in short
  <2> SUFFICES ASSUME NEW i \in DOMAIN frame[k], ~(frame[k][i].m \in short) PROVE FALSE
    BY DEF Core, FrameInv
  <2>1. h = LastOf(frame[k][i])
    BY <1>1, <1>3 DEF Core, FrameInv
  <2> QED BY <1>1, <2>1 DEF LastOf
<1>6. \A l \in Links : frame'[l] = IF l = k THEN Append(frame[k], h) ELSE frame[l]
  BY <1>1
<1>7. \A i \in DOMAIN frame'[k] :
        \/ i \in DOMAIN frame[k] /\ frame'[k][i] = frame[k][i]
        \/ i = Len(frame'[k]) /\ frame'[k][i] = h
  <2>1. frame[k] \in Seq(Piece) /\ frame'[k] = Append(frame[k], h)
    BY <1>1, <1>6
  <2> QED BY <1>3, <2>1
<1>8. FrameInv'
  <2> SUFFICES ASSUME NEW l \in Links, NEW i \in DOMAIN frame'[l]
               PROVE  /\ ~frame'[l][i].last
                      /\ \/ frame'[l][i].m \in short
                         \/ /\ i = Len(frame'[l])
                            /\ rpc'[l] = "recv" =>
                                 wire'[l] # <<>> /\ wire'[l][1] = LastOf(frame'[l][i])
    BY <1>1 DEF FrameInv
  <2>1. CASE l = k
    <3>1. wire'[k] = v
      BY <1>4
    <3> QED BY <1>1, <1>3, <1>5, <1>7, <2>1, <3>1
  <2>2. CASE l # k
    BY <1>1, <1>4, <1>6, <2>2 DEF Core, FrameInv
  <2> QED BY <2>1, <2>2
<1>9. SentInv'
  BY <1>1, <1>4 DEF Core, SentInv
<1>10. OnceInv'
  BY <1>1, <1>4 DEF Core, OnceInv, AtMostOnce
<1> QED BY <1>4, <1>8, <1>9, <1>10 DEF Core

(* The newline: what is consumed is no longer on any wire.                 *)
LEMMA ReceiveNewlineCore ==
  ASSUME TypeOK, Core, NEW k \in Links, ReceiveNewline(k)
  PROVE  Core'
<1> DEFINE h == Head(wire[k])
           v == Tail(wire[k])
           w == wire[k]
           more == Append(consumed, h.m)
<1>1. /\ UNCHANGED <<alive, spc, conn, published, answered, frame, short>>
      /\ wire \in [Links -> Seq(Piece)] /\ w \in Seq(Piece) /\ w # <<>> /\ h.last
      /\ wire' = [wire EXCEPT ![k] = v]
      /\ rpc' \in {[rpc EXCEPT ![k] = "loop"], [rpc EXCEPT ![k] = "consume"]}
      /\ consumed' = consumed \/ consumed' = more
      /\ consumed \in Seq(1..MaxMessages)
  BY DEF ReceiveNewline, TypeOK, threads, process, sender, history
<1>2. Framed(w, short) /\ Once(w)
  BY DEF Core, WireInv, OnceInv
<1>3. /\ h \in Piece /\ h.m \in Carried(w)
      /\ Newlines(w) = Newlines(v) \cup {h.m} /\ h.m \notin Newlines(v)
  BY <1>1, <1>2, TakePiece
<1>4. /\ WireInv' /\ \A l \in Links : Once(wire'[l])
      /\ \A l \in Links : Carried(wire'[l]) \subseteq answered'
      /\ \A l \in Links : wire'[l] = IF l = k THEN v ELSE wire[l]
      /\ \A l \in Links : Newlines(wire'[l]) \subseteq Newlines(wire[l])
      /\ \A l, n \in Links : l # n => Newlines(wire'[l]) \cap Newlines(wire'[n]) = {}
  BY <1>1, WireShrinks
<1>5. /\ Elements(more) = Elements(consumed) \cup {h.m}
      /\ (\A x \in Elements(consumed) : x # h.m) =>
           \A i, j \in DOMAIN more : more[i] = more[j] => i = j
  <2>1. h.m \in 1..MaxMessages
    BY <1>3 DEF Piece
  <2>2. /\ Len(consumed) \in Nat /\ DOMAIN consumed = 1..Len(consumed)
        /\ DOMAIN more = 1..(Len(consumed) + 1) /\ more[Len(consumed) + 1] = h.m
        /\ \A i \in 1..Len(consumed) : more[i] = consumed[i]
    BY <1>1, <2>1
  <2> HIDE DEF more
  <2>3. \A i \in 1..(Len(consumed) + 1) : i \in 1..Len(consumed) \/ i = Len(consumed) + 1
    BY <2>2
  <2>4. /\ \A i \in 1..Len(consumed) : i \in 1..(Len(consumed) + 1)
        /\ Len(consumed) + 1 \in 1..(Len(consumed) + 1)
    BY <2>2
  <2>5. Elements(more) = Elements(consumed) \cup {h.m}
    BY <2>2, <2>3, <2>4 DEF Elements
  <2>6. ASSUME \A x \in Elements(consumed) : x # h.m,
               NEW i \in DOMAIN more, NEW j \in DOMAIN more, more[i] = more[j]
        PROVE  i = j
    <3>1. \A n \in 1..Len(consumed) : more[n] # h.m
      BY <2>2, <2>6 DEF Elements
    <3> QED BY <2>2, <2>3, <2>6, <3>1 DEF Core, OnceInv, AtMostOnce
  <2> QED BY <2>5, <2>6
<1> HIDE DEF h, v, w, more
<1>6. h.m \in Newlines(w) /\ h.m \in answered
  BY <1>3 DEF Core, SentInv, w
<1>7. h.m \notin Elements(consumed)
  BY <1>6 DEF Core, OnceInv, w
<1>8. \A l \in Links : h.m \notin Newlines(wire'[l])
  BY <1>3, <1>4, <1>6 DEF Core, OnceInv, w
<1>9. Elements(consumed') \subseteq Elements(consumed) \cup {h.m}
  BY <1>1, <1>5
<1>10. AtMostOnce'
  BY <1>1, <1>5, <1>7 DEF Core, OnceInv, AtMostOnce
<1>11. FrameInv'
  <2>1. \A l \in Links : l # k => rpc'[l] = rpc[l] /\ wire'[l] = wire[l]
    BY <1>1, <1>4 DEF TypeOK
  <2>2. rpc'[k] # "recv"
    BY <1>1 DEF TypeOK
  <2> QED BY <1>1, <2>1, <2>2 DEF Core, FrameInv
<1>12. SentInv'
  BY <1>1, <1>4, <1>6, <1>9 DEF Core, SentInv
<1>13. OnceInv'
  BY <1>4, <1>8, <1>9, <1>10 DEF Core, OnceInv
<1> QED BY <1>4, <1>11, <1>12, <1>13 DEF Core

(* The receiving end is closed, by its thread or with the process.         *)
LEMMA CloseCore ==
  ASSUME TypeOK, Core, Crash \/ Exit \/ \E k \in Links : ReceiveEnd(k)
  PROVE  Core'
<1>1. /\ UNCHANGED <<alive, spc, conn, published, answered, consumed, short>>
      /\ \A k \in Links : \/ wire'[k] = <<>> /\ frame'[k] = <<>>
                          \/ wire'[k] = wire[k] /\ frame'[k] = frame[k] /\ rpc'[k] = rpc[k]
  <2>1. CASE Crash \/ Exit
    BY <2>1 DEF Crash, Exit, Gone, sender, history
  <2>2. CASE \E k \in Links : ReceiveEnd(k)
    BY <2>2 DEF ReceiveEnd, TypeOK, sender, history
  <2> QED BY <2>1, <2>2
<1>2. /\ (\A S : Framed(<<>>, S)) /\ Once(<<>>) /\ Carried(<<>>) = {} /\ Newlines(<<>>) = {}
      /\ DOMAIN <<>> = {}
  BY NoPieces
<1>3. WireInv' /\ FrameInv'
  BY <1>1, <1>2 DEF Core, WireInv, FrameInv
<1>4. \A k \in Links : /\ Once(wire'[k]) /\ Newlines(wire'[k]) \subseteq Newlines(wire[k])
                       /\ Carried(wire'[k]) \subseteq Carried(wire[k])
  BY <1>1, <1>2 DEF Core, OnceInv
<1>5. SentInv'
  BY <1>1, <1>4 DEF Core, SentInv
<1>6. OnceInv'
  BY <1>1, <1>4 DEF Core, OnceInv, AtMostOnce
<1> QED BY <1>3, <1>5, <1>6 DEF Core

-----------------------------------------------------------------------------
(* What is lost: an envelope is intact when its frame is still whole on the*)
(* wire, at the beginning of a line, or when its thread has the first piece*)
(* and the newline comes next.                                             *)
OnWire(w, f, r, m) ==
  \E j \in DOMAIN w : /\ w[j] = First(m)
                       /\ j + 1 \in DOMAIN w /\ w[j + 1] = LastOf(First(m))
                       /\ IF j = 1 THEN r = "recv" => f = <<>> ELSE w[j - 1].last
AtHand(w, f, r, m) ==
  /\ w # <<>> /\ w[1] = LastOf(First(m))
  /\ r \in {"recv", "end"} /\ f = <<First(m)>>
Intact(w, f, r, m) == OnWire(w, f, r, m) \/ AtHand(w, f, r, m)

(* A wire or a frame ends behind a newline, or in envelope x.              *)
Trail(w, x) == \A i \in DOMAIN w : i + 1 \in DOMAIN w \/ w[i].last \/ w[i].m = x

(* The envelope whose send is over.                                        *)
Latest == IF spc = "send" THEN published - 1 ELSE published

ViaInv ==
  /\ conn <= made
  /\ \A m \in answered : via[m] \in 1..made
  /\ \A k \in Links : \A m \in Carried(wire[k]) \cup Carried(frame[k]) :
       m \in answered /\ via[m] = k

LatestInv ==
  (alive /\ conn # 0 /\ far[conn] = "open") =>
    /\ Trail(wire[conn], Latest)
    /\ (rpc[conn] = "recv" /\ wire[conn] = <<>>) => Trail(frame[conn], Latest)

Safe(m) ==
  (far[via[m]] = "open" /\ ~Spoilt(m) /\ m \notin Elements(consumed)) =>
    Intact(wire[via[m]], frame[via[m]], rpc[via[m]], m)
LossInv == \A m \in answered : Safe(m)

LEMMA SentIntact ==
  ASSUME NEW w \in Seq(Piece), NEW n \in 1..MaxMessages, NEW f, NEW r
  PROVE  /\ \A m : Intact(w, f, r, m) => Intact(Sent(w, n), f, r, m)
         /\ \A x : Trail(Sent(w, n), x)
         /\ (/\ \A i \in DOMAIN w : i + 1 \in DOMAIN w \/ w[i].last
             /\ (w = <<>> /\ r = "recv") => f = <<>>) => Intact(Sent(w, n), f, r, n)
<1> DEFINE v == Sent(w, n)
<1>1. PICK l \in Nat :
           /\ DOMAIN w = 1..l
           /\ v \in Seq(Piece) /\ DOMAIN v = 1..(l + 2)
           /\ \A i \in 1..l : v[i] = w[i]
           /\ v[l + 1] = [m |-> n, last |-> FALSE]
           /\ v[l + 2] = [m |-> n, last |-> TRUE]
  BY SentPositions
<1>2. w # <<>> => 1 \in 1..l
  BY <1>1
<1> HIDE DEF v
<1>3. /\ \A i \in 1..(l + 2) : i \in 1..l \/ i = l + 1 \/ i = l + 2
      /\ l + 1 \in 1..(l + 2) /\ l + 2 \in 1..(l + 2) /\ (l + 1) + 1 = l + 2
      /\ \A i \in 1..l : i \in 1..(l + 2)
  OBVIOUS
<1>4. ASSUME NEW m, OnWire(w, f, r, m) PROVE OnWire(v, f, r, m)
  <2>1. PICK j \in 1..l : /\ w[j] = First(m)
                          /\ j + 1 \in 1..l /\ w[j + 1] = LastOf(First(m))
                          /\ IF j = 1 THEN r = "recv" => f = <<>> ELSE w[j - 1].last
    BY <1>1, <1>4 DEF OnWire
  <2>2. j # 1 => j - 1 \in 1..l
    OBVIOUS
  <2>3. /\ v[j] = w[j] /\ v[j + 1] = w[j + 1] /\ (j # 1 => v[j - 1] = w[j - 1])
    BY <1>1, <2>1, <2>2
  <2>4. j \in DOMAIN v /\ j + 1 \in DOMAIN v
    BY <1>1, <1>3, <2>1
  <2>5. IF j = 1 THEN r = "recv" => f = <<>> ELSE v[j - 1].last
    BY <2>1, <2>3
  <2> QED BY <2>1, <2>3, <2>4, <2>5 DEF OnWire
<1>5. ASSUME NEW m, AtHand(w, f, r, m) PROVE AtHand(v, f, r, m)
  <2>1. v[1] = w[1] /\ 1 \in DOMAIN v
    BY <1>1, <1>2, <1>3, <1>5 DEF AtHand
  <2>2. v # <<>>
    BY <1>1, <2>1
  <2> QED BY <1>5, <2>1, <2>2 DEF AtHand
<1>6. ASSUME NEW x PROVE Trail(v, x)
  <2> SUFFICES ASSUME NEW i \in 1..(l + 2), i + 1 \notin 1..(l + 2) PROVE v[i].last
    BY <1>1 DEF Trail
  <2>1. i = l + 2
    OBVIOUS
  <2> QED BY <1>1, <2>1
<1>7. ASSUME \A i \in DOMAIN w : i + 1 \in DOMAIN w \/ w[i].last,
             (w = <<>> /\ r = "recv") => f = <<>>
      PROVE  OnWire(v, f, r, n)
  <2>1. v[l + 1] = First(n) /\ v[(l + 1) + 1] = LastOf(First(n))
    BY <1>1, <1>3 DEF First, LastOf
  <2>2. CASE l = 0
    <3>1. w = <<>>
      BY <1>1, <2>2
    <3>2. l + 1 = 1
      BY <2>2
    <3>3. l + 1 \in DOMAIN v /\ (l + 1) + 1 \in DOMAIN v
      BY <1>1, <1>3
    <3>4. r = "recv" => f = <<>>
      BY <1>7, <3>1
    <3> QED BY <2>1, <3>2, <3>3, <3>4 DEF OnWire
  <2>3. CASE l # 0
    <3>1. l \in 1..l /\ l + 1 \notin 1..l /\ l + 1 # 1 /\ (l + 1) - 1 = l
      BY <2>3
    <3>2. v[(l + 1) - 1].last
      BY <1>1, <1>7, <3>1
    <3> QED BY <1>1, <1>3, <2>1, <3>1, <3>2 DEF OnWire
  <2> QED BY <2>2, <2>3
<1> QED BY <1>4, <1>5, <1>6, <1>7 DEF Intact, v

LEMMA HalfIntact ==
  ASSUME NEW w \in Seq(Piece), NEW n \in 1..MaxMessages, NEW f, NEW r
  PROVE  /\ \A m : Intact(w, f, r, m) => Intact(Half(w, n), f, r, m)
         /\ Trail(Half(w, n), n)
<1> DEFINE v == Half(w, n)
           l == Len(w)
<1>1. First(n) \in Piece /\ First(n).m = n
  BY DEF First, Piece
<1>2. l \in Nat /\ DOMAIN w = 1..l
  OBVIOUS
<1>3. v \in Seq(Piece) /\ Len(v) = l + 1
  BY <1>1 DEF Half
<1>4. DOMAIN v = 1..(l + 1)
  BY <1>3
<1>5. v[l + 1] = First(n)
  BY <1>1 DEF Half
<1>6. \A i \in 1..l : v[i] = w[i]
  BY <1>1 DEF Half
<1>7. w # <<>> => 1 \in 1..l
  OBVIOUS
<1> HIDE DEF v, l
<1>8. \A i \in 1..l : i \in 1..(l + 1)
  BY <1>2
<1>9. ASSUME NEW m, OnWire(w, f, r, m) PROVE OnWire(v, f, r, m)
  <2>1. PICK j \in 1..l : /\ w[j] = First(m)
                          /\ j + 1 \in 1..l /\ w[j + 1] = LastOf(First(m))
                          /\ IF j = 1 THEN r = "recv" => f = <<>> ELSE w[j - 1].last
    BY <1>2, <1>9 DEF OnWire
  <2>2. j # 1 => j - 1 \in 1..l
    BY <1>2
  <2>3. /\ v[j] = w[j] /\ v[j + 1] = w[j + 1] /\ (j # 1 => v[j - 1] = w[j - 1])
    BY <1>6, <2>1, <2>2
  <2>4. j \in DOMAIN v /\ j + 1 \in DOMAIN v
    BY <1>4, <1>8, <2>1
  <2>5. IF j = 1 THEN r = "recv" => f = <<>> ELSE v[j - 1].last
    BY <2>1, <2>3
  <2> QED BY <2>1, <2>3, <2>4, <2>5 DEF OnWire
<1>10. ASSUME NEW m, AtHand(w, f, r, m) PROVE AtHand(v, f, r, m)
  <2>1. v[1] = w[1] /\ 1 \in DOMAIN v
    BY <1>4, <1>6, <1>7, <1>8, <1>10 DEF AtHand
  <2>2. v # <<>>
    BY <1>3, <2>1
  <2> QED BY <1>10, <2>1, <2>2 DEF AtHand
<1>11. Trail(v, n)
  <2> SUFFICES ASSUME NEW i \in 1..(l + 1), i + 1 \notin 1..(l + 1) PROVE v[i].m = n
    BY <1>4 DEF Trail
  <2>1. i = l + 1
    BY <1>2
  <2> QED BY <1>1, <1>5, <2>1
<1> QED BY <1>9, <1>10, <1>11 DEF Intact, v

LEMMA AppendToOne == \A x, y \in Piece : Append(<<x>>, y) = <<x, y>>
<1> TAKE x, y \in Piece
<1> DEFINE s == <<x>>
           t == <<x, y>>
<1>1. s \in Seq(Piece) /\ Len(s) = 1 /\ s[1] = x
  OBVIOUS
<1>2. t \in Seq(Piece) /\ Len(t) = 2 /\ t[1] = x /\ t[2] = y
  OBVIOUS
<1>3. Append(s, y) \in Seq(Piece) /\ Len(Append(s, y)) = 2
  BY <1>1
<1>4. Append(s, y)[1] = x /\ Append(s, y)[2] = y
  BY <1>1
<1> HIDE DEF s, t
<1>5. ASSUME NEW i \in 1..2 PROVE Append(s, y)[i] = t[i]
  <2>1. i = 1 \/ i = 2
    OBVIOUS
  <2> QED BY <1>2, <1>4, <2>1
<1> QED BY <1>2, <1>3, <1>5, SeqEqual DEF s, t

LEMMA TakeIntact ==
  ASSUME NEW w \in Seq(Piece), w # <<>>, NEW f \in Seq(Piece)
  PROVE  /\ ~Head(w).last => \A m : Intact(w, f, "recv", m) =>
                               Intact(Tail(w), Append(f, Head(w)), "recv", m)
         /\ Head(w).last => \A m, r : (Intact(w, f, "recv", m) /\ r # "recv") =>
                              \/ Intact(Tail(w), f, r, m)
                              \/ Append(f, Head(w)) = Frame(m) /\ Head(w).m = m
         /\ \A x : Trail(w, x) => Trail(Tail(w), x)
         /\ \A x : (Trail(w, x) /\ Tail(w) = <<>> /\ ~Head(w).last) =>
                    Trail(Append(f, Head(w)), x)
<1> DEFINE h == Head(w)
           v == Tail(w)
           n == Len(w)
           g == Append(f, h)
<1>1. n \in Nat \ {0} /\ DOMAIN w = 1..n
  OBVIOUS
<1>2. h = w[1] /\ h \in Piece
  OBVIOUS
<1>3. v \in Seq(Piece) /\ Len(v) = n - 1
  OBVIOUS
<1>4. \A i \in 1..(n - 1) : v[i] = w[i + 1]
  OBVIOUS
<1>5. DOMAIN v = 1..(n - 1)
  BY <1>3
<1>6. n # 1 => v # <<>>
  <2>1. Len(<<>>) = 0
    OBVIOUS
  <2> HIDE DEF v, n
  <2> QED BY <1>1, <1>3, <2>1
<1>7. \A x \in Piece : Append(<<>>, x) = <<x>>
  OBVIOUS
<1>13. \A x, y \in Piece : Append(<<x>>, y) = <<x, y>>
  BY AppendToOne
<1>8. /\ DOMAIN g = 1..(Len(f) + 1) /\ g[Len(f) + 1] = h /\ Len(f) \in Nat
  BY <1>2
<1> HIDE DEF h, v, n, g
<1>9. ASSUME ~h.last, NEW m, Intact(w, f, "recv", m) PROVE Intact(v, g, "recv", m)
  <2>1. ~AtHand(w, f, "recv", m)
    BY <1>2, <1>9 DEF AtHand, LastOf
  <2>2. PICK j \in 1..n : /\ w[j] = First(m)
                          /\ j + 1 \in 1..n /\ w[j + 1] = LastOf(First(m))
                          /\ IF j = 1 THEN f = <<>> ELSE w[j - 1].last
    BY <1>1, <1>9, <2>1 DEF Intact, OnWire
  <2>3. CASE j = 1
    <3>1. h = First(m) /\ f = <<>> /\ n # 1 /\ 1 \in 1..(n - 1)
      BY <1>1, <1>2, <2>2, <2>3
    <3>2. v[1] = LastOf(First(m))
      BY <1>4, <2>2, <2>3, <3>1
    <3>3. g = <<First(m)>>
      BY <1>2, <1>7, <3>1 DEF g
    <3> QED BY <1>6, <3>1, <3>2, <3>3 DEF Intact, AtHand
  <2>4. CASE j # 1
    <3>1. j - 1 \in 1..(n - 1) /\ (j - 1) + 1 \in 1..(n - 1) /\ (j - 1) + 1 = j
      BY <1>1, <2>2, <2>4
    <3>2. v[j - 1] = First(m) /\ v[(j - 1) + 1] = LastOf(First(m))
      BY <1>4, <2>2, <3>1
    <3>3. j - 1 # 1
      BY <1>2, <1>9, <2>2, <2>4
    <3>4. (j - 1) - 1 \in 1..(n - 1) /\ ((j - 1) - 1) + 1 = j - 1
      BY <1>1, <2>2, <2>4, <3>3
    <3>5. v[(j - 1) - 1].last
      BY <1>4, <2>2, <2>4, <3>4
    <3> QED BY <1>5, <3>1, <3>2, <3>3, <3>5 DEF Intact, OnWire
  <2> QED BY <2>3, <2>4
<1>10. ASSUME h.last, NEW m, NEW r, r # "recv", Intact(w, f, "recv", m)
       PROVE  Intact(v, f, r, m) \/ (g = Frame(m) /\ h.m = m)
  <2>1. CASE AtHand(w, f, "recv", m)
    <3>1. h = LastOf(First(m)) /\ f = <<First(m)>>
      BY <1>2, <2>1 DEF AtHand
    <3>2. h = [m |-> m, last |-> TRUE] /\ h.m = m
      BY <3>1 DEF LastOf, First
    <3>3. g = <<First(m), h>>
      <4>1. 1 \in DOMAIN f /\ f[1] = First(m)
        BY <3>1
      <4>2. First(m) \in Piece
        BY <4>1
      <4> QED BY <1>2, <1>13, <3>1, <4>2 DEF g
    <3> QED BY <3>2, <3>3 DEF Frame, First
  <2>2. CASE OnWire(w, f, "recv", m)
    <3>1. PICK j \in 1..n : /\ w[j] = First(m)
                            /\ j + 1 \in 1..n /\ w[j + 1] = LastOf(First(m))
                            /\ j # 1 => w[j - 1].last
      BY <1>1, <2>2 DEF OnWire
    <3>2. j # 1
      BY <1>2, <1>10, <3>1 DEF First
    <3>3. j - 1 \in 1..(n - 1) /\ (j - 1) + 1 \in 1..(n - 1) /\ (j - 1) + 1 = j
      BY <1>1, <3>1, <3>2
    <3>4. v[j - 1] = First(m) /\ v[(j - 1) + 1] = LastOf(First(m))
      BY <1>4, <3>1, <3>3
    <3>5. CASE j - 1 = 1
      BY <1>5, <1>10, <3>3, <3>4, <3>5 DEF Intact, OnWire
    <3>6. CASE j - 1 # 1
      <4>1. (j - 1) - 1 \in 1..(n - 1) /\ ((j - 1) - 1) + 1 = j - 1
        BY <1>1, <3>1, <3>2, <3>6
      <4>2. v[(j - 1) - 1].last
        BY <1>4, <3>1, <3>2, <4>1
      <4> QED BY <1>5, <3>3, <3>4, <3>6, <4>2 DEF Intact, OnWire
    <3> QED BY <3>5, <3>6
  <2> QED BY <1>10, <2>1, <2>2 DEF Intact
<1>11. ASSUME NEW x, Trail(w, x) PROVE Trail(v, x)
  <2> SUFFICES ASSUME NEW i \in 1..(n - 1), i + 1 \notin 1..(n - 1)
               PROVE  v[i].last \/ v[i].m = x
    BY <1>5 DEF Trail
  <2>1. i + 1 \in 1..n /\ (i + 1) + 1 \notin 1..n
    BY <1>1
  <2> QED BY <1>1, <1>4, <1>11, <2>1 DEF Trail
<1>12. ASSUME NEW x, Trail(w, x), v = <<>>, ~h.last PROVE Trail(g, x)
  <2>1. n = 1
    BY <1>6, <1>12
  <2>2. 1 \in 1..n /\ 1 + 1 \notin 1..n
    BY <2>1
  <2>3. h.m = x
    BY <1>1, <1>2, <1>12, <2>2 DEF Trail
  <2>4. \A i \in 1..(Len(f) + 1) : i + 1 \in 1..(Len(f) + 1) \/ i = Len(f) + 1
    BY <1>8
  <2> QED BY <1>8, <2>3, <2>4 DEF Trail
<1> QED BY <1>9, <1>10, <1>11, <1>12 DEF h, v, g

-----------------------------------------------------------------------------
Loss == ViaInv /\ LatestInv /\ LossInv

(* An envelope once spoilt stays so.                                       *)
LEMMA StaysSpoilt ==
  ASSUME TypeOK, SentInv, NEW m \in answered, Spoilt(m),
         short \subseteq short', cut \subseteq cut',
         via' = via \/ (spc = "send" /\ alive /\ via' = [via EXCEPT ![published] = conn])
  PROVE  Spoilt(m)'
<1>1. m \in 1..published /\ short \subseteq 1..MaxMessages /\ published \in 0..MaxMessages
  BY DEF TypeOK, SentInv
<1>2. CASE m \in short \cup cut
  BY <1>2 DEF Spoilt
<1>3. CASE m - 1 \in short /\ via[m - 1] = via[m]
  <2>1. via' # via => m # published /\ m - 1 # published
    BY <1>1 DEF SentInv
  <2>2. m \in 1..MaxMessages /\ m - 1 \in 1..MaxMessages
    BY <1>1, <1>3, HopAssumption
  <2>3. via'[m] = via[m] /\ via'[m - 1] = via[m - 1]
    BY <2>1, <2>2 DEF TypeOK
  <2> QED BY <1>3, <2>3 DEF Spoilt
<1> QED BY <1>2, <1>3 DEF Spoilt

(* What is sent behind a whole frame begins a line of its own.             *)
LEMMA BehindWhole ==
  ASSUME TypeOK, Core, Loss, alive, spc = "send", conn \in Links, far[conn] = "open",
         ~(published - 1 \in short /\ via[published - 1] = conn)
  PROVE  /\ \A i \in DOMAIN wire[conn] : i + 1 \in DOMAIN wire[conn] \/ wire[conn][i].last
         /\ (wire[conn] = <<>> /\ rpc[conn] = "recv") => frame[conn] = <<>>
<1>1. Latest = published - 1 /\ conn # 0
  BY Constants DEF Latest
<1>2. \A m \in Carried(wire[conn]) \cup Carried(frame[conn]) : via[m] = conn
  BY DEF Loss, ViaInv
<1>3. Trail(wire[conn], published - 1)
  BY <1>1 DEF Loss, LatestInv
<1>4. ASSUME NEW i \in DOMAIN wire[conn], i + 1 \notin DOMAIN wire[conn], ~wire[conn][i].last
      PROVE  FALSE
  <2>1. wire[conn][i].m = published - 1
    BY <1>3, <1>4 DEF Trail
  <2>2. wire[conn][i].m \in short
    BY <1>4 DEF Core, WireInv, Framed
  <2>3. via[wire[conn][i].m] = conn
    BY <1>2 DEF Carried
  <2> QED BY <2>1, <2>2, <2>3
<1>5. ASSUME wire[conn] = <<>>, rpc[conn] = "recv", frame[conn] # <<>> PROVE FALSE
  <2>1. frame[conn] \in Seq(Piece)
    BY DEF TypeOK
  <2>2. PICK i \in DOMAIN frame[conn] : i + 1 \notin DOMAIN frame[conn]
    <3>1. Len(frame[conn]) \in DOMAIN frame[conn] /\ Len(frame[conn]) + 1 \notin DOMAIN frame[conn]
      BY <1>5, <2>1
    <3> QED BY <3>1
  <2>3. ~frame[conn][i].last /\ frame[conn][i].m \in short
    BY <1>5, <2>2 DEF Core, FrameInv
  <2>4. frame[conn][i].m = published - 1
    BY <1>1, <1>5, <2>2, <2>3 DEF Loss, LatestInv, Trail
  <2>5. via[frame[conn][i].m] = conn
    BY <1>2, <2>2 DEF Carried
  <2> QED BY <2>3, <2>4, <2>5
<1> QED BY <1>4, <1>5

(* A send: what was answered before stays where it is.                     *)
LEMMA SendVia ==
  ASSUME TypeOK, Core, Loss, AnswerTrue, conn \in Links, published \in 1..MaxMessages,
         published \notin answered, UNCHANGED <<conn, made, frame, published>>,
         \A k \in Links : k # conn => wire'[k] = wire[k],
         Carried(wire'[conn]) \subseteq Carried(wire[conn]) \cup {published}
  PROVE  /\ ViaInv'
         /\ \A m \in answered : via'[m] = via[m] /\ via[m] \in Links
         /\ via'[published] = conn
<1>1. /\ answered' = answered \cup {published} /\ via' = [via EXCEPT ![published] = conn]
      /\ via \in [1..MaxMessages -> 0..Conns] /\ answered \subseteq 1..MaxMessages
      /\ made \in 0..Conns /\ Conns \in Nat
  BY HopAssumption DEF AnswerTrue, TypeOK
<1>2. conn \in 1..made
  BY <1>1 DEF Loss, ViaInv, Links
<1>3. \A m \in answered : via'[m] = via[m] /\ via[m] \in 1..made
  BY <1>1 DEF Loss, ViaInv
<1>4. via'[published] = conn
  BY <1>1
<1>5. \A m \in answered' : via'[m] \in 1..made'
  BY <1>1, <1>2, <1>3, <1>4
<1>6. conn' <= made'
  BY DEF Loss, ViaInv
<1>7. ASSUME NEW k \in Links, NEW m \in Carried(wire'[k]) \cup Carried(frame'[k])
      PROVE  m \in answered' /\ via'[m] = k
  <2>1. CASE m \in Carried(wire[k]) \cup Carried(frame[k])
    BY <1>1, <1>3, <2>1 DEF Loss, ViaInv
  <2>2. CASE k = conn /\ m = published
    BY <1>1, <1>4, <2>2
  <2> QED BY <1>7, <2>1, <2>2
<1>8. \A m \in answered : via[m] \in Links
  BY <1>1, <1>3 DEF Links
<1> QED BY <1>3, <1>4, <1>5, <1>6, <1>7, <1>8 DEF ViaInv

LEMMA SendOkLoss ==
  ASSUME TypeOK, Core, Loss, SendOk
  PROVE  Loss'
<1> DEFINE w == wire[conn]
           v == Sent(w, published)
<1>1. /\ UNCHANGED <<alive, conn, made, published, frame, rpc, consumed, short, cut, far>>
      /\ wire' = [wire EXCEPT ![conn] = v]
      /\ answered' = answered \cup {published} /\ spc' = "idle"
      /\ via' = [via EXCEPT ![published] = conn]
      /\ published \in 1..MaxMessages /\ conn \in Links /\ published \notin answered
      /\ alive /\ spc = "send" /\ far[conn] = "open" /\ w \in Seq(Piece) /\ AnswerTrue
  BY Constants DEF SendOk, AnswerTrue, TypeOK, Core, SentInv, Sent, threads, process
<1>2. Framed(w, short) /\ Once(w) /\ published \notin Newlines(w)
  BY <1>1 DEF Core, WireInv, OnceInv, SentInv, Carried, Newlines
<1>3. v # <<>> /\ Carried(v) = Carried(w) \cup {published}
  BY <1>1, <1>2, SendFrame
<1>4. /\ \A f, r, m : Intact(w, f, r, m) => Intact(v, f, r, m)
      /\ \A x : Trail(v, x)
      /\ \A f, r :
           (/\ \A i \in DOMAIN w : i + 1 \in DOMAIN w \/ w[i].last
            /\ (w = <<>> /\ r = "recv") => f = <<>>) => Intact(v, f, r, published)
  BY <1>1, SentIntact
<1> HIDE DEF v
<1>5. \A k \in Links : wire'[k] = IF k = conn THEN v ELSE wire[k]
  BY <1>1 DEF TypeOK
<1>6. /\ ViaInv' /\ \A m \in answered : via'[m] = via[m] /\ via[m] \in Links
      /\ via'[published] = conn
  BY <1>1, <1>3, <1>5, SendVia
<1>7. LatestInv'
  BY <1>1, <1>3, <1>4, <1>5 DEF LatestInv
<1>8. ASSUME NEW m \in answered PROVE Safe(m)'
  <2>1. Spoilt(m) => Spoilt(m)'
    BY <1>1, StaysSpoilt DEF Core
  <2>2. Safe(m) /\ via'[m] = via[m] /\ via[m] \in Links
    BY <1>6 DEF Loss, LossInv
  <2> QED BY <1>1, <1>4, <1>5, <2>1, <2>2 DEF Safe
<1>9. Safe(published)'
  <2> SUFFICES ASSUME ~Spoilt(published)' PROVE Intact(v, frame[conn], rpc[conn], published)
    BY <1>1, <1>5, <1>6 DEF Safe
  <2>1. ~(published - 1 \in short /\ via[published - 1] = conn)
    <3> SUFFICES ASSUME published - 1 \in short, via[published - 1] = conn PROVE FALSE
      OBVIOUS
    <3>1. published - 1 \in 1..MaxMessages /\ published - 1 # published
      BY <1>1 DEF TypeOK
    <3>2. via'[published - 1] = via[published - 1]
      BY <1>1, <3>1 DEF TypeOK
    <3> QED BY <1>1, <1>6, <3>2 DEF Spoilt
  <2>2. /\ \A i \in DOMAIN w : i + 1 \in DOMAIN w \/ w[i].last
        /\ (w = <<>> /\ rpc[conn] = "recv") => frame[conn] = <<>>
    BY <1>1, <2>1, BehindWhole
  <2> QED BY <1>4, <2>2
<1> QED BY <1>1, <1>6, <1>7, <1>8, <1>9 DEF Loss, LossInv

LEMMA SendShortLoss ==
  ASSUME TypeOK, Core, Loss, SendShort
  PROVE  Loss'
<1> DEFINE w == wire[conn]
           v == Half(w, published)
<1>1. /\ UNCHANGED <<alive, conn, made, published, frame, rpc, consumed, cut, far>>
      /\ wire' = [wire EXCEPT ![conn] = v]
      /\ answered' = answered \cup {published} /\ spc' = "idle"
      /\ via' = [via EXCEPT ![published] = conn] /\ short' = short \cup {published}
      /\ published \in 1..MaxMessages /\ conn \in Links /\ published \notin answered
      /\ alive /\ spc = "send" /\ w \in Seq(Piece) /\ AnswerTrue
  BY Constants DEF SendShort, AnswerTrue, TypeOK, Core, SentInv, Half, First, threads, process
<1>2. Framed(w, short) /\ Once(w)
  BY <1>1 DEF Core, WireInv, OnceInv
<1>3. v # <<>> /\ Carried(v) = Carried(w) \cup {published}
  BY <1>1, <1>2, SendHalf
<1>4. /\ \A f, r, m : Intact(w, f, r, m) => Intact(v, f, r, m)
      /\ Trail(v, published)
  BY <1>1, HalfIntact
<1> HIDE DEF v
<1>5. \A k \in Links : wire'[k] = IF k = conn THEN v ELSE wire[k]
  BY <1>1 DEF TypeOK
<1>6. /\ ViaInv' /\ \A m \in answered : via'[m] = via[m] /\ via[m] \in Links
      /\ via'[published] = conn
  BY <1>1, <1>3, <1>5, SendVia
<1>7. LatestInv'
  BY <1>1, <1>3, <1>4, <1>5 DEF LatestInv, Latest
<1>8. ASSUME NEW m \in answered PROVE Safe(m)'
  <2>1. Spoilt(m) => Spoilt(m)'
    BY <1>1, StaysSpoilt DEF Core
  <2>2. Safe(m) /\ via'[m] = via[m] /\ via[m] \in Links
    BY <1>6 DEF Loss, LossInv
  <2> QED BY <1>1, <1>4, <1>5, <2>1, <2>2 DEF Safe
<1>9. Safe(published)'
  BY <1>1 DEF Safe, Spoilt
<1> QED BY <1>1, <1>6, <1>7, <1>8, <1>9 DEF Loss, LossInv

LEMMA SendIntoClosedLoss ==
  ASSUME TypeOK, Core, Loss, SendIntoClosed
  PROVE  Loss'
<1>1. /\ UNCHANGED <<alive, conn, made, published, wire, frame, rpc, consumed, short, cut>>
      /\ far' = [far EXCEPT ![conn] = "broken"]
      /\ answered' = answered \cup {published} /\ spc' = "idle"
      /\ via' = [via EXCEPT ![published] = conn]
      /\ published \in 1..MaxMessages /\ conn \in Links /\ published \notin answered
      /\ alive /\ spc = "send" /\ AnswerTrue
  BY Constants DEF SendIntoClosed, AnswerTrue, TypeOK, Core, SentInv, threads, process
<1>2. \A k \in Links : far'[k] = IF k = conn THEN "broken" ELSE far[k]
  BY <1>1 DEF TypeOK
<1>3. /\ ViaInv' /\ \A m \in answered : via'[m] = via[m] /\ via[m] \in Links
      /\ via'[published] = conn
  BY <1>1, SendVia
<1>4. LatestInv'
  BY <1>1, <1>2 DEF LatestInv
<1>5. ASSUME NEW m \in answered PROVE Safe(m)'
  <2>1. Spoilt(m) => Spoilt(m)'
    BY <1>1, StaysSpoilt DEF Core
  <2>2. Safe(m) /\ via'[m] = via[m] /\ via[m] \in Links
    BY <1>3 DEF Loss, LossInv
  <2> QED BY <1>1, <1>2, <2>1, <2>2 DEF Safe
<1>6. Safe(published)'
  BY <1>1, <1>2, <1>3 DEF Safe
<1> QED BY <1>1, <1>3, <1>4, <1>5, <1>6 DEF Loss, LossInv

-----------------------------------------------------------------------------
(* Nothing is sent.                                                        *)
LEMMA PublishLoss ==
  ASSUME TypeOK, Core, Loss,
         \/ PublishConnected \/ PublishConnect \/ PublishRefused \/ SendFails
         \/ SendKilled \/ SenderEnds \/ SenderStarts
  PROVE  Loss'
<1>1. UNCHANGED <<wire, frame, rpc, consumed, answered, via, short, cut>>
  BY DEF PublishConnected, PublishConnect, PublishRefused, SendFails, SendKilled, SenderEnds,
     SenderStarts, process, threads, history
<1>2. ASSUME made' \in Nat, conn' <= made', made <= made', \A m \in answered : far'[via[m]] = far[via[m]]
      PROVE  ViaInv' /\ LossInv'
  <2>1. \A m \in answered : via[m] \in 1..made'
    BY <1>2, HopAssumption DEF Loss, ViaInv, TypeOK
  <2>2. ViaInv'
    BY <1>1, <1>2, <2>1 DEF Loss, ViaInv
  <2>3. LossInv'
    BY <1>1, <1>2 DEF Loss, LossInv, Safe, Spoilt
  <2> QED BY <2>2, <2>3
<1>3. made \in 0..Conns /\ conn \in 0..Conns /\ conn <= made /\ Conns \in Nat
  BY HopAssumption DEF TypeOK, Loss, ViaInv
<1>4. CASE PublishConnect
  <2>1. conn' = made + 1 /\ made' = made + 1 /\ far' = [far EXCEPT ![made + 1] = "open"]
        /\ made + 1 \in Links
    BY <1>3, <1>4 DEF PublishConnect, Links
  <2>2. \A m \in answered : via[m] # made + 1
    BY <1>3 DEF Loss, ViaInv
  <2>3. \A m \in answered : far'[via[m]] = far[via[m]]
    <3> TAKE m \in answered
    <3>1. via[m] \in Links
      BY <1>3 DEF Loss, ViaInv, Links
    <3> QED BY <2>1, <2>2, <3>1 DEF TypeOK
  <2>4. Carried(wire[made + 1]) \cup Carried(frame[made + 1]) = {}
    BY <2>1, <2>2 DEF Loss, ViaInv
  <2>5. LatestInv'
    BY <1>1, <2>1, <2>4 DEF LatestInv, Trail, Carried
  <2>6. ViaInv' /\ LossInv'
    BY <1>2, <1>3, <2>1, <2>3
  <2> QED BY <2>5, <2>6 DEF Loss
<1>5. CASE PublishConnected
  <2>1. /\ UNCHANGED <<alive, conn, made, far>> /\ published' = published + 1
        /\ spc = "idle" /\ spc' = "send" /\ published \in Nat
    BY <1>5, HopAssumption DEF PublishConnected, TypeOK
  <2>2. Latest' = Latest
    BY <2>1 DEF Latest
  <2>3. LatestInv'
    BY <1>1, <2>1, <2>2 DEF Loss, LatestInv
  <2> QED BY <1>2, <1>3, <2>1, <2>3 DEF Loss
<1>6. CASE PublishRefused \/ SendFails \/ SendKilled \/ SenderEnds \/ SenderStarts
  <2>1. UNCHANGED <<made, far>> /\ (conn' = conn \/ conn' = 0) /\ ~(alive' /\ conn' # 0)
    BY <1>6 DEF PublishRefused, SendFails, SendKilled, SenderEnds, SenderStarts, process,
       threads
  <2>2. LatestInv'
    BY <2>1 DEF LatestInv
  <2> QED BY <1>2, <1>3, <2>1, <2>2 DEF Loss
<1> QED BY <1>4, <1>5, <1>6

(* The wires stay; a thread may go on, without receiving.                  *)
LEMMA RpcLoss ==
  ASSUME TypeOK, Core, Loss, UNCHANGED <<sender, wire, far, consumed>>,
         cut \subseteq cut',
         \A k \in Links :
           \/ frame'[k] = frame[k] /\ rpc'[k] = rpc[k]
           \/ /\ frame'[k] = frame[k] /\ rpc'[k] # "recv"
              /\ rpc[k] = "recv" => \/ rpc'[k] = "end"
                                    \/ \A i \in DOMAIN frame[k] : frame[k][i].m \in cut'
              /\ rpc[k] # "end"
           \/ frame'[k] = <<>> /\ rpc[k] = "loop"
  PROVE  Loss'
<1>1. UNCHANGED <<alive, spc, conn, made, published, answered, via, short>>
  BY DEF sender, history
<1>2. \A k \in Links : Carried(frame'[k]) \subseteq Carried(frame[k])
  BY DEF Carried
<1>3. ViaInv'
  BY <1>1, <1>2 DEF Loss, ViaInv
<1>4. Latest' = Latest
  BY <1>1 DEF Latest
<1>5. LatestInv'
  <2> SUFFICES ASSUME alive, conn # 0, far[conn] = "open"
               PROVE  /\ Trail(wire[conn], Latest)
                      /\ (rpc'[conn] = "recv" /\ wire[conn] = <<>>) =>
                           Trail(frame'[conn], Latest)
    BY <1>1, <1>4 DEF LatestInv
  <2>1. conn \in Links
    BY Constants DEF TypeOK
  <2>2. \A x : Trail(<<>>, x)
    BY DEF Trail
  <2> QED BY <2>1, <2>2 DEF Loss, LatestInv
<1>6. ASSUME NEW m \in answered PROVE Safe(m)'
  <2>1. Spoilt(m) => Spoilt(m)'
    BY <1>1, StaysSpoilt DEF Core
  <2>2. Safe(m) /\ via'[m] = via[m] /\ via[m] \in Links
    BY <1>1, Constants DEF Loss, LossInv, ViaInv, TypeOK, Links
  <2> DEFINE k == via[m]
  <2> SUFFICES ASSUME Intact(wire[k], frame[k], rpc[k], m), ~Spoilt(m)'
               PROVE  Intact(wire[k], frame'[k], rpc'[k], m)
    BY <1>1, <2>1, <2>2 DEF Safe
  <2>3. CASE frame'[k] = frame[k] /\ rpc'[k] = rpc[k]
    BY <2>3
  <2>4. CASE /\ frame'[k] = frame[k] /\ rpc'[k] # "recv"
             /\ rpc[k] = "recv" => \/ rpc'[k] = "end"
                                   \/ \A i \in DOMAIN frame[k] : frame[k][i].m \in cut'
             /\ rpc[k] # "end"
    <3>1. CASE OnWire(wire[k], frame[k], rpc[k], m)
      BY <2>4, <3>1 DEF Intact, OnWire
    <3>2. CASE AtHand(wire[k], frame[k], rpc[k], m)
      <4>1. rpc[k] = "recv" /\ frame[k] = <<First(m)>>
        BY <2>4, <3>2 DEF AtHand
      <4>2. 1 \in DOMAIN frame[k] /\ frame[k][1].m = m
        BY <4>1 DEF First
      <4>3. m \notin cut'
        BY DEF Spoilt
      <4>4. rpc'[k] = "end"
        BY <2>4, <4>1, <4>2, <4>3
      <4> QED BY <2>4, <3>2, <4>4 DEF Intact, AtHand
    <3> QED BY <3>1, <3>2 DEF Intact
  <2>5. CASE frame'[k] = <<>> /\ rpc[k] = "loop"
    <3>1. OnWire(wire[k], frame[k], rpc[k], m)
      BY <2>5 DEF Intact, AtHand
    <3> QED BY <2>5, <3>1 DEF Intact, OnWire
  <2> QED BY <2>2, <2>3, <2>4, <2>5
<1> QED BY <1>1, <1>3, <1>5, <1>6 DEF Loss, LossInv

LEMMA ProcessLoss ==
  ASSUME TypeOK, Core, Loss, Start \/ Signal \/ Acceptor \/ UNCHANGED vars
  PROVE  Loss'
<1>1. UNCHANGED <<sender, wire, far, consumed, frame, cut>>
  BY DEF Start, Signal, Acceptor, AcceptLoop, Accept, AcceptTimeout, AcceptWoken, flags, process,
     threads, vars
<1>2. \A k \in Links : rpc'[k] = rpc[k] \/ (rpc[k] = "none" /\ rpc'[k] = "loop")
  <2>1. CASE Accept
    BY <2>1 DEF Accept, Backlog, TypeOK
  <2>2. CASE ~Accept
    BY <2>2 DEF Start, Signal, Acceptor, AcceptLoop, AcceptTimeout, AcceptWoken, flags, process,
       threads, vars
  <2> QED BY <2>1, <2>2
<1> QED BY <1>1, <1>2, RpcLoss

LEMMA ReceiverQuietLoss ==
  ASSUME TypeOK, Core, Loss, NEW k \in Links,
         \/ ReceiveLoop(k) \/ ReceiveTimeout(k) \/ ReceiveWoken(k) \/ ReceiveEof(k)
         \/ ConsumeReturns(k)
  PROVE  Loss'
<1>1. UNCHANGED <<sender, wire, far, consumed>> /\ cut \subseteq cut'
  BY DEF ReceiveLoop, ReceiveTimeout, ReceiveWoken, ReceiveEof, ConsumeReturns
<1>2. \A l \in Links : l # k => frame'[l] = frame[l] /\ rpc'[l] = rpc[l]
  BY DEF ReceiveLoop, ReceiveTimeout, ReceiveWoken, ReceiveEof, ConsumeReturns, TypeOK
<1>3. CASE ReceiveLoop(k)
  <2>1. frame'[k] = <<>> /\ rpc[k] = "loop"
    BY <1>3 DEF ReceiveLoop, TypeOK
  <2> QED BY <1>1, <1>2, <2>1, RpcLoss
<1>4. CASE ReceiveTimeout(k)
  <2>1. /\ frame'[k] = frame[k] /\ rpc[k] = "recv" /\ rpc'[k] = "loop"
        /\ \A i \in DOMAIN frame[k] : frame[k][i].m \in cut'
    BY <1>4 DEF ReceiveTimeout, TypeOK
  <2> QED BY <1>1, <1>2, <2>1, RpcLoss
<1>5. CASE ReceiveWoken(k) \/ ReceiveEof(k)
  <2>1. frame'[k] = frame[k] /\ rpc[k] = "recv" /\ rpc'[k] = "end"
    BY <1>5 DEF ReceiveWoken, ReceiveEof, TypeOK
  <2> QED BY <1>1, <1>2, <2>1, RpcLoss
<1>6. CASE ConsumeReturns(k)
  <2>1. frame'[k] = frame[k] /\ rpc[k] = "consume" /\ rpc'[k] = "loop"
    BY <1>6 DEF ConsumeReturns, TypeOK
  <2> QED BY <1>1, <1>2, <2>1, RpcLoss
<1> QED BY <1>3, <1>4, <1>5, <1>6

LEMMA ReceivePieceLoss ==
  ASSUME TypeOK, Core, Loss, NEW k \in Links, ReceivePiece(k)
  PROVE  Loss'
<1> DEFINE w == wire[k]
           f == frame[k]
           h == Head(w)
           g == Append(f, h)
           v == Tail(w)
<1>1. /\ UNCHANGED <<alive, spc, conn, made, published, answered, via, short, cut, rpc, consumed,
                     far>>
      /\ w \in Seq(Piece) /\ w # <<>> /\ ~h.last /\ f \in Seq(Piece) /\ rpc[k] = "recv"
      /\ \A l \in Links : wire'[l] = IF l = k THEN v ELSE wire[l]
      /\ \A l \in Links : frame'[l] = IF l = k THEN g ELSE frame[l]
  BY DEF ReceivePiece, TypeOK, threads, process, sender, history
<1>2. /\ \A m : Intact(w, f, "recv", m) => Intact(v, g, "recv", m)
      /\ \A x : Trail(w, x) => Trail(v, x)
      /\ \A x : (Trail(w, x) /\ v = <<>>) => Trail(g, x)
  BY <1>1, TakeIntact
<1>3. Carried(v) \subseteq Carried(w) /\ h.m \in Carried(w) /\ h \in Piece
  <2>1. Framed(w, short) /\ Once(w)
    BY DEF Core, WireInv, OnceInv
  <2> QED BY <1>1, <2>1, TakePiece
<1>4. Carried(g) = Carried(f) \cup {h.m}
  <2>1. Len(f) \in Nat /\ DOMAIN f = 1..Len(f)
    BY <1>1
  <2>2. DOMAIN g = 1..(Len(f) + 1)
    BY <1>1, <1>3
  <2>3. \A i \in 1..Len(f) : g[i] = f[i]
    BY <1>1, <1>3
  <2>4. g[Len(f) + 1] = h
    BY <1>1, <1>3
  <2> HIDE DEF g, h, f
  <2>5. /\ \A i \in 1..(Len(f) + 1) : i \in 1..Len(f) \/ i = Len(f) + 1
        /\ Len(f) + 1 \in 1..(Len(f) + 1) /\ \A i \in 1..Len(f) : i \in 1..(Len(f) + 1)
    BY <2>1
  <2>6. ASSUME NEW x \in Carried(g) PROVE x \in Carried(f) \cup {h.m}
    BY <2>1, <2>2, <2>3, <2>4, <2>5 DEF Carried
  <2>7. ASSUME NEW x \in Carried(f) \cup {h.m} PROVE x \in Carried(g)
    BY <2>1, <2>2, <2>3, <2>4, <2>5 DEF Carried
  <2> QED BY <2>6, <2>7
<1> HIDE DEF v, g, h
<1>5. ViaInv'
  <2>1. conn' <= made' /\ \A m \in answered' : via'[m] \in 1..made'
    BY <1>1 DEF Loss, ViaInv
  <2>2. ASSUME NEW l \in Links, NEW m \in Carried(wire'[l]) \cup Carried(frame'[l])
        PROVE  m \in Carried(wire[l]) \cup Carried(frame[l])
    BY <1>1, <1>3, <1>4, <2>2
  <2> QED BY <1>1, <2>1, <2>2 DEF Loss, ViaInv
<1>6. Latest' = Latest
  BY <1>1 DEF Latest
<1>7. LatestInv'
  <2> SUFFICES ASSUME alive, conn # 0, far[conn] = "open"
               PROVE  /\ Trail(wire'[conn], Latest)
                      /\ (rpc[conn] = "recv" /\ wire'[conn] = <<>>) =>
                           Trail(frame'[conn], Latest)
    BY <1>1, <1>6 DEF LatestInv
  <2>1. conn \in Links
    BY Constants DEF TypeOK
  <2>2. CASE conn = k
    BY <1>1, <1>2, <2>1, <2>2 DEF Loss, LatestInv
  <2>3. CASE conn # k
    BY <1>1, <2>1, <2>3 DEF Loss, LatestInv
  <2> QED BY <2>2, <2>3
<1>8. ASSUME NEW m \in answered PROVE Safe(m)'
  <2>1. Safe(m) /\ via[m] \in Links /\ (Spoilt(m)' <=> Spoilt(m))
    BY <1>1, Constants DEF Loss, LossInv, ViaInv, TypeOK, Links, Spoilt
  <2>2. CASE via[m] = k
    BY <1>1, <1>2, <2>1, <2>2 DEF Safe
  <2>3. CASE via[m] # k
    BY <1>1, <2>1, <2>3 DEF Safe
  <2> QED BY <2>2, <2>3
<1> QED BY <1>1, <1>5, <1>7, <1>8 DEF Loss, LossInv

(* The newline: an intact envelope is consumed with it.                    *)
LEMMA ReceiveNewlineLoss ==
  ASSUME TypeOK, TypeOK', Core, Loss, NEW k \in Links, ReceiveNewline(k)
  PROVE  Loss'
<1> DEFINE w == wire[k]
           f == frame[k]
           h == Head(w)
           v == Tail(w)
<1>1. /\ UNCHANGED <<alive, spc, conn, made, published, answered, via, short, cut, frame, far>>
      /\ w \in Seq(Piece) /\ w # <<>> /\ h.last /\ f \in Seq(Piece) /\ rpc[k] = "recv"
      /\ \A l \in Links : wire'[l] = IF l = k THEN v ELSE wire[l]
      /\ \A l \in Links : l # k => rpc'[l] = rpc[l]
      /\ rpc'[k] # "recv"
      /\ IF Whole(Append(f, h)) THEN consumed' = Append(consumed, h.m)
                                ELSE consumed' = consumed
  BY DEF ReceiveNewline, TypeOK, threads, process, sender, history
<1>2. /\ \A m, r : (Intact(w, f, "recv", m) /\ r # "recv") =>
                    Intact(v, f, r, m) \/ (Append(f, h) = Frame(m) /\ h.m = m)
      /\ \A x : Trail(w, x) => Trail(v, x)
  BY <1>1, TakeIntact
<1>3. Carried(v) \subseteq Carried(w) /\ h \in Piece
  <2>1. Framed(w, short) /\ Once(w)
    BY DEF Core, WireInv, OnceInv
  <2> QED BY <1>1, <2>1, TakePiece
<1> HIDE DEF v, h
<1>4. Elements(consumed) \subseteq Elements(consumed') /\ (Whole(Append(f, h)) => h.m \in Elements(consumed'))
  <2>1. consumed \in Seq(1..MaxMessages) /\ h.m \in 1..MaxMessages
    BY <1>3 DEF TypeOK, Piece
  <2>2. /\ Len(consumed) \in Nat /\ DOMAIN consumed = 1..Len(consumed)
        /\ DOMAIN Append(consumed, h.m) = 1..(Len(consumed) + 1)
        /\ Append(consumed, h.m)[Len(consumed) + 1] = h.m
        /\ \A i \in 1..Len(consumed) : Append(consumed, h.m)[i] = consumed[i]
    BY <2>1
  <2>3. /\ \A i \in 1..Len(consumed) : i \in 1..(Len(consumed) + 1)
        /\ Len(consumed) + 1 \in 1..(Len(consumed) + 1)
    BY <2>2
  <2>4. /\ Elements(consumed) \subseteq Elements(Append(consumed, h.m))
        /\ h.m \in Elements(Append(consumed, h.m))
    BY <2>2, <2>3 DEF Elements
  <2> QED BY <1>1, <2>4
<1>5. ViaInv'
  <2>1. conn' <= made' /\ \A m \in answered' : via'[m] \in 1..made'
    BY <1>1 DEF Loss, ViaInv
  <2>2. ASSUME NEW l \in Links, NEW m \in Carried(wire'[l]) \cup Carried(frame'[l])
        PROVE  m \in Carried(wire[l]) \cup Carried(frame[l])
    BY <1>1, <1>3, <2>2
  <2> QED BY <1>1, <2>1, <2>2 DEF Loss, ViaInv
<1>6. Latest' = Latest
  BY <1>1 DEF Latest
<1>7. LatestInv'
  <2> SUFFICES ASSUME alive, conn # 0, far[conn] = "open"
               PROVE  /\ Trail(wire'[conn], Latest)
                      /\ (rpc'[conn] = "recv" /\ wire'[conn] = <<>>) =>
                           Trail(frame[conn], Latest)
    BY <1>1, <1>6 DEF LatestInv
  <2>1. conn \in Links
    BY Constants DEF TypeOK
  <2>2. CASE conn = k
    BY <1>1, <1>2, <2>1, <2>2 DEF Loss, LatestInv
  <2>3. CASE conn # k
    BY <1>1, <2>1, <2>3 DEF Loss, LatestInv
  <2> QED BY <2>2, <2>3
<1>8. ASSUME NEW m \in answered PROVE Safe(m)'
  <2>1. Safe(m) /\ via[m] \in Links /\ (Spoilt(m)' <=> Spoilt(m)) /\ m \in 1..MaxMessages
    BY <1>1, Constants DEF Loss, LossInv, ViaInv, TypeOK, Links, Spoilt
  <2>2. CASE via[m] = k
    <3> SUFFICES ASSUME far[k] = "open", ~Spoilt(m), m \notin Elements(consumed')
                 PROVE  Intact(v, f, rpc'[k], m)
      BY <1>1, <2>1, <2>2 DEF Safe
    <3>1. Intact(w, f, "recv", m)
      BY <1>1, <1>4, <2>1, <2>2 DEF Safe
    <3>2. Append(f, h) = Frame(m) => Whole(Append(f, h))
      BY <2>1 DEF Whole
    <3> QED BY <1>1, <1>2, <1>4, <3>1, <3>2
  <2>3. CASE via[m] # k
    BY <1>1, <1>4, <2>1, <2>3 DEF Safe
  <2> QED BY <2>2, <2>3
<1> QED BY <1>1, <1>5, <1>7, <1>8 DEF Loss, LossInv

LEMMA CloseLoss ==
  ASSUME TypeOK, Core, Loss, Crash \/ Exit \/ \E k \in Links : ReceiveEnd(k)
  PROVE  Loss'
<1>1. /\ UNCHANGED <<alive, spc, conn, made, published, answered, via, short, cut, consumed>>
      /\ \A k \in Links :
           \/ wire'[k] = <<>> /\ frame'[k] = <<>> /\ far'[k] # "open"
           \/ /\ wire'[k] = wire[k] /\ frame'[k] = frame[k] /\ rpc'[k] = rpc[k]
              /\ far'[k] = far[k]
  <2>1. CASE Crash \/ Exit
    BY <2>1 DEF Crash, Exit, Gone, Closed, sender, history
  <2>2. CASE \E k \in Links : ReceiveEnd(k)
    BY <2>2 DEF ReceiveEnd, Closed, TypeOK, sender, history
  <2> QED BY <2>1, <2>2
<1>2. Carried(<<>>) = {} /\ Latest' = Latest
  BY <1>1 DEF Carried, Latest
<1>3. ViaInv'
  <2>1. conn' <= made' /\ \A m \in answered' : via'[m] \in 1..made'
    BY <1>1 DEF Loss, ViaInv
  <2>2. ASSUME NEW l \in Links, NEW m \in Carried(wire'[l]) \cup Carried(frame'[l])
        PROVE  m \in Carried(wire[l]) \cup Carried(frame[l])
    BY <1>1, <1>2, <2>2
  <2> QED BY <1>1, <2>1, <2>2 DEF Loss, ViaInv
<1>4. LatestInv'
  <2> SUFFICES ASSUME alive, conn # 0, far'[conn] = "open"
               PROVE  /\ Trail(wire'[conn], Latest)
                      /\ (rpc'[conn] = "recv" /\ wire'[conn] = <<>>) =>
                           Trail(frame'[conn], Latest)
    BY <1>1, <1>2 DEF LatestInv
  <2>1. conn \in Links
    BY Constants DEF TypeOK
  <2> QED BY <1>1, <2>1 DEF Loss, LatestInv
<1>5. ASSUME NEW m \in answered PROVE Safe(m)'
  <2>1. Safe(m) /\ via[m] \in Links /\ (Spoilt(m)' <=> Spoilt(m))
    BY <1>1, Constants DEF Loss, LossInv, ViaInv, TypeOK, Links, Spoilt
  <2> QED BY <1>1, <2>1 DEF Safe
<1> QED BY <1>1, <1>3, <1>4, <1>5 DEF Loss, LossInv

-----------------------------------------------------------------------------
LEMMA InitInv == Init => Inv
<1> SUFFICES ASSUME Init PROVE Inv
  OBVIOUS
<1>1. /\ <<>> \in Seq(Piece) /\ (\A S : Framed(<<>>, S)) /\ Once(<<>>) /\ Carried(<<>>) = {}
      /\ Newlines(<<>>) = {} /\ DOMAIN <<>> = {}
  BY NoPieces
<1>2. <<>> \in Seq(1..MaxMessages) /\ Elements(<<>>) = {} /\ DOMAIN <<>> = {}
  BY DEF Elements
<1>3. \A k \in Links : wire[k] = <<>> /\ frame[k] = <<>>
  BY DEF Init
<1>4. TypeOK
  <2>1. wire \in [Links -> Seq(Piece)] /\ frame \in [Links -> Seq(Piece)]
    BY <1>1 DEF Init
  <2>2. /\ far \in [Links -> {"none", "open", "closed", "reset", "broken"}]
        /\ near \in [Links -> BOOLEAN]
        /\ rpc \in [Links -> {"none", "loop", "recv", "consume", "end", "done"}]
    BY DEF Init
  <2>3. alive \in BOOLEAN /\ writer \in BOOLEAN /\ listening \in BOOLEAN
    BY DEF Init
  <2>4. running \in BOOLEAN /\ event \in BOOLEAN
    BY DEF Init
  <2> QED BY <1>2, <2>1, <2>2, <2>3, <2>4, Constants DEF Init, TypeOK
<1>5. WireInv /\ FrameInv /\ OnceInv
  BY <1>1, <1>2, <1>3 DEF Init, WireInv, FrameInv, OnceInv, AtMostOnce
<1>6. SentInv
  BY <1>1, <1>2, <1>3 DEF Init, SentInv
<1> QED BY <1>4, <1>5, <1>6 DEF Inv

LEMMA InvStep == Inv /\ [Next]_vars => Inv'
<1> SUFFICES ASSUME Inv, [Next]_vars PROVE Inv'
  OBVIOUS
<1>1. TypeOK' /\ TypeOK /\ Core
  BY TypeStep DEF Inv, Core
<1>2. CASE Publish
  BY <1>1, <1>2, PublishCore, SendOkCore, SendShortCore, SendIntoClosedCore DEF Publish, Inv, Core
<1>3. ASSUME NEW k \in Links, Receiver(k) \/ ConsumeReturns(k) PROVE Core'
  BY <1>1, <1>3, ReceiverQuietCore, ReceiveLoopCore, ReceivePieceCore, ReceiveNewlineCore,
     CloseCore DEF Receiver
<1>4. CASE Start \/ Signal \/ Acceptor \/ UNCHANGED vars
  BY <1>1, <1>4, ProcessCore DEF Inv, Core
<1>5. CASE Crash \/ Exit
  BY <1>1, <1>5, CloseCore DEF Inv, Core
<1> QED BY <1>1, <1>2, <1>3, <1>4, <1>5 DEF Next, Quiet, Inv, Core

(* The invariant holds in every state of the hop.                          *)
THEOREM Invariant == Spec => []Inv
  BY InitInv, InvStep, PTL DEF Spec

(* The variables of the hop keep their types.                              *)
THEOREM TypeCorrect == Spec => []TypeOK
<1>1. Inv => TypeOK
  BY DEF Inv
<1> QED BY <1>1, Invariant, PTL

(* Only a short send mixes two envelopes in one line, whatever a timeout   *)
(* has cut off: what a thread has received and what follows on the wire    *)
(* are of one envelope.                                                    *)
THEOREM EnvelopesNeverMix == Spec => []FramesPure
<1>1. Inv => FramesPure
  <2> SUFFICES ASSUME Inv, NEW k \in Links, NEW i \in DOMAIN frame[k], frame[k][i].m \notin short
               PROVE  /\ i = Len(frame[k])
                      /\ (rpc[k] = "recv" /\ wire[k] # <<>>) =>
                           Head(wire[k]) = [m |-> frame[k][i].m, last |-> TRUE]
    BY DEF FramesPure
  <2>1. wire[k] \in Seq(Piece)
    BY DEF Inv, TypeOK
  <2>2. wire[k] # <<>> => Head(wire[k]) = wire[k][1]
    BY <2>1
  <2> QED BY <2>2 DEF Inv, FrameInv, LastOf
<1> QED BY <1>1, Invariant, PTL

(* No envelope is consumed twice, whatever is reconnected and restarted.   *)
THEOREM ConsumedOnce == Spec => []AtMostOnce
<1>1. Inv => AtMostOnce
  BY DEF Inv, OnceInv
<1> QED BY <1>1, Invariant, PTL

(* The invariant with the envelopes that have been neither lost nor        *)
(* consumed.                                                               *)
LEMMA LossInit == Init => Loss
<1> SUFFICES ASSUME Init PROVE Loss
  OBVIOUS
<1>1. answered = {} /\ conn = 0 /\ made = 0
  BY DEF Init
<1>2. \A k \in Links : Carried(wire[k]) = {} /\ Carried(frame[k]) = {}
  BY NoPieces DEF Init
<1> QED BY <1>1, <1>2 DEF Loss, ViaInv, LatestInv, LossInv

LEMMA LossStep == Inv /\ Loss /\ [Next]_vars => Loss'
<1> SUFFICES ASSUME Inv, Loss, [Next]_vars PROVE Loss'
  OBVIOUS
<1>1. TypeOK' /\ TypeOK /\ Core
  BY TypeStep DEF Inv, Core
<1>2. CASE Publish
  BY <1>1, <1>2, PublishLoss, SendOkLoss, SendShortLoss, SendIntoClosedLoss DEF Publish
<1>3. ASSUME NEW k \in Links, Receiver(k) \/ ConsumeReturns(k) PROVE Loss'
  BY <1>1, <1>3, ReceiverQuietLoss, ReceivePieceLoss, ReceiveNewlineLoss, CloseLoss DEF Receiver
<1>4. CASE Start \/ Signal \/ Acceptor \/ UNCHANGED vars
  BY <1>1, <1>4, ProcessLoss
<1>5. CASE Crash \/ Exit
  BY <1>1, <1>5, CloseLoss
<1> QED BY <1>2, <1>3, <1>4, <1>5 DEF Next, Quiet

(* While the receiver keeps the connection, an envelope for which          *)
(* publish_to_topic answered true is lost only to a timeout inside its     *)
(* frame, to a short send, or behind a short send in the same line.        *)
THEOREM OnlySpoiltAreLost == Spec => []LossHasCause
<1>1. Inv /\ Loss => LossHasCause
  <2> SUFFICES ASSUME Inv, Loss, NEW m \in answered, far[via[m]] = "open", ~Spoilt(m),
                      m \notin Elements(consumed)
               PROVE  OnTheWire(m)
    BY DEF LossHasCause
  <2> DEFINE w == wire[via[m]]
  <2>1. Intact(w, frame[via[m]], rpc[via[m]], m)
    BY DEF Loss, LossInv, Safe
  <2>2. via[m] \in Links
    BY Constants DEF Loss, ViaInv, Inv, TypeOK, Links
  <2>3. w \in Seq(Piece)
    BY <2>2 DEF Inv, TypeOK
  <2>4. LastOf(First(m)) = [m |-> m, last |-> TRUE]
    BY DEF LastOf, First
  <2>5. w # <<>> => 1 \in DOMAIN w
    BY <2>3
  <2> QED BY <2>1, <2>4, <2>5 DEF Intact, OnWire, AtHand, OnTheWire
<1>2. Init => Inv /\ Loss
  BY InitInv, LossInit
<1>3. (Inv /\ Loss) /\ [Next]_vars => (Inv /\ Loss)'
  BY InvStep, LossStep
<1> QED BY <1>1, <1>2, <1>3, PTL DEF Spec
=============================================================================
