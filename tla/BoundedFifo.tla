---------------------------- MODULE BoundedFifo ----------------------------
(***************************************************************************)
(* What LocklessRingBuffer promises its one producer and its one consumer: *)
(* a FIFO of at most Bound items, whose push answers false exactly when it *)
(* is full and whose pop answers nullopt exactly when it is empty.         *)
(***************************************************************************)
EXTENDS Naturals, Sequences

CONSTANTS Items, Bound, Nullopt

VARIABLES q,        \* the items, oldest first
          pushed,   \* what the last push answered
          popped    \* what the last pop answered

vars == <<q, pushed, popped>>

Init == q = <<>> /\ pushed = TRUE /\ popped = Nullopt

PushOk(x) ==
  /\ Len(q) < Bound
  /\ q' = Append(q, x)
  /\ pushed' = TRUE
  /\ UNCHANGED popped

PushFull ==
  /\ Len(q) = Bound
  /\ pushed' = FALSE
  /\ UNCHANGED <<q, popped>>

PopOk ==
  /\ q # <<>>
  /\ popped' = Head(q)
  /\ q' = Tail(q)
  /\ UNCHANGED pushed

PopEmpty ==
  /\ q = <<>>
  /\ popped' = Nullopt
  /\ UNCHANGED <<q, pushed>>

Next == (\E x \in Items : PushOk(x)) \/ PushFull \/ PopOk \/ PopEmpty

Spec == Init /\ [][Next]_vars
=============================================================================
