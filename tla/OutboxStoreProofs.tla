-------------------------- MODULE OutboxStoreProofs --------------------------
(***************************************************************************)
(* For any batches, faults, crashes and restarts: a batch reported as      *)
(* flushed is kept, the aggregates agree with the rows, and the database   *)
(* with its outbox implements BatchLog.                                    *)
(***************************************************************************)
EXTENDS OutboxStore, FiniteSetTheorems, TLAPS

IsMin(x, S) == x \in S /\ \A y \in S : x <= y
IsMax(x, S) == x \in S /\ \A y \in S : x >= y

(* What the statements before position p of a text insert; which of these  *)
(* rows belong to the transaction that is open there; and which ids have   *)
(* been inserted, but not yet merged into an aggregate by a later          *)
(* statement.                                                              *)
Raws(t, p) == {k \in 1..(p - 1) : t[k].op = "raw"}
Inserted(t, p) == {t[k].id : k \in Raws(t, p)}
InTransaction(t, p) ==
  {t[k].id : k \in {j \in Raws(t, p) : \A i \in j..(p - 1) : t[i].op # "commit"}}
NotMerged(t, p) ==
  {t[k].id : k \in {j \in Raws(t, p) :
                      \A i \in j..(p - 1) : t[i].op = "agg" => t[j].id \notin t[i].ids}}

(* An aggregate is made of rows of its bucket that the same text inserts   *)
(* before: this survives a torn write.                                     *)
Backed(t) ==
  \A i \in DOMAIN t : t[i].op = "agg" =>
    t[i].n # 0 /\ t[i].ids \subseteq InBucket(Inserted(t, i), t[i].bucket)

(* A commit ends the transaction of one batch, every row of it merged; and *)
(* a text that was not torn ends with one.                                 *)
Settled(t) ==
  \A c \in DOMAIN t : t[c].op = "commit" =>
    NotMerged(t, c) = {} /\ \E s \in Batches : InTransaction(t, c) = Range(s)
Closed(t) == t = <<>> \/ t[Len(t)].op = "commit"

TextInv ==
  /\ pos <= Len(text) + 1
  /\ pc \in {"flush", "append"} =>
       /\ batch \in Batches /\ IdsOf(text) = Range(batch)
       /\ Backed(text) /\ Settled(text) /\ Closed(text)
  /\ pc = "replay" => text = file
  /\ Backed(file)
  /\ ~torn => Settled(file) /\ Closed(file)

(* The open transaction sees the committed rows, those the text has        *)
(* inserted since the last commit and, unless an outbox was torn, no more. *)
Running == pc \in {"replay", "flush"}

RowsInv ==
  /\ IsFiniteSet(wraw) /\ raw \subseteq wraw
  /\ Running => Inserted(text, pos) \subseteq wraw
  /\ ~torn => wraw = raw \cup (IF Running THEN InTransaction(text, pos) ELSE {})

(* A row of the aggregate table holds the extremes of a set of rows of its *)
(* bucket: of all of them, up to those that are not merged yet.            *)
Temps(S) == {Temp[id] : id \in S}
Extremes(row, M) ==
  IF M = {} THEN row = NoRow
  ELSE row.n # 0 /\ IsMin(row.lo, Temps(M)) /\ IsMax(row.hi, Temps(M))
Summary(row, b, R, missing) ==
  /\ \E M \in SUBSET InBucket(R, b) :
       InBucket(R, b) \ missing \subseteq M /\ Extremes(row, M)
  /\ row.count <= Cardinality(InBucket(R, b))

Missing == IF torn THEN Ids ELSE IF Running THEN NotMerged(text, pos) ELSE {}

AggInv ==
  \A b \in Buckets : /\ Summary(agg[b], b, raw, IF torn THEN Ids ELSE {})
                     /\ Summary(wagg[b], b, wraw, Missing)

(* What was reported as flushed is kept, and an outbox that is about to be *)
(* truncated holds nothing that is not committed.                          *)
KeptInv == AckedKept /\ (pc = "truncate" /\ ~torn => IdsOf(file) \subseteq raw)

Inv == TypeOK /\ TextInv /\ RowsInv /\ AggInv /\ KeptInv

-----------------------------------------------------------------------------
(* Extremes.                                                               *)

(* A finite set of integers that is not empty has a least and a greatest   *)
(* element: of the subsets that have none there would be a minimal one.    *)
LEMMA FiniteExtremes ==
  ASSUME NEW S \in SUBSET Int, IsFiniteSet(S), S # {}
  PROVE  (\E x \in S : IsMin(x, S)) /\ (\E x \in S : IsMax(x, S))
<1> DEFINE Good(U) == (\E x \in U : IsMin(x, U)) /\ (\E x \in U : IsMax(x, U))
           Bad == {U \in FiniteSubsetsOf(S) : U # {} /\ ~Good(U)}
<1>1. IsWellFoundedOn(StrictSubsetOrdering(S), FiniteSubsetsOf(S))
  BY FS_StrictSubsetOrderingWellFounded
<1>2. ASSUME NEW U \in Bad PROVE \E V \in Bad : <<V, U>> \in StrictSubsetOrdering(S)
  <2>1. U \subseteq S /\ IsFiniteSet(U) /\ U # {} /\ ~Good(U)
    BY <1>2 DEF FiniteSubsetsOf
  <2>2. PICK x \in U : TRUE
    BY <2>1
  <2> DEFINE V == U \ {x}
  <2>3. IsFiniteSet(V) /\ V \subseteq S /\ V # U /\ V \subseteq U /\ x \in Int /\ V \subseteq Int
    BY <2>1, <2>2, FS_RemoveElement
  <2>4. V # {}
    <3> SUFFICES ASSUME V = {} PROVE Good(U)
      BY <2>1
    <3>1. U = {x}
      BY <2>2
    <3> QED BY <2>3, <3>1 DEF IsMin, IsMax
  <2>5. ~Good(V)
    <3> SUFFICES ASSUME Good(V) PROVE Good(U)
      BY <2>1
    <3>1. PICK m \in V : IsMin(m, V)
      OBVIOUS
    <3>2. PICK n \in V : IsMax(n, V)
      OBVIOUS
    <3>3. m \in Int /\ n \in Int /\ m \in U /\ n \in U /\ x \in U
      BY <2>2, <2>3
    <3>4. \A y \in U : y = x \/ y \in V
      OBVIOUS
    <3> HIDE DEF V
    <3>5. IsMin(IF x <= m THEN x ELSE m, U)
      BY <2>3, <3>1, <3>3, <3>4 DEF IsMin
    <3>6. IsMax(IF x >= n THEN x ELSE n, U)
      BY <2>3, <3>2, <3>3, <3>4 DEF IsMax
    <3> QED BY <3>5, <3>6 DEF IsMin, IsMax
  <2>6. V \in Bad
    BY <2>3, <2>4, <2>5 DEF FiniteSubsetsOf
  <2>7. <<V, U>> \in StrictSubsetOrdering(S)
    BY <2>1, <2>3 DEF StrictSubsetOrdering
  <2> QED BY <2>6, <2>7
<1>3. Bad \subseteq FiniteSubsetsOf(S)
  OBVIOUS
<1>4. S \in FiniteSubsetsOf(S)
  BY DEF FiniteSubsetsOf
<1> HIDE DEF Bad
<1>5. Bad = {}
  BY <1>1, <1>2, <1>3, WFMin
<1> QED BY <1>4, <1>5 DEF Bad

LEMMA MinMax ==
  ASSUME NEW S \in SUBSET Int, NEW x \in Int
  PROVE  /\ IsMin(x, S) => Min(S) = x
         /\ IsMax(x, S) => Max(S) = x
<1>1. ASSUME IsMin(x, S) PROVE Min(S) = x
  <2>1. \E y \in S : \A z \in S : y <= z
    BY <1>1 DEF IsMin
  <2>2. Min(S) \in S /\ \A z \in S : Min(S) <= z
    BY <2>1 DEF Min
  <2>3. x \in S /\ x <= Min(S) /\ Min(S) <= x /\ Min(S) \in Int
    BY <1>1, <2>2 DEF IsMin
  <2> QED BY <2>3
<1>2. ASSUME IsMax(x, S) PROVE Max(S) = x
  <2>1. \E y \in S : \A z \in S : y >= z
    BY <1>2 DEF IsMax
  <2>2. Max(S) \in S /\ \A z \in S : Max(S) >= z
    BY <2>1 DEF Max
  <2>3. x \in S /\ x <= Max(S) /\ Max(S) <= x /\ Max(S) \in Int
    BY <1>2, <2>2 DEF IsMax
  <2> QED BY <2>3
<1> QED BY <1>1, <1>2

-----------------------------------------------------------------------------
(* Texts.                                                                  *)

LEMMA StatementParts ==
  ASSUME NEW st \in Statement
  PROVE  /\ st.op \in {"begin", "commit", "garbage", "raw", "agg"}
         /\ st.op = "raw" => st.id \in Ids
         /\ st.op = "agg" => /\ st.n \in Nat /\ st.bucket \in Buckets
                             /\ st.ids \in SUBSET Ids
<1>1. CASE st \in [op : {"begin", "commit", "garbage"}]
  BY <1>1
<1>2. CASE st \in [op : {"raw"}, id : Ids]
  BY <1>2
<1>3. CASE st \in [op : {"agg"}, n : Nat, bucket : Buckets, ids : SUBSET Ids]
  BY <1>3
<1> QED BY <1>1, <1>2, <1>3 DEF Statement

(* The same, by positions.                                                 *)
LEMMA Positions ==
  ASSUME NEW t \in Seq(Statement), NEW p \in Nat, p <= Len(t) + 1
  PROVE  /\ \A id : id \in Inserted(t, p) <=>
              \E k \in 1..(p - 1) : t[k].op = "raw" /\ id = t[k].id
         /\ \A id : id \in InTransaction(t, p) <=>
              \E k \in 1..(p - 1) : /\ t[k].op = "raw" /\ id = t[k].id
                                    /\ \A i \in k..(p - 1) : t[i].op # "commit"
         /\ \A id : id \in NotMerged(t, p) <=>
              \E k \in 1..(p - 1) : /\ t[k].op = "raw" /\ id = t[k].id
                                    /\ \A i \in k..(p - 1) :
                                         t[i].op = "agg" => id \notin t[i].ids
         /\ Inserted(t, p) \subseteq Ids
         /\ InTransaction(t, p) \subseteq Inserted(t, p)
         /\ NotMerged(t, p) \subseteq Inserted(t, p)
<1>1. \A id : id \in Inserted(t, p) <=>
        \E k \in 1..(p - 1) : t[k].op = "raw" /\ id = t[k].id
  BY DEF Inserted, Raws
<1>2. \A id : id \in InTransaction(t, p) <=>
        \E k \in 1..(p - 1) : /\ t[k].op = "raw" /\ id = t[k].id
                              /\ \A i \in k..(p - 1) : t[i].op # "commit"
  BY DEF InTransaction, Raws
<1>3. \A id : id \in NotMerged(t, p) <=>
        \E k \in 1..(p - 1) : /\ t[k].op = "raw" /\ id = t[k].id
                              /\ \A i \in k..(p - 1) : t[i].op = "agg" => id \notin t[i].ids
  BY DEF NotMerged, Raws
<1>4. \A k \in 1..(p - 1) : t[k] \in Statement
  <2>1. \A k \in 1..(p - 1) : k \in DOMAIN t
    OBVIOUS
  <2> QED BY <2>1
<1>5. Inserted(t, p) \subseteq Ids
  BY <1>1, <1>4, StatementParts
<1> QED BY <1>1, <1>2, <1>3, <1>5

LEMMA AtStart ==
  ASSUME NEW t \in Seq(Statement)
  PROVE  Inserted(t, 1) = {} /\ InTransaction(t, 1) = {} /\ NotMerged(t, 1) = {}
<1>1. 1..(1 - 1) = {}
  OBVIOUS
<1> QED BY <1>1 DEF Inserted, InTransaction, NotMerged, Raws

(* One statement further.                                                  *)
LEMMA Advance ==
  ASSUME NEW t \in Seq(Statement), NEW p \in DOMAIN t
  PROVE  /\ t[p].op \in {"begin", "garbage"} =>
              /\ Inserted(t, p + 1) = Inserted(t, p)
              /\ InTransaction(t, p + 1) = InTransaction(t, p)
              /\ NotMerged(t, p + 1) = NotMerged(t, p)
         /\ t[p].op = "raw" =>
              /\ Inserted(t, p + 1) = Inserted(t, p) \cup {t[p].id}
              /\ InTransaction(t, p + 1) = InTransaction(t, p) \cup {t[p].id}
              /\ NotMerged(t, p + 1) = NotMerged(t, p) \cup {t[p].id}
         /\ t[p].op = "agg" =>
              /\ Inserted(t, p + 1) = Inserted(t, p)
              /\ InTransaction(t, p + 1) = InTransaction(t, p)
              /\ NotMerged(t, p + 1) = NotMerged(t, p) \ t[p].ids
         /\ t[p].op = "commit" =>
              /\ Inserted(t, p + 1) = Inserted(t, p)
              /\ InTransaction(t, p + 1) = {}
              /\ NotMerged(t, p + 1) = NotMerged(t, p)
<1>0. (p + 1) - 1 = p
  OBVIOUS
<1>1. /\ p \in Nat /\ p + 1 \in Nat /\ p <= Len(t) + 1 /\ p + 1 <= Len(t) + 1
      /\ p # 0 /\ (p + 1) - 1 = p
  OBVIOUS
<1>2. /\ \A k \in 1..p : k = p \/ k \in 1..(p - 1)
      /\ \A k \in 1..(p - 1) : k \in 1..p /\ p \in k..p /\ k # p
      /\ \A k \in 1..(p - 1) : \A i \in k..p : i = p \/ i \in k..(p - 1)
      /\ \A k \in 1..(p - 1) : \A i \in k..(p - 1) : i \in k..p
      /\ p \in 1..p /\ \A i \in p..p : i = p
      /\ p \in p..p
  BY <1>1
<1>3. /\ \A id : id \in Inserted(t, p) <=>
           \E k \in 1..(p - 1) : t[k].op = "raw" /\ id = t[k].id
      /\ \A id : id \in Inserted(t, p + 1) <=>
           \E k \in 1..p : t[k].op = "raw" /\ id = t[k].id
  <2>1. \A id : id \in Inserted(t, p) <=>
           \E k \in 1..(p - 1) : t[k].op = "raw" /\ id = t[k].id
    BY <1>1, Positions
  <2>2. \A id : id \in Inserted(t, p + 1) <=>
           \E k \in 1..((p + 1) - 1) : t[k].op = "raw" /\ id = t[k].id
    BY <1>1, Positions
  <2>3. \A id : id \in Inserted(t, p + 1) <=>
           \E k \in 1..p : t[k].op = "raw" /\ id = t[k].id
    BY ONLY <1>0, <2>2
  <2> QED BY <2>1, <2>3
<1>4. /\ \A id : id \in InTransaction(t, p) <=>
           \E k \in 1..(p - 1) : /\ t[k].op = "raw" /\ id = t[k].id
                                 /\ \A i \in k..(p - 1) : t[i].op # "commit"
      /\ \A id : id \in InTransaction(t, p + 1) <=>
           \E k \in 1..p : /\ t[k].op = "raw" /\ id = t[k].id
                           /\ \A i \in k..p : t[i].op # "commit"
  <2>1. \A id : id \in InTransaction(t, p) <=>
           \E k \in 1..(p - 1) : /\ t[k].op = "raw" /\ id = t[k].id
                                 /\ \A i \in k..(p - 1) : t[i].op # "commit"
    BY <1>1, Positions
  <2>2. \A id : id \in InTransaction(t, p + 1) <=>
           \E k \in 1..((p + 1) - 1) : /\ t[k].op = "raw" /\ id = t[k].id
                                       /\ \A i \in k..((p + 1) - 1) : t[i].op # "commit"
    BY <1>1, Positions
  <2>3. \A id : id \in InTransaction(t, p + 1) <=>
           \E k \in 1..p : /\ t[k].op = "raw" /\ id = t[k].id
                           /\ \A i \in k..p : t[i].op # "commit"
    BY ONLY <1>0, <2>2
  <2> QED BY <2>1, <2>3
<1>5. /\ \A id : id \in NotMerged(t, p) <=>
           \E k \in 1..(p - 1) : /\ t[k].op = "raw" /\ id = t[k].id
                                 /\ \A i \in k..(p - 1) :
                                      t[i].op = "agg" => id \notin t[i].ids
      /\ \A id : id \in NotMerged(t, p + 1) <=>
           \E k \in 1..p : /\ t[k].op = "raw" /\ id = t[k].id
                           /\ \A i \in k..p : t[i].op = "agg" => id \notin t[i].ids
  <2>1. \A id : id \in NotMerged(t, p) <=>
           \E k \in 1..(p - 1) : /\ t[k].op = "raw" /\ id = t[k].id
                                 /\ \A i \in k..(p - 1) :
                                      t[i].op = "agg" => id \notin t[i].ids
    BY <1>1, Positions
  <2>2. \A id : id \in NotMerged(t, p + 1) <=>
           \E k \in 1..((p + 1) - 1) : /\ t[k].op = "raw" /\ id = t[k].id
                                       /\ \A i \in k..((p + 1) - 1) : t[i].op = "agg" => id \notin t[i].ids
    BY <1>1, Positions
  <2>3. \A id : id \in NotMerged(t, p + 1) <=>
           \E k \in 1..p : /\ t[k].op = "raw" /\ id = t[k].id
                           /\ \A i \in k..p : t[i].op = "agg" => id \notin t[i].ids
    BY ONLY <1>0, <2>2
  <2> QED BY <2>1, <2>3
<1>6. /\ t[p].op = "raw" => Inserted(t, p + 1) = Inserted(t, p) \cup {t[p].id}
      /\ t[p].op # "raw" => Inserted(t, p + 1) = Inserted(t, p)
  <2>1. Inserted(t, p) \subseteq Inserted(t, p + 1)
    BY <1>2, <1>3
  <2>2. ASSUME NEW id \in Inserted(t, p + 1)
        PROVE  id \in Inserted(t, p) \/ (t[p].op = "raw" /\ id = t[p].id)
    <3>1. PICK k \in 1..p : t[k].op = "raw" /\ id = t[k].id
      BY <1>3
    <3>2. CASE k = p
      BY <3>1, <3>2
    <3>3. CASE k \in 1..(p - 1)
      <4>1. \E j \in 1..(p - 1) : t[j].op = "raw" /\ id = t[j].id
        BY <3>1, <3>3
      <4>2. id \in Inserted(t, p)
        BY ONLY <1>3, <4>1
      <4> QED BY <4>2
    <3> QED BY <1>2, <3>2, <3>3
  <2>3. t[p].op = "raw" => t[p].id \in Inserted(t, p + 1)
    BY <1>2, <1>3
  <2> QED BY <2>1, <2>2, <2>3
<1>7. /\ t[p].op = "commit" => InTransaction(t, p + 1) = {}
      /\ t[p].op = "raw" => InTransaction(t, p + 1) = InTransaction(t, p) \cup {t[p].id}
      /\ t[p].op # "raw" /\ t[p].op # "commit" => InTransaction(t, p + 1) = InTransaction(t, p)
  <2>1. t[p].op # "commit" => InTransaction(t, p) \subseteq InTransaction(t, p + 1)
    <3> SUFFICES ASSUME t[p].op # "commit", NEW id \in InTransaction(t, p)
                 PROVE  id \in InTransaction(t, p + 1)
      OBVIOUS
    <3>1. PICK k \in 1..(p - 1) : /\ t[k].op = "raw" /\ id = t[k].id
                                  /\ \A i \in k..(p - 1) : t[i].op # "commit"
      BY <1>4
    <3>2. k \in 1..p /\ \A i \in k..p : t[i].op # "commit"
      BY <1>2, <3>1
    <3> QED BY <1>4, <3>1, <3>2
  <2>2. ASSUME NEW id \in InTransaction(t, p + 1)
        PROVE  /\ t[p].op # "commit"
               /\ id \in InTransaction(t, p) \/ (t[p].op = "raw" /\ id = t[p].id)
    <3>1. PICK k \in 1..p : /\ t[k].op = "raw" /\ id = t[k].id
                            /\ \A i \in k..p : t[i].op # "commit"
      BY <1>4
    <3>2. CASE k = p
      BY <1>2, <3>1, <3>2
    <3>3. CASE k \in 1..(p - 1)
      <4>1. p \in k..p /\ \A i \in k..(p - 1) : i \in k..p
        BY <1>2, <3>3
      <4>2. t[p].op # "commit" /\ \A i \in k..(p - 1) : t[i].op # "commit"
        BY <3>1, <4>1
      <4>3. \E j \in 1..(p - 1) : /\ t[j].op = "raw" /\ id = t[j].id
                                   /\ \A i \in j..(p - 1) : t[i].op # "commit"
        BY <3>1, <3>3, <4>2
      <4>4. id \in InTransaction(t, p)
        BY ONLY <1>4, <4>3
      <4> QED BY <4>2, <4>4
    <3> QED BY <1>2, <3>2, <3>3
  <2>3. t[p].op = "raw" => t[p].id \in InTransaction(t, p + 1)
    BY <1>2, <1>4
  <2> QED BY <2>1, <2>2, <2>3
<1>8. /\ t[p].op = "agg" => NotMerged(t, p + 1) = NotMerged(t, p) \ t[p].ids
      /\ t[p].op = "raw" => NotMerged(t, p + 1) = NotMerged(t, p) \cup {t[p].id}
      /\ t[p].op # "raw" /\ t[p].op # "agg" => NotMerged(t, p + 1) = NotMerged(t, p)
  <2>1. ASSUME NEW id \in NotMerged(t, p), t[p].op = "agg" => id \notin t[p].ids
        PROVE  id \in NotMerged(t, p + 1)
    <3>1. PICK k \in 1..(p - 1) : /\ t[k].op = "raw" /\ id = t[k].id
                                  /\ \A i \in k..(p - 1) : t[i].op = "agg" => id \notin t[i].ids
      BY <1>5
    <3>2. k \in 1..p /\ \A i \in k..p : t[i].op = "agg" => id \notin t[i].ids
      BY <1>2, <2>1, <3>1
    <3> QED BY <1>5, <3>1, <3>2
  <2>2. ASSUME NEW id \in NotMerged(t, p + 1)
        PROVE  /\ t[p].op = "agg" => id \notin t[p].ids
               /\ id \in NotMerged(t, p) \/ (t[p].op = "raw" /\ id = t[p].id)
    <3>1. PICK k \in 1..p : /\ t[k].op = "raw" /\ id = t[k].id
                            /\ \A i \in k..p : t[i].op = "agg" => id \notin t[i].ids
      BY <1>5
    <3>2. CASE k = p
      BY <1>2, <3>1, <3>2
    <3>3. CASE k \in 1..(p - 1)
      <4>1. p \in k..p /\ \A i \in k..(p - 1) : i \in k..p
        BY <1>2, <3>3
      <4>2. /\ t[p].op = "agg" => id \notin t[p].ids
            /\ \A i \in k..(p - 1) : t[i].op = "agg" => id \notin t[i].ids
        BY <3>1, <4>1
      <4>3. \E j \in 1..(p - 1) : /\ t[j].op = "raw" /\ id = t[j].id
                                   /\ \A i \in j..(p - 1) :
                                        t[i].op = "agg" => id \notin t[i].ids
        BY <3>1, <3>3, <4>2
      <4>4. id \in NotMerged(t, p)
        BY ONLY <1>5, <4>3
      <4> QED BY <4>2, <4>4
    <3> QED BY <1>2, <3>2, <3>3
  <2>3. t[p].op = "raw" => t[p].id \in NotMerged(t, p + 1)
    <3> SUFFICES ASSUME t[p].op = "raw" PROVE t[p].id \in NotMerged(t, p + 1)
      OBVIOUS
    <3>1. \A i \in p..p : t[i].op # "agg"
      BY <1>2
    <3> QED BY <1>2, <1>5, <3>1
  <2> QED BY <2>1, <2>2, <2>3
<1> QED BY <1>6, <1>7, <1>8

LEMMA IdsOfText ==
  ASSUME NEW t \in Seq(Statement)
  PROVE  IdsOf(t) = Inserted(t, Len(t) + 1)
<1>1. DOMAIN t = 1..((Len(t) + 1) - 1)
  OBVIOUS
<1> QED BY <1>1 DEF IdsOf, Inserted, Raws
(* Texts that agree before position p.                                     *)
LEMMA SamePrefix ==
  ASSUME NEW t \in Seq(Statement), NEW u \in Seq(Statement), NEW p \in Nat,
         \A i \in 1..(p - 1) : t[i] = u[i]
  PROVE  /\ Inserted(t, p) = Inserted(u, p)
         /\ InTransaction(t, p) = InTransaction(u, p)
         /\ NotMerged(t, p) = NotMerged(u, p)
<1>1. Raws(t, p) = Raws(u, p) /\ \A k \in Raws(t, p) : t[k] = u[k] /\ k \in 1..(p - 1)
  BY DEF Raws
<1>2. \A k \in Raws(t, p) : \A i \in k..(p - 1) : t[i] = u[i]
  <2>1. \A k \in 1..(p - 1) : \A i \in k..(p - 1) : i \in 1..(p - 1)
    OBVIOUS
  <2> QED BY <1>1, <2>1
<1>3. Inserted(t, p) = Inserted(u, p)
  BY <1>1 DEF Inserted
<1>4. InTransaction(t, p) = InTransaction(u, p)
  <2>1. {j \in Raws(t, p) : \A i \in j..(p - 1) : t[i].op # "commit"}
          = {j \in Raws(u, p) : \A i \in j..(p - 1) : u[i].op # "commit"}
    BY <1>1, <1>2
  <2> QED BY <1>1, <2>1 DEF InTransaction
<1>5. NotMerged(t, p) = NotMerged(u, p)
  <2>1. {j \in Raws(t, p) : \A i \in j..(p - 1) : t[i].op = "agg" => t[j].id \notin t[i].ids}
          = {j \in Raws(u, p) : \A i \in j..(p - 1) : u[i].op = "agg" => u[j].id \notin u[i].ids}
    BY <1>1, <1>2
  <2> QED BY <1>1, <2>1 DEF NotMerged
<1> QED BY <1>3, <1>4, <1>5

(* The concatenation of two texts, by its positions.                       *)
Join(x, y) == x \o y

LEMMA JoinPositions ==
  ASSUME NEW x \in Seq(Statement), NEW y \in Seq(Statement)
  PROVE  /\ Join(x, y) \in Seq(Statement)
         /\ Len(Join(x, y)) = Len(x) + Len(y)
         /\ \A i \in 1..Len(x) : Join(x, y)[i] = x[i]
         /\ \A i \in 1..Len(y) : Join(x, y)[Len(x) + i] = y[i]
<1>1. x \o y \in Seq(Statement)
  OBVIOUS
<1>2. Len(x \o y) = Len(x) + Len(y)
  OBVIOUS
<1>3. \A i \in 1..Len(x) : (x \o y)[i] = x[i]
  OBVIOUS
<1>4. \A i \in 1..Len(y) : (x \o y)[Len(x) + i] = y[i]
  OBVIOUS
<1> QED BY <1>1, <1>2, <1>3, <1>4 DEF Join

(* What a text finds when it is executed behind another one: the ids of    *)
(* the first, and nothing of it left open when the first was not torn.     *)
LEMMA JoinAfter ==
  ASSUME NEW x \in Seq(Statement), NEW y \in Seq(Statement), NEW q \in 1..(Len(y) + 1)
  PROVE  /\ Inserted(Join(x, y), Len(x) + q) = IdsOf(x) \cup Inserted(y, q)
         /\ Closed(x) => InTransaction(Join(x, y), Len(x) + q) = InTransaction(y, q)
         /\ Closed(x) /\ Settled(x) =>
              NotMerged(Join(x, y), Len(x) + q) = NotMerged(y, q)
<1> DEFINE u == Join(x, y)
           n == Len(x)
           p == n + q
<1>1. /\ u \in Seq(Statement) /\ Len(u) = n + Len(y)
      /\ \A i \in 1..n : u[i] = x[i]
      /\ \A i \in 1..Len(y) : u[n + i] = y[i]
  BY JoinPositions
<1>2. n \in Nat /\ Len(y) \in Nat /\ p \in Nat /\ q \in Nat /\ q <= Len(y) + 1
  OBVIOUS
<1> HIDE DEF u, n
<1>3. p <= Len(u) + 1
  BY <1>1, <1>2
<1>4. /\ \A k \in 1..n : k \in 1..(p - 1) /\ u[k] = x[k]
      /\ \A k \in 1..(q - 1) : n + k \in 1..(p - 1) /\ u[n + k] = y[k]
      /\ \A k \in 1..(p - 1) : k \in 1..n \/ (k - n \in 1..(q - 1) /\ u[k] = y[k - n])
  <2>1. \A k \in 1..n : k \in 1..(p - 1)
    BY <1>2
  <2>2. \A k \in 1..(q - 1) : n + k \in 1..(p - 1) /\ k \in 1..Len(y)
    BY <1>2
  <2>3. \A k \in 1..(p - 1) : k \in 1..n \/ (k - n \in 1..(q - 1) /\ n + (k - n) = k)
    BY <1>2
  <2>4. \A k \in 1..(q - 1) : u[n + k] = y[k]
    BY <1>1, <2>2
  <2>5. \A k \in 1..(p - 1) : k - n \in 1..(q - 1) /\ n + (k - n) = k => u[k] = y[k - n]
    BY <2>4
  <2> QED BY <1>1, <2>1, <2>2, <2>3, <2>4, <2>5
<1>5. /\ \A id : id \in Inserted(u, p) <=>
           \E k \in 1..(p - 1) : u[k].op = "raw" /\ id = u[k].id
      /\ \A id : id \in InTransaction(u, p) <=>
           \E k \in 1..(p - 1) : /\ u[k].op = "raw" /\ id = u[k].id
                                 /\ \A i \in k..(p - 1) : u[i].op # "commit"
      /\ \A id : id \in NotMerged(u, p) <=>
           \E k \in 1..(p - 1) : /\ u[k].op = "raw" /\ id = u[k].id
                                 /\ \A i \in k..(p - 1) :
                                      u[i].op = "agg" => id \notin u[i].ids
  BY <1>1, <1>2, <1>3, Positions
<1>6. /\ \A id : id \in Inserted(y, q) <=>
           \E k \in 1..(q - 1) : y[k].op = "raw" /\ id = y[k].id
      /\ \A id : id \in InTransaction(y, q) <=>
           \E k \in 1..(q - 1) : /\ y[k].op = "raw" /\ id = y[k].id
                                 /\ \A i \in k..(q - 1) : y[i].op # "commit"
      /\ \A id : id \in NotMerged(y, q) <=>
           \E k \in 1..(q - 1) : /\ y[k].op = "raw" /\ id = y[k].id
                                 /\ \A i \in k..(q - 1) :
                                      y[i].op = "agg" => id \notin y[i].ids
  BY <1>2, Positions
<1>7. \A id : id \in IdsOf(x) <=> \E k \in 1..n : x[k].op = "raw" /\ id = x[k].id
  <2>1. IdsOf(x) = Inserted(x, n + 1) /\ (n + 1) - 1 = n /\ n + 1 \in Nat
    BY <1>2, IdsOfText DEF n
  <2> QED BY <2>1, Positions DEF n
<1>8. /\ \A k \in 1..(q - 1) : \A i \in (n + k)..(p - 1) :
           i - n \in k..(q - 1) /\ u[i] = y[i - n]
      /\ \A k \in 1..(q - 1) : \A i \in k..(q - 1) :
           n + i \in (n + k)..(p - 1) /\ u[n + i] = y[i]
      /\ \A k \in 1..(p - 1) : k - n \in 1..(q - 1) => n + (k - n) = k
  <2>1. \A k \in 1..(q - 1) : \A i \in (n + k)..(p - 1) :
          i - n \in k..(q - 1) /\ i \in 1..(p - 1) /\ i \notin 1..n
    BY <1>2
  <2>2. \A k \in 1..(q - 1) : \A i \in k..(q - 1) :
          n + i \in (n + k)..(p - 1) /\ i \in 1..(q - 1)
    BY <1>2
  <2>3. \A k \in 1..(p - 1) : k - n \in 1..(q - 1) => n + (k - n) = k
    BY <1>2
  <2> QED BY <1>4, <2>1, <2>2, <2>3
<1> HIDE DEF p
<1>9. Inserted(u, p) = IdsOf(x) \cup Inserted(y, q)
  <2>1. ASSUME NEW id \in Inserted(u, p) PROVE id \in IdsOf(x) \cup Inserted(y, q)
    <3>1. PICK k \in 1..(p - 1) : u[k].op = "raw" /\ id = u[k].id
      BY <1>5
    <3>2. CASE k \in 1..n
      BY <1>4, <1>7, <3>1, <3>2
    <3>3. CASE k - n \in 1..(q - 1) /\ u[k] = y[k - n]
      BY <1>6, <3>1, <3>3
    <3> QED BY <1>4, <3>2, <3>3
  <2>2. IdsOf(x) \subseteq Inserted(u, p)
    BY <1>4, <1>5, <1>7
  <2>3. ASSUME NEW id \in Inserted(y, q) PROVE id \in Inserted(u, p)
    <3>1. PICK k \in 1..(q - 1) : y[k].op = "raw" /\ id = y[k].id
      BY <1>6
    <3>2. n + k \in 1..(p - 1) /\ u[n + k] = y[k]
      BY <1>4
    <3> QED BY <1>5, <3>1, <3>2
  <2> QED BY <2>1, <2>2, <2>3
<1>10. ASSUME Closed(x) PROVE InTransaction(u, p) = InTransaction(y, q)
  <2>1. \A k \in 1..n : u[n].op = "commit" /\ n \in k..(p - 1)
    <3> SUFFICES ASSUME NEW k \in 1..n PROVE u[n].op = "commit" /\ n \in k..(p - 1)
      OBVIOUS
    <3>1. n \in 1..n /\ n \in k..(p - 1)
      BY <1>2 DEF p
    <3>2. x # <<>>
      BY <3>1 DEF n
    <3> QED BY <1>4, <1>10, <3>1, <3>2 DEF Closed, n
  <2>2. ASSUME NEW id \in InTransaction(u, p) PROVE id \in InTransaction(y, q)
    <3>1. PICK k \in 1..(p - 1) : /\ u[k].op = "raw" /\ id = u[k].id
                                  /\ \A i \in k..(p - 1) : u[i].op # "commit"
      BY <1>5
    <3>2. k \notin 1..n
      BY <2>1, <3>1
    <3>3. k - n \in 1..(q - 1) /\ u[k] = y[k - n] /\ n + (k - n) = k
      BY <1>4, <1>8, <3>2
    <3>4. \A i \in (k - n)..(q - 1) : y[i].op # "commit"
      BY <1>8, <3>1, <3>3
    <3>5. \E j \in 1..(q - 1) : /\ y[j].op = "raw" /\ id = y[j].id
                                 /\ \A i \in j..(q - 1) : y[i].op # "commit"
      BY <3>1, <3>3, <3>4
    <3> QED BY ONLY <1>6, <3>5
  <2>3. ASSUME NEW id \in InTransaction(y, q) PROVE id \in InTransaction(u, p)
    <3>1. PICK k \in 1..(q - 1) : /\ y[k].op = "raw" /\ id = y[k].id
                                  /\ \A i \in k..(q - 1) : y[i].op # "commit"
      BY <1>6
    <3>2. n + k \in 1..(p - 1) /\ u[n + k] = y[k]
      BY <1>4
    <3>3. \A i \in (n + k)..(p - 1) : u[i].op # "commit"
      BY <1>8, <3>1
    <3>4. \E j \in 1..(p - 1) : /\ u[j].op = "raw" /\ id = u[j].id
                                 /\ \A i \in j..(p - 1) : u[i].op # "commit"
      BY <3>1, <3>2, <3>3
    <3> QED BY ONLY <1>5, <3>4
  <2> QED BY <2>2, <2>3
<1>11. ASSUME Closed(x), Settled(x) PROVE NotMerged(u, p) = NotMerged(y, q)
  <2>1. ASSUME NEW k \in 1..n, u[k].op = "raw"
        PROVE  \E i \in k..(p - 1) : u[i].op = "agg" /\ u[k].id \in u[i].ids
    <3>1. n \in 1..n /\ n \in DOMAIN x /\ n \in Nat /\ n <= Len(x) + 1
      BY <1>2 DEF n
    <3>2. x # <<>> /\ x[n].op = "commit"
      BY <1>11, <3>1 DEF Closed, n
    <3>3. NotMerged(x, n) = {}
      BY <1>11, <3>1, <3>2 DEF Settled
    <3>4. x[k] = u[k] /\ k # n
      BY <1>4, <2>1, <3>2
    <3>5. k \in 1..(n - 1)
      BY <1>2, <3>4
    <3>6. PICK i \in k..(n - 1) : x[i].op = "agg" /\ x[k].id \in x[i].ids
      <4>1. \A id : id \in NotMerged(x, n) <=>
              \E j \in 1..(n - 1) : /\ x[j].op = "raw" /\ id = x[j].id
                                    /\ \A i \in j..(n - 1) :
                                         x[i].op = "agg" => id \notin x[i].ids
        BY <3>1, Positions
      <4> QED BY <2>1, <3>3, <3>4, <3>5, <4>1
    <3>7. i \in k..(p - 1) /\ i \in 1..n
      BY <1>2 DEF p
    <3> QED BY <1>4, <3>4, <3>6, <3>7
  <2>2. ASSUME NEW id \in NotMerged(u, p) PROVE id \in NotMerged(y, q)
    <3>1. PICK k \in 1..(p - 1) : /\ u[k].op = "raw" /\ id = u[k].id
                                  /\ \A i \in k..(p - 1) :
                                       u[i].op = "agg" => id \notin u[i].ids
      BY <1>5
    <3>2. k \notin 1..n
      BY <2>1, <3>1
    <3>3. k - n \in 1..(q - 1) /\ u[k] = y[k - n] /\ n + (k - n) = k
      BY <1>4, <1>8, <3>2
    <3>4. \A i \in (k - n)..(q - 1) : y[i].op = "agg" => id \notin y[i].ids
      BY <1>8, <3>1, <3>3
    <3>5. \E j \in 1..(q - 1) : /\ y[j].op = "raw" /\ id = y[j].id
                                 /\ \A i \in j..(q - 1) :
                                      y[i].op = "agg" => id \notin y[i].ids
      BY <3>1, <3>3, <3>4
    <3> QED BY ONLY <1>6, <3>5
  <2>3. ASSUME NEW id \in NotMerged(y, q) PROVE id \in NotMerged(u, p)
    <3>1. PICK k \in 1..(q - 1) : /\ y[k].op = "raw" /\ id = y[k].id
                                  /\ \A i \in k..(q - 1) :
                                       y[i].op = "agg" => id \notin y[i].ids
      BY <1>6
    <3>2. n + k \in 1..(p - 1) /\ u[n + k] = y[k]
      BY <1>4
    <3>3. \A i \in (n + k)..(p - 1) : u[i].op = "agg" => id \notin u[i].ids
      BY <1>8, <3>1
    <3>4. \E j \in 1..(p - 1) : /\ u[j].op = "raw" /\ id = u[j].id
                                 /\ \A i \in j..(p - 1) :
                                      u[i].op = "agg" => id \notin u[i].ids
      BY <3>1, <3>2, <3>3
    <3> QED BY ONLY <1>5, <3>4
  <2> QED BY <2>2, <2>3
<1> QED BY <1>9, <1>10, <1>11 DEF u, p, n
(* A text appended to an outbox.                                           *)
LEMMA JoinKeeps ==
  ASSUME NEW x \in Seq(Statement), NEW y \in Seq(Statement)
  PROVE  /\ IdsOf(Join(x, y)) = IdsOf(x) \cup IdsOf(y)
         /\ Backed(x) /\ Backed(y) => Backed(Join(x, y))
         /\ Closed(x) /\ Settled(x) /\ Closed(y) /\ Settled(y) =>
              Closed(Join(x, y)) /\ Settled(Join(x, y))
<1> DEFINE u == Join(x, y)
           n == Len(x)
<1>1. /\ u \in Seq(Statement) /\ Len(u) = n + Len(y)
      /\ \A i \in 1..n : u[i] = x[i]
      /\ \A i \in 1..Len(y) : u[n + i] = y[i]
  BY JoinPositions
<1>2. n \in Nat /\ Len(y) \in Nat /\ DOMAIN x = 1..n /\ DOMAIN y = 1..Len(y)
  OBVIOUS
<1>3. ASSUME NEW i \in DOMAIN u
      PROVE  /\ i \in Nat /\ i # 0
             /\ i \in 1..n \/ (i - n \in 1..Len(y) /\ i = n + (i - n) /\ u[i] = y[i - n])
  <2>1. i \in 1..(n + Len(y))
    BY <1>1
  <2> HIDE DEF u, n
  <2>2. i \in 1..n \/ (i - n \in 1..Len(y) /\ i = n + (i - n))
    BY <1>2, <2>1
  <2>3. i - n \in 1..Len(y) /\ i = n + (i - n) => u[i] = y[i - n]
    BY <1>1
  <2> QED BY <1>2, <2>1, <2>2, <2>3
<1>4. ASSUME NEW i \in 1..n
      PROVE  /\ u[i] = x[i] /\ i \in DOMAIN x /\ Inserted(u, i) = Inserted(x, i)
             /\ InTransaction(u, i) = InTransaction(x, i)
             /\ NotMerged(u, i) = NotMerged(x, i)
  <2>1. i \in Nat /\ \A k \in 1..(i - 1) : k \in 1..n
    BY <1>2
  <2>2. \A k \in 1..(i - 1) : u[k] = x[k]
    BY <1>1, <2>1
  <2> QED BY <1>1, <1>2, <2>1, <2>2, SamePrefix
<1>5. IdsOf(u) = IdsOf(x) \cup IdsOf(y)
  <2>1. Len(y) + 1 \in 1..(Len(y) + 1) /\ n + (Len(y) + 1) = Len(u) + 1
    BY <1>1, <1>2
  <2>2. Inserted(u, n + (Len(y) + 1)) = IdsOf(x) \cup Inserted(y, Len(y) + 1)
    BY <2>1, JoinAfter
  <2> QED BY <1>1, <2>1, <2>2, IdsOfText
<1>6. ASSUME Backed(x), Backed(y) PROVE Backed(u)
  <2> SUFFICES ASSUME NEW i \in DOMAIN u, u[i].op = "agg"
               PROVE  u[i].n # 0 /\ u[i].ids \subseteq InBucket(Inserted(u, i), u[i].bucket)
    BY DEF Backed
  <2>1. CASE i \in 1..n
    BY <1>4, <1>6, <2>1 DEF Backed
  <2>2. CASE i - n \in 1..Len(y) /\ i = n + (i - n) /\ u[i] = y[i - n]
    <3>1. Inserted(u, n + (i - n)) = IdsOf(x) \cup Inserted(y, i - n)
      <4>1. i - n \in 1..(Len(y) + 1)
        BY <1>2, <2>2
      <4> QED BY <4>1, JoinAfter
    <3>2. u[i].n # 0 /\ u[i].ids \subseteq InBucket(Inserted(y, i - n), u[i].bucket)
      BY <1>2, <1>6, <2>2 DEF Backed
    <3>3. Inserted(y, i - n) \subseteq Inserted(u, i)
      BY <2>2, <3>1
    <3> HIDE DEF u, n
    <3> QED BY <3>2, <3>3 DEF InBucket
  <2> QED BY <1>3, <2>1, <2>2
<1>7. ASSUME Closed(x), Settled(x), Settled(y) PROVE Settled(u)
  <2> SUFFICES ASSUME NEW c \in DOMAIN u, u[c].op = "commit"
               PROVE  /\ NotMerged(u, c) = {}
                      /\ \E s \in Batches : InTransaction(u, c) = Range(s)
    BY DEF Settled
  <2>1. CASE c \in 1..n
    BY <1>4, <1>7, <2>1 DEF Settled
  <2>2. CASE c - n \in 1..Len(y) /\ c = n + (c - n) /\ u[c] = y[c - n]
    <3>1. /\ InTransaction(u, n + (c - n)) = InTransaction(y, c - n)
          /\ NotMerged(u, n + (c - n)) = NotMerged(y, c - n)
      <4>1. c - n \in 1..(Len(y) + 1)
        BY <1>2, <2>2
      <4> QED BY <1>7, <4>1, JoinAfter
    <3>2. /\ NotMerged(y, c - n) = {}
          /\ \E s \in Batches : InTransaction(y, c - n) = Range(s)
      BY <1>2, <1>7, <2>2 DEF Settled
    <3> HIDE DEF u, n
    <3> QED BY <2>2, <3>1, <3>2
  <2> QED BY <1>3, <2>1, <2>2
<1>8. ASSUME Closed(x), Closed(y) PROVE Closed(u)
  <2>1. CASE y = <<>>
    <3>1. u = x
      BY <2>1 DEF Join
    <3> QED BY <1>8, <3>1
  <2>2. CASE y # <<>>
    <3>1. Len(y) \in 1..Len(y)
      BY <2>2
    <3>2. u[n + Len(y)] = y[Len(y)]
      BY <1>1, <3>1
    <3> QED BY <1>1, <1>8, <2>2, <3>2 DEF Closed
  <2> QED BY <2>1, <2>2
<1> QED BY <1>5, <1>6, <1>7, <1>8

(* The text of a batch, by its positions.                                  *)
LEMMA BatchPositions ==
  ASSUME NEW n \in Nat, NEW s \in Seq(Ids), NEW t, t = BatchSql(n, s)
  PROVE  /\ t \in Seq(Statement)
         /\ Len(t) = Len(s) + NumBuckets + 2
         /\ t[1] = Begin
         /\ \A i \in 1..Len(s) : t[1 + i] = Insert(s[i])
         /\ \A b \in Buckets : t[1 + Len(s) + b] = Upsert(n, b, InBucket(Range(s), b))
         /\ t[Len(s) + NumBuckets + 2] = Commit
<1> DEFINE F == [i \in 1..Len(s) |-> Insert(s[i])]
           G == [b \in Buckets |-> Upsert(n, b, InBucket(Range(s), b))]
<1>1. NumBuckets \in Nat /\ Len(s) \in Nat
  BY StoreAssumption
<1>2. \A i \in 1..Len(s) : Insert(s[i]) \in Statement
  BY DEF Insert, Statement
<1>3. \A b \in Buckets : Upsert(n, b, InBucket(Range(s), b)) \in Statement
  <2>1. Range(s) \subseteq Ids
    BY DEF Range
  <2>2. \A b \in Buckets : InBucket(Range(s), b) \in SUBSET Ids
    BY <2>1 DEF InBucket
  <2> QED BY <2>2 DEF Upsert, Statement
<1>4. Begin \in Statement /\ Commit \in Statement
  BY DEF Begin, Commit, Statement
<1>5. F \in Seq(Statement) /\ Len(F) = Len(s) /\ \A i \in 1..Len(s) : F[i] = Insert(s[i])
  BY <1>1, <1>2
<1>6. /\ G \in Seq(Statement) /\ Len(G) = NumBuckets
      /\ \A b \in Buckets : G[b] = Upsert(n, b, InBucket(Range(s), b))
  BY <1>1, <1>3 DEF Buckets
<1>7. <<Begin>> \in Seq(Statement) /\ <<Commit>> \in Seq(Statement)
  BY <1>4
<1>8. t = Join(Join(Join(<<Begin>>, F), G), <<Commit>>)
  BY DEF BatchSql, Join
<1> DEFINE x == Join(<<Begin>>, F)
           y == Join(x, G)
<1> HIDE DEF F, G
<1>9. /\ x \in Seq(Statement) /\ Len(x) = 1 + Len(s)
      /\ x[1] = Begin /\ \A i \in 1..Len(s) : x[1 + i] = Insert(s[i])
  <2>1. Len(<<Begin>>) = 1 /\ <<Begin>>[1] = Begin /\ 1 \in 1..1
    OBVIOUS
  <2>2. /\ Join(<<Begin>>, F) \in Seq(Statement)
        /\ Len(Join(<<Begin>>, F)) = 1 + Len(s)
        /\ \A i \in 1..1 : Join(<<Begin>>, F)[i] = <<Begin>>[i]
        /\ \A i \in 1..Len(s) : Join(<<Begin>>, F)[1 + i] = F[i]
    <3>1. /\ Join(<<Begin>>, F) \in Seq(Statement)
          /\ Len(Join(<<Begin>>, F)) = Len(<<Begin>>) + Len(F)
          /\ \A i \in 1..Len(<<Begin>>) : Join(<<Begin>>, F)[i] = <<Begin>>[i]
          /\ \A i \in 1..Len(F) : Join(<<Begin>>, F)[Len(<<Begin>>) + i] = F[i]
      BY ONLY <1>5, <1>7, JoinPositions
    <3> QED BY ONLY <3>1, <1>5, <2>1
  <2> QED BY <1>5, <2>1, <2>2
<1>10. /\ y \in Seq(Statement) /\ Len(y) = 1 + Len(s) + NumBuckets
       /\ \A i \in 1..(1 + Len(s)) : y[i] = x[i]
       /\ \A b \in Buckets : y[1 + Len(s) + b] = Upsert(n, b, InBucket(Range(s), b))
  <2>1. /\ y \in Seq(Statement)
        /\ Len(y) = Len(x) + Len(G)
        /\ \A i \in 1..Len(x) : y[i] = x[i]
        /\ \A i \in 1..Len(G) : y[Len(x) + i] = G[i]
    <3> HIDE DEF x
    <3> QED BY ONLY <1>6, <1>9, JoinPositions
  <2> HIDE DEF x, y
  <2>2. Len(x) = 1 + Len(s) /\ Len(G) = NumBuckets /\ Buckets = 1..NumBuckets
    BY <1>6, <1>9 DEF Buckets
  <2> QED BY <1>6, <2>1, <2>2
<1>11. /\ t \in Seq(Statement) /\ Len(t) = 1 + Len(s) + NumBuckets + 1
       /\ \A i \in 1..(1 + Len(s) + NumBuckets) : t[i] = y[i]
       /\ t[1 + Len(s) + NumBuckets + 1] = Commit
  <2>1. Len(<<Commit>>) = 1 /\ <<Commit>>[1] = Commit /\ 1 \in 1..1
    OBVIOUS
  <2> HIDE DEF y
  <2>2. /\ t \in Seq(Statement)
        /\ Len(t) = Len(y) + Len(<<Commit>>)
        /\ \A i \in 1..Len(y) : t[i] = y[i]
        /\ \A i \in 1..Len(<<Commit>>) : t[Len(y) + i] = <<Commit>>[i]
    <3>1. t = Join(y, <<Commit>>)
      BY <1>8 DEF y
    <3> QED BY ONLY <1>7, <1>10, <3>1, JoinPositions
  <2> QED BY <1>10, <2>1, <2>2
<1> HIDE DEF x, y
<1>12. /\ 1 \in 1..(1 + Len(s)) /\ 1 \in 1..(1 + Len(s) + NumBuckets)
       /\ \A i \in 1..Len(s) : 1 + i \in 1..(1 + Len(s)) /\ 1 + i \in 1..(1 + Len(s) + NumBuckets)
       /\ \A b \in Buckets : 1 + Len(s) + b \in 1..(1 + Len(s) + NumBuckets)
       /\ 1 + Len(s) + NumBuckets + 1 = Len(s) + NumBuckets + 2
  BY <1>1 DEF Buckets
<1> QED BY <1>9, <1>10, <1>11, <1>12

(* The text of a batch inserts the rows of the batch, merges every one of  *)
(* them, and commits all of it in one transaction.                         *)
LEMMA BatchText ==
  ASSUME NEW n \in Nat \ {0}, NEW s \in Batches, NEW t, t = BatchSql(n, s)
  PROVE  /\ t \in Seq(Statement) /\ t # <<>>
         /\ IdsOf(t) = Range(s)
         /\ Backed(t) /\ Settled(t) /\ Closed(t)
<1> DEFINE m == Len(s)
           e == m + NumBuckets + 2
<1>1. s \in Seq(Ids) /\ NumBuckets \in Nat /\ m \in Nat /\ BucketOf \in [Ids -> Buckets]
  BY StoreAssumption
<1>2. /\ t \in Seq(Statement) /\ Len(t) = e /\ t[1] = Begin
      /\ \A i \in 1..m : t[1 + i] = Insert(s[i])
      /\ \A b \in Buckets : t[1 + m + b] = Upsert(n, b, InBucket(Range(s), b))
      /\ t[e] = Commit
  BY <1>1, BatchPositions
<1>3. Range(s) = {s[i] : i \in 1..m} /\ Range(s) \subseteq Ids
  BY <1>1 DEF Range
<1> HIDE DEF m, e
<1>4. /\ t[1].op = "begin" /\ t[e].op = "commit"
      /\ \A i \in 1..m : t[1 + i].op = "raw" /\ t[1 + i].id = s[i]
      /\ \A b \in Buckets : /\ t[1 + m + b].op = "agg" /\ t[1 + m + b].n = n
                            /\ t[1 + m + b].bucket = b
                            /\ t[1 + m + b].ids = InBucket(Range(s), b)
  <2>1. Begin.op = "begin" /\ Commit.op = "commit"
    BY DEF Begin, Commit
  <2>2. \A id : Insert(id).op = "raw" /\ Insert(id).id = id
    BY DEF Insert
  <2>3. \A b, S : /\ Upsert(n, b, S).op = "agg" /\ Upsert(n, b, S).n = n
                 /\ Upsert(n, b, S).bucket = b /\ Upsert(n, b, S).ids = S
    BY DEF Upsert
  <2>4. \A i \in 1..m : t[1 + i].op = "raw" /\ t[1 + i].id = s[i]
    BY <1>2, <2>2
  <2>5. \A b \in Buckets : /\ t[1 + m + b].op = "agg" /\ t[1 + m + b].n = n
                          /\ t[1 + m + b].bucket = b
                          /\ t[1 + m + b].ids = InBucket(Range(s), b)
    BY <1>2, <2>3
  <2> QED BY <1>2, <2>1, <2>4, <2>5
<1>5. \A i \in 1..e : \/ i = 1 \/ i = e
                      \/ (i - 1 \in 1..m /\ i = 1 + (i - 1))
                      \/ (i - 1 - m \in Buckets /\ i = 1 + m + (i - 1 - m))
  BY <1>1 DEF e, Buckets
<1>6. \A i \in 1..e : /\ t[i].op = "commit" => i = e
                      /\ t[i].op = "raw" => i - 1 \in 1..m /\ t[i].id = s[i - 1]
                      /\ t[i].op = "agg" =>
                           /\ t[i].n = n /\ t[i].bucket \in Buckets
                           /\ t[i].ids = InBucket(Range(s), t[i].bucket)
                           /\ i \in (m + 2)..e
  <2> SUFFICES ASSUME NEW i \in 1..e
               PROVE  /\ t[i].op = "commit" => i = e
                      /\ t[i].op = "raw" => i - 1 \in 1..m /\ t[i].id = s[i - 1]
                      /\ t[i].op = "agg" =>
                           /\ t[i].n = n /\ t[i].bucket \in Buckets
                           /\ t[i].ids = InBucket(Range(s), t[i].bucket)
                           /\ i \in (m + 2)..e
    OBVIOUS
  <2>1. CASE i = 1
    BY <1>4, <2>1
  <2>2. CASE i = e
    BY <1>4, <2>2
  <2>3. CASE i - 1 \in 1..m /\ i = 1 + (i - 1)
    BY <1>4, <2>3
  <2>4. CASE i - 1 - m \in Buckets /\ i = 1 + m + (i - 1 - m)
    <3>1. i \in (m + 2)..e
      BY <1>1, <2>4 DEF Buckets, e
    <3> QED BY <1>4, <2>4, <3>1
  <2> QED BY <1>5, <2>1, <2>2, <2>3, <2>4
<1>7. ASSUME NEW p \in (m + 2)..(e + 1) PROVE Inserted(t, p) = Range(s)
  <2>1. p \in Nat /\ p <= Len(t) + 1 /\ \A k \in 1..(p - 1) : k \in 1..e
    BY <1>1, <1>2 DEF e
  <2>2. \A i \in 1..m : 1 + i \in 1..(p - 1)
    BY <1>1
  <2>3. \A id : id \in Inserted(t, p) <=>
          \E k \in 1..(p - 1) : t[k].op = "raw" /\ id = t[k].id
    BY <1>2, <2>1, Positions
  <2>4. Inserted(t, p) \subseteq Range(s)
    <3> SUFFICES ASSUME NEW id \in Inserted(t, p) PROVE id \in Range(s)
      OBVIOUS
    <3>1. PICK k \in 1..(p - 1) : t[k].op = "raw" /\ id = t[k].id
      BY <2>3
    <3>2. k - 1 \in 1..m /\ id = s[k - 1]
      BY <1>6, <2>1, <3>1
    <3> QED BY <1>3, <3>2
  <2>5. Range(s) \subseteq Inserted(t, p)
    <3> SUFFICES ASSUME NEW id \in Range(s) PROVE id \in Inserted(t, p)
      OBVIOUS
    <3>1. PICK i \in 1..m : id = s[i]
      BY <1>3
    <3>2. 1 + i \in 1..(p - 1) /\ t[1 + i].op = "raw" /\ id = t[1 + i].id
      BY <1>4, <2>2, <3>1
    <3> QED BY <2>3, <3>2
  <2> QED BY <2>4, <2>5
<1>8. e \in (m + 2)..(e + 1) /\ e + 1 \in (m + 2)..(e + 1) /\ e \in Nat /\ e # 0
  BY <1>1 DEF e
<1>9. Backed(t)
  <2> SUFFICES ASSUME NEW i \in DOMAIN t, t[i].op = "agg"
               PROVE  t[i].n # 0 /\ t[i].ids \subseteq InBucket(Inserted(t, i), t[i].bucket)
    BY DEF Backed
  <2>1. i \in 1..e
    BY <1>2
  <2>2. i \in (m + 2)..(e + 1)
    BY <1>1, <1>6, <1>8, <2>1
  <2> QED BY <1>6, <1>7, <2>1, <2>2
<1>10. NotMerged(t, e) = {}
  <2>1. \A id : id \in NotMerged(t, e) <=>
          \E k \in 1..(e - 1) : /\ t[k].op = "raw" /\ id = t[k].id
                                /\ \A i \in k..(e - 1) :
                                     t[i].op = "agg" => id \notin t[i].ids
    <3>1. e <= Len(t) + 1
      BY <1>2, <1>8
    <3> QED BY ONLY <1>2, <1>8, <3>1, Positions
  <2> SUFFICES ASSUME NEW id \in NotMerged(t, e) PROVE FALSE
    OBVIOUS
  <2>2. PICK k \in 1..(e - 1) : /\ t[k].op = "raw" /\ id = t[k].id
                                /\ \A i \in k..(e - 1) : t[i].op = "agg" => id \notin t[i].ids
    BY <2>1
  <2>3. k \in 1..e /\ k \in Nat
    BY <1>8
  <2>4. k - 1 \in 1..m /\ id = s[k - 1]
    BY <1>6, <2>2, <2>3
  <2>5. id \in Range(s) /\ id \in Ids
    BY <1>3, <2>4
  <2> DEFINE b == BucketOf[id]
  <2>6. b \in Buckets /\ id \in InBucket(Range(s), b)
    BY <1>1, <2>5 DEF InBucket
  <2>7. 1 + m + b \in k..(e - 1)
    <3> HIDE DEF b
    <3> QED BY <1>1, <2>3, <2>4, <2>6 DEF e, Buckets
  <2> QED BY <1>4, <2>2, <2>6, <2>7
<1>11. InTransaction(t, e) = Range(s)
  <2>1. \A x : x \in InTransaction(t, e) <=>
          \E k \in 1..(e - 1) : /\ t[k].op = "raw" /\ x = t[k].id
                                /\ \A i \in k..(e - 1) : t[i].op # "commit"
    BY <1>2, <1>8, Positions
  <2>2. \A x : x \in Inserted(t, e) <=>
          \E k \in 1..(e - 1) : t[k].op = "raw" /\ x = t[k].id
    BY <1>2, <1>8, Positions
  <2>3. \A k \in 1..(e - 1) : \A i \in k..(e - 1) : i \in 1..e /\ i # e
    BY <1>8
  <2>4. \A k \in 1..(e - 1) : \A i \in k..(e - 1) : t[i].op # "commit"
    BY <1>6, <2>3
  <2>5. InTransaction(t, e) = Inserted(t, e)
    BY <2>1, <2>2, <2>4
  <2> QED BY <1>7, <1>8, <2>5
<1>12. Settled(t)
  <2> SUFFICES ASSUME NEW c \in DOMAIN t, t[c].op = "commit"
               PROVE  /\ NotMerged(t, c) = {}
                      /\ \E r \in Batches : InTransaction(t, c) = Range(r)
    BY DEF Settled
  <2>1. c = e
    BY <1>2, <1>6
  <2> QED BY <1>10, <1>11, <2>1
<1>13. Closed(t) /\ t # <<>>
  BY <1>2, <1>4, <1>8 DEF Closed
<1>14. IdsOf(t) = Range(s)
  BY <1>2, <1>7, <1>8, IdsOfText
<1> QED BY <1>2, <1>9, <1>12, <1>13, <1>14

(* What a torn write leaves is still backed: it is the beginning of the    *)
(* text, and a garbled statement merges nothing.                           *)
LEMMA Torn ==
  ASSUME NEW t \in Seq(Statement), Backed(t), NEW c \in TornText(t)
  PROVE  c \in Seq(Statement) /\ Backed(c)
<1> DEFINE Cut(k) == SubSeq(t, 1, k)
<1>1. ASSUME NEW k \in 0..(Len(t) - 1)
      PROVE  Cut(k) \in Seq(Statement) /\ Backed(Cut(k))
  <2> DEFINE u == Cut(k)
  <2>1. /\ u \in Seq(Statement) /\ Len(u) = k /\ \A i \in 1..k : u[i] = t[i]
    OBVIOUS
  <2> HIDE DEF u
  <2> SUFFICES ASSUME NEW i \in DOMAIN u, u[i].op = "agg"
               PROVE  u[i].n # 0 /\ u[i].ids \subseteq InBucket(Inserted(u, i), u[i].bucket)
    BY <2>1 DEF Backed, u
  <2>2. i \in 1..k /\ i \in Nat /\ i \in DOMAIN t /\ \A j \in 1..(i - 1) : j \in 1..k
    BY <2>1
  <2>3. Inserted(u, i) = Inserted(t, i)
    BY <2>1, <2>2, SamePrefix
  <2> QED BY <2>1, <2>2, <2>3 DEF Backed
<1>2. CASE \E k \in 0..(Len(t) - 1) : c = Cut(k)
  BY <1>1, <1>2
<1>3. CASE \E k \in 0..(Len(t) - 1) : c = Join(Cut(k), <<Garbage>>)
  <2>1. PICK k \in 0..(Len(t) - 1) : c = Join(Cut(k), <<Garbage>>)
    BY <1>3
  <2>2. Garbage \in Statement /\ Garbage.op # "agg"
    BY DEF Garbage, Statement
  <2>3. <<Garbage>> \in Seq(Statement) /\ Backed(<<Garbage>>)
    BY <2>2 DEF Backed
  <2>4. Cut(k) \in Seq(Statement) /\ Backed(Cut(k))
    BY <1>1
  <2> HIDE DEF Cut
  <2>5. Join(Cut(k), <<Garbage>>) \in Seq(Statement) /\ Backed(Join(Cut(k), <<Garbage>>))
    BY <2>3, <2>4, JoinPositions, JoinKeeps
  <2> QED BY <2>1, <2>5
<1> QED BY <1>2, <1>3 DEF TornText, Join
-----------------------------------------------------------------------------
(* Rows of the aggregate table.                                            *)

LEMMA TempsParts ==
  ASSUME NEW S \in SUBSET Ids
  PROVE  /\ Temps(S) \in SUBSET Int
         /\ S # {} => Temps(S) # {}
         /\ IsFiniteSet(S) => IsFiniteSet(Temps(S))
<1>1. Temps(S) \in SUBSET Int /\ (S # {} => Temps(S) # {})
  BY StoreAssumption DEF Temps
<1>2. IsFiniteSet(S) => IsFiniteSet(Temps(S))
  <2> DEFINE f == [id \in S |-> Temp[id]]
  <2>1. f \in Surjection(S, Temps(S))
    BY DEF Surjection, Temps
  <2> QED BY <2>1, FS_Surjection
<1> QED BY <1>1, <1>2

(* A row written from a batch holds the extremes and the count of its ids. *)
LEMMA RowOfParts ==
  ASSUME NEW st \in Statement, st.op = "agg", st.n # 0, st.ids # {}, IsFiniteSet(st.ids)
  PROVE  /\ RowOf(st) \in Row /\ Extremes(RowOf(st), st.ids)
         /\ RowOf(st).count = Cardinality(st.ids)
<1> DEFINE T == Temps(st.ids)
<1>1. st.n \in Nat /\ st.ids \in SUBSET Ids
  BY StatementParts
<1>2. T \in SUBSET Int /\ T # {} /\ IsFiniteSet(T)
  BY <1>1, TempsParts
<1>3. T = {Temp[id] : id \in st.ids}
  BY DEF Temps
<1> HIDE DEF T
<1>4. PICK lo \in T : IsMin(lo, T)
  BY <1>2, FiniteExtremes
<1>5. PICK hi \in T : IsMax(hi, T)
  BY <1>2, FiniteExtremes
<1>6. Min(T) = lo /\ Max(T) = hi /\ lo \in Int /\ hi \in Int
  BY <1>2, <1>4, <1>5, MinMax
<1>7. Cardinality(st.ids) \in Nat
  BY FS_CardinalityType
<1>8. RowOf(st) = [n |-> st.n, count |-> Cardinality(st.ids), lo |-> lo, hi |-> hi]
  BY <1>3, <1>6 DEF RowOf
<1>9. RowOf(st) \in Row
  BY <1>1, <1>6, <1>7, <1>8 DEF Row
<1>10. /\ RowOf(st).n = st.n /\ RowOf(st).lo = lo /\ RowOf(st).hi = hi
       /\ RowOf(st).count = Cardinality(st.ids)
  BY <1>8
<1> QED BY <1>4, <1>5, <1>9, <1>10 DEF Extremes, T

LEMMA MergeParts ==
  ASSUME NEW old \in Row, NEW new \in Row, NEW M \in SUBSET Ids, NEW S \in SUBSET Ids,
         S # {}, Extremes(old, M), Extremes(new, S)
  PROVE  /\ Merge(old, new) \in Row /\ Merge(old, new).count = new.count
         /\ Extremes(Merge(old, new), M \cup S)
<1>1. new.n # 0 /\ IsMin(new.lo, Temps(S)) /\ IsMax(new.hi, Temps(S))
  BY DEF Extremes
<1>2. CASE M = {}
  <2>1. old = NoRow /\ M \cup S = S
    BY <1>2 DEF Extremes
  <2> QED BY <2>1 DEF Merge
<1>3. CASE M # {}
  <2>1. old.n # 0 /\ IsMin(old.lo, Temps(M)) /\ IsMax(old.hi, Temps(M))
    BY <1>3 DEF Extremes
  <2>2. old # NoRow
    BY <2>1 DEF NoRow
  <2>3. /\ old.lo \in Int /\ old.hi \in Int /\ new.lo \in Int /\ new.hi \in Int
        /\ new.n \in Nat /\ new.count \in Nat
    BY DEF Row
  <2> DEFINE lo == IF old.lo <= new.lo THEN old.lo ELSE new.lo
             hi == IF old.hi >= new.hi THEN old.hi ELSE new.hi
  <2>4. lo \in Int /\ IsMin(lo, {old.lo, new.lo})
    BY <2>3 DEF IsMin
  <2>5. hi \in Int /\ IsMax(hi, {old.hi, new.hi})
    BY <2>3 DEF IsMax
  <2>6. {old.lo, new.lo} \in SUBSET Int /\ {old.hi, new.hi} \in SUBSET Int
    BY <2>3
  <2>7. Temps(M \cup S) = Temps(M) \cup Temps(S)
    BY DEF Temps
  <2>8. Temps(M) \in SUBSET Int /\ Temps(S) \in SUBSET Int
    BY TempsParts
  <2>9. IsMin(lo, Temps(M) \cup Temps(S))
    BY <1>1, <2>1, <2>3, <2>8 DEF IsMin
  <2>10. IsMax(hi, Temps(M) \cup Temps(S))
    BY <1>1, <2>1, <2>3, <2>8 DEF IsMax
  <2> HIDE DEF lo, hi
  <2>11. Min({old.lo, new.lo}) = lo /\ Max({old.hi, new.hi}) = hi
    BY <2>4, <2>5, <2>6, MinMax
  <2>12. Merge(old, new) = [new EXCEPT !.lo = lo, !.hi = hi]
    BY <2>2, <2>11 DEF Merge
  <2>13. /\ Merge(old, new) \in Row /\ Merge(old, new).count = new.count
         /\ Merge(old, new).n = new.n /\ Merge(old, new).lo = lo /\ Merge(old, new).hi = hi
    BY <2>4, <2>5, <2>12 DEF Row
  <2>14. M \cup S # {}
    BY <1>3
  <2> QED BY <1>1, <2>7, <2>9, <2>10, <2>13, <2>14 DEF Extremes
<1> QED BY <1>2, <1>3

LEMMA BucketFinite ==
  ASSUME NEW R, IsFiniteSet(R), NEW b
  PROVE  IsFiniteSet(InBucket(R, b)) /\ Cardinality(InBucket(R, b)) \in Nat
<1>1. InBucket(R, b) \subseteq R
  BY DEF InBucket
<1>2. IsFiniteSet(InBucket(R, b))
  BY <1>1, FS_Subset
<1> QED BY <1>2, FS_CardinalityType

(* More rows, of which those that are not merged count as missing.         *)
LEMMA SummaryMore ==
  ASSUME NEW row \in Row, NEW b, NEW R, NEW Q, IsFiniteSet(Q), R \subseteq Q,
         NEW m, NEW k, InBucket(Q, b) \ k \subseteq InBucket(R, b) \ m,
         Summary(row, b, R, m)
  PROVE  Summary(row, b, Q, k)
<1>1. InBucket(R, b) \subseteq InBucket(Q, b)
  BY DEF InBucket
<1>2. /\ IsFiniteSet(InBucket(Q, b)) /\ Cardinality(InBucket(Q, b)) \in Nat
  BY BucketFinite
<1>3. IsFiniteSet(InBucket(R, b)) /\ Cardinality(InBucket(R, b)) <= Cardinality(InBucket(Q, b))
  BY <1>1, <1>2, FS_Subset
<1>4. Cardinality(InBucket(R, b)) \in Nat
  BY <1>3, FS_CardinalityType
<1>5. row.count \in Nat /\ row.count <= Cardinality(InBucket(R, b))
  BY DEF Summary, Row
<1>6. row.count <= Cardinality(InBucket(Q, b))
  BY <1>2, <1>3, <1>4, <1>5
<1>7. PICK M \in SUBSET InBucket(R, b) : InBucket(R, b) \ m \subseteq M /\ Extremes(row, M)
  BY DEF Summary
<1>8. M \in SUBSET InBucket(Q, b) /\ InBucket(Q, b) \ k \subseteq M
  BY <1>1, <1>7
<1> QED BY <1>6, <1>7, <1>8 DEF Summary

(* An upsert of rows of the bucket makes up for them.                      *)
LEMMA SummaryUpsert ==
  ASSUME NEW row \in Row, NEW b, NEW R \in SUBSET Ids, IsFiniteSet(R), NEW m,
         Summary(row, b, R, m),
         NEW st \in Statement, st.op = "agg", st.n # 0, st.ids # {},
         st.ids \subseteq InBucket(R, b)
  PROVE  /\ Merge(row, RowOf(st)) \in Row
         /\ Summary(Merge(row, RowOf(st)), b, R, m \ st.ids)
<1>1. IsFiniteSet(InBucket(R, b)) /\ Cardinality(InBucket(R, b)) \in Nat /\ InBucket(R, b) \in SUBSET Ids
  BY BucketFinite DEF InBucket
<1>2. IsFiniteSet(st.ids) /\ Cardinality(st.ids) <= Cardinality(InBucket(R, b)) /\ st.ids \in SUBSET Ids
  BY <1>1, FS_Subset
<1>3. PICK M \in SUBSET InBucket(R, b) : InBucket(R, b) \ m \subseteq M /\ Extremes(row, M)
  BY DEF Summary
<1> DEFINE new == RowOf(st)
<1>4. new \in Row /\ Extremes(new, st.ids) /\ new.count = Cardinality(st.ids)
  BY <1>2, RowOfParts
<1>5. M \in SUBSET Ids
  BY <1>1
<1> HIDE DEF new
<1>6. /\ Merge(row, new) \in Row /\ Merge(row, new).count = new.count
      /\ Extremes(Merge(row, new), M \cup st.ids)
  BY <1>2, <1>3, <1>4, <1>5, MergeParts
<1>7. /\ M \cup st.ids \in SUBSET InBucket(R, b)
      /\ InBucket(R, b) \ (m \ st.ids) \subseteq M \cup st.ids
  BY <1>3
<1>8. Merge(row, new).count <= Cardinality(InBucket(R, b))
  BY <1>2, <1>4, <1>6
<1>9. Summary(Merge(row, new), b, R, m \ st.ids)
  BY <1>6, <1>7, <1>8 DEF Summary
<1> QED BY <1>6, <1>9 DEF new
-----------------------------------------------------------------------------
(* The tables under each kind of step.                                     *)

LEMMA Empty ==
  ASSUME NEW b
  PROVE  /\ NoRow \in Row /\ InBucket({}, b) = {}
         /\ Summary(NoRow, b, {}, {})
<1>1. NoRow \in Row /\ NoRow.count = 0
  BY DEF NoRow, Row
<1>2. InBucket({}, b) = {}
  BY DEF InBucket
<1>3. Cardinality({}) = 0
  BY FS_EmptySet
<1>4. Extremes(NoRow, {})
  BY DEF Extremes
<1> QED BY <1>1, <1>2, <1>3, <1>4 DEF Summary

(* Nobody touches the tables, and no text is being executed; or a text is  *)
(* begun.                                                                  *)
LEMMA Quiet ==
  ASSUME TypeOK, TypeOK', RowsInv, AggInv, UNCHANGED tables, torn => torn', ~Running,
         Running' => pos' = 1
  PROVE  RowsInv' /\ AggInv'
<1>1. raw' = raw /\ wraw' = wraw /\ agg' = agg /\ wagg' = wagg
  BY DEF tables
<1>2. /\ raw \subseteq wraw /\ IsFiniteSet(wraw) /\ IsFiniteSet(raw)
      /\ agg \in [Buckets -> Row] /\ wagg \in [Buckets -> Row]
      /\ raw \subseteq Ids /\ wraw \subseteq Ids
  BY FS_Subset DEF RowsInv, TypeOK
<1>3. Running' => /\ Inserted(text, pos)' = {} /\ InTransaction(text, pos)' = {}
                  /\ NotMerged(text, pos)' = {}
  <2>1. text' \in Seq(Statement)
    BY DEF TypeOK
  <2> QED BY <2>1, AtStart
<1>4. RowsInv'
  BY <1>1, <1>2, <1>3 DEF RowsInv
<1>5. ASSUME NEW b \in Buckets
      PROVE  /\ Summary(agg[b], b, raw, IF torn' THEN Ids ELSE {})
             /\ Summary(wagg[b], b, wraw, Missing')
  <2>1. /\ Summary(agg[b], b, raw, IF torn THEN Ids ELSE {})
        /\ Summary(wagg[b], b, wraw, Missing)
        /\ agg[b] \in Row /\ wagg[b] \in Row
    BY <1>2 DEF AggInv
  <2>2. InBucket(raw, b) \subseteq Ids /\ InBucket(wraw, b) \subseteq Ids
    BY <1>2 DEF InBucket
  <2>3. CASE torn'
    <3>1. Missing' = Ids
      BY <2>3 DEF Missing
    <3>2. InBucket(raw, b) \ Ids = {} /\ InBucket(wraw, b) \ Ids = {}
      BY <2>2
    <3>3. Summary(agg[b], b, raw, Ids)
      BY <1>2, <2>1, <3>2, SummaryMore
    <3>4. Summary(wagg[b], b, wraw, Ids)
      BY <1>2, <2>1, <3>2, SummaryMore
    <3> QED BY <2>3, <3>1, <3>3, <3>4
  <2>4. CASE ~torn'
    <3>1. Missing = {} /\ Missing' = {} /\ ~torn
      BY <1>3, <2>4 DEF Missing
    <3> QED BY <2>1, <2>4, <3>1
  <2> QED BY <2>3, <2>4
<1> QED BY <1>1, <1>4, <1>5 DEF AggInv

(* The open transaction is rolled back, and the text given up.             *)
LEMMA RolledBack ==
  ASSUME TypeOK, TypeOK', RowsInv, AggInv, Rollback, torn => torn', ~Running'
  PROVE  RowsInv' /\ AggInv'
<1>1. raw' = raw /\ wraw' = raw /\ agg' = agg /\ wagg' = agg
  BY DEF Rollback
<1>2. IsFiniteSet(raw) /\ agg \in [Buckets -> Row] /\ raw \subseteq Ids
  BY FS_Subset DEF RowsInv, TypeOK
<1>3. RowsInv'
  BY <1>1, <1>2 DEF RowsInv
<1>4. Missing' = IF torn' THEN Ids ELSE {}
  BY DEF Missing
<1>5. ASSUME NEW b \in Buckets
      PROVE  Summary(agg[b], b, raw, IF torn' THEN Ids ELSE {})
  <2>1. Summary(agg[b], b, raw, IF torn THEN Ids ELSE {}) /\ agg[b] \in Row
    BY <1>2 DEF AggInv
  <2>2. InBucket(raw, b) \ Ids = {}
    BY <1>2 DEF InBucket
  <2>3. Summary(agg[b], b, raw, Ids)
    BY <1>2, <2>1, <2>2, SummaryMore
  <2> QED BY <2>1, <2>3
<1> QED BY <1>1, <1>3, <1>4, <1>5 DEF AggInv

(* A statement is executed: it is a statement of the text.                 *)
LEMMA Reached ==
  ASSUME TypeOK, NEW o, NextIs(o)
  PROVE  /\ Running /\ pos \in DOMAIN text /\ text[pos].op = o /\ text[pos] \in Statement
         /\ pos <= Len(text) /\ pos \in Nat
BY DEF TypeOK, NextIs, Executing, Running

LEMMA BeginStep ==
  ASSUME TypeOK, RowsInv, AggInv, ExecBegin
  PROVE  RowsInv' /\ AggInv'
<1>1. /\ Running /\ pos \in DOMAIN text /\ text[pos].op = "begin" /\ text \in Seq(Statement)
  BY Reached DEF ExecBegin, TypeOK
<1>2. /\ pc' = pc /\ text' = text /\ pos' = pos + 1 /\ torn' = torn
      /\ raw' = raw /\ wraw' = wraw /\ agg' = agg /\ wagg' = wagg
  BY DEF ExecBegin, tables, report
<1>3. /\ Inserted(text, pos + 1) = Inserted(text, pos)
      /\ InTransaction(text, pos + 1) = InTransaction(text, pos)
      /\ NotMerged(text, pos + 1) = NotMerged(text, pos)
  BY <1>1, Advance
<1>4. Running' = Running
  BY <1>2 DEF Running
<1>5. RowsInv'
  BY <1>1, <1>2, <1>3, <1>4 DEF RowsInv
<1>6. Missing' = Missing
  BY <1>1, <1>2, <1>3, <1>4 DEF Missing
<1>7. AggInv'
  BY <1>2, <1>6 DEF AggInv
<1> QED BY <1>5, <1>7

LEMMA InsertStep ==
  ASSUME TypeOK, RowsInv, AggInv, ExecInsert
  PROVE  RowsInv' /\ AggInv' /\ wraw' \subseteq Ids
<1> DEFINE id == text[pos].id
<1>1. /\ Running /\ pos \in DOMAIN text /\ text[pos].op = "raw" /\ text \in Seq(Statement)
      /\ text[pos] \in Statement
  BY Reached DEF ExecInsert, TypeOK
<1>2. /\ pc' = pc /\ text' = text /\ pos' = pos + 1 /\ torn' = torn
      /\ raw' = raw /\ wraw' = wraw \cup {id} /\ agg' = agg /\ wagg' = wagg
  BY DEF ExecInsert, report
<1>3. /\ Inserted(text, pos + 1) = Inserted(text, pos) \cup {id}
      /\ InTransaction(text, pos + 1) = InTransaction(text, pos) \cup {id}
      /\ NotMerged(text, pos + 1) = NotMerged(text, pos) \cup {id}
  BY <1>1, Advance
<1>4. id \in Ids
  BY <1>1, StatementParts
<1> HIDE DEF id
<1>5. IsFiniteSet(wraw \cup {id}) /\ wraw \cup {id} \subseteq Ids
  BY <1>4, FS_AddElement DEF RowsInv, TypeOK
<1>6. Running' = Running
  BY <1>2 DEF Running
<1>7. RowsInv'
  BY <1>1, <1>2, <1>3, <1>5, <1>6 DEF RowsInv
<1>8. ASSUME NEW b \in Buckets PROVE Summary(wagg[b], b, wraw \cup {id}, Missing')
  <2>1. Summary(wagg[b], b, wraw, Missing) /\ wagg[b] \in Row
    BY DEF AggInv, TypeOK
  <2>2. InBucket(wraw \cup {id}, b) \subseteq InBucket(wraw, b) \cup {id}
    BY DEF InBucket
  <2>3. InBucket(wraw \cup {id}, b) \subseteq Ids
    BY <1>5 DEF InBucket
  <2>4. InBucket(wraw \cup {id}, b) \ Missing' \subseteq InBucket(wraw, b) \ Missing
    <3>1. CASE torn
      <4>1. Missing' = Ids
        BY <1>2, <3>1 DEF Missing
      <4> QED BY <2>3, <4>1
    <3>2. CASE ~torn
      <4>1. Missing' = Missing \cup {id}
        BY <1>1, <1>2, <1>3, <1>6, <3>2 DEF Missing
      <4> QED BY <2>2, <4>1
    <3> QED BY <3>1, <3>2
  <2>5. wraw \subseteq wraw \cup {id}
    OBVIOUS
  <2> QED BY <1>5, <2>1, <2>4, <2>5, SummaryMore
<1>9. AggInv'
  BY <1>2, <1>8 DEF AggInv
<1> QED BY <1>2, <1>5, <1>7, <1>9

LEMMA UpsertStep ==
  ASSUME TypeOK, RowsInv, AggInv, Backed(text), ExecUpsert
  PROVE  RowsInv' /\ AggInv' /\ wagg' \in [Buckets -> Row]
<1> DEFINE st == text[pos]
           c == st.bucket
<1>1. /\ Running /\ pos \in DOMAIN text /\ st.op = "agg" /\ text \in Seq(Statement)
      /\ st \in Statement
  BY Reached DEF ExecUpsert, TypeOK
<1>2. /\ pc' = pc /\ text' = text /\ pos' = pos + 1 /\ torn' = torn
      /\ raw' = raw /\ wraw' = wraw /\ agg' = agg
      /\ wagg' = IF st.ids = {} THEN wagg
                 ELSE [wagg EXCEPT ![c] = Merge(@, RowOf(st))]
  BY DEF ExecUpsert, report
<1>3. /\ Inserted(text, pos + 1) = Inserted(text, pos)
      /\ InTransaction(text, pos + 1) = InTransaction(text, pos)
      /\ NotMerged(text, pos + 1) = NotMerged(text, pos) \ st.ids
  BY <1>1, Advance
<1>4. Running' = Running
  BY <1>2 DEF Running
<1>5. RowsInv'
  BY <1>1, <1>2, <1>3, <1>4 DEF RowsInv
<1>6. st.n # 0 /\ st.ids \subseteq InBucket(Inserted(text, pos), c)
  BY <1>1 DEF Backed
<1>7. st.ids \subseteq InBucket(wraw, c) /\ c \in Buckets
  <2>1. Inserted(text, pos) \subseteq wraw
    BY <1>1 DEF RowsInv
  <2>2. c \in Buckets
    BY <1>1, StatementParts
  <2> HIDE DEF st, c
  <2> QED BY <1>6, <2>1, <2>2 DEF InBucket
<1>8. Missing \ st.ids \subseteq Missing'
  BY <1>1, <1>2, <1>3, <1>4 DEF Missing
<1>9. /\ IsFiniteSet(wraw) /\ wraw \subseteq Ids /\ wagg \in [Buckets -> Row]
  BY DEF RowsInv, TypeOK
<1>10. /\ \A b \in Buckets : st.ids = {} \/ b # c => wagg'[b] = wagg[b]
       /\ st.ids # {} => wagg'[c] = Merge(wagg[c], RowOf(st))
  <2> HIDE DEF st, c
  <2> QED BY <1>2, <1>7, <1>9
<1>11. ASSUME st.ids # {}
       PROVE  Merge(wagg[c], RowOf(st)) \in Row /\ Summary(Merge(wagg[c], RowOf(st)), c, wraw, Missing')
  <2>1. Summary(wagg[c], c, wraw, Missing) /\ wagg[c] \in Row
    BY <1>7, <1>9 DEF AggInv
  <2> DEFINE new == Merge(wagg[c], RowOf(st))
  <2>2. new \in Row /\ Summary(new, c, wraw, Missing \ st.ids)
    <3> HIDE DEF st, c
    <3> QED BY <1>1, <1>6, <1>7, <1>9, <1>11, <2>1, SummaryUpsert
  <2> HIDE DEF new, st, c
  <2>3. InBucket(wraw, c) \ Missing' \subseteq InBucket(wraw, c) \ (Missing \ st.ids)
    BY <1>8
  <2>4. Summary(new, c, wraw, Missing')
    BY <1>9, <2>2, <2>3, SummaryMore
  <2> QED BY <2>2, <2>4 DEF new
<1>12. ASSUME NEW b \in Buckets PROVE wagg'[b] \in Row /\ Summary(wagg'[b], b, wraw, Missing')
  <2>1. CASE st.ids # {} /\ b = c
    BY <1>10, <1>11, <2>1
  <2>2. CASE st.ids = {} \/ b # c
    <3>1. Summary(wagg[b], b, wraw, Missing) /\ wagg[b] \in Row
      BY <1>9 DEF AggInv
    <3>2. InBucket(wraw, b) \cap st.ids = {}
      <4> HIDE DEF st, c
      <4> QED BY <1>7, <2>2 DEF InBucket
    <3> HIDE DEF st, c
    <3>3. InBucket(wraw, b) \ Missing' \subseteq InBucket(wraw, b) \ Missing
      BY <1>8, <3>2
    <3>4. Summary(wagg[b], b, wraw, Missing')
      BY <1>9, <3>1, <3>3, SummaryMore
    <3> QED BY <1>10, <2>2, <3>1, <3>4
  <2> QED BY <2>1, <2>2
<1>13. wagg' \in [Buckets -> Row]
  <2>1. wagg' = [b \in Buckets |-> wagg'[b]]
    <3> HIDE DEF st, c
    <3> QED BY <1>2, <1>9
  <2> QED BY <1>12, <2>1
<1>14. AggInv'
  BY <1>2, <1>12 DEF AggInv
<1> QED BY <1>5, <1>13, <1>14

LEMMA CommitStep ==
  ASSUME TypeOK, RowsInv, AggInv, ~torn => Settled(text), ExecCommit
  PROVE  RowsInv' /\ AggInv'
<1>1. /\ Running /\ pos \in DOMAIN text /\ text[pos].op = "commit" /\ text \in Seq(Statement)
  BY Reached DEF ExecCommit, TypeOK
<1>2. /\ pc' = pc /\ text' = text /\ pos' = pos + 1 /\ torn' = torn
      /\ raw' = wraw /\ wraw' = wraw /\ agg' = wagg /\ wagg' = wagg
  BY DEF ExecCommit, report
<1>3. /\ Inserted(text, pos + 1) = Inserted(text, pos)
      /\ InTransaction(text, pos + 1) = {}
      /\ NotMerged(text, pos + 1) = NotMerged(text, pos)
  BY <1>1, Advance
<1>4. Running' = Running
  BY <1>2 DEF Running
<1>5. RowsInv'
  BY <1>1, <1>2, <1>3, <1>4 DEF RowsInv
<1>6. ~torn => NotMerged(text, pos) = {}
  BY <1>1 DEF Settled
<1>7. Missing' = Missing /\ Missing = (IF torn THEN Ids ELSE {})
  BY <1>1, <1>2, <1>3, <1>4, <1>6 DEF Missing
<1>8. AggInv'
  BY <1>2, <1>7 DEF AggInv
<1> QED BY <1>5, <1>8

(* Behind the last statement of a text nothing is open.                    *)
LEMMA AtEnd ==
  ASSUME TypeOK, pos <= Len(text) + 1, pos > Len(text), Settled(text), Closed(text)
  PROVE  InTransaction(text, pos) = {} /\ NotMerged(text, pos) = {}
<1>1. pos = Len(text) + 1 /\ text \in Seq(Statement)
  BY DEF TypeOK
<1>2. CASE text = <<>>
  <2>1. pos = 1
    BY <1>1, <1>2
  <2> QED BY <1>1, <2>1, AtStart
<1>3. CASE text # <<>>
  <2>1. Len(text) \in DOMAIN text /\ text[Len(text)].op = "commit"
    BY <1>1, <1>3 DEF Closed
  <2>2. NotMerged(text, Len(text)) = {}
    BY <2>1 DEF Settled
  <2>3. /\ InTransaction(text, Len(text) + 1) = {}
        /\ NotMerged(text, Len(text) + 1) = NotMerged(text, Len(text))
    BY <1>1, <2>1, Advance
  <2> QED BY <1>1, <2>2, <2>3
<1> QED BY <1>2, <1>3

LEMMA DoneStep ==
  ASSUME TypeOK, TypeOK', RowsInv, AggInv, pos <= Len(text) + 1,
         ~torn => Settled(text) /\ Closed(text), ExecDone
  PROVE  /\ RowsInv' /\ AggInv'
         /\ ~torn => wraw = raw /\ IdsOf(text) \subseteq raw
<1>1. Running /\ ~Running' /\ torn' = torn /\ pos > Len(text) /\ text \in Seq(Statement)
  <2>1. pc' \in {"idle", "truncate"}
    BY DEF ExecDone, Return
  <2> QED BY <2>1 DEF ExecDone, Executing, Running, TypeOK
<1>2. ~torn => InTransaction(text, pos) = {} /\ NotMerged(text, pos) = {}
  BY <1>1, AtEnd
<1>3. ~torn => wraw = raw
  BY <1>2 DEF RowsInv
<1>4. ~torn => IdsOf(text) \subseteq raw
  <2>1. pos = Len(text) + 1
    BY <1>1 DEF TypeOK
  <2>2. IdsOf(text) \subseteq wraw
    BY <1>1, <2>1, IdsOfText DEF RowsInv
  <2> QED BY <1>3, <2>2
<1>5. CASE libpq
  <2>1. raw' = raw /\ wraw' = wraw /\ agg' = agg /\ wagg' = wagg
    BY <1>5 DEF ExecDone, EndOfText, tables
  <2>2. RowsInv'
    BY <1>1, <1>3, <2>1 DEF RowsInv
  <2>3. Missing' = Missing
    BY <1>1, <1>2 DEF Missing
  <2>4. AggInv'
    BY <1>1, <2>1, <2>3 DEF AggInv
  <2> QED BY <1>3, <1>4, <2>2, <2>4
<1>6. CASE ~libpq
  <2>1. Rollback
    BY <1>6 DEF ExecDone, EndOfText
  <2> QED BY <1>1, <1>3, <1>4, <2>1, RolledBack
<1> QED BY <1>5, <1>6
-----------------------------------------------------------------------------
(* The invariant is inductive.                                             *)

LEMMA EmptyText ==
  /\ <<>> \in Seq(Statement) /\ <<>> \in Seq(Ids) /\ IdsOf(<<>>) = {}
  /\ Backed(<<>>) /\ Settled(<<>>) /\ Closed(<<>>)
BY DEF IdsOf, Backed, Settled, Closed

LEMMA InitInv == Init => Inv
<1> SUFFICES ASSUME Init PROVE Inv
  OBVIOUS
<1>1. TypeOK
  <2>1. NoRow \in Row
    BY DEF NoRow, Row
  <2>2. 0 \in 0..MaxFlushes /\ 0 \in 0..MaxCrashes
    BY StoreAssumption
  <2>3. agg \in [Buckets -> Row] /\ wagg \in [Buckets -> Row]
    BY <2>1 DEF Init
  <2>4. libpq \in BOOLEAN /\ conn \in BOOLEAN /\ torn \in BOOLEAN
    BY DEF Init
  <2>5. batch \in Seq(Ids) /\ text \in Seq(Statement) /\ file \in Seq(Statement)
    BY EmptyText DEF Init
  <2>6. /\ pc = "down" /\ pos = 1 /\ raw = {} /\ wraw = {} /\ acked = {} /\ lost = {}
        /\ flushes = 0 /\ crashes = 0
    BY DEF Init
  <2> QED BY <2>2, <2>3, <2>4, <2>5, <2>6 DEF TypeOK
<1>2. TextInv
  BY EmptyText DEF Init, TextInv
<1>3. RowsInv
  BY FS_EmptySet DEF Init, RowsInv, Running
<1>4. AggInv
  <2>1. agg = [b \in Buckets |-> NoRow] /\ wagg = agg /\ raw = {} /\ wraw = {} /\ Missing = {} /\ ~torn
    BY DEF Init, Missing, Running
  <2> QED BY <2>1, Empty DEF AggInv
<1>5. KeptInv
  BY DEF Init, KeptInv, AckedKept
<1> QED BY <1>1, <1>2, <1>3, <1>4, <1>5 DEF Inv

(* The file after a torn write.                                            *)
LEMMA TornFile ==
  ASSUME TypeOK, Backed(file), Backed(text), NEW c \in TornText(text), file' = file \o c
  PROVE  file' \in Seq(Statement) /\ Backed(file')
<1>1. c \in Seq(Statement) /\ Backed(c)
  BY Torn DEF TypeOK
<1>2. file' = Join(file, c) /\ file \in Seq(Statement)
  BY DEF Join, TypeOK
<1> QED BY <1>1, <1>2, JoinPositions, JoinKeeps

LEMMA TypeStep ==
  ASSUME Inv, Next PROVE TypeOK'
<1> USE DEF Inv
<1>Returns. Return => /\ pc' = "idle" /\ pos' \in Nat \ {0}
                 /\ batch' \in Seq(Ids) /\ text' \in Seq(Statement)
  BY EmptyText DEF Return
<1>Failed. ASSUME ExecFailed, conn' \in BOOLEAN PROVE TypeOK'
  <2>1. /\ pc' \in {"append", "idle"} /\ pos' \in Nat \ {0}
        /\ batch' \in Seq(Ids) /\ text' \in Seq(Statement)
    BY <1>Failed, <1>Returns DEF ExecFailed, TypeOK
  <2>2. Rollback /\ UNCHANGED <<libpq, file, acked, lost, torn, flushes, crashes>>
    BY <1>Failed DEF ExecFailed, report
  <2>3. libpq' \in BOOLEAN /\ torn' \in BOOLEAN
    BY <2>2 DEF TypeOK
  <2> QED BY <1>Failed, <2>1, <2>2, <2>3 DEF Rollback, TypeOK
<1>1. CASE Start
  BY <1>1 DEF Start, Connect, TypeOK, tables, report
<1>2. CASE ReplayBegin
  <2>1. text' = file \/ text' = <<>>
    BY <1>2 DEF ReplayBegin
  <2>2. text' \in Seq(Statement)
    BY <2>1, EmptyText DEF TypeOK
  <2>3. pc' \in {"replay", "idle"} /\ pos' = 1
    BY <1>2 DEF ReplayBegin
  <2> QED BY <1>2, <2>2, <2>3 DEF ReplayBegin, TypeOK, tables, report
<1>3. ASSUME NEW s \in Batches, FlushBegin(s) PROVE TypeOK'
  <2>1. flushes \in 0..MaxFlushes /\ MaxFlushes \in Nat
    BY StoreAssumption DEF TypeOK
  <2>2. flushes + 1 \in Nat \ {0} /\ (flushes < MaxFlushes => flushes + 1 \in 0..MaxFlushes)
    BY <2>1
  <2>3. BatchSql(flushes + 1, s) \in Seq(Statement)
    BY <2>2, BatchText
  <2>4. s \in Seq(Ids)
    BY StoreAssumption
  <2> QED BY <1>3, <2>2, <2>3, <2>4 DEF FlushBegin, TypeOK, tables, report
<1>4. CASE ExecBegin
  BY <1>4 DEF ExecBegin, TypeOK, tables, report
<1>5. CASE ExecInsert
  <2>1. wraw' \subseteq Ids
    BY <1>5, InsertStep
  <2> QED BY <1>5, <2>1 DEF ExecInsert, TypeOK, report
<1>6. CASE ExecUpsert
  <2>1. Backed(text)
    BY <1>6, Reached DEF ExecUpsert, TextInv, Running
  <2>2. wagg' \in [Buckets -> Row]
    BY <1>6, <2>1, UpsertStep
  <2>3. /\ pos' = pos + 1
        /\ UNCHANGED <<libpq, pc, conn, batch, text, raw, agg, wraw, file, acked, lost, torn,
                       flushes, crashes>>
    BY <1>6 DEF ExecUpsert, report
  <2> HIDE <1>6
  <2> QED BY <2>2, <2>3 DEF TypeOK
<1>7. CASE ExecCommit
  BY <1>7 DEF ExecCommit, TypeOK, report
<1>8. CASE StatementRefused
  <2>1. conn' \in BOOLEAN
    BY <1>8 DEF StatementRefused, TypeOK
  <2> QED BY <1>8, <1>Failed, <2>1 DEF StatementRefused
<1>9. CASE ConnectionLost
  <2>1. conn' \in BOOLEAN
    BY <1>9 DEF ConnectionLost
  <2> QED BY <1>9, <1>Failed, <2>1 DEF ConnectionLost
<1>10. CASE ExecDone
  <2>1. Range(batch) \subseteq Ids
    BY DEF Range, TypeOK
  <2>2. /\ raw' \subseteq Ids /\ wraw' \subseteq Ids
        /\ agg' \in [Buckets -> Row] /\ wagg' \in [Buckets -> Row]
    BY <1>10 DEF ExecDone, EndOfText, Rollback, TypeOK, tables
  <2>3. /\ pc' \in {"truncate", "idle"} /\ pos' \in Nat \ {0}
        /\ batch' \in Seq(Ids) /\ text' \in Seq(Statement)
        /\ acked' \subseteq Ids
    BY <1>10, <1>Returns, <2>1 DEF ExecDone, TypeOK
  <2>4. UNCHANGED <<libpq, conn, file, lost, torn, flushes, crashes>>
    BY <1>10 DEF ExecDone
  <2>5. libpq' \in BOOLEAN /\ conn' \in BOOLEAN /\ torn' \in BOOLEAN
    BY <2>4 DEF TypeOK
  <2> QED BY <2>2, <2>3, <2>4, <2>5 DEF TypeOK
<1>11. CASE Truncate
  <2>1. file' \in Seq(Statement)
    BY <1>11, EmptyText DEF Truncate, TypeOK
  <2>2. /\ Return
        /\ UNCHANGED <<libpq, conn, raw, wraw, agg, wagg, acked, lost, torn, flushes, crashes>>
    BY <1>11 DEF Truncate, tables, report
  <2>3. libpq' \in BOOLEAN /\ conn' \in BOOLEAN /\ torn' \in BOOLEAN
    BY <2>2 DEF TypeOK
  <2> QED BY <1>Returns, <2>1, <2>2, <2>3 DEF TypeOK
<1>12. CASE OutboxAppend
  <2>1. Range(batch) \subseteq Ids
    BY DEF Range, TypeOK
  <2>2. file' = Join(file, text)
    BY <1>12 DEF OutboxAppend, Append_, Join
  <2>3. file' \in Seq(Statement)
    BY <2>2, JoinPositions DEF TypeOK
  <2>4. /\ acked' = acked \cup Range(batch) /\ Return
        /\ UNCHANGED <<libpq, conn, tables, lost, torn, flushes, crashes>>
    BY <1>12 DEF OutboxAppend
  <2> QED BY <2>1, <2>3, <2>4, EmptyText DEF Return, TypeOK, tables
<1>13. CASE OutboxNotOpened
  <2>1. Range(batch) \subseteq Ids
    BY DEF Range, TypeOK
  <2> QED BY <1>13, <2>1, EmptyText DEF OutboxNotOpened, Return, TypeOK, tables
<1>14. CASE OutboxTorn
  <2>1. Range(batch) \subseteq Ids
    BY DEF Range, TypeOK
  <2>2. PICK c \in TornText(text) : file' = file \o c
    BY <1>14 DEF OutboxTorn, Append_
  <2>3. file' \in Seq(Statement)
    BY <1>14, <2>2, TornFile DEF OutboxTorn, TextInv
  <2>4. /\ acked' = acked \cup Range(batch) /\ Return /\ torn' = TRUE
        /\ UNCHANGED <<libpq, conn, tables, lost, flushes, crashes>>
    BY <1>14 DEF OutboxTorn
  <2> QED BY <2>1, <2>3, <2>4, EmptyText DEF Return, TypeOK, tables
<1>15. CASE WaitForBatch
  BY <1>15 DEF WaitForBatch, TypeOK, vars, tables, report
<1>16. CASE Crash
  <2>1. file' \in Seq(Statement) /\ torn' \in BOOLEAN
    <3>1. CASE UNCHANGED <<file, torn>>
      BY <3>1 DEF TypeOK
    <3>2. CASE pc = "append" /\ (\E c \in TornText(text) : file' = file \o c) /\ torn' = TRUE
      BY <3>2, TornFile DEF TextInv
    <3> QED BY <1>16, <3>1, <3>2 DEF Crash, Append_
  <2>2. crashes' \in 0..MaxCrashes
    BY <1>16, StoreAssumption DEF Crash, TypeOK
  <2>3. /\ pc' = "down" /\ conn' = FALSE /\ batch' = <<>> /\ text' = <<>> /\ pos' = 1
        /\ Rollback /\ UNCHANGED <<libpq, acked, lost, flushes>>
    BY <1>16 DEF Crash
  <2>4. libpq' \in BOOLEAN /\ conn' \in BOOLEAN
    BY <2>3 DEF TypeOK
  <2>5. batch' \in Seq(Ids) /\ text' \in Seq(Statement) /\ pos' \in Nat \ {0}
    BY <2>3, EmptyText
  <2>6. /\ raw' \subseteq Ids /\ wraw' \subseteq Ids
        /\ agg' \in [Buckets -> Row] /\ wagg' \in [Buckets -> Row]
    BY <2>3 DEF Rollback, TypeOK
  <2>7. pc' = "down" /\ UNCHANGED <<acked, lost, flushes>>
    BY <2>3
  <2> QED BY <2>1, <2>2, <2>4, <2>5, <2>6, <2>7 DEF TypeOK
<1> QED BY <1>1, <1>2, <1>3, <1>4, <1>5, <1>6, <1>7, <1>8, <1>9, <1>10, <1>11, <1>12,
           <1>13, <1>14, <1>15, <1>16 DEF Next, Execute, Outbox

LEMMA TextStep ==
  ASSUME Inv, Next PROVE TextInv'
<1> USE DEF Inv
<1>1. CASE Start
  BY <1>1 DEF Start, TextInv, report
<1>2. CASE ReplayBegin
  <2>1. 1 <= Len(text') + 1
    BY <1>2, EmptyText DEF ReplayBegin, TypeOK
  <2> QED BY <1>2, <2>1 DEF ReplayBegin, TextInv, report
<1>3. ASSUME NEW s \in Batches, FlushBegin(s) PROVE TextInv'
  <2>1. flushes + 1 \in Nat \ {0}
    BY DEF TypeOK
  <2>2. /\ text' = BatchSql(flushes + 1, s) /\ batch' = s /\ pos' = 1
        /\ pc' \in {"flush", "append"} /\ file' = file /\ torn' = torn
    BY <1>3 DEF FlushBegin, report
  <2>3. /\ text' \in Seq(Statement) /\ IdsOf(text') = Range(batch')
        /\ Backed(text') /\ Settled(text') /\ Closed(text')
    BY <2>1, <2>2, BatchText
  <2>4. pos' <= Len(text') + 1
    BY <2>2, <2>3
  <2> QED BY <2>2, <2>3, <2>4 DEF TextInv
<1>4. CASE ExecBegin \/ ExecInsert \/ ExecUpsert \/ ExecCommit
  <2>1. /\ pos \in DOMAIN text /\ pos' = pos + 1
        /\ UNCHANGED <<pc, batch, text, file, torn>>
    BY <1>4 DEF ExecBegin, ExecInsert, ExecUpsert, ExecCommit, NextIs, report
  <2>2. pos' <= Len(text') + 1
    BY <2>1 DEF TypeOK
  <2> QED BY <2>1, <2>2 DEF TextInv
<1>5. CASE StatementRefused \/ ConnectionLost
  <2>1. ExecFailed /\ pc \in {"replay", "flush"}
    BY <1>5 DEF StatementRefused, ConnectionLost, Refused, NextIs, Executing
  <2>2. file' = file /\ torn' = torn
    BY <2>1 DEF ExecFailed, report
  <2>3. CASE pc = "flush"
    <3>1. pc' = "append" /\ pos' = 1 /\ UNCHANGED <<batch, text>>
      BY <2>1, <2>3 DEF ExecFailed
    <3>2. 1 <= Len(text) + 1
      BY DEF TypeOK
    <3> QED BY <2>2, <2>3, <3>1, <3>2 DEF TextInv
  <2>4. CASE pc # "flush"
    <3>1. pc' = "idle" /\ pos' = 1 /\ text' = <<>>
      BY <2>1, <2>4 DEF ExecFailed, Return
    <3>2. 1 <= Len(<<>>) + 1
      OBVIOUS
    <3> QED BY <2>2, <3>1, <3>2 DEF TextInv
  <2> QED BY <2>3, <2>4
<1>6. CASE ExecDone
  <2>1. file' = file /\ torn' = torn
    BY <1>6 DEF ExecDone
  <2>2. CASE pc = "flush"
    <3>1. pc' = "idle" /\ pos' = 1 /\ text' = <<>>
      BY <1>6, <2>2 DEF ExecDone, Return
    <3>2. 1 <= Len(<<>>) + 1
      OBVIOUS
    <3> QED BY <2>1, <3>1, <3>2 DEF TextInv
  <2>3. CASE pc # "flush"
    <3>1. pc' = "truncate" /\ UNCHANGED <<batch, text, pos>>
      BY <1>6, <2>3 DEF ExecDone
    <3> QED BY <2>1, <3>1 DEF TextInv
  <2> QED BY <2>2, <2>3
<1>7. ASSUME Return, Backed(file'), ~torn' => Settled(file') /\ Closed(file') PROVE TextInv'
  <2>1. pc' = "idle" /\ pos' = 1 /\ text' = <<>>
    BY <1>7 DEF Return
  <2>2. 1 <= Len(<<>>) + 1
    OBVIOUS
  <2> QED BY <1>7, <2>1, <2>2 DEF TextInv
<1>8. CASE Truncate
  <2>1. Return /\ file' \in {<<>>, file} /\ torn' = torn
    BY <1>8 DEF Truncate, report
  <2> QED BY <1>7, <2>1, EmptyText DEF TextInv
<1>9. CASE OutboxAppend
  <2>1. /\ Return /\ file' = Join(file, text) /\ torn' = torn
        /\ Backed(text) /\ Settled(text) /\ Closed(text)
    BY <1>9 DEF OutboxAppend, Append_, Join, TextInv
  <2>2. Backed(file') /\ (~torn' => Settled(file') /\ Closed(file'))
    BY <2>1, JoinKeeps DEF TypeOK, TextInv
  <2> QED BY <1>7, <2>1, <2>2
<1>10. CASE OutboxNotOpened
  BY <1>7, <1>10 DEF OutboxNotOpened, TextInv
<1>11. CASE OutboxTorn
  <2>1. PICK c \in TornText(text) : file' = file \o c
    BY <1>11 DEF OutboxTorn, Append_
  <2>2. Backed(file')
    BY <1>11, <2>1, TornFile DEF OutboxTorn, TextInv
  <2> QED BY <1>7, <1>11, <2>2 DEF OutboxTorn
<1>12. CASE WaitForBatch
  BY <1>12 DEF WaitForBatch, TextInv, vars, report
<1>13. CASE Crash
  <2>1. Backed(file') /\ (~torn' => Settled(file') /\ Closed(file'))
    <3>1. CASE UNCHANGED <<file, torn>>
      BY <3>1 DEF TextInv
    <3>2. CASE pc = "append" /\ (\E c \in TornText(text) : file' = file \o c) /\ torn' = TRUE
      BY <3>2, TornFile DEF TextInv
    <3> QED BY <1>13, <3>1, <3>2 DEF Crash, Append_
  <2>2. pc' = "down" /\ pos' = 1 /\ text' = <<>>
    BY <1>13 DEF Crash
  <2>3. 1 <= Len(<<>>) + 1
    OBVIOUS
  <2> QED BY <2>1, <2>2, <2>3 DEF TextInv
<1> QED BY <1>1, <1>2, <1>3, <1>4, <1>5, <1>6, <1>8, <1>9, <1>10, <1>11, <1>12, <1>13
        DEF Next, Execute, Outbox
LEMMA TablesStep ==
  ASSUME Inv, Next, TypeOK' PROVE RowsInv' /\ AggInv'
<1> USE DEF Inv
<1>1. CASE Start
  BY <1>1, Quiet DEF Start, Running, report
<1>2. CASE ReplayBegin
  BY <1>2, Quiet DEF ReplayBegin, Running, report
<1>3. ASSUME NEW s \in Batches, FlushBegin(s) PROVE RowsInv' /\ AggInv'
  BY <1>3, Quiet DEF FlushBegin, Running, report
<1>4. CASE ExecBegin
  BY <1>4, BeginStep
<1>5. CASE ExecInsert
  BY <1>5, InsertStep
<1>6. Running => Backed(text) /\ (~torn => Settled(text) /\ Closed(text))
  BY DEF TextInv, Running
<1>7. CASE ExecUpsert
  <2>1. Running
    BY <1>7, Reached DEF ExecUpsert
  <2> QED BY <1>6, <1>7, <2>1, UpsertStep
<1>8. CASE ExecCommit
  <2>1. Running
    BY <1>8, Reached DEF ExecCommit
  <2> QED BY <1>6, <1>8, <2>1, CommitStep
<1>9. CASE StatementRefused \/ ConnectionLost
  <2>1. ExecFailed
    BY <1>9 DEF StatementRefused, ConnectionLost
  <2>2. Rollback /\ torn' = torn /\ pc' \in {"append", "idle"}
    BY <2>1 DEF ExecFailed, Return, report
  <2> QED BY <2>2, RolledBack DEF Running
<1>10. CASE ExecDone
  <2>1. Running
    BY <1>10 DEF ExecDone, Executing, Running
  <2> QED BY <1>6, <1>10, <2>1, DoneStep DEF TextInv
<1>11. CASE Truncate
  BY <1>11, Quiet DEF Truncate, Return, Running, report
<1>12. CASE OutboxAppend
  BY <1>12, Quiet DEF OutboxAppend, Return, Running
<1>13. CASE OutboxNotOpened
  BY <1>13, Quiet DEF OutboxNotOpened, Return, Running
<1>14. CASE OutboxTorn
  BY <1>14, Quiet DEF OutboxTorn, Return, Running
<1>15. CASE WaitForBatch
  BY <1>15, Quiet DEF WaitForBatch, Running, vars, report
<1>16. CASE Crash
  <2>1. Rollback /\ pc' = "down" /\ (torn => torn')
    BY <1>16 DEF Crash
  <2> QED BY <2>1, RolledBack DEF Running
<1> QED BY <1>1, <1>2, <1>3, <1>4, <1>5, <1>7, <1>8, <1>9, <1>10, <1>11, <1>12, <1>13,
           <1>14, <1>15, <1>16 DEF Next, Execute, Outbox

LEMMA KeptStep ==
  ASSUME Inv, Next PROVE KeptInv'
<1> USE DEF Inv
<1>1. ASSUME raw \subseteq raw', file' = file, acked' = acked, torn' = torn, pc' # "truncate"
      PROVE  KeptInv'
  BY <1>1 DEF KeptInv, AckedKept
<1>2. raw \subseteq raw
  OBVIOUS
<1>3. CASE Start
  BY <1>1, <1>2, <1>3 DEF Start, tables, report
<1>4. CASE ReplayBegin
  BY <1>1, <1>2, <1>4 DEF ReplayBegin, tables, report
<1>5. ASSUME NEW s \in Batches, FlushBegin(s) PROVE KeptInv'
  BY <1>1, <1>2, <1>5 DEF FlushBegin, tables, report
<1>6. CASE ExecBegin \/ ExecInsert \/ ExecUpsert
  <2>1. pc' = pc /\ pc # "truncate"
    BY <1>6 DEF ExecBegin, ExecInsert, ExecUpsert, NextIs, Executing
  <2> QED BY <1>1, <1>2, <1>6, <2>1 DEF ExecBegin, ExecInsert, ExecUpsert, tables, report
<1>7. CASE ExecCommit
  <2>1. pc' = pc /\ pc # "truncate" /\ raw' = wraw
    BY <1>7 DEF ExecCommit, NextIs, Executing
  <2> QED BY <1>1, <1>7, <2>1 DEF ExecCommit, RowsInv, report
<1>8. CASE StatementRefused \/ ConnectionLost
  <2>1. ExecFailed
    BY <1>8 DEF StatementRefused, ConnectionLost
  <2>2. pc' \in {"append", "idle"}
    BY <2>1 DEF ExecFailed, Return
  <2> QED BY <1>1, <1>2, <2>1, <2>2 DEF ExecFailed, Rollback, report
<1>9. CASE ExecDone
  <2>1. Running /\ pos <= Len(text) + 1 /\ (~torn => Settled(text) /\ Closed(text))
    BY <1>9 DEF ExecDone, Executing, Running, TextInv
  <2>2. TypeOK'
    BY TypeStep
  <2>3. ~torn => IdsOf(text) \subseteq raw
    BY <1>9, <2>1, <2>2, DoneStep
  <2>4. raw' = raw /\ file' = file /\ torn' = torn
    BY <1>9 DEF ExecDone, EndOfText, Rollback, tables
  <2>5. CASE pc = "flush"
    <3>1. acked' = acked \cup Range(batch) /\ pc' = "idle"
      BY <1>9, <2>5 DEF ExecDone, Return
    <3>2. Range(batch) = IdsOf(text)
      BY <2>5 DEF TextInv
    <3> QED BY <2>3, <2>4, <3>1, <3>2 DEF KeptInv, AckedKept
  <2>6. CASE pc = "replay"
    <3>1. acked' = acked
      BY <1>9, <2>6 DEF ExecDone
    <3>2. text = file
      BY <2>6 DEF TextInv
    <3> QED BY <2>3, <2>4, <3>1, <3>2 DEF KeptInv, AckedKept
  <2> QED BY <2>1, <2>5, <2>6 DEF Running
<1>10. CASE Truncate
  <2>1. /\ raw' = raw /\ file' \in {<<>>, file} /\ acked' = acked /\ torn' = torn
        /\ pc = "truncate" /\ pc' = "idle"
    BY <1>10 DEF Truncate, Return, tables, report
  <2>2. ~torn => acked \subseteq raw
    BY <2>1 DEF KeptInv, AckedKept
  <2> QED BY <2>1, <2>2 DEF KeptInv, AckedKept
<1>11. CASE OutboxAppend
  <2>1. /\ raw' = raw /\ torn' = torn /\ pc = "append" /\ pc' = "idle"
        /\ file' = Join(file, text) /\ acked' = acked \cup Range(batch)
    BY <1>11 DEF OutboxAppend, Append_, Join, Return, tables
  <2>2. Range(batch) = IdsOf(text)
    BY <2>1 DEF TextInv
  <2>3. IdsOf(file') = IdsOf(file) \cup IdsOf(text)
    BY <2>1, JoinKeeps DEF TypeOK
  <2> QED BY <2>1, <2>2, <2>3 DEF KeptInv, AckedKept
<1>12. CASE OutboxNotOpened
  BY <1>1, <1>2, <1>12 DEF OutboxNotOpened, Return, tables
<1>13. CASE OutboxTorn
  BY <1>13 DEF OutboxTorn, KeptInv, AckedKept
<1>14. CASE WaitForBatch
  BY <1>14 DEF WaitForBatch, KeptInv, AckedKept, vars, tables, report
<1>15. CASE Crash
  <2>1. raw' = raw /\ acked' = acked /\ pc' = "down"
    BY <1>15 DEF Crash, Rollback
  <2>2. UNCHANGED <<file, torn>> \/ torn' = TRUE
    BY <1>15 DEF Crash
  <2> QED BY <1>1, <1>2, <2>1, <2>2 DEF KeptInv, AckedKept
<1> QED BY <1>3, <1>4, <1>5, <1>6, <1>7, <1>8, <1>9, <1>10, <1>11, <1>12, <1>13, <1>14,
           <1>15 DEF Next, Execute, Outbox

LEMMA Unchanged ==
  ASSUME Inv, UNCHANGED vars PROVE Inv'
<1>1. TypeOK'
  BY DEF Inv, TypeOK, vars, tables, report
<1>2. TextInv'
  BY DEF Inv, TextInv, vars, report
<1>3. RowsInv' /\ AggInv'
  BY DEF Inv, RowsInv, AggInv, Running, Missing, vars, tables, report
<1>4. KeptInv'
  BY DEF Inv, KeptInv, AckedKept, vars, tables, report
<1> QED BY <1>1, <1>2, <1>3, <1>4 DEF Inv

(* The invariant holds, for any batches, refused statements, faults and    *)
(* restarts.                                                               *)
THEOREM Invariant == Spec => []Inv
<1>1. Inv /\ [Next]_vars => Inv'
  <2>1. ASSUME Inv, Next PROVE Inv'
    BY <2>1, TypeStep, TextStep, TablesStep, KeptStep DEF Inv
  <2> QED BY <2>1, Unchanged
<1> QED BY InitInv, <1>1, PTL DEF Spec

(* The variables of the store, the server and the file keep their types,   *)
(* through crashes, refusals and torn writes.                              *)
THEOREM TypeCorrect == Spec => []TypeOK
<1>1. Inv => TypeOK
  BY DEF Inv
<1> QED BY Invariant, <1>1, PTL

(* flushBatch and replayOutboxIfPresent keep what they reported as         *)
(* flushed, as long as no write to the outbox stopped half way.            *)
THEOREM FlushedIsKept == Spec => []AckedKept
<1>1. Inv => AckedKept
  BY DEF Inv, KeptInv
<1> QED BY Invariant, <1>1, PTL

(* The upserts never let the aggregates contradict the raw rows, through   *)
(* replays, rollbacks and torn outboxes.                                   *)
THEOREM AggregatesAgree == Spec => []AggregatesObserved
<1>1. Inv => AggregatesObserved
  <2> SUFFICES ASSUME Inv, NEW b \in Buckets
               PROVE  Observed(b) /\ (~torn => ExtremesMatch(b))
    BY DEF AggregatesObserved
  <2> DEFINE B == InBucket(raw, b)
             row == agg[b]
  <2>1. Summary(row, b, raw, IF torn THEN Ids ELSE {}) /\ row \in Row /\ B \in SUBSET Ids
    BY DEF Inv, AggInv, TypeOK, InBucket
  <2>2. PICK M \in SUBSET B : B \ (IF torn THEN Ids ELSE {}) \subseteq M /\ Extremes(row, M)
    BY <2>1 DEF Summary
  <2>3. row.count <= Cardinality(B)
    BY <2>1 DEF Summary
  <2>4. RawTemps(b) = Temps(B) /\ Temps(B) \in SUBSET Int /\ Temps(M) \subseteq Temps(B)
    BY <2>1, TempsParts DEF RawTemps, Temps
  <2>5. row.lo \in Int /\ row.hi \in Int
    BY <2>1 DEF Row
  <2>6. ASSUME row # NoRow PROVE row.lo \in Temps(M) /\ row.hi \in Temps(M)
    BY <2>2, <2>6 DEF Extremes, IsMin, IsMax
  <2>7. Observed(b)
    BY <2>3, <2>4, <2>6 DEF Observed
  <2>8. ASSUME ~torn PROVE ExtremesMatch(b)
    <3>1. M = B
      BY <2>2, <2>8
    <3>2. CASE B = {}
      BY <2>2, <3>1, <3>2 DEF ExtremesMatch, Extremes
    <3>3. CASE B # {}
      <4>1. IsMin(row.lo, Temps(B)) /\ IsMax(row.hi, Temps(B))
        BY <2>2, <3>1, <3>3 DEF Extremes
      <4>2. Min(Temps(B)) = row.lo /\ Max(Temps(B)) = row.hi
        BY <2>4, <2>5, <4>1, MinMax
      <4> QED BY <2>4, <3>3, <4>2 DEF ExtremesMatch
    <3> QED BY <3>2, <3>3
  <2> QED BY <2>7, <2>8
<1> QED BY Invariant, <1>1, PTL

-----------------------------------------------------------------------------
(* The database and its outbox implement BatchLog: a COMMIT stores a batch *)
(* as a whole, an append defers one, and a truncation discards what is     *)
(* stored; only a torn write damages the backlog.                          *)

LEMMA LogStep ==
  ASSUME Inv, Inv', Next
  PROVE  [Log!Next]_(<<raw, IdsOf(file), torn>>)
<1> USE DEF Inv
<1> DEFINE Sets == {Range(s) : s \in Batches}
<1>1. /\ raw' \in SUBSET Ids /\ IdsOf(file)' \in SUBSET Ids /\ torn' \in BOOLEAN
      /\ torn \in BOOLEAN
  <2>1. IdsOf(file') \subseteq Ids
    <3>1. file' \in Seq(Statement) /\ Len(file') + 1 \in Nat
      BY DEF TypeOK
    <3> QED BY <3>1, IdsOfText, Positions
  <2> QED BY <2>1 DEF TypeOK
<1>2. CASE torn'
  BY <1>1, <1>2 DEF Log!Next, Log!Damage
<1>3. CASE ~torn'
  <2>1. ASSUME raw' = raw, file' = file, torn' = torn
        PROVE  UNCHANGED <<raw, IdsOf(file), torn>>
    BY <2>1
  <2>2. CASE Start \/ ReplayBegin \/ WaitForBatch \/ (\E s \in Batches : FlushBegin(s))
    BY <2>1, <2>2 DEF Start, ReplayBegin, WaitForBatch, FlushBegin, tables, report, vars
  <2>3. CASE ExecBegin \/ ExecInsert \/ ExecUpsert
    BY <2>1, <2>3 DEF ExecBegin, ExecInsert, ExecUpsert, tables, report
  <2>4. CASE ExecCommit
    <3>1. /\ Running /\ pos \in DOMAIN text /\ text[pos].op = "commit"
          /\ raw' = wraw /\ file' = file /\ torn' = torn
      BY <2>4, Reached DEF ExecCommit, report
    <3>2. Settled(text) /\ ~torn
      BY <1>3, <3>1 DEF TextInv, Running
    <3>3. PICK s \in Batches : InTransaction(text, pos) = Range(s)
      BY <3>1, <3>2 DEF Settled
    <3>4. raw' = raw \cup Range(s) /\ Range(s) \in Sets
      BY <3>1, <3>2, <3>3 DEF RowsInv
    <3>5. Log!Store(Range(s))
      BY <3>1, <3>4 DEF Log!Store
    <3> QED BY <3>4, <3>5 DEF Log!Next
  <2>5. CASE StatementRefused \/ ConnectionLost
    BY <2>1, <2>5 DEF StatementRefused, ConnectionLost, ExecFailed, Rollback, report
  <2>6. CASE ExecDone
    BY <2>1, <2>6 DEF ExecDone, EndOfText, Rollback, tables
  <2>7. CASE Truncate
    <3>1. /\ raw' = raw /\ file' \in {<<>>, file} /\ torn' = torn /\ pc = "truncate"
      BY <2>7 DEF Truncate, tables, report
    <3>2. CASE file' = file
      BY <2>1, <3>1, <3>2
    <3>3. CASE file' = <<>>
      <4>1. IdsOf(file) \subseteq raw
        BY <1>3, <3>1 DEF KeptInv
      <4>2. IdsOf(file)' = {}
        BY <3>3, EmptyText
      <4> QED BY <3>1, <4>1, <4>2 DEF Log!Next, Log!Discard
    <3> QED BY <3>1, <3>2, <3>3
  <2>8. CASE OutboxAppend
    <3>1. /\ raw' = raw /\ torn' = torn /\ pc = "append" /\ file' = Join(file, text)
      BY <2>8 DEF OutboxAppend, Append_, Join, tables
    <3>2. IdsOf(text) = Range(batch) /\ Range(batch) \in Sets
      BY <3>1 DEF TextInv
    <3>3. IdsOf(file') = IdsOf(file) \cup Range(batch)
      BY <3>1, <3>2, JoinKeeps DEF TypeOK
    <3>4. Log!Defer(Range(batch))
      BY <3>1, <3>3 DEF Log!Defer
    <3> QED BY <3>2, <3>4 DEF Log!Next
  <2>9. CASE OutboxNotOpened
    BY <2>1, <2>9 DEF OutboxNotOpened, tables
  <2>10. CASE OutboxTorn
    BY <1>3, <2>10 DEF OutboxTorn
  <2>11. CASE Crash
    BY <1>3, <2>1, <2>11 DEF Crash, Rollback
  <2> QED BY <2>2, <2>3, <2>4, <2>5, <2>6, <2>7, <2>8, <2>9, <2>10, <2>11
          DEF Next, Execute, Outbox
<1> QED BY <1>1, <1>2, <1>3

(* A batch is stored as a whole or not at all, one the database has not    *)
(* taken waits in the outbox, and the outbox is truncated only when all of *)
(* it is stored.                                                           *)
THEOREM StoreImplementsLog == Spec => ImplementsLog
<1>1. Init => Log!Init
  BY EmptyText DEF Init, Log!Init
<1>2. Inv /\ Inv' /\ [Next]_vars => [Log!Next]_(<<raw, IdsOf(file), torn>>)
  <2>1. ASSUME UNCHANGED vars PROVE UNCHANGED <<raw, IdsOf(file), torn>>
    BY <2>1 DEF vars, tables, report
  <2> QED BY <2>1, LogStep
<1> QED BY <1>1, <1>2, Invariant, PTL DEF Spec, ImplementsLog, Log!Spec
=============================================================================
