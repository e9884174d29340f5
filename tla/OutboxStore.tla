----------------------------- MODULE OutboxStore -----------------------------
(***************************************************************************)
(* TimescaleBatchWriter::flushBatch and replayOutboxIfPresent over         *)
(* TimescaleDbClient, the PostgreSQL server and the outbox file, with      *)
(* crashes and restarts of the process, connections that break at any      *)
(* statement, statements the server refuses, and outbox writes that stop   *)
(* half way.  The client exists in two builds: with libpq it keeps one     *)
(* connection, without it every text is piped into a psql of its own.      *)
(*                                                                         *)
(* A text of SQL is a sequence of statements.  The server executes one     *)
(* statement per step, so a fault can fall between any two of them; what   *)
(* it does after its client is gone counts as done before.  The rows are   *)
(* abstracted to ids, the city-minute aggregates to the batch they were    *)
(* last written from, a count and the two extremes of the temperature: the *)
(* tile and route rows are upserted in the same two ways.                  *)
(***************************************************************************)
EXTENDS Integers, Sequences, FiniteSets, Functions, FiniteSetsExt

CONSTANTS Ids,         \* message ids
          NumBuckets,  \* number of (minute, city) buckets
          BucketOf,    \* minuteBucket and place of an observation
          Temp,        \* temperature of an observation
          Poison,      \* ids whose INSERT the server refuses: timestamp and
                       \* created_at are not validated, and to_timestamp
                       \* refuses one that is out of its range
          Batches,     \* the batches flushBatch may be handed
          MaxFlushes,  \* model bound: batches in one behaviour
          MaxCrashes   \* model bound: restarts in one behaviour

Buckets == 1..NumBuckets

ASSUME StoreAssumption ==
  /\ NumBuckets \in Nat
  /\ BucketOf \in [Ids -> Buckets]
  /\ Temp \in [Ids -> Int]
  /\ Poison \subseteq Ids
  /\ Batches \subseteq Seq(Ids) \ {<<>>}
  /\ MaxFlushes \in Nat /\ MaxCrashes \in Nat

\* No batch holds an id twice (TimescaleWriter, NoDoubleCount).
ASSUME DistinctAssumption ==
  \A s \in Batches : \A i, j \in DOMAIN s : s[i] = s[j] => i = j

VARIABLES
  libpq,    \* which build: constant
  pc,       \* where the batch thread is; "down" when the process is not there
  conn,     \* isConnected(): never restored while the process lives
  batch,    \* the batch inside flushBatch
  text,     \* the SQL given to executeBatch
  pos,      \* the next statement of it
  raw, agg, \* the committed tables
  wraw, wagg, \* the tables as the server's open transaction sees them
  file,     \* the outbox file
  acked,    \* ids flushBatch has reported as flushed
  lost,     \* ids it has reported as not written (outbox not opened)
  torn,     \* has a write to the outbox ever stopped half way?
  flushes, crashes

tables == <<raw, agg, wraw, wagg>>
report == <<acked, lost, torn>>
vars == <<libpq, pc, conn, batch, text, pos, tables, file, report, flushes,
          crashes>>

-----------------------------------------------------------------------------
(* Statements                                                              *)

Begin        == [op |-> "begin"]
Commit       == [op |-> "commit"]
Garbage      == [op |-> "garbage"]     \* a statement cut in the middle
Insert(id)   == [op |-> "raw", id |-> id]
Upsert(n, b, S) == [op |-> "agg", n |-> n, bucket |-> b, ids |-> S]

InBucket(S, b) == {id \in S : BucketOf[id] = b}

(* buildBatchSql.  A bucket the batch does not touch has no statement: here *)
(* an upsert of no rows, which changes nothing.                            *)
BatchSql(n, s) ==
  <<Begin>>
    \o [i \in 1..Len(s) |-> Insert(s[i])]
    \o [b \in Buckets |-> Upsert(n, b, InBucket(Range(s), b))]
    \o <<Commit>>

IdsOf(t) == {t[i].id : i \in {j \in DOMAIN t : t[j].op = "raw"}}

(* PQexec hands over the text, and the server parses all of it before it   *)
(* executes any; psql sends one statement after the other.                 *)
Parses(t) == \A i \in DOMAIN t : t[i].op # "garbage"

NoRow == [n |-> 0, count |-> 0, lo |-> 0, hi |-> 0]

RowOf(st) == [n |-> st.n, count |-> Cardinality(st.ids),
              lo |-> Min({Temp[id] : id \in st.ids}),
              hi |-> Max({Temp[id] : id \in st.ids})]

(* ON CONFLICT DO UPDATE: the extremes are merged, the rest is replaced.    *)
Merge(old, new) ==
  IF old = NoRow THEN new
  ELSE [new EXCEPT !.lo = Min({old.lo, new.lo}), !.hi = Max({old.hi, new.hi})]

Init ==
  /\ libpq \in BOOLEAN
  /\ pc = "down" /\ conn = FALSE
  /\ batch = <<>> /\ text = <<>> /\ pos = 1
  /\ raw = {} /\ agg = [b \in Buckets |-> NoRow]
  /\ wraw = raw /\ wagg = agg
  /\ file = <<>>
  /\ acked = {} /\ lost = {} /\ torn = FALSE
  /\ flushes = 0 /\ crashes = 0

(* flushBatch or replayOutboxIfPresent returns; its locals are gone.       *)
Return == pc' = "idle" /\ batch' = <<>> /\ text' = <<>> /\ pos' = 1

(* The server forgets the transaction that is open, if there is one.       *)
Rollback == wraw' = raw /\ wagg' = agg /\ UNCHANGED <<raw, agg>>

-----------------------------------------------------------------------------
(* connect and tryConnect: PQconnectdb, or a psql that runs "select 1".    *)
Connect == conn' \in BOOLEAN

(* The process starts: the client's constructor tries its connection       *)
(* strings, and is what it is from then on.                                *)
Start ==
  /\ pc = "down"
  /\ Connect
  /\ pc' = "started"
  /\ UNCHANGED <<libpq, batch, text, pos, tables, file, report, flushes, crashes>>

(* run() looks at the outbox, but only when the backend is the database.   *)
(* A file that cannot be opened is left as it is until the next start.     *)
ReplayBegin ==
  /\ pc = "started"
  /\ text' \in IF conn THEN {file, <<>>} ELSE {<<>>}
  /\ pos' = 1
  /\ pc' = IF text' # <<>> THEN "replay" ELSE "idle"
  /\ UNCHANGED <<libpq, conn, batch, tables, file, report, flushes, crashes>>

(* flushBatch builds the text; executeBatch refuses it without a connection.*)
FlushBegin(s) ==
  /\ pc = "idle"
  /\ flushes < MaxFlushes
  /\ flushes' = flushes + 1
  /\ batch' = s
  /\ text' = BatchSql(flushes + 1, s)
  /\ pos' = 1
  /\ pc' = IF conn THEN "flush" ELSE "append"
  /\ UNCHANGED <<libpq, conn, tables, file, report, crashes>>

-----------------------------------------------------------------------------
(* executeBatch, one statement of the text at a time.                      *)

Executing == pc \in {"replay", "flush"} /\ (libpq => Parses(text))

NextIs(op) == Executing /\ pos \in DOMAIN text /\ text[pos].op = op

(* BEGIN inside a transaction is only a warning: nothing else changes.     *)
ExecBegin ==
  /\ NextIs("begin")
  /\ pos' = pos + 1
  /\ UNCHANGED <<libpq, pc, conn, batch, text, tables, file, report, flushes, crashes>>

(* Mutant: the text has no BEGIN, every INSERT is committed on its own.     *)
MutAutocommit ==
  /\ NextIs("raw")
  /\ text[pos].id \notin Poison
  /\ wraw' = wraw \cup {text[pos].id}
  /\ raw' = raw \cup {text[pos].id}
  /\ pos' = pos + 1
  /\ UNCHANGED <<libpq, pc, conn, batch, text, agg, wagg, file, report,
                 flushes, crashes>>

(* ON CONFLICT (message_id) DO NOTHING                                      *)
ExecInsert ==
  /\ NextIs("raw")
  /\ text[pos].id \notin Poison
  /\ wraw' = wraw \cup {text[pos].id}
  /\ pos' = pos + 1
  /\ UNCHANGED <<libpq, pc, conn, batch, text, raw, agg, wagg, file, report,
                 flushes, crashes>>

(* Mutant: the extremes of the latest batch replace the merged ones.       *)
MutReplaceExtremes ==
  /\ NextIs("agg")
  /\ wagg' = IF text[pos].ids = {} THEN wagg
             ELSE [wagg EXCEPT ![text[pos].bucket] = RowOf(text[pos])]
  /\ pos' = pos + 1
  /\ UNCHANGED <<libpq, pc, conn, batch, text, raw, agg, wraw, file, report,
                 flushes, crashes>>

ExecUpsert ==
  /\ NextIs("agg")
  /\ wagg' = IF text[pos].ids = {} THEN wagg
             ELSE [wagg EXCEPT ![text[pos].bucket] = Merge(@, RowOf(text[pos]))]
  /\ pos' = pos + 1
  /\ UNCHANGED <<libpq, pc, conn, batch, text, raw, agg, wraw, file, report,
                 flushes, crashes>>

ExecCommit ==
  /\ NextIs("commit")
  /\ raw' = wraw /\ agg' = wagg
  /\ pos' = pos + 1
  /\ UNCHANGED <<libpq, pc, conn, batch, text, wraw, wagg, file, report, flushes,
                 crashes>>

(* The text fails: a flush falls back to the outbox, a replay leaves it.   *)
ExecFailed ==
  /\ IF pc = "flush" THEN pc' = "append" /\ pos' = 1 /\ UNCHANGED <<batch, text>>
                     ELSE Return
  /\ Rollback
  /\ UNCHANGED <<libpq, file, report, flushes, crashes>>

(* The server refuses a statement it has reached, or all of the text.      *)
Refused ==
  \/ NextIs("raw") /\ text[pos].id \in Poison
  \/ NextIs("garbage")
  \/ pc \in {"replay", "flush"} /\ libpq /\ ~Parses(text)

(* Mutant: replayOutboxIfPresent truncates whatever executeBatch answers.   *)
MutTruncateAnyway ==
  /\ Refused
  /\ pc' = IF pc = "flush" THEN "append" ELSE "truncate"
  /\ Rollback
  /\ UNCHANGED <<libpq, conn, batch, text, pos, file, report, flushes, crashes>>

(* rollback() follows, or psql ends (ON_ERROR_STOP) with its connection.   *)
StatementRefused ==
  /\ Refused
  /\ ExecFailed
  /\ UNCHANGED conn

(* The connection breaks before, between or after the statements; after    *)
(* the last one the server has committed and the client does not know.     *)
(* The next text gets a psql and a connection of its own.                  *)
ConnectionLost ==
  /\ pc \in {"replay", "flush"}
  /\ ExecFailed
  /\ conn' = ~libpq

(* Behind the last statement libpq keeps the connection, and a transaction *)
(* that is still open with it; a psql that ends closes its connection.     *)
EndOfText == IF libpq THEN UNCHANGED tables ELSE Rollback

ExecDone ==
  /\ Executing
  /\ pos > Len(text)
  /\ IF pc = "flush"
     THEN Return /\ acked' = acked \cup Range(batch)
     ELSE pc' = "truncate" /\ UNCHANGED <<batch, text, pos, acked>>
  /\ EndOfText
  /\ UNCHANGED <<libpq, conn, file, lost, torn, flushes, crashes>>

-----------------------------------------------------------------------------
(* The outbox file.                                                        *)

(* Opening with ios::trunc empties the file, unless the open fails.        *)
Truncate ==
  /\ pc = "truncate"
  /\ Return
  /\ file' \in {<<>>, file}
  /\ UNCHANGED <<libpq, conn, tables, report, flushes, crashes>>

Append_(t) == file' = file \o t

(* What a write that stops half way leaves: some statements, and perhaps   *)
(* the beginning of the next one.                                          *)
TornText(t) ==
  LET cuts == {SubSeq(t, 1, k) : k \in 0..(Len(t) - 1)}
  IN cuts \cup {c \o <<Garbage>> : c \in cuts}

OutboxAppend ==
  /\ pc = "append"
  /\ Append_(text)
  /\ acked' = acked \cup Range(batch)
  /\ Return
  /\ UNCHANGED <<libpq, conn, tables, lost, torn, flushes, crashes>>

OutboxNotOpened ==
  /\ pc = "append"
  /\ lost' = lost \cup Range(batch)
  /\ Return
  /\ UNCHANGED <<libpq, conn, tables, file, acked, torn, flushes, crashes>>

(* The disk is full: nobody looks at the state of the stream.              *)
OutboxTorn ==
  /\ pc = "append"
  /\ \E t \in TornText(text) : Append_(t)
  /\ torn' = TRUE
  /\ acked' = acked \cup Range(batch)
  /\ Return
  /\ UNCHANGED <<libpq, conn, tables, lost, flushes, crashes>>

-----------------------------------------------------------------------------
(* The process is killed, or ends: what it holds in memory is gone and the *)
(* server rolls back.  Without libpq a SIGPIPE does it, when psql ends     *)
(* before it has read its text.                                            *)
Crash ==
  /\ pc # "down"
  /\ crashes < MaxCrashes
  /\ crashes' = crashes + 1
  /\ pc' = "down" /\ conn' = FALSE
  /\ batch' = <<>> /\ text' = <<>> /\ pos' = 1
  /\ Rollback
  /\ \/ UNCHANGED <<file, torn>>
     \/ /\ pc = "append"
        /\ \E t \in TornText(text) : Append_(t)
        /\ torn' = TRUE
  /\ UNCHANGED <<libpq, acked, lost, flushes>>

(* The batch thread waits for a batch: its wait times out again and again. *)
WaitForBatch == pc = "idle" /\ UNCHANGED vars

Execute ==
  \/ ExecBegin
  \/ ExecInsert
  \/ ExecUpsert
  \/ ExecCommit
  \/ StatementRefused
  \/ ConnectionLost
  \/ ExecDone

Outbox ==
  \/ Truncate
  \/ OutboxAppend
  \/ OutboxNotOpened
  \/ OutboxTorn

Next ==
  \/ Start \/ ReplayBegin
  \/ \E s \in Batches : FlushBegin(s)
  \/ Execute
  \/ Outbox
  \/ WaitForBatch
  \/ Crash

Spec == Init /\ [][Next]_vars

-----------------------------------------------------------------------------
Statement ==
  [op : {"begin", "commit", "garbage"}]
    \cup [op : {"raw"}, id : Ids]
    \cup [op : {"agg"}, n : Nat, bucket : Buckets, ids : SUBSET Ids]
Row == [n : Nat, count : Nat, lo : Int, hi : Int]

TypeOK ==
  /\ libpq \in BOOLEAN
  /\ pc \in {"down", "started", "replay", "idle", "flush", "append", "truncate"}
  /\ conn \in BOOLEAN
  /\ batch \in Seq(Ids)
  /\ text \in Seq(Statement)
  /\ pos \in Nat \ {0}
  /\ raw \subseteq Ids /\ wraw \subseteq Ids
  /\ agg \in [Buckets -> Row] /\ wagg \in [Buckets -> Row]
  /\ file \in Seq(Statement)
  /\ acked \subseteq Ids /\ lost \subseteq Ids /\ torn \in BOOLEAN
  /\ flushes \in 0..MaxFlushes /\ crashes \in 0..MaxCrashes

(* While no write to the outbox stopped half way, a batch that was reported *)
(* as flushed is never lost, through crashes and replays: its rows are      *)
(* committed or its text is still in the outbox ("outbox fallback for data  *)
(* durability").                                                            *)
AckedKept == ~torn => acked \subseteq raw \cup IdsOf(file)

(* The aggregate table never contradicts the source of truth: the extremes *)
(* of a bucket are those of its raw rows, however often an outbox is       *)
(* replayed and whatever is committed meanwhile.  Even after a torn write  *)
(* an extreme was measured, and a count does not exceed the rows.          *)
RawTemps(b) == {Temp[id] : id \in InBucket(raw, b)}
ExtremesMatch(b) ==
  IF InBucket(raw, b) = {} THEN agg[b] = NoRow
  ELSE agg[b].lo = Min(RawTemps(b)) /\ agg[b].hi = Max(RawTemps(b))
Observed(b) ==
  agg[b] # NoRow =>
    /\ agg[b].lo \in RawTemps(b)
    /\ agg[b].hi \in RawTemps(b)
    /\ agg[b].count <= Cardinality(InBucket(raw, b))
AggregatesObserved ==
  \A b \in Buckets : Observed(b) /\ (~torn => ExtremesMatch(b))

(* Truncating, replaying and appending together never lose or split a      *)
(* batch: the store implements BatchLog.                                   *)
Log == INSTANCE BatchLog WITH table <- raw, backlog <- IdsOf(file),
                              damaged <- torn,
                              Batches <- {Range(s) : s \in Batches}
ImplementsLog == Log!Spec

=============================================================================
