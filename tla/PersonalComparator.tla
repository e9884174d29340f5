-------------------------- MODULE PersonalComparator --------------------------
(***************************************************************************)
(* The personal_comparator process: the telemetry server, the real-time    *)
(* comparator and the database sync worker, three threads joined by two    *)
(* LocklessRingBuffers, and main, which waits for the server.              *)
(*                                                                         *)
(* The rings are the FIFOs that the proofs show SpscRing to implement.     *)
(* The comparison is abstracted to its verdict: whether the reading is     *)
(* further from the baseline of its hour than the threshold.               *)
(***************************************************************************)
EXTENDS Naturals, Sequences, FiniteSets

CONSTANTS RingBound,  \* items a ring holds: 2048 - 1
          Readings,   \* [at, exceeds]: its timestamp in milliseconds, and
                      \* whether it is beyond the threshold of its hour
          MaxEvents   \* model bound: telemetry events in one behaviour

ASSUME ComparatorAssumption ==
  /\ RingBound \in Nat \ {0}
  /\ MaxEvents \in Nat
  /\ Readings \subseteq [at : Nat, exceeds : BOOLEAN]

VARIABLES
  running,    \* cleared by main when the server thread has ended
  mpc,        \* main: joining the server, the comparator, the worker
  spc,        \* telemetry server
  arrived,    \* events parsed by the server so far
  ingest,     \* ingestQueue
  overflowed, \* events dropped because ingestQueue was full
  rpc,        \* comparator
  record,     \* the record it is pushing
  actuated,   \* events the actuator was triggered for, in order
  sync,       \* syncQueue
  dpc,        \* sync worker
  row,        \* the record it is inserting
  link,       \* its connection: "up" or "broken" (libpq), or "psql" (a process
              \* for each INSERT, whose output and status are thrown away)
  table,      \* personal_realtime_comparisons, in the order of insertion
  refused,    \* events whose INSERT failed or met a row of the same time
  reported    \* those of them that a message was written for

server == <<spc, arrived, overflowed>>
comparator == <<rpc, record, actuated>>
worker == <<dpc, row, link, table, refused, reported>>
vars == <<running, mpc, server, ingest, comparator, sync, worker>>

-----------------------------------------------------------------------------
(* An event: its position among the arrivals and its reading.              *)
Event == {[n |-> n, at |-> r.at, exceeds |-> r.exceeds] :
            n \in 1..MaxEvents, r \in Readings}

Init ==
  /\ running = TRUE /\ mpc = "joinServer"
  /\ spc = "setup" /\ arrived = 0 /\ overflowed = {}
  /\ ingest = <<>> /\ sync = <<>>
  /\ rpc = "loop" /\ record = <<>> /\ actuated = <<>>
  /\ dpc = "loop" /\ row = <<>> /\ table = <<>>
  /\ refused = {} /\ reported = {}
  /\ link \in {"up", "psql"}

-----------------------------------------------------------------------------
(* runTelemetryServer: one client at a time.  Nothing but a failed setup   *)
(* ends the thread: `running' is only cleared after it.                    *)

ServerSetup ==
  /\ spc = "setup"
  /\ spc' \in {"poll", "done"}
  /\ UNCHANGED <<running, mpc, arrived, overflowed, ingest, comparator, sync,
                 worker>>

ServerAccept ==
  /\ spc = "poll"
  /\ spc' = IF running THEN "recv" ELSE "done"
  /\ UNCHANGED <<running, mpc, arrived, overflowed, ingest, comparator, sync,
                 worker>>

ServerDisconnect ==
  /\ spc = "recv"
  /\ spc' = "poll"
  /\ UNCHANGED <<running, mpc, arrived, overflowed, ingest, comparator, sync,
                 worker>>

(* A line that parses becomes an event and is pushed; when the ring is full*)
(* it is dropped.                                                          *)
ServerLine(r) ==
  /\ spc = "recv"
  /\ arrived < MaxEvents
  /\ arrived' = arrived + 1
  /\ LET e == [n |-> arrived + 1, at |-> r.at, exceeds |-> r.exceeds]
     IN IF Len(ingest) < RingBound
        THEN ingest' = Append(ingest, e) /\ UNCHANGED overflowed
        ELSE overflowed' = overflowed \cup {e} /\ UNCHANGED ingest
  /\ UNCHANGED <<running, mpc, spc, comparator, sync, worker>>

-----------------------------------------------------------------------------
(* runRealTimeComparator                                                   *)

(* while (running), and an empty ring: sleep 1 ms.                         *)
CompareLoop ==
  /\ rpc = "loop"
  /\ rpc' = IF running THEN "pop" ELSE "done"
  /\ UNCHANGED <<running, mpc, server, ingest, record, actuated, sync, worker>>

(* Mutant: the comparator ends on an empty ring.                           *)
MutIdleEnds ==
  /\ rpc = "pop"
  /\ ingest = <<>>
  /\ rpc' = "done"
  /\ UNCHANGED <<running, mpc, server, ingest, record, actuated, sync, worker>>

CompareIdle ==
  /\ rpc = "pop"
  /\ ingest = <<>>
  /\ rpc' = "loop"
  /\ UNCHANGED <<running, mpc, server, ingest, record, actuated, sync, worker>>

Trigger(e) == IF e.exceeds THEN Append(actuated, e) ELSE actuated

ComparePop ==
  /\ rpc = "pop"
  /\ ingest # <<>>
  /\ record' = <<Head(ingest)>>
  /\ actuated' = Trigger(Head(ingest))
  /\ ingest' = Tail(ingest)
  /\ rpc' = "push"
  /\ UNCHANGED <<running, mpc, server, sync, worker>>

(* Mutant: a record that finds syncQueue full is dropped.                  *)
MutDropWhenFull ==
  /\ rpc = "push"
  /\ sync' = IF Len(sync) < RingBound THEN sync \o record ELSE sync
  /\ record' = <<>>
  /\ rpc' = "loop"
  /\ UNCHANGED <<running, mpc, server, ingest, actuated, worker>>

(* while (!syncQueue.push(record) && running): retry while the ring is full*)
(* and the process is not stopping.                                        *)
ComparePush ==
  /\ rpc = "push"
  /\ Len(sync) < RingBound \/ ~running
  /\ sync' = IF Len(sync) < RingBound THEN sync \o record ELSE sync
  /\ record' = <<>>
  /\ rpc' = "loop"
  /\ UNCHANGED <<running, mpc, server, ingest, actuated, worker>>

-----------------------------------------------------------------------------
(* runDatabaseSyncWorker                                                   *)

SyncLoop ==
  /\ dpc = "loop"
  /\ dpc' = IF running THEN "pop" ELSE "done"
  /\ UNCHANGED <<running, mpc, server, ingest, comparator, sync, row, link,
                 table, refused, reported>>

SyncIdle ==
  /\ dpc = "pop"
  /\ sync = <<>>
  /\ dpc' = "loop"
  /\ UNCHANGED <<running, mpc, server, ingest, comparator, sync, row, link,
                 table, refused, reported>>

SyncPop ==
  /\ dpc = "pop"
  /\ sync # <<>>
  /\ row' = <<Head(sync)>>
  /\ sync' = Tail(sync)
  /\ dpc' = "insert"
  /\ UNCHANGED <<running, mpc, server, ingest, comparator, link, table, refused,
                 reported>>

Members(s) == {s[i] : i \in DOMAIN s}

(* ON CONFLICT (event_time, profile_id) DO NOTHING                         *)
Taken(at) == \E e \in Members(table) : e.at = at

Inserted == IF Taken(row[1].at) THEN table ELSE table \o row

SyncInsert ==
  /\ dpc = "insert"
  /\ link # "broken"
  /\ table' = Inserted
  /\ refused' = IF Taken(row[1].at) THEN refused \cup {row[1]} ELSE refused
  /\ row' = <<>> /\ dpc' = "loop"
  /\ UNCHANGED <<running, mpc, server, ingest, comparator, sync, link, reported>>

(* Mutant: a failed record is put back at the end of the ring.             *)
MutRetryLater ==
  /\ dpc = "insert"
  /\ link' \in {link, IF link = "up" THEN "broken" ELSE link}
  /\ sync' = Append(sync, row[1])
  /\ row' = <<>> /\ dpc' = "loop"
  /\ UNCHANGED <<running, mpc, server, ingest, comparator, table, refused, reported>>

(* Mutant: the status of PQexec is not looked at.                          *)
MutStatusIgnored ==
  /\ dpc = "insert"
  /\ link' \in {link, IF link = "up" THEN "broken" ELSE link}
  /\ refused' = refused \cup {row[1]}
  /\ row' = <<>> /\ dpc' = "loop"
  /\ UNCHANGED <<running, mpc, server, ingest, comparator, sync, table, reported>>

(* The statement or psql fails; a connection that breaks is never remade.  *)
(* Only with libpq there is a message.                                     *)
Report == reported' = IF link = "psql" THEN reported ELSE reported \cup {row[1]}

SyncFail ==
  /\ dpc = "insert"
  /\ link' \in {link, IF link = "up" THEN "broken" ELSE link}
  /\ refused' = refused \cup {row[1]} /\ Report
  /\ row' = <<>> /\ dpc' = "loop"
  /\ UNCHANGED <<running, mpc, server, ingest, comparator, sync, table>>

(* The connection breaks behind the INSERT: the row is there, its answer   *)
(* is not.                                                                 *)
SyncUnanswered ==
  /\ dpc = "insert"
  /\ link = "up" /\ link' = "broken"
  /\ table' = Inserted
  /\ refused' = refused \cup {row[1]} /\ Report
  /\ row' = <<>> /\ dpc' = "loop"
  /\ UNCHANGED <<running, mpc, server, ingest, comparator, sync>>

-----------------------------------------------------------------------------
(* main: serverThread.join(), running = false, rtThread.join(),            *)
(* dbThread.join().                                                        *)

(* Mutant: running is not cleared after the server has ended.              *)
MutKeepRunning ==
  /\ mpc = "joinServer"
  /\ spc = "done"
  /\ mpc' = "joinThreads"
  /\ UNCHANGED <<running, server, ingest, comparator, sync, worker>>

JoinServer ==
  /\ mpc = "joinServer"
  /\ spc = "done"
  /\ running' = FALSE
  /\ mpc' = "joinThreads"
  /\ UNCHANGED <<server, ingest, comparator, sync, worker>>

JoinThreads ==
  /\ mpc = "joinThreads"
  /\ rpc = "done" /\ dpc = "done"
  /\ mpc' = "exit"
  /\ UNCHANGED <<running, server, ingest, comparator, sync, worker>>

Terminated == mpc = "exit" /\ UNCHANGED vars

-----------------------------------------------------------------------------
Server ==
  \/ ServerSetup
  \/ ServerAccept
  \/ ServerDisconnect
  \/ \E r \in Readings : ServerLine(r)

Comparator == CompareLoop \/ CompareIdle \/ ComparePop \/ ComparePush

Worker == SyncLoop \/ SyncIdle \/ SyncPop \/ SyncInsert \/ SyncFail \/ SyncUnanswered

Main == JoinServer \/ JoinThreads

Next == Server \/ Comparator \/ Worker \/ Main \/ Terminated

Spec == Init /\ [][Next]_vars

(* The comparator runs under SCHED_FIFO: it is never kept from the CPU.  The*)
(* worker's INSERT returns, with a row or with an error.  The server waits *)
(* for its clients, so it has no fairness.                                 *)
FairSpec ==
  /\ Spec
  /\ WF_vars(Comparator)
  /\ WF_vars(Worker)
  /\ WF_vars(Main)

-----------------------------------------------------------------------------
TypeOK ==
  /\ running \in BOOLEAN
  /\ mpc \in {"joinServer", "joinThreads", "exit"}
  /\ spc \in {"setup", "poll", "recv", "done"}
  /\ arrived \in 0..MaxEvents
  /\ overflowed \subseteq Event
  /\ refused \subseteq Event /\ reported \subseteq refused
  /\ ingest \in Seq(Event) /\ sync \in Seq(Event) /\ table \in Seq(Event)
  /\ Len(ingest) <= RingBound /\ Len(sync) <= RingBound
  /\ rpc \in {"loop", "pop", "push", "done"}
  /\ dpc \in {"loop", "pop", "insert", "done"}
  /\ record \in Seq(Event) /\ row \in Seq(Event)
  /\ actuated \in Seq(Event)
  /\ link \in {"up", "broken", "psql"}

(* Everything between the server and the table, the oldest event first.    *)
Pipeline == table \o row \o sync \o record \o ingest

(* The two hand-overs keep the order of arrival: the table holds its rows  *)
(* in that order, and everything still on its way comes after them.        *)
ArrivalOrder ==
  \A i, j \in DOMAIN Pipeline : i < j => Pipeline[i].n < Pipeline[j].n

(* No event is lost without a trace.  Each one is on its way, in the       *)
(* table, was dropped with a message on a full ring, or left the worker    *)
(* without a row of its own; and then, over libpq, a message says so or    *)
(* the table has a row of its time.  (Over psql it may leave no trace: a   *)
(* failed INSERT is not noticed, and the property says nothing of it.)     *)
EventsKnown ==
  \A n \in 1..arrived :
    \E e \in Members(Pipeline) \cup overflowed \cup refused : e.n = n

LossTraced ==
  link # "psql" => \A e \in refused : e \in reported \/ Taken(e.at)

EveryEventAccounted == EventsKnown /\ LossTraced

(* The actuator has been triggered for exactly the events beyond the       *)
(* threshold that have left the ingest queue: none is missed because the   *)
(* database side is slow or fails, none is triggered twice.                *)
ActuatedExactly ==
  /\ \A i, j \in DOMAIN actuated : i < j => actuated[i].n < actuated[j].n
  /\ Members(actuated) =
       {e \in Members(table \o row \o sync \o record) \cup refused : e.exceeds}

(* While the worker's INSERTs return, an event that was ingested is        *)
(* compared.                                                               *)
Waiting(n) == \E i \in DOMAIN ingest : ingest[i].n = n
EventuallyCompared ==
  \A n \in 1..MaxEvents : Waiting(n) ~> ~Waiting(n)

(* When the server cannot be set up the process ends.                      *)
SetupFailureExits == spc = "done" ~> mpc = "exit"
=============================================================================
