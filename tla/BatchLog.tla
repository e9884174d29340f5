------------------------------ MODULE BatchLog ------------------------------
(***************************************************************************)
(* What the database client and the outbox file promise together to the   *)
(* batch thread of timescale_writer, whatever connections and restarts do: *)
(* a batch becomes visible in the table as a whole or not at all, a batch  *)
(* the database has not taken waits in the backlog, and the backlog is     *)
(* discarded only when all of it is visible.  Nothing is promised once a   *)
(* write to the backlog has been damaged.                                  *)
(***************************************************************************)
CONSTANT Ids, Batches   \* message ids; the sets of ids one flush may carry

VARIABLES table,        \* ids of the rows of weather_observations_raw
          backlog,      \* ids that wait in the outbox file
          damaged       \* has a write to the outbox stopped half way?

Init == table = {} /\ backlog = {} /\ damaged = FALSE

(* The database commits a batch, when it is flushed or when it is replayed *)
(* from the backlog: the client cannot always tell that it did.            *)
Store(S) == table' = table \cup S /\ UNCHANGED <<backlog, damaged>>

Defer(S) == backlog' = backlog \cup S /\ UNCHANGED <<table, damaged>>

Discard ==
  /\ backlog \subseteq table
  /\ backlog' = {}
  /\ UNCHANGED <<table, damaged>>

Damage ==
  /\ damaged' = TRUE
  /\ table' \in SUBSET Ids /\ backlog' \in SUBSET Ids

Next ==
  \/ \E S \in Batches : Store(S) \/ Defer(S)
  \/ Discard
  \/ Damage

Spec == Init /\ [][Next]_<<table, backlog, damaged>>
=============================================================================
