----------------------------- MODULE MapQueryApi -----------------------------
(***************************************************************************)
(* map_query_api between the tables the writers fill and its HTTP clients: *)
(* the accept loop of the main thread, one detached thread per connection, *)
(* and TimescaleReadClient in both of its builds.  With libpq every query  *)
(* has a connection of its own; without it, every query of the process     *)
(* goes to psql through one and the same temporary file.                   *)
(*                                                                         *)
(* A transaction of a writer is one step here (OutboxStore takes the one   *)
(* of timescale_writer apart).  Of a row its key is kept, its count, the   *)
(* extremes of the temperature and the two averages of a route.  A summary *)
(* is the set of rows it summarises, a time series the set of rows its     *)
(* buckets are made of, the image of a tile the set of rows drawn on it.   *)
(***************************************************************************)
EXTENDS RiskFormulas, Sequences, FiniteSets, FiniteSetsExt

CONSTANTS Observations, \* what timescale_writer may store, each one once
          Comparisons,  \* what personal_comparator may store
          Baselines,    \* personal_historical_baselines, seeded by the schema
          Located,      \* tile ids made from coordinates ("q25:..."); the
                        \* others are region and city ("region:city")
          KnownCities,  \* of these, the ones global_topology.json places
          UnknownRoute, \* "route.unknown", asked for when the body is cut
          HistoryLimit,    \* LIMIT of a time series, 2000 buckets
          ComparisonLimit, \* LIMIT of the comparisons, 50 events
          Mixes,        \* model bound: sets of requests; the clients of one
                        \* behaviour ask what is in one of them
          Threads,      \* model bound: connections open at the same time
          Batches,      \* model bound: the batches it may store them in
          MaxRequests   \* model bound: requests in one behaviour

MapKinds == {"tiles", "png", "summary", "routes"}
HistoryKinds == {"timeseries", "historySummary"}
WeatherKinds == MapKinds \cup HistoryKinds \cup {"cities"}
Kinds ==
  WeatherKinds \cup {"personal", "refresh", "health", "options", "unknown"}

Requests == UNION Mixes

ASSUME ApiAssumption ==
  /\ \A o \in Observations :
       /\ o.minute \in Nat /\ Validated(o)
       /\ o.cloud \subseteq Int /\ Measured(o.cloud, o.cloud)
  /\ \A c \in Comparisons : c.time \in Int
  /\ KnownCities \cap Located = {}
  /\ {"absent", "empty", "mixed"} \cap Threads = {}
  /\ Requests # {}
  /\ \A q \in Requests :
       /\ q.kind \in Kinds
       /\ q.body \in {"whole", "missing", "cut", "mistyped"} /\ q.valid \in BOOLEAN
       /\ q.kind # "routes" => q.body = "whole"
       /\ q.interval \in Nat \ {0}
  /\ HistoryLimit \in Nat \ {0} /\ ComparisonLimit \in Nat \ {0}
  /\ \A B \in Batches : B # {} /\ B \subseteq Observations /\ IsFiniteSet(B)
  /\ MaxRequests \in Nat

VARIABLES
  stored,   \* observations whose batch is committed
  tiles,    \* weather_tile_minute_aggregates
  cities,   \* weather_city_minute_aggregates
  routes,   \* route_segment_risk_minute
  compared, \* personal_realtime_comparisons
  mix,      \* what the clients of this behaviour ask
  client,   \* how the service reaches the database: "libpq", "psql", or
            \* "none" when the environment has no connection string
  running,  \* cleared by SIGINT / SIGTERM
  mpc,      \* control state of the main thread
  pc, req,  \* control state and request of each connection's thread
  todo,     \* the statements its handler has still to execute
  reply,    \* the response it has built
  file,     \* weather_rtos_map_query.sql: absent, empty, mixed, or the
            \* thread whose SQL it holds
  writers,  \* threads whose open stream is the file at that path
  overlap,  \* threads whose query through the file met another one
  known,    \* what was stored when the thread's request was accepted
  requests  \* requests accepted so far

tables  == <<stored, tiles, cities, routes, compared>>
queryFile == <<file, writers, overlap>>
setting == <<mix, client>>
thread  == <<pc, req, todo, reply>>
history == <<known, requests>>
vars == <<tables, setting, running, mpc, thread, queryFile, history>>

-----------------------------------------------------------------------------
(* The writers.  flushBatch groups a batch three times; the row of a group  *)
(* is inserted, or it updates the row with its primary key.                 *)

(* By minute, tile, country and region: the continent follows the country.  *)
(* A region may lie in two countries (the simulator has its own names).     *)
TileGroup(o, p) ==
  /\ o.minute = p.minute /\ o.tile = p.tile
  /\ o.country = p.country /\ o.region = p.region

(* Mutant: the tiles of a batch are grouped by station too, like its routes. *)
MutTilesOfStations(B) ==
  LET Row(o) == [minute |-> o.minute, tile |-> o.tile, region |-> o.region,
                 n |-> Cardinality({p \in B : TileGroup(o, p) /\ p.segment = o.segment})]
  IN {Row(o) : o \in B}

TileRows(B) ==
  LET Row(o) == [minute |-> o.minute, tile |-> o.tile, region |-> o.region,
                 n |-> Cardinality({p \in B : TileGroup(o, p)})]
  IN {Row(o) : o \in B}

(* By minute and city.                                                      *)
SameCity(r, s) ==
  /\ r.minute = s.minute /\ r.city = s.city
  /\ r.country = s.country /\ r.region = s.region

CityRows(B) ==
  LET Row(S) ==
        LET o == CHOOSE o \in S : TRUE
        IN [minute |-> o.minute, city |-> o.city, region |-> o.region,
            country |-> o.country, n |-> Cardinality(S),
            low |-> Min({p.temperature : p \in S}),
            high |-> Max({p.temperature : p \in S})]
  IN {Row({p \in B : SameCity(o, p)}) : o \in B}

(* By minute, route and segment.  A segment belongs to one region: it is a  *)
(* station of a city, and no two collectors share a route.                  *)
SameSegment(r, s) ==
  r.minute = s.minute /\ r.route = s.route /\ r.segment = s.segment

(* The average of a group, kept as its sum and its size.                    *)
RouteRow(S) ==
  LET o == CHOOSE o \in S : TRUE
  IN [minute |-> o.minute, route |-> o.route, segment |-> o.segment,
      n |-> Cardinality(S),
      hazard |-> MapThenSumSet(HazardScore, S),
      delay |-> MapThenSumSet(DelayFactor, S)]

RouteRows(B) == {RouteRow({p \in B : SameSegment(o, p)}) : o \in B}

(* ON CONFLICT (bucket_start, tile_id, region) DO UPDATE: country is in the *)
(* group and not in the key.  Of the groups with one key the last in the    *)
(* order of the map, by the names of their countries, is what stays.        *)
SameTile(r, s) == r.minute = s.minute /\ r.tile = s.tile /\ r.region = s.region

LastOfKeys(rows) ==
  {L \in SUBSET rows :
     \A r \in rows : \E s \in L : \A u \in L : SameTile(r, u) <=> u = s}

UpsertTiles(L, table) == {r \in table : \A s \in L : ~SameTile(r, s)} \cup L

(* Of a city, LEAST and GREATEST keep the extremes, and the rest is         *)
(* replaced.                                                                *)
UpsertCity(row, table) ==
  LET old == {r \in table : SameCity(r, row)}
      all == old \cup {row}
  IN (table \ old) \cup
     {[row EXCEPT !.low = Min({r.low : r \in all}), !.high = Max({r.high : r \in all})]}

UpsertRoute(row, table) == {r \in table : ~SameSegment(r, row)} \cup {row}

(* Model bound: nothing is stored that nobody will ask for.                 *)
Wanted(kinds) ==
  /\ running /\ \E q \in mix : q.kind \in kinds
  /\ requests < MaxRequests \/ \E t \in Threads : pc[t] # "free"

StoreBatch(B) ==
  /\ Wanted(WeatherKinds)
  /\ B \cap stored = {}
  /\ stored' = stored \cup B
  /\ \E L \in LastOfKeys(TileRows(B)) : tiles' = UpsertTiles(L, tiles)
  /\ cities' = FoldSet(UpsertCity, cities, CityRows(B))
  /\ routes' = FoldSet(UpsertRoute, routes, RouteRows(B))
  /\ UNCHANGED <<compared, setting, running, mpc, thread, queryFile, history>>

(* databaseSyncWorker of personal_comparator: INSERT ... ON CONFLICT        *)
(* (profile_id, event_time) DO NOTHING.                                     *)
StoreComparison(c) ==
  /\ Wanted({"personal"})
  /\ \A d \in compared : ~(d.profile = c.profile /\ d.time = c.time)
  /\ compared' = compared \cup {c}
  /\ UNCHANGED <<stored, tiles, cities, routes, setting, running, mpc, thread,
                 queryFile, history>>

-----------------------------------------------------------------------------
(* The statements.                                                          *)

(* Mutant: the oldest minute instead of max(bucket_start).                  *)
MutOldest(table) == {r \in table : \A s \in table : r.minute <= s.minute}

(* WHERE bucket_start = (SELECT max(bucket_start) FROM the whole table)     *)
Latest(table) == {r \in table : \A s \in table : s.minute <= r.minute}

Place == {"tile_id", "region", "continent", "country", "latitude", "longitude"}
TileColumns ==
  Place \cup {"bucket_start", "sample_count", "avg_temperature", "avg_humidity",
              "avg_cloud_cover", "avg_wind_speed", "avg_pressure_hpa",
              "min_visibility_km", "max_precipitation_mm", "hazard_score"}

(* tileSnapshotFromDb selects a column that only the route table has.       *)
TilesColumns == Place \cup {"hazard_score", "primary_hazard", "bucket_start"}

(* A bounding box is the set of the tiles inside it.                        *)
TilesQuery(q) == {r \in Latest(tiles) : r.tile \in Located \cap q.inside}

(* mapSummaryFromDb aggregates these, by one statement.                     *)
SummaryQuery(q) == {r \in Latest(tiles) : r.tile \in Located \cap q.inside}

(* renderTilePng does not ask for coordinates: resolveTileCoordinate looks  *)
(* the city up, and a row that is nowhere is skipped.                       *)
Placed(tile) == tile \in Located \cup KnownCities
PngQuery(q) == {r \in Latest(tiles) : Placed(r.tile) /\ r.tile \in q.inside}

(* A body that is cut does not parse and is taken for {}: no route and no   *)
(* segments.  Without segments two are made up.                             *)
AskedRoute(q) == IF q.body = "cut" THEN UnknownRoute ELSE q.route

AskedSegments(q) ==
  IF q.body = "cut" \/ q.segments = {}
  THEN {AskedRoute(q) \o ".segment_1", AskedRoute(q) \o ".segment_2"}
  ELSE q.segments

(* Mutant: the segments asked for are left out of the statement.            *)
MutAllSegments(q) == {r \in Latest(routes) : r.route = AskedRoute(q)}

RouteQuery(q) ==
  {r \in Latest(routes) : /\ r.route = AskedRoute(q)
                          /\ r.segment \in AskedSegments(q)}

(* historyCities: SELECT DISTINCT.                                          *)
CitiesQuery(q) ==
  {[city |-> r.city, region |-> r.region, country |-> r.country] : r \in cities}

(* ORDER BY ... LIMIT n: the n least of a set of numbers.                   *)
Least(ranks, n) == {i \in ranks : Cardinality({j \in ranks : j < i}) < n}

(* historySummary and historyTimeseries: one statement each, over one city  *)
(* and the minutes between from and to.  A time series is grouped by        *)
(* time_bucket, ORDER BY ts ASC: of a long one the newest buckets are cut.  *)
HistoryQuery(q) == {r \in cities : r.city = q.city /\ r.minute \in q.minutes}

Bucket(q, r) == r.minute \div q.interval
TimeseriesQuery(q) ==
  LET all == HistoryQuery(q)
  IN {r \in all : Bucket(q, r) \in Least({Bucket(q, s) : s \in all}, HistoryLimit)}

(* personalComparisonSnapshot executes two statements, one after the other: *)
(* the baselines, and the newest comparisons (ORDER BY event_time DESC).    *)
BaselinesQuery(q) == {b \in Baselines : b.profile = q.profile}

Age(c) == -c.time
ComparisonsQuery(q) ==
  LET all == {c \in compared : c.profile = q.profile}
  IN {c \in all : Age(c) \in Least({Age(d) : d \in all}, ComparisonLimit)}

Statements(q) ==
  IF q.kind = "personal" THEN <<"baselines", "comparisons">> ELSE <<q.kind>>

(* refresh_map_tile draws into map_raster_tiles, which no query of this     *)
(* service reads, and only the length of what it returns is answered.       *)
RowsOf(s, q) ==
  CASE s = "tiles" -> TilesQuery(q)
    [] s = "summary" -> SummaryQuery(q)
    [] s = "png" -> PngQuery(q)
    [] s = "routes" -> RouteQuery(q)
    [] s = "cities" -> CitiesQuery(q)
    [] s = "historySummary" -> HistoryQuery(q)
    [] s = "timeseries" -> TimeseriesQuery(q)
    [] s = "baselines" -> BaselinesQuery(q)
    [] s = "comparisons" -> ComparisonsQuery(q)
    [] s = "refresh" -> {}

(* The server refuses a statement that names a column it does not have.     *)
Refused(s) == s = "tiles" /\ ~(TilesColumns \subseteq TileColumns)

(* What came for statement p is of use to the handler of s: a summary is a  *)
(* JSON object, a refresh takes any text, and its own text is not JSON.     *)
IsObject(s) == s \in {"summary", "historySummary"}
Understood(s, p) ==
  s = "refresh" \/ (p # "refresh" /\ IsObject(s) = IsObject(p))

-----------------------------------------------------------------------------
(* The answers.                                                             *)

NoRequest == CHOOSE q \in Requests : TRUE
Answer(code, source) ==
  [code |-> code, source |-> source, rows |-> {}, baselines |-> {}]
NoReply == Answer(0, "none")

(* The fallbacks; what those of the history and of the personal comparison  *)
(* invent is no row of a table.                                             *)
Fallback == Answer(200, "live_unavailable")

(* A route is asked for in the body of a POST: readBody stops at the end of *)
(* the header, and what has not come by then is not read any more.          *)
BodyMissing(q) == q.kind = "routes" /\ q.body = "missing"

(* handleConnection answers these without a statement: what does not parse, *)
(* what needs none, and a refresh without a database.                       *)
Immediate(q) ==
  ~q.valid \/ BodyMissing(q) \/ q.kind \in {"health", "options", "unknown"}
           \/ client = "none"

ImmediateAnswer(q) ==
  IF ~q.valid \/ BodyMissing(q) THEN Answer(400, "none")
  ELSE IF q.kind \in {"health", "options"} THEN Answer(200, "none")
  ELSE IF q.kind \in {"unknown", "refresh"} THEN Answer(404, "none")
  ELSE Fallback

(* The reply with the result of a statement, and without one.  Whether the  *)
(* two of a personal comparison fail or not, its source is "timescale".     *)
WithRows(r, s, rows) ==
  CASE s = "refresh" -> Answer(200, "none")
    [] s = "baselines" -> [Answer(200, "timescale") EXCEPT !.baselines = rows]
    [] OTHER -> [r EXCEPT !.code = 200, !.source = "timescale", !.rows = rows]

WithoutRows(r, s) ==
  CASE s = "refresh" -> Answer(500, "none")
    [] s \in {"baselines", "comparisons"} -> WithRows(r, s, {})
    [] OTHER -> Fallback

-----------------------------------------------------------------------------
(* The main thread.                                                         *)

Init ==
  /\ stored = {} /\ tiles = {} /\ cities = {} /\ routes = {} /\ compared = {}
  /\ mix \in Mixes
  /\ client \in {"libpq", "psql", "none"}
  /\ running = TRUE
  /\ mpc = "loop"
  /\ pc = [t \in Threads |-> "free"]
  /\ req = [t \in Threads |-> NoRequest]
  /\ todo = [t \in Threads |-> <<>>]
  /\ reply = [t \in Threads |-> NoReply]
  /\ file = "absent" /\ writers = {} /\ overlap = {}
  /\ known = [t \in Threads |-> {}]
  /\ requests = 0

(* handleShutdownSignal                                                     *)
Signal ==
  /\ running
  /\ running' = FALSE
  /\ UNCHANGED <<tables, setting, mpc, thread, queryFile, history>>

(* With the process the detached threads end, wherever they are; the        *)
(* temporary file stays behind.                                             *)
ThreadsGone ==
  /\ pc' = [t \in Threads |-> "free"]
  /\ req' = [t \in Threads |-> NoRequest]
  /\ todo' = [t \in Threads |-> <<>>]
  /\ reply' = [t \in Threads |-> NoReply]
  /\ known' = [t \in Threads |-> {}]
  /\ writers' = {} /\ overlap' = {}

(* Mutant: the threads are joined instead of detached.                      *)
MutJoin ==
  /\ mpc = "loop"
  /\ running \/ \A t \in Threads : pc[t] = "free"
  /\ mpc' = IF running THEN "poll" ELSE "return"
  /\ UNCHANGED <<tables, setting, running, thread, queryFile, history>>

(* The loop is left: main() returns, which destroys the store its detached  *)
(* threads work on.  They go on until the process is gone; what a query of  *)
(* theirs finds of the connection string then is still whole, or it fails,  *)
(* or the process ends with it.                                             *)
MainLoop ==
  /\ mpc = "loop"
  /\ mpc' = IF running THEN "poll" ELSE "return"
  /\ UNCHANGED <<tables, setting, running, thread, queryFile, history>>

MainReturns ==
  /\ mpc = "return"
  /\ mpc' = "exit"
  /\ ThreadsGone
  /\ UNCHANGED <<tables, setting, running, file, requests>>

(* Nobody came, or poll or accept failed.                                   *)
PollTimeout ==
  /\ mpc = "poll"
  /\ mpc' = "loop"
  /\ UNCHANGED <<tables, setting, running, thread, queryFile, history>>

(* Threads have no identity of their own: the new one gets a free name.     *)
Free == {t \in Threads : pc[t] = "free"}

(* What a request can be told about of what is stored.                      *)
CouldTell(q) ==
  IF q.kind = "personal" THEN compared
  ELSE IF q.kind \in WeatherKinds THEN stored ELSE {}

Accept(q) == \E t \in Threads :
  /\ mpc = "poll"
  /\ Free # {} /\ t = CHOOSE u \in Free : TRUE
  /\ requests < MaxRequests
  /\ mpc' = "loop"
  /\ pc' = [pc EXCEPT ![t] = "read"]
  /\ req' = [req EXCEPT ![t] = q]
  /\ known' = [known EXCEPT ![t] = CouldTell(q)]
  /\ requests' = requests + 1
  /\ UNCHANGED <<tables, setting, running, todo, reply, queryFile>>

-----------------------------------------------------------------------------
(* The thread of a connection.                                              *)

(* The thread ends and closes its connection.                               *)
Ends(t) ==
  /\ pc' = [pc EXCEPT ![t] = "free"]
  /\ req' = [req EXCEPT ![t] = NoRequest]
  /\ todo' = [todo EXCEPT ![t] = <<>>]
  /\ reply' = [reply EXCEPT ![t] = NoReply]
  /\ known' = [known EXCEPT ![t] = {}]
  /\ overlap' = overlap \ {t}
  /\ UNCHANGED <<tables, setting, running, mpc, file, writers, requests>>

(* recv fails, and there is no answer.                                      *)
ReadFails(t) == pc[t] = "read" /\ Ends(t)

FirstStep == IF client = "libpq" THEN "query" ELSE "open"

(* A route_id or an `at' that is no string: nobody catches what body.value  *)
(* throws, and the process ends.                                            *)
Throws(q) == q.valid /\ q.body = "mistyped"

ReadThrows(t) ==
  /\ pc[t] = "read" /\ Throws(req[t])
  /\ mpc' = "exit"
  /\ ThreadsGone
  /\ UNCHANGED <<tables, setting, running, file, requests>>

ReadRequest(t) ==
  /\ pc[t] = "read" /\ ~Throws(req[t])
  /\ IF Immediate(req[t])
     THEN /\ pc' = [pc EXCEPT ![t] = "send"]
          /\ reply' = [reply EXCEPT ![t] = ImmediateAnswer(req[t])]
          /\ UNCHANGED todo
     ELSE /\ pc' = [pc EXCEPT ![t] = FirstStep]
          /\ todo' = [todo EXCEPT ![t] = Statements(req[t])]
          /\ UNCHANGED reply
  /\ UNCHANGED <<tables, setting, running, mpc, req, queryFile, history>>

(* The handler has what it gets of a statement, and goes on to the next.    *)
Done(t) ==
  /\ todo' = [todo EXCEPT ![t] = Tail(todo[t])]
  /\ pc' = [pc EXCEPT ![t] = IF Len(todo[t]) = 1 THEN "send" ELSE FirstStep]

Got(t, rows) == reply' = [reply EXCEPT ![t] = WithRows(reply[t], Head(todo[t]), rows)]
GotNothing(t) == reply' = [reply EXCEPT ![t] = WithoutRows(reply[t], Head(todo[t]))]

(* queryJson and queryScalar with libpq: connect, execute, parse.           *)
QueryLibpq(t) ==
  /\ pc[t] = "query"
  /\ ~Refused(Head(todo[t]))
  /\ Got(t, RowsOf(Head(todo[t]), req[t]))
  /\ Done(t)
  /\ UNCHANGED <<tables, setting, running, mpc, req, queryFile, history>>

(* The connection or the statement fails, or the file cannot be opened.     *)
QueryFails(t) ==
  /\ pc[t] \in {"query", "open"}
  /\ GotNothing(t)
  /\ Done(t)
  /\ UNCHANGED <<tables, setting, running, mpc, req, queryFile, history>>

(* runPsqlQuery and runPsqlScalar open the file, which empties it or makes  *)
(* it anew ...                                                              *)
InFile == {t \in Threads : pc[t] \in {"write", "psql", "remove"}}

OpenFile(t) ==
  /\ pc[t] = "open"
  /\ file' = "empty"
  /\ writers' = writers \cup {t}
  /\ overlap' = IF InFile = {} THEN overlap ELSE overlap \cup InFile \cup {t}
  /\ pc' = [pc EXCEPT ![t] = "write"]
  /\ UNCHANGED <<tables, setting, running, mpc, req, todo, reply, history>>

(* ... write their text over what another thread may have written, or into  *)
(* a file that is no longer at the path ...                                 *)
WriteFile(t) ==
  /\ pc[t] = "write"
  /\ file' \in IF t \notin writers THEN {file}
               ELSE IF file = "empty" THEN {t} ELSE {t, "mixed"}
  /\ writers' = writers \ {t}
  /\ pc' = [pc EXCEPT ![t] = "psql"]
  /\ UNCHANGED <<tables, setting, running, mpc, req, todo, reply, overlap, history>>

(* ... run psql, which executes whatever is in the file at the path ...     *)
RunPsql(t) ==
  /\ pc[t] = "psql"
  /\ \E u \in Threads :
       /\ file = u
       /\ ~Refused(Head(todo[u]))
       /\ IF Understood(Head(todo[t]), Head(todo[u]))
          THEN Got(t, RowsOf(Head(todo[u]), req[u])) ELSE GotNothing(t)
  /\ pc' = [pc EXCEPT ![t] = "remove"]
  /\ UNCHANGED <<tables, setting, running, mpc, req, todo, queryFile, history>>

PsqlFails(t) ==
  /\ pc[t] = "psql"
  /\ GotNothing(t)
  /\ pc' = [pc EXCEPT ![t] = "remove"]
  /\ UNCHANGED <<tables, setting, running, mpc, req, todo, queryFile, history>>

(* ... and remove the file that is there now.                               *)
RemoveFile(t) ==
  /\ pc[t] = "remove"
  /\ file' = "absent"
  /\ writers' = {}
  /\ Done(t)
  /\ UNCHANGED <<tables, setting, running, mpc, req, reply, overlap, history>>

Send(t) == pc[t] = "send" /\ Ends(t)

(* send without MSG_NOSIGNAL, to a client that has reset its connection:    *)
(* nothing handles SIGPIPE, and the process ends.                           *)
SendKilled(t) ==
  /\ pc[t] = "send"
  /\ mpc' = "exit"
  /\ ThreadsGone
  /\ UNCHANGED <<tables, setting, running, file, requests>>

Terminated == mpc = "exit" /\ UNCHANGED vars

-----------------------------------------------------------------------------
Main ==
  \/ MainLoop
  \/ MainReturns
  \/ PollTimeout
  \/ \E q \in mix : Accept(q)

Query(t) ==
  \/ QueryLibpq(t)
  \/ QueryFails(t)
  \/ OpenFile(t)
  \/ WriteFile(t)
  \/ RunPsql(t)
  \/ PsqlFails(t)
  \/ RemoveFile(t)
  \/ Send(t)

Next ==
  \/ \E B \in Batches : StoreBatch(B)
  \/ \E c \in Comparisons : StoreComparison(c)
  \/ Signal
  \/ Main
  \/ \E t \in Threads :
       \/ ReadFails(t) \/ ReadThrows(t) \/ ReadRequest(t)
       \/ Query(t) \/ SendKilled(t)
  \/ Terminated

Spec == Init /\ [][Next]_vars

(* Main polls with a timeout of a second.  Nothing is assumed of the other  *)
(* threads: a client may keep one waiting in recv for ever.                 *)
FairSpec == Spec /\ WF_vars(Main)

-----------------------------------------------------------------------------
TypeOK ==
  /\ stored \subseteq Observations /\ compared \subseteq Comparisons
  /\ \A r, s \in tiles : SameTile(r, s) => r = s
  /\ \A r, s \in routes : SameSegment(r, s) => r = s
  /\ \A r, s \in cities : SameCity(r, s) => r = s
  /\ mix \in Mixes /\ client \in {"libpq", "psql", "none"}
  /\ running \in BOOLEAN
  /\ mpc \in {"loop", "poll", "return", "exit"}
  /\ pc \in [Threads -> {"free", "read", "query", "open", "write", "psql",
                         "remove", "send"}]
  /\ req \in [Threads -> Requests]
  /\ \A t \in Threads :
       /\ pc[t] \in {"query", "open", "write", "psql", "remove"} <=> todo[t] # <<>>
       /\ reply[t].code \in {0, 200, 400, 404, 500}
  /\ file \in Threads \cup {"absent", "empty", "mixed"}
  /\ writers \subseteq InFile /\ overlap \subseteq Threads
  /\ requests \in 0..MaxRequests

(* A batch leaves one row for each of its tiles and for each of its cities, *)
(* and the row counts what the batch has of it.  The tiles are grouped by   *)
(* more columns than they are stored under: where a region lies in two      *)
(* countries the row counts the observations of one of them only, and no    *)
(* part of that country's is missing.                                       *)
RowsComplete ==
  [][ LET new == stored' \ stored
      IN \A o \in new :
           /\ \E r \in tiles', p \in new :
                /\ SameTile(r, o) /\ SameTile(p, o)
                /\ r.n = Cardinality({s \in new : SameTile(s, o) /\ s.country = p.country})
                /\ \A s \in tiles' : SameTile(s, o) => s = r
           /\ \E r \in cities' :
                /\ SameCity(o, r)
                /\ r.n = Cardinality({p \in new : SameCity(o, p)}) ]_vars

(* What a client is told is about what it asked: rows of the box, or of the *)
(* route and segments, all of them of one minute; rows of the city and the  *)
(* time; both halves of a comparison about one profile.  It can be          *)
(* otherwise only when the service was built without libpq and two queries  *)
(* met in the temporary file.                                               *)
Asked(q, r) ==
  CASE q.kind \in {"tiles", "png", "summary"} -> r.tile \in q.inside
    [] q.kind = "routes" -> /\ r.route = AskedRoute(q)
                            /\ r.segment \in AskedSegments(q)
    [] q.kind \in HistoryKinds -> r.city = q.city /\ r.minute \in q.minutes
    [] q.kind = "personal" -> r.profile = q.profile
    [] OTHER -> TRUE

AnswersOwnRequest ==
  \A t \in Threads \ overlap :
    /\ \A r \in reply[t].rows \cup reply[t].baselines : Asked(req[t], r)
    /\ req[t].kind \in MapKinds =>
         \A r, s \in reply[t].rows : r.minute = s.minute

(* No answer is older than its request, whatever is stored late and         *)
(* whichever threads are served in between.  Of what was stored when the    *)
(* request was accepted                                                     *)
(*  - a map is of no earlier minute, and what it is asked for is on it      *)
(*    unless a later minute has been stored;                                *)
(*  - a summary of the history leaves no minute and no extreme out, and     *)
(*    neither does a time series that is shorter than its LIMIT; of a       *)
(*    longer one every bucket that is left out is behind those it has;      *)
(*  - every city is listed;                                                 *)
(*  - a comparison leaves no event out, unless it has 50 and all are newer  *)
(*    (or its second statement failed, which the answer does not tell).     *)
Shown(q, o) ==
  CASE q.kind \in {"tiles", "summary"} -> o.tile \in Located \cap q.inside
    [] q.kind = "png" -> Placed(o.tile) /\ o.tile \in q.inside
    [] q.kind = "routes" -> o.route = AskedRoute(q) /\ o.segment \in AskedSegments(q)

RowFor(q, r, o) == IF q.kind = "routes" THEN SameSegment(r, o) ELSE SameTile(r, o)

Covers(r, o) == SameCity(r, o) /\ o.temperature \in r.low .. r.high

Full(ranks, rank, n) == Cardinality(ranks) >= n /\ \A i \in ranks : i < rank

Current(q, rows, seen, now) ==
  CASE q.kind \in MapKinds ->
         /\ \A r \in rows : seen.minute <= r.minute
         /\ Shown(q, seen) => \/ \E r \in rows : RowFor(q, r, seen)
                             \/ \E o \in now : seen.minute < o.minute
    [] q.kind \in HistoryKinds ->
         (seen.city = q.city /\ seen.minute \in q.minutes) =>
           \/ \E r \in rows : Covers(r, seen)
           \/ /\ q.kind = "timeseries"
              /\ Full({Bucket(q, r) : r \in rows}, Bucket(q, seen), HistoryLimit)
    [] q.kind = "cities" -> \E r \in rows : r.city = seen.city
    [] q.kind = "personal" ->
         \/ rows = {} \/ ~Asked(q, seen) \/ seen \in rows
         \/ Full({Age(c) : c \in rows}, Age(seen), ComparisonLimit)
    [] OTHER -> TRUE

AnswersAreCurrent ==
  \A t \in Threads \ overlap : \A seen \in known[t] :
    reply[t].source = "timescale" => Current(req[t], reply[t].rows, seen, stored)

(* A segment of a route is never promised an earlier arrival or a delay of  *)
(* more than 60 %, and its hazard is on the scale of 0 to 100, however the  *)
(* rows are grouped and replaced.                                           *)
RouteRiskBounded ==
  \A r \in routes :
    /\ r.n * NoDelay <= r.delay /\ r.delay <= r.n * LongestDelay
    /\ 0 <= r.hazard /\ r.hazard <= r.n * FullScore

(* After a signal the service ends, also when clients keep their threads    *)
(* waiting.                                                                 *)
ShutdownCompletes == ~running ~> mpc = "exit"
=============================================================================
