---------------------------- MODULE MCMapQueryApi ----------------------------
(* A small instance of MapQueryApi for TLC. *)
EXTENDS MapQueryApi

CONSTANTS t1, t2

Weather(wind, temperature, precipitation, visibility, cloud) ==
  [wind |-> wind, temperature |-> temperature, precipitation |-> precipitation,
   visibility |-> visibility, cloud |-> cloud]

At(minute, tile, country, station, w) ==
  [minute |-> minute, tile |-> tile, city |-> "b", region |-> "south",
   country |-> country, route |-> "r1", segment |-> station, wind |-> w.wind,
   temperature |-> w.temperature, precipitation |-> w.precipitation,
   visibility |-> w.visibility, cloud |-> w.cloud]

(* The worst and the mildest weather, and one with nothing optional.        *)
Storm == Weather(200, 100, {1000}, {0}, {100})
Calm  == Weather(0, 20, {0}, {200}, {0})
Bare  == Weather(40, -20, {}, {}, {})

(* Two minutes; two stations of a city share a tile, and one of them is     *)
(* first seen without coordinates.  A third, of the simulator, has the      *)
(* region and not the country.                                              *)
Late   == At(1, "south:b", "india", "center", Bare)
Center == At(2, "q25", "india", "center", Storm)
North  == At(2, "q25", "india", "north", Calm)
Sim    == At(2, "q25", "in", "sim", Calm)

MCObservations == {Late, Center, North, Sim}
MCBatches == {{Late}, {Center}, {Center, North}, {North, Sim}}

MCComparisons == {[profile |-> "p", time |-> 1], [profile |-> "p", time |-> 2]}
MCBaselines == {[profile |-> "p", hour |-> 0], [profile |-> "q", hour |-> 0]}

Ask(kind) ==
  [kind |-> kind, valid |-> TRUE, inside |-> {"q25", "south:b"}, route |-> "none",
   segments |-> {}, body |-> "whole", city |-> "b", minutes |-> {1, 2},
   interval |-> 1, profile |-> "p"]
AskRoute(route, segments, body) ==
  [Ask("routes") EXCEPT !.route = route, !.segments = segments, !.body = body]

(* Two tables; what is not whole or not valid; two profiles and a text that *)
(* is neither an object nor an array.                                       *)
MCMixes ==
  {{Ask("png"), AskRoute("r1", {"center"}, "whole")},
   {[Ask("summary") EXCEPT !.inside = {"q25"}]},
   {Ask("timeseries")},
   {[Ask("historySummary") EXCEPT !.minutes = {2}]},
   {Ask("cities")},
   {Ask("tiles"), [Ask("tiles") EXCEPT !.valid = FALSE]},
   {AskRoute("r1", {"center"}, body) : body \in {"missing", "cut", "mistyped"}},
   {Ask("personal"), [Ask("personal") EXCEPT !.profile = "q"], Ask("refresh")}}
MCThreads == {t1, t2}
=============================================================================
