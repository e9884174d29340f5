---------------------------- MODULE RiskFormulas ----------------------------
(***************************************************************************)
(* The hazard score, the primary hazard and the delay factor that          *)
(* timescale_writer computes for an observation (TimescaleBatchWriter.hpp) *)
(* and the ones the validation pipeline logs (MapAnalytics.hpp).           *)
(*                                                                         *)
(* Measurements are integers.  A norm, a double in 0..1 in the code, is an *)
(* integer in 0..Unit: Unit is a multiple of every divisor the code uses   *)
(* (80, 25, 10, 100 and 20), so nothing is rounded here.                   *)
(***************************************************************************)
EXTENDS Integers

Unit == 400

(* A measurement that may be missing, NaN in the code, is a set of at most *)
(* one value.                                                              *)
Measured(m, S) == m = {} \/ \E v \in S : m = {v}
ValueOf(m) == CHOOSE v \in m : TRUE

(* validatePacket: what it admits.  The cloud cover is not looked at.       *)
Validated(p) ==
  /\ p.temperature \in -100..100
  /\ p.wind \in 0..200
  /\ Measured(p.visibility, 0..200)
  /\ Measured(p.precipitation, 0..1000)

-----------------------------------------------------------------------------
Clamp(x) == IF x < 0 THEN 0 ELSE IF x > Unit THEN Unit ELSE x

(* Mutant: the wind is not clamped.                                         *)
MutWindNotClamped(p) == p.wind * 5

WindNorm(p) == Clamp(p.wind * 5)

PrecipNorm(p) ==
  IF p.precipitation = {} THEN 0 ELSE Clamp(ValueOf(p.precipitation) * 16)

VisibilityNorm(p) ==
  IF p.visibility = {} THEN 0 ELSE Clamp((10 - ValueOf(p.visibility)) * 40)

CloudNorm(p) == IF p.cloud = {} THEN 0 ELSE Clamp(ValueOf(p.cloud) * 4)

HeatNorm(p) ==
  IF p.temperature \in 15..30 THEN 0
  ELSE IF p.temperature < 15 THEN Clamp((15 - p.temperature) * 20)
  ELSE Clamp((p.temperature - 30) * 20)

(* The writer's score, 0.0 to 100.0 in the code, is in 0..FullScore.        *)
FullScore == 100 * Unit

HazardScore(p) ==
  33 * WindNorm(p) + 28 * PrecipNorm(p) + 19 * VisibilityNorm(p)
    + 15 * HeatNorm(p) + 5 * CloudNorm(p)

(* 1 + 0.004 * hazard + 0.002 * crosswind, in units of 0.00001.             *)
NoDelay == 100000
LongestDelay == 160000

DelayFactor(p) == NoDelay + HazardScore(p) + 50 * WindNorm(p)

(* The comparisons are tried in this order.                                 *)
PrimaryHazard(p) ==
  LET wind == WindNorm(p)
      precip == PrecipNorm(p)
      vis == VisibilityNorm(p)
      heat == HeatNorm(p)
      cloud == CloudNorm(p)
      IsLargest(x) == x >= wind /\ x >= precip /\ x >= vis /\ x >= heat /\ x >= cloud
  IN IF IsLargest(wind) THEN "wind"
     ELSE IF IsLargest(precip) THEN "precipitation"
     ELSE IF IsLargest(vis) THEN "visibility"
     ELSE IF IsLargest(cloud) THEN "cloud"
     ELSE "temperature"

NormOf(p, hazard) ==
  CASE hazard = "wind" -> WindNorm(p)
    [] hazard = "precipitation" -> PrecipNorm(p)
    [] hazard = "visibility" -> VisibilityNorm(p)
    [] hazard = "cloud" -> CloudNorm(p)
    [] hazard = "temperature" -> HeatNorm(p)

-----------------------------------------------------------------------------
(* MapAnalytics.hpp: the same norms with other weights, and no cloud.       *)

MapHazardScore(p) ==
  35 * WindNorm(p) + 30 * PrecipNorm(p) + 20 * VisibilityNorm(p) + 15 * HeatNorm(p)

MapDelayFactor(p) == NoDelay + MapHazardScore(p) + 50 * WindNorm(p)
=============================================================================
