------------------------- MODULE MapQueryApiProofs -------------------------
(***************************************************************************)
(* The hazard and delay scores stay on their scales, for every packet the  *)
(* validation admits (RiskFormulas); and map_query_api, for every set of   *)
(* observations, connections and requests: what is stored is in the tables *)
(* whole, a client is told about what it asked, and nothing older than its *)
(* request.                                                                *)
(*                                                                         *)
(* A batch of any size is folded into a table row by row.  A fold is a     *)
(* recursive function on the subsets of a finite set; what is proved of it *)
(* goes by induction on these subsets, with a set in the place of a        *)
(* predicate (SubsetInduction).                                            *)
(***************************************************************************)
EXTENDS MapQueryApi, FiniteSetTheorems, TLAPS

(* A packet as weather_packet_from_json makes it and validatePacket admits  *)
(* it; the cloud cover may be anything or missing.                          *)
Packet(p) == Validated(p) /\ Measured(p.cloud, Int)

(* Clamping gives a norm, whatever the measurement.                         *)
LEMMA ClampRange == ASSUME NEW x \in Int PROVE Clamp(x) \in 0..Unit
  BY DEF Clamp, Unit

(* A measurement that is there is one of the admitted values.               *)
LEMMA MeasuredValue ==
  ASSUME NEW S, NEW m, Measured(m, S), m # {}
  PROVE  ValueOf(m) \in S
  <1>1. PICK v \in S : m = {v}
    BY DEF Measured
  <1>2. ValueOf(m) \in m
    BY <1>1 DEF ValueOf
  <1> QED BY <1>1, <1>2

(* Every norm is in 0..Unit, the range 0.0 to 1.0 of the code.              *)
LEMMA NormRange ==
  ASSUME NEW p, Packet(p)
  PROVE  /\ WindNorm(p) \in 0..Unit
         /\ PrecipNorm(p) \in 0..Unit
         /\ VisibilityNorm(p) \in 0..Unit
         /\ CloudNorm(p) \in 0..Unit
         /\ HeatNorm(p) \in 0..Unit
  <1>1. WindNorm(p) \in 0..Unit
    <2>1. p.wind * 5 \in Int
      BY DEF Packet, Validated
    <2> QED BY <2>1, ClampRange DEF WindNorm
  <1>2. PrecipNorm(p) \in 0..Unit
    <2>1. CASE p.precipitation = {}
      BY <2>1 DEF PrecipNorm, Unit
    <2>2. CASE p.precipitation # {}
      <3>1. ValueOf(p.precipitation) \in 0..1000
        BY <2>2, MeasuredValue DEF Packet, Validated
      <3>2. ValueOf(p.precipitation) * 16 \in Int
        BY <3>1
      <3> QED BY <2>2, <3>2, ClampRange DEF PrecipNorm
    <2> QED BY <2>1, <2>2
  <1>3. VisibilityNorm(p) \in 0..Unit
    <2>1. CASE p.visibility = {}
      BY <2>1 DEF VisibilityNorm, Unit
    <2>2. CASE p.visibility # {}
      <3>1. ValueOf(p.visibility) \in 0..200
        BY <2>2, MeasuredValue DEF Packet, Validated
      <3>2. (10 - ValueOf(p.visibility)) * 40 \in Int
        BY <3>1
      <3> QED BY <2>2, <3>2, ClampRange DEF VisibilityNorm
    <2> QED BY <2>1, <2>2
  <1>4. CloudNorm(p) \in 0..Unit
    <2>1. CASE p.cloud = {}
      BY <2>1 DEF CloudNorm, Unit
    <2>2. CASE p.cloud # {}
      <3>1. ValueOf(p.cloud) \in Int
        BY <2>2, MeasuredValue DEF Packet
      <3>2. ValueOf(p.cloud) * 4 \in Int
        BY <3>1
      <3> QED BY <2>2, <3>2, ClampRange DEF CloudNorm
    <2> QED BY <2>1, <2>2
  <1>5. HeatNorm(p) \in 0..Unit
    <2>1. p.temperature \in Int
      BY DEF Packet, Validated
    <2>2. (15 - p.temperature) * 20 \in Int /\ (p.temperature - 30) * 20 \in Int
      BY <2>1
    <2>3. 0 \in 0..Unit
      BY DEF Unit
    <2> QED BY <2>2, <2>3, ClampRange DEF HeatNorm
  <1> QED BY <1>1, <1>2, <1>3, <1>4, <1>5

(* The writer's hazard score is on the scale 0 to 100: its five weights add *)
(* up to one and every norm is clamped (hazardScore,                        *)
(* TimescaleBatchWriter.hpp).                                               *)
THEOREM HazardInRange ==
  ASSUME NEW p, Packet(p)
  PROVE  /\ HazardScore(p) \in Int
         /\ 0 <= HazardScore(p) /\ HazardScore(p) <= FullScore
  <1> DEFINE w == WindNorm(p)  r == PrecipNorm(p)  v == VisibilityNorm(p)
             c == CloudNorm(p)  h == HeatNorm(p)
  <1>1. w \in 0..400 /\ r \in 0..400 /\ v \in 0..400 /\ c \in 0..400 /\ h \in 0..400
    BY NormRange DEF Unit
  <1>2. HazardScore(p) = 33 * w + 28 * r + 19 * v + 15 * h + 5 * c
    BY Zenon DEF HazardScore
  <1> HIDE DEF w, r, v, c, h
  <1> QED BY <1>1, <1>2 DEF FullScore, Unit

(* The delay factor of an observation is between 1.0 and 1.6: no weather    *)
(* promises an early arrival (flushBatch).                                  *)
THEOREM DelayInRange ==
  ASSUME NEW p, Packet(p)
  PROVE  NoDelay <= DelayFactor(p) /\ DelayFactor(p) <= LongestDelay
  <1>1. WindNorm(p) \in 0..400
    BY NormRange DEF Unit
  <1> QED BY <1>1, HazardInRange DEF DelayFactor, NoDelay, LongestDelay, FullScore, Unit

(* The primary hazard is one whose norm no other exceeds: "temperature", the *)
(* answer when no comparison holds, is not given for want of a better one.  *)
THEOREM PrimaryIsLargest ==
  ASSUME NEW p, Packet(p)
  PROVE  /\ WindNorm(p) <= NormOf(p, PrimaryHazard(p))
         /\ PrecipNorm(p) <= NormOf(p, PrimaryHazard(p))
         /\ VisibilityNorm(p) <= NormOf(p, PrimaryHazard(p))
         /\ CloudNorm(p) <= NormOf(p, PrimaryHazard(p))
         /\ HeatNorm(p) <= NormOf(p, PrimaryHazard(p))
  <1> DEFINE w == WindNorm(p)  r == PrecipNorm(p)  v == VisibilityNorm(p)
             c == CloudNorm(p)  h == HeatNorm(p)
  <1>1. w \in Int /\ r \in Int /\ v \in Int /\ c \in Int /\ h \in Int
    BY NormRange DEF Unit
  <1>2. /\ NormOf(p, "wind") = w
        /\ NormOf(p, "precipitation") = r
        /\ NormOf(p, "visibility") = v
        /\ NormOf(p, "cloud") = c
        /\ NormOf(p, "temperature") = h
    BY DEF NormOf
  <1> QED BY <1>1, <1>2 DEF PrimaryHazard

(* The scores the pipeline logs for the same packet are on the same scale,  *)
(* and lead to the same bounds of the delay (MapAnalytics.hpp).             *)
THEOREM MapScoreInRange ==
  ASSUME NEW p, Packet(p)
  PROVE  /\ 0 <= MapHazardScore(p) /\ MapHazardScore(p) <= FullScore
         /\ NoDelay <= MapDelayFactor(p) /\ MapDelayFactor(p) <= LongestDelay
  <1> DEFINE w == WindNorm(p)  r == PrecipNorm(p)  v == VisibilityNorm(p)
             h == HeatNorm(p)
  <1>1. w \in 0..400 /\ r \in 0..400 /\ v \in 0..400 /\ h \in 0..400
    BY NormRange DEF Unit
  <1>2. /\ MapHazardScore(p) = 35 * w + 30 * r + 20 * v + 15 * h
        /\ MapDelayFactor(p) = NoDelay + MapHazardScore(p) + 50 * w
    BY Zenon DEF MapHazardScore, MapDelayFactor
  <1> HIDE DEF w, r, v, h
  <1> QED BY <1>1, <1>2 DEF FullScore, Unit, NoDelay, LongestDelay

(* The two scores of a packet differ by at most 5 points of 100: the logged *)
(* events and the tables are not the same numbers, but close.               *)
THEOREM ScoresClose ==
  ASSUME NEW p, Packet(p)
  PROVE  /\ MapHazardScore(p) - HazardScore(p) <= 5 * Unit
         /\ HazardScore(p) - MapHazardScore(p) <= 5 * Unit
  <1> DEFINE w == WindNorm(p)  r == PrecipNorm(p)  v == VisibilityNorm(p)
             c == CloudNorm(p)  h == HeatNorm(p)
  <1>1. w \in 0..400 /\ r \in 0..400 /\ v \in 0..400 /\ c \in 0..400 /\ h \in 0..400
    BY NormRange DEF Unit
  <1>2. /\ HazardScore(p) = 33 * w + 28 * r + 19 * v + 15 * h + 5 * c
        /\ MapHazardScore(p) = 35 * w + 30 * r + 20 * v + 15 * h
    BY Zenon DEF HazardScore, MapHazardScore
  <1> HIDE DEF w, r, v, c, h
  <1> QED BY <1>1, <1>2 DEF Unit

-----------------------------------------------------------------------------
(* Induction over the natural numbers and over the subsets of a finite set, *)
(* with the set of what is proved in the place of a predicate: of what is   *)
(* not in it there would be a minimal element.                              *)
LEMMA NatInductionRule ==
  ASSUME NEW G, 0 \in G, \A n \in Nat : n \in G => n + 1 \in G
  PROVE  \A n \in Nat : n \in G
<1> DEFINE Bad == Nat \ G
<1>1. SUFFICES ASSUME Bad # {} PROVE FALSE
  OBVIOUS
<1>2. IsWellFoundedOn(OpToRel(<, Nat), Nat)
  BY NatLessThanWellFounded
<1>3. Bad \subseteq Nat
  OBVIOUS
<1>4. PICK m \in Bad : \A k \in Bad : ~(<<k, m>> \in OpToRel(<, Nat))
  <2> HIDE DEF Bad
  <2> QED BY <1>1, <1>2, <1>3, WFMin
<1>5. m \in Nat /\ m # 0 /\ m - 1 \in Nat
  OBVIOUS
<1>6. m - 1 \notin Bad
  <2>1. ASSUME m - 1 \in Bad PROVE FALSE
    <3>1. <<m - 1, m>> \in OpToRel(<, Nat)
      BY <1>5 DEF OpToRel
    <3> QED BY <1>4, <2>1, <3>1
  <2> QED BY <2>1
<1> QED BY <1>5, <1>6

LEMMA SubsetInduction ==
  ASSUME NEW S, IsFiniteSet(S), NEW G, {} \in G,
         \A U \in SUBSET S : (U # {} /\ \A x \in U : U \ {x} \in G) => U \in G
  PROVE  S \in G
<1> DEFINE Bad == FiniteSubsetsOf(S) \ G
<1>1. IsWellFoundedOn(StrictSubsetOrdering(S), FiniteSubsetsOf(S))
  BY FS_StrictSubsetOrderingWellFounded
<1>2. ASSUME NEW U \in Bad PROVE \E W \in Bad : <<W, U>> \in StrictSubsetOrdering(S)
  <2>1. U \in SUBSET S /\ IsFiniteSet(U) /\ U \notin G
    BY <1>2 DEF FiniteSubsetsOf
  <2>2. PICK x \in U : U \ {x} \notin G
    BY <2>1
  <2>3. IsFiniteSet(U \ {x})
    BY <2>1, FS_RemoveElement
  <2>4. U \ {x} \in Bad
    BY <2>1, <2>2, <2>3 DEF FiniteSubsetsOf
  <2>5. <<U \ {x}, U>> \in StrictSubsetOrdering(S)
    BY <2>1, <2>2 DEF StrictSubsetOrdering
  <2> QED BY <2>4, <2>5
<1>3. Bad \subseteq FiniteSubsetsOf(S)
  OBVIOUS
<1>4. S \in FiniteSubsetsOf(S)
  BY DEF FiniteSubsetsOf
<1> HIDE DEF Bad
<1>5. Bad = {}
  BY <1>1, <1>2, <1>3, WFMin
<1> QED BY <1>4, <1>5 DEF Bad

(* The recursive function behind a fold over a finite set is defined: it is *)
(* built for the subsets of at most n elements, one n after the other.      *)
Chosen(U) == CHOOSE x \in U : TRUE
Folds(g, h, base, D) ==
  g = [U \in D |-> IF U = {} THEN base ELSE h[<<Chosen(U), g[U \ {Chosen(U)}]>>]]

LEMMA FoldDefined ==
  ASSUME NEW S, IsFiniteSet(S), NEW V, NEW base \in V, NEW h \in [S \X V -> V]
  PROVE  \E g \in [SUBSET S -> V] : Folds(g, h, base, SUBSET S)
<1> DEFINE Level(n) == {U \in SUBSET S : Cardinality(U) <= n}
           G == {n \in Nat : \E g \in [Level(n) -> V] : Folds(g, h, base, Level(n))}
<1>0. ASSUME NEW U \in SUBSET S
      PROVE  /\ IsFiniteSet(U) /\ Cardinality(U) \in Nat /\ (Cardinality(U) = 0 <=> U = {})
             /\ U # {} => /\ Chosen(U) \in U /\ Chosen(U) \in S /\ U \ {Chosen(U)} \in SUBSET S
                          /\ Cardinality(U \ {Chosen(U)}) = Cardinality(U) - 1
  <2>1. IsFiniteSet(U) /\ Cardinality(U) \in Nat /\ (Cardinality(U) = 0 <=> U = {})
    BY FS_Subset, FS_CardinalityType, FS_EmptySet
  <2>2. ASSUME U # {} PROVE Chosen(U) \in U
    BY <2>2 DEF Chosen
  <2> QED BY <2>1, <2>2, FS_RemoveElement
<1>1. 0 \in G
  <2> DEFINE g == [U \in Level(0) |-> base]
  <2>1. \A U \in Level(0) : U = {}
    <3>1. ASSUME NEW U \in Level(0) PROVE U = {}
      <4>1. U \in SUBSET S /\ Cardinality(U) <= 0
        OBVIOUS
      <4>2. Cardinality(U) \in Nat /\ (Cardinality(U) = 0 => U = {})
        BY <1>0, <4>1
      <4> QED BY <4>1, <4>2
    <3> QED BY <3>1
  <2>2. g \in [Level(0) -> V] /\ Folds(g, h, base, Level(0))
    BY <2>1 DEF Folds
  <2> QED BY <2>2
<1>2. ASSUME NEW n \in Nat, n \in G PROVE n + 1 \in G
  <2>1. PICK g \in [Level(n) -> V] : Folds(g, h, base, Level(n))
    BY <1>2
  <2> DEFINE f == [U \in Level(n + 1) |->
                     IF U = {} THEN base ELSE h[<<Chosen(U), g[U \ {Chosen(U)}]>>]]
  <2>2. ASSUME NEW U \in Level(n + 1), U # {} PROVE U \ {Chosen(U)} \in Level(n)
    <3>1. U \in SUBSET S /\ Cardinality(U) <= n + 1
      OBVIOUS
    <3>2. /\ U \ {Chosen(U)} \in SUBSET S /\ Cardinality(U) \in Nat
          /\ Cardinality(U \ {Chosen(U)}) = Cardinality(U) - 1
      BY <1>0, <2>2, <3>1
    <3>3. Cardinality(U \ {Chosen(U)}) <= n
      BY <3>1, <3>2
    <3> QED BY <3>2, <3>3
  <2>3. \A U \in Level(n) : U \in Level(n + 1) /\ f[U] = g[U]
    <3>1. ASSUME NEW U \in Level(n) PROVE U \in Level(n + 1)
      <4>1. U \in SUBSET S /\ Cardinality(U) <= n
        OBVIOUS
      <4>2. Cardinality(U) \in Nat
        BY <1>0, <4>1
      <4>3. Cardinality(U) <= n + 1
        BY <4>1, <4>2
      <4> QED BY <4>1, <4>3
    <3>2. \A U \in Level(n) : f[U] = IF U = {} THEN base ELSE h[<<Chosen(U), g[U \ {Chosen(U)}]>>]
      BY <3>1
    <3>3. \A U \in Level(n) : g[U] = IF U = {} THEN base ELSE h[<<Chosen(U), g[U \ {Chosen(U)}]>>]
      BY <2>1 DEF Folds
    <3> QED BY <3>1, <3>2, <3>3
  <2>4. \A U \in Level(n + 1) : f[U] \in V
    <3>1. ASSUME NEW U \in Level(n + 1), U # {} PROVE f[U] \in V
      <4>1. g[U \ {Chosen(U)}] \in V /\ Chosen(U) \in S
        BY <1>0, <2>2, <3>1
      <4>2. f[U] = h[<<Chosen(U), g[U \ {Chosen(U)}]>>]
        BY <3>1
      <4> HIDE DEF f
      <4> QED BY <4>1, <4>2
    <3> QED BY <3>1
  <2>5. f = [U \in Level(n + 1) |->
               IF U = {} THEN base ELSE h[<<Chosen(U), f[U \ {Chosen(U)}]>>]]
    <3>1. \A U \in Level(n + 1) : U # {} => f[U \ {Chosen(U)}] = g[U \ {Chosen(U)}]
      BY <2>2, <2>3
    <3> QED BY <3>1
  <2>6. f \in [Level(n + 1) -> V]
    BY <2>4
  <2> HIDE DEF f
  <2>7. Folds(f, h, base, Level(n + 1))
    BY <2>5 DEF Folds
  <2>8. n + 1 \in Nat
    OBVIOUS
  <2> HIDE DEF Level
  <2> QED BY <2>6, <2>7, <2>8
<1>3. Cardinality(S) \in Nat
  BY <1>0
<1>4. Cardinality(S) \in G
  <2> HIDE DEF G
  <2> QED BY <1>1, <1>2, <1>3, NatInductionRule
<1>5. Level(Cardinality(S)) = SUBSET S
  <2>1. \A U \in SUBSET S : Cardinality(U) <= Cardinality(S)
    BY FS_Subset
  <2> QED BY <2>1
<1> QED BY <1>4, <1>5

LEMMA OneMore ==
  ASSUME NEW n \in Nat, n # 0, NEW b \in Int
  PROVE  n * b = b + (n - 1) * b /\ n * b \in Int /\ (n - 1) * b \in Int
  OBVIOUS

(* The sum of the values of a finite set lies between its size times the    *)
(* bounds of the values.                                                    *)
Sums(g, val, D) ==
  g = [U \in D |-> IF U = {} THEN 0 ELSE val[Chosen(U)] + g[U \ {Chosen(U)}]]

LEMMA SumBetween ==
  ASSUME NEW S, IsFiniteSet(S), NEW val \in [S -> Int], NEW lo \in Int, NEW hi \in Int,
         \A x \in S : lo <= val[x] /\ val[x] <= hi
  PROVE  /\ \E g : Sums(g, val, SUBSET S)
         /\ \A g : Sums(g, val, SUBSET S) =>
              /\ g[S] \in Int
              /\ Cardinality(S) * lo <= g[S] /\ g[S] <= Cardinality(S) * hi
<1> DEFINE h == [p \in S \X Int |-> val[p[1]] + p[2]]
<1>0. ASSUME NEW U \in SUBSET S, U # {} PROVE Chosen(U) \in U /\ U \ {Chosen(U)} \in SUBSET S
  BY <1>0 DEF Chosen
<1>1. \E g : Sums(g, val, SUBSET S)
  <2>1. ASSUME NEW x \in S, NEW v \in Int PROVE h[<<x, v>>] = val[x] + v
    OBVIOUS
  <2>2. h \in [S \X Int -> Int]
    OBVIOUS
  <2>3. 0 \in Int
    OBVIOUS
  <2> HIDE DEF h
  <2>4. PICK g \in [SUBSET S -> Int] : Folds(g, h, 0, SUBSET S)
    BY <2>2, <2>3, FoldDefined
  <2>5. ASSUME NEW U \in SUBSET S, U # {}
        PROVE  h[<<Chosen(U), g[U \ {Chosen(U)}]>>] = val[Chosen(U)] + g[U \ {Chosen(U)}]
    <3>1. Chosen(U) \in S /\ g[U \ {Chosen(U)}] \in Int
      BY <1>0, <2>5
    <3> QED BY <2>1, <3>1
  <2>6. g = [U \in SUBSET S |-> IF U = {} THEN 0 ELSE h[<<Chosen(U), g[U \ {Chosen(U)}]>>]]
    BY <2>4 DEF Folds
  <2>7. \A U \in SUBSET S :
          (IF U = {} THEN 0 ELSE h[<<Chosen(U), g[U \ {Chosen(U)}]>>])
            = (IF U = {} THEN 0 ELSE val[Chosen(U)] + g[U \ {Chosen(U)}])
    BY <2>5
  <2>8. g = [U \in SUBSET S |-> IF U = {} THEN 0 ELSE val[Chosen(U)] + g[U \ {Chosen(U)}]]
    BY <2>6, <2>7, Zenon
  <2> QED BY <2>8 DEF Sums
<1>2. ASSUME NEW g, Sums(g, val, SUBSET S)
      PROVE  /\ g[S] \in Int
             /\ Cardinality(S) * lo <= g[S] /\ g[S] <= Cardinality(S) * hi
  <2> DEFINE Between(U) == /\ g[U] \in Int
                           /\ Cardinality(U) * lo <= g[U] /\ g[U] <= Cardinality(U) * hi
             G == {U \in SUBSET S : Between(U)}
  <2>1. {} \in G
    <3>1. g[{}] = 0
      BY <1>2 DEF Sums
    <3>2. Cardinality({}) = 0
      BY FS_EmptySet
    <3> QED BY <3>1, <3>2
  <2>2. ASSUME NEW U \in SUBSET S, U # {}, \A x \in U : U \ {x} \in G PROVE U \in G
    <3> DEFINE x == Chosen(U)
               n == Cardinality(U)
    <3>1. x \in U /\ x \in S /\ val[x] \in Int /\ lo <= val[x] /\ val[x] <= hi
      BY <1>0, <2>2
    <3>2. g[U] = val[x] + g[U \ {x}]
      BY <1>2, <2>2, Zenon DEF Sums
    <3>3. Between(U \ {x})
      BY <2>2, <3>1
    <3>4. /\ n \in Nat /\ n # 0 /\ Cardinality(U \ {x}) = n - 1
      BY <2>2, <3>1, FS_Subset, FS_CardinalityType, FS_EmptySet, FS_RemoveElement
    <3>5. /\ n * lo = lo + (n - 1) * lo /\ n * lo \in Int /\ (n - 1) * lo \in Int
          /\ n * hi = hi + (n - 1) * hi /\ n * hi \in Int /\ (n - 1) * hi \in Int
      BY <3>4, OneMore
    <3>6. g[U \ {x}] \in Int /\ (n - 1) * lo <= g[U \ {x}] /\ g[U \ {x}] <= (n - 1) * hi
      BY <3>3, <3>4
    <3> HIDE DEF n, x
    <3>7. Between(U)
      <4>1. g[U] \in Int
        BY <3>1, <3>2, <3>6
      <4>2. n * lo <= g[U]
        BY <3>1, <3>2, <3>5, <3>6
      <4>3. g[U] <= n * hi
        BY <3>1, <3>2, <3>5, <3>6
      <4> QED BY <4>1, <4>2, <4>3 DEF n
    <3> QED BY <3>7
  <2> HIDE DEF G
  <2>3. S \in G
    BY <2>1, <2>2, SubsetInduction
  <2> QED BY <2>3 DEF G
<1> QED BY <1>1, <1>2

-----------------------------------------------------------------------------
(* What the tables hold.                                                    *)
TileRec ==
  [minute : Nat, tile : {o.tile : o \in Observations},
   region : {o.region : o \in Observations}, n : Nat]
CityRec ==
  [minute : Nat, city : {o.city : o \in Observations},
   region : {o.region : o \in Observations},
   country : {o.country : o \in Observations}, n : Nat, low : Int, high : Int]
RouteRec ==
  [minute : Nat, route : {o.route : o \in Observations},
   segment : {o.segment : o \in Observations}, n : Nat, hazard : Int, delay : Int]

(* Tables: a row is the only one with its primary key.                      *)
TileTables == {T \in SUBSET TileRec : \A r, s \in T : SameTile(r, s) => r = s}
CityTables == {T \in SUBSET CityRec : \A r, s \in T : SameCity(r, s) => r = s}
RouteTables == {T \in SUBSET RouteRec : \A r, s \in T : SameSegment(r, s) => r = s}

LEMMA TwoExtremes ==
  ASSUME NEW a \in Int, NEW b \in Int
  PROVE  /\ Min({a, b}) \in Int /\ Min({a, b}) <= a /\ Min({a, b}) <= b
         /\ Max({a, b}) \in Int /\ Max({a, b}) >= a /\ Max({a, b}) >= b
<1>1. \E x \in {a, b} : \A y \in {a, b} : x =< y
  OBVIOUS
<1>2. \E x \in {a, b} : \A y \in {a, b} : x >= y
  OBVIOUS
<1>3. Min({a, b}) \in {a, b} /\ \A y \in {a, b} : Min({a, b}) =< y
  BY <1>1 DEF Min
<1>4. Max({a, b}) \in {a, b} /\ \A y \in {a, b} : Max({a, b}) >= y
  BY <1>2 DEF Max
<1> QED BY <1>3, <1>4

(* In a table of cities an upsert replaces the row with the key, if there is*)
(* one, by a row whose extremes include those of both.                      *)
LEMMA UpsertCityRow ==
  ASSUME NEW row \in CityRec, NEW T \in CityTables
  PROVE  \E new \in CityRec :
           /\ UpsertCity(row, T) = {r \in T : ~SameCity(r, row)} \cup {new}
           /\ SameCity(new, row) /\ new.n = row.n
           /\ new.low <= row.low /\ row.high <= new.high
           /\ \A r \in T : SameCity(r, row) => new.low <= r.low /\ r.high <= new.high
<1> DEFINE old == {r \in T : SameCity(r, row)}
           all == old \cup {row}
           new == [row EXCEPT !.low = Min({r.low : r \in all}),
                              !.high = Max({r.high : r \in all})]
<1>1. UpsertCity(row, T) = {r \in T : ~SameCity(r, row)} \cup {new}
  BY DEF UpsertCity
<1>2. PICK q \in CityRec : all = {q, row} /\ \A r \in old : r = q
  <2>1. CASE old = {}
    <3>1. all = {row, row} /\ \A r \in old : r = row
      BY <2>1
    <3> QED BY <3>1
  <2>2. CASE old # {}
    <3>1. PICK q \in old : TRUE
      BY <2>2
    <3>2. q \in T /\ q \in CityRec
      BY <3>1 DEF CityTables
    <3>3. \A r \in old : r = q
      BY <3>1 DEF CityTables, SameCity
    <3>4. all = {q, row}
      BY <3>1, <3>3
    <3> QED BY <3>2, <3>3, <3>4
  <2> QED BY <2>1, <2>2
<1>3. {r.low : r \in all} = {q.low, row.low} /\ {r.high : r \in all} = {q.high, row.high}
  BY <1>2
<1>4. q.low \in Int /\ q.high \in Int /\ row.low \in Int /\ row.high \in Int
  BY <1>2 DEF CityRec
<1> DEFINE lo == Min({q.low, row.low})
           hi == Max({q.high, row.high})
<1>5. /\ lo \in Int /\ lo <= q.low /\ lo <= row.low
      /\ hi \in Int /\ hi >= q.high /\ hi >= row.high
  BY <1>4, TwoExtremes
<1>6. new = [row EXCEPT !.low = lo, !.high = hi]
  BY <1>3
<1> HIDE DEF new, lo, hi
<1>7. new \in CityRec /\ new.low = lo /\ new.high = hi /\ new.n = row.n /\ SameCity(new, row)
  BY <1>5, <1>6 DEF CityRec, SameCity
<1>8. \A r \in T : SameCity(r, row) => r \in old
  OBVIOUS
<1> HIDE DEF old, all
<1>9. \A r \in T : SameCity(r, row) => new.low <= r.low /\ r.high <= new.high
  BY <1>2, <1>4, <1>5, <1>7, <1>8
<1> QED BY <1>1, <1>4, <1>5, <1>7, <1>9

LEMMA UpsertCityType ==
  ASSUME NEW row \in CityRec, NEW T \in CityTables
  PROVE  UpsertCity(row, T) \in CityTables
<1>1. PICK new \in CityRec : /\ UpsertCity(row, T) = {r \in T : ~SameCity(r, row)} \cup {new}
                             /\ SameCity(new, row)
  BY UpsertCityRow
<1>2. ASSUME NEW r \in UpsertCity(row, T), NEW s \in UpsertCity(row, T), SameCity(r, s)
      PROVE  r = s
  <2>1. CASE r \in T /\ s \in T
    BY <1>2, <2>1 DEF CityTables
  <2>2. (r = new \/ (r \in T /\ ~SameCity(r, row))) /\ (s = new \/ (s \in T /\ ~SameCity(s, row)))
    BY <1>1
  <2>3. CASE r = new
    BY <1>1, <1>2, <2>2, <2>3 DEF SameCity
  <2>4. CASE s = new
    BY <1>1, <1>2, <2>2, <2>4 DEF SameCity
  <2> QED BY <2>1, <2>2, <2>3, <2>4
<1>3. UpsertCity(row, T) \subseteq CityRec
  BY <1>1 DEF CityTables
<1> QED BY <1>2, <1>3 DEF CityTables

LEMMA UpsertRouteType ==
  ASSUME NEW row \in RouteRec, NEW T \in RouteTables
  PROVE  UpsertRoute(row, T) \in RouteTables
<1>1. UpsertRoute(row, T) \subseteq RouteRec
  BY DEF UpsertRoute, RouteTables
<1>2. ASSUME NEW r \in UpsertRoute(row, T), NEW s \in UpsertRoute(row, T), SameSegment(r, s)
      PROVE  r = s
  BY <1>2 DEF UpsertRoute, RouteTables, SameSegment
<1> QED BY <1>1, <1>2 DEF RouteTables

-----------------------------------------------------------------------------
(* A fold of StoreBatch upserts the rows of a batch one after the other: in *)
(* the table of cities ...                                                  *)
LEMMA CityChain ==
  ASSUME NEW T \in CityTables, NEW R \in SUBSET CityRec, IsFiniteSet(R)
  PROVE  \E it :
           /\ it[{}] = T /\ FoldSet(UpsertCity, T, R) = it[R]
           /\ \A U \in SUBSET R : U # {} => \E x \in U : it[U] = UpsertCity(x, it[U \ {x}])
<1> DEFINE Step(f) == [U \in SUBSET R |->
                         IF U = {} THEN T ELSE UpsertCity(Chosen(U), f[U \ {Chosen(U)}])]
           h == [p \in R \X CityTables |-> UpsertCity(p[1], p[2])]
<1>1. ASSUME NEW x \in R, NEW v \in CityTables PROVE h[<<x, v>>] = UpsertCity(x, v)
  OBVIOUS
<1>2. h \in [R \X CityTables -> CityTables]
  <2>1. ASSUME NEW p \in R \X CityTables PROVE UpsertCity(p[1], p[2]) \in CityTables
    <3>1. p[1] \in CityRec /\ p[2] \in CityTables
      OBVIOUS
    <3> QED BY <3>1, UpsertCityType
  <2> QED BY <2>1
<1>3. ASSUME NEW U \in SUBSET R, U # {} PROVE Chosen(U) \in U /\ U \ {Chosen(U)} \in SUBSET R
  BY <1>3 DEF Chosen
<1> HIDE DEF h
<1>4. PICK g \in [SUBSET R -> CityTables] : Folds(g, h, T, SUBSET R)
  BY <1>2, FoldDefined
<1>5. g = Step(g)
  <2>1. ASSUME NEW U \in SUBSET R, U # {}
        PROVE  h[<<Chosen(U), g[U \ {Chosen(U)}]>>] = UpsertCity(Chosen(U), g[U \ {Chosen(U)}])
    <3>1. Chosen(U) \in R /\ g[U \ {Chosen(U)}] \in CityTables
      BY <1>3, <2>1
    <3> QED BY <1>1, <3>1
  <2>2. g = [U \in SUBSET R |-> IF U = {} THEN T ELSE h[<<Chosen(U), g[U \ {Chosen(U)}]>>]]
    BY <1>4 DEF Folds
  <2>3. \A U \in SUBSET R :
          (IF U = {} THEN T ELSE h[<<Chosen(U), g[U \ {Chosen(U)}]>>])
            = (IF U = {} THEN T ELSE UpsertCity(Chosen(U), g[U \ {Chosen(U)}]))
    BY <2>1
  <2> QED BY <2>2, <2>3, Zenon
<1> DEFINE it == CHOOSE f : f = Step(f)
<1>6. it = Step(it)
  BY <1>5, Zenon
<1>7. FoldSet(UpsertCity, T, R) = it[R]
  BY Zenon DEF FoldSet, MapThenFoldSet, Chosen
<1> HIDE DEF it
<1>8. it[{}] = T
  BY <1>6
<1>9. ASSUME NEW U \in SUBSET R, U # {}
      PROVE  it[U] = UpsertCity(Chosen(U), it[U \ {Chosen(U)}])
  BY <1>6, <1>9, Zenon
<1>10. \A U \in SUBSET R : U # {} => \E x \in U : it[U] = UpsertCity(x, it[U \ {x}])
  BY <1>3, <1>9
<1> QED BY <1>7, <1>8, <1>10

(* ... and in the table of routes.                                          *)
LEMMA RouteChain ==
  ASSUME NEW T \in RouteTables, NEW R \in SUBSET RouteRec, IsFiniteSet(R)
  PROVE  \E it :
           /\ it[{}] = T /\ FoldSet(UpsertRoute, T, R) = it[R]
           /\ \A U \in SUBSET R : U # {} => \E x \in U : it[U] = UpsertRoute(x, it[U \ {x}])
<1> DEFINE Step(f) == [U \in SUBSET R |->
                         IF U = {} THEN T ELSE UpsertRoute(Chosen(U), f[U \ {Chosen(U)}])]
           h == [p \in R \X RouteTables |-> UpsertRoute(p[1], p[2])]
<1>1. ASSUME NEW x \in R, NEW v \in RouteTables PROVE h[<<x, v>>] = UpsertRoute(x, v)
  OBVIOUS
<1>2. h \in [R \X RouteTables -> RouteTables]
  <2>1. ASSUME NEW p \in R \X RouteTables PROVE UpsertRoute(p[1], p[2]) \in RouteTables
    <3>1. p[1] \in RouteRec /\ p[2] \in RouteTables
      OBVIOUS
    <3> QED BY <3>1, UpsertRouteType
  <2> QED BY <2>1
<1>3. ASSUME NEW U \in SUBSET R, U # {} PROVE Chosen(U) \in U /\ U \ {Chosen(U)} \in SUBSET R
  BY <1>3 DEF Chosen
<1> HIDE DEF h
<1>4. PICK g \in [SUBSET R -> RouteTables] : Folds(g, h, T, SUBSET R)
  BY <1>2, FoldDefined
<1>5. g = Step(g)
  <2>1. ASSUME NEW U \in SUBSET R, U # {}
        PROVE  h[<<Chosen(U), g[U \ {Chosen(U)}]>>] = UpsertRoute(Chosen(U), g[U \ {Chosen(U)}])
    <3>1. Chosen(U) \in R /\ g[U \ {Chosen(U)}] \in RouteTables
      BY <1>3, <2>1
    <3> QED BY <1>1, <3>1
  <2>2. g = [U \in SUBSET R |-> IF U = {} THEN T ELSE h[<<Chosen(U), g[U \ {Chosen(U)}]>>]]
    BY <1>4 DEF Folds
  <2>3. \A U \in SUBSET R :
          (IF U = {} THEN T ELSE h[<<Chosen(U), g[U \ {Chosen(U)}]>>])
            = (IF U = {} THEN T ELSE UpsertRoute(Chosen(U), g[U \ {Chosen(U)}]))
    BY <2>1
  <2> QED BY <2>2, <2>3, Zenon
<1> DEFINE it == CHOOSE f : f = Step(f)
<1>6. it = Step(it)
  BY <1>5, Zenon
<1>7. FoldSet(UpsertRoute, T, R) = it[R]
  BY Zenon DEF FoldSet, MapThenFoldSet, Chosen
<1> HIDE DEF it
<1>8. it[{}] = T
  BY <1>6
<1>9. ASSUME NEW U \in SUBSET R, U # {}
      PROVE  it[U] = UpsertRoute(Chosen(U), it[U \ {Chosen(U)}])
  BY <1>6, <1>9, Zenon
<1>10. \A U \in SUBSET R : U # {} => \E x \in U : it[U] = UpsertRoute(x, it[U \ {x}])
  BY <1>3, <1>9
<1> QED BY <1>7, <1>8, <1>10

(* Every key stays in the table and no other one comes in, the extremes only*)
(* spread, and of rows with different keys each is in the table after them. *)
LEMMA CityFold ==
  ASSUME NEW T \in CityTables, NEW R \in SUBSET CityRec, IsFiniteSet(R)
  PROVE  /\ FoldSet(UpsertCity, T, R) \in CityTables
         /\ \A r \in T \cup R : \E s \in FoldSet(UpsertCity, T, R) :
              SameCity(s, r) /\ s.low <= r.low /\ r.high <= s.high
         /\ \A s \in FoldSet(UpsertCity, T, R) : \E r \in T \cup R : SameCity(s, r)
         /\ (\A r, s \in R : SameCity(r, s) => r = s) =>
              \A r \in R : \E s \in FoldSet(UpsertCity, T, R) : SameCity(s, r) /\ s.n = r.n
<1>1. PICK it :
        /\ it[{}] = T /\ FoldSet(UpsertCity, T, R) = it[R]
        /\ \A U \in SUBSET R : U # {} => \E x \in U : it[U] = UpsertCity(x, it[U \ {x}])
  BY CityChain
<1> DEFINE Spans(s, r) == SameCity(s, r) /\ s.low <= r.low /\ r.high <= s.high
           Kept(U) == \A r \in T \cup U : \E s \in it[U] : Spans(s, r)
           Exact(U) == (\A r, s \in R : SameCity(r, s) => r = s) =>
                         \A r \in U : \E s \in it[U] : SameCity(s, r) /\ s.n = r.n
           From(U) == \A s \in it[U] : \E r \in T \cup U : SameCity(s, r)
           G == {U \in SUBSET R : it[U] \in CityTables /\ Kept(U) /\ From(U) /\ Exact(U)}
<1>2. {} \in G
  <2>1. \A r \in T : SameCity(r, r) /\ r.low <= r.low /\ r.high <= r.high
    BY DEF SameCity, CityTables, CityRec
  <2> QED BY <1>1, <2>1
<1>3. ASSUME NEW U \in SUBSET R, U # {}, \A x \in U : U \ {x} \in G PROVE U \in G
  <2>1. PICK x \in U : it[U] = UpsertCity(x, it[U \ {x}])
    BY <1>1, <1>3
  <2> DEFINE v == it[U \ {x}]
  <2>2. /\ v \in CityTables /\ x \in CityRec
        /\ Kept(U \ {x}) /\ From(U \ {x}) /\ Exact(U \ {x})
    BY <1>3, <2>1
  <2> HIDE DEF v
  <2>3. it[U] \in CityTables
    BY <2>1, <2>2, UpsertCityType DEF v
  <2>4. PICK new \in CityRec :
          /\ it[U] = {r \in v : ~SameCity(r, x)} \cup {new}
          /\ SameCity(new, x) /\ new.n = x.n
          /\ new.low <= x.low /\ x.high <= new.high
          /\ \A r \in v : SameCity(r, x) => new.low <= r.low /\ r.high <= new.high
    <3>1. it[U] = UpsertCity(x, v)
      BY <2>1 DEF v
    <3> QED BY <2>2, <3>1, UpsertCityRow
  <2>5. Kept(U)
    <3>1. ASSUME NEW r \in T \cup U PROVE \E s \in it[U] : Spans(s, r)
      <4>1. CASE r = x
        BY <2>4, <4>1
      <4>2. CASE r # x
        <5>1. PICK s \in v : Spans(s, r)
          BY <2>2, <4>2 DEF v
        <5>2. CASE ~SameCity(s, x)
          BY <2>4, <5>1, <5>2
        <5>3. CASE SameCity(s, x)
          <6>1. /\ s.low \in Int /\ s.high \in Int /\ r.low \in Int /\ r.high \in Int
                /\ new.low \in Int /\ new.high \in Int
            <7>1. s \in CityRec /\ r \in CityRec /\ new \in CityRec
              BY <2>2 DEF CityTables
            <7> QED BY <7>1 DEF CityRec
          <6>2. new.low <= s.low /\ s.high <= new.high
            BY <2>4, <5>3
          <6>3. new.low <= r.low /\ r.high <= new.high
            BY <5>1, <6>1, <6>2
          <6>4. SameCity(new, r)
            BY <2>4, <5>1, <5>3 DEF SameCity
          <6> QED BY <2>4, <6>3, <6>4
        <5> QED BY <5>2, <5>3
      <4> QED BY <4>1, <4>2
    <3> QED BY <3>1
  <2>6. Exact(U)
    <3>1. ASSUME \A r, s \in R : SameCity(r, s) => r = s, NEW r \in U
          PROVE  \E s \in it[U] : SameCity(s, r) /\ s.n = r.n
      <4>1. CASE r = x
        BY <2>4, <4>1
      <4>2. CASE r # x
        <5>1. PICK s \in v : SameCity(s, r) /\ s.n = r.n
          BY <2>2, <3>1, <4>2 DEF v
        <5>2. ~SameCity(r, x)
          BY <3>1, <4>2, <2>1
        <5>3. ~SameCity(s, x)
          BY <5>1, <5>2 DEF SameCity
        <5> QED BY <2>4, <5>1, <5>3
      <4> QED BY <4>1, <4>2
    <3> QED BY <3>1
  <2>7. From(U)
    <3>1. ASSUME NEW s \in it[U] PROVE \E r \in T \cup U : SameCity(s, r)
      <4>1. CASE s = new
        BY <2>4, <4>1
      <4>2. CASE s # new
        <5>1. s \in v
          BY <2>4, <4>2
        <5> QED BY <2>2, <5>1 DEF v
      <4> QED BY <4>1, <4>2
    <3> QED BY <3>1
  <2> HIDE DEF Kept, From, Exact
  <2> QED BY <2>3, <2>5, <2>6, <2>7
<1> HIDE DEF G
<1>4. R \in G
  BY <1>2, <1>3, SubsetInduction
<1> QED BY <1>1, <1>4 DEF G

(* A row of the table of routes is replaced as a whole.                     *)
LEMMA RouteFold ==
  ASSUME NEW T \in RouteTables, NEW R \in SUBSET RouteRec, IsFiniteSet(R)
  PROVE  /\ FoldSet(UpsertRoute, T, R) \in RouteTables
         /\ FoldSet(UpsertRoute, T, R) \subseteq T \cup R
         /\ \A r \in T \cup R : \E s \in FoldSet(UpsertRoute, T, R) : SameSegment(s, r)
<1>1. PICK it :
        /\ it[{}] = T /\ FoldSet(UpsertRoute, T, R) = it[R]
        /\ \A U \in SUBSET R : U # {} => \E x \in U : it[U] = UpsertRoute(x, it[U \ {x}])
  BY RouteChain
<1> DEFINE Kept(U) == \A r \in T \cup U : \E s \in it[U] : SameSegment(s, r)
           G == {U \in SUBSET R : it[U] \in RouteTables /\ it[U] \subseteq T \cup U /\ Kept(U)}
<1>2. {} \in G
  BY <1>1 DEF SameSegment
<1>3. ASSUME NEW U \in SUBSET R, U # {}, \A x \in U : U \ {x} \in G PROVE U \in G
  <2>1. PICK x \in U : it[U] = UpsertRoute(x, it[U \ {x}])
    BY <1>1, <1>3
  <2> DEFINE v == it[U \ {x}]
  <2>2. v \in RouteTables /\ v \subseteq T \cup U /\ Kept(U \ {x}) /\ x \in RouteRec
    BY <1>3, <2>1
  <2> HIDE DEF v
  <2>3. it[U] \in RouteTables
    BY <2>1, <2>2, UpsertRouteType DEF v
  <2>4. it[U] = {r \in v : ~SameSegment(r, x)} \cup {x}
    BY <2>1 DEF UpsertRoute, v
  <2>5. it[U] \subseteq T \cup U
    BY <2>2, <2>4
  <2>6. Kept(U)
    <3>1. ASSUME NEW r \in T \cup U PROVE \E s \in it[U] : SameSegment(s, r)
      <4>1. CASE SameSegment(x, r)
        BY <2>4, <4>1
      <4>2. CASE ~SameSegment(x, r)
        <5>1. r # x
          BY <4>2 DEF SameSegment
        <5>2. PICK s \in v : SameSegment(s, r)
          BY <2>2, <5>1 DEF v
        <5>3. ~SameSegment(s, x)
          BY <4>2, <5>2 DEF SameSegment
        <5> QED BY <2>4, <5>2, <5>3
      <4> QED BY <4>1, <4>2
    <3> QED BY <3>1
  <2> HIDE DEF Kept
  <2> QED BY <2>3, <2>5, <2>6
<1> HIDE DEF G
<1>4. R \in G
  BY <1>2, <1>3, SubsetInduction
<1> QED BY <1>1, <1>4 DEF G

(* The averages of a group of observations are on the scales of one.        *)
LEMMA GroupSums ==
  ASSUME NEW S \in SUBSET Observations, IsFiniteSet(S)
  PROVE  /\ MapThenSumSet(HazardScore, S) \in Int
         /\ 0 <= MapThenSumSet(HazardScore, S)
         /\ MapThenSumSet(HazardScore, S) <= Cardinality(S) * FullScore
         /\ MapThenSumSet(DelayFactor, S) \in Int
         /\ Cardinality(S) * NoDelay <= MapThenSumSet(DelayFactor, S)
         /\ MapThenSumSet(DelayFactor, S) <= Cardinality(S) * LongestDelay
<1>1. ASSUME NEW o \in S
      PROVE  /\ HazardScore(o) \in Int /\ 0 <= HazardScore(o) /\ HazardScore(o) <= FullScore
             /\ DelayFactor(o) \in Int
             /\ NoDelay <= DelayFactor(o) /\ DelayFactor(o) <= LongestDelay
  <2>1. Packet(o)
    <3>1. Validated(o) /\ o.cloud \subseteq Int /\ Measured(o.cloud, o.cloud)
      BY ApiAssumption
    <3> QED BY <3>1 DEF Packet, Measured
  <2>2. WindNorm(o) \in Int
    BY <2>1, NormRange DEF Unit
  <2>3. HazardScore(o) \in Int
    BY <2>1, HazardInRange
  <2>4. DelayFactor(o) \in Int
    BY <2>2, <2>3 DEF DelayFactor, NoDelay
  <2> QED BY <2>1, <2>4, HazardInRange, DelayInRange
<1>2. 0 \in Int /\ FullScore \in Int /\ NoDelay \in Int /\ LongestDelay \in Int
  BY DEF FullScore, Unit, NoDelay, LongestDelay
<1>3. /\ MapThenSumSet(HazardScore, S) \in Int
      /\ Cardinality(S) * 0 <= MapThenSumSet(HazardScore, S)
      /\ MapThenSumSet(HazardScore, S) <= Cardinality(S) * FullScore
  <2> DEFINE val == [o \in S |-> HazardScore(o)]
             Step(f) == [U \in SUBSET S |->
                           IF U = {} THEN 0 ELSE HazardScore(Chosen(U)) + f[U \ {Chosen(U)}]]
             it == CHOOSE f : f = Step(f)
  <2>1. val \in [S -> Int] /\ \A o \in S : 0 <= val[o] /\ val[o] <= FullScore
    BY <1>1
  <2>2. ASSUME NEW f PROVE (f = Step(f)) <=> Sums(f, val, SUBSET S)
    <3>1. \A U \in SUBSET S :
            (IF U = {} THEN 0 ELSE HazardScore(Chosen(U)) + f[U \ {Chosen(U)}])
              = (IF U = {} THEN 0 ELSE val[Chosen(U)] + f[U \ {Chosen(U)}])
      <4>1. ASSUME NEW U \in SUBSET S, U # {} PROVE val[Chosen(U)] = HazardScore(Chosen(U))
        <5>1. Chosen(U) \in S
          BY <4>1 DEF Chosen
        <5> QED BY <5>1
      <4> QED BY <4>1
    <3>2. Step(f) = [U \in SUBSET S |-> IF U = {} THEN 0 ELSE val[Chosen(U)] + f[U \ {Chosen(U)}]]
      BY <3>1, Zenon
    <3> QED BY <3>2, Zenon DEF Sums
  <2> HIDE DEF val
  <2>3. /\ \E f : Sums(f, val, SUBSET S)
        /\ \A f : Sums(f, val, SUBSET S) =>
             /\ f[S] \in Int
             /\ Cardinality(S) * 0 <= f[S] /\ f[S] <= Cardinality(S) * FullScore
    BY <1>2, <2>1, SumBetween
  <2>4. it = Step(it)
    BY <2>2, <2>3, Zenon
  <2>5. MapThenSumSet(HazardScore, S) = it[S]
    BY Zenon DEF MapThenSumSet, MapThenFoldSet, Chosen
  <2> HIDE DEF it, Step
  <2>6. Sums(it, val, SUBSET S)
    BY <2>2, <2>4
  <2> QED BY <2>3, <2>5, <2>6
<1>4. /\ MapThenSumSet(DelayFactor, S) \in Int
      /\ Cardinality(S) * NoDelay <= MapThenSumSet(DelayFactor, S)
      /\ MapThenSumSet(DelayFactor, S) <= Cardinality(S) * LongestDelay
  <2> DEFINE val == [o \in S |-> DelayFactor(o)]
             Step(f) == [U \in SUBSET S |->
                           IF U = {} THEN 0 ELSE DelayFactor(Chosen(U)) + f[U \ {Chosen(U)}]]
             it == CHOOSE f : f = Step(f)
  <2>1. val \in [S -> Int] /\ \A o \in S : NoDelay <= val[o] /\ val[o] <= LongestDelay
    BY <1>1
  <2>2. ASSUME NEW f PROVE (f = Step(f)) <=> Sums(f, val, SUBSET S)
    <3>1. \A U \in SUBSET S :
            (IF U = {} THEN 0 ELSE DelayFactor(Chosen(U)) + f[U \ {Chosen(U)}])
              = (IF U = {} THEN 0 ELSE val[Chosen(U)] + f[U \ {Chosen(U)}])
      <4>1. ASSUME NEW U \in SUBSET S, U # {} PROVE val[Chosen(U)] = DelayFactor(Chosen(U))
        <5>1. Chosen(U) \in S
          BY <4>1 DEF Chosen
        <5> QED BY <5>1
      <4> QED BY <4>1
    <3>2. Step(f) = [U \in SUBSET S |-> IF U = {} THEN 0 ELSE val[Chosen(U)] + f[U \ {Chosen(U)}]]
      BY <3>1, Zenon
    <3> QED BY <3>2, Zenon DEF Sums
  <2> HIDE DEF val
  <2>3. /\ \E f : Sums(f, val, SUBSET S)
        /\ \A f : Sums(f, val, SUBSET S) =>
             /\ f[S] \in Int
             /\ Cardinality(S) * NoDelay <= f[S] /\ f[S] <= Cardinality(S) * LongestDelay
    BY <1>2, <2>1, SumBetween
  <2>4. it = Step(it)
    BY <2>2, <2>3, Zenon
  <2>5. MapThenSumSet(DelayFactor, S) = it[S]
    BY Zenon DEF MapThenSumSet, MapThenFoldSet, Chosen
  <2> HIDE DEF it, Step
  <2>6. Sums(it, val, SUBSET S)
    BY <2>2, <2>4
  <2> QED BY <2>3, <2>5, <2>6
<1>5. Cardinality(S) \in Nat
  BY FS_CardinalityType
<1>6. Cardinality(S) * 0 = 0
  BY <1>5
<1> QED BY <1>3, <1>4, <1>6

LEMMA FiniteImage ==
  ASSUME NEW S, IsFiniteSet(S), NEW f, NEW T, T = {f[x] : x \in S}, f = [x \in S |-> f[x]]
  PROVE  IsFiniteSet(T)
<1>1. f \in Surjection(S, T)
  BY DEF Surjection
<1> QED BY <1>1, FS_Surjection

LEMMA FiniteExtremes ==
  ASSUME NEW S \in SUBSET Int, IsFiniteSet(S), S # {}
  PROVE  /\ Min(S) \in S /\ \A y \in S : Min(S) <= y
         /\ Max(S) \in S /\ \A y \in S : Max(S) >= y
<1> DEFINE Lowest(U) == \E x \in U : \A y \in U : x =< y
           Highest(U) == \E x \in U : \A y \in U : x >= y
           G == {U \in SUBSET S : U # {} => Lowest(U) /\ Highest(U)}
<1>1. {} \in G
  OBVIOUS
<1>2. ASSUME NEW U \in SUBSET S, U # {}, \A x \in U : U \ {x} \in G PROVE U \in G
  <2>1. PICK x \in U : TRUE
    BY <1>2
  <2> DEFINE W == U \ {x}
  <2>2. W # {} => Lowest(W) /\ Highest(W)
    BY <1>2
  <2>3. W \subseteq U /\ W \subseteq Int /\ x \in Int /\ \A y \in U : y = x \/ y \in W
    BY <2>1
  <2> HIDE DEF W
  <2>4. CASE W = {}
    <3>1. \A y \in U : y = x
      BY <2>3, <2>4
    <3> QED BY <2>1, <2>3, <3>1
  <2>5. CASE W # {}
    <3>1. PICK m \in W : \A y \in W : m =< y
      BY <2>2, <2>5
    <3>2. PICK n \in W : \A y \in W : n >= y
      BY <2>2, <2>5
    <3>3. m \in Int /\ n \in Int /\ m \in U /\ n \in U
      BY <2>3
    <3>4. Lowest(U)
      <4>1. CASE x =< m
        BY <2>3, <3>1, <3>3, <4>1
      <4>2. CASE m =< x
        BY <2>3, <3>1, <3>3, <4>2
      <4> QED BY <2>3, <3>3, <4>1, <4>2
    <3>5. Highest(U)
      <4>1. CASE x >= n
        BY <2>3, <3>2, <3>3, <4>1
      <4>2. CASE n >= x
        BY <2>3, <3>2, <3>3, <4>2
      <4> QED BY <2>3, <3>3, <4>1, <4>2
    <3> QED BY <3>4, <3>5
  <2> QED BY <2>4, <2>5
<1>3. S \in G
  <2> HIDE DEF G
  <2> QED BY <1>1, <1>2, SubsetInduction
<1>4. Lowest(S) /\ Highest(S)
  BY <1>3
<1>5. Min(S) \in S /\ \A y \in S : Min(S) <= y
  BY <1>4 DEF Min
<1>6. Max(S) \in S /\ \A y \in S : Max(S) >= y
  BY <1>4 DEF Max
<1> QED BY <1>5, <1>6

(* What ORDER BY ... LIMIT n leaves out is behind n others it has.          *)
LEMMA LeastAreFirst ==
  ASSUME NEW ranks \in SUBSET Int, IsFiniteSet(ranks), NEW n \in Nat,
         NEW i \in ranks, i \notin Least(ranks, n)
  PROVE  Full(Least(ranks, n), i, n)
<1> DEFINE Below(k) == {j \in ranks : j < k}
           first == Least(ranks, n)
           rest == ranks \ first
<1>1. ASSUME NEW k \in ranks
      PROVE  IsFiniteSet(Below(k)) /\ Cardinality(Below(k)) \in Nat
  BY FS_Subset, FS_CardinalityType
<1>2. \A k \in ranks : k \in first <=> Cardinality(Below(k)) < n
  BY DEF Least
<1>3. first \subseteq ranks
  BY DEF Least
<1> HIDE DEF first
<1>4. IsFiniteSet(first) /\ Cardinality(first) \in Nat
  BY <1>3, FS_Subset, FS_CardinalityType
<1>5. rest \in SUBSET Int /\ IsFiniteSet(rest) /\ rest # {}
  BY FS_Subset DEF first
<1> DEFINE u == Min(rest)
<1>6. u \in rest /\ \A y \in rest : u <= y
  BY <1>5, FiniteExtremes
<1> HIDE DEF u
<1>7. Below(u) \subseteq first
  <2>1. ASSUME NEW j \in ranks, j < u, j \notin first PROVE FALSE
    <3>1. j \in rest /\ j \in Int /\ u \in Int
      BY <1>5, <1>6, <2>1
    <3>2. u <= j
      BY <1>6, <3>1
    <3> QED BY <2>1, <3>1, <3>2
  <2> QED BY <2>1
<1>8. Cardinality(first) >= n
  <2>1. Cardinality(Below(u)) <= Cardinality(first)
    BY <1>4, <1>7, FS_Subset
  <2>2. ~(Cardinality(Below(u)) < n) /\ Cardinality(Below(u)) \in Nat
    BY <1>1, <1>2, <1>6
  <2> QED BY <1>4, <2>1, <2>2
<1>9. ASSUME NEW j \in first PROVE j < i
  <2>1. i \in Int /\ j \in Int /\ j \in ranks
    BY <1>3
  <2>2. CASE i <= j
    <3>1. Below(i) \subseteq Below(j)
      <4>1. ASSUME NEW k \in ranks, k < i PROVE k < j
        BY <2>1, <2>2, <4>1
      <4> QED BY <4>1
    <3>2. Cardinality(Below(i)) <= Cardinality(Below(j))
      BY <1>1, <2>1, <3>1, FS_Subset
    <3>3. ~(Cardinality(Below(i)) < n) /\ Cardinality(Below(j)) < n
      BY <1>2, <2>1 DEF first
    <3> QED BY <1>1, <2>1, <3>2, <3>3
  <2> QED BY <2>1, <2>2
<1> QED BY <1>8, <1>9 DEF first, Full

-----------------------------------------------------------------------------
(* What a batch adds to the tables.                                         *)
SameCityIn(B, o) == {p \in B : SameCity(o, p)}
SameSegmentIn(B, o) == {p \in B : SameSegment(o, p)}

LEMMA TileRowsOf ==
  ASSUME NEW B \in Batches
  PROVE  /\ TileRows(B) \in SUBSET TileRec
         /\ \A o \in B : \E r \in TileRows(B) : SameTile(r, o)
         /\ \A r \in TileRows(B) : \E p \in B :
              SameTile(r, p) /\ r.n = Cardinality({x \in B : TileGroup(p, x)})
<1> DEFINE Group(o) == {p \in B : TileGroup(o, p)}
           Row(o) == [minute |-> o.minute, tile |-> o.tile, region |-> o.region,
                      n |-> Cardinality(Group(o))]
<1>1. B \subseteq Observations /\ IsFiniteSet(B)
  BY ApiAssumption
<1>2. TileRows(B) = {Row(o) : o \in B}
  BY DEF TileRows
<1>3. ASSUME NEW o \in B PROVE Row(o) \in TileRec
  <2>1. Cardinality(Group(o)) \in Nat
    BY <1>1, FS_Subset, FS_CardinalityType
  <2> HIDE DEF Group
  <2>2. o \in Observations /\ o.minute \in Nat
    BY <1>1, ApiAssumption
  <2> QED BY <2>1, <2>2 DEF TileRec
<1>4. ASSUME NEW o \in B PROVE SameTile(Row(o), o) /\ Row(o).n = Cardinality(Group(o))
  BY DEF SameTile
<1> HIDE DEF Row
<1>5. \A r \in TileRows(B) : \E p \in B : SameTile(r, p) /\ r.n = Cardinality(Group(p))
  BY <1>2, <1>4
<1> QED BY <1>2, <1>3, <1>4, <1>5

(* Of the rows with one key, one is stored, and no other row has its key.   *)
LEMMA TilesUpserted ==
  ASSUME NEW T \in TileTables, NEW R \in SUBSET TileRec, NEW L \in LastOfKeys(R)
  PROVE  /\ UpsertTiles(L, T) \in TileTables
         /\ UpsertTiles(L, T) \subseteq T \cup R
         /\ \A r \in T \cup R : \E s \in UpsertTiles(L, T) : SameTile(s, r)
         /\ \A r \in R : \E s \in UpsertTiles(L, T) \cap R : SameTile(s, r)
<1>1. L \subseteq R /\ \A r \in R : \E s \in L : \A u \in L : SameTile(r, u) <=> u = s
  BY DEF LastOfKeys
<1>2. UpsertTiles(L, T) = {r \in T : \A s \in L : ~SameTile(r, s)} \cup L
  BY DEF UpsertTiles
<1>3. ASSUME NEW r \in L, NEW s \in L, SameTile(r, s) PROVE r = s
  <2>1. PICK x \in L : \A u \in L : SameTile(r, u) <=> u = x
    BY <1>1
  <2>2. SameTile(r, r)
    BY DEF SameTile
  <2> QED BY <1>3, <2>1, <2>2
<1>4. ASSUME NEW r \in UpsertTiles(L, T), NEW s \in UpsertTiles(L, T), SameTile(r, s)
      PROVE  r = s
  <2>1. SameTile(s, r)
    BY <1>4 DEF SameTile
  <2> QED BY <1>2, <1>3, <1>4, <2>1 DEF TileTables
<1>5. UpsertTiles(L, T) \subseteq T \cup R
  BY <1>1, <1>2
<1>6. UpsertTiles(L, T) \in TileTables
  BY <1>4, <1>5 DEF TileTables
<1>7. ASSUME NEW r \in R PROVE \E s \in UpsertTiles(L, T) \cap R : SameTile(s, r)
  <2>1. PICK s \in L : \A u \in L : SameTile(r, u) <=> u = s
    BY <1>1
  <2>2. SameTile(r, s)
    BY <2>1
  <2> QED BY <1>1, <1>2, <2>2 DEF SameTile
<1>8. ASSUME NEW r \in T PROVE \E s \in UpsertTiles(L, T) : SameTile(s, r)
  <2>1. CASE \A s \in L : ~SameTile(r, s)
    BY <1>2, <2>1 DEF SameTile
  <2>2. CASE \E s \in L : SameTile(r, s)
    BY <1>2, <2>2 DEF SameTile
  <2> QED BY <2>1, <2>2
<1> QED BY <1>5, <1>6, <1>7, <1>8

LEMMA CityRowsOf ==
  ASSUME NEW B \in Batches
  PROVE  /\ IsFiniteSet(CityRows(B)) /\ CityRows(B) \in SUBSET CityRec
         /\ \A r, s \in CityRows(B) : SameCity(r, s) => r = s
         /\ \A o \in B : \E r \in CityRows(B) :
              /\ SameCity(r, o) /\ r.n = Cardinality(SameCityIn(B, o))
              /\ r.low <= o.temperature /\ o.temperature <= r.high
         /\ \A r \in CityRows(B) : \E o \in B : SameCity(r, o)
<1> DEFINE Any(S) == CHOOSE o \in S : TRUE
           Row(S) == [minute |-> Any(S).minute, city |-> Any(S).city,
                      region |-> Any(S).region, country |-> Any(S).country,
                      n |-> Cardinality(S),
                      low |-> Min({p.temperature : p \in S}),
                      high |-> Max({p.temperature : p \in S})]
<1>1. B \subseteq Observations /\ IsFiniteSet(B)
  BY ApiAssumption
<1>2. CityRows(B) = {Row(SameCityIn(B, o)) : o \in B}
  BY DEF CityRows, SameCityIn
<1>3. ASSUME NEW o \in B
      PROVE  /\ Row(SameCityIn(B, o)) \in CityRec
             /\ SameCity(Row(SameCityIn(B, o)), o)
             /\ Row(SameCityIn(B, o)).n = Cardinality(SameCityIn(B, o))
             /\ Row(SameCityIn(B, o)).low <= o.temperature
             /\ o.temperature <= Row(SameCityIn(B, o)).high
  <2> DEFINE S == SameCityIn(B, o)
             T == {p.temperature : p \in S}
             a == Any(S)
  <2>1. o \in S /\ S \subseteq B /\ S \subseteq Observations
    BY <1>1 DEF SameCityIn, SameCity
  <2>2. a \in S
    BY <2>1
  <2>3. SameCity(o, a) /\ a \in Observations
    BY <2>1, <2>2 DEF SameCityIn
  <2>4. IsFiniteSet(S) /\ Cardinality(S) \in Nat
    BY <1>1, <2>1, FS_Subset, FS_CardinalityType
  <2> HIDE DEF S
  <2>5. T \in SUBSET Int /\ T # {} /\ o.temperature \in T
    BY <2>1, ApiAssumption DEF Validated
  <2>6. IsFiniteSet(T)
    <3> DEFINE f == [p \in S |-> p.temperature]
    <3>1. T = {f[p] : p \in S} /\ f = [p \in S |-> f[p]]
      OBVIOUS
    <3> HIDE DEF f, T
    <3> QED BY <2>4, <3>1, FiniteImage
  <2> HIDE DEF T
  <2>7. /\ Min(T) \in Int /\ Min(T) <= o.temperature
        /\ Max(T) \in Int /\ o.temperature <= Max(T)
    BY <2>5, <2>6, FiniteExtremes
  <2>8. Row(S) = [minute |-> a.minute, city |-> a.city, region |-> a.region,
                  country |-> a.country, n |-> Cardinality(S), low |-> Min(T), high |-> Max(T)]
    BY DEF T
  <2> HIDE DEF a, Row
  <2>9. a.minute \in Nat
    BY <2>3, ApiAssumption
  <2>10. Row(S) \in CityRec
    BY <2>3, <2>4, <2>7, <2>8, <2>9 DEF CityRec
  <2>11. SameCity(Row(S), o) /\ Row(S).n = Cardinality(S)
    BY <2>3, <2>8 DEF SameCity
  <2>12. Row(S).low <= o.temperature /\ o.temperature <= Row(S).high
    BY <2>7, <2>8
  <2> QED BY <2>10, <2>11, <2>12 DEF S
<1> HIDE DEF Row
<1>4. IsFiniteSet(CityRows(B))
  <2> DEFINE f == [o \in B |-> Row(SameCityIn(B, o))]
  <2>1. CityRows(B) = {f[o] : o \in B} /\ f = [o \in B |-> f[o]]
    BY <1>2
  <2> HIDE DEF f
  <2> QED BY <1>1, <2>1, FiniteImage
<1>5. ASSUME NEW o \in B, NEW p \in B,
             SameCity(Row(SameCityIn(B, o)), Row(SameCityIn(B, p)))
      PROVE  Row(SameCityIn(B, o)) = Row(SameCityIn(B, p))
  <2>1. SameCity(o, p)
    BY <1>3, <1>5 DEF SameCity
  <2>2. SameCityIn(B, o) = SameCityIn(B, p)
    BY <2>1 DEF SameCity, SameCityIn
  <2> QED BY <2>2
<1> QED BY <1>2, <1>3, <1>4, <1>5

(* The averages of a row of a route are on their scales.                    *)
InScale(r) ==
  /\ r.n * NoDelay <= r.delay /\ r.delay <= r.n * LongestDelay
  /\ 0 <= r.hazard /\ r.hazard <= r.n * FullScore

LEMMA RouteRowsOf ==
  ASSUME NEW B \in Batches
  PROVE  /\ IsFiniteSet(RouteRows(B)) /\ RouteRows(B) \in SUBSET RouteRec
         /\ \A r \in RouteRows(B) : InScale(r)
         /\ \A o \in B : \E r \in RouteRows(B) : SameSegment(r, o)
         /\ \A r \in RouteRows(B) : \E o \in B : SameSegment(r, o)
<1>1. B \subseteq Observations /\ IsFiniteSet(B)
  BY ApiAssumption
<1>2. RouteRows(B) = {RouteRow(SameSegmentIn(B, o)) : o \in B}
  BY DEF RouteRows, SameSegmentIn
<1>3. ASSUME NEW o \in B
      PROVE  /\ RouteRow(SameSegmentIn(B, o)) \in RouteRec
             /\ InScale(RouteRow(SameSegmentIn(B, o)))
             /\ SameSegment(RouteRow(SameSegmentIn(B, o)), o)
  <2> DEFINE S == SameSegmentIn(B, o)
             a == CHOOSE q \in S : TRUE
  <2>1. o \in S /\ S \subseteq B /\ S \in SUBSET Observations
    BY <1>1 DEF SameSegmentIn, SameSegment
  <2>2. a \in S
    BY <2>1
  <2>3. SameSegment(o, a) /\ a \in Observations
    BY <2>1, <2>2 DEF SameSegmentIn
  <2>4. IsFiniteSet(S) /\ Cardinality(S) \in Nat
    BY <1>1, <2>1, FS_Subset, FS_CardinalityType
  <2> HIDE DEF S
  <2> DEFINE hazard == MapThenSumSet(HazardScore, S)
             delay == MapThenSumSet(DelayFactor, S)
  <2>5. /\ hazard \in Int /\ 0 <= hazard /\ hazard <= Cardinality(S) * FullScore
        /\ delay \in Int
        /\ Cardinality(S) * NoDelay <= delay /\ delay <= Cardinality(S) * LongestDelay
    BY <2>1, <2>4, GroupSums
  <2>6. RouteRow(S) = [minute |-> a.minute, route |-> a.route, segment |-> a.segment,
                       n |-> Cardinality(S), hazard |-> hazard, delay |-> delay]
    BY Zenon DEF RouteRow
  <2> HIDE DEF a, hazard, delay
  <2>7. a.minute \in Nat
    BY <2>3, ApiAssumption
  <2>8. RouteRow(S) \in RouteRec
    BY <2>3, <2>4, <2>5, <2>6, <2>7 DEF RouteRec
  <2>9. InScale(RouteRow(S))
    BY <2>5, <2>6 DEF InScale
  <2>10. SameSegment(RouteRow(S), o)
    BY <2>3, <2>6 DEF SameSegment
  <2> QED BY <2>8, <2>9, <2>10 DEF S
<1>4. IsFiniteSet(RouteRows(B))
  <2> DEFINE f == [o \in B |-> RouteRow(SameSegmentIn(B, o))]
  <2>1. RouteRows(B) = {f[o] : o \in B} /\ f = [o \in B |-> f[o]]
    BY <1>2
  <2> HIDE DEF f
  <2> QED BY <1>1, <2>1, FiniteImage
<1> QED BY <1>2, <1>3, <1>4

-----------------------------------------------------------------------------
(* The inductive invariant.                                                 *)

(* Every observation that is stored has a row with its key in each table,   *)
(* and the row of its city spans its temperature: what a late batch replaces*)
(* keeps its key.  No row is of a minute nothing is stored of.              *)
Sourced(T) == \A r \in T : \E o \in stored : r.minute = o.minute

TableInv ==
  /\ tiles \in TileTables /\ cities \in CityTables /\ routes \in RouteTables
  /\ \A r \in routes : InScale(r)
  /\ stored \subseteq Observations /\ compared \subseteq Comparisons
  /\ IsFiniteSet(stored) /\ IsFiniteSet(compared)
  /\ \A o \in stored :
       /\ \E r \in tiles : SameTile(r, o)
       /\ \E r \in routes : SameSegment(r, o)
       /\ \E r \in cities : /\ SameCity(r, o)
                            /\ r.low <= o.temperature /\ o.temperature <= r.high
  /\ Sourced(tiles) /\ Sourced(cities) /\ Sourced(routes)

Busy == {"query", "open", "write", "psql", "remove"}
Places == Busy \cup {"free", "read", "send"}

SettingInv ==
  /\ mix \in Mixes /\ client \in {"libpq", "psql", "none"}
  /\ running \in BOOLEAN /\ mpc \in {"loop", "poll", "return", "exit"}
  /\ requests \in 0..MaxRequests

FunctionsInv ==
  /\ pc \in [Threads -> Places] /\ req \in [Threads -> Requests]
  /\ todo = [t \in Threads |-> todo[t]]
  /\ reply = [t \in Threads |-> reply[t]] /\ known = [t \in Threads |-> known[t]]

(* A handler at work has a kind of request that is answered by statements,  *)
(* and its last statements still to execute.                                *)
Answerable == WeatherKinds \cup {"personal", "refresh"}
Rests(q) ==
  IF q.kind = "personal" THEN {<<"baselines", "comparisons">>, <<"comparisons">>}
  ELSE {<<q.kind>>}

IsReply(r) ==
  /\ r = [code |-> r.code, source |-> r.source, rows |-> r.rows, baselines |-> r.baselines]
  /\ r.code \in {0, 200, 400, 404, 500}

(* The two properties of an answer.                                         *)
Fits(q, r) ==
  /\ \A x \in r.rows \cup r.baselines : Asked(q, x)
  /\ q.kind \in MapKinds => \A x, y \in r.rows : x.minute = y.minute
UpToDate(q, r, K, now) ==
  \A seen \in K : r.source = "timescale" => Current(q, r.rows, seen, now)

ThreadInv(t) ==
  /\ pc[t] \in {"free", "read", "send"} => todo[t] = <<>>
  /\ pc[t] \in {"free", "read"} => reply[t] = NoReply
  /\ pc[t] \in Busy => req[t].kind \in Answerable /\ todo[t] \in Rests(req[t])
  /\ IsReply(reply[t])
  /\ known[t] \subseteq CouldTell(req[t])
  /\ t \notin overlap => Fits(req[t], reply[t]) /\ UpToDate(req[t], reply[t], known[t], stored)

(* A query that met no other one has the temporary file for itself: what it *)
(* wrote is there when psql reads it.                                       *)
FileInv ==
  /\ file \in Threads \cup {"absent", "empty", "mixed"}
  /\ writers \subseteq InFile /\ overlap \subseteq Threads
  /\ \A t, u \in InFile : t # u => t \in overlap
  /\ \A t \in Threads \ overlap :
       /\ pc[t] = "write" => file = "empty" /\ t \in writers
       /\ pc[t] = "psql" => file = t

Inv ==
  /\ SettingInv /\ TableInv /\ FunctionsInv /\ FileInv
  /\ \A t \in Threads : ThreadInv(t)

-----------------------------------------------------------------------------
(* The answers.                                                             *)

LEMMA ReplyShape ==
  ASSUME NEW r, IsReply(r), NEW s, NEW rows
  PROVE  IsReply(WithRows(r, s, rows)) /\ IsReply(WithoutRows(r, s))
<1>1. ASSUME NEW code \in {0, 200, 400, 404, 500}, NEW source PROVE IsReply(Answer(code, source))
  BY DEF Answer, IsReply
<1>2. ASSUME NEW any PROVE IsReply(WithRows(r, s, any))
  <2>1. CASE s = "refresh"
    BY <1>1, <2>1 DEF WithRows
  <2>2. CASE s = "baselines"
    BY <2>2 DEF WithRows, Answer, IsReply
  <2>3. CASE s # "refresh" /\ s # "baselines"
    BY <2>3 DEF WithRows, IsReply
  <2> QED BY <2>1, <2>2, <2>3
<1>3. IsReply(WithoutRows(r, s))
  <2>1. CASE s = "refresh"
    BY <1>1, <2>1 DEF WithoutRows
  <2>2. CASE s \in {"baselines", "comparisons"}
    BY <1>2, <2>2 DEF WithoutRows
  <2>3. CASE s # "refresh" /\ s \notin {"baselines", "comparisons"}
    BY <1>1, <2>3 DEF WithoutRows, Fallback
  <2> QED BY <2>1, <2>2, <2>3
<1> QED BY <1>2, <1>3

(* All rows of the newest minute are of one minute, and none of a stored    *)
(* observation is later.                                                    *)
LEMMA LatestIsOne ==
  ASSUME NEW T, \A r \in T : r.minute \in Nat
  PROVE  /\ \A r, s \in Latest(T) : r.minute = s.minute
         /\ \A r \in Latest(T), s \in T : s.minute <= r.minute
<1>1. \A r, s \in Latest(T) : /\ r.minute \in Nat /\ s.minute \in Nat
                              /\ r.minute <= s.minute /\ s.minute <= r.minute
  BY DEF Latest
<1> QED BY <1>1 DEF Latest

(* A row of an earlier minute stands behind an observation that is stored.  *)
LEMMA LaterRow ==
  ASSUME NEW T, \A r \in T : r.minute \in Nat, NEW now,
         \A r \in T : \E o \in now : r.minute = o.minute,
         NEW y \in T, y \notin Latest(T)
  PROVE  \E o \in now : y.minute < o.minute
<1>1. PICK x \in T : ~(x.minute <= y.minute)
  BY DEF Latest
<1>2. PICK o \in now : x.minute = o.minute
  OBVIOUS
<1>3. y.minute < o.minute
  BY <1>1, <1>2
<1> QED BY <1>3

(* What each statement returns, what it was asked for, and what the answer  *)
(* made of it has to tell.                                                  *)
LEMMA RowsOfKinds ==
  ASSUME NEW q
  PROVE  /\ RowsOf("tiles", q) = TilesQuery(q)
         /\ RowsOf("summary", q) = SummaryQuery(q)
         /\ RowsOf("png", q) = PngQuery(q)
         /\ RowsOf("routes", q) = RouteQuery(q)
         /\ RowsOf("cities", q) = CitiesQuery(q)
         /\ RowsOf("timeseries", q) = TimeseriesQuery(q)
         /\ RowsOf("historySummary", q) = HistoryQuery(q)
         /\ RowsOf("baselines", q) = BaselinesQuery(q)
         /\ RowsOf("comparisons", q) = ComparisonsQuery(q)
BY DEF RowsOf, HistoryKinds

LEMMA AskedKinds ==
  ASSUME NEW q, NEW x
  PROVE  /\ q.kind \in {"tiles", "png", "summary"} => (Asked(q, x) <=> x.tile \in q.inside)
         /\ q.kind = "routes" =>
              (Asked(q, x) <=> x.route = AskedRoute(q) /\ x.segment \in AskedSegments(q))
         /\ q.kind \in HistoryKinds =>
              (Asked(q, x) <=> x.city = q.city /\ x.minute \in q.minutes)
         /\ q.kind = "personal" => (Asked(q, x) <=> x.profile = q.profile)
         /\ q.kind \in {"cities", "refresh"} => Asked(q, x)
<1>1. q.kind \in {"tiles", "png", "summary"} => (Asked(q, x) <=> x.tile \in q.inside)
  BY DEF Asked, HistoryKinds
<1>2. q.kind = "routes" =>
        (Asked(q, x) <=> x.route = AskedRoute(q) /\ x.segment \in AskedSegments(q))
  BY DEF Asked, HistoryKinds
<1>3. q.kind \in HistoryKinds => (Asked(q, x) <=> x.city = q.city /\ x.minute \in q.minutes)
  BY DEF Asked, HistoryKinds
<1>4. q.kind = "personal" => (Asked(q, x) <=> x.profile = q.profile)
  BY DEF Asked, HistoryKinds
<1>5. q.kind \in {"cities", "refresh"} => Asked(q, x)
  BY DEF Asked, HistoryKinds
<1> QED BY <1>1, <1>2, <1>3, <1>4, <1>5

LEMMA CurrentKinds ==
  ASSUME NEW q, NEW R, NEW o, NEW now
  PROVE  /\ q.kind \in MapKinds =>
              (Current(q, R, o, now) <=>
                 /\ \A r \in R : o.minute <= r.minute
                 /\ Shown(q, o) => \/ \E r \in R : RowFor(q, r, o)
                                  \/ \E x \in now : o.minute < x.minute)
         /\ q.kind \in HistoryKinds =>
              (Current(q, R, o, now) <=>
                 ((o.city = q.city /\ o.minute \in q.minutes) =>
                    \/ \E r \in R : Covers(r, o)
                    \/ /\ q.kind = "timeseries"
                       /\ Full({Bucket(q, r) : r \in R}, Bucket(q, o), HistoryLimit)))
         /\ q.kind = "cities" => (Current(q, R, o, now) <=> \E r \in R : r.city = o.city)
         /\ q.kind = "personal" =>
              (Current(q, R, o, now) <=>
                 \/ R = {} \/ ~Asked(q, o) \/ o \in R
                 \/ Full({Age(c) : c \in R}, Age(o), ComparisonLimit))
<1>1. ASSUME q.kind \in MapKinds
      PROVE  Current(q, R, o, now) <=>
                 /\ \A r \in R : o.minute <= r.minute
                 /\ Shown(q, o) => \/ \E r \in R : RowFor(q, r, o)
                                  \/ \E x \in now : o.minute < x.minute
  BY <1>1 DEF Current, HistoryKinds, MapKinds
<1>2. ASSUME q.kind \in HistoryKinds
      PROVE  Current(q, R, o, now) <=>
                 ((o.city = q.city /\ o.minute \in q.minutes) =>
                    \/ \E r \in R : Covers(r, o)
                    \/ /\ q.kind = "timeseries"
                       /\ Full({Bucket(q, r) : r \in R}, Bucket(q, o), HistoryLimit))
  <2>1. q.kind \notin MapKinds
    BY <1>2 DEF HistoryKinds, MapKinds
  <2> QED BY <1>2, <2>1 DEF Current, HistoryKinds, MapKinds
<1>3. ASSUME q.kind = "cities"
      PROVE  Current(q, R, o, now) <=> \E r \in R : r.city = o.city
  <2>1. q.kind \notin MapKinds /\ q.kind \notin HistoryKinds
    BY <1>3 DEF HistoryKinds, MapKinds
  <2> QED BY <1>3, <2>1 DEF Current
<1>4. ASSUME q.kind = "personal"
      PROVE  Current(q, R, o, now) <=>
                 \/ R = {} \/ ~Asked(q, o) \/ o \in R
                 \/ Full({Age(c) : c \in R}, Age(o), ComparisonLimit)
  <2>1. q.kind \notin MapKinds /\ q.kind \notin HistoryKinds /\ q.kind # "cities"
    BY <1>4 DEF HistoryKinds, MapKinds
  <2> QED BY <1>4, <2>1 DEF Current
<1> QED BY <1>1, <1>2, <1>3, <1>4

(* The fields of a reply with rows.                                         *)
LEMMA RowsInReply ==
  ASSUME NEW r, IsReply(r), NEW s, s \notin {"refresh", "baselines"}, NEW rows
  PROVE  WithRows(r, s, rows).rows = rows /\ WithRows(r, s, rows).baselines = r.baselines
BY DEF WithRows, IsReply

(* The rows of a map are of one minute, no earlier than any that is stored. *)
LEMMA MapAnswers ==
  ASSUME TableInv, NEW q, NEW K, K \subseteq CouldTell(q),
         q.kind \in MapKinds, NEW r, IsReply(r), Fits(q, r)
  PROVE  /\ Fits(q, WithRows(r, q.kind, RowsOf(q.kind, q)))
         /\ UpToDate(q, WithRows(r, q.kind, RowsOf(q.kind, q)), K, stored)
<1> DEFINE rows == RowsOf(q.kind, q)
           a == WithRows(r, q.kind, rows)
<1>1. a.rows = rows /\ a.baselines = r.baselines
  BY RowsInReply DEF MapKinds
<1>2. K \subseteq stored
  BY DEF CouldTell, WeatherKinds, MapKinds
<1>3. CASE q.kind \in {"tiles", "summary", "png"}
  <2>1. /\ \A x \in rows : x \in Latest(tiles) /\ x.tile \in q.inside
        /\ \A x \in Latest(tiles) : Shown(q, x) => x \in rows
    <3>1. q.kind # "routes" /\ (q.kind \in {"tiles", "summary"} \/ q.kind = "png")
      BY <1>3
    <3> QED BY <3>1, RowsOfKinds DEF TilesQuery, SummaryQuery, PngQuery, Shown
  <2> HIDE DEF rows, a
  <2>2. \A x \in rows : Asked(q, x)
    BY <1>3, <2>1, AskedKinds
  <2>3. \A x \in tiles : x.minute \in Nat
    BY DEF TableInv, TileTables, TileRec
  <2>4. \A x, y \in rows : x.minute = y.minute
    BY <2>1, <2>3, LatestIsOne
  <2>5. ASSUME NEW o \in K PROVE Current(q, rows, o, stored)
    <3>1. PICK y \in tiles : SameTile(y, o)
      BY <1>2 DEF TableInv
    <3>2. o.minute = y.minute /\ (Shown(q, o) => Shown(q, y))
      BY <1>3, <3>1 DEF SameTile, Shown
    <3>3. \A x \in rows : o.minute <= x.minute
      BY <2>1, <2>3, <3>2, LatestIsOne
    <3>4. ASSUME Shown(q, o)
          PROVE  (\E x \in rows : RowFor(q, x, o)) \/ \E x \in stored : o.minute < x.minute
      <4>1. CASE y \in Latest(tiles)
        <5>1. y \in rows
          BY <2>1, <3>2, <3>4, <4>1
        <5>2. RowFor(q, y, o)
          BY <1>3, <3>1 DEF RowFor
        <5> QED BY <5>1, <5>2
      <4>2. CASE y \notin Latest(tiles)
        <5>1. \A x \in tiles : \E z \in stored : x.minute = z.minute
          BY DEF TableInv, Sourced
        <5>2. \E z \in stored : y.minute < z.minute
          BY <2>3, <4>2, <5>1, LaterRow
        <5> QED BY <3>2, <5>2
      <4> QED BY <4>1, <4>2
    <3> QED BY <3>3, <3>4, CurrentKinds
  <2> QED BY <1>1, <2>2, <2>4, <2>5 DEF Fits, UpToDate, a, rows
<1>4. CASE q.kind = "routes"
  <2>1. rows = RouteQuery(q)
    BY <1>4, RowsOfKinds
  <2> HIDE DEF rows, a
  <2>2. \A x \in rows : Asked(q, x)
    BY <1>4, <2>1, AskedKinds DEF RouteQuery
  <2>3. \A x \in routes : x.minute \in Nat
    BY DEF TableInv, RouteTables, RouteRec
  <2>4. \A x, y \in rows : x.minute = y.minute
    BY <2>1, <2>3, LatestIsOne DEF RouteQuery
  <2>5. ASSUME NEW o \in K PROVE Current(q, rows, o, stored)
    <3>1. PICK y \in routes : SameSegment(y, o)
      BY <1>2 DEF TableInv
    <3>2. /\ o.minute = y.minute
          /\ Shown(q, o) => y.route = AskedRoute(q) /\ y.segment \in AskedSegments(q)
      BY <1>4, <3>1 DEF SameSegment, Shown
    <3>3. \A x \in rows : o.minute <= x.minute
      BY <2>1, <2>3, <3>2, LatestIsOne DEF RouteQuery
    <3>4. ASSUME Shown(q, o)
          PROVE  (\E x \in rows : RowFor(q, x, o)) \/ \E x \in stored : o.minute < x.minute
      <4>1. CASE y \in Latest(routes)
        <5>1. y \in rows
          BY <2>1, <3>2, <3>4, <4>1 DEF RouteQuery
        <5>2. RowFor(q, y, o)
          BY <1>4, <3>1 DEF RowFor
        <5> QED BY <5>1, <5>2
      <4>2. CASE y \notin Latest(routes)
        <5>1. \A x \in routes : \E z \in stored : x.minute = z.minute
          BY DEF TableInv, Sourced
        <5>2. \E z \in stored : y.minute < z.minute
          BY <2>3, <4>2, <5>1, LaterRow
        <5> QED BY <3>2, <5>2
      <4> QED BY <4>1, <4>2
    <3>5. q.kind \in MapKinds
      BY <1>4 DEF MapKinds
    <3> QED BY <3>3, <3>4, <3>5, CurrentKinds
  <2> QED BY <1>1, <2>2, <2>4, <2>5 DEF Fits, UpToDate, a, rows
<1> QED BY <1>3, <1>4 DEF MapKinds

(* The rows of a history are of the city and the time asked for, and cover  *)
(* what is stored of them.                                                  *)
LEMMA HistoryAnswers ==
  ASSUME TableInv, NEW q, NEW K, K \subseteq CouldTell(q),
         q \in Requests, q.kind \in HistoryKinds, NEW r, IsReply(r), Fits(q, r)
  PROVE  /\ Fits(q, WithRows(r, q.kind, RowsOf(q.kind, q)))
         /\ UpToDate(q, WithRows(r, q.kind, RowsOf(q.kind, q)), K, stored)
<1> DEFINE rows == RowsOf(q.kind, q)
           a == WithRows(r, q.kind, rows)
<1>1. a.rows = rows /\ a.baselines = r.baselines
  BY RowsInReply DEF HistoryKinds
<1>2. K \subseteq stored
  BY DEF CouldTell, WeatherKinds, HistoryKinds
<1> DEFINE all == HistoryQuery(q)
           ranks == {Bucket(q, x) : x \in all}
           first == Least(ranks, HistoryLimit)
<1>3. /\ q.kind = "historySummary" => rows = all
      /\ q.kind = "timeseries" => rows = {x \in all : Bucket(q, x) \in first}
  BY RowsOfKinds DEF TimeseriesQuery
<1>4. rows \subseteq all /\ \A x \in all : x \in cities /\ x.city = q.city /\ x.minute \in q.minutes
  BY <1>3 DEF HistoryKinds, HistoryQuery
<1> HIDE DEF rows, a
<1>5. Fits(q, a)
  BY <1>1, <1>4, AskedKinds DEF Fits, HistoryKinds, MapKinds
<1>6. ranks \in SUBSET Int /\ IsFiniteSet(ranks)
  <2> DEFINE f == [o \in stored |-> o.minute \div q.interval]
             whole == {f[o] : o \in stored}
  <2>1. IsFiniteSet(whole)
    <3>1. IsFiniteSet(stored) /\ f = [o \in stored |-> f[o]]
      BY DEF TableInv
    <3> HIDE DEF f
    <3> QED BY <3>1, FiniteImage
  <2>2. ASSUME NEW x \in all PROVE Bucket(q, x) \in Int /\ Bucket(q, x) \in whole
    <3>1. PICK o \in stored : x.minute = o.minute
      BY <1>4 DEF TableInv, Sourced
    <3>2. o.minute \in Nat /\ q.interval \in Nat \ {0}
      BY ApiAssumption DEF TableInv
    <3>3. o.minute \div q.interval \in Int
      BY <3>2
    <3> QED BY <3>1, <3>3 DEF Bucket
  <2> HIDE DEF whole, all
  <2>3. ranks \subseteq whole /\ ranks \subseteq Int
    BY <2>2
  <2> QED BY <2>1, <2>3, FS_Subset
<1>7. ASSUME NEW o \in K PROVE Current(q, rows, o, stored)
  <2>1. SUFFICES ASSUME o.city = q.city, o.minute \in q.minutes
                 PROVE  \/ \E x \in rows : Covers(x, o)
                        \/ /\ q.kind = "timeseries"
                           /\ Full({Bucket(q, x) : x \in rows}, Bucket(q, o), HistoryLimit)
    BY CurrentKinds
  <2>2. PICK x \in cities : SameCity(x, o) /\ x.low <= o.temperature /\ o.temperature <= x.high
    BY <1>2 DEF TableInv
  <2>3. x \in all
    BY <2>1, <2>2 DEF HistoryQuery, SameCity
  <2>4. x.low \in Int /\ x.high \in Int /\ o.temperature \in Int
    <3>1. o.temperature \in Int
      BY <1>2, ApiAssumption DEF TableInv, Validated
    <3>2. x \in CityRec
      BY DEF TableInv, CityTables
    <3> QED BY <3>1, <3>2 DEF CityRec
  <2>5. Covers(x, o)
    BY <2>2, <2>4 DEF Covers
  <2>6. CASE x \in rows
    BY <2>5, <2>6
  <2>7. CASE x \notin rows
    <3> HIDE DEF all, first
    <3>1. q.kind = "timeseries" /\ Bucket(q, x) \notin first
      BY <1>3, <2>3, <2>7 DEF HistoryKinds
    <3>2. Bucket(q, x) = Bucket(q, o)
      BY <2>2 DEF Bucket, SameCity
    <3>3. Bucket(q, x) \in ranks
      BY <2>3
    <3>4. {Bucket(q, y) : y \in rows} = first
      <4>1. first \subseteq ranks
        BY DEF first, Least
      <4> QED BY <1>3, <3>1, <4>1
    <3>5. Full(first, Bucket(q, x), HistoryLimit)
      <4>1. HistoryLimit \in Nat
        BY ApiAssumption
      <4> HIDE DEF ranks
      <4> QED BY <1>6, <3>1, <3>3, <4>1, LeastAreFirst DEF first
    <3> QED BY <3>1, <3>2, <3>4, <3>5
  <2> QED BY <2>6, <2>7
<1>8. UpToDate(q, a, K, stored)
  BY <1>1, <1>7 DEF UpToDate
<1> QED BY <1>5, <1>8 DEF a, rows

(* The list of the cities names every city something is stored of.          *)
LEMMA CitiesAnswers ==
  ASSUME TableInv, NEW q, NEW K, K \subseteq CouldTell(q),
         q.kind = "cities", NEW r, IsReply(r), Fits(q, r)
  PROVE  /\ Fits(q, WithRows(r, q.kind, RowsOf(q.kind, q)))
         /\ UpToDate(q, WithRows(r, q.kind, RowsOf(q.kind, q)), K, stored)
<1> DEFINE rows == RowsOf(q.kind, q)
           a == WithRows(r, q.kind, rows)
<1>1. a.rows = rows /\ a.baselines = r.baselines
  BY RowsInReply
<1>2. K \subseteq stored
  BY DEF CouldTell, WeatherKinds
<1>3. rows = CitiesQuery(q)
  BY RowsOfKinds
<1> HIDE DEF rows, a
<1>4. Fits(q, a)
  BY <1>1, AskedKinds DEF Fits, MapKinds
<1>5. ASSUME NEW o \in K PROVE Current(q, rows, o, stored)
  <2>1. PICK x \in cities : SameCity(x, o)
    BY <1>2 DEF TableInv
  <2> DEFINE row == [city |-> x.city, region |-> x.region, country |-> x.country]
  <2>2. row \in rows /\ row.city = o.city
    BY <1>3, <2>1 DEF CitiesQuery, SameCity
  <2> QED BY <2>2, CurrentKinds
<1>6. UpToDate(q, a, K, stored)
  BY <1>1, <1>5 DEF UpToDate
<1> QED BY <1>4, <1>6 DEF a, rows

(* Both halves of a comparison are about the profile asked for, and the     *)
(* second one holds every comparison that was stored of it.                 *)
LEMMA PersonalAnswers ==
  ASSUME TableInv, NEW q, NEW K, K \subseteq CouldTell(q), q.kind = "personal",
         NEW r, IsReply(r), Fits(q, r), NEW s \in {"baselines", "comparisons"},
         NEW rows, rows \in {RowsOf(s, q), {}}
  PROVE  Fits(q, WithRows(r, s, rows)) /\ UpToDate(q, WithRows(r, s, rows), K, stored)
<1> DEFINE a == WithRows(r, s, rows)
<1>1. \A x \in rows : x.profile = q.profile
  <2>1. rows \in {BaselinesQuery(q), ComparisonsQuery(q), {}}
    BY RowsOfKinds
  <2>2. /\ \A x \in BaselinesQuery(q) : x.profile = q.profile
        /\ \A x \in ComparisonsQuery(q) : x.profile = q.profile
    BY DEF BaselinesQuery, ComparisonsQuery
  <2> QED BY <2>1, <2>2
<1>2. K \subseteq compared
  BY DEF CouldTell
<1>3. CASE s = "baselines"
  <2>1. a.rows = {} /\ a.baselines = rows
    BY <1>3 DEF WithRows, Answer
  <2> HIDE DEF a
  <2>2. Fits(q, a)
    BY <1>1, <2>1, AskedKinds DEF Fits, MapKinds
  <2>3. UpToDate(q, a, K, stored)
    BY <2>1, CurrentKinds DEF UpToDate
  <2> QED BY <2>2, <2>3 DEF a
<1>4. CASE s = "comparisons"
  <2>1. a.rows = rows /\ a.baselines = r.baselines
    BY <1>4, RowsInReply
  <2>2. rows = {} \/ rows = ComparisonsQuery(q)
    BY <1>4, RowsOfKinds
  <2> HIDE DEF a
  <2>3. Fits(q, a)
    BY <1>1, <2>1, AskedKinds DEF Fits, MapKinds
  <2>4. ASSUME NEW o \in K, rows # {}, Asked(q, o), o \notin rows
        PROVE  Full({Age(c) : c \in rows}, Age(o), ComparisonLimit)
    <3> DEFINE all == {c \in compared : c.profile = q.profile}
               ranks == {Age(c) : c \in all}
               first == Least(ranks, ComparisonLimit)
    <3>1. rows = {c \in all : Age(c) \in first}
      BY <2>2, <2>4 DEF ComparisonsQuery
    <3>2. o \in all
      BY <1>2, <2>4, AskedKinds
    <3>3. ranks \in SUBSET Int /\ IsFiniteSet(ranks)
      <4>1. IsFiniteSet(all)
        BY FS_Subset DEF TableInv
      <4>2. \A c \in all : Age(c) \in Int
        BY ApiAssumption DEF TableInv, Age
      <4> HIDE DEF all
      <4> DEFINE f == [c \in all |-> Age(c)]
      <4>3. ranks = {f[c] : c \in all} /\ f = [c \in all |-> f[c]]
        OBVIOUS
      <4>4. ranks \in SUBSET Int
        BY <4>2
      <4> HIDE DEF f, ranks
      <4> QED BY <4>1, <4>3, <4>4, FiniteImage
    <3>4. first \subseteq ranks
      BY DEF Least
    <3> HIDE DEF all, first
    <3>5. Age(o) \in ranks /\ Age(o) \notin first
      BY <2>4, <3>1, <3>2
    <3>6. {Age(c) : c \in rows} = first
      BY <3>1, <3>4
    <3> HIDE DEF ranks
    <3>7. ComparisonLimit \in Nat
      BY ApiAssumption
    <3>8. Full(first, Age(o), ComparisonLimit)
      BY <3>3, <3>5, <3>7, LeastAreFirst DEF first
    <3> QED BY <3>6, <3>8
  <2>5. UpToDate(q, a, K, stored)
    BY <2>1, <2>4, CurrentKinds DEF UpToDate
  <2> QED BY <2>3, <2>5 DEF a
<1> QED BY <1>3, <1>4

(* What is left of the statements of a request: the first one is executed   *)
(* next, and without it the rest is left.                                   *)
LEMMA RestOfStatements ==
  ASSUME NEW q, NEW x \in Rests(q)
  PROVE  /\ x # <<>>
         /\ q.kind # "personal" => Head(x) = q.kind
         /\ q.kind = "personal" => Head(x) \in {"baselines", "comparisons"}
         /\ IF Len(x) = 1 THEN Tail(x) = <<>> ELSE Tail(x) \in Rests(q)
<1>1. CASE q.kind = "personal"
  <2>1. CASE x = <<"baselines", "comparisons">>
    <3>1. Head(x) = "baselines" /\ Len(x) = 2 /\ Tail(x) = <<"comparisons">>
      BY <2>1
    <3> QED BY <1>1, <3>1 DEF Rests
  <2>2. CASE x = <<"comparisons">>
    BY <1>1, <2>2
  <2> QED BY <1>1, <2>1, <2>2 DEF Rests
<1>2. CASE q.kind # "personal"
  <2>1. x = <<q.kind>>
    BY <1>2 DEF Rests
  <2>2. x # <<>> /\ Head(x) = q.kind /\ Len(x) = 1 /\ Tail(x) = <<>>
    BY <2>1
  <2> QED BY <1>2, <2>2
<1> QED BY <1>1, <1>2

(* An answer without rows tells nothing wrong, and is not of the database.  *)
LEMMA NothingTold ==
  ASSUME NEW q, NEW K, NEW r, r.rows = {}, r.baselines = {}, r.source # "timescale", NEW now
  PROVE  Fits(q, r) /\ UpToDate(q, r, K, now)
BY DEF Fits, UpToDate

(* The answer to its own statement fits the request and is up to date, with *)
(* the rows of the statement and without.                                   *)
LEMMA OwnAnswer ==
  ASSUME TableInv, NEW q \in Requests, q.kind \in Answerable, NEW x \in Rests(q),
         NEW K, K \subseteq CouldTell(q), NEW r, IsReply(r), Fits(q, r)
  PROVE  /\ Fits(q, WithRows(r, Head(x), RowsOf(Head(x), q)))
         /\ UpToDate(q, WithRows(r, Head(x), RowsOf(Head(x), q)), K, stored)
         /\ Fits(q, WithoutRows(r, Head(x)))
         /\ UpToDate(q, WithoutRows(r, Head(x)), K, stored)
<1>1. CASE q.kind = "personal"
  <2>1. Head(x) \in {"baselines", "comparisons"}
    BY <1>1, RestOfStatements
  <2>2. WithoutRows(r, Head(x)) = WithRows(r, Head(x), {})
    BY <2>1 DEF WithoutRows
  <2> DEFINE s == Head(x)
             rows == RowsOf(s, q)
  <2>3. rows \in {RowsOf(s, q), {}} /\ {} \in {RowsOf(s, q), {}} /\ s \in {"baselines", "comparisons"}
    BY <2>1
  <2> HIDE DEF rows, s
  <2>4. Fits(q, WithRows(r, s, rows)) /\ UpToDate(q, WithRows(r, s, rows), K, stored)
    BY <1>1, <2>3, PersonalAnswers
  <2>5. Fits(q, WithRows(r, s, {})) /\ UpToDate(q, WithRows(r, s, {}), K, stored)
    BY <1>1, <2>3, PersonalAnswers
  <2> QED BY <2>2, <2>4, <2>5 DEF s, rows
<1>2. CASE q.kind = "refresh"
  <2>1. Head(x) = "refresh"
    BY <1>2, RestOfStatements
  <2>2. /\ WithRows(r, Head(x), RowsOf(Head(x), q)) = Answer(200, "none")
        /\ WithoutRows(r, Head(x)) = Answer(500, "none")
    BY <2>1 DEF WithRows, WithoutRows
  <2> QED BY <2>2, NothingTold DEF Answer
<1>3. CASE q.kind \in WeatherKinds
  <2>1. Head(x) = q.kind
    BY <1>3, RestOfStatements DEF WeatherKinds, MapKinds, HistoryKinds
  <2>2. /\ Fits(q, WithRows(r, q.kind, RowsOf(q.kind, q)))
        /\ UpToDate(q, WithRows(r, q.kind, RowsOf(q.kind, q)), K, stored)
    <3>1. CASE q.kind \in MapKinds
      BY <3>1, MapAnswers
    <3>2. CASE q.kind \in HistoryKinds
      BY <3>2, HistoryAnswers
    <3>3. CASE q.kind = "cities"
      BY <3>3, CitiesAnswers
    <3> QED BY <1>3, <3>1, <3>2, <3>3 DEF WeatherKinds
  <2>3. WithoutRows(r, q.kind) = Fallback
    BY <1>3 DEF WithoutRows, WeatherKinds, MapKinds, HistoryKinds
  <2>4. Fits(q, Fallback) /\ UpToDate(q, Fallback, K, stored)
    BY NothingTold DEF Fallback, Answer
  <2> QED BY <2>1, <2>2, <2>3, <2>4
<1> QED BY <1>1, <1>2, <1>3 DEF Answerable

-----------------------------------------------------------------------------
(* What the steps leave alone.                                              *)

(* A thread that makes no step keeps its part of the invariant: the tables  *)
(* only grow, and nobody takes it out of the overlap.                       *)
LEMMA ThreadKept ==
  ASSUME NEW u, ThreadInv(u), pc'[u] = pc[u], req'[u] = req[u], todo'[u] = todo[u],
         reply'[u] = reply[u], known'[u] = known[u],
         stored \subseteq stored', compared \subseteq compared',
         u \in overlap => u \in overlap'
  PROVE  ThreadInv(u)'
<1>1. CouldTell(req[u]) \subseteq CouldTell(req[u])'
  BY DEF CouldTell
<1>2. (known[u] \subseteq CouldTell(req[u]))'
  BY <1>1 DEF ThreadInv, CouldTell
<1>3. ASSUME UpToDate(req[u], reply[u], known[u], stored)
      PROVE  UpToDate(req[u], reply[u], known[u], stored')
  <2>1. ASSUME NEW q, NEW R, NEW o, Current(q, R, o, stored) PROVE Current(q, R, o, stored')
    <3>1. CASE q.kind \in MapKinds
      BY <2>1, <3>1, CurrentKinds
    <3>2. CASE q.kind \notin MapKinds
      BY <2>1, <3>2 DEF Current, HistoryKinds, MapKinds
    <3> QED BY <3>1, <3>2
  <2> QED BY <1>3, <2>1 DEF UpToDate
<1>4. (UpToDate(req[u], reply[u], known[u], stored))' =
        UpToDate(req[u], reply[u], known[u], stored')
  OBVIOUS
<1> QED BY <1>2, <1>3, <1>4 DEF ThreadInv, Fits

LEMMA OthersKept ==
  ASSUME Inv, NEW t \in Threads, UNCHANGED <<stored, compared>>,
         \A u \in Threads \ {t} :
           /\ pc'[u] = pc[u] /\ req'[u] = req[u] /\ todo'[u] = todo[u]
           /\ reply'[u] = reply[u] /\ known'[u] = known[u],
         overlap \ {t} \subseteq overlap', ThreadInv(t)'
  PROVE  \A u \in Threads : ThreadInv(u)'
<1> SUFFICES ASSUME NEW u \in Threads, u # t PROVE ThreadInv(u)'
  OBVIOUS
<1>1. ThreadInv(u) /\ (u \in overlap => u \in overlap')
  BY DEF Inv
<1> QED BY <1>1, ThreadKept

(* A step outside the temporary file.                                       *)
LEMMA FileKept ==
  ASSUME FileInv, FunctionsInv, NEW t \in Threads, UNCHANGED <<file, writers>>,
         pc[t] \notin {"write", "psql", "remove"},
         NEW p, p \notin {"write", "psql", "remove"}, pc' = [pc EXCEPT ![t] = p],
         overlap' \in {overlap, overlap \ {t}}
  PROVE  FileInv'
<1>1. \A u \in Threads : pc'[u] = IF u = t THEN p ELSE pc[u]
  BY DEF FunctionsInv
<1>2. InFile' = InFile
  BY <1>1 DEF InFile
<1>3. \A u \in Threads : u \notin overlap' => u \notin overlap \/ u = t
  OBVIOUS
<1>4. (\A u, v \in InFile : u # v => u \in overlap)'
  BY <1>2, <1>1 DEF FileInv, InFile
<1> QED BY <1>1, <1>2, <1>3, <1>4 DEF FileInv

-----------------------------------------------------------------------------
(* The steps.                                                               *)

LEMMA InitInv == Init => Inv
<1> SUFFICES ASSUME Init PROVE Inv
  OBVIOUS
<1>1. SettingInv
  BY ApiAssumption DEF Init, SettingInv
<1>2. TableInv
  BY FS_EmptySet DEF Init, TableInv, Sourced, TileTables, CityTables, RouteTables
<1>3. FunctionsInv
  BY ApiAssumption DEF Init, FunctionsInv, Places, NoRequest
<1>4. InFile = {}
  BY DEF Init, InFile
<1>5. FileInv
  BY <1>4 DEF Init, FileInv
<1>6. ASSUME NEW t \in Threads PROVE ThreadInv(t)
  <2>1. pc[t] = "free" /\ todo[t] = <<>> /\ reply[t] = NoReply /\ known[t] = {}
    BY DEF Init
  <2>2. IsReply(NoReply)
    BY DEF NoReply, Answer, IsReply
  <2>3. Fits(req[t], NoReply) /\ UpToDate(req[t], NoReply, known[t], stored)
    BY NothingTold DEF NoReply, Answer
  <2> QED BY <2>1, <2>2, <2>3 DEF ThreadInv, Busy
<1> QED BY <1>1, <1>2, <1>3, <1>5, <1>6 DEF Inv

(* The tables take in what a batch brings.                                  *)
LEMMA TablesStored ==
  ASSUME TableInv, NEW B \in Batches, NEW L \in LastOfKeys(TileRows(B)),
         stored' = stored \cup B, compared' = compared,
         tiles' = UpsertTiles(L, tiles),
         cities' = FoldSet(UpsertCity, cities, CityRows(B)),
         routes' = FoldSet(UpsertRoute, routes, RouteRows(B))
  PROVE  TableInv'
<1>1. B \subseteq Observations /\ IsFiniteSet(B)
  BY ApiAssumption
<1>2. tiles \in TileTables /\ cities \in CityTables /\ routes \in RouteTables
  BY DEF TableInv
<1>3. /\ tiles' \in TileTables /\ tiles' \subseteq tiles \cup TileRows(B)
      /\ \A r \in tiles \cup TileRows(B) : \E s \in tiles' : SameTile(s, r)
  BY <1>2, TileRowsOf, TilesUpserted
<1>4. /\ cities' \in CityTables
      /\ \A r \in cities \cup CityRows(B) : \E s \in cities' :
           SameCity(s, r) /\ s.low <= r.low /\ r.high <= s.high
      /\ \A s \in cities' : \E r \in cities \cup CityRows(B) : SameCity(s, r)
  <2>1. IsFiniteSet(CityRows(B)) /\ CityRows(B) \in SUBSET CityRec
    BY CityRowsOf
  <2> QED BY <1>2, <2>1, CityFold
<1>5. /\ routes' \in RouteTables /\ routes' \subseteq routes \cup RouteRows(B)
      /\ \A r \in routes \cup RouteRows(B) : \E s \in routes' : SameSegment(s, r)
  <2>1. IsFiniteSet(RouteRows(B)) /\ RouteRows(B) \in SUBSET RouteRec
    BY RouteRowsOf
  <2> QED BY <1>2, <2>1, RouteFold
<1>6. ASSUME NEW r \in routes' PROVE InScale(r)
  BY <1>5, RouteRowsOf DEF TableInv
<1>7. ASSUME NEW o \in stored' PROVE \E r \in tiles' : SameTile(r, o)
  <2>1. \E r \in tiles \cup TileRows(B) : SameTile(r, o)
    <3>1. CASE o \in B
      BY <3>1, TileRowsOf
    <3>2. CASE o \in stored
      BY <3>2 DEF TableInv
    <3> QED BY <3>1, <3>2
  <2> QED BY <1>3, <2>1 DEF SameTile
<1>8. ASSUME NEW o \in stored' PROVE \E r \in routes' : SameSegment(r, o)
  <2>1. \E r \in routes \cup RouteRows(B) : SameSegment(r, o)
    <3>1. CASE o \in B
      BY <3>1, RouteRowsOf
    <3>2. CASE o \in stored
      BY <3>2 DEF TableInv
    <3> QED BY <3>1, <3>2
  <2> QED BY <1>5, <2>1 DEF SameSegment
<1>9. ASSUME NEW o \in stored'
      PROVE  \E r \in cities' : /\ SameCity(r, o)
                                /\ r.low <= o.temperature /\ o.temperature <= r.high
  <2>1. PICK r \in cities \cup CityRows(B) :
          SameCity(r, o) /\ r.low <= o.temperature /\ o.temperature <= r.high
    <3>1. CASE o \in B
      BY <3>1, CityRowsOf
    <3>2. CASE o \in stored
      BY <3>2 DEF TableInv
    <3> QED BY <3>1, <3>2
  <2>2. PICK s \in cities' : SameCity(s, r) /\ s.low <= r.low /\ r.high <= s.high
    BY <1>4, <2>1
  <2>3. r \in CityRec /\ s \in CityRec
    BY <1>2, <1>4, CityRowsOf DEF CityTables
  <2>4. o.temperature \in Int
    BY <1>1, ApiAssumption DEF TableInv, Validated
  <2>5. r.low \in Int /\ r.high \in Int /\ s.low \in Int /\ s.high \in Int
    BY <2>3 DEF CityRec
  <2>6. s.low <= o.temperature /\ o.temperature <= s.high
    BY <2>1, <2>2, <2>4, <2>5
  <2>7. SameCity(s, o)
    BY <2>1, <2>2 DEF SameCity
  <2> QED BY <2>6, <2>7
<1>10. /\ stored' \subseteq Observations /\ compared' \subseteq Comparisons
       /\ IsFiniteSet(stored') /\ IsFiniteSet(compared')
  BY <1>1, FS_Union DEF TableInv
<1>11. ASSUME NEW r \in tiles' PROVE \E o \in stored' : r.minute = o.minute
  <2>1. CASE r \in tiles
    BY <2>1 DEF TableInv, Sourced
  <2>2. CASE r \in TileRows(B)
    BY <2>2, TileRowsOf DEF SameTile
  <2> QED BY <1>3, <2>1, <2>2
<1>12. ASSUME NEW s \in cities' PROVE \E o \in stored' : s.minute = o.minute
  <2>1. PICK r \in cities \cup CityRows(B) : s.minute = r.minute
    BY <1>4 DEF SameCity
  <2> QED BY <2>1, CityRowsOf DEF TableInv, Sourced, SameCity
<1>13. ASSUME NEW r \in routes' PROVE \E o \in stored' : r.minute = o.minute
  BY <1>5, RouteRowsOf DEF TableInv, Sourced, SameSegment
<1>14. Sourced(tiles)' /\ Sourced(cities)' /\ Sourced(routes)'
  BY <1>11, <1>12, <1>13 DEF Sourced
<1> QED BY <1>3, <1>4, <1>5, <1>6, <1>7, <1>8, <1>9, <1>10, <1>14 DEF TableInv

LEMMA StoreBatchStep == ASSUME Inv, NEW B \in Batches, StoreBatch(B) PROVE Inv'
<1>1. TableInv'
  BY TablesStored DEF Inv, StoreBatch
<1>2. SettingInv' /\ FunctionsInv'
  BY DEF Inv, StoreBatch, setting, thread, history, SettingInv, FunctionsInv
<1>3. FileInv'
  BY DEF Inv, StoreBatch, thread, queryFile, FileInv, InFile
<1>4. ASSUME NEW u \in Threads PROVE ThreadInv(u)'
  <2>1. ThreadInv(u)
    BY DEF Inv
  <2>2. UNCHANGED <<pc, req, todo, reply, known, overlap, compared>> /\ stored \subseteq stored'
    BY DEF StoreBatch, thread, queryFile, history
  <2> QED BY <2>1, <2>2, ThreadKept
<1> QED BY <1>1, <1>2, <1>3, <1>4 DEF Inv

LEMMA StoreComparisonStep ==
  ASSUME Inv, NEW c \in Comparisons, StoreComparison(c) PROVE Inv'
<1>1. TableInv'
  <2>1. IsFiniteSet(compared') /\ compared' \subseteq Comparisons
    BY FS_AddElement DEF Inv, TableInv, StoreComparison
  <2>2. UNCHANGED <<stored, tiles, cities, routes>>
    BY DEF StoreComparison
  <2> QED BY <2>1, <2>2 DEF Inv, TableInv, Sourced
<1>2. SettingInv' /\ FunctionsInv'
  BY DEF Inv, StoreComparison, setting, thread, history, SettingInv, FunctionsInv
<1>3. FileInv'
  BY DEF Inv, StoreComparison, thread, queryFile, FileInv, InFile
<1>4. ASSUME NEW u \in Threads PROVE ThreadInv(u)'
  <2>1. ThreadInv(u)
    BY DEF Inv
  <2>2. UNCHANGED <<pc, req, todo, reply, known, overlap, stored>> /\ compared \subseteq compared'
    BY DEF StoreComparison, thread, queryFile, history
  <2> QED BY <2>1, <2>2, ThreadKept
<1> QED BY <1>1, <1>2, <1>3, <1>4 DEF Inv

(* A step of the main thread that touches no other one.                     *)
LEMMA MainKept ==
  ASSUME Inv, UNCHANGED <<tables, setting, thread, queryFile, history>>,
         running' \in BOOLEAN, mpc' \in {"loop", "poll", "return", "exit"}
  PROVE  Inv'
<1>1. TableInv'
  BY DEF Inv, tables, TableInv, Sourced
<1>2. SettingInv' /\ FunctionsInv'
  BY DEF Inv, setting, thread, history, SettingInv, FunctionsInv
<1>3. FileInv'
  BY DEF Inv, thread, queryFile, FileInv, InFile
<1>4. ASSUME NEW u \in Threads PROVE ThreadInv(u)'
  <2>1. ThreadInv(u)
    BY DEF Inv
  <2>2. UNCHANGED <<pc, req, todo, reply, known, overlap, stored, compared>>
    BY DEF tables, thread, queryFile, history
  <2> QED BY <2>1, <2>2, ThreadKept
<1> QED BY <1>1, <1>2, <1>3, <1>4 DEF Inv

(* The process ends, with all of its threads.                               *)
LEMMA ThreadsGoneStep ==
  ASSUME Inv, ThreadsGone, UNCHANGED <<tables, setting, running, file, requests>>,
         mpc' = "exit"
  PROVE  Inv'
<1>1. TableInv'
  BY DEF Inv, tables, TableInv, Sourced
<1>2. SettingInv'
  BY DEF Inv, setting, SettingInv
<1>3. FunctionsInv'
  BY ApiAssumption DEF ThreadsGone, FunctionsInv, Places, NoRequest
<1>4. InFile' = {}
  BY DEF ThreadsGone, InFile
<1>5. FileInv'
  BY <1>4 DEF Inv, ThreadsGone, FileInv
<1>6. ASSUME NEW t \in Threads PROVE ThreadInv(t)'
  <2>1. pc'[t] = "free" /\ todo'[t] = <<>> /\ reply'[t] = NoReply /\ known'[t] = {}
    BY DEF ThreadsGone
  <2>2. IsReply(NoReply)
    BY DEF NoReply, Answer, IsReply
  <2>3. Fits(req'[t], NoReply) /\ UpToDate(req'[t], NoReply, known'[t], stored')
    BY NothingTold DEF NoReply, Answer
  <2> QED BY <2>1, <2>2, <2>3 DEF ThreadInv, Busy, Fits, UpToDate
<1> QED BY <1>1, <1>2, <1>3, <1>5, <1>6 DEF Inv

LEMMA MainLoopStep == ASSUME Inv, MainLoop PROVE Inv'
<1>1. UNCHANGED <<tables, setting, thread, queryFile, history>>
  BY DEF MainLoop
<1>2. running' \in BOOLEAN /\ mpc' \in {"loop", "poll", "return", "exit"}
  BY DEF MainLoop, Inv, SettingInv
<1> QED BY <1>1, <1>2, MainKept

LEMMA AcceptStep == ASSUME Inv, NEW q \in mix, Accept(q) PROVE Inv'
<1>1. PICK t \in Threads :
        /\ pc[t] = "free" /\ requests < MaxRequests /\ mpc' = "loop"
        /\ pc' = [pc EXCEPT ![t] = "read"] /\ req' = [req EXCEPT ![t] = q]
        /\ known' = [known EXCEPT ![t] = CouldTell(q)] /\ requests' = requests + 1
        /\ UNCHANGED <<tables, setting, running, todo, reply, queryFile>>
  BY DEF Accept, Free
<1>2. q \in Requests
  BY DEF Inv, SettingInv, Requests
<1>3. TableInv'
  BY <1>1 DEF Inv, tables, TableInv, Sourced
<1>4. SettingInv'
  BY <1>1, ApiAssumption DEF Inv, setting, SettingInv
<1>5. FunctionsInv'
  BY <1>1, <1>2 DEF Inv, FunctionsInv, Places
<1>6. FileInv'
  BY <1>1, FileKept DEF Inv, queryFile
<1>7. ThreadInv(t)'
  <2>1. /\ pc'[t] = "read" /\ req'[t] = q /\ known'[t] = CouldTell(q)
        /\ todo'[t] = <<>> /\ reply'[t] = NoReply
    BY <1>1 DEF Inv, ThreadInv, FunctionsInv
  <2>2. IsReply(NoReply)
    BY DEF NoReply, Answer, IsReply
  <2>3. Fits(q, NoReply) /\ UpToDate(q, NoReply, CouldTell(q), stored)
    BY NothingTold DEF NoReply, Answer
  <2>4. CouldTell(q)' = CouldTell(q) /\ stored' = stored
    BY <1>1 DEF CouldTell, tables
  <2> QED BY <2>1, <2>2, <2>3, <2>4 DEF ThreadInv, Busy, Fits, UpToDate, CouldTell
<1>8. \A u \in Threads : ThreadInv(u)'
  <2>1. \A u \in Threads \ {t} :
           /\ pc'[u] = pc[u] /\ req'[u] = req[u] /\ todo'[u] = todo[u]
           /\ reply'[u] = reply[u] /\ known'[u] = known[u]
    BY <1>1 DEF Inv, FunctionsInv
  <2>2. UNCHANGED <<stored, compared>> /\ overlap \ {t} \subseteq overlap'
    BY <1>1 DEF tables, queryFile
  <2> QED BY <1>7, <2>1, <2>2, OthersKept
<1> QED BY <1>3, <1>4, <1>5, <1>6, <1>8 DEF Inv

LEMMA EndsStep ==
  ASSUME Inv, NEW t \in Threads, pc[t] \in {"read", "send"}, Ends(t) PROVE Inv'
<1>1. TableInv'
  BY DEF Ends, Inv, tables, TableInv, Sourced
<1>2. SettingInv'
  BY DEF Ends, Inv, setting, SettingInv
<1>3. FunctionsInv'
  BY ApiAssumption DEF Ends, Inv, FunctionsInv, Places, NoRequest
<1>4. FileInv'
  BY FileKept DEF Ends, Inv
<1>5. ThreadInv(t)'
  <2>1. pc'[t] = "free" /\ todo'[t] = <<>> /\ reply'[t] = NoReply /\ known'[t] = {}
    BY DEF Ends, Inv, FunctionsInv
  <2>2. IsReply(NoReply)
    BY DEF NoReply, Answer, IsReply
  <2>3. Fits(req'[t], NoReply) /\ UpToDate(req'[t], NoReply, known'[t], stored')
    BY NothingTold DEF NoReply, Answer
  <2> QED BY <2>1, <2>2, <2>3 DEF ThreadInv, Busy, Fits, UpToDate
<1>6. \A u \in Threads : ThreadInv(u)'
  <2>1. \A u \in Threads \ {t} :
           /\ pc'[u] = pc[u] /\ req'[u] = req[u] /\ todo'[u] = todo[u]
           /\ reply'[u] = reply[u] /\ known'[u] = known[u]
    BY DEF Ends, Inv, FunctionsInv
  <2>2. UNCHANGED <<stored, compared>> /\ overlap \ {t} \subseteq overlap'
    BY DEF Ends, tables
  <2> QED BY <1>5, <2>1, <2>2, OthersKept
<1> QED BY <1>1, <1>2, <1>3, <1>4, <1>6 DEF Inv

(* The parts a step of one thread does not touch.                           *)
LEMMA ThreadFrame ==
  ASSUME Inv, NEW t \in Threads, UNCHANGED <<tables, setting, running, mpc, req, history>>,
         pc' = [pc EXCEPT ![t] = pc'[t]], pc'[t] \in Places,
         todo' = [todo EXCEPT ![t] = todo'[t]], reply' = [reply EXCEPT ![t] = reply'[t]]
  PROVE  /\ TableInv' /\ SettingInv' /\ FunctionsInv'
         /\ overlap \ {t} \subseteq overlap' /\ ThreadInv(t)' => \A u \in Threads : ThreadInv(u)'
<1>1. TableInv'
  BY DEF Inv, tables, TableInv, Sourced
<1>2. SettingInv'
  BY DEF Inv, setting, history, SettingInv
<1>3. FunctionsInv'
  BY DEF Inv, FunctionsInv, history
<1>4. ASSUME overlap \ {t} \subseteq overlap', ThreadInv(t)' PROVE \A u \in Threads : ThreadInv(u)'
  <2>1. \A u \in Threads \ {t} :
           /\ pc'[u] = pc[u] /\ req'[u] = req[u] /\ todo'[u] = todo[u]
           /\ reply'[u] = reply[u] /\ known'[u] = known[u]
    BY DEF Inv, FunctionsInv, history
  <2>2. UNCHANGED <<stored, compared>>
    BY DEF tables
  <2> QED BY <1>4, <2>1, <2>2, OthersKept
<1> QED BY <1>1, <1>2, <1>3, <1>4

(* Before and behind a step of thread t the same is known of its request.   *)
LEMMA StillTold ==
  ASSUME Inv, NEW t \in Threads, UNCHANGED <<tables, req, history>>
  PROVE  known'[t] \subseteq CouldTell(req[t])' /\ stored' = stored
<1>1. known[t] \subseteq CouldTell(req[t])
  BY DEF Inv, ThreadInv
<1> QED BY <1>1 DEF CouldTell, tables, history

LEMMA ImmediateFits ==
  ASSUME NEW q \in Requests, NEW K
  PROVE  IsReply(ImmediateAnswer(q)) /\ Fits(q, ImmediateAnswer(q))
         /\ UpToDate(q, ImmediateAnswer(q), K, stored)
<1>1. PICK a \in {Answer(400, "none"), Answer(200, "none"), Answer(404, "none"), Fallback} :
        ImmediateAnswer(q) = a
  BY DEF ImmediateAnswer
<1>2. /\ a.rows = {} /\ a.baselines = {} /\ a.source # "timescale"
      /\ IsReply(a)
  BY <1>1 DEF Fallback, Answer, IsReply
<1> QED BY <1>1, <1>2, NothingTold

LEMMA ReadRequestStep == ASSUME Inv, NEW t \in Threads, ReadRequest(t) PROVE Inv'
<1> DEFINE q == req[t]
<1>1. q \in Requests /\ pc[t] = "read"
  BY DEF Inv, FunctionsInv, ReadRequest
<1>2. /\ todo[t] = <<>> /\ reply[t] = NoReply /\ IsReply(reply[t])
      /\ Fits(q, NoReply) /\ UpToDate(q, NoReply, known[t], stored)
  <2>1. todo[t] = <<>> /\ reply[t] = NoReply /\ IsReply(reply[t])
    BY <1>1 DEF Inv, ThreadInv
  <2> QED BY <2>1, NothingTold DEF NoReply, Answer
<1>3. UNCHANGED <<tables, setting, running, mpc, req, queryFile, history>>
  BY DEF ReadRequest
<1>4. CASE Immediate(q)
  <2>1. /\ pc' = [pc EXCEPT ![t] = "send"] /\ todo' = todo
        /\ reply' = [reply EXCEPT ![t] = ImmediateAnswer(q)]
    BY <1>4 DEF ReadRequest
  <2>2. pc'[t] = "send" /\ todo'[t] = <<>> /\ reply'[t] = ImmediateAnswer(q) /\ req'[t] = q
        /\ known'[t] = known[t]
    BY <1>2, <1>3, <2>1 DEF Inv, FunctionsInv, history
  <2>3. ThreadInv(t)'
    BY <1>1, <1>3, <2>2, StillTold, ImmediateFits DEF ThreadInv, Busy, Fits, UpToDate
  <2>4. FileInv'
    BY <1>1, <1>3, <2>1, FileKept DEF Inv, queryFile
  <2>5. /\ pc' = [pc EXCEPT ![t] = pc'[t]] /\ pc'[t] \in Places
        /\ todo' = [todo EXCEPT ![t] = todo'[t]] /\ reply' = [reply EXCEPT ![t] = reply'[t]]
    BY <2>1, <2>2 DEF Inv, FunctionsInv, Places
  <2> QED BY <1>3, <2>3, <2>4, <2>5, ThreadFrame DEF Inv, queryFile
<1>5. CASE ~Immediate(q)
  <2>1. /\ pc' = [pc EXCEPT ![t] = FirstStep] /\ reply' = reply
        /\ todo' = [todo EXCEPT ![t] = Statements(q)]
    BY <1>5 DEF ReadRequest
  <2>2. /\ pc'[t] = FirstStep /\ todo'[t] = Statements(q) /\ reply'[t] = NoReply
        /\ req'[t] = q /\ known'[t] = known[t]
    BY <1>2, <1>3, <2>1 DEF Inv, FunctionsInv, history
  <2>3. FirstStep \in {"query", "open"}
    BY DEF FirstStep
  <2>4. q.kind \in Answerable
    BY <1>1, <1>5, ApiAssumption DEF Immediate, Answerable, Kinds
  <2>5. Statements(q) \in Rests(q)
    BY DEF Statements, Rests
  <2>6. ThreadInv(t)'
    BY <1>2, <1>3, <2>2, <2>3, <2>4, <2>5, StillTold DEF ThreadInv, Busy, Fits, UpToDate
  <2>7. FileInv'
    BY <1>1, <1>3, <2>1, <2>3, FileKept DEF Inv, queryFile
  <2>8. /\ pc' = [pc EXCEPT ![t] = pc'[t]] /\ pc'[t] \in Places
        /\ todo' = [todo EXCEPT ![t] = todo'[t]] /\ reply' = [reply EXCEPT ![t] = reply'[t]]
    BY <2>1, <2>2, <2>3 DEF Inv, FunctionsInv, Places, Busy
  <2> QED BY <1>3, <2>6, <2>7, <2>8, ThreadFrame DEF Inv, queryFile
<1> QED BY <1>4, <1>5

(* What Done leaves of a thread.                                            *)
LEMMA DoneParts ==
  ASSUME Inv, NEW t \in Threads, pc[t] \in Busy, Done(t)
  PROVE  /\ pc' = [pc EXCEPT ![t] = pc'[t]] /\ todo' = [todo EXCEPT ![t] = todo'[t]]
         /\ pc'[t] \in {"send", "query", "open"}
         /\ IF pc'[t] = "send" THEN todo'[t] = <<>> ELSE todo'[t] \in Rests(req[t])
<1>1. todo[t] \in Rests(req[t])
  BY DEF Inv, ThreadInv
<1>2. FirstStep \in {"query", "open"}
  BY DEF FirstStep
<1>3. /\ pc'[t] = IF Len(todo[t]) = 1 THEN "send" ELSE FirstStep
      /\ todo'[t] = Tail(todo[t])
  BY DEF Done, Inv, FunctionsInv
<1>4. IF Len(todo[t]) = 1 THEN Tail(todo[t]) = <<>> ELSE Tail(todo[t]) \in Rests(req[t])
  BY <1>1, RestOfStatements
<1>5. pc' = [pc EXCEPT ![t] = pc'[t]] /\ todo' = [todo EXCEPT ![t] = todo'[t]]
  BY <1>3 DEF Done
<1> QED BY <1>2, <1>3, <1>4, <1>5

(* The reply of a thread that met no other one, with what its statement     *)
(* returns or without.                                                      *)
LEMMA OwnReply ==
  ASSUME Inv, NEW t \in Threads, pc[t] \in Busy,
         NEW r, r \in {WithRows(reply[t], Head(todo[t]), RowsOf(Head(todo[t]), req[t])),
                       WithoutRows(reply[t], Head(todo[t]))}
  PROVE  /\ IsReply(r)
         /\ t \notin overlap => Fits(req[t], r) /\ UpToDate(req[t], r, known[t], stored)
<1>1. /\ req[t].kind \in Answerable /\ todo[t] \in Rests(req[t]) /\ IsReply(reply[t])
      /\ known[t] \subseteq CouldTell(req[t])
      /\ t \notin overlap => Fits(req[t], reply[t])
      /\ req[t] \in Requests
  BY DEF Inv, ThreadInv, FunctionsInv
<1>2. IsReply(r)
  BY <1>1, ReplyShape
<1>3. ASSUME t \notin overlap PROVE Fits(req[t], r) /\ UpToDate(req[t], r, known[t], stored)
  BY <1>1, <1>3, OwnAnswer DEF Inv
<1> QED BY <1>2, <1>3

LEMMA QueryStep ==
  ASSUME Inv, NEW t \in Threads, QueryLibpq(t) \/ QueryFails(t) PROVE Inv'
<1>1. pc[t] \in {"query", "open"} /\ pc[t] \in Busy /\ Done(t)
  BY DEF QueryLibpq, QueryFails, Busy
<1>2. UNCHANGED <<tables, setting, running, mpc, req, queryFile, history>>
  BY DEF QueryLibpq, QueryFails
<1>3. PICK r \in {WithRows(reply[t], Head(todo[t]), RowsOf(Head(todo[t]), req[t])),
                  WithoutRows(reply[t], Head(todo[t]))} :
        reply' = [reply EXCEPT ![t] = r]
  BY DEF QueryLibpq, QueryFails, Got, GotNothing
<1>4. reply'[t] = r /\ req'[t] = req[t] /\ known'[t] = known[t] /\ overlap' = overlap
  BY <1>2, <1>3 DEF Inv, FunctionsInv, history, queryFile
<1>5. /\ pc' = [pc EXCEPT ![t] = pc'[t]] /\ todo' = [todo EXCEPT ![t] = todo'[t]]
      /\ pc'[t] \in {"send", "query", "open"}
      /\ IF pc'[t] = "send" THEN todo'[t] = <<>> ELSE todo'[t] \in Rests(req[t])
  BY <1>1, DoneParts
<1>6. /\ IsReply(r)
      /\ t \notin overlap => Fits(req[t], r) /\ UpToDate(req[t], r, known[t], stored)
  BY <1>1, OwnReply
<1>7. req[t].kind \in Answerable
  BY <1>1 DEF Inv, ThreadInv
<1>8. ThreadInv(t)'
  BY <1>2, <1>4, <1>5, <1>6, <1>7, StillTold DEF ThreadInv, Busy, Fits, UpToDate
<1>9. FileInv'
  BY <1>1, <1>2, <1>5, FileKept DEF Inv, queryFile
<1>10. pc'[t] \in Places /\ reply' = [reply EXCEPT ![t] = reply'[t]]
  BY <1>3, <1>4, <1>5 DEF Places, Busy
<1> QED BY <1>2, <1>5, <1>8, <1>9, <1>10, ThreadFrame DEF Inv, queryFile

(* In the temporary file a thread keeps its request, and goes on.           *)
LEMMA StaysBusy ==
  ASSUME Inv, NEW t \in Threads, pc[t] \in Busy,
         UNCHANGED <<tables, setting, running, mpc, req, todo, reply, history>>,
         NEW p \in {"write", "psql", "remove"}, pc' = [pc EXCEPT ![t] = p],
         overlap \subseteq overlap', FileInv'
  PROVE  Inv'
<1>1. /\ pc'[t] = p /\ req'[t] = req[t] /\ todo'[t] = todo[t] /\ reply'[t] = reply[t]
      /\ known'[t] = known[t]
  BY DEF Inv, FunctionsInv, history
<1>2. ThreadInv(t)
  BY DEF Inv
<1>3. known'[t] \subseteq CouldTell(req[t])' /\ stored' = stored
  BY StillTold
<1>4. ThreadInv(t)'
  BY <1>1, <1>2, <1>3 DEF ThreadInv, Busy, Fits, UpToDate
<1>5. pc' = [pc EXCEPT ![t] = pc'[t]] /\ pc'[t] \in Places
  BY <1>1 DEF Places, Busy
<1>6. todo' = [todo EXCEPT ![t] = todo'[t]] /\ reply' = [reply EXCEPT ![t] = reply'[t]]
  BY <1>1 DEF Inv, FunctionsInv
<1> QED BY <1>4, <1>5, <1>6, ThreadFrame DEF Inv

LEMMA OpenFileStep == ASSUME Inv, NEW t \in Threads, OpenFile(t) PROVE Inv'
<1>1. \A u \in Threads : pc'[u] = IF u = t THEN "write" ELSE pc[u]
  BY DEF OpenFile, Inv, FunctionsInv
<1>2. InFile' = InFile \cup {t} /\ t \notin InFile
  BY <1>1 DEF InFile, OpenFile
<1>3. overlap \subseteq overlap' /\ overlap' \subseteq Threads
  BY DEF OpenFile, Inv, FileInv, InFile
<1>4. ASSUME NEW u \in InFile', NEW v \in InFile', u # v PROVE u \in overlap'
  <2>1. InFile # {}
    BY <1>2, <1>4
  <2> QED BY <1>2, <1>4, <2>1 DEF OpenFile
<1>5. ASSUME NEW u \in InFile', u \notin overlap' PROVE u = t
  BY <1>2, <1>5 DEF OpenFile
<1>6. file' = "empty" /\ writers' = writers \cup {t} /\ writers' \subseteq InFile'
  BY <1>2 DEF OpenFile, Inv, FileInv
<1>7. FileInv'
  <2>1. ASSUME NEW u \in Threads, u \notin overlap'
        PROVE  /\ pc'[u] = "write" => file' = "empty" /\ u \in writers'
               /\ pc'[u] = "psql" => file' = u
    <3>1. CASE u \in InFile'
      BY <1>1, <1>5, <1>6, <2>1, <3>1
    <3>2. CASE u \notin InFile'
      BY <3>2 DEF InFile
    <3> QED BY <3>1, <3>2
  <2> QED BY <1>3, <1>4, <1>6, <2>1 DEF FileInv
<1> QED BY <1>3, <1>7, StaysBusy DEF OpenFile, Busy

(* A thread in the file that met no other one is the only one in it.        *)
LEMMA AloneInFile ==
  ASSUME Inv, NEW t \in InFile, NEW u \in InFile, u \notin overlap PROVE u = t
BY DEF Inv, FileInv

LEMMA WriteFileStep == ASSUME Inv, NEW t \in Threads, WriteFile(t) PROVE Inv'
<1>1. \A u \in Threads : pc'[u] = IF u = t THEN "psql" ELSE pc[u]
  BY DEF WriteFile, Inv, FunctionsInv
<1>2. InFile' = InFile /\ t \in InFile /\ overlap' = overlap
  BY <1>1 DEF InFile, WriteFile
<1>3. file' \in Threads \cup {"absent", "empty", "mixed"} /\ writers' \subseteq InFile'
  <2>1. writers' \subseteq InFile'
    BY <1>2 DEF WriteFile, Inv, FileInv
  <2>2. file' \in {file, t, "mixed"}
    BY DEF WriteFile
  <2> QED BY <2>1, <2>2 DEF Inv, FileInv
<1>4. FileInv'
  <2>1. ASSUME NEW u \in Threads, u \notin overlap'
        PROVE  /\ pc'[u] = "write" => file' = "empty" /\ u \in writers'
               /\ pc'[u] = "psql" => file' = u
    <3>1. CASE u = t
      <4>1. file = "empty" /\ t \in writers
        BY <1>2, <2>1, <3>1 DEF WriteFile, Inv, FileInv
      <4>2. file' = t
        BY <4>1 DEF WriteFile
      <4> QED BY <1>1, <3>1, <4>2
    <3>2. CASE u # t
      <4>1. u \notin InFile
        BY <1>2, <2>1, <3>2, AloneInFile
      <4> QED BY <1>1, <3>2, <4>1 DEF InFile
    <3> QED BY <3>1, <3>2
  <2>2. (\A u, v \in InFile : u # v => u \in overlap)'
    BY <1>2 DEF Inv, FileInv
  <2>3. overlap' \subseteq Threads
    BY <1>2 DEF Inv, FileInv
  <2> QED BY <1>3, <2>1, <2>2, <2>3 DEF FileInv
<1> QED BY <1>2, <1>4, StaysBusy DEF WriteFile, Busy

LEMMA PsqlStep == ASSUME Inv, NEW t \in Threads, RunPsql(t) \/ PsqlFails(t) PROVE Inv'
<1>1. pc[t] = "psql" /\ pc[t] \in Busy /\ pc' = [pc EXCEPT ![t] = "remove"]
  BY DEF RunPsql, PsqlFails, Busy
<1>2. UNCHANGED <<tables, setting, running, mpc, req, todo, queryFile, history>>
  BY DEF RunPsql, PsqlFails
<1>3. PICK r : /\ reply' = [reply EXCEPT ![t] = r] /\ IsReply(r)
               /\ t \notin overlap => Fits(req[t], r) /\ UpToDate(req[t], r, known[t], stored)
  <2>1. CASE PsqlFails(t)
    BY <1>1, <2>1, OwnReply DEF PsqlFails, GotNothing
  <2>2. CASE RunPsql(t)
    <3>1. PICK u \in Threads :
            /\ file = u
            /\ IF Understood(Head(todo[t]), Head(todo[u]))
               THEN Got(t, RowsOf(Head(todo[u]), req[u])) ELSE GotNothing(t)
      BY <2>2 DEF RunPsql
    <3>2. t \notin overlap => u = t
      BY <1>1, <3>1 DEF Inv, FileInv
    <3>3. CASE ~Understood(Head(todo[t]), Head(todo[u]))
      BY <1>1, <3>1, <3>3, OwnReply DEF GotNothing
    <3>4. CASE Understood(Head(todo[t]), Head(todo[u]))
      <4> DEFINE r == WithRows(reply[t], Head(todo[t]), RowsOf(Head(todo[u]), req[u]))
      <4>1. reply' = [reply EXCEPT ![t] = r]
        BY <3>1, <3>4 DEF Got
      <4>2. IsReply(r)
        <5>1. IsReply(reply[t])
          BY DEF Inv, ThreadInv
        <5> QED BY <5>1, ReplyShape
      <4>3. t \notin overlap => Fits(req[t], r) /\ UpToDate(req[t], r, known[t], stored)
        BY <1>1, <3>2, OwnReply
      <4> QED BY <4>1, <4>2, <4>3
    <3> QED BY <3>3, <3>4
  <2> QED BY <2>1, <2>2
<1>4. /\ reply'[t] = r /\ req'[t] = req[t] /\ known'[t] = known[t] /\ overlap' = overlap
      /\ todo'[t] = todo[t] /\ pc'[t] = "remove"
  BY <1>1, <1>2, <1>3 DEF Inv, FunctionsInv, history, queryFile
<1>5. req[t].kind \in Answerable /\ todo[t] \in Rests(req[t])
  BY <1>1 DEF Inv, ThreadInv
<1>6. ThreadInv(t)'
  BY <1>2, <1>3, <1>4, <1>5, StillTold DEF ThreadInv, Busy, Fits, UpToDate
<1>7. FileInv'
  <2>1. \A u \in Threads : pc'[u] = IF u = t THEN "remove" ELSE pc[u]
    BY <1>1 DEF Inv, FunctionsInv
  <2>2. InFile' = InFile
    BY <1>1, <2>1 DEF InFile
  <2>3. (\A u, v \in InFile : u # v => u \in overlap)'
    BY <1>4, <2>2 DEF Inv, FileInv
  <2> QED BY <1>2, <2>1, <2>2, <2>3 DEF Inv, FileInv, queryFile
<1>8. /\ pc' = [pc EXCEPT ![t] = pc'[t]] /\ pc'[t] \in Places
      /\ todo' = [todo EXCEPT ![t] = todo'[t]] /\ reply' = [reply EXCEPT ![t] = reply'[t]]
  BY <1>1, <1>2, <1>3, <1>4 DEF Places, Busy, Inv, FunctionsInv
<1> QED BY <1>2, <1>4, <1>6, <1>7, <1>8, ThreadFrame DEF Inv

LEMMA RemoveFileStep == ASSUME Inv, NEW t \in Threads, RemoveFile(t) PROVE Inv'
<1>1. /\ pc[t] = "remove" /\ pc[t] \in Busy /\ Done(t) /\ file' = "absent" /\ writers' = {}
      /\ UNCHANGED <<tables, setting, running, mpc, req, reply, overlap, history>>
  BY DEF RemoveFile, Busy
<1>2. /\ pc' = [pc EXCEPT ![t] = pc'[t]] /\ todo' = [todo EXCEPT ![t] = todo'[t]]
      /\ pc'[t] \in {"send", "query", "open"}
      /\ IF pc'[t] = "send" THEN todo'[t] = <<>> ELSE todo'[t] \in Rests(req[t])
  BY <1>1, DoneParts
<1>3. reply'[t] = reply[t] /\ req'[t] = req[t] /\ known'[t] = known[t]
  BY <1>1 DEF history
<1>4. ThreadInv(t)
  BY DEF Inv
<1>5. ThreadInv(t)'
  BY <1>1, <1>2, <1>3, <1>4, StillTold DEF ThreadInv, Busy, Fits, UpToDate
<1>6. FileInv'
  <2>1. \A u \in Threads : u # t => pc'[u] = pc[u]
    BY <1>2 DEF Inv, FunctionsInv
  <2>2. InFile' \subseteq InFile /\ t \in InFile /\ t \notin InFile'
    BY <1>1, <1>2, <2>1 DEF InFile
  <2>3. ASSUME NEW u \in Threads, u \notin overlap'
        PROVE  pc'[u] \notin {"write", "psql"}
    <3>1. u \notin InFile'
      BY <1>1, <2>2, <2>3, AloneInFile
    <3> QED BY <3>1 DEF InFile
  <2>4. (\A u, v \in InFile : u # v => u \in overlap)'
    BY <1>1, <2>2 DEF Inv, FileInv
  <2> QED BY <1>1, <2>3, <2>4 DEF Inv, FileInv
<1>7. pc'[t] \in Places /\ reply' = [reply EXCEPT ![t] = reply'[t]]
  BY <1>1, <1>2 DEF Places, Busy, Inv, FunctionsInv
<1> QED BY <1>1, <1>2, <1>5, <1>6, <1>7, ThreadFrame DEF Inv

LEMMA StepInv == Inv /\ [Next]_vars => Inv'
<1> SUFFICES ASSUME Inv, [Next]_vars PROVE Inv'
  OBVIOUS
<1>1. CASE \E B \in Batches : StoreBatch(B)
  BY <1>1, StoreBatchStep
<1>2. CASE \E c \in Comparisons : StoreComparison(c)
  BY <1>2, StoreComparisonStep
<1>3. CASE Signal
  BY <1>3, MainKept DEF Signal, Inv, SettingInv
<1>4. CASE Main
  <2>1. CASE MainLoop
    BY <2>1, MainLoopStep
  <2>2. CASE MainReturns
    BY <2>2, ThreadsGoneStep DEF MainReturns
  <2>3. CASE PollTimeout
    BY <2>3, MainKept DEF PollTimeout, Inv, SettingInv
  <2>4. CASE \E q \in mix : Accept(q)
    BY <2>4, AcceptStep
  <2> QED BY <1>4, <2>1, <2>2, <2>3, <2>4 DEF Main
<1>5. ASSUME NEW t \in Threads,
             ReadFails(t) \/ ReadThrows(t) \/ ReadRequest(t) \/ Query(t) \/ SendKilled(t)
      PROVE  Inv'
  <2>1. CASE ReadFails(t)
    BY <2>1, EndsStep DEF ReadFails
  <2>2. CASE ReadRequest(t)
    BY <2>2, ReadRequestStep
  <2>3. CASE QueryLibpq(t) \/ QueryFails(t)
    BY <2>3, QueryStep
  <2>4. CASE OpenFile(t)
    BY <2>4, OpenFileStep
  <2>5. CASE WriteFile(t)
    BY <2>5, WriteFileStep
  <2>6. CASE RunPsql(t) \/ PsqlFails(t)
    BY <2>6, PsqlStep
  <2>7. CASE RemoveFile(t)
    BY <2>7, RemoveFileStep
  <2>8. CASE Send(t)
    BY <2>8, EndsStep DEF Send
  <2>9. CASE SendKilled(t)
    BY <2>9, ThreadsGoneStep DEF SendKilled
  <2>10. CASE ReadThrows(t)
    BY <2>10, ThreadsGoneStep DEF ReadThrows
  <2> QED BY <1>5, <2>1, <2>2, <2>3, <2>4, <2>5, <2>6, <2>7, <2>8, <2>9, <2>10 DEF Query
<1>6. CASE UNCHANGED vars
  <2>1. UNCHANGED <<tables, setting, running, mpc, thread, queryFile, history>>
    BY <1>6 DEF vars
  <2>2. running \in BOOLEAN /\ mpc \in {"loop", "poll", "return", "exit"}
    BY DEF Inv, SettingInv
  <2> QED BY <2>1, <2>2, MainKept
<1> QED BY <1>1, <1>2, <1>3, <1>4, <1>5, <1>6 DEF Next, Terminated

-----------------------------------------------------------------------------
(* The inductive invariant holds in every reachable state, for any number of*)
(* connections, requests and observations.                                  *)
THEOREM Invariant == Spec => []Inv
<1>1. Init => Inv
  BY InitInv
<1>2. Inv /\ [Next]_vars => Inv'
  BY StepInv
<1> QED BY <1>1, <1>2, PTL DEF Spec

(* Every variable keeps its type: no table holds two rows with one key, and *)
(* a handler has a statement to execute exactly while it is at work.        *)
THEOREM TypeCorrect == Spec => []TypeOK
<1>1. Inv => TypeOK
  <2> SUFFICES ASSUME Inv PROVE TypeOK
    OBVIOUS
  <2>1. \A r, s \in routes : SameSegment(r, s) => r = s
    BY DEF Inv, TableInv, RouteTables
  <2>2. /\ \A r, s \in cities : SameCity(r, s) => r = s
        /\ \A r, s \in tiles : SameTile(r, s) => r = s
    BY DEF Inv, TableInv, CityTables, TileTables
  <2>3. pc \in [Threads -> {"free", "read", "query", "open", "write", "psql", "remove", "send"}]
    BY DEF Inv, FunctionsInv, Places, Busy
  <2>4. ASSUME NEW t \in Threads
        PROVE  /\ pc[t] \in {"query", "open", "write", "psql", "remove"} <=> todo[t] # <<>>
               /\ reply[t].code \in {0, 200, 400, 404, 500}
    <3>1. ThreadInv(t)
      BY DEF Inv
    <3>2. pc[t] \in Busy => todo[t] # <<>>
      BY <3>1, RestOfStatements DEF ThreadInv
    <3>3. pc[t] \notin Busy => todo[t] = <<>>
      BY <2>3, <3>1 DEF ThreadInv, Busy
    <3> QED BY <3>1, <3>2, <3>3 DEF ThreadInv, IsReply, Busy
  <2> QED BY <2>1, <2>2, <2>3, <2>4 DEF TypeOK, Inv, SettingInv, TableInv, FunctionsInv, FileInv
<1> QED BY <1>1, Invariant, PTL

(* What a client is told is about what it asked, and the rows of a map are  *)
(* of one minute, unless the query met another one in the temporary file of *)
(* a service without libpq (queryJson, runPsqlQuery).                       *)
THEOREM AnswersOwn == Spec => []AnswersOwnRequest
<1>1. Inv => AnswersOwnRequest
  BY DEF Inv, ThreadInv, Fits, AnswersOwnRequest
<1> QED BY <1>1, Invariant, PTL

(* Whatever late batches replace, of what was stored before a request was   *)
(* accepted its answer leaves out only what the statement says: of a map the*)
(* earlier minutes, of a long series the newest buckets, of the comparisons *)
(* the oldest (flushBatch and the queries of TimescaleReadClient).          *)
THEOREM AnswersCurrent == Spec => []AnswersAreCurrent
<1>1. Inv => AnswersAreCurrent
  BY DEF Inv, ThreadInv, UpToDate, AnswersAreCurrent
<1> QED BY <1>1, Invariant, PTL

(* The average delay of a row of a route is between 1.0 and 1.6 and its     *)
(* average hazard between 0 and 100, of any set of admitted observations.   *)
THEOREM RiskBounded == Spec => []RouteRiskBounded
<1>1. Inv => RouteRiskBounded
  BY DEF Inv, TableInv, InScale, RouteRiskBounded
<1> QED BY <1>1, Invariant, PTL

(* The row of every observation of a batch counts all of the batch that its *)
(* city has, and no other row has its key.  That of its tile counts all that*)
(* one country has under its key: of the groups of several countries with   *)
(* one region one is stored, and it is whole.                               *)
THEOREM RowsAreComplete == Spec => RowsComplete
<1> DEFINE new == stored' \ stored
           Complete ==
             \A o \in new :
               /\ \E r \in tiles', p \in new :
                    /\ SameTile(r, o) /\ SameTile(p, o)
                    /\ r.n = Cardinality({s \in new : SameTile(s, o) /\ s.country = p.country})
                    /\ \A s \in tiles' : SameTile(s, o) => s = r
               /\ \E r \in cities' :
                    /\ SameCity(o, r)
                    /\ r.n = Cardinality({p \in new : SameCity(o, p)})
<1>1. ASSUME Inv, [Next]_vars PROVE [Complete]_vars
  <2>1. CASE stored' = stored
    BY <2>1
  <2>2. CASE stored' # stored
    <3>1. PICK B \in Batches : StoreBatch(B)
      BY <1>1, <2>2 DEF Next, StoreComparison, Signal, Main, MainLoop, MainReturns, PollTimeout,
        Accept, ReadFails, ReadThrows, ReadRequest, Query, SendKilled, Ends, QueryLibpq,
        QueryFails, OpenFile, WriteFile, RunPsql, PsqlFails, RemoveFile, Send, Terminated,
        tables, vars
    <3>2. new = B
      BY <3>1 DEF StoreBatch
    <3>3. tiles \in TileTables /\ cities \in CityTables
      BY <1>1 DEF Inv, TableInv
    <3> HIDE DEF new
    <3>4. ASSUME NEW o \in B
          PROVE  \E r \in tiles', p \in B :
                   /\ SameTile(r, o) /\ SameTile(p, o)
                   /\ r.n = Cardinality({s \in B : SameTile(s, o) /\ s.country = p.country})
                   /\ \A s \in tiles' : SameTile(s, o) => s = r
      <4>1. PICK L \in LastOfKeys(TileRows(B)) : tiles' = UpsertTiles(L, tiles)
        BY <3>1 DEF StoreBatch
      <4>2. PICK q \in TileRows(B) : SameTile(q, o)
        BY TileRowsOf
      <4>3. /\ tiles' \in TileTables
            /\ \E s \in tiles' \cap TileRows(B) : SameTile(s, q)
        BY <3>3, <4>1, TileRowsOf, TilesUpserted
      <4>4. PICK r \in tiles' \cap TileRows(B) : SameTile(r, q)
        BY <4>3
      <4>5. PICK p \in B :
              SameTile(r, p) /\ r.n = Cardinality({x \in B : TileGroup(p, x)})
        BY TileRowsOf
      <4>6. SameTile(r, o) /\ SameTile(p, o)
        BY <4>2, <4>4, <4>5 DEF SameTile
      <4>7. {x \in B : TileGroup(p, x)} = {s \in B : SameTile(s, o) /\ s.country = p.country}
        <5>1. \A x \in B : TileGroup(p, x) <=> SameTile(x, o) /\ x.country = p.country
          BY <4>6 DEF TileGroup, SameTile
        <5> QED BY <5>1
      <4>8. ASSUME NEW s \in tiles', SameTile(s, o) PROVE s = r
        <5>1. SameTile(s, r)
          BY <4>6, <4>8 DEF SameTile
        <5> QED BY <4>3, <5>1 DEF TileTables
      <4> QED BY <4>5, <4>6, <4>7, <4>8
    <3>5. ASSUME NEW o \in B
          PROVE  \E r \in cities' :
                   SameCity(o, r) /\ r.n = Cardinality({p \in B : SameCity(o, p)})
      <4>1. PICK s \in CityRows(B) : SameCity(s, o) /\ s.n = Cardinality(SameCityIn(B, o))
        BY CityRowsOf
      <4>2. PICK r \in cities' : SameCity(r, s) /\ r.n = s.n
        <5>1. /\ IsFiniteSet(CityRows(B)) /\ CityRows(B) \in SUBSET CityRec
              /\ \A x, y \in CityRows(B) : SameCity(x, y) => x = y
          BY CityRowsOf
        <5>2. cities' = FoldSet(UpsertCity, cities, CityRows(B))
          BY <3>1 DEF StoreBatch
        <5> QED BY <3>3, <4>1, <5>1, <5>2, CityFold
      <4>3. SameCity(o, r)
        BY <4>1, <4>2 DEF SameCity
      <4> QED BY <4>1, <4>2, <4>3 DEF SameCityIn
    <3> QED BY <3>2, <3>4, <3>5
  <2> QED BY <2>1, <2>2
<1> QED BY <1>1, Invariant, PTL DEF Spec, RowsComplete
=============================================================================
