-------------------------- MODULE MCTimescaleWriter --------------------------
(* Small instances of TimescaleWriter for TLC. *)
EXTENDS TimescaleWriter, TLC

CONSTANTS a, b, c, t1, t2

\* Two regions; ids a and c share the first one.
MCIds == {a, b, c}
MCRegionOf == (a :> 1) @@ (b :> 2) @@ (c :> 1)
=============================================================================
