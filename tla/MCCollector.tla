----------------------------- MODULE MCCollector -----------------------------
EXTENDS Collector
CONSTANTS a, b

MCCities == {a, b}
=============================================================================
