----------------------------- MODULE MCSpscRing -----------------------------
EXTENDS SpscRing, TLC
CONSTANTS i1, i2, i3
MCItems == {i1, i2, i3}
=============================================================================
