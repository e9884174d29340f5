------------------------ MODULE MCPersonalComparator ------------------------
EXTENDS PersonalComparator

(* Two readings beyond the threshold, and one within it that has the time  *)
(* of the first.                                                           *)
MCReadings == {[at |-> 1, exceeds |-> TRUE], [at |-> 1, exceeds |-> FALSE],
               [at |-> 2, exceeds |-> TRUE]}
=============================================================================
