---------------------------- MODULE MCOutboxStore ----------------------------
EXTENDS OutboxStore

(* Two observations of one bucket, one of another, and one the server      *)
(* refuses.                                                                *)
MCIds == {"a", "b", "c", "p"}
MCBucketOf == [id \in MCIds |-> IF id = "c" THEN 2 ELSE 1]
MCTemp == [id \in MCIds |-> CASE id = "a" -> -5 [] id = "b" -> 7 [] OTHER -> 3]
MCBatches == {<<"a">>, <<"c", "b">>, <<"p">>}
=============================================================================
