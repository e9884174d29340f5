-------------------------- MODULE MCSharedPublisher --------------------------
EXTENDS SharedPublisher
CONSTANTS t1, t2

(* A collector: one sender thread.  A gateway with two clients.            *)
MCSender == {t1}
MCClients == {t1, t2}
=============================================================================
