---------------------------- MODULE MCDatastore ----------------------------
(* Small instances of the datastore for TLC.                               *)
EXTENDS DatastoreProperties, TLC

CONSTANTS p1, p2, cpu, qbl

\* One of the three internal metrics Process queues stands for all three.
OneInternal == <<qbl>>

\* Telnet and HTTP threads do the same to the queue.
ProducerSymmetry == Permutations(Producers)
=============================================================================
