------------------------------- MODULE MCStep --------------------------------
(* Step on small instances.  Without "cross" the first read and the write    *)
(* are stepped by one thread, the second read by that thread or another.     *)
EXTENDS Release, TLC

CONSTANTS t1, t2, r1, r2, w1

OneThread == [s \in Stmts |-> t1]
TwoThreads == [s \in Stmts |-> IF s = r2 THEN t2 ELSE t1]

\* Connections are alike; where any thread may step any statement Home plays
\* no part, and threads and reads are alike too.
Alike == Permutations(Conns) \cup Permutations(Threads) \cup Permutations(Reads)
==============================================================================
