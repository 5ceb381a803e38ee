-------------------------------- MODULE MCTxn --------------------------------
(* Txn for TLC: two writes, and savepoint names 1 and 2.                   *)
EXTENDS Txn

MCNames == {1, 2}
MCFold == [n \in MCNames |-> n]
MCWrites == {"w1", "w2"}
==============================================================================
