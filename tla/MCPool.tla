------------------------------- MODULE MCPool --------------------------------
(* Pool on small instances.  Threads, handles and connections are            *)
(* interchangeable; slots are not, the scans go through them in order.       *)
EXTENDS Pool, TLC

Symmetry ==
    Permutations(Threads) \cup Permutations(Handles) \cup Permutations(Conns)
==============================================================================
