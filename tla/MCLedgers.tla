------------------------------ MODULE MCLedgers ------------------------------
(* Small instances of Ledgers.  The ids of entries and the requests are *)
(* interchangeable.                                                     *)
EXTENDS Ledgers, TLC

Symmetric == Permutations(Entry) \cup Permutations(Request)
=============================================================================
