----------------------------- MODULE MCSettings ------------------------------
(* Small instances of Settings.  Ids of sales, tokens and requests are *)
(* interchangeable.                                                    *)
EXTENDS Settings, TLC

Symmetric == Permutations(Sale) \cup Permutations(Token) \cup Permutations(Request)
=============================================================================
