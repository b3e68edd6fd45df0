------------------------------ MODULE MCAccount ------------------------------
(* A small instance of Account: one user there is from the start, two Google *)
(* accounts and addresses, three halves of a fiscal year.                     *)
EXTENDS Account, TLC

CONSTANTS g1, g2, e1, e2, u1

\* The first Google account may have either address.
Reported == {<<g1, e1>>, <<g1, e2>>, <<g2, e1>>}
FromTheStart == [u \in User |-> IF u = u1 THEN e1 ELSE None]

\* The parts never meet in one behaviour, and so may share their values.
Symmetric == Permutations(Sale) \cup Permutations(Request)
=============================================================================
