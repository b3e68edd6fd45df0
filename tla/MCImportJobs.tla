---------------------------- MODULE MCImportJobs ----------------------------
(* Small instances of ImportJobs: three requests, all for one job, be it the *)
(* one whose release names no owner or one whose release does; or one        *)
(* request for each of the three jobs.                                       *)
EXTENDS ImportJobs, TLC

CONSTANTS STATEMENTS, r1, r2, r3

MCJob == {TXN, STATEMENTS, DETAILED}

MCTtl == [j \in MCJob |-> 1]

AllFor(j) == [r \in Run |-> j]
AnyJob == {AllFor(j) : j \in MCJob}
OnlyTxn == {AllFor(TXN)}
EachJob == {[r \in Run |-> CASE r = r1 -> TXN [] r = r2 -> STATEMENTS [] r = r3 -> DETAILED]}

Symmetric == Permutations({r1, r2, r3})
=============================================================================
