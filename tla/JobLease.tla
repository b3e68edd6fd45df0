------------------------------ MODULE JobLease ------------------------------
(***************************************************************************)
(* What the lock table promises the jobs: a lease of a job has at most one *)
(* holder at a time, until a run of that job outlives its lease.  From     *)
(* then on the promise is void for that job.                               *)
(***************************************************************************)
CONSTANTS Run, Job

VARIABLES
    holders,  \* the runs that hold the lease of each job
    void      \* has a run of the job outlived its lease?

vars == <<holders, void>>

Init ==
    /\ holders = [j \in Job |-> {}]
    /\ void = [j \in Job |-> FALSE]

VoidForGood == void' \in [Job -> BOOLEAN] /\ \A j \in Job : void[j] => void'[j]

\* A lease is granted when it is free.
Grant(j, r) ==
    /\ holders[j] = {} \/ void[j]
    /\ holders' = [holders EXCEPT ![j] = @ \cup {r}]
    /\ VoidForGood

\* Leases end: released, expired, or lost with the process.
Lapse ==
    /\ holders' \in [Job -> SUBSET Run]
    /\ \A j \in Job : holders'[j] \subseteq holders[j]
    /\ VoidForGood

Next == Lapse \/ \E j \in Job, r \in Run : Grant(j, r)

Spec == Init /\ [][Next]_vars
=============================================================================
