----------------------------- MODULE ImportJobs -----------------------------
(***************************************************************************)
(* The job runner of the import pipeline: ImportLockService and the three  *)
(* jobs ImportJobsService starts under it.  A request to run a job creates *)
(* an ImportJobRun row, goes on in the background, takes the ImportJobLock *)
(* row of its job (one row per jobKey, with an owner and an expiry), does  *)
(* the import, writes the outcome to its row and deletes the lock row.     *)
(*                                                                         *)
(* Nothing renews a lease, the transaction import deletes the lock row     *)
(* whoever owns it, and a crash leaves rows and locks as they are: what    *)
(* the lock is worth under these three facts is the subject of the module. *)
(***************************************************************************)
EXTENDS Naturals, Sequences, FiniteSetsExt

CONSTANTS
    Run,        \* requests to run a job
    Job,        \* the job keys
    TXN,        \* the key 'cc_txn_import'
    DETAILED,   \* the key 'detailed_statements_backfill', which has no run row
    Requests,   \* the jobs the requests may be for
    Ttl,        \* the lease of each job, in ticks
    MaxClock    \* bound on the clock

ASSUME JobAssumption ==
    /\ TXN \in Job
    /\ DETAILED \in Job \ {TXN}
    /\ Requests \subseteq [Run -> Job]
    /\ Ttl \in [Job -> Nat \ {0}]
    /\ MaxClock \in Nat

VARIABLES
    job,         \* the job each request is for
    clock,       \* Date.now(), in ticks
    up,          \* is the server process up?
    lock,        \* the ImportJobLock table, a row or NoLock for each job key
    row,         \* ImportJobRun.status of each request
    created,     \* the requests that have a run row, in createdAt order
    reauth,      \* does the payload of the run row say REAUTH_REQUIRED?
    pc,          \* where the code that serves the request stands
    owner,       \* its lock owner, `api:${Date.now()}`
    lease,       \* the expiresAt its acquire computed
    late,        \* auxiliary: the requests still at work when their lease ended
    lastOutcome  \* auxiliary: what the last import of a job to end said

vars == <<job, clock, up, lock, row, created, reauth, pc, owner, lease, late, lastOutcome>>

NoLock == [owner |-> 0, expiresAt |-> 0]

\* Without an owner, release deletes the row of the job whoever wrote it.
OwnerReleased == Job \ {TXN}

Working == {"working", "catching", "releasing", "rethrowing"}

Waiting == {"sweeping", "creating", "skipping"}

TypeOK ==
    /\ job \in [Run -> Job]
    /\ clock \in Nat
    /\ up \in BOOLEAN
    /\ lock \in [Job -> [owner : Nat, expiresAt : Nat]]
    /\ row \in [Run -> {"NONE", "RUNNING", "SKIPPED_LOCKED", "OK", "PARTIAL", "FAILURE"}]
    /\ created \in Seq(Run)
    /\ reauth \in [Run -> BOOLEAN]
    /\ pc \in [Run -> {"idle", "done", "refused", "dead"} \cup Waiting \cup Working]
    /\ owner \in [Run -> Nat]
    /\ lease \in [Run -> Nat]
    /\ late \in SUBSET Run
    /\ lastOutcome \in [Job -> {"none", "settled", "reauth"}]

Init ==
    /\ job \in Requests
    /\ clock = 1
    /\ up = TRUE
    /\ lock = [j \in Job |-> NoLock]
    /\ row = [r \in Run |-> "NONE"]
    /\ created = <<>>
    /\ reauth = [r \in Run |-> FALSE]
    /\ pc = [r \in Run |-> "idle"]
    /\ owner = [r \in Run |-> 0]
    /\ lease = [r \in Run |-> 0]
    /\ late = {}
    /\ lastOutcome = [j \in Job |-> "none"]

-----------------------------------------------------------------------------
(* ImportLockService *)

\* Fault: the sweep forgets to look at the expiry.
SweepExpiredAny(j) == lock' = [lock EXCEPT ![j] = NoLock]

\* acquire, first statement: delete the row of the job if it has expired.
SweepExpired(j) ==
    lock' = [lock EXCEPT ![j] = IF @.expiresAt < clock THEN NoLock ELSE @]

\* Fault: an upsert, which takes the row over.
InsertLockUpsert(r, j) ==
    lock' = [lock EXCEPT ![j] = [owner |-> owner[r], expiresAt |-> lease[r]]]

\* acquire, second statement: the insert, which the primary key on jobKey
\* refuses while the job has a row.
InsertLock(r, j) ==
    /\ lock[j] = NoLock
    /\ lock' = [lock EXCEPT ![j] = [owner |-> owner[r], expiresAt |-> lease[r]]]

\* Fault: no release looks at the owner.
ReleaseAnyOwner(r, j) == lock' = [lock EXCEPT ![j] = NoLock]

\* release: delete the row, when an owner is given only if it is the owner's.
ReleaseLock(r, j) ==
    lock' = [lock EXCEPT ![j] =
        IF j \in OwnerReleased /\ @.owner # owner[r] THEN @ ELSE NoLock]

-----------------------------------------------------------------------------
(* ImportJobsService *)

\* The request arrives: the run row is created RUNNING (the detailed sync has
\* none) and the work is started without being awaited.
Start(r) ==
    /\ up
    /\ pc[r] = "idle"
    /\ pc' = [pc EXCEPT ![r] = "sweeping"]
    /\ owner' = [owner EXCEPT ![r] = clock]
    /\ IF job[r] = DETAILED
       THEN UNCHANGED <<row, created>>
       ELSE /\ row' = [row EXCEPT ![r] = "RUNNING"]
            /\ created' = Append(created, r)
    /\ UNCHANGED <<job, clock, up, lock, reauth, lease, late, lastOutcome>>

\* The write of the run's id into the payload throws: the request is answered
\* with an error, the work never starts and the row stays RUNNING.
StartThrows(r) ==
    /\ up
    /\ pc[r] = "idle"
    /\ job[r] # DETAILED
    /\ pc' = [pc EXCEPT ![r] = "refused"]
    /\ row' = [row EXCEPT ![r] = "RUNNING"]
    /\ created' = Append(created, r)
    /\ UNCHANGED <<job, clock, up, lock, reauth, owner, lease, late, lastOutcome>>

\* acquire reads the time once, for the sweep and for its own expiry.
Sweep(r) ==
    /\ pc[r] = "sweeping"
    /\ SweepExpired(job[r])
    /\ lease' = [lease EXCEPT ![r] = clock + Ttl[job[r]]]
    /\ pc' = [pc EXCEPT ![r] = "creating"]
    /\ UNCHANGED <<job, clock, up, row, created, reauth, owner, late, lastOutcome>>

Acquire(r) ==
    /\ pc[r] = "creating"
    /\ InsertLock(r, job[r])
    /\ pc' = [pc EXCEPT ![r] = "working"]
    /\ late' = IF lease[r] < clock THEN late \cup {r} ELSE late
    /\ UNCHANGED <<job, clock, up, row, created, reauth, owner, lease, lastOutcome>>

\* Any exception of the insert means "not acquired": the row of another run,
\* and just as well an error of the database.
AcquireFails(r) ==
    /\ pc[r] = "creating"
    /\ pc' = [pc EXCEPT ![r] = "skipping"]
    /\ UNCHANGED <<job, clock, up, lock, row, created, reauth, owner, lease, late, lastOutcome>>

\* Fault: a skipped run returns without updating its row.
SkipSilently(r) ==
    /\ pc[r] = "skipping"
    /\ pc' = [pc EXCEPT ![r] = "done"]
    /\ UNCHANGED <<job, clock, up, lock, row, created, reauth, owner, lease, late, lastOutcome>>

\* Fault: the row gets a status the snapshot type does not have.
SkipMistyped(r) ==
    /\ pc[r] = "skipping"
    /\ pc' = [pc EXCEPT ![r] = "done"]
    /\ row' = [row EXCEPT ![r] = "SKIPPED"]
    /\ UNCHANGED <<job, clock, up, lock, created, reauth, owner, lease, late, lastOutcome>>

Skip(r) ==
    /\ pc[r] = "skipping"
    /\ pc' = [pc EXCEPT ![r] = "done"]
    /\ row' = IF job[r] = DETAILED THEN row ELSE [row EXCEPT ![r] = "SKIPPED_LOCKED"]
    /\ UNCHANGED <<job, clock, up, lock, created, reauth, owner, lease, late, lastOutcome>>

\* The import ends and its summary is written to the run row.
Finish(r) ==
    /\ pc[r] = "working"
    /\ pc' = [pc EXCEPT ![r] = "releasing"]
    /\ IF job[r] = DETAILED
       THEN UNCHANGED <<row, reauth, lastOutcome>>
       ELSE \E status \in {"OK", "PARTIAL", "FAILURE"}, dead \in BOOLEAN :
              /\ dead => status # "OK"
              /\ row' = [row EXCEPT ![r] = status]
              /\ reauth' = [reauth EXCEPT ![r] = dead]
              /\ lastOutcome' = [lastOutcome EXCEPT ![job[r]] =
                                   IF dead THEN "reauth" ELSE "settled"]
    /\ UNCHANGED <<job, clock, up, lock, created, owner, lease, late>>

\* The import, or the write of its summary, throws.
Throw(r) ==
    /\ pc[r] = "working"
    /\ pc' = [pc EXCEPT ![r] = IF job[r] = DETAILED THEN "releasing" ELSE "catching"]
    /\ UNCHANGED <<job, clock, up, lock, row, created, reauth, owner, lease, late, lastOutcome>>

RecordFailure(r) ==
    /\ pc[r] = "catching"
    /\ pc' = [pc EXCEPT ![r] = "releasing"]
    /\ row' = [row EXCEPT ![r] = "FAILURE"]
    /\ reauth' = [reauth EXCEPT ![r] = FALSE]
    /\ lastOutcome' = [lastOutcome EXCEPT ![job[r]] = "settled"]
    /\ UNCHANGED <<job, clock, up, lock, created, owner, lease, late>>

\* The write in the catch block throws as well; finally still runs.
RecordFailureThrows(r) ==
    /\ pc[r] = "catching"
    /\ pc' = [pc EXCEPT ![r] = "rethrowing"]
    /\ UNCHANGED <<job, clock, up, lock, row, created, reauth, owner, lease, late, lastOutcome>>

Release(r) ==
    /\ pc[r] = "releasing"
    /\ ReleaseLock(r, job[r])
    /\ pc' = [pc EXCEPT ![r] = "done"]
    /\ UNCHANGED <<job, clock, up, row, created, reauth, owner, lease, late, lastOutcome>>

\* The detailed sync is awaited by its request: when the sweep or the release
\* throws, the request fails, and a lock row it holds is there until it expires.
RequestThrows(r) ==
    /\ job[r] = DETAILED
    /\ pc[r] \in {"sweeping", "releasing"}
    /\ pc' = [pc EXCEPT ![r] = "refused"]
    /\ UNCHANGED <<job, clock, up, lock, row, created, reauth, owner, lease, late, lastOutcome>>

\* A process that stops takes every request in flight with it and leaves the
\* tables as they are.
Stopped(p) == [r \in Run |-> IF p[r] \in Waiting \cup Working THEN "dead" ELSE p[r]]

\* The promise was not awaited: its rejection is unhandled, and Node exits.
ReleaseAndExit(r) ==
    /\ pc[r] = "rethrowing"
    /\ ReleaseLock(r, job[r])
    /\ up' = FALSE
    /\ pc' = Stopped(pc)
    /\ UNCHANGED <<job, clock, row, created, reauth, owner, lease, late, lastOutcome>>

\* The process is killed, or a rejection is unhandled: the sweep, the update of
\* a skipped run or the release of a job that is not awaited throws.
Crash ==
    /\ up
    /\ up' = FALSE
    /\ pc' = Stopped(pc)
    /\ UNCHANGED <<job, clock, lock, row, created, reauth, owner, lease, late, lastOutcome>>

\* Fault: no onModuleInit.
BootKeepsLocks ==
    /\ ~up
    /\ up' = TRUE
    /\ UNCHANGED <<job, clock, lock, row, created, reauth, pc, owner, lease, late, lastOutcome>>

\* onModuleInit runs before the server listens.
Boot ==
    /\ ~up
    /\ up' = TRUE
    /\ lock' = [lock EXCEPT ![TXN] = NoLock]
    /\ UNCHANGED <<job, clock, row, created, reauth, pc, owner, lease, late, lastOutcome>>

Tick ==
    /\ clock < MaxClock
    /\ clock' = clock + 1
    /\ late' = late \cup {r \in Run : pc[r] \in Working /\ lease[r] < clock + 1}
    /\ UNCHANGED <<job, up, lock, row, created, reauth, pc, owner, lease, lastOutcome>>

Step(r) ==
    \/ Sweep(r) \/ Acquire(r) \/ AcquireFails(r) \/ Skip(r)
    \/ Finish(r) \/ Throw(r) \/ RecordFailure(r) \/ RecordFailureThrows(r)
    \/ Release(r) \/ ReleaseAndExit(r) \/ RequestThrows(r)

Next ==
    \/ \E r \in Run : Start(r) \/ StartThrows(r) \/ Step(r)
    \/ Crash \/ Boot \/ Tick

Spec == Init /\ [][Next]_vars

\* Every await of a request settles: database calls end or throw, each Gmail
\* and Gemini call has a timeout and a bounded number of attempts.
FairSpec == Spec /\ \A r \in Run : WF_vars(Step(r))

-----------------------------------------------------------------------------
(* What the status endpoints answer. *)

\* The transaction import ignores runs in flight; the statements import does not.
Visible(j) ==
    {i \in DOMAIN created : job[created[i]] = j /\ (j = TXN => row[created[i]] # "RUNNING")}

StatusReauth(j) == Visible(j) # {} /\ reauth[created[Max(Visible(j))]]

-----------------------------------------------------------------------------
(* Properties *)

HoldsLease(r) == pc[r] \in Working /\ clock <= lease[r]

OnJob(j) == {r \in Run : job[r] = j}

\* What can take the lock from a run whose lease is still good: a run of the
\* same job that outlived its own lease, and, where release names the owner,
\* had its request come in the same millisecond as another one.
Excused(j) ==
    \E r \in late \cap OnJob(j) :
        j \in OwnerReleased => \E s \in OnJob(j) \ {r} : pc[s] # "idle" /\ owner[s] = owner[r]

\* Two runs of one job never hold a good lease at the same time, unless a run
\* of that job has outlived its lease and released a lock that was no longer
\* its own (import-jobs.service.ts releases JOB_KEY without an owner).
LeaseExclusive ==
    \A j \in Job : \A r, s \in OnJob(j) :
        HoldsLease(r) /\ HoldsLease(s) /\ r # s => Excused(j)

\* The lock service implements the abstract lease (JobLease).
Lease == INSTANCE JobLease WITH
    holders <- [j \in Job |-> {r \in OnJob(j) : HoldsLease(r)}],
    void <- [j \in Job |-> Excused(j)]

\* Every step of the job runner grants a lease that is free, ends leases, or
\* leaves them alone, as long as the promise holds for the job.
ImplementsLease == Lease!Spec

\* As long as no run of a job has outlived its lease, its imports never
\* overlap, whatever crashes, restarts, failed inserts and failed writes do.
OverlapNeedsOverrun ==
    \A j \in Job : \A r, s \in OnJob(j) :
        pc[r] \in Working /\ pc[s] \in Working /\ r # s => late \cap OnJob(j) # {}

\* While the server is up, a lock row of the transaction import is the row of
\* a run that is still at work: a crash never blocks the hourly import for
\* the six hours of its lease, because startup deletes the row.
NoOrphanTxnLock ==
    up /\ lock[TXN] # NoLock =>
        \E r \in OnJob(TXN) : pc[r] \in Working /\ lock[TXN] = [owner |-> owner[r], expiresAt |-> lease[r]]

\* The run a client polls for gets its final status, unless the process died
\* under it or its request was answered with an error.
RunSettles ==
    \A r \in Run : row[r] = "RUNNING" ~> (row[r] # "RUNNING" \/ pc[r] \in {"dead", "refused"})

\* docs/domain/cc-txn-import-runtime.md:12, the status endpoint "ignores
\* in-flight runs, so the reauth banner keeps showing the last settled outcome".
BannerShowsLastOutcome == lastOutcome[TXN] = "reauth" => StatusReauth(TXN)
=============================================================================
