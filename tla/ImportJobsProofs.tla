-------------------------- MODULE ImportJobsProofs --------------------------
(***************************************************************************)
(* Proofs about ImportJobs, for any number of requests and jobs, any lease *)
(* lengths and any clock bound.                                            *)
(***************************************************************************)
EXTENDS ImportJobs, TLAPS

-----------------------------------------------------------------------------
(* Type correctness *)

LEMMA InitTypeOK == Init => TypeOK
  BY JobAssumption DEF Init, TypeOK, NoLock, Waiting, Working

LEMMA NextTypeOK == TypeOK /\ [Next]_vars => TypeOK'
<1> SUFFICES ASSUME TypeOK, [Next]_vars
             PROVE  TypeOK'
  OBVIOUS
<1> USE JobAssumption DEF TypeOK, Waiting, Working
<1>1. ASSUME NEW r \in Run, Start(r) PROVE TypeOK'
  <2>1. pc' \in [Run -> {"idle", "done", "refused", "dead"} \cup Waiting \cup Working]
    BY <1>1 DEF Start
  <2>2. owner' \in [Run -> Nat]
    BY <1>1 DEF Start
  <2>3. /\ row' \in [Run -> {"NONE", "RUNNING", "SKIPPED_LOCKED", "OK", "PARTIAL", "FAILURE"}]
        /\ created' \in Seq(Run)
    <3>1. CASE job[r] = DETAILED
      BY <1>1, <3>1 DEF Start
    <3>2. CASE job[r] # DETAILED
      <4>1. row' = [row EXCEPT ![r] = "RUNNING"] /\ created' = Append(created, r)
        BY <1>1, <3>2 DEF Start
      <4> QED BY <4>1
    <3> QED BY <3>1, <3>2
  <2> QED BY <1>1, <2>1, <2>2, <2>3 DEF Start
<1>2. ASSUME NEW r \in Run, Sweep(r) PROVE TypeOK'
  <2>1. lock' \in [Job -> [owner : Nat, expiresAt : Nat]]
    BY <1>2 DEF Sweep, SweepExpired, NoLock
  <2>2. lease' \in [Run -> Nat]
    BY <1>2 DEF Sweep
  <2> QED BY <1>2, <2>1, <2>2 DEF Sweep
<1>3. ASSUME NEW r \in Run, Acquire(r) PROVE TypeOK'
  BY <1>3 DEF Acquire, InsertLock
<1>4. ASSUME NEW r \in Run, AcquireFails(r) PROVE TypeOK'
  BY <1>4 DEF AcquireFails
<1>5. ASSUME NEW r \in Run, Skip(r) PROVE TypeOK'
  BY <1>5 DEF Skip
<1>6. ASSUME NEW r \in Run, Finish(r) PROVE TypeOK'
  <2>1. row' \in [Run -> {"NONE", "RUNNING", "SKIPPED_LOCKED", "OK", "PARTIAL", "FAILURE"}]
    BY <1>6 DEF Finish
  <2>2. reauth' \in [Run -> BOOLEAN]
    BY <1>6 DEF Finish
  <2>3. lastOutcome' \in [Job -> {"none", "settled", "reauth"}]
    BY <1>6 DEF Finish
  <2>4. pc' \in [Run -> {"idle", "done", "refused", "dead"} \cup Waiting \cup Working]
    BY <1>6 DEF Finish
  <2> QED BY <1>6, <2>1, <2>2, <2>3, <2>4 DEF Finish
<1>7. ASSUME NEW r \in Run, Throw(r) PROVE TypeOK'
  BY <1>7 DEF Throw
<1>8. ASSUME NEW r \in Run, RecordFailure(r) PROVE TypeOK'
  BY <1>8 DEF RecordFailure
<1>9. ASSUME NEW r \in Run, RecordFailureThrows(r) PROVE TypeOK'
  BY <1>9 DEF RecordFailureThrows
<1>10. ASSUME NEW r \in Run, ReleaseLock(r, job[r])
       PROVE  lock' \in [Job -> [owner : Nat, expiresAt : Nat]]
  BY <1>10 DEF ReleaseLock, NoLock
<1>11. ASSUME NEW r \in Run, Release(r) PROVE TypeOK'
  BY <1>10, <1>11 DEF Release
<1>12. Stopped(pc) \in [Run -> {"idle", "done", "refused", "dead"} \cup Waiting \cup Working]
  BY DEF Stopped
<1>13. ASSUME NEW r \in Run, ReleaseAndExit(r) PROVE TypeOK'
  BY <1>10, <1>12, <1>13 DEF ReleaseAndExit
<1>14. CASE Crash
  BY <1>12, <1>14 DEF Crash
<1>15. CASE Boot
  BY <1>15 DEF Boot, NoLock
<1>16. CASE Tick
  BY <1>16 DEF Tick
<1>17. CASE UNCHANGED vars
  BY <1>17 DEF vars
<1>18. ASSUME NEW r \in Run, StartThrows(r) PROVE TypeOK'
  <2>1. created' \in Seq(Run)
    BY <1>18 DEF StartThrows
  <2>2. /\ pc' \in [Run -> {"idle", "done", "refused", "dead"} \cup Waiting \cup Working]
        /\ row' \in [Run -> {"NONE", "RUNNING", "SKIPPED_LOCKED", "OK", "PARTIAL", "FAILURE"}]
    BY <1>18 DEF StartThrows
  <2> QED BY <1>18, <2>1, <2>2 DEF StartThrows
<1>19. ASSUME NEW r \in Run, RequestThrows(r) PROVE TypeOK'
  BY <1>19 DEF RequestThrows
<1> QED
  BY <1>1, <1>2, <1>3, <1>4, <1>5, <1>6, <1>7, <1>8, <1>9, <1>11, <1>13,
     <1>14, <1>15, <1>16, <1>17, <1>18, <1>19 DEF Next, Step

\* Every variable keeps its type.
THEOREM TypeCorrect == Spec => []TypeOK
  BY InitTypeOK, NextTypeOK, PTL DEF Spec

-----------------------------------------------------------------------------
\* What a request is for does not change.
LEMMA SameJobs ==
  ASSUME [Next]_vars
  PROVE  job' = job /\ \A j : OnJob(j)' = OnJob(j)
<1>1. job' = job
  BY DEF Next, Step, vars, Start, StartThrows, Sweep, Acquire, AcquireFails, Skip, Finish,
     Throw, RecordFailure, RecordFailureThrows, Release, ReleaseAndExit, RequestThrows,
     Crash, Boot, Tick
<1> QED BY <1>1 DEF OnJob

-----------------------------------------------------------------------------
(* The inductive invariant behind the lease *)

\* The clock starts at 1, so that no lease in force looks like NoLock.
ClockStarted == clock >= 1

\* A run at work past its lease is known to be late, and a late run has started.
LateTracked ==
    /\ \A r \in Run : pc[r] \in Working /\ lease[r] < clock => r \in late
    /\ \A r \in late : pc[r] # "idle"

\* The lock row of a job is the row of the run that holds the job's lease.
HolderOwnsRow ==
    \A r \in Run :
        HoldsLease(r) /\ ~Excused(job[r]) =>
            lock[job[r]] = [owner |-> owner[r], expiresAt |-> lease[r]]

\* Nothing is at work while the server is down.
StoppedWhenDown == ~up => \A r \in Run : pc[r] \notin Waiting \cup Working

IInv ==
    /\ TypeOK
    /\ ClockStarted
    /\ LateTracked
    /\ StoppedWhenDown
    /\ HolderOwnsRow
    /\ LeaseExclusive
    /\ NoOrphanTxnLock

LEMMA InitIInv == Init => IInv
<1> SUFFICES ASSUME Init PROVE IInv
  OBVIOUS
<1>1. TypeOK
  BY InitTypeOK
<1>2. \A r \in Run : pc[r] = "idle"
  BY DEF Init
<1>3. \A r \in Run : pc[r] \notin Working \cup Waiting
  BY <1>2 DEF Working, Waiting
<1>4. lock[TXN] = NoLock
  BY JobAssumption DEF Init
<1> QED
  BY <1>1, <1>2, <1>3, <1>4 DEF IInv, Init, ClockStarted, LateTracked, StoppedWhenDown,
     HolderOwnsRow, LeaseExclusive, NoOrphanTxnLock, HoldsLease, OnJob

(***************************************************************************)
(* What a step may do to the variables the lease is about: time goes on,   *)
(* late runs stay late, owners are fixed once a request has started, and   *)
(* only Acquire puts a run to work.                                        *)
(***************************************************************************)
LEMMA StepFrame ==
  ASSUME IInv, [Next]_vars
  PROVE  /\ clock' >= clock
         /\ late \subseteq late'
         /\ \A s \in Run : pc[s] # "idle" => pc'[s] # "idle" /\ owner'[s] = owner[s]
         /\ \A s \in Run : pc'[s] \in Working =>
               \/ Acquire(s)
               \/ pc[s] \in Working /\ lease'[s] = lease[s]
         /\ \A s \in late' \ late : pc'[s] \in Working
<1> DEFINE Frame ==
         /\ clock' >= clock
         /\ late \subseteq late'
         /\ \A s \in Run : pc[s] # "idle" => pc'[s] # "idle" /\ owner'[s] = owner[s]
         /\ \A s \in Run : pc'[s] \in Working =>
               \/ Acquire(s)
               \/ pc[s] \in Working /\ lease'[s] = lease[s]
         /\ \A s \in late' \ late : pc'[s] \in Working
<1> SUFFICES Frame
  OBVIOUS
<1> USE DEF IInv, TypeOK, Working, Waiting
<1>1. ASSUME NEW r \in Run, Start(r) PROVE Frame
  BY <1>1 DEF Start
<1>2. ASSUME NEW r \in Run, Sweep(r) PROVE Frame
  BY <1>2 DEF Sweep
<1>3. ASSUME NEW r \in Run, Acquire(r) PROVE Frame
  <2>1. /\ clock' = clock /\ owner' = owner /\ lease' = lease
        /\ pc[r] = "creating" /\ pc' = [pc EXCEPT ![r] = "working"]
        /\ late' \in {late, late \cup {r}}
    BY <1>3 DEF Acquire
  <2> HIDE DEF IInv
  <2>2. \A s \in Run : s # r => pc'[s] = pc[s]
    BY <2>1 DEF IInv
  <2>3. pc'[r] = "working"
    BY <2>1 DEF IInv
  <2>4. clock' >= clock /\ r \in Run
    BY <2>1 DEF IInv
  <2> QED BY <1>3, <2>1, <2>2, <2>3, <2>4 DEF Working
<1>4. ASSUME NEW r \in Run, AcquireFails(r) PROVE Frame
  BY <1>4 DEF AcquireFails
<1>5. ASSUME NEW r \in Run, Skip(r) PROVE Frame
  BY <1>5 DEF Skip
<1>6. ASSUME NEW r \in Run, Finish(r) PROVE Frame
  BY <1>6 DEF Finish
<1>7. ASSUME NEW r \in Run, Throw(r) PROVE Frame
  BY <1>7 DEF Throw
<1>8. ASSUME NEW r \in Run, RecordFailure(r) PROVE Frame
  BY <1>8 DEF RecordFailure
<1>9. ASSUME NEW r \in Run, RecordFailureThrows(r) PROVE Frame
  BY <1>9 DEF RecordFailureThrows
<1>10. ASSUME NEW r \in Run, Release(r) PROVE Frame
  BY <1>10 DEF Release
<1>11. \A s \in Run : /\ pc[s] # "idle" => Stopped(pc)[s] # "idle"
                     /\ Stopped(pc)[s] \notin Working
  BY DEF Stopped
<1>12. ASSUME NEW r \in Run, ReleaseAndExit(r) PROVE Frame
  BY <1>11, <1>12 DEF ReleaseAndExit
<1>13. CASE Crash
  BY <1>11, <1>13 DEF Crash
<1>14. CASE Boot
  BY <1>14 DEF Boot
<1>15. CASE Tick
  BY <1>15 DEF Tick
<1>16. CASE UNCHANGED vars
  BY <1>16 DEF vars
<1>17. ASSUME NEW r \in Run, StartThrows(r) PROVE Frame
  BY <1>17 DEF StartThrows
<1>18. ASSUME NEW r \in Run, RequestThrows(r) PROVE Frame
  BY <1>18 DEF RequestThrows
<1> QED
  BY <1>1, <1>2, <1>3, <1>4, <1>5, <1>6, <1>7, <1>8, <1>9, <1>10, <1>12,
     <1>13, <1>14, <1>15, <1>16, <1>17, <1>18 DEF Next, Step

\* Once the promise is void for a job, it stays void.
LEMMA ExcusedForGood ==
  ASSUME IInv, [Next]_vars, NEW j \in Job, Excused(j)
  PROVE  Excused(j)'
<1>1. PICK r \in late \cap OnJob(j) :
        j \in OwnerReleased => \E s \in OnJob(j) \ {r} : pc[s] # "idle" /\ owner[s] = owner[r]
  BY DEF Excused
<1>2. r \in late' \cap OnJob(j) /\ pc[r] # "idle" /\ owner'[r] = owner[r]
  BY <1>1, StepFrame, SameJobs DEF IInv, LateTracked, OnJob
<1>3. CASE j \notin OwnerReleased
  BY <1>2, <1>3, SameJobs DEF Excused
<1>4. CASE j \in OwnerReleased
  <2>1. PICK s \in OnJob(j) \ {r} : pc[s] # "idle" /\ owner[s] = owner[r]
    BY <1>1, <1>4
  <2>2. pc'[s] # "idle" /\ owner'[s] = owner'[r]
    BY <1>2, <2>1, StepFrame, SameJobs DEF OnJob
  <2> QED BY <1>2, <2>1, <2>2, SameJobs DEF Excused
<1> QED BY <1>3, <1>4

LEMMA NextLateTracked == IInv /\ [Next]_vars => LateTracked'
<1> SUFFICES ASSUME IInv, [Next]_vars PROVE LateTracked'
  OBVIOUS
<1>1. TypeOK /\ TypeOK'
  BY NextTypeOK DEF IInv
<1>2. ASSUME NEW r \in late' PROVE pc'[r] # "idle"
  BY <1>1, <1>2, StepFrame DEF IInv, LateTracked, TypeOK, Working
<1>3. ASSUME NEW r \in Run, pc'[r] \in Working, lease'[r] < clock' PROVE r \in late'
  <2>1. CASE Acquire(r)
    BY <1>3, <2>1 DEF Acquire
  <2>2. CASE pc[r] \in Working /\ lease'[r] = lease[r] /\ Tick
    BY <1>1, <1>3, <2>2 DEF Tick, TypeOK
  <2>3. CASE pc[r] \in Working /\ lease'[r] = lease[r] /\ ~Tick
    <3>1. clock' = clock
      BY <2>3 DEF Next, Step, vars, Start, Sweep, Acquire, AcquireFails, Skip, Finish, Throw,
         RecordFailure, RecordFailureThrows, Release, ReleaseAndExit, Crash, Boot,
         StartThrows, RequestThrows
    <3> QED BY <1>3, <2>3, <3>1, StepFrame DEF IInv, LateTracked
  <2> QED BY <1>3, <2>1, <2>2, <2>3, StepFrame
<1> QED BY <1>2, <1>3 DEF LateTracked

LEMMA NextStoppedWhenDown == IInv /\ [Next]_vars => StoppedWhenDown'
<1> SUFFICES ASSUME IInv, [Next]_vars, ~up', NEW s \in Run
             PROVE  pc'[s] \notin Waiting \cup Working
  BY DEF StoppedWhenDown
<1> USE DEF IInv, TypeOK, Waiting, Working, StoppedWhenDown
<1>1. Stopped(pc)[s] \notin Waiting \cup Working
  BY DEF Stopped
<1>2. ASSUME NEW r \in Run, Start(r) \/ StartThrows(r) PROVE FALSE
  BY <1>2 DEF Start, StartThrows
<1>3. ASSUME NEW r \in Run, ReleaseAndExit(r) PROVE pc'[s] \notin Waiting \cup Working
  BY <1>1, <1>3 DEF ReleaseAndExit
<1>4. ASSUME NEW r \in Run, Step(r), ~ReleaseAndExit(r) PROVE FALSE
  <2>1. up' = up /\ pc[r] \in Waiting \cup Working
    BY <1>4 DEF Step, Sweep, Acquire, AcquireFails, Skip, Finish, Throw, RecordFailure,
       RecordFailureThrows, Release, RequestThrows
  <2> QED BY <2>1
<1>5. CASE Crash
  BY <1>1, <1>5 DEF Crash
<1>6. CASE Boot
  BY <1>6 DEF Boot
<1>7. CASE Tick
  BY <1>7 DEF Tick
<1>8. CASE UNCHANGED vars
  BY <1>8 DEF vars
<1> QED BY <1>2, <1>3, <1>4, <1>5, <1>6, <1>7, <1>8 DEF Next

LEMMA NextNoOrphanTxnLock == IInv /\ [Next]_vars => NoOrphanTxnLock'
<1> SUFFICES ASSUME IInv, [Next]_vars, up', lock'[TXN] # NoLock
             PROVE  \E r \in OnJob(TXN) :
                      pc'[r] \in Working /\ lock'[TXN] = [owner |-> owner'[r], expiresAt |-> lease'[r]]
  BY SameJobs DEF NoOrphanTxnLock
<1> USE JobAssumption DEF TypeOK, NoLock
<1>1. TypeOK
  BY DEF IInv
<1>2. ASSUME NEW r \in OnJob(TXN), Acquire(r)
      PROVE  pc'[r] \in Working /\ lock'[TXN] = [owner |-> owner'[r], expiresAt |-> lease'[r]]
  BY <1>1, <1>2 DEF Acquire, InsertLock, OnJob, Working
<1>3. ASSUME NEW r \in OnJob(TXN), Release(r) \/ ReleaseAndExit(r) PROVE FALSE
  BY <1>1, <1>3 DEF Release, ReleaseAndExit, ReleaseLock, OwnerReleased, OnJob
<1>4. CASE Boot
  BY <1>1, <1>4 DEF Boot
<1>5. CASE Crash \/ \E r \in Run : ReleaseAndExit(r)
  BY <1>5 DEF Crash, ReleaseAndExit
<1>6. ASSUME lock'[TXN] = lock[TXN], up,
             \A s \in OnJob(TXN) : pc[s] \in Working =>
               pc'[s] \in Working /\ owner'[s] = owner[s] /\ lease'[s] = lease[s]
      PROVE  \E r \in OnJob(TXN) :
               pc'[r] \in Working /\ lock'[TXN] = [owner |-> owner'[r], expiresAt |-> lease'[r]]
  <2>1. PICK r \in OnJob(TXN) :
          pc[r] \in Working /\ lock[TXN] = [owner |-> owner[r], expiresAt |-> lease[r]]
    BY <1>6 DEF IInv, NoOrphanTxnLock
  <2> QED BY <1>6, <2>1
<1>7. ASSUME NEW r \in Run, Sweep(r) PROVE lock'[TXN] = lock[TXN]
  BY <1>1, <1>7 DEF Sweep, SweepExpired
<1>8. ASSUME NEW r \in Run, job[r] # TXN, Acquire(r) \/ Release(r) PROVE lock'[TXN] = lock[TXN]
  BY <1>1, <1>8 DEF Acquire, InsertLock, Release, ReleaseLock
<1> DEFINE Kept == /\ lock'[TXN] = lock[TXN]
                   /\ up
                   /\ \A s \in OnJob(TXN) : pc[s] \in Working =>
                        pc'[s] \in Working /\ owner'[s] = owner[s] /\ lease'[s] = lease[s]
<1>9. ASSUME NEW r \in Run, Start(r) \/ StartThrows(r) \/ Sweep(r) PROVE Kept
  BY <1>1, <1>7, <1>9 DEF Start, StartThrows, Sweep, OnJob, Working
<1>10. ASSUME NEW r \in Run, AcquireFails(r) \/ Skip(r) \/ Finish(r) \/ Throw(r)
                              \/ RecordFailure(r) \/ RecordFailureThrows(r)
       PROVE  Kept
  BY <1>1, <1>10 DEF AcquireFails, Skip, Finish, Throw, RecordFailure, RecordFailureThrows,
     OnJob, Working
<1>14. ASSUME NEW r \in Run, RequestThrows(r) PROVE Kept
  BY <1>1, <1>14, JobAssumption DEF RequestThrows, OnJob, Working
<1>11. ASSUME NEW r \in Run, job[r] # TXN, Acquire(r) \/ Release(r) PROVE Kept
  BY <1>1, <1>8, <1>11 DEF Acquire, Release, OnJob, Working
<1>12. ASSUME Tick \/ UNCHANGED vars PROVE Kept
  BY <1>1, <1>12 DEF Tick, vars, OnJob
<1>13. \A r \in Run : r \in OnJob(TXN) \/ job[r] # TXN
  BY DEF OnJob
<1> QED BY <1>2, <1>3, <1>4, <1>5, <1>6, <1>9, <1>10, <1>11, <1>12, <1>13, <1>14 DEF Next, Step

\* A run whose lease is still good either had it before the step or took it.
LEMMA HolderBefore ==
  ASSUME IInv, [Next]_vars, NEW r \in Run, HoldsLease(r)'
  PROVE  \/ Acquire(r)
         \/ HoldsLease(r) /\ owner'[r] = owner[r] /\ lease'[r] = lease[r]
<1>1. CASE pc[r] \in Working /\ lease'[r] = lease[r]
  <2>1. clock \in Nat /\ clock' \in Nat /\ lease[r] \in Nat
    BY NextTypeOK DEF IInv, TypeOK
  <2>2. HoldsLease(r)
    BY <1>1, <2>1, StepFrame DEF HoldsLease
  <2>3. pc[r] # "idle"
    BY <1>1 DEF Working
  <2> QED BY <1>1, <2>2, <2>3, StepFrame
<1> QED BY <1>1, StepFrame DEF HoldsLease

\* While a lease is in force, its row is there, and no other run can insert one.
LEMMA HolderBlocksAcquire ==
  ASSUME IInv, NEW r \in Run, NEW s \in Run, job[r] = job[s],
         HoldsLease(r), ~Excused(job[r]), Acquire(s)
  PROVE  FALSE
<1>1. lock[job[r]] = [owner |-> owner[r], expiresAt |-> lease[r]]
  BY DEF IInv, HolderOwnsRow
<1>2. lock[job[r]] = NoLock
  BY DEF Acquire, InsertLock
<1>3. lease[r] = 0
  BY <1>1, <1>2 DEF NoLock
<1> QED BY <1>3 DEF HoldsLease, IInv, ClockStarted, TypeOK

LEMMA NextLeaseExclusive == IInv /\ [Next]_vars => LeaseExclusive'
<1> SUFFICES ASSUME IInv, [Next]_vars, NEW j \in Job, NEW r \in OnJob(j), NEW s \in OnJob(j),
                    HoldsLease(r)', HoldsLease(s)', r # s, ~Excused(j)'
             PROVE  FALSE
  BY SameJobs DEF LeaseExclusive
<1>1. ~Excused(j)
  BY ExcusedForGood
<1>2. r \in Run /\ s \in Run /\ job[r] = j /\ job[s] = j
  BY DEF OnJob
<1>3. CASE HoldsLease(r) /\ HoldsLease(s)
  BY <1>1, <1>3 DEF IInv, LeaseExclusive
<1>4. CASE Acquire(r) /\ Acquire(s)
  <2>1. pc[s] = "creating" /\ pc' = [pc EXCEPT ![r] = "working"]
    BY <1>4 DEF Acquire
  <2>2. pc'[s] = pc[s]
    BY <1>2, <2>1 DEF IInv, TypeOK
  <2> QED BY <2>1, <2>2 DEF HoldsLease, Working
<1>5. CASE HoldsLease(r) /\ Acquire(s)
  BY <1>1, <1>2, <1>5, HolderBlocksAcquire
<1>6. CASE Acquire(r) /\ HoldsLease(s)
  BY <1>1, <1>2, <1>6, HolderBlocksAcquire
<1>7. Acquire(r) \/ HoldsLease(r)
  BY <1>2, HolderBefore
<1>8. Acquire(s) \/ HoldsLease(s)
  BY <1>2, HolderBefore
<1> QED BY <1>3, <1>4, <1>5, <1>6, <1>7, <1>8

(***************************************************************************)
(* A release of another run leaves the row of the holder alone.  Where     *)
(* release ignores the owner, the other run would hold a good lease too,   *)
(* or be late; where it names the owner, the other run would have to share *)
(* it, and again hold a good lease or be late.                             *)
(***************************************************************************)
LEMMA ReleaseKeepsHolder ==
  ASSUME IInv, NEW r \in Run, NEW s \in Run, r # s, job[r] = job[s],
         HoldsLease(r), ~Excused(job[r]),
         pc[s] \in Working, ReleaseLock(s, job[s])
  PROVE  lock'[job[r]] = lock[job[r]]
<1> DEFINE j == job[r]
<1>1. r \in OnJob(j) /\ s \in OnJob(j) /\ j \in Job
  BY DEF OnJob, IInv, TypeOK
<1>2. ~HoldsLease(s)
  BY <1>1 DEF IInv, LeaseExclusive
<1>3. s \in late
  BY <1>2 DEF HoldsLease, IInv, LateTracked, TypeOK
<1>4. j \in OwnerReleased /\ ~\E q \in OnJob(j) \ {s} : pc[q] # "idle" /\ owner[q] = owner[s]
  BY <1>1, <1>3 DEF Excused
<1>5. owner[r] # owner[s]
  <2>1. pc[r] # "idle" /\ r \in OnJob(j) \ {s}
    BY <1>1 DEF HoldsLease, Working
  <2> QED BY <1>4, <2>1
<1>6. lock[j].owner = owner[r]
  <2>1. lock[j] = [owner |-> owner[r], expiresAt |-> lease[r]]
    BY DEF IInv, HolderOwnsRow
  <2> QED BY <2>1
<1>7. lock'[j] = IF j \in OwnerReleased /\ lock[j].owner # owner[s] THEN lock[j] ELSE NoLock
  <2>1. lock \in [Job -> [owner : Nat, expiresAt : Nat]]
    BY DEF IInv, TypeOK
  <2> QED BY <1>1, <2>1 DEF ReleaseLock
<1> QED BY <1>4, <1>5, <1>6, <1>7

LEMMA NextHolderOwnsRow == IInv /\ [Next]_vars => HolderOwnsRow'
<1> SUFFICES ASSUME IInv, [Next]_vars, NEW r \in Run, HoldsLease(r)', ~Excused(job[r])'
             PROVE  lock'[job[r]] = [owner |-> owner'[r], expiresAt |-> lease'[r]]
  BY SameJobs DEF HolderOwnsRow
<1> DEFINE j == job[r]
<1>0. TypeOK /\ j \in Job
  BY DEF IInv, TypeOK
<1>1. ~Excused(j)
  <2>1. j' = j
    BY SameJobs
  <2> QED BY <1>0, <2>1, ExcusedForGood
<1>2. CASE Acquire(r)
  BY <1>0, <1>2 DEF Acquire, InsertLock, TypeOK
<1>3. CASE HoldsLease(r) /\ owner'[r] = owner[r] /\ lease'[r] = lease[r] /\ ~Acquire(r)
  <2>1. lock[j] = [owner |-> owner[r], expiresAt |-> lease[r]]
    BY <1>1, <1>3 DEF IInv, HolderOwnsRow
  <2> SUFFICES lock'[j] = lock[j]
    BY <1>3, <2>1
  <2>2. pc[r] \in Working /\ up /\ pc'[r] \in Working
    BY <1>3 DEF HoldsLease, IInv, StoppedWhenDown
  <2>3. ASSUME NEW s \in Run, Sweep(s) PROVE lock'[j] = lock[j]
    <3>1. ~(lock[j].expiresAt < clock)
      BY <1>0, <1>3, <2>1 DEF HoldsLease, TypeOK
    <3> QED BY <1>0, <2>3, <3>1 DEF Sweep, SweepExpired, TypeOK
  <2>4. ASSUME NEW s \in Run, Acquire(s) PROVE lock'[j] = lock[j]
    <3>1. job[s] # j
      BY <1>1, <1>3, <2>4, HolderBlocksAcquire
    <3> QED BY <1>0, <2>4, <3>1 DEF Acquire, InsertLock, TypeOK
  <2>5. ASSUME NEW s \in Run, Release(s) PROVE lock'[j] = lock[j]
    <3>1. r # s
      BY <1>0, <2>2, <2>5 DEF Release, TypeOK, Working
    <3>2. CASE job[s] = j
      <4>1. pc[s] \in Working /\ ReleaseLock(s, job[s])
        BY <2>5 DEF Release, Working
      <4> QED BY <1>1, <1>3, <3>1, <3>2, <4>1, ReleaseKeepsHolder
    <3>3. CASE job[s] # j
      BY <1>0, <2>5, <3>3 DEF Release, ReleaseLock, TypeOK
    <3> QED BY <3>2, <3>3
  <2>6. ASSUME NEW s \in Run, ReleaseAndExit(s) PROVE FALSE
    BY <1>0, <2>2, <2>6 DEF ReleaseAndExit, Stopped, Working, TypeOK
  <2>7. CASE Crash
    BY <1>0, <2>2, <2>7 DEF Crash, Stopped, Working, TypeOK
  <2>8. CASE Boot
    BY <2>2, <2>8 DEF Boot
  <2>9. ASSUME NEW s \in Run, Start(s) \/ AcquireFails(s) \/ Skip(s) \/ Finish(s) \/ Throw(s)
                               \/ RecordFailure(s) \/ RecordFailureThrows(s)
                               \/ StartThrows(s) \/ RequestThrows(s)
        PROVE  lock' = lock
    BY <2>9 DEF Start, AcquireFails, Skip, Finish, Throw, RecordFailure, RecordFailureThrows,
       StartThrows, RequestThrows
  <2>10. CASE Tick \/ UNCHANGED vars
    BY <2>10 DEF Tick, vars
  <2> QED BY <2>3, <2>4, <2>5, <2>6, <2>7, <2>8, <2>9, <2>10 DEF Next, Step
<1> QED BY <1>2, <1>3, HolderBefore

LEMMA NextIInv == IInv /\ [Next]_vars => IInv'
<1> SUFFICES ASSUME IInv, [Next]_vars PROVE IInv'
  OBVIOUS
<1>1. TypeOK'
  BY NextTypeOK DEF IInv
<1>2. ClockStarted'
  BY <1>1, StepFrame DEF IInv, ClockStarted, TypeOK
<1> QED
  BY <1>1, <1>2, NextLateTracked, NextStoppedWhenDown, NextHolderOwnsRow, NextLeaseExclusive,
     NextNoOrphanTxnLock DEF IInv

LEMMA Inductive == Spec => []IInv
  BY InitIInv, NextIInv, PTL DEF Spec

-----------------------------------------------------------------------------
(* What follows from it *)

\* Two runs of a job hold a good lease at once only if a run of that job has
\* outlived its own lease: the whole worth of the lock rests on the TTLs.
THEOREM LeaseIsExclusive == Spec => []LeaseExclusive
  BY Inductive, PTL DEF IInv

\* A crash never leaves the transaction import locked once the server is up.
THEOREM TxnLockHasRun == Spec => []NoOrphanTxnLock
  BY Inductive, PTL DEF IInv

\* Imports of one job overlap only after a run has outlived its lease.
THEOREM NoOverlapWithoutOverrun == Spec => []OverlapNeedsOverrun
<1>1. IInv => OverlapNeedsOverrun
  <2> SUFFICES ASSUME IInv, NEW j \in Job, NEW r \in OnJob(j), NEW s \in OnJob(j),
                      pc[r] \in Working, pc[s] \in Working, r # s, late \cap OnJob(j) = {}
               PROVE  FALSE
    BY DEF OverlapNeedsOverrun
  <2>1. HoldsLease(r) /\ HoldsLease(s)
    BY DEF HoldsLease, IInv, LateTracked, TypeOK, OnJob
  <2>2. ~Excused(j)
    BY DEF Excused
  <2> QED BY <2>1, <2>2 DEF IInv, LeaseExclusive
<1> QED BY <1>1, Inductive, PTL

-----------------------------------------------------------------------------
(* Refinement *)

\* The job runner implements the abstract lease: each of its steps grants a
\* free lease, ends leases, or stutters, until a run outlives its lease.
THEOREM LeaseImplemented == Spec => ImplementsLease
<1> DEFINE holders == [j \in Job |-> {r \in OnJob(j) : HoldsLease(r)}]
           void == [j \in Job |-> Excused(j)]
<1>1. Init => Lease!Init
  <2> SUFFICES ASSUME Init PROVE Lease!Init
    OBVIOUS
  <2>1. \A r \in Run : ~HoldsLease(r)
    BY DEF Init, HoldsLease, Working
  <2>2. \A j \in Job : Excused(j) = FALSE
    BY DEF Init, Excused
  <2> QED BY <2>1, <2>2 DEF Lease!Init, OnJob
<1>2. IInv /\ [Next]_vars => [Lease!Next]_(Lease!vars)
  <2> SUFFICES ASSUME IInv, [Next]_vars PROVE Lease!Next
    OBVIOUS
  <2>1. Lease!VoidForGood
    <3>1. \A j \in Job : Excused(j) => Excused(j)'
      BY ExcusedForGood
    <3>2. \A j \in Job : Excused(j)' \in BOOLEAN
      BY DEF Excused
    <3> QED BY <3>1, <3>2 DEF Lease!VoidForGood
  <2>2. ASSUME NEW s \in Run, Acquire(s) PROVE Lease!Next
    <3> DEFINE j == job[s]
    <3>1. j \in Job /\ s \in OnJob(j)
      BY DEF OnJob, IInv, TypeOK
    <3>2. holders[j] = {} \/ Excused(j)
      BY <2>2, <3>1, HolderBlocksAcquire DEF OnJob
    <3>3. clock' = clock /\ lease' = lease /\ pc[s] = "creating" /\ pc' = [pc EXCEPT ![s] = "working"]
      BY <2>2 DEF Acquire
    <3>4. \A r \in Run \ {s} : HoldsLease(r)' <=> HoldsLease(r)
      BY <3>3 DEF HoldsLease, IInv, TypeOK
    <3>5. ~HoldsLease(s)
      BY <3>3 DEF HoldsLease, Working
    <3>6. CASE HoldsLease(s)'
      <4>1. holders' = [holders EXCEPT ![j] = @ \cup {s}]
        <5>1. ASSUME NEW i \in Job PROVE holders'[i] = [holders EXCEPT ![j] = @ \cup {s}][i]
          BY <3>1, <3>4, <3>6, SameJobs DEF OnJob
        <5> QED BY <5>1
      <4> QED BY <2>1, <3>1, <3>2, <4>1 DEF Lease!Next, Lease!Grant
    <3>7. CASE ~HoldsLease(s)'
      <4>1. \A i \in Job : holders'[i] \subseteq holders[i]
        BY <3>4, <3>7, SameJobs DEF OnJob
      <4>2. holders' \in [Job -> SUBSET Run]
        BY DEF OnJob
      <4> QED BY <2>1, <4>1, <4>2 DEF Lease!Next, Lease!Lapse
    <3> QED BY <3>6, <3>7
  <2>3. CASE \A s \in Run : ~Acquire(s)
    <3>1. \A r \in Run : HoldsLease(r)' => HoldsLease(r)
      BY <2>3, HolderBefore
    <3>2. \A i \in Job : holders'[i] \subseteq holders[i]
      BY <3>1, SameJobs DEF OnJob
    <3>3. holders' \in [Job -> SUBSET Run]
      BY DEF OnJob
    <3> QED BY <2>1, <3>2, <3>3 DEF Lease!Next, Lease!Lapse
  <2> QED BY <2>2, <2>3
<1> QED BY <1>1, <1>2, Inductive, PTL DEF Spec, ImplementsLease, Lease!Spec
=============================================================================
