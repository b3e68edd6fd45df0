------------------------------- MODULE Ledgers -------------------------------
(***************************************************************************)
(* The savings ledgers of one tenant.  MonthlyPlansService.upsert writes a *)
(* month's plan, FD packet and goal payments included, and brings the      *)
(* CONTRIBUTION entry of the FD ledger in line with it; FdLedgerService    *)
(* breaks packets out of contributions and takes breaks back; GoalsService *)
(* moves money out of goals and back.                                      *)
(*                                                                         *)
(* Each request is one READ COMMITTED transaction that reads, decides and  *)
(* writes.  Advisory locks keep them apart: a plan holds the lock          *)
(* 'investments:<tenant>' before it writes its row, and every request      *)
(* holds the lock '<tenant>' before it reads a ledger.  Locks end with the *)
(* transaction.                                                            *)
(***************************************************************************)
EXTENDS Integers, FiniteSetsExt

CONSTANTS
    Month,        \* the months, numbered
    Amount,       \* the denominations of FD packets
    MaxQuantity,  \* bound on the packets of a month, and of a break request
    Goal,         \* the goals
    MaxPay,       \* bound on what a month pays into a goal, and on a move
    Entry,        \* ids of ledger entries (randomUUID)
    Request,      \* requests in flight
    None          \* no request, no denomination, a field left out

ASSUME LedgerAssumption ==
    /\ Month \subseteq Nat
    /\ IsFiniteSet(Month)
    /\ Amount \subseteq Nat \ {0}
    /\ MaxQuantity \in Nat
    /\ MaxPay \in Nat
    /\ None \notin Request \cup Amount

VARIABLES
    fd,          \* MonthlyPlan.fd of each month
    pay,         \* MonthlyPlan.goalPayments of each month
    lot,         \* the CONTRIBUTION entry of each month
    breaks,      \* the BREAK entries of the FD ledger
    moves,       \* the BREAK entries of the goal ledger
    planLock,    \* who holds pg_advisory_xact_lock('investments:<tenant>')
    tenantLock,  \* who holds pg_advisory_xact_lock('<tenant>')
    pc,          \* where each request stands
    kind,        \* what it is
    seen         \* the ledgers as it read them

vars == <<fd, pay, lot, breaks, moves, planLock, tenantLock, pc, kind, seen>>

Kind == {"plan", "breakPackets", "undoPackets", "breakGoal", "undoGoal"}

\* normalizePacket: both zero or both positive.  A month without a plan, and
\* a plan without a contribution, count as zero.
Zero == [amount |-> 0, quantity |-> 0]
Packet == {Zero} \cup [amount : Amount, quantity : 1 .. MaxQuantity]
Payments == [Goal -> 0 .. MaxPay]

\* The entries of one break share an id here; the month of sourceEntryId tells
\* them apart.
FdBreak == [id : Entry, month : Month, amount : Nat, quantity : 1 .. MaxQuantity]
GoalBreak == [id : Entry, goal : Goal, amount : 1 .. MaxPay]

Ledger == [lot |-> lot, breaks |-> breaks, pay |-> pay, moves |-> moves]
Unread == [lot |-> [m \in Month |-> Zero], breaks |-> {},
           pay |-> [m \in Month |-> [g \in Goal |-> 0]], moves |-> {}]

LedgerType == [lot : [Month -> Packet], breaks : SUBSET FdBreak,
               pay : [Month -> Payments], moves : SUBSET GoalBreak]

TypeOK ==
    /\ fd \in [Month -> Packet]
    /\ lot \in [Month -> Packet]
    /\ breaks \in SUBSET FdBreak
    /\ pay \in [Month -> Payments]
    /\ moves \in SUBSET GoalBreak
    /\ planLock \in Request \cup {None}
    /\ tenantLock \in Request \cup {None}
    /\ pc \in [Request -> {"idle", "plans", "tenant", "read", "write"}]
    /\ kind \in [Request -> Kind]
    /\ seen \in [Request -> LedgerType]

Init ==
    /\ fd = Unread.lot
    /\ lot = Unread.lot
    /\ pay = Unread.pay
    /\ breaks = {}
    /\ moves = {}
    /\ planLock = None
    /\ tenantLock = None
    /\ pc = [r \in Request |-> "idle"]
    /\ kind = [r \in Request |-> "plan"]
    /\ seen = [r \in Request |-> Unread]

-----------------------------------------------------------------------------
(* What the services compute from the entries they read. *)

\* Sums are counted out: packet by packet, rupee by rupee.
PacketsOf(B) == UNION {{b} \X (1 .. b.quantity) : b \in B}
Broken(B, m) == Cardinality(PacketsOf({b \in B : b.month = m}))

RupeesOf(M) == UNION {{e} \X (1 .. e.amount) : e \in M}
Moved(M, g) == Cardinality(RupeesOf({e \in M : e.goal = g}))

Funded(p, g) == Cardinality(UNION {{m} \X (1 .. p[m][g]) : m \in Month})

Remaining(s, m) ==
    IF Broken(s.breaks, m) < s.lot[m].quantity
    THEN s.lot[m].quantity - Broken(s.breaks, m)
    ELSE 0

\* The contributions a break may take from; without a denomination, all.
Lots(s, denomination) ==
    {m \in Month : s.lot[m] # Zero /\ (denomination = None \/ s.lot[m].amount = denomination)}

Available(s, denomination) ==
    Cardinality(UNION {{m} \X (1 .. Remaining(s, m)) : m \in Lots(s, denomination)})

\* Fault: the contributions are taken as they come.
TakenInAnyOrder(s, quantity, denomination) ==
    {take \in [Month -> 0 .. MaxQuantity] :
        /\ MapThenSumSet(LAMBDA m : take[m], Month) = quantity
        /\ \A m \in Month :
             take[m] > 0 => m \in Lots(s, denomination) /\ take[m] <= Remaining(s, m)}

\* What a break of so many packets takes from each month: the oldest first.
Taken(s, quantity, denomination) ==
    {take \in [Month -> 0 .. MaxQuantity] :
        /\ MapThenSumSet(LAMBDA m : take[m], Month) = quantity
        /\ \A m \in Month :
             take[m] > 0 =>
                /\ m \in Lots(s, denomination)
                /\ take[m] <= Remaining(s, m)
                /\ \A n \in Lots(s, denomination) : n < m => take[n] = Remaining(s, n)}

\* summarizeEntries: the packets it shows of a denomination.
Offered(s, amount) ==
    Cardinality(UNION {{m} \X (1 .. s.lot[m].quantity) : m \in {n \in Month : s.lot[n].amount = amount}})
      - Cardinality(PacketsOf({b \in s.breaks : b.amount = amount}))

-----------------------------------------------------------------------------
(* A request.  What it asks for is chosen where it is first looked at. *)

Begin(r) ==
    /\ pc[r] = "idle"
    /\ \E k \in Kind :
         /\ kind' = [kind EXCEPT ![r] = k]
         /\ pc' = [pc EXCEPT ![r] = IF k = "plan" THEN "plans" ELSE "tenant"]
    /\ UNCHANGED <<fd, pay, lot, breaks, moves, planLock, tenantLock, seen>>

\* lockAndValidatePlanWrite takes its lock; the row written next is seen by
\* nobody else before the commit.
LockPlans(r) ==
    /\ pc[r] = "plans"
    /\ planLock = None
    /\ planLock' = r
    /\ pc' = [pc EXCEPT ![r] = "tenant"]
    /\ UNCHANGED <<fd, pay, lot, breaks, moves, tenantLock, kind, seen>>

\* Fault: the lock of the goals has a key of its own.
LockTenantOwnKey(r) ==
    /\ pc[r] = "tenant"
    /\ IF kind[r] \in {"breakGoal", "undoGoal"}
       THEN UNCHANGED tenantLock
       ELSE tenantLock = None /\ tenantLock' = r
    /\ pc' = [pc EXCEPT ![r] = "read"]
    /\ UNCHANGED <<fd, pay, lot, breaks, moves, planLock, kind, seen>>

\* Fault: pg_try_advisory_xact_lock, and nobody looks at its answer.
LockTenantTries(r) ==
    /\ pc[r] = "tenant"
    /\ tenantLock' = IF tenantLock = None THEN r ELSE tenantLock
    /\ pc' = [pc EXCEPT ![r] = "read"]
    /\ UNCHANGED <<fd, pay, lot, breaks, moves, planLock, kind, seen>>

LockTenant(r) ==
    /\ pc[r] = "tenant"
    /\ tenantLock = None
    /\ tenantLock' = r
    /\ pc' = [pc EXCEPT ![r] = "read"]
    /\ UNCHANGED <<fd, pay, lot, breaks, moves, planLock, kind, seen>>

\* Fault: what is read is locked against the plans, after the ledger.
ReadLocksPlans(r) ==
    /\ pc[r] = "read"
    /\ planLock \in {None, r}
    /\ planLock' = r
    /\ seen' = [seen EXCEPT ![r] = Ledger]
    /\ pc' = [pc EXCEPT ![r] = "write"]
    /\ UNCHANGED <<fd, pay, lot, breaks, moves, tenantLock, kind>>

Read(r) ==
    /\ pc[r] = "read"
    /\ seen' = [seen EXCEPT ![r] = Ledger]
    /\ pc' = [pc EXCEPT ![r] = "write"]
    /\ UNCHANGED <<fd, pay, lot, breaks, moves, planLock, tenantLock, kind>>

\* The transaction ends, with its locks.
End(r) ==
    /\ pc' = [pc EXCEPT ![r] = "idle"]
    /\ seen' = [seen EXCEPT ![r] = Unread]
    /\ planLock' = IF planLock = r THEN None ELSE planLock
    /\ tenantLock' = IF tenantLock = r THEN None ELSE tenantLock
    /\ UNCHANGED kind

Writes(r, k) == pc[r] = "write" /\ kind[r] = k

\* Fault: any packet may replace one that was broken.
SyncableAnyAmount(s, m, packet) ==
    packet.quantity >= Broken(s.breaks, m)

\* syncContribution refuses to go below what was broken out of the month, or
\* to change its denomination then.
Syncable(s, m, packet) ==
    /\ packet.quantity >= Broken(s.breaks, m)
    /\ Broken(s.breaks, m) > 0 => s.lot[m].amount = packet.amount

\* The plan row and its contribution become visible together.  A field that
\* the request leaves out keeps its value: that is a request which repeats it.
SavePlan(r) ==
    /\ Writes(r, "plan")
    /\ \E m \in Month, packet \in Packet, payments \in Payments :
         /\ Syncable(seen[r], m, packet)
         /\ fd' = [fd EXCEPT ![m] = packet]
         /\ pay' = [pay EXCEPT ![m] = payments]
         /\ lot' = [lot EXCEPT ![m] = packet]
    /\ End(r)
    /\ UNCHANGED <<breaks, moves>>

Fresh(id) == \A e \in breaks \cup moves : e.id # id

\* Fault: "if (take === 0) continue" is gone.
BreakPacketsWritesEmpty(r) ==
    /\ Writes(r, "breakPackets")
    /\ \E quantity \in 1 .. MaxQuantity, denomination \in Amount \cup {None}, id \in Entry :
         /\ quantity <= Available(seen[r], denomination)
         /\ Fresh(id)
         /\ \E take \in Taken(seen[r], quantity, denomination) :
              breaks' = breaks \cup
                {[id |-> id, month |-> m, amount |-> seen[r].lot[m].amount, quantity |-> take[m]] :
                   m \in Lots(seen[r], denomination)}
    /\ End(r)
    /\ UNCHANGED <<fd, pay, lot, moves>>

BreakPackets(r) ==
    /\ Writes(r, "breakPackets")
    /\ \E quantity \in 1 .. MaxQuantity, denomination \in Amount \cup {None}, id \in Entry :
         /\ quantity <= Available(seen[r], denomination)
         /\ Fresh(id)
         /\ \E take \in Taken(seen[r], quantity, denomination) :
              breaks' = breaks \cup
                {[id |-> id, month |-> m, amount |-> seen[r].lot[m].amount, quantity |-> take[m]] :
                   m \in {n \in Month : take[n] > 0}}
    /\ End(r)
    /\ UNCHANGED <<fd, pay, lot, moves>>

UndoBreak(r) ==
    /\ Writes(r, "undoPackets")
    /\ \E b \in seen[r].breaks : breaks' = breaks \ {b}
    /\ End(r)
    /\ UNCHANGED <<fd, pay, lot, moves>>

MoveGoal(r) ==
    /\ Writes(r, "breakGoal")
    /\ \E g \in Goal, amount \in 1 .. MaxPay, id \in Entry :
         /\ amount <= Funded(seen[r].pay, g) - Moved(seen[r].moves, g)
         /\ Fresh(id)
         /\ moves' = moves \cup {[id |-> id, goal |-> g, amount |-> amount]}
    /\ End(r)
    /\ UNCHANGED <<fd, pay, lot, breaks>>

UndoMove(r) ==
    /\ Writes(r, "undoGoal")
    /\ \E e \in seen[r].moves : moves' = moves \ {e}
    /\ End(r)
    /\ UNCHANGED <<fd, pay, lot, breaks>>

\* The transaction is rolled back: a check refuses what the request asks for,
\* which is only known at "write", or the database, a timeout or the death of
\* the process ends it anywhere.
Abort(r) ==
    /\ pc[r] # "idle"
    /\ End(r)
    /\ UNCHANGED <<fd, pay, lot, breaks, moves>>

Answer(r) ==
    /\ pc[r] = "write"
    /\ SavePlan(r) \/ BreakPackets(r) \/ UndoBreak(r) \/ MoveGoal(r) \/ UndoMove(r) \/ Abort(r)

Next ==
    \E r \in Request :
        \/ Begin(r) \/ LockPlans(r) \/ LockTenant(r) \/ Read(r)
        \/ SavePlan(r) \/ BreakPackets(r) \/ UndoBreak(r) \/ MoveGoal(r) \/ UndoMove(r)
        \/ Abort(r)

Spec == Init /\ [][Next]_vars

\* Postgres grants an advisory lock in the order of the requests for it, so
\* one that is free again and again is granted; statements end.
FairSpec ==
    /\ Spec
    /\ \A r \in Request :
         /\ SF_vars(LockPlans(r))
         /\ SF_vars(LockTenant(r))
         /\ WF_vars(Read(r))
         /\ WF_vars(Answer(r))

-----------------------------------------------------------------------------
(* Properties *)

\* fd-ledger.service.ts: no more packets are ever broken out of a month than
\* its contribution has, whichever plans, breaks and undos meet.
NothingOverbroken == \A m \in Month : Broken(breaks, m) <= lot[m].quantity

\* What summarizeEntries offers of a denomination is what breakPackets lets a
\* request break: the entries of a lot keep its denomination.
OffersBreakable == \A a \in Amount : Offered(Ledger, a) = Available(Ledger, a)

\* A move out of a goal is covered, when it commits, by what the plans pay into
\* the goal, although breakGoal reads plans whose writers hold another lock.
MoveIsCovered ==
    [][\A g \in Goal : Moved(moves', g) > Moved(moves, g) => Moved(moves', g) <= Funded(pay', g)]_vars

\* However requests interleave, the entries they leave behind are those of books
\* kept by one clerk who looks and writes in one step (Savings): two advisory locks
\* and reads made under them amount to that.
Books == INSTANCE Savings WITH
    plan <- fd,
    paid <- pay,
    out <- [m \in Month |-> Broken(breaks, m)],
    moved <- [g \in Goal |-> Moved(moves, g)]
KeepsBooks == Books!Spec

\* Requests never wait for each other for ever, though a plan takes two locks.
Ends == \A r \in Request : pc[r] # "idle" ~> pc[r] = "idle"
=============================================================================
