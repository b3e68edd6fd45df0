---------------------------- MODULE LedgersProofs ----------------------------
(***************************************************************************)
(* Proofs about Ledgers, for any months, denominations, goals, bounds and  *)
(* number of requests.                                                     *)
(***************************************************************************)
EXTENDS Ledgers, Counting, FiniteSetTheorems, TLAPS

-----------------------------------------------------------------------------
(* The inductive invariant *)

\* Who reads or writes a ledger holds the tenant's lock.
Holding == \A r \in Request : pc[r] \in {"read", "write"} => tenantLock = r

\* Who is about to write has seen what is there: nothing changes under it.
SeenFresh == \A r \in Request : pc[r] = "write" => seen[r] = Ledger

\* The entries of a lot keep its denomination.
BreaksMatchLots == \A b \in breaks : b.amount = lot[b.month].amount

\* The contributions are the packets of the plans, as one step writes both.
LedgerFollowsPlan == lot = fd

\* The ledger of FD packets.
FdInv ==
    /\ BreaksMatchLots
    /\ IsFiniteSet(PacketsOf(breaks))
    /\ NothingOverbroken

\* Moves out of goals can be added up.
FiniteMoves == IsFiniteSet(RupeesOf(moves))

IInv ==
    /\ TypeOK
    /\ Holding
    /\ SeenFresh
    /\ FdInv
    /\ FiniteMoves
    /\ LedgerFollowsPlan

-----------------------------------------------------------------------------
(* What the sums do *)

\* Fewer breaks count for less.
LEMMA BrokenMonotone ==
  ASSUME NEW B, NEW C, B \subseteq C, IsFiniteSet(PacketsOf(C)), NEW m
  PROVE  /\ IsFiniteSet(PacketsOf(B))
         /\ Broken(B, m) \in Nat
         /\ Broken(C, m) \in Nat
         /\ Broken(B, m) <= Broken(C, m)
<1> DEFINE P(S) == PacketsOf({b \in S : b.month = m})
<1>1. PacketsOf(B) \subseteq PacketsOf(C) /\ P(B) \subseteq P(C) /\ P(C) \subseteq PacketsOf(C)
  BY DEF PacketsOf
<1>2. IsFiniteSet(PacketsOf(B)) /\ IsFiniteSet(P(C)) /\ IsFiniteSet(P(B))
  BY <1>1, FS_Subset
<1>3. Cardinality(P(B)) <= Cardinality(P(C))
  BY <1>1, <1>2, FS_Subset
<1>4. Cardinality(P(B)) \in Nat /\ Cardinality(P(C)) \in Nat
  BY <1>2, FS_CardinalityType
<1> QED BY <1>2, <1>3, <1>4 DEF Broken

\* A month out of which something was broken counts for something.
LEMMA BrokenPositive ==
  ASSUME NEW B, IsFiniteSet(PacketsOf(B)), NEW b \in B, b.quantity \in Nat \ {0}
  PROVE  Broken(B, b.month) > 0
<1> DEFINE P == PacketsOf({c \in B : c.month = b.month})
<1>1. P \subseteq PacketsOf(B)
  BY DEF PacketsOf
<1>2. IsFiniteSet(P)
  BY <1>1, FS_Subset
<1>3. <<b, 1>> \in P
  <2>1. 1 \in 1 .. b.quantity
    OBVIOUS
  <2>2. <<b, 1>> \in {b} \X (1 .. b.quantity)
    BY <2>1
  <2> QED BY <2>2 DEF PacketsOf
<1>4. Cardinality(P) # 0 /\ Cardinality(P) \in Nat
  BY <1>2, <1>3, FS_EmptySet, FS_CardinalityType
<1> QED BY <1>4 DEF Broken

-----------------------------------------------------------------------------
(* Type correctness *)

LEMMA InitTypeOK == Init => TypeOK
<1> SUFFICES ASSUME Init PROVE TypeOK
  OBVIOUS
<1>1. Unread.lot \in [Month -> Packet] /\ Unread.pay \in [Month -> Payments]
  BY LedgerAssumption DEF Unread, Packet, Payments
<1>2. Unread \in LedgerType
  BY <1>1 DEF Unread, LedgerType
<1> QED BY <1>1, <1>2 DEF Init, TypeOK, Kind

\* Ending a transaction leaves types alone.
LEMMA EndTypeOK ==
  ASSUME TypeOK, NEW r \in Request, End(r)
  PROVE  /\ planLock' \in Request \cup {None}
         /\ tenantLock' \in Request \cup {None}
         /\ pc' \in [Request -> {"idle", "plans", "tenant", "read", "write"}]
         /\ kind' \in [Request -> Kind]
         /\ seen' \in [Request -> LedgerType]
<1>1. Unread.lot \in [Month -> Packet] /\ Unread.pay \in [Month -> Payments]
  BY LedgerAssumption DEF Unread, Packet, Payments
<1>2. Unread \in LedgerType
  BY <1>1 DEF Unread, LedgerType
<1> QED BY <1>2 DEF End, TypeOK

LEMMA PacketTyped ==
  ASSUME NEW p \in Packet
  PROVE  p.amount \in Nat /\ p.quantity \in Nat
<1>1. CASE p = Zero
  BY <1>1 DEF Zero
<1>2. CASE p \in [amount : Amount, quantity : 1 .. MaxQuantity]
  <2>1. p.amount \in Amount /\ p.quantity \in 1 .. MaxQuantity
    BY <1>2
  <2>2. Amount \subseteq Nat
    BY LedgerAssumption
  <2>3. MaxQuantity \in Nat
    BY LedgerAssumption
  <2>4. p.amount \in Nat
    BY <2>1, <2>2
  <2>5. p.quantity \in Nat
    BY <2>1, <2>3
  <2> QED BY <2>4, <2>5
<1> QED BY <1>1, <1>2 DEF Packet

\* What breakPackets writes is made of entries.
LEMMA NewBreaksTyped ==
  ASSUME NEW s \in LedgerType, NEW q \in Nat, NEW d, NEW id \in Entry, NEW take \in Taken(s, q, d)
  PROVE  {[id |-> id, month |-> m, amount |-> s.lot[m].amount, quantity |-> take[m]] :
            m \in {n \in Month : take[n] > 0}} \subseteq FdBreak
<1> SUFFICES ASSUME NEW m \in Month, take[m] > 0
             PROVE  [id |-> id, month |-> m, amount |-> s.lot[m].amount, quantity |-> take[m]] \in FdBreak
  OBVIOUS
<1>1. take[m] \in 1 .. MaxQuantity
  BY LedgerAssumption DEF Taken
<1>2. s.lot[m] \in Packet
  BY DEF LedgerType
<1>3. s.lot[m].amount \in Nat
  BY <1>2, PacketTyped
<1> QED BY <1>1, <1>3 DEF FdBreak

LEMMA NextTypeOK == TypeOK /\ [Next]_vars => TypeOK'
<1> SUFFICES ASSUME TypeOK, [Next]_vars
             PROVE  TypeOK'
  OBVIOUS
<1>1. ASSUME NEW r \in Request, Begin(r) PROVE TypeOK'
  BY <1>1 DEF Begin, TypeOK
<1>2. ASSUME NEW r \in Request, LockPlans(r) PROVE TypeOK'
  BY <1>2 DEF LockPlans, TypeOK
<1>3. ASSUME NEW r \in Request, LockTenant(r) PROVE TypeOK'
  BY <1>3 DEF LockTenant, TypeOK
<1>4. ASSUME NEW r \in Request, Read(r) PROVE TypeOK'
  <2>1. Ledger \in LedgerType
    BY DEF Ledger, LedgerType, TypeOK
  <2> QED BY <1>4, <2>1 DEF Read, TypeOK
<1>5. ASSUME NEW r \in Request, SavePlan(r) PROVE TypeOK'
  <2>1. /\ fd' \in [Month -> Packet]
        /\ lot' \in [Month -> Packet]
        /\ pay' \in [Month -> Payments]
    BY <1>5 DEF SavePlan, TypeOK
  <2>2. UNCHANGED <<breaks, moves>> /\ End(r)
    BY <1>5 DEF SavePlan
  <2> QED BY <2>1, <2>2, EndTypeOK DEF TypeOK
<1>6. ASSUME NEW r \in Request, BreakPackets(r) PROVE TypeOK'
  <2>1. PICK q \in 1 .. MaxQuantity, d \in Amount \cup {None}, id \in Entry :
          \E take \in Taken(seen[r], q, d) :
            breaks' = breaks \cup
              {[id |-> id, month |-> m, amount |-> seen[r].lot[m].amount, quantity |-> take[m]] :
                 m \in {n \in Month : take[n] > 0}}
    BY <1>6 DEF BreakPackets
  <2>2. seen[r] \in LedgerType /\ q \in Nat
    BY LedgerAssumption DEF TypeOK
  <2>3. breaks' \subseteq FdBreak
    BY <2>1, <2>2, NewBreaksTyped DEF TypeOK
  <2>4. UNCHANGED <<fd, pay, lot, moves>> /\ End(r)
    BY <1>6 DEF BreakPackets
  <2> QED BY <2>3, <2>4, EndTypeOK DEF TypeOK
<1>7. ASSUME NEW r \in Request, UndoBreak(r) PROVE TypeOK'
  <2>1. /\ UNCHANGED <<fd, pay, lot, moves>>
        /\ End(r)
        /\ breaks' \subseteq breaks
    BY <1>7 DEF UndoBreak
  <2> QED BY <2>1, EndTypeOK DEF TypeOK
<1>8. ASSUME NEW r \in Request, MoveGoal(r) PROVE TypeOK'
  <2>1. /\ UNCHANGED <<fd, pay, lot, breaks>>
        /\ End(r)
        /\ \E g \in Goal, amount \in 1 .. MaxPay, id \in Entry :
             moves' = moves \cup {[id |-> id, goal |-> g, amount |-> amount]}
    BY <1>8 DEF MoveGoal
  <2>2. moves' \subseteq GoalBreak
    BY <2>1 DEF GoalBreak, TypeOK
  <2> QED BY <2>1, <2>2, EndTypeOK DEF TypeOK
<1>9. ASSUME NEW r \in Request, UndoMove(r) PROVE TypeOK'
  <2>1. /\ UNCHANGED <<fd, pay, lot, breaks>>
        /\ End(r)
        /\ moves' \subseteq moves
    BY <1>9 DEF UndoMove
  <2> QED BY <2>1, EndTypeOK DEF TypeOK
<1>10. ASSUME NEW r \in Request, Abort(r) PROVE TypeOK'
  BY <1>10, EndTypeOK DEF Abort, TypeOK
<1>11. CASE UNCHANGED vars
  BY <1>11 DEF vars, TypeOK
<1> QED
  BY <1>1, <1>2, <1>3, <1>4, <1>5, <1>6, <1>7, <1>8, <1>9, <1>10, <1>11 DEF Next

\* Every variable keeps its type.
THEOREM TypeCorrect == Spec => []TypeOK
  BY InitTypeOK, NextTypeOK, PTL DEF Spec

-----------------------------------------------------------------------------
(* The locks *)

LEMMA NextHolding == TypeOK /\ Holding /\ [Next]_vars => Holding'
<1> SUFFICES ASSUME TypeOK, Holding, [Next]_vars, NEW p \in Request, pc'[p] \in {"read", "write"}
             PROVE  tenantLock' = p
  BY DEF Holding
<1> USE LedgerAssumption
<1>0. pc[p] \in {"read", "write"} => tenantLock = p
  BY DEF Holding
<1>1. ASSUME NEW r \in Request, Begin(r) PROVE tenantLock' = p
  BY <1>0, <1>1 DEF Begin, TypeOK
<1>2. ASSUME NEW r \in Request, LockPlans(r) PROVE tenantLock' = p
  BY <1>0, <1>2 DEF LockPlans, TypeOK
<1>3. ASSUME NEW r \in Request, LockTenant(r) PROVE tenantLock' = p
  BY <1>0, <1>3 DEF LockTenant, TypeOK
<1>4. ASSUME NEW r \in Request, Read(r) PROVE tenantLock' = p
  BY <1>0, <1>4 DEF Read, TypeOK
<1>5. ASSUME NEW r \in Request, End(r) PROVE tenantLock' = p
  BY <1>0, <1>5 DEF End, TypeOK
<1>6. CASE UNCHANGED vars
  BY <1>0, <1>6 DEF vars
<1> QED
  BY <1>1, <1>2, <1>3, <1>4, <1>5, <1>6
  DEF Next, SavePlan, BreakPackets, UndoBreak, MoveGoal, UndoMove, Abort

LEMMA NextSeenFresh == TypeOK /\ Holding /\ SeenFresh /\ [Next]_vars => SeenFresh'
<1> SUFFICES ASSUME TypeOK, Holding, SeenFresh, [Next]_vars, NEW p \in Request, pc'[p] = "write"
             PROVE  seen'[p] = Ledger'
  BY DEF SeenFresh
<1>0. pc[p] = "write" => tenantLock = p /\ seen[p] = Ledger
  BY DEF Holding, SeenFresh
<1>1. ASSUME UNCHANGED <<lot, breaks, pay, moves, seen>>, pc[p] = "write"
      PROVE  seen'[p] = Ledger'
  BY <1>0, <1>1 DEF Ledger
<1>2. ASSUME NEW r \in Request, Begin(r) PROVE seen'[p] = Ledger'
  <2>1. pc'[r] # "write"
    BY <1>2 DEF Begin, TypeOK
  <2>2. pc[p] = "write"
    BY <1>2, <2>1 DEF Begin, TypeOK
  <2> QED BY <1>1, <1>2, <2>2 DEF Begin
<1>3. ASSUME NEW r \in Request, LockPlans(r) PROVE seen'[p] = Ledger'
  <2>1. pc[p] = "write"
    BY <1>3 DEF LockPlans, TypeOK
  <2> QED BY <1>1, <1>3, <2>1 DEF LockPlans
<1>4. ASSUME NEW r \in Request, LockTenant(r) PROVE seen'[p] = Ledger'
  <2>1. pc[p] = "write"
    BY <1>4 DEF LockTenant, TypeOK
  <2> QED BY <1>1, <1>4, <2>1 DEF LockTenant
<1>5. ASSUME NEW r \in Request, Read(r) PROVE seen'[p] = Ledger'
  <2>1. Ledger' = Ledger
    BY <1>5 DEF Read, Ledger
  <2>2. CASE p = r
    BY <1>5, <2>1, <2>2 DEF Read, TypeOK
  <2>3. CASE p # r
    <3>1. pc[p] = "write" /\ seen'[p] = seen[p]
      BY <1>5, <2>3 DEF Read, TypeOK
    <3> QED BY <1>0, <2>1, <3>1
  <2> QED BY <2>2, <2>3
<1>6. ASSUME NEW r \in Request, End(r), pc[r] # "write", UNCHANGED <<lot, breaks, pay, moves>>
      PROVE  seen'[p] = Ledger'
  <2>1. p # r /\ pc[p] = "write" /\ seen'[p] = seen[p]
    BY <1>6 DEF End, TypeOK
  <2> QED BY <1>0, <1>6, <2>1 DEF Ledger
<1>7. ASSUME NEW r \in Request, End(r), pc[r] = "write" PROVE seen'[p] = Ledger'
  <2>1. tenantLock = r
    BY <1>7 DEF Holding
  <2>2. p # r /\ pc[p] = "write"
    BY <1>7 DEF End, TypeOK
  <2> QED BY <1>0, <2>1, <2>2
<1>8. CASE UNCHANGED vars
  BY <1>1, <1>8 DEF vars
<1> QED
  BY <1>2, <1>3, <1>4, <1>5, <1>6, <1>7, <1>8
  DEF Next, SavePlan, BreakPackets, UndoBreak, MoveGoal, UndoMove, Abort, Writes

-----------------------------------------------------------------------------
(* Plans and packets *)

\* What a break takes from a month, it has.
LEMMA TakenIsThere ==
  ASSUME NEW s \in LedgerType, NEW q \in Nat, NEW d, NEW take \in Taken(s, q, d),
         NEW m \in Month, take[m] > 0, Broken(s.breaks, m) \in Nat
  PROVE  /\ take[m] \in Nat
         /\ Broken(s.breaks, m) + take[m] <= s.lot[m].quantity
<1>1. take[m] \in Nat /\ take[m] <= Remaining(s, m)
  BY LedgerAssumption DEF Taken
<1>2. s.lot[m].quantity \in Nat
  BY PacketTyped DEF LedgerType
<1> QED BY <1>1, <1>2 DEF Remaining

\* The packets of a break are finitely many, and those of one month are the
\* packets taken from it.
LEMMA NewPackets ==
  ASSUME NEW s \in LedgerType, NEW q \in Nat, NEW d, NEW id \in Entry, NEW take \in Taken(s, q, d)
  PROVE  LET N == {[id |-> id, month |-> m, amount |-> s.lot[m].amount, quantity |-> take[m]] :
                     m \in {n \in Month : take[n] > 0}}
         IN  /\ IsFiniteSet(PacketsOf(N))
             /\ \A m \in Month : Broken(N, m) \in Nat /\ Broken(N, m) <= take[m]
<1> DEFINE row(m) == [id |-> id, month |-> m, amount |-> s.lot[m].amount, quantity |-> take[m]]
           N == {row(m) : m \in {n \in Month : take[n] > 0}}
           f == [m \in Month |-> row(m)]
<1>0. take \in [Month -> 0 .. MaxQuantity]
  BY DEF Taken
<1>1. IsFiniteSet(PacketsOf(N))
  <2>1. f \in Surjection(Month, {row(m) : m \in Month})
    BY DEF Surjection
  <2>2. IsFiniteSet({row(m) : m \in Month})
    BY <2>1, FS_Surjection, LedgerAssumption
  <2>3. IsFiniteSet(1 .. MaxQuantity)
    BY FS_Interval, LedgerAssumption
  <2>4. IsFiniteSet({row(m) : m \in Month} \X (1 .. MaxQuantity))
    BY <2>2, <2>3, FS_Product
  <2>5. PacketsOf(N) \subseteq {row(m) : m \in Month} \X (1 .. MaxQuantity)
    <3> SUFFICES ASSUME NEW m \in Month, NEW i \in 1 .. row(m).quantity
                 PROVE  <<row(m), i>> \in {row(n) : n \in Month} \X (1 .. MaxQuantity)
      BY DEF PacketsOf
    <3>1. i \in 1 .. MaxQuantity
      BY <1>0, LedgerAssumption
    <3> QED BY <3>1
  <2> QED BY <2>4, <2>5, FS_Subset
<1>2. ASSUME NEW m \in Month
      PROVE  Broken(N, m) \in Nat /\ Broken(N, m) <= take[m]
  <2>1. take[m] \in Nat
    BY <1>0
  <2>2. PacketsOf({b \in N : b.month = m}) \subseteq {row(m)} \X (1 .. take[m])
    <3> SUFFICES ASSUME NEW n \in Month, row(n).month = m, NEW i \in 1 .. row(n).quantity
                 PROVE  <<row(n), i>> \in {row(m)} \X (1 .. take[m])
      BY DEF PacketsOf
    <3>1. n = m
      OBVIOUS
    <3> QED BY <3>1
  <2>3. IsFiniteSet({row(m)} \X (1 .. take[m])) /\ Cardinality({row(m)} \X (1 .. take[m])) = take[m]
    BY <2>1, PileCardinality
  <2>4. /\ IsFiniteSet(PacketsOf({b \in N : b.month = m}))
        /\ Cardinality(PacketsOf({b \in N : b.month = m})) <= take[m]
    BY <2>2, <2>3, FS_Subset
  <2>5. Cardinality(PacketsOf({b \in N : b.month = m})) \in Nat
    BY <2>4, FS_CardinalityType
  <2> QED BY <2>4, <2>5 DEF Broken
<1> QED BY <1>1, <1>2

\* Entries added to others count for at most the sum.
LEMMA BrokenOfUnion ==
  ASSUME NEW B, NEW C, IsFiniteSet(PacketsOf(B)), IsFiniteSet(PacketsOf(C)), NEW m
  PROVE  /\ IsFiniteSet(PacketsOf(B \cup C))
         /\ Broken(B \cup C, m) \in Nat
         /\ Broken(B \cup C, m) <= Broken(B, m) + Broken(C, m)
<1> DEFINE P(S) == PacketsOf({b \in S : b.month = m})
<1>1. P(B) \subseteq PacketsOf(B) /\ P(C) \subseteq PacketsOf(C)
  BY DEF PacketsOf
<1>2. IsFiniteSet(P(B)) /\ IsFiniteSet(P(C))
  BY <1>1, FS_Subset
<1>3. P(B \cup C) = P(B) \cup P(C) /\ PacketsOf(B \cup C) = PacketsOf(B) \cup PacketsOf(C)
  BY DEF PacketsOf
<1>4. IsFiniteSet(PacketsOf(B \cup C))
  <2>1. IsFiniteSet(PacketsOf(B) \cup PacketsOf(C))
    BY UnionCardinality
  <2> QED BY <1>3, <2>1
<1>5. /\ Cardinality(P(B) \cup P(C)) \in Nat
      /\ Cardinality(P(B) \cup P(C)) <= Cardinality(P(B)) + Cardinality(P(C))
  BY <1>2, UnionCardinality
<1> QED BY <1>3, <1>4, <1>5 DEF Broken

LEMMA SavePlanFdInv ==
  ASSUME TypeOK, FdInv, SeenFresh, NEW r \in Request, SavePlan(r)
  PROVE  FdInv'
<1>1. PICK m \in Month, packet \in Packet :
        /\ Syncable(seen[r], m, packet)
        /\ lot' = [lot EXCEPT ![m] = packet]
  BY DEF SavePlan
<1>2. seen[r] = Ledger /\ breaks' = breaks
  BY DEF SavePlan, Writes, SeenFresh
<1>3. /\ packet.quantity >= Broken(breaks, m)
      /\ Broken(breaks, m) > 0 => lot[m].amount = packet.amount
  BY <1>1, <1>2 DEF Syncable, Ledger
<1>4. lot'[m] = packet /\ \A n \in Month : n # m => lot'[n] = lot[n]
  BY <1>1 DEF TypeOK
<1>5. BreaksMatchLots'
  <2> SUFFICES ASSUME NEW b \in breaks PROVE b.amount = lot'[b.month].amount
    BY <1>2 DEF BreaksMatchLots
  <2>1. b.month \in Month /\ b.quantity \in Nat \ {0} /\ b.amount = lot[b.month].amount
    <3>1. b \in FdBreak
      BY DEF TypeOK
    <3>2. b.month \in Month /\ b.quantity \in 1 .. MaxQuantity
      BY <3>1 DEF FdBreak
    <3> QED BY <3>2, LedgerAssumption DEF FdInv, BreaksMatchLots
  <2>2. Broken(breaks, b.month) > 0
    BY <2>1, BrokenPositive DEF FdInv
  <2> QED BY <1>3, <1>4, <2>1, <2>2
<1>6. NothingOverbroken'
  <2> SUFFICES ASSUME NEW n \in Month PROVE Broken(breaks, n) <= lot'[n].quantity
    BY <1>2 DEF NothingOverbroken
  <2>1. Broken(breaks, m) \in Nat /\ packet.quantity \in Nat
    BY BrokenMonotone, PacketTyped DEF FdInv
  <2> QED BY <1>3, <1>4, <2>1 DEF FdInv, NothingOverbroken
<1> QED BY <1>2, <1>5, <1>6 DEF FdInv

LEMMA BreakPacketsFdInv ==
  ASSUME TypeOK, FdInv, SeenFresh, NEW r \in Request, BreakPackets(r)
  PROVE  FdInv'
<1> DEFINE row(id, take, m) ==
             [id |-> id, month |-> m, amount |-> seen[r].lot[m].amount, quantity |-> take[m]]
           N(id, take) == {row(id, take, m) : m \in {n \in Month : take[n] > 0}}
<1>1. PICK q \in 1 .. MaxQuantity, d \in Amount \cup {None}, id \in Entry :
        \E take \in Taken(seen[r], q, d) : breaks' = breaks \cup N(id, take)
  BY DEF BreakPackets
<1>2. PICK take \in Taken(seen[r], q, d) : breaks' = breaks \cup N(id, take)
  BY <1>1
<1>3. /\ seen[r] = Ledger
      /\ seen[r] \in LedgerType
      /\ lot' = lot
      /\ q \in Nat
  BY LedgerAssumption DEF BreakPackets, Writes, SeenFresh, TypeOK
<1>4. seen[r].lot = lot /\ seen[r].breaks = breaks
  BY <1>3 DEF Ledger
<1>5. /\ IsFiniteSet(PacketsOf(N(id, take)))
      /\ \A m \in Month : Broken(N(id, take), m) \in Nat /\ Broken(N(id, take), m) <= take[m]
  BY <1>3, NewPackets
<1>6. IsFiniteSet(PacketsOf(breaks))
  BY DEF FdInv
<1>7. IsFiniteSet(PacketsOf(breaks'))
  BY <1>2, <1>5, <1>6, BrokenOfUnion
<1>8. BreaksMatchLots'
  <2> SUFFICES ASSUME NEW b \in breaks \cup N(id, take) PROVE b.amount = lot[b.month].amount
    BY <1>2, <1>3 DEF BreaksMatchLots
  <2>1. CASE b \in breaks
    BY <2>1 DEF FdInv, BreaksMatchLots
  <2>2. CASE b \in N(id, take)
    BY <1>4, <2>2
  <2> QED BY <2>1, <2>2
<1>9. NothingOverbroken'
  <2> SUFFICES ASSUME NEW m \in Month PROVE Broken(breaks \cup N(id, take), m) <= lot[m].quantity
    BY <1>2, <1>3 DEF NothingOverbroken
  <2>1. /\ Broken(breaks \cup N(id, take), m) \in Nat
        /\ Broken(breaks \cup N(id, take), m) <= Broken(breaks, m) + Broken(N(id, take), m)
    BY <1>5, <1>6, BrokenOfUnion
  <2>2. Broken(breaks, m) \in Nat /\ Broken(breaks, m) <= lot[m].quantity
    BY <1>6, BrokenMonotone DEF FdInv, NothingOverbroken
  <2>3. take[m] \in Nat /\ lot[m].quantity \in Nat
    <3>1. lot[m] \in Packet
      BY DEF TypeOK
    <3> QED BY <3>1, PacketTyped, LedgerAssumption DEF Taken
  <2>4. CASE take[m] > 0
    <3>1. Broken(breaks, m) + take[m] <= lot[m].quantity
      BY <1>3, <1>4, <2>2, <2>4, TakenIsThere
    <3> QED BY <1>5, <2>1, <2>2, <2>3, <3>1
  <2>5. CASE ~(take[m] > 0)
    BY <1>5, <2>1, <2>2, <2>3, <2>5
  <2> QED BY <2>4, <2>5
<1> QED BY <1>7, <1>8, <1>9 DEF FdInv

LEMMA UndoBreakFdInv ==
  ASSUME TypeOK, FdInv, NEW r \in Request, UndoBreak(r)
  PROVE  FdInv'
<1>1. breaks' \subseteq breaks /\ lot' = lot
  BY DEF UndoBreak
<1>2. IsFiniteSet(PacketsOf(breaks'))
  BY <1>1, BrokenMonotone DEF FdInv
<1>3. BreaksMatchLots'
  BY <1>1 DEF FdInv, BreaksMatchLots
<1>4. NothingOverbroken'
  <2> SUFFICES ASSUME NEW m \in Month PROVE Broken(breaks', m) <= lot[m].quantity
    BY <1>1 DEF NothingOverbroken
  <2>1. /\ Broken(breaks', m) \in Nat
        /\ Broken(breaks, m) \in Nat
        /\ Broken(breaks', m) <= Broken(breaks, m)
    BY <1>1, BrokenMonotone DEF FdInv
  <2>2. lot[m].quantity \in Nat
    BY PacketTyped DEF TypeOK
  <2> QED BY <2>1, <2>2 DEF FdInv, NothingOverbroken
<1> QED BY <1>2, <1>3, <1>4 DEF FdInv

LEMMA NextFdInv == TypeOK /\ SeenFresh /\ FdInv /\ [Next]_vars => FdInv'
<1> SUFFICES ASSUME TypeOK, SeenFresh, FdInv, [Next]_vars
             PROVE  FdInv'
  OBVIOUS
<1>1. ASSUME UNCHANGED <<lot, breaks>> PROVE FdInv'
  BY <1>1 DEF FdInv, BreaksMatchLots, NothingOverbroken
<1>2. CASE UNCHANGED vars
  BY <1>1, <1>2 DEF vars
<1>3. CASE Next
  <2>1. PICK r \in Request :
          \/ UNCHANGED <<lot, breaks>>
          \/ SavePlan(r)
          \/ BreakPackets(r)
          \/ UndoBreak(r)
    BY <1>3 DEF Next, Begin, LockPlans, LockTenant, Read, MoveGoal, UndoMove, Abort
  <2> QED BY <1>1, <2>1, SavePlanFdInv, BreakPacketsFdInv, UndoBreakFdInv
<1> QED BY <1>2, <1>3

LEMMA InitFdInv == Init => FdInv
<1> SUFFICES ASSUME Init PROVE FdInv
  OBVIOUS
<1>1. PacketsOf({}) = {}
  BY DEF PacketsOf
<1>2. \A m : Broken({}, m) = 0
  <2>1. \A m : {b \in {} : b.month = m} = {}
    OBVIOUS
  <2> QED BY <1>1, <2>1, FS_EmptySet DEF Broken
<1>3. \A m \in Month : lot[m].quantity = 0
  BY DEF Init, Unread, Zero
<1> QED BY <1>1, <1>2, <1>3, FS_EmptySet DEF Init, FdInv, BreaksMatchLots, NothingOverbroken

-----------------------------------------------------------------------------
(* Moves out of goals *)

\* Fewer moves count for less.
LEMMA MovedMonotone ==
  ASSUME NEW M, NEW O, M \subseteq O, IsFiniteSet(RupeesOf(O)), NEW g
  PROVE  /\ IsFiniteSet(RupeesOf(M))
         /\ Moved(M, g) \in Nat
         /\ Moved(O, g) \in Nat
         /\ Moved(M, g) <= Moved(O, g)
<1> DEFINE R(S) == RupeesOf({e \in S : e.goal = g})
<1>1. RupeesOf(M) \subseteq RupeesOf(O) /\ R(M) \subseteq R(O) /\ R(O) \subseteq RupeesOf(O)
  BY DEF RupeesOf
<1>2. IsFiniteSet(RupeesOf(M)) /\ IsFiniteSet(R(O)) /\ IsFiniteSet(R(M))
  BY <1>1, FS_Subset
<1>3. Cardinality(R(M)) <= Cardinality(R(O))
  BY <1>1, <1>2, FS_Subset
<1>4. Cardinality(R(M)) \in Nat /\ Cardinality(R(O)) \in Nat
  BY <1>2, FS_CardinalityType
<1> QED BY <1>2, <1>3, <1>4 DEF Moved

\* One more move counts for at most its amount, and for its goal only.
LEMMA MovedOneMore ==
  ASSUME NEW M, IsFiniteSet(RupeesOf(M)), NEW e, e.amount \in Nat, NEW g
  PROVE  /\ IsFiniteSet(RupeesOf(M \cup {e}))
         /\ Moved(M \cup {e}, g) \in Nat
         /\ Moved(M \cup {e}, g) <= Moved(M, g) + e.amount
         /\ e.goal # g => Moved(M \cup {e}, g) = Moved(M, g)
<1> DEFINE R(S) == RupeesOf({x \in S : x.goal = g})
           pile == {e} \X (1 .. e.amount)
<1>1. IsFiniteSet(pile) /\ Cardinality(pile) = e.amount
  BY PileCardinality
<1>2. R(M) \subseteq RupeesOf(M)
  BY DEF RupeesOf
<1>3. IsFiniteSet(R(M)) /\ Cardinality(R(M)) \in Nat
  BY <1>2, FS_Subset, FS_CardinalityType
<1>4. RupeesOf(M \cup {e}) = RupeesOf(M) \cup pile
  BY DEF RupeesOf
<1>5. IsFiniteSet(RupeesOf(M \cup {e}))
  <2>1. IsFiniteSet(RupeesOf(M) \cup pile)
    <3> HIDE DEF pile
    <3> QED BY <1>1, UnionCardinality
  <2> QED BY <1>4, <2>1
<1>6. CASE e.goal = g
  <2>1. R(M \cup {e}) = R(M) \cup pile
    BY <1>6 DEF RupeesOf
  <2>2. Cardinality(R(M) \cup pile) \in Nat /\ Cardinality(R(M) \cup pile) <= Cardinality(R(M)) + e.amount
    BY <1>1, <1>3, UnionCardinality
  <2> QED BY <1>5, <1>6, <2>1, <2>2 DEF Moved
<1>7. CASE e.goal # g
  <2>1. {x \in M \cup {e} : x.goal = g} = {x \in M : x.goal = g}
    BY <1>7
  <2>2. Moved(M \cup {e}, g) = Moved(M, g)
    BY <2>1 DEF Moved
  <2>3. Moved(M, g) \in Nat
    BY <1>3 DEF Moved
  <2> QED BY <1>5, <1>7, <2>2, <2>3
<1> QED BY <1>6, <1>7

\* What the plans pay into a goal is a number.
LEMMA FundedType ==
  ASSUME NEW p \in [Month -> Payments], NEW g \in Goal
  PROVE  Funded(p, g) \in Nat
<1> DEFINE R == UNION {{m} \X (1 .. p[m][g]) : m \in Month}
<1>1. R \subseteq Month \X (1 .. MaxPay)
  <2> SUFFICES ASSUME NEW m \in Month, NEW i \in 1 .. p[m][g]
               PROVE  <<m, i>> \in Month \X (1 .. MaxPay)
    OBVIOUS
  <2>1. p[m][g] \in 0 .. MaxPay
    BY DEF Payments
  <2>2. i \in 1 .. MaxPay
    BY <2>1, LedgerAssumption
  <2> QED BY <2>2
<1>2. IsFiniteSet(1 .. MaxPay)
  BY FS_Interval, LedgerAssumption
<1>3. IsFiniteSet(Month \X (1 .. MaxPay))
  BY <1>2, FS_Product, LedgerAssumption
<1>4. IsFiniteSet(R)
  BY <1>1, <1>3, FS_Subset
<1>5. Cardinality(R) \in Nat
  BY <1>4, FS_CardinalityType
<1> QED BY <1>5 DEF Funded

\* What a step does to the moves: nothing that is not covered.
LEMMA NextMoves ==
  ASSUME TypeOK, SeenFresh, FiniteMoves, [Next]_vars
  PROVE  /\ FiniteMoves'
         /\ \A g \in Goal : Moved(moves', g) > Moved(moves, g) => Moved(moves', g) <= Funded(pay', g)
<1>1. ASSUME moves' \subseteq moves
      PROVE  /\ FiniteMoves'
             /\ \A g \in Goal : ~(Moved(moves', g) > Moved(moves, g))
  <2>1. \A g \in Goal : /\ IsFiniteSet(RupeesOf(moves'))
                        /\ Moved(moves', g) \in Nat
                        /\ Moved(moves, g) \in Nat
                        /\ Moved(moves', g) <= Moved(moves, g)
    BY <1>1, MovedMonotone DEF FiniteMoves
  <2>2. IsFiniteSet(RupeesOf(moves'))
    BY <1>1, MovedMonotone DEF FiniteMoves
  <2> QED BY <2>1, <2>2 DEF FiniteMoves
<1>2. ASSUME NEW r \in Request, MoveGoal(r)
      PROVE  /\ FiniteMoves'
             /\ \A g \in Goal : Moved(moves', g) > Moved(moves, g) => Moved(moves', g) <= Funded(pay', g)
  <2>1. PICK h \in Goal, amount \in 1 .. MaxPay, id \in Entry :
          /\ amount <= Funded(seen[r].pay, h) - Moved(seen[r].moves, h)
          /\ moves' = moves \cup {[id |-> id, goal |-> h, amount |-> amount]}
    BY <1>2 DEF MoveGoal
  <2>2. seen[r].pay = pay /\ seen[r].moves = moves /\ pay' = pay
    BY <1>2 DEF MoveGoal, Writes, SeenFresh, Ledger
  <2> DEFINE e == [id |-> id, goal |-> h, amount |-> amount]
  <2>3. e.amount \in Nat /\ e.goal = h /\ e.amount = amount
    BY LedgerAssumption
  <2>4. \A g : /\ IsFiniteSet(RupeesOf(moves \cup {e}))
               /\ Moved(moves \cup {e}, g) \in Nat
               /\ Moved(moves \cup {e}, g) <= Moved(moves, g) + e.amount
               /\ e.goal # g => Moved(moves \cup {e}, g) = Moved(moves, g)
    BY <2>3, MovedOneMore DEF FiniteMoves
  <2>5. \A g : Moved(moves, g) \in Nat
    BY MovedMonotone DEF FiniteMoves
  <2>6. Funded(pay, h) \in Nat
    BY FundedType DEF TypeOK
  <2>7. Moved(moves', h) <= Funded(pay', h)
    <3>1. amount <= Funded(pay, h) - Moved(moves, h)
      BY <2>1, <2>2
    <3>2. Moved(moves', h) \in Nat /\ Moved(moves', h) <= Moved(moves, h) + amount
      BY <2>1, <2>3, <2>4
    <3>3. amount \in Nat
      BY <2>3
    <3> QED BY <2>2, <2>5, <2>6, <3>1, <3>2, <3>3
  <2>8. ASSUME NEW g \in Goal, g # h PROVE ~(Moved(moves', g) > Moved(moves, g))
    <3>1. Moved(moves', g) = Moved(moves, g)
      BY <2>1, <2>3, <2>4, <2>8
    <3> QED BY <2>5, <3>1
  <2>9. FiniteMoves'
    BY <2>1, <2>4 DEF FiniteMoves
  <2> QED BY <2>7, <2>8, <2>9
<1>3. moves' \subseteq moves \/ \E r \in Request : MoveGoal(r)
  <2>1. CASE UNCHANGED vars
    BY <2>1 DEF vars
  <2>2. CASE Next
    BY <2>2 DEF Next, Begin, LockPlans, LockTenant, Read, SavePlan, BreakPackets, UndoBreak, UndoMove, Abort
  <2> QED BY <2>1, <2>2
<1> QED BY <1>1, <1>2, <1>3

-----------------------------------------------------------------------------
(* What may be broken *)

\* The packets left in a month and those broken out of it are its packets.
LEMMA OffersInv == IInv => OffersBreakable
<1> SUFFICES ASSUME IInv, NEW a \in Amount PROVE Offered(Ledger, a) = Available(Ledger, a)
  BY DEF OffersBreakable
<1> DEFINE L == {m \in Month : lot[m].amount = a}
           q == [m \in L |-> lot[m].quantity]
           left == [m \in L |-> Remaining(Ledger, m)]
           out == [m \in L |-> PacketsOf({b \in breaks : b.month = m})]
           X == UNION {{m} \X (1 .. q[m]) : m \in L}
           Left == UNION {{m} \X (1 .. left[m]) : m \in L}
           Out == UNION {out[m] : m \in L}
<1>1. ASSUME NEW m \in L
      PROVE  /\ q[m] \in Nat
             /\ left[m] \in Nat
             /\ left[m] <= q[m]
             /\ IsFiniteSet(out[m])
             /\ Cardinality(out[m]) = q[m] - left[m]
  <2>1. lot[m].quantity \in Nat
    BY PacketTyped DEF IInv, TypeOK
  <2>2. Broken(breaks, m) \in Nat /\ Broken(breaks, m) <= lot[m].quantity
    BY BrokenMonotone DEF IInv, FdInv, NothingOverbroken
  <2>3. Remaining(Ledger, m) = lot[m].quantity - Broken(breaks, m)
    BY <2>1, <2>2 DEF Remaining, Ledger
  <2>4. out[m] \in SUBSET PacketsOf(breaks)
    BY DEF PacketsOf
  <2>5. IsFiniteSet(PacketsOf(breaks))
    BY DEF IInv, FdInv
  <2>6. IsFiniteSet(out[m])
    <3> HIDE DEF out
    <3> QED BY <2>4, <2>5, FS_Subset
  <2>7. Cardinality(out[m]) = Broken(breaks, m)
    BY DEF Broken
  <2>8. q[m] = lot[m].quantity /\ left[m] = Remaining(Ledger, m)
    OBVIOUS
  <2> HIDE DEF q, left, out
  <2> QED BY <2>1, <2>2, <2>3, <2>6, <2>7, <2>8
<1>2. q \in [L -> Nat] /\ left \in [L -> Nat]
  BY <1>1
<1>3. IsFiniteSet(X)
  <2>1. MaxQuantity \in Nat /\ IsFiniteSet(Month)
    BY LedgerAssumption
  <2>2. IsFiniteSet(1 .. MaxQuantity)
    BY <2>1, FS_Interval
  <2>3. IsFiniteSet(Month \X (1 .. MaxQuantity))
    BY <2>1, <2>2, FS_Product
  <2>4. ASSUME NEW m \in L, NEW i \in 1 .. q[m] PROVE m \in Month /\ i \in 1 .. MaxQuantity
    <3>1. lot[m] \in Packet
      BY DEF IInv, TypeOK
    <3>2. lot[m].quantity \in 0 .. MaxQuantity
      BY <2>1, <3>1 DEF Packet, Zero
    <3> QED BY <2>1, <3>2
  <2>5. X \in SUBSET (Month \X (1 .. MaxQuantity))
    <3> HIDE DEF q, L
    <3> QED BY <2>4
  <2> HIDE DEF X
  <2> QED BY <2>3, <2>5, FS_Subset
<1>4. MadeOf(Out, out, L)
  <2>1. ASSUME NEW m \in L, NEW x \in out[m] PROVE x[1].month = m
    BY DEF PacketsOf
  <2>2. \A x : x \in Out <=> \E m \in L : x \in out[m]
    <3> HIDE DEF out, L
    <3> QED OBVIOUS
  <2> HIDE DEF out, L, Out
  <2> QED BY <2>1, <2>2 DEF MadeOf
<1>5. Out = PacketsOf({b \in breaks : b.amount = a})
  <2>1. ASSUME NEW b \in breaks PROVE b.month \in Month /\ b.amount = lot[b.month].amount
    BY DEF IInv, TypeOK, FdInv, BreaksMatchLots, FdBreak
  <2>2. ASSUME NEW m \in L, NEW b \in breaks, b.month = m, NEW i \in 1 .. b.quantity
        PROVE  <<b, i>> \in PacketsOf({c \in breaks : c.amount = a})
    <3>1. b \in {c \in breaks : c.amount = a}
      BY <2>1, <2>2
    <3> QED BY <3>1 DEF PacketsOf
  <2>3. Out \subseteq PacketsOf({b \in breaks : b.amount = a})
    <3> SUFFICES ASSUME NEW m \in L, NEW x \in out[m] PROVE x \in PacketsOf({b \in breaks : b.amount = a})
      BY Zenon
    <3>1. PICK b \in breaks : b.month = m /\ \E i \in 1 .. b.quantity : x = <<b, i>>
      BY DEF PacketsOf
    <3> QED BY <2>2, <3>1
  <2>4. ASSUME NEW b \in breaks, b.amount = a, NEW i \in 1 .. b.quantity
        PROVE  \E m \in L : <<b, i>> \in out[m]
    <3>1. b.month \in L
      BY <2>1, <2>4
    <3>2. b \in {c \in breaks : c.month = b.month}
      OBVIOUS
    <3>3. <<b, i>> \in {b} \X (1 .. b.quantity)
      OBVIOUS
    <3>4. <<b, i>> \in PacketsOf({c \in breaks : c.month = b.month})
      BY <3>2, <3>3, Zenon DEF PacketsOf
    <3>5. out[b.month] = PacketsOf({c \in breaks : c.month = b.month})
      BY <3>1
    <3> QED BY <3>1, <3>4, <3>5
  <2>5. PacketsOf({b \in breaks : b.amount = a}) \subseteq Out
    <3> SUFFICES ASSUME NEW x \in PacketsOf({b \in breaks : b.amount = a}) PROVE \E m \in L : x \in out[m]
      BY Zenon
    <3>1. PICK b \in breaks : b.amount = a /\ \E i \in 1 .. b.quantity : x = <<b, i>>
      BY DEF PacketsOf
    <3> HIDE DEF out, L
    <3> QED BY <2>4, <3>1
  <2> QED BY <2>3, <2>5
<1>6. Lots(Ledger, a) = L
  <2>1. a # 0 /\ a # None
    BY LedgerAssumption
  <2>2. \A m \in Month : lot[m].amount = a => lot[m] # Zero
    BY <2>1 DEF Zero
  <2> QED BY <2>1, <2>2 DEF Lots, Ledger
<1>7. Available(Ledger, a) = Cardinality(Left)
  <2>1. \A m \in L : left[m] = Remaining(Ledger, m)
    OBVIOUS
  <2> HIDE DEF left, L
  <2>2. {{m} \X (1 .. left[m]) : m \in L} = {{m} \X (1 .. Remaining(Ledger, m)) : m \in L}
    BY <2>1
  <2> QED BY <1>6, <2>2 DEF Available
<1>8. Offered(Ledger, a) = Cardinality(X) - Cardinality(Out)
  <2>1. \A m \in L : q[m] = Ledger.lot[m].quantity
    BY DEF Ledger
  <2>2. L = {m \in Month : Ledger.lot[m].amount = a}
    BY DEF Ledger
  <2>3. Ledger.breaks = breaks
    BY DEF Ledger
  <2> HIDE DEF q, L, Out
  <2>4. {{m} \X (1 .. q[m]) : m \in L} = {{m} \X (1 .. Ledger.lot[m].quantity) : m \in L}
    BY <2>1
  <2> QED BY <1>5, <2>2, <2>3, <2>4 DEF Offered
<1>9. /\ Cardinality(Left) \in Nat
      /\ Cardinality(Out) \in Nat
      /\ Cardinality(X) = Cardinality(Left) + Cardinality(Out)
  <2>1. Heaps(X, q, L) /\ Heaps(Left, left, L)
    <3> HIDE DEF q, left, L
    <3> QED BY DEF Heaps
  <2>2. CountRest(out, q, left, L)
    <3> HIDE DEF q, left, L, out
    <3> QED BY <1>1 DEF CountRest
  <2> HIDE DEF q, left, out, L, X, Left, Out
  <2> QED BY <1>2, <1>3, <1>4, <2>1, <2>2, LeftAndTaken
<1> HIDE DEF X, Left, Out
<1> QED BY <1>7, <1>8, <1>9

-----------------------------------------------------------------------------
(* The theorems *)

LEMMA NextLedgerFollowsPlan == TypeOK /\ LedgerFollowsPlan /\ [Next]_vars => LedgerFollowsPlan'
<1> SUFFICES ASSUME LedgerFollowsPlan, [Next]_vars PROVE LedgerFollowsPlan'
  OBVIOUS
<1>1. ASSUME NEW r \in Request, SavePlan(r) PROVE LedgerFollowsPlan'
  BY <1>1 DEF SavePlan, LedgerFollowsPlan
<1>2. CASE UNCHANGED <<fd, lot>>
  BY <1>2 DEF LedgerFollowsPlan
<1> QED
  BY <1>1, <1>2
  DEF Next, vars, Begin, LockPlans, LockTenant, Read, BreakPackets, UndoBreak, MoveGoal, UndoMove, Abort

LEMMA InitIInv == Init => IInv
<1> SUFFICES ASSUME Init PROVE IInv
  OBVIOUS
<1>1. RupeesOf(moves) = {}
  BY DEF Init, RupeesOf
<1>2. FiniteMoves
  BY <1>1, FS_EmptySet DEF FiniteMoves
<1>3. Holding /\ SeenFresh /\ LedgerFollowsPlan
  BY DEF Init, Holding, SeenFresh, LedgerFollowsPlan
<1> QED BY <1>2, <1>3, InitTypeOK, InitFdInv DEF IInv

LEMMA NextIInv == IInv /\ [Next]_vars => IInv'
  BY NextTypeOK, NextHolding, NextSeenFresh, NextFdInv, NextMoves, NextLedgerFollowsPlan DEF IInv

LEMMA SpecIInv == Spec => []IInv
  BY InitIInv, NextIInv, PTL DEF Spec

\* No more packets are ever broken out of a month than it has.
THEOREM NeverOverbroken == Spec => []NothingOverbroken
<1>1. IInv => NothingOverbroken
  BY DEF IInv, FdInv
<1> QED BY <1>1, SpecIInv, PTL

\* Packets broken out of a month keep the denomination they have there.
THEOREM DenominationsKept == Spec => []BreaksMatchLots
<1>1. IInv => BreaksMatchLots
  BY DEF IInv, FdInv
<1> QED BY <1>1, SpecIInv, PTL

\* What the summary offers of a denomination is what a break may take.
THEOREM OffersAreBreakable == Spec => []OffersBreakable
  BY OffersInv, SpecIInv, PTL

\* A move out of a goal is covered by the plans as they are when it commits.
THEOREM MovesAreCovered == Spec => MoveIsCovered
<1>1. IInv /\ [Next]_vars =>
        [\A g \in Goal : Moved(moves', g) > Moved(moves, g) => Moved(moves', g) <= Funded(pay', g)]_vars
  BY NextMoves DEF IInv
<1> QED BY <1>1, SpecIInv, PTL DEF Spec, MoveIsCovered

-----------------------------------------------------------------------------
(* The ledgers are books kept by one clerk *)

\* Counting in the instance is counting.
LEMMA SameCount == \A S : Books!Cardinality(S) = Cardinality(S)
BY DEF Books!Cardinality, Cardinality

\* A pile that was not counted yet counts for its height.
LEMMA OnePileMore ==
  ASSUME NEW P, IsFiniteSet(P), NEW x, NEW q \in Nat, \A i \in 1 .. q : <<x, i>> \notin P
  PROVE  Cardinality(P \cup ({x} \X (1 .. q))) = Cardinality(P) + q
<1> DEFINE pile == {x} \X (1 .. q)
<1>1. IsFiniteSet(pile) /\ Cardinality(pile) = q
  BY PileCardinality
<1>2. P \cap pile = {}
  OBVIOUS
<1> HIDE DEF pile
<1>3. Cardinality(P \cap pile) = 0
  BY <1>2, FS_EmptySet
<1>4. Cardinality(P \cup pile) = Cardinality(P) + Cardinality(pile) - Cardinality(P \cap pile)
  BY <1>1, FS_Union
<1>5. Cardinality(P) \in Nat
  BY FS_CardinalityType
<1>6. Cardinality(P \cup pile) = Cardinality(P) + q
  BY <1>1, <1>3, <1>4, <1>5
<1> QED BY <1>6 DEF pile

\* One more entry of a month counts for its packets.
LEMMA BrokenOneMore ==
  ASSUME NEW B, NEW C, IsFiniteSet(PacketsOf(B)), NEW m,
         NEW b, b \notin B, b.quantity \in Nat,
         {c \in C : c.month = m} = {c \in B : c.month = m} \cup {b}
  PROVE  Broken(C, m) = Broken(B, m) + b.quantity
<1> DEFINE P == PacketsOf({c \in B : c.month = m})
           pile == {b} \X (1 .. b.quantity)
<1>1. P \subseteq PacketsOf(B)
  BY DEF PacketsOf
<1>2. IsFiniteSet(P)
  BY <1>1, FS_Subset
<1>3. \A i \in 1 .. b.quantity : <<b, i>> \notin P
  BY DEF PacketsOf
<1>4. Cardinality(P \cup pile) = Cardinality(P) + b.quantity
  <2> HIDE DEF P
  <2> QED BY <1>2, <1>3, OnePileMore
<1>5. PacketsOf({c \in B : c.month = m} \cup {b}) = P \cup pile
  BY DEF PacketsOf
<1> QED BY <1>4, <1>5 DEF Broken

\* One more move counts for its rupees.
LEMMA MovedExactly ==
  ASSUME NEW M, IsFiniteSet(RupeesOf(M)), NEW e, e \notin M, e.amount \in Nat
  PROVE  Moved(M \cup {e}, e.goal) = Moved(M, e.goal) + e.amount
<1> DEFINE R == RupeesOf({x \in M : x.goal = e.goal})
           pile == {e} \X (1 .. e.amount)
<1>1. R \subseteq RupeesOf(M)
  BY DEF RupeesOf
<1>2. IsFiniteSet(R)
  BY <1>1, FS_Subset
<1>3. \A i \in 1 .. e.amount : <<e, i>> \notin R
  BY DEF RupeesOf
<1>4. Cardinality(R \cup pile) = Cardinality(R) + e.amount
  <2> HIDE DEF R
  <2> QED BY <1>2, <1>3, OnePileMore
<1>5. RupeesOf({x \in M \cup {e} : x.goal = e.goal}) = R \cup pile
  BY DEF RupeesOf
<1> QED BY <1>4, <1>5 DEF Moved

LEMMA BooksInit == Init => Books!Init
<1> SUFFICES ASSUME Init PROVE Books!Init
  OBVIOUS
<1>1. PacketsOf({}) = {} /\ RupeesOf({}) = {}
  BY DEF PacketsOf, RupeesOf
<1>2. \A m \in Month : {b \in breaks : b.month = m} = {}
  BY DEF Init
<1>3. \A g \in Goal : {e \in moves : e.goal = g} = {}
  BY DEF Init
<1>4. \A m \in Month : Broken(breaks, m) = 0
  BY <1>1, <1>2, FS_EmptySet DEF Broken
<1>5. \A g \in Goal : Moved(moves, g) = 0
  BY <1>1, <1>3, FS_EmptySet DEF Moved
<1> QED BY <1>4, <1>5 DEF Init, Unread, Books!Init

\* What is written is decided on what is there.
LEMMA Looks ==
  ASSUME IInv, NEW r \in Request, pc[r] = "write"
  PROVE  /\ seen[r].lot = fd
         /\ seen[r].breaks = breaks
         /\ seen[r].pay = pay
         /\ seen[r].moves = moves
BY DEF IInv, SeenFresh, Ledger, LedgerFollowsPlan

LEMMA SavePlanBooks ==
  ASSUME IInv, NEW r \in Request, SavePlan(r)
  PROVE  Books!Next
<1>1. PICK m \in Month, packet \in Packet, payments \in Payments :
        /\ Syncable(seen[r], m, packet)
        /\ fd' = [fd EXCEPT ![m] = packet]
        /\ pay' = [pay EXCEPT ![m] = payments]
  BY DEF SavePlan
<1>2. breaks' = breaks /\ moves' = moves
  BY DEF SavePlan
<1>3. seen[r].lot = fd /\ seen[r].breaks = breaks
  BY Looks DEF SavePlan, Writes
<1>4. Books!Save(m, packet, payments)
  <2>1. packet.quantity >= Broken(breaks, m)
    BY <1>1, <1>3 DEF Syncable
  <2>2. Broken(breaks, m) > 0 => packet.amount = fd[m].amount
    BY <1>1, <1>3 DEF Syncable
  <2> QED BY <1>1, <1>2, <2>1, <2>2 DEF Books!Save
<1> QED BY <1>4 DEF Books!Next

\* What is left of a month is what the books say is left.
LEMMA LeftIsRemaining ==
  ASSUME IInv, NEW m \in Month
  PROVE  /\ Remaining(Ledger, m) = Books!Left(m)
         /\ Broken(breaks, m) \in Nat
         /\ Books!Left(m) \in Nat
<1>1. lot[m].quantity \in Nat /\ lot = fd
  BY PacketTyped DEF IInv, TypeOK, LedgerFollowsPlan
<1>2. Broken(breaks, m) \in Nat /\ Broken(breaks, m) <= lot[m].quantity
  BY BrokenMonotone DEF IInv, FdInv, NothingOverbroken
<1>3. Books!Left(m) = lot[m].quantity - Broken(breaks, m)
  BY <1>1 DEF Books!Left
<1>4. Remaining(Ledger, m) = lot[m].quantity - Broken(breaks, m)
  BY <1>1, <1>2 DEF Remaining, Ledger
<1> QED BY <1>1, <1>2, <1>3, <1>4

LEMMA LotsAreOf ==
  ASSUME IInv, NEW d \in Amount \cup {None}
  PROVE  \E denominations \in {Amount} \cup {{a} : a \in Amount} :
            Lots(Ledger, d) = Books!Of(denominations)
<1>1. lot = fd /\ \A m \in Month : lot[m] # Zero => lot[m].amount \in Amount
  BY DEF IInv, TypeOK, LedgerFollowsPlan, Packet
<1>2. CASE d = None
  <2>1. Lots(Ledger, d) = Books!Of(Amount)
    BY <1>1, <1>2 DEF Lots, Ledger, Books!Of
  <2> QED BY <2>1
<1>3. CASE d # None
  <2>1. Lots(Ledger, d) = Books!Of({d})
    BY <1>1, <1>3 DEF Lots, Ledger, Books!Of
  <2> QED BY <1>3, <2>1
<1> QED BY <1>2, <1>3

LEMMA BreakPacketsBooks ==
  ASSUME IInv, NEW r \in Request, BreakPackets(r)
  PROVE  Books!Next
<1> DEFINE row(id, take, m) ==
             [id |-> id, month |-> m, amount |-> seen[r].lot[m].amount, quantity |-> take[m]]
           N(id, take) == {row(id, take, m) : m \in {n \in Month : take[n] > 0}}
<1>1. PICK q \in 1 .. MaxQuantity, d \in Amount \cup {None}, id \in Entry :
        /\ Fresh(id)
        /\ \E take \in Taken(seen[r], q, d) : breaks' = breaks \cup N(id, take)
  BY DEF BreakPackets
<1>2. PICK take \in Taken(seen[r], q, d) : breaks' = breaks \cup N(id, take)
  BY <1>1
<1>3. fd' = fd /\ pay' = pay /\ moves' = moves /\ seen[r] = Ledger
  BY DEF BreakPackets, Writes, IInv, SeenFresh
<1>4. /\ take \in [Month -> 0 .. MaxQuantity]
      /\ \A m \in Month :
           take[m] > 0 =>
              /\ m \in Lots(Ledger, d)
              /\ take[m] <= Remaining(Ledger, m)
              /\ \A n \in Lots(Ledger, d) : n < m => take[n] = Remaining(Ledger, n)
  BY <1>2, <1>3 DEF Taken
<1>5. PICK denominations \in {Amount} \cup {{a} : a \in Amount} : Lots(Ledger, d) = Books!Of(denominations)
  BY LotsAreOf
<1>6. ASSUME NEW m \in Month
      PROVE  Broken(breaks', m) = Broken(breaks, m) + take[m]
  <2>1. take[m] \in Nat
    BY <1>4, LedgerAssumption
  <2>2. CASE take[m] > 0
    <3> DEFINE b == row(id, take, m)
    <3>1. b.month = m /\ b.quantity = take[m] /\ b.id = id
      OBVIOUS
    <3>2. b \notin breaks
      BY <1>1, <3>1 DEF Fresh
    <3>3. \A x \in N(id, take) : x.month = m <=> x = b
      OBVIOUS
    <3>4. b \in N(id, take)
      BY <2>2
    <3> HIDE DEF b, N
    <3>5. {c \in breaks \cup N(id, take) : c.month = m} = {c \in breaks : c.month = m} \cup {b}
      BY <3>1, <3>3, <3>4
    <3>6. Broken(breaks \cup N(id, take), m) = Broken(breaks, m) + b.quantity
      BY <2>1, <3>1, <3>2, <3>5, BrokenOneMore DEF IInv, FdInv
    <3> QED BY <1>2, <3>1, <3>6
  <2>3. CASE take[m] = 0
    <3>1. \A x \in N(id, take) : x.month # m
      BY <2>3
    <3> HIDE DEF N
    <3>2. {c \in breaks' : c.month = m} = {c \in breaks : c.month = m}
      BY <1>2, <3>1
    <3>3. Broken(breaks', m) = Broken(breaks, m)
      BY <3>2 DEF Broken
    <3> QED BY <2>3, <3>3, LeftIsRemaining
  <2> QED BY <2>1, <2>2, <2>3
<1>7. Books!Break(take, denominations)
  <2>1. ASSUME NEW m \in Month, take[m] > 0
        PROVE  /\ m \in Books!Of(denominations)
               /\ take[m] <= Books!Left(m)
               /\ \A n \in Books!Of(denominations) : n < m => take[n] = Books!Left(n)
    <3>1. \A n \in Books!Of(denominations) : n \in Month
      BY DEF Books!Of
    <3> QED BY <1>4, <1>5, <2>1, <3>1, LeftIsRemaining
  <2>2. [m \in Month |-> Broken(breaks', m)] = [m \in Month |-> [n \in Month |-> Broken(breaks, n)][m] + take[m]]
    BY <1>6
  <2> QED BY <1>3, <2>1, <2>2 DEF Books!Break
<1> QED BY <1>4, <1>5, <1>7 DEF Books!Next

LEMMA UndoBreakBooks ==
  ASSUME IInv, NEW r \in Request, UndoBreak(r)
  PROVE  Books!Next
<1>1. seen[r].breaks = breaks
  BY Looks DEF UndoBreak, Writes
<1>2. PICK b \in breaks : breaks' = breaks \ {b}
  BY <1>1 DEF UndoBreak
<1>3. fd' = fd /\ pay' = pay /\ moves' = moves
  BY DEF UndoBreak
<1>4. b.month \in Month /\ b.quantity \in 1 .. MaxQuantity /\ b.quantity \in Nat
  BY LedgerAssumption DEF IInv, TypeOK, FdBreak
<1>5. IsFiniteSet(PacketsOf(breaks \ {b}))
  BY BrokenMonotone DEF IInv, FdInv
<1>6. Broken(breaks, b.month) = Broken(breaks', b.month) + b.quantity
  <2>1. {c \in breaks : c.month = b.month} = {c \in breaks \ {b} : c.month = b.month} \cup {b}
    OBVIOUS
  <2> QED BY <1>2, <1>4, <1>5, <2>1, BrokenOneMore
<1>7. ASSUME NEW m \in Month, m # b.month PROVE Broken(breaks', m) = Broken(breaks, m)
  <2>1. {c \in breaks' : c.month = m} = {c \in breaks : c.month = m}
    BY <1>2, <1>7
  <2> QED BY <2>1 DEF Broken
<1>8. \A m \in Month : Broken(breaks, m) \in Nat /\ Broken(breaks', m) \in Nat
  BY <1>2, BrokenMonotone DEF IInv, FdInv
<1>9. Books!Mend(b.month, b.quantity)
  <2>1. b.quantity <= Broken(breaks, b.month)
    BY <1>4, <1>6, <1>8
  <2>2. Broken(breaks', b.month) = Broken(breaks, b.month) - b.quantity
    BY <1>4, <1>6, <1>8
  <2>3. [m \in Month |-> Broken(breaks', m)]
          = [[m \in Month |-> Broken(breaks, m)] EXCEPT ![b.month] = Broken(breaks, b.month) - b.quantity]
    BY <1>4, <1>7, <2>2
  <2> QED BY <1>3, <1>4, <2>1, <2>3 DEF Books!Mend
<1> QED BY <1>4, <1>9 DEF Books!Next

LEMMA MoveGoalBooks ==
  ASSUME IInv, NEW r \in Request, MoveGoal(r)
  PROVE  Books!Next
<1>1. seen[r].pay = pay /\ seen[r].moves = moves
  BY Looks DEF MoveGoal, Writes
<1>2. PICK g \in Goal, amount \in 1 .. MaxPay, id \in Entry :
        /\ amount <= Funded(pay, g) - Moved(moves, g)
        /\ Fresh(id)
        /\ moves' = moves \cup {[id |-> id, goal |-> g, amount |-> amount]}
  BY <1>1 DEF MoveGoal
<1>3. fd' = fd /\ pay' = pay /\ breaks' = breaks
  BY DEF MoveGoal
<1> DEFINE e == [id |-> id, goal |-> g, amount |-> amount]
<1>4. e.goal = g /\ e.amount = amount /\ amount \in Nat /\ e \notin moves
  BY <1>2, LedgerAssumption DEF Fresh
<1>5. moves' = moves \cup {e}
  BY <1>2
<1> HIDE DEF e
<1>6. Moved(moves', g) = Moved(moves, g) + amount
  BY <1>4, <1>5, MovedExactly DEF IInv, FiniteMoves
<1>7. ASSUME NEW h \in Goal, h # g PROVE Moved(moves', h) = Moved(moves, h)
  BY <1>4, <1>5, <1>7, MovedOneMore DEF IInv, FiniteMoves
<1>8. Moved(moves, g) \in Nat /\ Funded(pay, g) \in Nat
  BY MovedMonotone, FundedType DEF IInv, FiniteMoves, TypeOK
<1>9. Books!Move(g, amount)
  <2>1. Moved(moves, g) + amount <= Funded(pay, g)
    BY <1>2, <1>4, <1>8
  <2>2. Books!Fund(g) = Funded(pay, g)
    BY SameCount DEF Books!Fund, Funded
  <2>3. [h \in Goal |-> Moved(moves', h)]
          = [[h \in Goal |-> Moved(moves, h)] EXCEPT ![g] = Moved(moves, g) + amount]
    BY <1>6, <1>7
  <2> QED BY <1>3, <2>1, <2>2, <2>3 DEF Books!Move
<1> QED BY <1>9 DEF Books!Next

LEMMA UndoMoveBooks ==
  ASSUME IInv, NEW r \in Request, UndoMove(r)
  PROVE  Books!Next
<1>1. seen[r].moves = moves
  BY Looks DEF UndoMove, Writes
<1>2. PICK e \in moves : moves' = moves \ {e}
  BY <1>1 DEF UndoMove
<1>3. fd' = fd /\ pay' = pay /\ breaks' = breaks
  BY DEF UndoMove
<1>4. e.goal \in Goal /\ e.amount \in 1 .. MaxPay /\ e.amount \in Nat
  BY LedgerAssumption DEF IInv, TypeOK, GoalBreak
<1>5. IsFiniteSet(RupeesOf(moves'))
  BY <1>2, MovedMonotone DEF IInv, FiniteMoves
<1>6. moves = moves' \cup {e} /\ e \notin moves'
  BY <1>2
<1>7. Moved(moves, e.goal) = Moved(moves', e.goal) + e.amount
  BY <1>4, <1>5, <1>6, MovedExactly
<1>8. ASSUME NEW g \in Goal, g # e.goal PROVE Moved(moves', g) = Moved(moves, g)
  BY <1>4, <1>5, <1>6, <1>8, MovedOneMore
<1>9. Moved(moves', e.goal) \in Nat /\ Moved(moves, e.goal) \in Nat
  BY <1>2, MovedMonotone DEF IInv, FiniteMoves
<1>10. Books!Return(e.goal, e.amount)
  <2>1. e.amount <= Moved(moves, e.goal) /\ Moved(moves', e.goal) = Moved(moves, e.goal) - e.amount
    BY <1>4, <1>7, <1>9
  <2>2. [g \in Goal |-> Moved(moves', g)]
          = [[g \in Goal |-> Moved(moves, g)] EXCEPT ![e.goal] = Moved(moves, e.goal) - e.amount]
    BY <1>4, <1>8, <2>1
  <2> QED BY <1>3, <1>4, <2>1, <2>2 DEF Books!Return
<1> QED BY <1>4, <1>10 DEF Books!Next

\* However many requests interleave over the entries, what the entries add up to
\* changes as if one clerk had looked at the books and written in one step.
THEOREM BooksAreKept == Spec => KeepsBooks
<1>1. IInv /\ [Next]_vars => [Books!Next]_(Books!vars)
  <2> SUFFICES ASSUME IInv, [Next]_vars PROVE Books!Next \/ UNCHANGED Books!vars
    OBVIOUS
  <2>1. CASE UNCHANGED <<fd, pay, breaks, moves>>
    BY <2>1 DEF Books!vars
  <2>2. CASE \E r \in Request : SavePlan(r) \/ BreakPackets(r) \/ UndoBreak(r) \/ MoveGoal(r) \/ UndoMove(r)
    BY <2>2, SavePlanBooks, BreakPacketsBooks, UndoBreakBooks, MoveGoalBooks, UndoMoveBooks
  <2> QED BY <2>1, <2>2 DEF Next, vars, Begin, LockPlans, LockTenant, Read, Abort
<1> QED BY <1>1, BooksInit, SpecIInv, PTL DEF Spec, KeepsBooks, Books!Spec
=============================================================================
