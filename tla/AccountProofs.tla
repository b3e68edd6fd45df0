----------------------------- MODULE AccountProofs -----------------------------
(***************************************************************************)
(* Proofs about Settings, for any assets, months, amounts and number of    *)
(* requests; about Account, which behaves as Settings does; and about the  *)
(* pads, the baselines and the sign-ins of an account.                     *)
(***************************************************************************)
EXTENDS Account, Counting, FiniteSetTheorems, TLAPS

-----------------------------------------------------------------------------
(* Type correctness *)

LEMMA ConstantTypes ==
  /\ NoRow \in RowType
  /\ Unread \in LedgerType
  /\ Unread.plans \in [Month -> PlanType]
<1>1. 0 \in Rupees
  BY SettingsAssumption DEF Rupees
<1>2. [a \in Asset |-> 0] \in [Asset -> Rupees]
  BY <1>1
<1>3. NoPlan \in PlanType
  BY <1>1, <1>2 DEF NoPlan, PlanType
<1>4. NoRow \in RowType
  BY <1>1, <1>2 DEF NoRow, RowType
<1>5. Unread.plans \in [Month -> PlanType]
  BY <1>3 DEF Unread
<1>6. Unread.opening \in [Asset -> Rupees]
  BY <1>2 DEF Unread, NoRow
<1> QED BY <1>4, <1>5, <1>6 DEF Unread, LedgerType

LEMMA InitTypeOK == Init => TypeOK
  BY ConstantTypes DEF Init, TypeOK, RowKind, LedgerKind

\* What ends a request leaves types alone.
LEMMA EndTypeOK ==
  ASSUME TypeOK, NEW r \in Request, End(r)
  PROVE  /\ lock' \in Request \cup {None}
         /\ pc' \in [Request -> {"idle", "find", "default", "lock", "read", "write"}]
         /\ kind' \in [Request -> RowKind \cup LedgerKind]
         /\ cur' \in [Request -> RowType]
         /\ seen' \in [Request -> LedgerType]
  BY ConstantTypes DEF End, TypeOK

LEMMA UpsertType ==
  ASSUME TypeOK, NEW new \in RowType
  PROVE  /\ Upsert(new) \in RowType
         /\ Upsert(new).opening = new.opening
         /\ Upsert(new).exists
<1>1. row.token \in Token \cup {None} /\ new.token \in Token \cup {None}
  BY DEF TypeOK, RowType
<1>2. PICK t \in Token \cup {None} : Upsert(new) = [new EXCEPT !.exists = TRUE, !.token = t]
  BY <1>1 DEF Upsert
<1> QED BY <1>2 DEF RowType

LEMMA AfterType ==
  ASSUME NEW r \in Request
  PROVE  After(r) \in {"lock", "read", "write"}
  BY DEF After

LEMMA NextTypeOK == TypeOK /\ [Next]_vars => TypeOK'
<1> SUFFICES ASSUME TypeOK, [Next]_vars
             PROVE  TypeOK'
  OBVIOUS
<1>1. ASSUME NEW r \in Request, Begin(r) PROVE TypeOK'
  BY <1>1 DEF Begin, TypeOK
<1>2. ASSUME NEW r \in Request, Find(r) PROVE TypeOK'
  <2>1. UNCHANGED <<row, plans, sales>>
    BY <1>2 DEF Find
  <2>2. CASE End(r)
    BY <2>1, <2>2, EndTypeOK DEF TypeOK
  <2>3. CASE /\ cur' = [cur EXCEPT ![r] = row]
             /\ pc' = [pc EXCEPT ![r] = After(r)]
             /\ UNCHANGED <<lock, kind, seen>>
    BY <2>1, <2>3, AfterType DEF TypeOK
  <2>4. CASE /\ pc' = [pc EXCEPT ![r] = "default"]
             /\ UNCHANGED <<lock, kind, cur, seen>>
    BY <2>1, <2>4 DEF TypeOK
  <2> QED BY <1>2, <2>2, <2>3, <2>4 DEF Find
<1>3. ASSUME NEW r \in Request, Default(r) PROVE TypeOK'
  <2>1. row' \in RowType /\ UNCHANGED <<plans, sales>>
    BY <1>3, ConstantTypes, UpsertType DEF Default
  <2>2. CASE End(r)
    BY <2>1, <2>2, EndTypeOK DEF TypeOK
  <2>3. CASE /\ cur' = [cur EXCEPT ![r] = row']
             /\ pc' = [pc EXCEPT ![r] = After(r)]
             /\ UNCHANGED <<lock, kind, seen>>
    BY <2>1, <2>3, AfterType DEF TypeOK
  <2> QED BY <1>3, <2>2, <2>3 DEF Default
<1>4. ASSUME NEW r \in Request, TakeLock(r) PROVE TypeOK'
  BY <1>4 DEF TakeLock, TypeOK
<1>5. ASSUME NEW r \in Request, Read(r) PROVE TypeOK'
  <2>1. Ledger \in LedgerType
    BY DEF Ledger, LedgerType, TypeOK, RowType
  <2> QED BY <1>5, <2>1 DEF Read, TypeOK
<1>6. ASSUME NEW r \in Request, Sell(r) PROVE TypeOK'
  <2>1. PICK a \in Asset, amount \in 1 .. MaxRupees, id \in Sale :
          sales' = sales \cup {[id |-> id, asset |-> a, amount |-> amount]}
    BY <1>6 DEF Sell
  <2>2. sales' \in SUBSET SaleType
    BY <2>1 DEF SaleType, TypeOK
  <2>3. UNCHANGED <<row, plans>> /\ End(r)
    BY <1>6 DEF Sell
  <2> QED BY <2>2, <2>3, EndTypeOK DEF TypeOK
<1>7. ASSUME NEW r \in Request, UndoSale(r) PROVE TypeOK'
  <2>1. sales' \subseteq sales /\ UNCHANGED <<row, plans>> /\ End(r)
    BY <1>7 DEF UndoSale
  <2> QED BY <2>1, EndTypeOK DEF TypeOK
<1>8. ASSUME NEW r \in Request, SavePlan(r) PROVE TypeOK'
  <2>1. plans' \in [Month -> PlanType] /\ UNCHANGED <<row, sales>> /\ End(r)
    BY <1>8 DEF SavePlan, TypeOK
  <2> QED BY <2>1, EndTypeOK DEF TypeOK
<1>9. ASSUME NEW r \in Request, SaveOpening(r) PROVE TypeOK'
  <2>1. PICK opening \in [Asset -> Rupees], deductions \in Rupees :
          row' = Upsert([cur[r] EXCEPT !.opening = opening, !.deductions = deductions])
    BY <1>9 DEF SaveOpening
  <2>2. [cur[r] EXCEPT !.opening = opening, !.deductions = deductions] \in RowType
    BY DEF TypeOK, RowType
  <2>3. UNCHANGED <<plans, sales>> /\ End(r)
    BY <1>9 DEF SaveOpening
  <2> QED BY <2>1, <2>2, <2>3, EndTypeOK, UpsertType DEF TypeOK
<1>10. ASSUME NEW r \in Request, SaveOther(r) PROVE TypeOK'
  <2>1. PICK deductions \in Rupees : row' = Upsert([cur[r] EXCEPT !.deductions = deductions])
    BY <1>10 DEF SaveOther
  <2>2. [cur[r] EXCEPT !.deductions = deductions] \in RowType
    BY DEF TypeOK, RowType
  <2>3. UNCHANGED <<plans, sales>> /\ End(r)
    BY <1>10 DEF SaveOther
  <2> QED BY <2>1, <2>2, <2>3, EndTypeOK, UpsertType DEF TypeOK
<1>11. ASSUME NEW r \in Request, DeductStash(r) PROVE TypeOK'
  <2> DEFINE new(amount) == [cur[r] EXCEPT !.deductions = @ + amount]
  <2>1. PICK amount \in Rupees : cur[r].deductions + amount \in Rupees /\ row' = Upsert(new(amount))
    BY <1>11 DEF DeductStash
  <2>2. new(amount) \in RowType
    <3>1. cur[r] \in RowType
      BY DEF TypeOK
    <3> DEFINE sum == cur[r].deductions + amount
    <3>2. new(amount) = [cur[r] EXCEPT !.deductions = sum]
      OBVIOUS
    <3>3. sum \in Rupees
      BY <2>1
    <3> HIDE DEF sum, new
    <3> QED BY <3>1, <3>2, <3>3 DEF RowType
  <2>3. UNCHANGED <<plans, sales>> /\ End(r)
    BY <1>11 DEF DeductStash
  <2> QED BY <2>1, <2>2, <2>3, EndTypeOK, UpsertType DEF TypeOK
<1>12. ASSUME NEW r \in Request, Abort(r) PROVE TypeOK'
  BY <1>12, EndTypeOK DEF Abort, TypeOK
<1>13. CASE Connect
  <2>1. row' \in RowType
    BY <1>13 DEF Connect, TypeOK, RowType
  <2>2. UNCHANGED <<plans, sales, lock, pc, kind, cur, seen>>
    BY <1>13 DEF Connect
  <2> QED BY <2>1, <2>2 DEF TypeOK
<1>14. CASE UNCHANGED vars
  BY <1>14 DEF vars, TypeOK
<1> QED
  BY <1>1, <1>2, <1>3, <1>4, <1>5, <1>6, <1>7, <1>8, <1>9, <1>10, <1>11, <1>12, <1>13, <1>14 DEF Next

\* Every variable keeps its type.
THEOREM TypeCorrect == Spec => []TypeOK
  BY InitTypeOK, NextTypeOK, PTL DEF Spec

-----------------------------------------------------------------------------
(* The inductive invariant *)

\* Who reads or writes under the lock holds it.
Locked(r) == kind[r] \in LedgerKind \cup {"opening"} /\ pc[r] \in {"read", "write"}
Holding == \A r \in Request : Locked(r) => lock = r

\* Only requests that rewrite the row look it up first.
Lookups == \A r \in Request : pc[r] \in {"find", "default"} => kind[r] \in RowKind

\* Requests that rewrite the row take turns.
OneWriter ==
    \A r, q \in Request :
        pc[r] # "idle" /\ pc[q] # "idle" /\ kind[r] \in RowKind /\ kind[q] \in RowKind => r = q

\* Their copy of the row has its opening balances.
CurFresh ==
    \A r \in Request :
        /\ kind[r] \in RowKind /\ pc[r] \in {"lock", "read", "write"} => cur[r].opening = row.opening
        /\ kind[r] \in RowKind /\ pc[r] = "default" => row.opening = NoRow.opening

\* A row that is not there counts as zero.
AbsentIsZero == ~row.exists => row.opening = NoRow.opening

\* Who is about to write under the lock has seen what is there.
SeenFresh ==
    \A r \in Request :
        kind[r] \in LedgerKind \cup {"opening"} /\ pc[r] = "write" => seen[r] = Ledger

PilesOf(S) == UNION {{s} \X (1 .. s.amount) : s \in S}
FiniteSales == IsFiniteSet(PilesOf(sales))

IInv ==
    /\ TypeOK
    /\ Holding
    /\ Lookups
    /\ OneWriter
    /\ CurFresh
    /\ AbsentIsZero
    /\ SeenFresh
    /\ FiniteSales
    /\ SalesCovered

-----------------------------------------------------------------------------
(* What the sums do *)

LEMMA BoughtType ==
  ASSUME NEW p \in [Month -> PlanType], NEW a \in Asset
  PROVE  Bought(p, a) \in Nat
<1> DEFINE R == UNION {{m} \X (1 .. p[m].bought[a]) : m \in Month}
<1>1. R \subseteq Month \X (1 .. MaxRupees)
  <2> SUFFICES ASSUME NEW m \in Month, NEW i \in 1 .. p[m].bought[a]
               PROVE  <<m, i>> \in Month \X (1 .. MaxRupees)
    OBVIOUS
  <2>1. p[m].bought[a] \in 0 .. MaxRupees
    BY DEF PlanType, Rupees
  <2>2. i \in 1 .. MaxRupees
    BY <2>1, SettingsAssumption
  <2> QED BY <2>2
<1>2. IsFiniteSet(1 .. MaxRupees)
  BY FS_Interval, SettingsAssumption
<1>3. IsFiniteSet(Month \X (1 .. MaxRupees))
  BY <1>2, FS_Product, SettingsAssumption
<1>4. IsFiniteSet(R)
  BY <1>1, <1>3, FS_Subset
<1>5. Cardinality(R) \in Nat
  BY <1>4, FS_CardinalityType
<1> QED BY <1>5 DEF Bought

\* Fewer sales count for less.
LEMMA SoldMonotone ==
  ASSUME NEW S, NEW T, S \subseteq T, IsFiniteSet(PilesOf(T)), NEW a
  PROVE  /\ IsFiniteSet(PilesOf(S))
         /\ Sold(S, a) \in Nat
         /\ Sold(T, a) \in Nat
         /\ Sold(S, a) <= Sold(T, a)
<1> DEFINE Piles(X) == UNION {{s} \X (1 .. s.amount) : s \in {x \in X : x.asset = a}}
<1>1. PilesOf(S) \subseteq PilesOf(T) /\ Piles(S) \subseteq Piles(T) /\ Piles(T) \subseteq PilesOf(T)
  BY DEF PilesOf
<1>2. IsFiniteSet(PilesOf(S)) /\ IsFiniteSet(Piles(T)) /\ IsFiniteSet(Piles(S))
  BY <1>1, FS_Subset
<1>3. Cardinality(Piles(S)) <= Cardinality(Piles(T))
  BY <1>1, <1>2, FS_Subset
<1>4. Cardinality(Piles(S)) \in Nat /\ Cardinality(Piles(T)) \in Nat
  BY <1>2, FS_CardinalityType
<1> QED BY <1>2, <1>3, <1>4 DEF Sold

\* One more sale counts for at most its amount, and for its asset only.
LEMMA SoldOneMore ==
  ASSUME NEW S, IsFiniteSet(PilesOf(S)), NEW e, e.amount \in Nat, NEW a
  PROVE  /\ IsFiniteSet(PilesOf(S \cup {e}))
         /\ Sold(S \cup {e}, a) \in Nat
         /\ Sold(S \cup {e}, a) <= Sold(S, a) + e.amount
         /\ e.asset # a => Sold(S \cup {e}, a) = Sold(S, a)
<1> DEFINE Piles(X) == UNION {{s} \X (1 .. s.amount) : s \in {x \in X : x.asset = a}}
           pile == {e} \X (1 .. e.amount)
<1>1. IsFiniteSet(pile) /\ Cardinality(pile) = e.amount
  BY PileCardinality
<1>2. Piles(S) \subseteq PilesOf(S)
  BY DEF PilesOf
<1>3. IsFiniteSet(Piles(S)) /\ Cardinality(Piles(S)) \in Nat
  BY <1>2, FS_Subset, FS_CardinalityType
<1>4. PilesOf(S \cup {e}) = PilesOf(S) \cup pile
  BY DEF PilesOf
<1>5. IsFiniteSet(PilesOf(S \cup {e}))
  <2>1. IsFiniteSet(PilesOf(S) \cup pile)
    <3> HIDE DEF pile
    <3> QED BY <1>1, UnionCardinality
  <2> QED BY <1>4, <2>1
<1>6. CASE e.asset = a
  <2>1. Piles(S \cup {e}) = Piles(S) \cup pile
    BY <1>6
  <2>2. Cardinality(Piles(S) \cup pile) \in Nat /\ Cardinality(Piles(S) \cup pile) <= Cardinality(Piles(S)) + e.amount
    <3> HIDE DEF Piles, pile
    <3> QED BY <1>1, <1>3, UnionCardinality
  <2> QED BY <1>5, <1>6, <2>1, <2>2 DEF Sold
<1>7. CASE e.asset # a
  <2>1. {x \in S \cup {e} : x.asset = a} = {x \in S : x.asset = a}
    BY <1>7
  <2>2. Sold(S \cup {e}, a) = Sold(S, a)
    BY <2>1 DEF Sold
  <2>3. Sold(S, a) \in Nat
    BY <1>3 DEF Sold
  <2> QED BY <1>5, <1>7, <2>2, <2>3
<1> QED BY <1>6, <1>7

-----------------------------------------------------------------------------
(* Locks and turns *)

LEMMA NextLookups == TypeOK /\ Lookups /\ [Next]_vars => Lookups'
<1> SUFFICES ASSUME TypeOK, Lookups, [Next]_vars, NEW p \in Request, pc'[p] \in {"find", "default"}
             PROVE  kind'[p] \in RowKind
  BY DEF Lookups
<1>0. pc[p] \in {"find", "default"} => kind[p] \in RowKind
  BY DEF Lookups
<1>1. ASSUME NEW r \in Request, Begin(r) PROVE kind'[p] \in RowKind
  BY <1>0, <1>1 DEF Begin, TypeOK
<1>2. ASSUME NEW r \in Request, End(r) PROVE kind'[p] \in RowKind
  BY <1>0, <1>2 DEF End, TypeOK
<1>3. ASSUME NEW r \in Request, Find(r) PROVE kind'[p] \in RowKind
  BY <1>0, <1>2, <1>3, AfterType DEF Find, TypeOK
<1>4. ASSUME NEW r \in Request, Default(r) PROVE kind'[p] \in RowKind
  BY <1>0, <1>2, <1>4, AfterType DEF Default, TypeOK
<1>5. ASSUME NEW r \in Request, TakeLock(r) \/ Read(r) PROVE kind'[p] \in RowKind
  BY <1>0, <1>5 DEF TakeLock, Read, TypeOK
<1>6. CASE Connect \/ UNCHANGED vars
  BY <1>0, <1>6 DEF Connect, vars
<1> QED
  BY <1>1, <1>2, <1>3, <1>4, <1>5, <1>6
  DEF Next, Sell, UndoSale, SavePlan, SaveOpening, SaveOther, DeductStash, Abort

LEMMA NextHolding == TypeOK /\ Lookups /\ Holding /\ [Next]_vars => Holding'
<1> SUFFICES ASSUME TypeOK, Lookups, Holding, [Next]_vars, NEW p \in Request, Locked(p)'
             PROVE  lock' = p
  BY DEF Holding
<1> USE SettingsAssumption
<1>0. /\ Locked(p) => lock = p
      /\ kind'[p] \in LedgerKind \cup {"opening"}
      /\ pc'[p] \in {"read", "write"}
  BY DEF Holding, Locked
<1>1. ASSUME NEW r \in Request, Begin(r) PROVE lock' = p
  BY <1>0, <1>1 DEF Begin, TypeOK, Locked
<1>2. ASSUME NEW r \in Request, End(r) PROVE lock' = p
  BY <1>0, <1>2 DEF End, TypeOK, Locked
<1>3. ASSUME NEW r \in Request, kind[r] \in RowKind,
             pc' = [pc EXCEPT ![r] = After(r)], UNCHANGED <<lock, kind>>
      PROVE  lock' = p
  <2>1. p # r
    <3>1. ASSUME p = r PROVE FALSE
      <4>1. kind[r] = "opening"
        BY <1>0, <1>3, <3>1 DEF LedgerKind, RowKind
      <4>2. pc'[r] = "lock"
        BY <1>3, <4>1 DEF After, TypeOK
      <4> QED BY <1>0, <3>1, <4>2
    <3> QED BY <3>1
  <2> QED BY <1>0, <1>3, <2>1 DEF Locked, TypeOK
<1>4. ASSUME NEW r \in Request, Find(r) PROVE lock' = p
  <2>1. kind[r] \in RowKind
    BY <1>4 DEF Find, Lookups
  <2>2. CASE pc' = [pc EXCEPT ![r] = "default"] /\ UNCHANGED <<lock, kind>>
    BY <1>0, <2>2 DEF Locked, TypeOK
  <2> QED BY <1>2, <1>3, <1>4, <2>1, <2>2 DEF Find
<1>5. ASSUME NEW r \in Request, Default(r) PROVE lock' = p
  <2>1. kind[r] \in RowKind
    BY <1>5 DEF Default, Lookups
  <2> QED BY <1>2, <1>3, <1>5, <2>1 DEF Default
<1>6. ASSUME NEW r \in Request, TakeLock(r) PROVE lock' = p
  BY <1>0, <1>6 DEF TakeLock, TypeOK, Locked
<1>7. ASSUME NEW r \in Request, Read(r) PROVE lock' = p
  BY <1>0, <1>7 DEF Read, TypeOK, Locked
<1>8. CASE Connect \/ UNCHANGED vars
  BY <1>0, <1>8 DEF Connect, vars, Locked
<1> QED
  BY <1>1, <1>2, <1>4, <1>5, <1>6, <1>7, <1>8
  DEF Next, Sell, UndoSale, SavePlan, SaveOpening, SaveOther, DeductStash, Abort

LEMMA NextOneWriter == Exclusive /\ TypeOK /\ OneWriter /\ [Next]_vars => OneWriter'
<1> SUFFICES ASSUME Exclusive, TypeOK, OneWriter, [Next]_vars,
                    NEW p \in Request, NEW q \in Request,
                    pc'[p] # "idle", pc'[q] # "idle", kind'[p] \in RowKind, kind'[q] \in RowKind
             PROVE  p = q
  BY DEF OneWriter
<1>0. pc[p] # "idle" /\ pc[q] # "idle" /\ kind[p] \in RowKind /\ kind[q] \in RowKind => p = q
  BY DEF OneWriter
<1>1. ASSUME NEW r \in Request, Begin(r) PROVE p = q
  <2>1. PICK k \in RowKind \cup LedgerKind :
          /\ k \in RowKind => ~Busy
          /\ kind' = [kind EXCEPT ![r] = k]
          /\ pc' = [pc EXCEPT ![r] = IF k \in RowKind THEN "find" ELSE "lock"]
    BY <1>1 DEF Begin
  <2>2. ASSUME p # r, q # r PROVE p = q
    BY <1>0, <2>1, <2>2 DEF TypeOK
  <2>3. ASSUME NEW s \in Request, s # r, pc'[s] # "idle", kind'[s] \in RowKind, k \in RowKind
        PROVE  FALSE
    BY <2>1, <2>3 DEF Busy, TypeOK
  <2>4. kind'[r] \in RowKind => k \in RowKind
    BY <2>1 DEF TypeOK
  <2> QED BY <2>2, <2>3, <2>4
<1>2. ASSUME \A s \in Request : kind'[s] = kind[s] /\ (pc'[s] # "idle" => pc[s] # "idle")
      PROVE  p = q
  BY <1>0, <1>2
<1>3. ASSUME NEW r \in Request, End(r) PROVE p = q
  BY <1>2, <1>3 DEF End, TypeOK
<1>4. ASSUME NEW r \in Request, Find(r) PROVE p = q
  BY <1>2, <1>3, <1>4 DEF Find, TypeOK
<1>5. ASSUME NEW r \in Request, Default(r) PROVE p = q
  BY <1>2, <1>3, <1>5 DEF Default, TypeOK
<1>6. ASSUME NEW r \in Request, TakeLock(r) \/ Read(r) PROVE p = q
  BY <1>2, <1>6 DEF TakeLock, Read, TypeOK
<1>7. CASE Connect \/ UNCHANGED vars
  BY <1>2, <1>7 DEF Connect, vars
<1> QED
  BY <1>1, <1>3, <1>4, <1>5, <1>6, <1>7
  DEF Next, Sell, UndoSale, SavePlan, SaveOpening, SaveOther, DeductStash, Abort

-----------------------------------------------------------------------------
(* Who changes the opening balances *)

\* Whoever writes the row without the lock writes the opening balances that
\* are there.
LEMMA UnlockedKeepOpening ==
  ASSUME TypeOK, Lookups, CurFresh, NEW r \in Request, Default(r) \/ SaveOther(r) \/ DeductStash(r)
  PROVE  row'.opening = row.opening /\ row'.exists
<1>1. CASE Default(r)
  <2>1. row.opening = NoRow.opening
    BY <1>1 DEF Default, Lookups, CurFresh
  <2> QED BY <1>1, <2>1, ConstantTypes, UpsertType DEF Default
<1>2. CASE SaveOther(r)
  <2>1. PICK sum \in Rupees : row' = Upsert([cur[r] EXCEPT !.deductions = sum])
    BY <1>2 DEF SaveOther
  <2>2. /\ [cur[r] EXCEPT !.deductions = sum] \in RowType
        /\ [cur[r] EXCEPT !.deductions = sum].opening = cur[r].opening
    BY DEF TypeOK, RowType
  <2>3. cur[r].opening = row.opening
    BY <1>2 DEF SaveOther, Writes, CurFresh, RowKind
  <2> QED BY <2>1, <2>2, <2>3, UpsertType
<1>3. CASE DeductStash(r)
  <2> DEFINE new(amount) == [cur[r] EXCEPT !.deductions = @ + amount]
  <2>1. PICK amount \in Rupees : cur[r].deductions + amount \in Rupees /\ row' = Upsert(new(amount))
    BY <1>3 DEF DeductStash
  <2>2. new(amount) \in RowType /\ new(amount).opening = cur[r].opening
    <3>1. cur[r] \in RowType
      BY DEF TypeOK
    <3> DEFINE sum == cur[r].deductions + amount
    <3>2. new(amount) = [cur[r] EXCEPT !.deductions = sum]
      OBVIOUS
    <3>3. sum \in Rupees
      BY <2>1
    <3> HIDE DEF sum, new
    <3> QED BY <3>1, <3>2, <3>3 DEF RowType
  <2>3. cur[r].opening = row.opening
    BY <1>3 DEF DeductStash, Writes, CurFresh, RowKind
  <2> HIDE DEF new
  <2> QED BY <2>1, <2>2, <2>3, UpsertType
<1> QED BY <1>1, <1>2, <1>3

LEMMA NextRow ==
  Exclusive /\ TypeOK /\ Lookups /\ OneWriter /\ CurFresh /\ AbsentIsZero /\ [Next]_vars
    => CurFresh' /\ AbsentIsZero'
<1> SUFFICES ASSUME Exclusive, TypeOK, Lookups, OneWriter, CurFresh, AbsentIsZero, [Next]_vars
             PROVE  CurFresh' /\ AbsentIsZero'
  OBVIOUS
<1>1. ASSUME NEW r \in Request, End(r), row'.opening = row.opening
      PROVE  CurFresh'
  BY <1>1 DEF End, TypeOK, CurFresh
<1>2. ASSUME UNCHANGED row PROVE AbsentIsZero'
  BY <1>2 DEF AbsentIsZero
<1>3. ASSUME NEW r \in Request, Begin(r) PROVE CurFresh' /\ AbsentIsZero'
  <2>1. CurFresh'
    <3> SUFFICES ASSUME NEW p \in Request, p # r
                 PROVE  pc'[p] = pc[p] /\ kind'[p] = kind[p]
      BY <1>3 DEF Begin, TypeOK, CurFresh
    <3> QED BY <1>3 DEF Begin, TypeOK
  <2> QED BY <1>2, <1>3, <2>1 DEF Begin
<1>4. ASSUME NEW r \in Request, Find(r) PROVE CurFresh' /\ AbsentIsZero'
  <2>1. UNCHANGED row
    BY <1>4 DEF Find
  <2>2. CASE End(r)
    BY <1>1, <1>2, <2>1, <2>2
  <2>3. CASE /\ cur' = [cur EXCEPT ![r] = row]
             /\ pc' = [pc EXCEPT ![r] = After(r)]
             /\ UNCHANGED <<lock, kind, seen>>
    BY <1>2, <2>1, <2>3, AfterType DEF TypeOK, CurFresh
  <2>4. CASE /\ ~row.exists
             /\ pc' = [pc EXCEPT ![r] = "default"]
             /\ UNCHANGED <<lock, kind, cur, seen>>
    BY <1>2, <2>1, <2>4 DEF TypeOK, CurFresh, AbsentIsZero
  <2> QED BY <1>4, <2>2, <2>3, <2>4 DEF Find
<1>5. ASSUME NEW r \in Request, Default(r) PROVE CurFresh' /\ AbsentIsZero'
  <2>1. row'.opening = row.opening /\ row'.exists
    BY <1>5, UnlockedKeepOpening
  <2>2. CASE End(r)
    BY <1>1, <2>1, <2>2 DEF AbsentIsZero
  <2>3. CASE /\ cur' = [cur EXCEPT ![r] = row']
             /\ pc' = [pc EXCEPT ![r] = After(r)]
             /\ UNCHANGED <<lock, kind, seen>>
    BY <2>1, <2>3, AfterType DEF TypeOK, CurFresh, AbsentIsZero
  <2> QED BY <1>5, <2>2, <2>3 DEF Default
<1>6. ASSUME NEW r \in Request, TakeLock(r) \/ Read(r) PROVE CurFresh' /\ AbsentIsZero'
  BY <1>2, <1>6 DEF TakeLock, Read, TypeOK, CurFresh
<1>7. ASSUME NEW r \in Request, SaveOther(r) \/ DeductStash(r) PROVE CurFresh' /\ AbsentIsZero'
  <2>1. row'.opening = row.opening /\ row'.exists
    BY <1>7, UnlockedKeepOpening
  <2>2. End(r)
    BY <1>7 DEF SaveOther, DeductStash
  <2> QED BY <1>1, <2>1, <2>2 DEF AbsentIsZero
<1>8. ASSUME NEW r \in Request, SaveOpening(r) PROVE CurFresh' /\ AbsentIsZero'
  <2>1. PICK opening \in [Asset -> Rupees], deductions \in Rupees :
          row' = Upsert([cur[r] EXCEPT !.opening = opening, !.deductions = deductions])
    BY <1>8 DEF SaveOpening
  <2>2. [cur[r] EXCEPT !.opening = opening, !.deductions = deductions] \in RowType
    BY DEF TypeOK, RowType
  <2>3. row'.exists
    BY <2>1, <2>2, UpsertType
  <2>4. CurFresh'
    <3> SUFFICES ASSUME NEW p \in Request, pc'[p] # "idle", kind'[p] \in RowKind PROVE FALSE
      BY DEF CurFresh
    <3>1. pc[r] = "write" /\ kind[r] \in RowKind /\ End(r)
      BY <1>8 DEF SaveOpening, Writes, RowKind
    <3>2. p # r /\ pc[p] # "idle" /\ kind[p] \in RowKind
      BY <3>1 DEF End, TypeOK
    <3> QED BY <3>1, <3>2 DEF OneWriter
  <2> QED BY <2>3, <2>4 DEF AbsentIsZero
<1>9. ASSUME NEW r \in Request, Sell(r) \/ UndoSale(r) \/ SavePlan(r) \/ Abort(r)
      PROVE  CurFresh' /\ AbsentIsZero'
  <2>1. End(r) /\ UNCHANGED row
    BY <1>9 DEF Sell, UndoSale, SavePlan, Abort
  <2> QED BY <1>1, <1>2, <2>1
<1>10. CASE Connect
  <2>1. row'.exists /\ row'.opening = row.opening /\ UNCHANGED <<pc, kind, cur>>
    BY <1>10 DEF Connect, TypeOK, RowType
  <2> QED BY <2>1 DEF CurFresh, AbsentIsZero
<1>11. CASE UNCHANGED vars
  BY <1>2, <1>11 DEF vars, CurFresh
<1> QED
  BY <1>3, <1>4, <1>5, <1>6, <1>7, <1>8, <1>9, <1>10, <1>11 DEF Next

-----------------------------------------------------------------------------
(* What is there changes only under the lock *)

LEMMA NextLedger ==
  ASSUME Exclusive, TypeOK, Lookups, OneWriter, CurFresh, [Next]_vars
  PROVE  \/ Ledger' = Ledger
         \/ \E r \in Request : Sell(r) \/ UndoSale(r) \/ SavePlan(r) \/ SaveOpening(r)
<1>1. ASSUME NEW r \in Request, Default(r) \/ SaveOther(r) \/ DeductStash(r) PROVE Ledger' = Ledger
  <2>1. row'.opening = row.opening
    BY <1>1, UnlockedKeepOpening
  <2>2. UNCHANGED <<plans, sales>>
    BY <1>1 DEF Default, SaveOther, DeductStash
  <2> QED BY <2>1, <2>2 DEF Ledger
<1>2. ASSUME UNCHANGED <<row, plans, sales>> PROVE Ledger' = Ledger
  BY <1>2 DEF Ledger
<1>3. CASE Connect
  <2>1. row'.opening = row.opening /\ UNCHANGED <<plans, sales>>
    BY <1>3 DEF Connect, TypeOK, RowType
  <2> QED BY <2>1 DEF Ledger
<1> QED
  BY <1>1, <1>2, <1>3 DEF Next, vars, Begin, Find, TakeLock, Read, Abort

LEMMA NextSeenFresh ==
  Exclusive /\ TypeOK /\ Lookups /\ Holding /\ OneWriter /\ CurFresh /\ SeenFresh /\ [Next]_vars
    => SeenFresh'
<1> SUFFICES ASSUME Exclusive, TypeOK, Lookups, Holding, OneWriter, CurFresh, SeenFresh, [Next]_vars,
                    NEW p \in Request, kind'[p] \in LedgerKind \cup {"opening"}, pc'[p] = "write"
             PROVE  seen'[p] = Ledger'
  BY DEF SeenFresh
<1>0. ASSUME pc[p] = "write", kind'[p] = kind[p]
      PROVE  lock = p /\ seen[p] = Ledger
  BY <1>0 DEF Holding, Locked, SeenFresh
<1>1. CASE Ledger' = Ledger
  <2>1. ASSUME pc[p] = "write", kind'[p] = kind[p], seen'[p] = seen[p] PROVE seen'[p] = Ledger'
    BY <1>0, <1>1, <2>1
  <2>2. ASSUME NEW r \in Request, Begin(r) PROVE seen'[p] = Ledger'
    BY <2>1, <2>2 DEF Begin, TypeOK
  <2>3. ASSUME NEW r \in Request, End(r) PROVE seen'[p] = Ledger'
    BY <2>1, <2>3 DEF End, TypeOK
  <2>4. ASSUME NEW r \in Request, kind[r] \in RowKind,
               pc' = [pc EXCEPT ![r] = After(r)], UNCHANGED <<lock, kind, seen>>
        PROVE  seen'[p] = Ledger'
    <3>1. ASSUME p = r PROVE FALSE
      <4>1. kind[r] = "opening"
        BY <2>4, <3>1 DEF LedgerKind, RowKind
      <4>2. pc'[r] = "lock"
        BY <2>4, <4>1 DEF After, TypeOK
      <4> QED BY <3>1, <4>2
    <3> QED BY <2>1, <2>4, <3>1 DEF TypeOK
  <2>5. ASSUME NEW r \in Request, Find(r) PROVE seen'[p] = Ledger'
    <3>1. kind[r] \in RowKind
      BY <2>5 DEF Find, Lookups
    <3>2. CASE pc' = [pc EXCEPT ![r] = "default"] /\ UNCHANGED <<lock, kind, cur, seen>>
      BY <2>1, <3>2 DEF TypeOK
    <3> QED BY <2>3, <2>4, <2>5, <3>1, <3>2 DEF Find
  <2>6. ASSUME NEW r \in Request, Default(r) PROVE seen'[p] = Ledger'
    <3>1. kind[r] \in RowKind
      BY <2>6 DEF Default, Lookups
    <3> QED BY <2>3, <2>4, <2>6, <3>1 DEF Default
  <2>7. ASSUME NEW r \in Request, TakeLock(r) PROVE seen'[p] = Ledger'
    BY <2>1, <2>7 DEF TakeLock, TypeOK
  <2>8. ASSUME NEW r \in Request, Read(r) PROVE seen'[p] = Ledger'
    <3>1. CASE p = r
      BY <1>1, <2>8, <3>1 DEF Read, TypeOK
    <3>2. CASE p # r
      BY <2>1, <2>8, <3>2 DEF Read, TypeOK
    <3> QED BY <3>1, <3>2
  <2>9. CASE Connect \/ UNCHANGED vars
    BY <2>1, <2>9 DEF Connect, vars
  <2> QED
    BY <2>2, <2>3, <2>5, <2>6, <2>7, <2>8, <2>9
    DEF Next, Sell, UndoSale, SavePlan, SaveOpening, SaveOther, DeductStash, Abort
<1>2. ASSUME NEW r \in Request, Sell(r) \/ UndoSale(r) \/ SavePlan(r) \/ SaveOpening(r)
      PROVE  seen'[p] = Ledger'
  <2>1. End(r) /\ Locked(r)
    BY <1>2 DEF Sell, UndoSale, SavePlan, SaveOpening, Writes, Locked, LedgerKind
  <2>2. lock = r
    BY <2>1 DEF Holding
  <2>3. p # r /\ pc[p] = "write" /\ kind'[p] = kind[p]
    BY <2>1 DEF End, TypeOK
  <2> QED BY <1>0, <2>2, <2>3
<1> QED BY <1>1, <1>2, NextLedger

-----------------------------------------------------------------------------
(* The theorem *)

LEMMA NextSales ==
  ASSUME Exclusive, TypeOK, Lookups, OneWriter, CurFresh, SeenFresh, FiniteSales, SalesCovered,
         [Next]_vars
  PROVE  FiniteSales' /\ SalesCovered'
<1> USE DEF SalesCovered, Covered
<1>1. CASE Ledger' = Ledger
  <2>1. sales' = sales
    BY <1>1 DEF Ledger
  <2> QED BY <1>1, <2>1 DEF FiniteSales, Balance
<1>2. ASSUME NEW r \in Request, Sell(r) PROVE FiniteSales' /\ SalesCovered'
  <2>1. PICK a \in Asset, amount \in 1 .. MaxRupees, id \in Sale :
          /\ amount <= Balance(seen[r], a)
          /\ sales' = sales \cup {[id |-> id, asset |-> a, amount |-> amount]}
    BY <1>2 DEF Sell
  <2>2. seen[r] = Ledger /\ UNCHANGED <<row, plans>>
    BY <1>2 DEF Sell, Writes, SeenFresh, LedgerKind
  <2> DEFINE e == [id |-> id, asset |-> a, amount |-> amount]
  <2>3. e.amount \in Nat /\ e.asset = a /\ e.amount = amount
    BY SettingsAssumption
  <2>4. \A b : /\ IsFiniteSet(PilesOf(sales \cup {e}))
               /\ Sold(sales \cup {e}, b) \in Nat
               /\ Sold(sales \cup {e}, b) <= Sold(sales, b) + e.amount
               /\ e.asset # b => Sold(sales \cup {e}, b) = Sold(sales, b)
    BY <2>3, SoldOneMore DEF FiniteSales
  <2>5. FiniteSales'
    BY <2>1, <2>4 DEF FiniteSales
  <2>6. ASSUME NEW b \in Asset PROVE Balance(Ledger', b) >= 0
    <3>1. /\ row.opening[b] \in Nat
          /\ Bought(plans, b) \in Nat
          /\ Sold(sales, b) \in Nat
      <4>1. row.opening[b] \in Rupees
        BY DEF TypeOK, RowType
      <4> QED BY <4>1, BoughtType, SoldMonotone, SettingsAssumption DEF TypeOK, FiniteSales, Rupees
    <3>2. Balance(Ledger, b) >= 0 /\ Balance(Ledger, b) = row.opening[b] + Bought(plans, b) - Sold(sales, b)
      BY DEF Ledger, Balance
    <3>3. Balance(Ledger', b) = row.opening[b] + Bought(plans, b) - Sold(sales', b)
      BY <2>2 DEF Ledger, Balance
    <3>4. CASE b = a
      <4>1. amount <= row.opening[b] + Bought(plans, b) - Sold(sales, b)
        BY <2>1, <2>2, <3>2, <3>4
      <4>2. Sold(sales', b) \in Nat /\ Sold(sales', b) <= Sold(sales, b) + amount
        BY <2>1, <2>3, <2>4
      <4> QED BY <2>3, <3>1, <3>3, <4>1, <4>2
    <3>5. CASE b # a
      <4>1. Sold(sales', b) = Sold(sales, b)
        BY <2>1, <2>3, <2>4, <3>5
      <4> QED BY <3>2, <3>3, <4>1
    <3> QED BY <3>4, <3>5
  <2> QED BY <2>5, <2>6
<1>3. ASSUME NEW r \in Request, UndoSale(r) PROVE FiniteSales' /\ SalesCovered'
  <2>1. sales' \subseteq sales /\ UNCHANGED <<row, plans>>
    BY <1>3 DEF UndoSale
  <2>2. FiniteSales'
    BY <2>1, SoldMonotone DEF FiniteSales
  <2>3. ASSUME NEW b \in Asset PROVE Balance(Ledger', b) >= 0
    <3>1. /\ row.opening[b] \in Nat
          /\ Bought(plans, b) \in Nat
      <4>1. row.opening[b] \in Rupees
        BY DEF TypeOK, RowType
      <4> QED BY <4>1, BoughtType, SettingsAssumption DEF TypeOK, Rupees
    <3>2. /\ Sold(sales', b) \in Nat
          /\ Sold(sales, b) \in Nat
          /\ Sold(sales', b) <= Sold(sales, b)
      BY <2>1, SoldMonotone DEF FiniteSales
    <3>3. row.opening[b] + Bought(plans, b) - Sold(sales, b) >= 0
      BY DEF Ledger, Balance
    <3>4. Balance(Ledger', b) = row.opening[b] + Bought(plans, b) - Sold(sales', b)
      BY <2>1 DEF Ledger, Balance
    <3> QED BY <3>1, <3>2, <3>3, <3>4
  <2> QED BY <2>2, <2>3
<1>4. ASSUME NEW r \in Request, SavePlan(r) PROVE FiniteSales' /\ SalesCovered'
  <2>1. PICK m \in Month, plan \in PlanType :
          /\ Covered([seen[r] EXCEPT !.plans[m] = plan])
          /\ plans' = [plans EXCEPT ![m] = plan]
    BY <1>4 DEF SavePlan
  <2>2. seen[r] = Ledger /\ UNCHANGED <<row, sales>>
    BY <1>4 DEF SavePlan, Writes, SeenFresh, LedgerKind
  <2>3. Ledger' = [Ledger EXCEPT !.plans[m] = plan]
    BY <2>1, <2>2 DEF Ledger
  <2> QED BY <2>1, <2>2, <2>3 DEF FiniteSales
<1>5. ASSUME NEW r \in Request, SaveOpening(r) PROVE FiniteSales' /\ SalesCovered'
  <2>1. PICK opening \in [Asset -> Rupees], deductions \in Rupees :
          /\ Covered([seen[r] EXCEPT !.opening = opening])
          /\ row' = Upsert([cur[r] EXCEPT !.opening = opening, !.deductions = deductions])
    BY <1>5 DEF SaveOpening
  <2>2. seen[r] = Ledger /\ UNCHANGED <<plans, sales>>
    BY <1>5 DEF SaveOpening, Writes, SeenFresh
  <2>3. /\ [cur[r] EXCEPT !.opening = opening, !.deductions = deductions] \in RowType
        /\ [cur[r] EXCEPT !.opening = opening, !.deductions = deductions].opening = opening
    BY DEF TypeOK, RowType
  <2>4. row'.opening = opening
    BY <2>1, <2>3, UpsertType
  <2>5. Ledger' = [Ledger EXCEPT !.opening = opening]
    BY <2>2, <2>4 DEF Ledger
  <2> QED BY <2>1, <2>2, <2>5 DEF FiniteSales
<1> QED BY <1>1, <1>2, <1>3, <1>4, <1>5, NextLedger

LEMMA InitIInv == Init => IInv
<1> SUFFICES ASSUME Init PROVE IInv
  OBVIOUS
<1>1. Holding /\ Lookups /\ OneWriter /\ CurFresh /\ AbsentIsZero /\ SeenFresh
  BY DEF Init, Holding, Locked, Lookups, OneWriter, CurFresh, AbsentIsZero, SeenFresh
<1>2. TypeOK
  BY InitTypeOK
<1>3. PilesOf(sales) = {} /\ \A a : Sold(sales, a) = 0
  <2>1. \A a : {x \in sales : x.asset = a} = {}
    BY DEF Init
  <2>2. \A a : UNION {{s} \X (1 .. s.amount) : s \in {x \in sales : x.asset = a}} = {}
    BY <2>1
  <2> QED BY <2>2, FS_EmptySet DEF Init, PilesOf, Sold
<1>4. FiniteSales
  BY <1>3, FS_EmptySet DEF FiniteSales
<1>5. ASSUME NEW a \in Asset PROVE Balance(Ledger, a) >= 0
  <2>1. row.opening[a] \in Nat /\ Bought(plans, a) \in Nat
    <3>1. row.opening[a] \in Rupees
      BY <1>2 DEF TypeOK, RowType
    <3> QED BY <1>2, <3>1, BoughtType, SettingsAssumption DEF TypeOK, Rupees
  <2> QED BY <1>3, <2>1 DEF Balance, Ledger
<1> QED BY <1>1, <1>2, <1>4, <1>5 DEF IInv, SalesCovered, Covered

LEMMA NextIInv == Exclusive /\ IInv /\ [Next]_vars => IInv'
<1> SUFFICES ASSUME Exclusive, IInv, [Next]_vars PROVE IInv'
  OBVIOUS
<1>1. FiniteSales' /\ SalesCovered'
  BY NextSales DEF IInv
<1> QED
  BY <1>1, NextTypeOK, NextHolding, NextLookups, NextOneWriter, NextRow, NextSeenFresh DEF IInv

\* If requests that rewrite the settings row take turns, no more rupees of an
\* asset are sold than there are, however sales, undos and plans meet them.
THEOREM SalesCoveredInTurns == Exclusive /\ Spec => []SalesCovered
<1>1. Exclusive => Exclusive'
  OBVIOUS
<1>2. IInv => SalesCovered
  BY DEF IInv
<1> QED BY <1>1, <1>2, InitIInv, NextIInv, PTL DEF Spec

-----------------------------------------------------------------------------
(* The token and the deductions *)

\* What an upsert makes of a token, and of deductions.
LEMMA UpsertColumns ==
  ASSUME TypeOK, NEW new \in RowType
  PROVE  /\ Upsert(new).deductions = new.deductions
         /\ row.token # None => Upsert(new).token # None
<1>1. row.token \in Token \cup {None} /\ new.token \in Token \cup {None}
  BY DEF TypeOK, RowType
<1>2. PICK t \in Token \cup {None} :
        /\ Upsert(new) = [new EXCEPT !.exists = TRUE, !.token = t]
        /\ t = IF new.token = None THEN row.token ELSE new.token
  BY <1>1 DEF Upsert
<1> QED BY <1>2 DEF RowType

\* What each step that writes the row writes.
LEMMA RowWrites ==
  ASSUME TypeOK, NEW r \in Request,
         Default(r) \/ SaveOpening(r) \/ SaveOther(r) \/ DeductStash(r)
  PROVE  \E new \in RowType :
           /\ row' = Upsert(new)
           /\ Default(r) => new = NoRow
           /\ DeductStash(r) => new.deductions >= cur[r].deductions /\ new.opening = cur[r].opening
<1>1. CASE Default(r)
  BY <1>1, ConstantTypes DEF Default, SaveOpening, SaveOther, DeductStash, Writes
<1>2. CASE SaveOpening(r)
  <2>1. PICK opening \in [Asset -> Rupees], deductions \in Rupees :
          row' = Upsert([cur[r] EXCEPT !.opening = opening, !.deductions = deductions])
    BY <1>2 DEF SaveOpening
  <2>2. [cur[r] EXCEPT !.opening = opening, !.deductions = deductions] \in RowType
    BY DEF TypeOK, RowType
  <2>3. ~Default(r) /\ ~DeductStash(r)
    BY <1>2 DEF Default, SaveOpening, DeductStash, Writes
  <2> QED BY <2>1, <2>2, <2>3
<1>3. CASE SaveOther(r)
  <2>1. PICK sum \in Rupees : row' = Upsert([cur[r] EXCEPT !.deductions = sum])
    BY <1>3 DEF SaveOther
  <2>2. [cur[r] EXCEPT !.deductions = sum] \in RowType
    BY DEF TypeOK, RowType
  <2>3. ~Default(r) /\ ~DeductStash(r)
    BY <1>3 DEF Default, SaveOther, DeductStash, Writes
  <2> QED BY <2>1, <2>2, <2>3
<1>4. CASE DeductStash(r)
  <2> DEFINE new(amount) == [cur[r] EXCEPT !.deductions = @ + amount]
  <2>1. PICK amount \in Rupees : cur[r].deductions + amount \in Rupees /\ row' = Upsert(new(amount))
    BY <1>4 DEF DeductStash
  <2>2. /\ new(amount) \in RowType
        /\ new(amount).opening = cur[r].opening
        /\ new(amount).deductions >= cur[r].deductions
    <3>1. cur[r] \in RowType
      BY DEF TypeOK
    <3> DEFINE sum == cur[r].deductions + amount
    <3>2. new(amount) = [cur[r] EXCEPT !.deductions = sum]
      OBVIOUS
    <3>3. sum \in Rupees /\ sum >= cur[r].deductions
      BY <2>1, <3>1, SettingsAssumption DEF RowType, Rupees
    <3> HIDE DEF sum, new
    <3> QED BY <3>1, <3>2, <3>3 DEF RowType
  <2>3. ~Default(r)
    BY <1>4 DEF Default, DeductStash, Writes
  <2> HIDE DEF new
  <2> QED BY <2>1, <2>2, <2>3
<1> QED BY <1>1, <1>2, <1>3, <1>4

\* Everything else leaves it alone, or puts a token in.
LEMMA RowKept ==
  ASSUME TypeOK, [Next]_vars
  PROVE  \/ row' = row
         \/ row' \in RowType /\ row'.deductions = row.deductions /\ row'.token # None /\ Connect
         \/ \E r \in Request : Default(r) \/ SaveOpening(r) \/ SaveOther(r) \/ DeductStash(r)
<1>1. CASE Connect
  <2>1. PICK t \in Token : row' = [row EXCEPT !.exists = TRUE, !.token = t]
    BY <1>1 DEF Connect
  <2>2. t # None
    BY SettingsAssumption
  <2> QED BY <1>1, <2>1, <2>2 DEF TypeOK, RowType
<1> QED
  BY <1>1 DEF Next, vars, Begin, Find, TakeLock, Read, Sell, UndoSale, SavePlan, Abort

\* No write of the row, stale or not, takes its Gmail token away.
THEOREM TokensAreKept == Spec => TokenNeverErased
<1>1. TypeOK /\ [Next]_vars => [row.token # None => row'.token # None]_vars
  <2> SUFFICES ASSUME TypeOK, [Next]_vars, row.token # None PROVE row'.token # None
    OBVIOUS
  <2>1. ASSUME NEW r \in Request, Default(r) \/ SaveOpening(r) \/ SaveOther(r) \/ DeductStash(r)
        PROVE  row'.token # None
    BY <2>1, RowWrites, UpsertColumns
  <2> QED BY <2>1, RowKept
<1> QED BY <1>1, TypeCorrect, PTL DEF Spec, TokenNeverErased

\* While they take turns, a request's copy of the row has its deductions ...
DeductionsFresh ==
    \A r \in Request :
        /\ kind[r] \in RowKind /\ pc[r] \in {"lock", "read", "write"}
             => cur[r].deductions = row.deductions
        /\ kind[r] \in RowKind /\ pc[r] = "default" => row.deductions = 0

\* ... and a row that is not there has none.
AbsentHasNone == ~row.exists => row.deductions = 0

DeductionsInv ==
    TypeOK /\ Lookups /\ OneWriter /\ CurFresh /\ AbsentIsZero /\ DeductionsFresh /\ AbsentHasNone

LEMMA NextDeductions == Exclusive /\ DeductionsInv /\ [Next]_vars => DeductionsFresh' /\ AbsentHasNone'
<1> SUFFICES ASSUME Exclusive, DeductionsInv, [Next]_vars PROVE DeductionsFresh' /\ AbsentHasNone'
  OBVIOUS
<1> USE DEF DeductionsInv
<1>1. ASSUME NEW r \in Request, End(r), row' = row PROVE DeductionsFresh' /\ AbsentHasNone'
  BY <1>1 DEF End, TypeOK, DeductionsFresh, AbsentHasNone
<1>2. ASSUME UNCHANGED row PROVE AbsentHasNone'
  BY <1>2 DEF AbsentHasNone
<1>3. ASSUME NEW r \in Request, Begin(r) PROVE DeductionsFresh' /\ AbsentHasNone'
  <2>1. \A p \in Request \ {r} : pc'[p] = pc[p] /\ kind'[p] = kind[p]
    BY <1>3 DEF Begin, TypeOK
  <2>2. DeductionsFresh'
    BY <1>3, <2>1 DEF Begin, TypeOK, DeductionsFresh
  <2> QED BY <1>2, <1>3, <2>2 DEF Begin
<1>4. ASSUME NEW r \in Request, Find(r) PROVE DeductionsFresh' /\ AbsentHasNone'
  <2>1. UNCHANGED row
    BY <1>4 DEF Find
  <2>2. CASE End(r)
    BY <1>1, <2>1, <2>2
  <2>3. CASE /\ cur' = [cur EXCEPT ![r] = row]
             /\ pc' = [pc EXCEPT ![r] = After(r)]
             /\ UNCHANGED <<lock, kind, seen>>
    BY <1>2, <2>1, <2>3, AfterType DEF TypeOK, DeductionsFresh
  <2>4. CASE /\ ~row.exists
             /\ pc' = [pc EXCEPT ![r] = "default"]
             /\ UNCHANGED <<lock, kind, cur, seen>>
    BY <1>2, <2>1, <2>4 DEF TypeOK, DeductionsFresh, AbsentHasNone
  <2> QED BY <1>4, <2>2, <2>3, <2>4 DEF Find
<1>5. ASSUME NEW r \in Request, Default(r) PROVE DeductionsFresh' /\ AbsentHasNone'
  <2>1. row'.deductions = row.deductions /\ row'.exists
    <3>1. row' = Upsert(NoRow) /\ NoRow.deductions = 0
      BY <1>5 DEF Default, NoRow
    <3>2. row.deductions = 0
      BY <1>5 DEF Default, Lookups, DeductionsFresh
    <3> QED BY <3>1, <3>2, ConstantTypes, UpsertType, UpsertColumns
  <2>2. AbsentHasNone'
    BY <2>1 DEF AbsentHasNone
  <2>3. CASE End(r)
    BY <2>1, <2>2, <2>3 DEF End, TypeOK, DeductionsFresh
  <2>4. CASE /\ cur' = [cur EXCEPT ![r] = row']
             /\ pc' = [pc EXCEPT ![r] = After(r)]
             /\ UNCHANGED <<lock, kind, seen>>
    BY <2>1, <2>2, <2>4, AfterType DEF TypeOK, DeductionsFresh
  <2> QED BY <1>5, <2>3, <2>4 DEF Default
<1>6. ASSUME NEW r \in Request, TakeLock(r) \/ Read(r) PROVE DeductionsFresh' /\ AbsentHasNone'
  BY <1>2, <1>6 DEF TakeLock, Read, TypeOK, DeductionsFresh
<1>7. ASSUME NEW r \in Request, SaveOpening(r) \/ SaveOther(r) \/ DeductStash(r)
      PROVE  DeductionsFresh' /\ AbsentHasNone'
  <2>1. row'.exists
    BY <1>7, RowWrites, UpsertType
  <2>2. DeductionsFresh'
    <3> SUFFICES ASSUME NEW p \in Request, pc'[p] # "idle", kind'[p] \in RowKind PROVE FALSE
      BY DEF DeductionsFresh
    <3>1. pc[r] = "write" /\ kind[r] \in RowKind /\ End(r)
      BY <1>7 DEF SaveOpening, SaveOther, DeductStash, Writes, RowKind
    <3>2. p # r /\ pc[p] # "idle" /\ kind[p] \in RowKind
      BY <3>1 DEF End, TypeOK
    <3> QED BY <3>1, <3>2 DEF OneWriter
  <2> QED BY <2>1, <2>2 DEF AbsentHasNone
<1>8. ASSUME NEW r \in Request, Sell(r) \/ UndoSale(r) \/ SavePlan(r) \/ Abort(r)
      PROVE  DeductionsFresh' /\ AbsentHasNone'
  <2>1. End(r) /\ UNCHANGED row
    BY <1>8 DEF Sell, UndoSale, SavePlan, Abort
  <2> QED BY <1>1, <2>1
<1>9. CASE Connect
  <2>1. row'.exists /\ row'.deductions = row.deductions /\ UNCHANGED <<pc, kind, cur>>
    BY <1>9 DEF Connect, TypeOK, RowType
  <2> QED BY <2>1 DEF DeductionsFresh, AbsentHasNone
<1>10. CASE UNCHANGED vars
  BY <1>2, <1>10 DEF vars, DeductionsFresh
<1> QED
  BY <1>3, <1>4, <1>5, <1>6, <1>7, <1>8, <1>9, <1>10 DEF Next

\* If requests that rewrite the settings row take turns, a deduction that is
\* granted comes on top of those there are and leaves opening balances alone.
THEOREM DeductionsAddUpInTurns == Exclusive /\ Spec => DeductionsAddUp
<1>1. Init => DeductionsInv
  <2>1. Init => DeductionsFresh /\ AbsentHasNone
    BY DEF Init, NoRow, DeductionsFresh, AbsentHasNone
  <2> QED BY <2>1, InitIInv DEF IInv, DeductionsInv
<1>2. Exclusive /\ DeductionsInv /\ [Next]_vars => DeductionsInv'
  BY NextTypeOK, NextLookups, NextOneWriter, NextRow, NextDeductions DEF DeductionsInv
<1>3. DeductionsInv /\ [Next]_vars =>
        [\A r \in Request :
           DeductStash(r) => row'.deductions >= row.deductions /\ row'.opening = row.opening]_vars
  <2> SUFFICES ASSUME DeductionsInv, NEW r \in Request, DeductStash(r)
               PROVE  row'.deductions >= row.deductions /\ row'.opening = row.opening
    OBVIOUS
  <2>1. cur[r].deductions = row.deductions /\ cur[r].opening = row.opening
    BY DEF DeductStash, Writes, DeductionsInv, DeductionsFresh, CurFresh, RowKind
  <2>2. PICK new \in RowType : row' = Upsert(new) /\ new.deductions >= cur[r].deductions /\ new.opening = cur[r].opening
    BY RowWrites DEF DeductionsInv
  <2> QED BY <2>1, <2>2, UpsertType, UpsertColumns DEF DeductionsInv
<1>4. Exclusive => Exclusive'
  OBVIOUS
<1> QED BY <1>1, <1>2, <1>3, <1>4, PTL DEF Spec, DeductionsAddUp

-----------------------------------------------------------------------------
(* The account *)

\* Beside sign-ins, pads and baselines the settings and investments do what
\* Settings allows: to them a consent is the one step Connect, and everything
\* else leaves their tables alone.
THEOREM AccountIsSettings == AccountSpec => Spec
<1>1. AccountInit => Init
  BY DEF AccountInit
<1>2. [AccountNext]_accountVars => [Next]_vars
  <2> SUFFICES ASSUME [AccountNext]_accountVars PROVE Next \/ UNCHANGED vars
    OBVIOUS
  <2>1. CASE SettingsStep
    BY <2>1 DEF SettingsStep
  <2>2. CASE SignInStep \/ PadStep \/ BaselineStep
    BY <2>2 DEF SignInStep, PadStep, BaselineStep
  <2>3. CASE Consent
    BY <2>3 DEF Consent, Next
  <2>4. CASE UNCHANGED accountVars
    BY <2>4 DEF accountVars
  <2> QED BY <2>1, <2>2, <2>3, <2>4 DEF AccountNext
<1> QED BY <1>1, <1>2, PTL DEF AccountSpec, Spec

\* In an account whose settings requests take turns, no more rupees of an asset
\* are sold than there are.
THEOREM AccountSalesCovered == Exclusive /\ AccountSpec => []SalesCovered
BY AccountIsSettings, SalesCoveredInTurns

\* In an account too the settings and investments keep to their types.
THEOREM AccountSettingsTypes == AccountSpec => []TypeOK
BY AccountIsSettings, TypeCorrect

\* Nor does an account, whose consents write the row as well, lose its token.
THEOREM AccountKeepsTokens == AccountSpec => TokenNeverErased
BY AccountIsSettings, TokensAreKept

\* In an account too, deductions that are granted in turns add up.
THEOREM AccountDeductionsAddUp == Exclusive /\ AccountSpec => DeductionsAddUp
BY AccountIsSettings, DeductionsAddUpInTurns

-----------------------------------------------------------------------------
(* The scratch pads *)

\* Whoever is about to link a sheet found no other pad with it, and is the only
\* one, unless the sheet is in raced.
Reserved ==
    \A c \in Client :
        P!At(c, "write") /\ edit[c].sheet \notin raced \cup {None} =>
            /\ \A q \in pads \ {edit[c].pad} : sheet[q] # edit[c].sheet
            /\ \A d \in Client \ {c} : P!At(d, "write") => edit[d].sheet # edit[c].sheet

\* Who creates a pad has none in hand.
NoneInHand == \A c \in Client : edit[c].new => edit[c].pad = None

PadInv == P!TypeOK /\ NoneInHand /\ Reserved /\ SheetsDistinct

LEMMA PadInit == P!Init => PadInv
BY PadAssumption DEF P!Init, PadInv, P!TypeOK, P!Local, P!Idle, P!At, NoneInHand, Reserved, SheetsDistinct, P!SheetsDistinct

\* A request that goes back to the start.
LEMMA PadIdle ==
    ASSUME PadInv, NEW c \in Client, edit' = [edit EXCEPT ![c] = P!Idle],
           raced' = raced, pads' \in SUBSET Pad, sheet' \in [Pad -> Sheet \cup {None}],
           \A p \in pads' : p \in pads /\ sheet'[p] = sheet[p]
    PROVE  PadInv'
<1>1. \A d \in Client : edit'[d] = IF d = c THEN P!Idle ELSE edit[d]
  BY DEF PadInv, P!TypeOK
<1>2. P!TypeOK'
  BY DEF PadInv, P!TypeOK, P!Idle, P!Local
<1>3. P!Idle.pc = "idle" /\ ~P!Idle.new
  BY DEF P!Idle
<1>4. Reserved' /\ NoneInHand'
  BY <1>1, <1>3 DEF PadInv, Reserved, NoneInHand, P!At
<1>5. SheetsDistinct'
  BY DEF PadInv, SheetsDistinct, P!SheetsDistinct
<1> QED BY <1>2, <1>4, <1>5 DEF PadInv

\* A request that comes in, to be checked.
LEMMA PadBegin ==
    ASSUME PadInv, NEW c \in Client, NEW l \in P!Local, l.pc = "check", l.new => l.pad = None,
           edit' = [edit EXCEPT ![c] = l], UNCHANGED <<pads, sheet, raced>>
    PROVE  PadInv'
<1>1. \A d \in Client : edit'[d] = IF d = c THEN l ELSE edit[d]
  BY DEF PadInv, P!TypeOK
<1>2. P!TypeOK'
  BY DEF PadInv, P!TypeOK
<1>3. Reserved' /\ NoneInHand'
  BY <1>1 DEF PadInv, Reserved, NoneInHand, P!At
<1>4. SheetsDistinct'
  BY DEF PadInv, SheetsDistinct, P!SheetsDistinct
<1> QED BY <1>2, <1>3, <1>4 DEF PadInv

\* The check reserves the sheet, or has it in raced from now on.
LEMMA PadCheck ==
    ASSUME PadInv, NEW c \in Client, P!Check(c)
    PROVE  PadInv'
<1>1. CASE P!Clashes(c) # {}
  BY <1>1, PadIdle DEF P!Check, PadInv, P!TypeOK
<1>2. CASE P!Clashes(c) = {}
  <2>1. /\ \A d \in Client : edit'[d] = IF d = c THEN [edit[c] EXCEPT !.pc = "write"] ELSE edit[d]
        /\ raced \subseteq raced' /\ UNCHANGED <<pads, sheet>>
        /\ edit[c] \in P!Local
    BY <1>2 DEF P!Check, PadInv, P!TypeOK
  <2>2. raced' = raced \cup {s \in Sheet : s = edit[c].sheet
                              /\ \E d \in Client : P!At(d, "write") /\ edit[d].sheet = s}
    BY <1>2 DEF P!Check
  <2>3. /\ edit'[c].pc = "write" /\ edit'[c].sheet = edit[c].sheet /\ edit'[c].pad = edit[c].pad
        /\ edit'[c].new = edit[c].new
        /\ edit[c].sheet \in Sheet \cup {None}
        /\ edit'[c] \in P!Local
    BY <2>1 DEF P!Local
  <2>4. edit[c].sheet # None => \A q \in pads \ {edit[c].pad} : sheet[q] # edit[c].sheet
    BY <1>2 DEF P!Clashes
  <2>5. edit[c].sheet \notin raced' \cup {None} =>
          \A d \in Client : P!At(d, "write") => edit[d].sheet # edit[c].sheet
    BY <2>2, <2>3
  <2>6. Reserved'
    <3> SUFFICES ASSUME NEW d \in Client, P!At(d, "write")', edit'[d].sheet \notin raced' \cup {None}
                 PROVE  /\ \A q \in pads \ {edit'[d].pad} : sheet[q] # edit'[d].sheet
                        /\ \A e \in Client \ {d} : P!At(e, "write")' => edit'[e].sheet # edit'[d].sheet
      BY <2>1 DEF Reserved
    <3>1. CASE d = c
      BY <2>1, <2>3, <2>4, <2>5, <3>1 DEF P!At
    <3>2. CASE d # c
      <4>1. P!At(d, "write") /\ edit'[d] = edit[d] /\ edit[d].sheet \notin raced \cup {None}
        BY <2>1, <3>2 DEF P!At
      <4>2. edit[c].sheet # edit[d].sheet
        BY <2>3, <2>5, <4>1
      <4> QED BY <2>1, <2>3, <4>1, <4>2 DEF PadInv, Reserved, P!At
    <3> QED BY <3>1, <3>2
  <2>7. P!TypeOK'
    BY <1>2, <2>1, <2>2, <2>3 DEF P!Check, PadInv, P!TypeOK
  <2>8. SheetsDistinct'
    BY <2>1 DEF PadInv, SheetsDistinct, P!SheetsDistinct
  <2>9. NoneInHand'
    BY <2>1, <2>3 DEF PadInv, NoneInHand
  <2> QED BY <2>6, <2>7, <2>8, <2>9 DEF PadInv
<1> QED BY <1>1, <1>2

\* What a reserved sheet is written to is the only pad that has it.
LEMMA PadWrite ==
    ASSUME PadInv, NEW c \in Client, P!At(c, "write"), NEW p \in Pad,
           pads' = pads \cup {p}, sheet' = [sheet EXCEPT ![p] = edit[c].sheet],
           edit[c].pad \in {p, None},
           edit' = [edit EXCEPT ![c] = P!Idle], raced' = raced
    PROVE  PadInv'
<1>1. \A d \in Client : edit'[d] = IF d = c THEN P!Idle ELSE edit[d]
  BY DEF PadInv, P!TypeOK
<1>2. \A q \in Pad : sheet'[q] = IF q = p THEN edit[c].sheet ELSE sheet[q]
  BY DEF PadInv, P!TypeOK
<1>3. edit[c] \in P!Local /\ edit[c].sheet \in Sheet \cup {None} /\ pads \in SUBSET Pad
  BY DEF PadInv, P!TypeOK, P!Local
<1>4. P!TypeOK'
  BY <1>3 DEF PadInv, P!TypeOK, P!Idle, P!Local
<1>5. P!Idle.pc = "idle" /\ ~P!Idle.new
  BY DEF P!Idle
<1>6. Reserved' /\ NoneInHand'
  BY <1>1, <1>2, <1>3, <1>5 DEF PadInv, Reserved, NoneInHand, P!At
<1>7. edit[c].sheet \notin raced \cup {None} => \A q \in pads \ {p} : sheet[q] # edit[c].sheet
  BY <1>3, PadAssumption DEF PadInv, Reserved
<1>8. SheetsDistinct'
  BY <1>2, <1>3, <1>7 DEF PadInv, SheetsDistinct, P!SheetsDistinct
<1> QED BY <1>4, <1>6, <1>8 DEF PadInv

LEMMA PadNext == PadInv /\ [P!Next]_pVars => PadInv'
<1> SUFFICES ASSUME PadInv, [P!Next]_pVars PROVE PadInv'
  OBVIOUS
<1>1. ASSUME NEW c \in Client, P!BeginCreate(c) PROVE PadInv'
  <2>1. PICK s \in Sheet \cup {None} : edit' = [edit EXCEPT ![c] =
            [P!Idle EXCEPT !.pc = "check", !.new = TRUE, !.sheet = s]]
    BY <1>1 DEF P!BeginCreate
  <2>2. [P!Idle EXCEPT !.pc = "check", !.new = TRUE, !.sheet = s] \in P!Local
    BY DEF P!Idle, P!Local
  <2>3. LET l == [P!Idle EXCEPT !.pc = "check", !.new = TRUE, !.sheet = s]
        IN  l.pc = "check" /\ l.pad = None
    BY DEF P!Idle
  <2> QED BY <1>1, <2>1, <2>2, <2>3, PadBegin DEF P!BeginCreate
<1>2. ASSUME NEW c \in Client, P!BeginUpdate(c) PROVE PadInv'
  <2>1. PICK p \in pads, s \in Sheet \cup {None} :
          edit' = [edit EXCEPT ![c] = [pc |-> "check", new |-> FALSE, pad |-> p, sheet |-> s]]
    BY <1>2 DEF P!BeginUpdate
  <2>2. [pc |-> "check", new |-> FALSE, pad |-> p, sheet |-> s] \in P!Local
    BY DEF P!Local, PadInv, P!TypeOK
  <2> QED BY <1>2, <2>1, <2>2, PadBegin DEF P!BeginUpdate
<1>3. ASSUME NEW c \in Client, P!Insert(c) PROVE PadInv'
  BY <1>3, PadWrite DEF P!Insert, PadInv, NoneInHand
<1>4. ASSUME NEW c \in Client, P!Overwrite(c) PROVE PadInv'
  <2>1. edit[c].pad \in Pad /\ pads' = pads \cup {edit[c].pad}
    BY <1>4 DEF P!Overwrite, PadInv, P!TypeOK
  <2> QED BY <1>4, <2>1, PadWrite DEF P!Overwrite
<1>5. ASSUME NEW p \in Pad, P!Remove(p) PROVE PadInv'
  <2>1. /\ pads' = pads \ {p} /\ UNCHANGED <<edit, raced>>
        /\ \A q \in pads' : sheet'[q] = sheet[q]
        /\ sheet' \in [Pad -> Sheet \cup {None}]
    BY <1>5 DEF P!Remove, PadInv, P!TypeOK
  <2> QED BY <2>1 DEF PadInv, P!TypeOK, NoneInHand, Reserved, SheetsDistinct, P!SheetsDistinct, P!At
<1>6. ASSUME NEW c \in Client, P!Fail(c) PROVE PadInv'
  BY <1>6, PadIdle DEF P!Fail, PadInv, P!TypeOK
<1>7. CASE UNCHANGED pVars
  BY <1>7 DEF pVars, PadInv, P!TypeOK, NoneInHand, Reserved, SheetsDistinct, P!SheetsDistinct, P!At
<1> QED BY <1>1, <1>2, <1>3, <1>4, <1>5, <1>6, <1>7, PadCheck DEF P!Next

\* Every pad is linked to a sheet of its own, for any number of requests that
\* create, edit and remove pads, but for the sheets two were about to link at once.
THEOREM SheetsAreDistinct == AccountSpec => []SheetsDistinct
<1>1. AccountInit => PadInv
  BY PadInit DEF AccountInit
<1>2. [AccountNext]_accountVars => [P!Next]_pVars
  BY DEF AccountNext, accountVars, SettingsStep, SignInStep, Consent, PadStep, BaselineStep
<1>3. PadInv => SheetsDistinct
  BY DEF PadInv
<1> QED BY <1>1, <1>2, <1>3, PadNext, PTL DEF AccountSpec

-----------------------------------------------------------------------------
(* The baselines *)

\* A month lies in the year and the half that HalfOf says, so that the half
\* after it is still to come.
LEMMA NextHalfIsAhead ==
    ASSUME NEW m \in Nat
    PROVE  m < B!Begins(B!NextHalf(B!HalfOf(m)))
<1> DEFINE y == m \div 12
           r == m % 12
<1>1. y \in Nat /\ r \in 0 .. 11 /\ m = 12 * y + r
  OBVIOUS
<1> HIDE DEF y, r
<1>2. B!HalfOf(m) = [startYear |-> IF r + 1 >= 4 THEN y ELSE y - 1,
                     half |-> IF 4 <= r + 1 /\ r + 1 <= 9 THEN 1 ELSE 2]
  BY DEF B!HalfOf, y, r
<1>3. CASE r <= 2
  <2>1. B!HalfOf(m) = [startYear |-> y - 1, half |-> 2]
    BY <1>1, <1>2, <1>3
  <2>2. B!NextHalf(B!HalfOf(m)) = [startYear |-> y - 1 + 1, half |-> 1]
    BY <2>1 DEF B!NextHalf
  <2> QED BY <1>1, <1>3, <2>2 DEF B!Begins
<1>4. CASE 3 <= r /\ r <= 8
  <2>1. B!HalfOf(m) = [startYear |-> y, half |-> 1]
    BY <1>1, <1>2, <1>4
  <2>2. B!NextHalf(B!HalfOf(m)) = [startYear |-> y, half |-> 2]
    BY <2>1 DEF B!NextHalf
  <2> QED BY <1>1, <1>4, <2>2 DEF B!Begins
<1>5. CASE 9 <= r
  <2>1. B!HalfOf(m) = [startYear |-> y, half |-> 2]
    BY <1>1, <1>2, <1>5
  <2>2. B!NextHalf(B!HalfOf(m)) = [startYear |-> y + 1, half |-> 1]
    BY <2>1 DEF B!NextHalf
  <2> QED BY <1>1, <1>5, <2>2 DEF B!Begins
<1> QED BY <1>1, <1>3, <1>4, <1>5

\* The half that runs is locked.
LEMMA RunningIsLocked ==
    ASSUME month \in Nat
    PROVE  B!Locked(B!HalfOf(month))
<1>1. B!HalfOf(month).half \in Int /\ B!HalfOf(month).startYear \in Int
  BY DEF B!HalfOf
<1> QED BY <1>1 DEF B!Locked

\* An edit under way came before the half of its baseline began.
InTime ==
    \A a \in Author : B!At(a, "read") \/ B!At(a, "update") =>
        draft[a].since < B!Begins(draft[a].half)

BaselineInv == B!TypeOK /\ InTime

LEMMA SomeMonth == B!First \in Clock /\ B!Idle \in
    [pc : {"idle", "find", "create", "read", "update"}, half : B!Half, since : Clock]
<1>1. PICK m \in Clock : \A n \in Clock : m <= n
  BY BaselineAssumption, LeastNatural
<1>2. B!First \in Clock
  BY <1>1 DEF B!First
<1> QED BY <1>2 DEF B!Idle, B!Half

LEMMA BaselineInit == B!Init => BaselineInv
<1> SUFFICES ASSUME B!Init PROVE BaselineInv
  OBVIOUS
<1>1. \A a \in Author : draft[a].pc = "idle"
  BY DEF B!Init, B!Idle
<1> QED BY <1>1, SomeMonth DEF B!Init, B!TypeOK, BaselineInv, InTime, B!At

\* What a request does to itself.
LEMMA DraftStep ==
    ASSUME BaselineInv, NEW a \in Author,
           NEW l \in [pc : {"idle", "find", "create", "read", "update"}, half : B!Half, since : Clock],
           l.pc \in {"read", "update"} => l.since < B!Begins(l.half),
           draft' = [draft EXCEPT ![a] = l], month' = month,
           baseline' \in [B!Half -> Amount \cup {None}]
    PROVE  BaselineInv'
<1>1. \A b \in Author : draft'[b] = IF b = a THEN l ELSE draft[b]
  BY DEF BaselineInv, B!TypeOK
<1> QED BY <1>1 DEF BaselineInv, B!TypeOK, InTime, B!At

LEMMA BaselineNext == BaselineInv /\ [B!Next]_bVars => BaselineInv'
<1> SUFFICES ASSUME BaselineInv, [B!Next]_bVars PROVE BaselineInv'
  OBVIOUS
<1> DEFINE Locals == [pc : {"idle", "find", "create", "read", "update"}, half : B!Half, since : Clock]
<1>1. month \in Clock /\ month \in Nat /\ baseline \in [B!Half -> Amount \cup {None}]
      /\ draft \in [Author -> Locals]
  BY BaselineAssumption DEF BaselineInv, B!TypeOK
<1>2. ASSUME NEW a \in Author, B!BeginCreate(a) PROVE BaselineInv'
  <2>1. PICK h \in B!Half : draft' = [draft EXCEPT ![a] = [pc |-> "find", half |-> h, since |-> month]]
    BY <1>2 DEF B!BeginCreate
  <2>2. [pc |-> "find", half |-> h, since |-> month] \in Locals
    BY <1>1
  <2> QED BY <1>1, <1>2, <2>1, <2>2, DraftStep DEF B!BeginCreate
<1>3. ASSUME NEW a \in Author, B!BeginUpdate(a) PROVE BaselineInv'
  <2>1. PICK h \in B!Half : /\ ~B!Locked(h) /\ B!Creatable(h)
                            /\ draft' = [draft EXCEPT ![a] = [pc |-> "read", half |-> h, since |-> month]]
    BY <1>3 DEF B!BeginUpdate
  <2>2. [pc |-> "read", half |-> h, since |-> month] \in Locals
    BY <1>1
  <2>3. month < B!Begins(h)
    BY <1>1, <2>1, NextHalfIsAhead, RunningIsLocked DEF B!Creatable
  <2> QED BY <1>1, <1>3, <2>1, <2>2, <2>3, DraftStep DEF B!BeginUpdate
<1>4. ASSUME NEW a \in Author, B!FindNone(a) PROVE BaselineInv'
  <2>1. [draft[a] EXCEPT !.pc = "create"] \in Locals
    BY <1>1
  <2> QED BY <1>1, <1>4, <2>1, DraftStep DEF B!FindNone, B!Goto
<1>5. ASSUME NEW a \in Author, B!FindOne(a) PROVE BaselineInv'
  <2>1. [draft[a] EXCEPT !.pc = "update"] \in Locals
    BY <1>1
  <2>2. draft[a].since < B!Begins(draft[a].half)
    BY <1>5 DEF B!FindOne, BaselineInv, InTime
  <2> QED BY <1>1, <1>5, <2>1, <2>2, DraftStep DEF B!FindOne, B!Goto
<1>6. ASSUME NEW a \in Author, B!Create(a) \/ B!Update(a) \/ B!Fail(a) PROVE BaselineInv'
  <2>1. B!Idle \in Locals /\ B!Idle.pc = "idle"
    BY SomeMonth DEF B!Idle
  <2>2. baseline' \in [B!Half -> Amount \cup {None}]
    BY <1>1, <1>6 DEF B!Create, B!Update, B!Fail
  <2> QED BY <1>6, <2>1, <2>2, DraftStep DEF B!Create, B!Update, B!Fail, B!Done
<1>7. CASE B!Tick \/ UNCHANGED bVars
  BY <1>1, <1>7 DEF B!Tick, bVars, BaselineInv, B!TypeOK, InTime, B!At
<1> QED BY <1>2, <1>3, <1>4, <1>5, <1>6, <1>7 DEF B!Next

\* Once its half has begun a baseline changes only by a request that came before,
\* in any months and with any number of requests under way at the turn.
THEOREM BegunHalvesAreKept == AccountSpec => LockedKept
<1> DEFINE Kept ==
      \A h \in B!Half :
         baseline[h] # None /\ baseline'[h] # baseline[h] /\ B!Begins(h) <= month
         => \E a \in Author : B!At(a, "update") /\ draft[a].half = h /\ draft[a].since < B!Begins(h)
<1>1. AccountInit => BaselineInv
  BY BaselineInit DEF AccountInit
<1>2. [AccountNext]_accountVars => [B!Next]_bVars
  BY DEF AccountNext, accountVars, SettingsStep, SignInStep, Consent, PadStep, BaselineStep
<1>3. BaselineInv /\ [B!Next]_bVars => [Kept]_bVars
  <2> SUFFICES ASSUME BaselineInv, B!Next, NEW h \in B!Half,
                      baseline[h] # None, baseline'[h] # baseline[h]
               PROVE  \E a \in Author : /\ B!At(a, "update") /\ draft[a].half = h
                                        /\ draft[a].since < B!Begins(h)
    OBVIOUS
  <2>1. PICK a \in Author : B!Create(a) \/ B!Update(a)
    BY DEF B!Next, B!BeginCreate, B!BeginUpdate, B!FindNone, B!FindOne, B!Fail, B!Tick
  <2>2. PICK x : baseline' = [baseline EXCEPT ![draft[a].half] = x]
    BY <2>1 DEF B!Create, B!Update
  <2>3. draft[a].half = h
    BY <2>2 DEF BaselineInv, B!TypeOK
  <2>4. B!At(a, "update")
    BY <2>1, <2>3 DEF B!Create, B!Update
  <2> QED BY <2>3, <2>4 DEF BaselineInv, InTime
<1>4. LockedKept <=> [][Kept]_bVars
  BY DEF LockedKept, B!LockedKept, bVars, B!vars
<1> HIDE DEF Kept
<1> QED BY <1>1, <1>2, <1>3, <1>4, BaselineNext, PTL DEF AccountSpec

-----------------------------------------------------------------------------
(* Signing in: types *)

\* What a call knows at each step: whom it looks for, whom it found, and that
\* neither users nor tokens go away.
Known(l, accounts, tokens) ==
    /\ l.pc \in {"bySub", "byEmail", "link", "create"} => l.email \in Email
    /\ l.pc \in {"bySub", "link", "create"} => l.sub \in Sub /\ l.kind # "password"
    /\ l.pc = "byEmail" => IF l.kind = "password" THEN l.sub = None ELSE l.sub \in Sub
    /\ l.pc \in {"link", "session", "connect"} => l.user \in accounts
    /\ l.pc = "rotate" => l.token \in tokens

SignInTypes == I!TypeOK /\ \A c \in Caller : Known(call[c], I!Accounts, I!Tokens)

\* The step of one call.
LEMMA CallStep ==
    ASSUME SignInTypes, NEW c \in Caller, NEW l \in I!Local, call' = [call EXCEPT ![c] = l],
           users' \in [User -> I!Row \cup {None}], I!Accounts \subseteq I!Accounts',
           sessions' \in [I!Session -> I!SessionRow \cup {None}], I!Tokens \subseteq I!Tokens',
           calls' \in 0 .. MaxCalls, answers' \in [Sub -> SUBSET User],
           taken' \in SUBSET Sub, ended' \in SUBSET I!Session, crossed' \in SUBSET I!Session,
           Known(l, I!Accounts', I!Tokens')
    PROVE  SignInTypes'
<1>1. \A d \in Caller : call'[d] = IF d = c THEN l ELSE call[d]
  BY DEF SignInTypes, I!TypeOK
<1>2. \A d \in Caller : Known(call'[d], I!Accounts', I!Tokens')
  BY <1>1 DEF SignInTypes, Known
<1>3. I!TypeOK'
  BY DEF SignInTypes, I!TypeOK
<1> QED BY <1>2, <1>3 DEF SignInTypes

LEMMA IdleCall == I!Idle \in I!Local /\ I!Idle.pc = "idle"
BY DEF I!Idle, I!Local, I!Kind

\* What types say of a call.
LEMMA CallTypes ==
    ASSUME SignInTypes, NEW c \in Caller
    PROVE  /\ call[c] \in I!Local
           /\ Known(call[c], I!Accounts, I!Tokens)
           /\ users \in [User -> I!Row \cup {None}]
           /\ sessions \in [I!Session -> I!SessionRow \cup {None}]
           /\ calls \in 0 .. MaxCalls
           /\ answers \in [Sub -> SUBSET User]
           /\ taken \in SUBSET Sub
           /\ ended \in SUBSET I!Session
           /\ crossed \in SUBSET I!Session
BY DEF SignInTypes, I!TypeOK

\* A call that has found its user goes on with it.
LEMMA IdentifiedTypes ==
    ASSUME SignInTypes, NEW c \in Caller, NEW u \in User, I!Identified(c, u),
           users' \in [User -> I!Row \cup {None}], I!Accounts \subseteq I!Accounts',
           u \in I!Accounts', taken' \in SUBSET Sub,
           UNCHANGED <<sessions, calls, ended, crossed>>
    PROVE  SignInTypes'
<1> DEFINE l == [call[c] EXCEPT !.user = u,
                                !.pc = IF call[c].kind = "consent" THEN "connect" ELSE "session"]
<1>1. call' = [call EXCEPT ![c] = l]
  BY DEF I!Identified, SignInTypes, I!TypeOK
<1>2. l \in I!Local /\ l.user = u /\ l.pc \in {"connect", "session"}
  BY CallTypes DEF I!Local
<1>3. answers' \in [Sub -> SUBSET User]
  BY CallTypes DEF I!Identified
<1>4. I!Tokens' = I!Tokens
  BY DEF I!Tokens
<1>5. Known(l, I!Accounts', I!Tokens')
  BY <1>2 DEF Known
<1> HIDE DEF l
<1> QED BY <1>1, <1>2, <1>3, <1>4, <1>5, CallTypes, CallStep

LEMMA SignInInit == I!Init => SignInTypes
<1> SUFFICES ASSUME I!Init PROVE SignInTypes
  OBVIOUS
<1>1. users \in [User -> I!Row \cup {None}]
  BY SignInAssumption DEF I!Init, I!Row
<1>2. \A c \in Caller : call[c] = I!Idle
  BY DEF I!Init
<1>3. call \in [Caller -> I!Local]
  BY IdleCall DEF I!Init
<1>4. I!TypeOK
  BY <1>1, <1>3, SignInAssumption DEF I!Init, I!TypeOK
<1> QED BY <1>2, <1>4, IdleCall DEF SignInTypes, Known

LEMMA LookUpTypes ==
    ASSUME SignInTypes, NEW c \in Caller,
           I!Callback(c) \/ I!Password(c) \/ I!BySub(c) \/ I!ByEmail(c)
    PROVE  SignInTypes'
<1>1. UNCHANGED <<users, sessions, taken, ended, crossed>>
      /\ I!Accounts' = I!Accounts /\ I!Tokens' = I!Tokens
  BY DEF I!Callback, I!Password, I!BySub, I!ByEmail, I!Accounts, I!Tokens
<1>2. ASSUME NEW l \in I!Local, call' = [call EXCEPT ![c] = l], Known(l, I!Accounts, I!Tokens),
             calls' \in 0 .. MaxCalls, UNCHANGED answers
      PROVE  SignInTypes'
  BY <1>1, <1>2, CallTypes, CallStep
<1>3. ASSUME NEW u \in I!Accounts, I!Identified(c, u), UNCHANGED calls
      PROVE  SignInTypes'
  <2>1. u \in User
    BY DEF I!Accounts
  <2> QED BY <1>1, <1>3, <2>1, CallTypes, IdentifiedTypes
<1>4. CASE I!Callback(c)
  <2>1. PICK p \in Profiles, k \in {"google", "consent"} :
          call' = [call EXCEPT ![c] = [I!Idle EXCEPT
                    !.pc = "bySub", !.kind = k, !.sub = p[1], !.email = p[2]]]
    BY <1>4 DEF I!Callback
  <2> DEFINE l == [I!Idle EXCEPT !.pc = "bySub", !.kind = k, !.sub = p[1], !.email = p[2]]
  <2>2. p[1] \in Sub /\ p[2] \in Email
    BY SignInAssumption
  <2>3. l \in I!Local /\ l.pc = "bySub" /\ l.sub \in Sub /\ l.email \in Email /\ l.kind # "password"
    BY <2>2 DEF I!Local, I!Idle, I!Kind
  <2>4. calls' \in 0 .. MaxCalls /\ answers' = answers
    <3>1. I!New /\ answers' = answers
      BY <1>4 DEF I!Callback
    <3> QED BY <3>1, CallTypes, SignInAssumption DEF I!New
  <2> HIDE DEF l
  <2>5. Known(l, I!Accounts, I!Tokens)
    BY <2>3 DEF Known
  <2>6. call' = [call EXCEPT ![c] = l]
    BY <2>1 DEF l
  <2> QED BY <1>2, <2>3, <2>4, <2>5, <2>6
<1>5. CASE I!Password(c)
  <2>1. PICK e \in Email :
          call' = [call EXCEPT ![c] = [I!Idle EXCEPT !.pc = "byEmail", !.kind = "password", !.email = e]]
    BY <1>5 DEF I!Password
  <2> DEFINE l == [I!Idle EXCEPT !.pc = "byEmail", !.kind = "password", !.email = e]
  <2>2. l \in I!Local /\ l.pc = "byEmail" /\ l.sub = None /\ l.email \in Email /\ l.kind = "password"
    BY DEF I!Local, I!Idle, I!Kind
  <2>3. calls' \in 0 .. MaxCalls /\ answers' = answers
    <3>1. I!New /\ answers' = answers
      BY <1>5 DEF I!Password
    <3> QED BY <3>1, CallTypes, SignInAssumption DEF I!New
  <2> HIDE DEF l
  <2>4. Known(l, I!Accounts, I!Tokens)
    BY <2>2 DEF Known
  <2>5. call' = [call EXCEPT ![c] = l]
    BY <2>1 DEF l
  <2> QED BY <1>2, <2>2, <2>3, <2>4, <2>5
<1>6. CASE I!BySub(c)
  <2>1. CASE I!Goto(c, "byEmail") /\ UNCHANGED answers
    <3> DEFINE l == [call[c] EXCEPT !.pc = "byEmail"]
    <3>1. call[c].sub \in Sub /\ call[c].email \in Email /\ call[c].kind # "password"
      BY <1>6, CallTypes DEF Known, I!BySub, I!At
    <3>2. l \in I!Local /\ l.pc = "byEmail" /\ l.sub \in Sub /\ l.email \in Email /\ l.kind # "password"
      BY <3>1, CallTypes DEF I!Local
    <3>3. call' = [call EXCEPT ![c] = l]
      BY <2>1 DEF I!Goto, SignInTypes, I!TypeOK
    <3> HIDE DEF l
    <3>4. Known(l, I!Accounts, I!Tokens)
      BY <3>2 DEF Known
    <3>5. calls' \in 0 .. MaxCalls /\ answers' = answers
      BY <1>6, <2>1, CallTypes DEF I!BySub
    <3> QED BY <1>2, <3>2, <3>3, <3>4, <3>5
  <2> QED BY <1>3, <1>6, <2>1 DEF I!BySub
<1>7. CASE I!ByEmail(c)
  <2>1. CASE call[c].kind # "password" /\ \E u \in I!Accounts :
               call' = [call EXCEPT ![c].user = u, ![c].pc = "link"] /\ UNCHANGED answers
    <3>1. PICK u \in I!Accounts :
            call' = [call EXCEPT ![c].user = u, ![c].pc = "link"] /\ UNCHANGED answers
      BY <2>1
    <3> DEFINE l == [call[c] EXCEPT !.user = u, !.pc = "link"]
    <3>2. call[c].sub \in Sub /\ call[c].email \in Email
      BY <1>7, <2>1, CallTypes DEF Known, I!ByEmail, I!At
    <3>3. l \in I!Local /\ l.pc = "link" /\ l.user = u /\ l.sub \in Sub /\ l.email \in Email /\ l.kind # "password"
      BY <2>1, <3>2, CallTypes DEF I!Local, I!Accounts
    <3>4. call' = [call EXCEPT ![c] = l]
      BY <3>1 DEF SignInTypes, I!TypeOK
    <3> HIDE DEF l
    <3>5. Known(l, I!Accounts, I!Tokens)
      BY <3>3 DEF Known
    <3>6. calls' \in 0 .. MaxCalls
      BY <1>7, CallTypes DEF I!ByEmail
    <3> QED BY <1>2, <3>1, <3>3, <3>4, <3>5, <3>6
  <2>2. CASE call[c].kind # "password" /\ I!Goto(c, "create") /\ UNCHANGED answers
    <3> DEFINE l == [call[c] EXCEPT !.pc = "create"]
    <3>1. call[c].sub \in Sub /\ call[c].email \in Email
      BY <1>7, <2>2, CallTypes DEF Known, I!ByEmail, I!At
    <3>2. l \in I!Local /\ l.pc = "create" /\ l.sub \in Sub /\ l.email \in Email /\ l.kind # "password"
      BY <2>2, <3>1, CallTypes DEF I!Local
    <3>3. call' = [call EXCEPT ![c] = l]
      BY <2>2 DEF I!Goto, SignInTypes, I!TypeOK
    <3> HIDE DEF l
    <3>4. Known(l, I!Accounts, I!Tokens)
      BY <3>2 DEF Known
    <3>5. calls' \in 0 .. MaxCalls /\ answers' = answers
      BY <1>7, <2>2, CallTypes DEF I!ByEmail
    <3> QED BY <1>2, <3>2, <3>3, <3>4, <3>5
  <2> QED BY <1>3, <1>7, <2>1, <2>2 DEF I!ByEmail
<1> QED BY <1>4, <1>5, <1>6, <1>7

LEMMA AccountTypesKept ==
    ASSUME SignInTypes, NEW c \in Caller, I!Link(c) \/ I!Create(c)
    PROVE  SignInTypes'
<1>1. UNCHANGED <<sessions, calls, ended, crossed>>
  BY DEF I!Link, I!Create
<1>2. CASE I!Link(c)
  <2> DEFINE u == call[c].user
  <2>1. u \in I!Accounts /\ u \in User /\ users[u] \in I!Row /\ call[c].sub \in Sub
    BY <1>2, CallTypes DEF Known, I!Link, I!At, I!Accounts
  <2>2. I!Identified(c, u) /\ users' = [users EXCEPT ![u].sub = call[c].sub]
    BY <1>2 DEF I!Link
  <2>3. users' = [users EXCEPT ![u] = [users[u] EXCEPT !.sub = call[c].sub]]
    BY <2>1, <2>2, CallTypes
  <2>4. [users[u] EXCEPT !.sub = call[c].sub] \in I!Row
    BY <2>1 DEF I!Row
  <2>5. None \notin I!Row
    BY RowAssumption
  <2>6. users' \in [User -> I!Row \cup {None}] /\ I!Accounts \subseteq I!Accounts'
    BY <2>1, <2>3, <2>4, <2>5, CallTypes DEF I!Accounts
  <2>7. taken' \in SUBSET Sub
    BY <1>2, <2>1, CallTypes DEF I!Link, I!Row
  <2> QED BY <1>1, <2>1, <2>2, <2>6, <2>7, IdentifiedTypes
<1>3. CASE I!Create(c)
  <2>1. PICK u \in User \ I!Accounts :
          /\ users' = [users EXCEPT ![u] =
                         [sub |-> call[c].sub, email |-> call[c].email, tenant |-> call[c].sub]]
          /\ I!Identified(c, u)
    BY <1>3 DEF I!Create
  <2>2. call[c].sub \in Sub /\ call[c].email \in Email
    BY <1>3, CallTypes DEF Known, I!Create, I!At
  <2>3. [sub |-> call[c].sub, email |-> call[c].email, tenant |-> call[c].sub] \in I!Row
    BY <2>2 DEF I!Row
  <2>4. None \notin I!Row
    BY RowAssumption
  <2>5. /\ users' \in [User -> I!Row \cup {None}]
        /\ I!Accounts \subseteq I!Accounts' /\ u \in I!Accounts'
    BY <2>1, <2>3, <2>4, CallTypes DEF I!Accounts
  <2>6. taken' \in SUBSET Sub
    BY <1>3, CallTypes DEF I!Create
  <2> QED BY <1>1, <2>1, <2>5, <2>6, IdentifiedTypes
<1> QED BY <1>2, <1>3

\* The rows of the sessions are not lost.
LEMMA SessionTypes ==
    ASSUME SignInTypes, NEW c \in Caller,
           \/ I!Open(c) \/ I!Rotate(c) \/ I!Connected(c) \/ I!Fail(c)
           \/ \E t \in I!Session : I!Look(c, t)
    PROVE  SignInTypes'
<1>1. UNCHANGED <<users, answers, taken, ended>> /\ I!Accounts' = I!Accounts
  BY DEF I!Open, I!Rotate, I!Connected, I!Fail, I!Look, I!Accounts
<1>2. ASSUME call' = [call EXCEPT ![c] = I!Idle],
             sessions' \in [I!Session -> I!SessionRow \cup {None}], I!Tokens \subseteq I!Tokens',
             UNCHANGED calls, crossed' \in SUBSET I!Session
      PROVE  SignInTypes'
  <2>1. Known(I!Idle, I!Accounts', I!Tokens')
    BY IdleCall DEF Known
  <2> QED BY <1>1, <1>2, <2>1, IdleCall, CallTypes, CallStep
<1>3. CASE I!Connected(c) \/ I!Fail(c)
  <2>1. I!Tokens' = I!Tokens
    BY <1>3 DEF I!Connected, I!Fail, I!Tokens
  <2> QED BY <1>2, <1>3, <2>1, CallTypes DEF I!Connected, I!Fail
<1>4. CASE I!Open(c)
  <2>1. PICK t \in I!Unused : sessions' = [sessions EXCEPT ![t] = I!Fresh(call[c].user, t)]
    BY <1>4 DEF I!Open
  <2>2. t \in I!Session /\ call[c].user \in User
    BY <1>4, CallTypes DEF I!Unused, Known, I!Open, I!At, I!Accounts
  <2>3. I!Fresh(call[c].user, t) \in I!SessionRow
    BY <2>2 DEF I!Fresh, I!SessionRow
  <2>4. sessions' \in [I!Session -> I!SessionRow \cup {None}] /\ I!Tokens \subseteq I!Tokens'
    BY <2>1, <2>2, <2>3, RowAssumption, CallTypes DEF I!Tokens
  <2> QED BY <1>2, <1>4, <2>4, CallTypes DEF I!Open
<1>5. CASE I!Rotate(c)
  <2> DEFINE k == call[c].token
  <2>1. k \in I!Tokens /\ k \in I!Session /\ sessions[k] \in I!SessionRow
    BY <1>5, CallTypes DEF Known, I!Rotate, I!At, I!Tokens
  <2>2. PICK t \in I!Unused :
          sessions' = [sessions EXCEPT ![k].revoked = TRUE,
                                       ![t] = I!Fresh(sessions[k].user, sessions[k].root)]
    BY <1>5 DEF I!Rotate
  <2>3. t \in I!Session
    BY DEF I!Unused
  <2>4. /\ I!Fresh(sessions[k].user, sessions[k].root) \in I!SessionRow
        /\ [sessions[k] EXCEPT !.revoked = TRUE] \in I!SessionRow
    BY <2>1 DEF I!Fresh, I!SessionRow
  <2>5. \A x \in I!Session : sessions'[x] =
          IF x = t THEN I!Fresh(sessions[k].user, sessions[k].root)
          ELSE IF x = k THEN [sessions[k] EXCEPT !.revoked = TRUE] ELSE sessions[x]
    BY <2>1, <2>2, <2>3, CallTypes
  <2>6. sessions' \in [I!Session -> I!SessionRow \cup {None}]
    BY <2>1, <2>2, <2>3, <2>4, CallTypes
  <2>7. I!Tokens \subseteq I!Tokens'
    BY <2>4, <2>5, RowAssumption DEF I!Tokens
  <2>8. crossed' \in SUBSET I!Session
    BY <1>5, <2>1, CallTypes DEF I!Rotate, I!SessionRow
  <2> QED BY <1>2, <1>5, <2>6, <2>7, <2>8 DEF I!Rotate
<1>6. ASSUME NEW t \in I!Session, I!Look(c, t) PROVE SignInTypes'
  <2> DEFINE l == [I!Idle EXCEPT !.pc = "rotate", !.kind = "refresh", !.token = t]
  <2>1. l \in I!Local /\ l.pc = "rotate" /\ l.token = t
    BY DEF I!Local, I!Idle, I!Kind
  <2>2. call' = [call EXCEPT ![c] = l] /\ t \in I!Tokens /\ UNCHANGED <<sessions, crossed>> /\ I!New
    BY <1>6 DEF I!Look
  <2>3. I!Tokens' = I!Tokens
    BY <2>2 DEF I!Tokens
  <2>4. calls' \in 0 .. MaxCalls
    BY <2>2, CallTypes, SignInAssumption DEF I!New
  <2> HIDE DEF l
  <2>5. Known(l, I!Accounts', I!Tokens')
    BY <2>1, <2>2, <2>3 DEF Known
  <2> QED BY <1>1, <2>1, <2>2, <2>3, <2>4, <2>5, CallTypes, CallStep
<1> QED BY <1>3, <1>4, <1>5, <1>6

LEMMA LogoutTypes ==
    ASSUME SignInTypes, NEW t \in I!Session, I!Logout(t)
    PROVE  SignInTypes'
<1>1. t \in I!Tokens /\ sessions[t] \in I!SessionRow /\ sessions' = [sessions EXCEPT ![t].revoked = TRUE]
      /\ UNCHANGED <<users, call, answers, taken>> /\ I!New
  BY DEF I!Logout, I!Tokens, SignInTypes, I!TypeOK
<1>2. [sessions[t] EXCEPT !.revoked = TRUE] \in I!SessionRow
  BY <1>1 DEF I!SessionRow
<1>3. /\ sessions' \in [I!Session -> I!SessionRow \cup {None}]
      /\ I!Tokens \subseteq I!Tokens' /\ I!Accounts' = I!Accounts
  BY <1>1, <1>2, RowAssumption DEF I!Tokens, I!Accounts, SignInTypes, I!TypeOK
<1>4. calls' \in 0 .. MaxCalls
  BY <1>1, SignInAssumption DEF I!New, SignInTypes, I!TypeOK
<1>5. ended' \in SUBSET I!Session /\ crossed' \in SUBSET I!Session
  BY <1>1 DEF I!Logout, I!SessionRow, SignInTypes, I!TypeOK
<1>6. I!TypeOK'
  BY <1>1, <1>3, <1>4, <1>5 DEF SignInTypes, I!TypeOK
<1>7. \A c \in Caller : Known(call'[c], I!Accounts', I!Tokens')
  BY <1>1, <1>3 DEF SignInTypes, Known
<1> QED BY <1>6, <1>7 DEF SignInTypes

\* The steps of the sign-ins, by what they are about.
LEMMA SignInCases ==
    ASSUME [I!Next]_iVars
    PROVE  \/ \E c \in Caller : I!Callback(c) \/ I!Password(c) \/ I!BySub(c) \/ I!ByEmail(c)
           \/ \E c \in Caller : I!Link(c) \/ I!Create(c)
           \/ \E c \in Caller : \/ I!Open(c) \/ I!Rotate(c) \/ I!Connected(c) \/ I!Fail(c)
                                \/ \E t \in I!Session : I!Look(c, t)
           \/ \E t \in I!Session : I!Logout(t)
           \/ UNCHANGED iVars
BY DEF I!Next, I!LogoutOfNone, I!vars, iVars

LEMMA SignInNext == SignInTypes /\ [I!Next]_iVars => SignInTypes'
<1>1. ASSUME SignInTypes, UNCHANGED iVars PROVE SignInTypes'
  BY <1>1 DEF iVars, SignInTypes, I!TypeOK, Known, I!Accounts, I!Tokens
<1> QED BY <1>1, SignInCases, LookUpTypes, AccountTypesKept, SessionTypes, LogoutTypes

-----------------------------------------------------------------------------
(* Signing in: users *)

\* googleSub is a unique column.
UniqueSubs ==
    \A u \in I!Accounts, v \in I!Accounts :
        users[u].sub = users[v].sub /\ users[u].sub # None => u = v

\* A user a subject was taken for has that subject still, or the subject is in
\* taken.
AnswersStand ==
    \A s \in Sub \ taken : \A u \in answers[s] : u \in I!Accounts /\ users[u].sub = s

UserInv == SignInTypes /\ UniqueSubs /\ AnswersStand

\* A user who is found by subject, or has just got it.
LEMMA IdentifiedStands ==
    ASSUME UserInv, NEW c \in Caller, NEW u \in User, I!Identified(c, u),
           call[c].sub \in Sub => u \in I!Accounts' /\ users'[u].sub = call[c].sub,
           call[c].sub \in Sub \/ call[c].sub = None,
           taken \subseteq taken',
           \A s \in Sub \ taken', v \in I!Accounts : users[v].sub = s => v \in I!Accounts' /\ users'[v].sub = s
    PROVE  AnswersStand'
<1>1. answers' = IF call[c].sub = None THEN answers ELSE [answers EXCEPT ![call[c].sub] = @ \cup {u}]
  BY DEF I!Identified
<1>2. answers \in [Sub -> SUBSET User] /\ None \notin Sub
  BY CallTypes, SignInAssumption DEF UserInv
<1>3. \A s \in Sub : \A v \in answers'[s] : v \in answers[s] \/ (s = call[c].sub /\ v = u)
  BY <1>1, <1>2
<1> QED BY <1>3 DEF UserInv, AnswersStand

LEMMA UserInit == I!Init => UserInv
<1> SUFFICES ASSUME I!Init PROVE UserInv
  OBVIOUS
<1>1. SignInTypes
  BY SignInInit
<1>2. \A u \in I!Accounts : users[u].sub = None
  BY DEF I!Init, I!Accounts
<1>3. AnswersStand
  BY DEF I!Init, AnswersStand
<1> QED BY <1>1, <1>2, <1>3 DEF UserInv, UniqueSubs

LEMMA UserNext == UserInv /\ [I!Next]_iVars => UserInv'
<1> SUFFICES ASSUME UserInv, [I!Next]_iVars PROVE UserInv'
  OBVIOUS
<1>1. SignInTypes /\ SignInTypes'
  BY SignInNext DEF UserInv
<1>2. ASSUME UNCHANGED <<users, answers, taken>> PROVE UserInv'
  BY <1>1, <1>2 DEF UserInv, UniqueSubs, AnswersStand, I!Accounts
<1>3. ASSUME NEW c \in Caller, I!BySub(c) PROVE UserInv'
  <2>1. UNCHANGED <<users, taken>> /\ I!Accounts' = I!Accounts /\ call[c].sub \in Sub
    BY <1>1, <1>3, CallTypes DEF I!BySub, I!Accounts, Known, I!At
  <2>3. ASSUME NEW u \in I!Accounts, users[u].sub = call[c].sub, I!Identified(c, u) PROVE UserInv'
    <3>1. u \in User
      BY DEF I!Accounts
    <3>2. AnswersStand'
      BY <2>1, <2>3, <3>1, IdentifiedStands
    <3> QED BY <1>1, <2>1, <3>2 DEF UserInv, UniqueSubs
  <2> QED BY <1>2, <1>3, <2>1, <2>3 DEF I!BySub
<1>4. ASSUME NEW c \in Caller, I!ByEmail(c) PROVE UserInv'
  <2>1. UNCHANGED <<users, taken>>
    BY <1>4 DEF I!ByEmail
  <2>2. answers' = answers
    <3>1. CASE call[c].kind = "password"
      <4>1. call[c].sub = None
        BY <1>1, <1>4, <3>1, CallTypes DEF Known, I!ByEmail, I!At
      <4> QED BY <1>4, <3>1, <4>1 DEF I!ByEmail, I!Identified
    <3> QED BY <1>4, <3>1 DEF I!ByEmail
  <2> QED BY <1>2, <2>1, <2>2
<1>5. ASSUME NEW c \in Caller, I!Link(c) PROVE UserInv'
  <2> DEFINE u == call[c].user
             s == call[c].sub
  <2>1. u \in I!Accounts /\ u \in User /\ s \in Sub /\ s # None /\ users \in [User -> I!Row \cup {None}]
    BY <1>1, <1>5, CallTypes, SignInAssumption DEF Known, I!Link, I!At, I!Accounts
  <2>2. users[u] \in I!Row
    BY <2>1 DEF I!Accounts
  <2>3. \A v \in User : users'[v] = IF v = u THEN [users[u] EXCEPT !.sub = s] ELSE users[v]
    BY <1>5, <2>1 DEF I!Link
  <2>4. [users[u] EXCEPT !.sub = s] \in I!Row /\ [users[u] EXCEPT !.sub = s].sub = s
    BY <2>1, <2>2 DEF I!Row
  <2>5. I!Accounts' = I!Accounts
    BY <2>1, <2>3, <2>4, RowAssumption DEF I!Accounts
  <2>6. \A v \in I!Accounts \ {u} : users[v].sub # s
    BY <1>5 DEF I!Link
  <2>7. UniqueSubs'
    <3>1. ASSUME NEW v \in I!Accounts, NEW w \in I!Accounts,
                 users'[v].sub = users'[w].sub, users'[v].sub # None
          PROVE  v = w
      <4>1. /\ v \in User /\ w \in User
            /\ v = u => users'[v].sub = s
            /\ w = u => users'[w].sub = s
            /\ v # u => users'[v] = users[v]
            /\ w # u => users'[w] = users[w]
        BY <2>3, <2>4 DEF I!Accounts
      <4>2. v # u /\ w # u => v = w
        BY <1>1, <3>1, <4>1 DEF UserInv, UniqueSubs
      <4>3. v = u /\ w # u => FALSE
        BY <2>6, <3>1, <4>1
      <4>4. v # u /\ w = u => FALSE
        BY <2>6, <3>1, <4>1
      <4> QED BY <4>2, <4>3, <4>4
    <3> QED BY <2>5, <3>1 DEF UniqueSubs
  <2>8. taken' = taken \cup ({users[u].sub} \ {None, s}) /\ I!Identified(c, u)
    BY <1>5 DEF I!Link
  <2>9. \A x \in Sub \ taken', v \in I!Accounts : users[v].sub = x => v \in I!Accounts' /\ users'[v].sub = x
    BY <2>1, <2>3, <2>4, <2>5, <2>8, SignInAssumption DEF I!Accounts
  <2>10. AnswersStand'
    <3>1. u \in I!Accounts' /\ users'[u].sub = s /\ taken \subseteq taken'
      BY <2>1, <2>3, <2>4, <2>5, <2>8
    <3>2. I!Identified(c, u)
      BY <2>8
    <3> HIDE DEF u
    <3> QED BY <2>1, <2>9, <3>1, <3>2, IdentifiedStands
  <2> QED BY <1>1, <2>7, <2>10 DEF UserInv
<1>6. ASSUME NEW c \in Caller, I!Create(c) PROVE UserInv'
  <2> DEFINE s == call[c].sub
             new == [sub |-> s, email |-> call[c].email, tenant |-> s]
  <2>1. PICK u \in User \ I!Accounts : users' = [users EXCEPT ![u] = new] /\ I!Identified(c, u)
    BY <1>6 DEF I!Create
  <2>2. s \in Sub /\ s # None /\ call[c].email \in Email /\ users \in [User -> I!Row \cup {None}]
    BY <1>1, <1>6, CallTypes, SignInAssumption DEF Known, I!Create, I!At
  <2>3. new \in I!Row /\ new.sub = s
    BY <2>2 DEF I!Row
  <2>4. \A v \in I!Accounts : users[v].sub # s
    BY <1>6 DEF I!Create
  <2>5. taken' = taken
    BY <1>6 DEF I!Create
  <2> HIDE DEF new
  <2>6. \A v \in User : users'[v] = IF v = u THEN new ELSE users[v]
    BY <2>1, <2>2
  <2>7. I!Accounts' = I!Accounts \cup {u}
    BY <2>3, <2>6, RowAssumption DEF I!Accounts
  <2>8. \A v \in I!Accounts : v \in User /\ v # u /\ users'[v] = users[v]
    BY <2>6 DEF I!Accounts
  <2>9. UniqueSubs'
    BY <2>3, <2>4, <2>6, <2>7, <2>8 DEF UserInv, UniqueSubs
  <2>10. AnswersStand'
    BY <2>1, <2>2, <2>3, <2>5, <2>6, <2>7, <2>8, IdentifiedStands
  <2> QED BY <1>1, <2>9, <2>10 DEF UserInv
<1>7. ASSUME NEW c \in Caller, \/ I!Callback(c) \/ I!Password(c)
                               \/ I!Open(c) \/ I!Rotate(c) \/ I!Connected(c) \/ I!Fail(c)
                               \/ \E t \in I!Session : I!Look(c, t)
      PROVE  UserInv'
  BY <1>2, <1>7 DEF I!Callback, I!Password, I!Open, I!Rotate, I!Connected, I!Fail, I!Look
<1>8. ASSUME NEW t \in I!Session, I!Logout(t) PROVE UserInv'
  BY <1>2, <1>8 DEF I!Logout
<1>9. CASE UNCHANGED iVars
  BY <1>2, <1>9 DEF iVars
<1> QED BY <1>3, <1>4, <1>5, <1>6, <1>7, <1>8, <1>9, SignInCases

LEMMA SignInSteps == [AccountNext]_accountVars => [I!Next]_iVars
BY DEF AccountNext, accountVars, SettingsStep, SignInStep, Consent, PadStep, BaselineStep, I!Next

\* A Google account is taken for one user for ever, in any number of calls that
\* look up, link and create at once, unless another one took the row over.
THEOREM LookupsAreStable == AccountSpec => []StableLookups
<1>1. AccountInit => UserInv
  BY UserInit DEF AccountInit
<1>2. UserInv => StableLookups
  <2> SUFFICES ASSUME UserInv, NEW s \in Sub \ taken, NEW u \in answers[s], NEW v \in answers[s]
               PROVE  u = v
    BY DEF StableLookups, I!StableLookups
  <2>1. s # None
    BY SignInAssumption
  <2> QED BY <2>1 DEF UserInv, AnswersStand, UniqueSubs
<1> QED BY <1>1, <1>2, SignInSteps, UserNext, PTL DEF AccountSpec

\* Every call of a sign-in keeps to its type and to what it has found.
THEOREM SignInsKeepTypes == AccountSpec => []SignInTypes
<1>1. AccountInit => SignInTypes
  BY SignInInit DEF AccountInit
<1> QED BY <1>1, SignInSteps, SignInNext, PTL DEF AccountSpec

-----------------------------------------------------------------------------
(* Signing in: sessions *)

\* Tokens are numbered as they are made.
Numbered == \E n \in Nat : I!Tokens = 1 .. n

\* What a session and a logout refer to is a token.
Rooted == ended \subseteq I!Tokens /\ \A t \in I!Tokens : sessions[t].root \in I!Tokens

Alive(t) == t \in I!Tokens /\ ~sessions[t].revoked

\* A refresh under way has a session that is not revoked, unless another write
\* of that sign-in came between.
HoldsLive ==
    \A c \in Caller :
        I!At(c, "rotate") /\ sessions[call[c].token].root \notin crossed => Alive(call[c].token)

\* A sign-in that was not logged out has a session ...
SomeLive ==
    \A t \in I!Tokens : sessions[t].root \notin ended =>
        \E x \in I!Tokens : Alive(x) /\ sessions[x].root = sessions[t].root

\* ... and the only one it has, unless a refresh met another write.
OneLive ==
    \A x \in I!Tokens, y \in I!Tokens :
        Alive(x) /\ Alive(y) /\ sessions[x].root = sessions[y].root /\ sessions[x].root \notin crossed
        => x = y /\ sessions[x].root \notin ended

SessionInv == SignInTypes /\ Numbered /\ Rooted /\ HoldsLive /\ SomeLive /\ OneLive

\* Counting in the instance is counting.
LEMMA SameCardinality == \A S : I!Cardinality(S) = Cardinality(S)
BY DEF I!Cardinality, Cardinality

\* The next token is one there is not yet, and there is room for it.
LEMMA NextToken ==
    ASSUME SessionInv, NEW t \in I!Unused
    PROVE  /\ t \in I!Session /\ t \notin I!Tokens
           /\ \E n \in Nat : I!Tokens \cup {t} = 1 .. n
<1>1. PICK n \in Nat : I!Tokens = 1 .. n
  BY DEF SessionInv, Numbered
<1>2. Cardinality(1 .. n) = n
  BY FS_Interval
<1>3. t = n + 1 /\ t \in I!Session
  BY <1>1, <1>2, SameCardinality DEF I!Unused
<1>4. I!Tokens \cup {t} = 1 .. n + 1
  BY <1>1, <1>3
<1> QED BY <1>1, <1>3, <1>4

\* Rows of the session table, one by one.
LEMMA SessionRows ==
    ASSUME SessionInv, NEW x \in I!Tokens
    PROVE  x \in I!Session /\ sessions[x] \in I!SessionRow /\ sessions[x] # None
BY CallTypes DEF SessionInv, SignInTypes, I!TypeOK, I!Tokens

\* A step that touches no session, revokes none and begins no refresh.
LEMMA SessionsApart ==
    ASSUME SessionInv, SignInTypes', UNCHANGED <<sessions, ended, crossed>>,
           \A c \in Caller : call'[c].pc = "rotate" => call'[c] = call[c] \/ Alive(call'[c].token)
    PROVE  SessionInv'
<1>1. I!Tokens' = I!Tokens
  BY DEF I!Tokens
<1>2. Numbered' /\ Rooted' /\ SomeLive' /\ OneLive'
  BY <1>1 DEF SessionInv, Numbered, Rooted, SomeLive, OneLive, Alive
<1>3. HoldsLive'
  BY <1>1 DEF SessionInv, HoldsLive, Alive, I!At
<1> QED BY <1>2, <1>3 DEF SessionInv

LEMMA SessionInit == I!Init => SessionInv
<1> SUFFICES ASSUME I!Init PROVE SessionInv
  OBVIOUS
<1>1. I!Tokens = {}
  BY DEF I!Init, I!Tokens
<1>2. Numbered
  <2>1. I!Tokens = 1 .. 0
    BY <1>1
  <2> QED BY <2>1 DEF Numbered
<1>3. \A c \in Caller : ~I!At(c, "rotate")
  BY IdleCall DEF I!Init, I!At, I!Idle
<1> QED BY <1>1, <1>2, <1>3, SignInInit DEF I!Init, SessionInv, Rooted, HoldsLive, SomeLive, OneLive

LEMMA OpenSession ==
    ASSUME SessionInv, SignInTypes', NEW c \in Caller, I!Open(c)
    PROVE  SessionInv'
<1>1. PICK t \in I!Unused : sessions' = [sessions EXCEPT ![t] = I!Fresh(call[c].user, t)]
  BY DEF I!Open
<1>2. t \in I!Session /\ t \notin I!Tokens /\ \E n \in Nat : I!Tokens \cup {t} = 1 .. n
  BY NextToken
<1>3. sessions \in [I!Session -> I!SessionRow \cup {None}] /\ call[c].user \in User
  BY CallTypes DEF SessionInv, I!Open, I!At, Known, I!Accounts
<1> DEFINE fresh == I!Fresh(call[c].user, t)
<1>4. fresh \in I!SessionRow /\ fresh.root = t /\ fresh.revoked = FALSE
  BY <1>2, <1>3 DEF I!Fresh, I!SessionRow
<1> HIDE DEF fresh
<1>5. \A x \in I!Session : sessions'[x] = IF x = t THEN fresh ELSE sessions[x]
  BY <1>1, <1>3 DEF fresh
<1>6. I!Tokens' = I!Tokens \cup {t}
  BY <1>2, <1>4, <1>5, RowAssumption DEF I!Tokens, I!Session
<1>7. UNCHANGED <<ended, crossed>> /\ \A d \in Caller : call'[d] = IF d = c THEN I!Idle ELSE call[d]
  BY DEF I!Open, SessionInv, SignInTypes, I!TypeOK
<1>8. \A x \in I!Tokens : x # t /\ sessions'[x] = sessions[x] /\ sessions[x].root # t /\ (Alive(x)' <=> Alive(x))
  BY <1>2, <1>5, <1>6, SessionRows DEF SessionInv, Rooted, Alive
<1>9. sessions'[t] = fresh /\ Alive(t)' /\ t \notin ended
  BY <1>2, <1>4, <1>5, <1>6 DEF Alive, SessionInv, Rooted
<1>10. Numbered' /\ Rooted'
  BY <1>2, <1>4, <1>6, <1>7, <1>8, <1>9 DEF SessionInv, Numbered, Rooted
<1>11. HoldsLive'
  <2>1. \A d \in Caller : call[d].pc = "rotate" => call[d].token \in I!Tokens
    BY CallTypes DEF SessionInv, Known
  <2> QED BY <1>7, <1>8, <2>1, IdleCall DEF SessionInv, HoldsLive, I!At
<1>12. SomeLive' /\ OneLive'
  BY <1>4, <1>6, <1>7, <1>8, <1>9 DEF SessionInv, SomeLive, OneLive
<1> QED BY <1>10, <1>11, <1>12 DEF SessionInv

LEMMA RotateSession ==
    ASSUME SessionInv, SignInTypes', NEW c \in Caller, I!Rotate(c)
    PROVE  SessionInv'
<1> DEFINE k == call[c].token
           r == sessions[k].root
<1>1. k \in I!Tokens /\ k \in I!Session /\ sessions[k] \in I!SessionRow /\ r \in I!Tokens
  BY CallTypes, SessionRows DEF SessionInv, I!Rotate, I!At, Known, Rooted
<1>2. PICK t \in I!Unused :
        sessions' = [sessions EXCEPT ![k].revoked = TRUE, ![t] = I!Fresh(sessions[k].user, r)]
  BY DEF I!Rotate
<1>3. t \in I!Session /\ t \notin I!Tokens /\ \E n \in Nat : I!Tokens \cup {t} = 1 .. n
  BY NextToken
<1> DEFINE fresh == I!Fresh(sessions[k].user, r)
           spent == [sessions[k] EXCEPT !.revoked = TRUE]
<1>4. /\ fresh \in I!SessionRow /\ fresh.root = r /\ fresh.revoked = FALSE
      /\ spent \in I!SessionRow /\ spent.root = r /\ spent.revoked = TRUE
  BY <1>1 DEF I!Fresh, I!SessionRow, I!Tokens
<1>5. sessions \in [I!Session -> I!SessionRow \cup {None}]
  BY CallTypes DEF SessionInv
<1>6. \A x \in I!Session : sessions'[x] = IF x = t THEN fresh ELSE IF x = k THEN spent ELSE sessions[x]
  <2>1. k # t
    BY <1>1, <1>3
  <2> QED BY <1>1, <1>2, <1>3, <1>5, <2>1
<1>7. /\ ended' = ended
      /\ crossed' = crossed \cup {q \in {r} : \E d \in Caller \ {c} : I!UnderWay(d, q)}
      /\ \A d \in Caller : call'[d] = IF d = c THEN I!Idle ELSE call[d]
  BY DEF I!Rotate, SessionInv, SignInTypes, I!TypeOK
<1> HIDE DEF fresh, spent
<1>8. I!Tokens' = I!Tokens \cup {t}
  BY <1>1, <1>3, <1>4, <1>6, RowAssumption DEF I!Tokens, I!Session
<1>9. \A x \in I!Tokens : /\ x # t /\ sessions'[x].root = sessions[x].root
                          /\ Alive(x)' <=> Alive(x) /\ x # k
  BY <1>1, <1>3, <1>4, <1>6, <1>8, SessionRows DEF Alive
<1>10. sessions'[t] = fresh /\ Alive(t)' /\ sessions'[t].root = r
  BY <1>3, <1>4, <1>6, <1>8 DEF Alive
<1> HIDE DEF r
<1>11. Numbered' /\ Rooted'
  BY <1>1, <1>3, <1>7, <1>8, <1>9, <1>10 DEF SessionInv, Numbered, Rooted
<1>12. HoldsLive'
  <2> SUFFICES ASSUME NEW d \in Caller, I!At(d, "rotate")',
                      sessions'[call'[d].token].root \notin crossed'
               PROVE  Alive(call[d].token)'
    BY DEF HoldsLive
  <2>1. d # c /\ call'[d] = call[d] /\ I!At(d, "rotate")
    BY <1>7, IdleCall DEF I!At
  <2>2. call[d].token \in I!Tokens
    BY <2>1, CallTypes DEF SessionInv, Known, I!At
  <2>3. sessions[call[d].token].root \notin crossed' /\ sessions[call[d].token].root # r
    BY <1>7, <1>9, <2>1, <2>2 DEF I!UnderWay
  <2>4. Alive(call[d].token) /\ call[d].token # k
    BY <1>7, <2>1, <2>3 DEF SessionInv, HoldsLive, r
  <2> QED BY <1>9, <2>1, <2>2, <2>4
<1>13. SomeLive'
  <2> SUFFICES ASSUME NEW y \in I!Tokens', sessions'[y].root \notin ended'
               PROVE  \E x \in I!Tokens' : Alive(x)' /\ sessions'[x].root = sessions'[y].root
    BY DEF SomeLive
  <2>1. CASE sessions'[y].root = r
    BY <1>8, <1>10, <2>1
  <2>2. CASE sessions'[y].root # r
    <3>1. y \in I!Tokens /\ sessions[y].root = sessions'[y].root
      BY <1>8, <1>9, <1>10, <2>2
    <3>2. PICK x \in I!Tokens : Alive(x) /\ sessions[x].root = sessions[y].root
      BY <1>7, <3>1 DEF SessionInv, SomeLive
    <3>3. x # k
      BY <2>2, <3>1, <3>2 DEF r
    <3> QED BY <1>8, <1>9, <3>1, <3>2, <3>3
  <2> QED BY <2>1, <2>2
<1>14. OneLive'
  <2> SUFFICES ASSUME NEW x \in I!Tokens', NEW y \in I!Tokens', Alive(x)', Alive(y)',
                      sessions'[x].root = sessions'[y].root, sessions'[x].root \notin crossed'
               PROVE  x = y /\ sessions'[x].root \notin ended'
    BY DEF OneLive
  <2>1. CASE sessions'[x].root = r
    <3>1. r \notin crossed /\ r \notin crossed'
      BY <1>7, <2>1
    <3>2. Alive(k)
      BY <3>1 DEF I!Rotate, SessionInv, HoldsLive, r
    <3>3. \A z \in I!Tokens : Alive(z) /\ sessions[z].root = r => z = k
      BY <1>1, <3>1, <3>2 DEF SessionInv, OneLive, r
    <3>4. r \notin ended
      BY <1>1, <3>1, <3>2 DEF SessionInv, OneLive, r
    <3>5. \A z \in I!Tokens' : Alive(z)' /\ sessions'[z].root = r => z = t
      BY <1>8, <1>9, <3>3
    <3> QED BY <1>7, <2>1, <3>4, <3>5
  <2>2. CASE sessions'[x].root # r
    <3>1. x \in I!Tokens /\ y \in I!Tokens
      BY <1>8, <1>10, <2>2
    <3> QED BY <1>7, <1>9, <2>2, <3>1 DEF SessionInv, OneLive
  <2> QED BY <2>1, <2>2
<1> QED BY <1>11, <1>12, <1>13, <1>14 DEF SessionInv

LEMMA LogoutSession ==
    ASSUME SessionInv, SignInTypes', NEW k \in I!Session, I!Logout(k)
    PROVE  SessionInv'
<1> DEFINE r == sessions[k].root
           spent == [sessions[k] EXCEPT !.revoked = TRUE]
<1>1. k \in I!Tokens /\ Alive(k) /\ sessions[k] \in I!SessionRow /\ r \in I!Tokens
  BY SessionRows DEF I!Logout, SessionInv, Rooted, Alive
<1>2. spent \in I!SessionRow /\ spent.root = r /\ spent.revoked = TRUE
  BY <1>1 DEF I!SessionRow
<1>3. \A x \in I!Session : sessions'[x] = IF x = k THEN spent ELSE sessions[x]
  BY CallTypes DEF I!Logout, SessionInv, SignInTypes, I!TypeOK
<1>4. /\ ended' = ended \cup {r} /\ call' = call
      /\ crossed' = crossed \cup {q \in {r} : \E d \in Caller : I!UnderWay(d, q)}
  BY DEF I!Logout
<1> HIDE DEF spent
<1>5. I!Tokens' = I!Tokens
  BY <1>1, <1>2, <1>3, RowAssumption DEF I!Tokens, I!Session
<1>6. \A x \in I!Tokens : /\ sessions'[x].root = sessions[x].root
                          /\ Alive(x)' <=> Alive(x) /\ x # k
  BY <1>2, <1>3, <1>5, SessionRows DEF Alive
<1> HIDE DEF r
<1>7. Numbered' /\ Rooted'
  BY <1>1, <1>4, <1>5, <1>6 DEF SessionInv, Numbered, Rooted
<1>8. HoldsLive'
  <2> SUFFICES ASSUME NEW d \in Caller, I!At(d, "rotate")',
                      sessions'[call'[d].token].root \notin crossed'
               PROVE  Alive(call[d].token)'
    BY DEF HoldsLive
  <2>1. call'[d] = call[d] /\ I!At(d, "rotate")
    BY <1>4 DEF I!At
  <2>2. call[d].token \in I!Tokens
    BY <2>1, CallTypes DEF SessionInv, Known, I!At
  <2>3. sessions[call[d].token].root \notin crossed' /\ sessions[call[d].token].root # r
    BY <1>4, <1>6, <2>1, <2>2 DEF I!UnderWay
  <2>4. Alive(call[d].token) /\ call[d].token # k
    BY <1>4, <2>1, <2>3 DEF SessionInv, HoldsLive, r
  <2> QED BY <1>6, <2>1, <2>2, <2>4
<1>9. SomeLive'
  <2> SUFFICES ASSUME NEW y \in I!Tokens, sessions'[y].root \notin ended'
               PROVE  \E x \in I!Tokens : Alive(x)' /\ sessions'[x].root = sessions'[y].root
    BY <1>5 DEF SomeLive
  <2>1. sessions[y].root \notin ended /\ sessions[y].root # r
    BY <1>4, <1>6
  <2>2. PICK x \in I!Tokens : Alive(x) /\ sessions[x].root = sessions[y].root
    BY <2>1 DEF SessionInv, SomeLive
  <2>3. x # k
    BY <2>1, <2>2 DEF r
  <2> QED BY <1>6, <2>2, <2>3
<1>10. OneLive'
  <2> SUFFICES ASSUME NEW x \in I!Tokens, NEW y \in I!Tokens, Alive(x)', Alive(y)',
                      sessions'[x].root = sessions'[y].root, sessions'[x].root \notin crossed'
               PROVE  x = y /\ sessions'[x].root \notin ended'
    BY <1>5 DEF OneLive
  <2>1. x = y /\ sessions[x].root \notin ended /\ sessions[x].root \notin crossed /\ x # k /\ Alive(x)
    BY <1>4, <1>6 DEF SessionInv, OneLive
  <2>2. sessions[x].root # r
    BY <1>1, <2>1 DEF SessionInv, OneLive, r
  <2> QED BY <1>4, <1>6, <2>1, <2>2
<1> QED BY <1>7, <1>8, <1>9, <1>10 DEF SessionInv

LEMMA SessionNext == SessionInv /\ [I!Next]_iVars => SessionInv'
<1> SUFFICES ASSUME SessionInv, [I!Next]_iVars PROVE SessionInv'
  OBVIOUS
<1>1. SignInTypes /\ SignInTypes'
  BY SignInNext DEF SessionInv
<1>2. ASSUME NEW c \in Caller, NEW l, call' = [call EXCEPT ![c] = l], l.pc # "rotate" \/ Alive(l.token),
             UNCHANGED <<sessions, ended, crossed>>
      PROVE  SessionInv'
  <2>1. \A d \in Caller : call'[d] = IF d = c THEN l ELSE call[d]
    BY <1>1, <1>2 DEF SignInTypes, I!TypeOK
  <2> QED BY <1>1, <1>2, <2>1, SessionsApart
<1>3. ASSUME NEW c \in Caller, NEW then, then # "rotate", I!Goto(c, then), UNCHANGED <<sessions, ended, crossed>>
      PROVE  SessionInv'
  <2>1. [call[c] EXCEPT !.pc = then].pc = then
    BY <1>1, CallTypes DEF I!Local
  <2> QED BY <1>2, <1>3, <2>1 DEF I!Goto, SignInTypes, I!TypeOK
<1>4. ASSUME NEW c \in Caller, NEW u, I!Identified(c, u), UNCHANGED <<sessions, ended, crossed>>
      PROVE  SessionInv'
  <2> DEFINE l == [call[c] EXCEPT !.user = u,
                                  !.pc = IF call[c].kind = "consent" THEN "connect" ELSE "session"]
  <2>1. call' = [call EXCEPT ![c] = l]
    BY <1>1, <1>4 DEF I!Identified, SignInTypes, I!TypeOK
  <2>2. l.pc \in {"connect", "session"}
    BY <1>1, CallTypes DEF I!Local
  <2> HIDE DEF l
  <2> QED BY <1>2, <1>4, <2>1, <2>2
<1>5. ASSUME NEW c \in Caller, I!Callback(c) \/ I!Password(c) PROVE SessionInv'
  <2>1. UNCHANGED <<sessions, ended, crossed>>
    BY <1>5 DEF I!Callback, I!Password
  <2>2. CASE I!Callback(c)
    <3>1. PICK p \in Profiles, k \in {"google", "consent"} :
            call' = [call EXCEPT ![c] = [I!Idle EXCEPT
                      !.pc = "bySub", !.kind = k, !.sub = p[1], !.email = p[2]]]
      BY <2>2 DEF I!Callback
    <3>2. [I!Idle EXCEPT !.pc = "bySub", !.kind = k, !.sub = p[1], !.email = p[2]].pc = "bySub"
      BY DEF I!Idle
    <3> QED BY <1>2, <2>1, <3>1, <3>2
  <2>3. CASE I!Password(c)
    <3>1. PICK e \in Email :
            call' = [call EXCEPT ![c] = [I!Idle EXCEPT !.pc = "byEmail", !.kind = "password", !.email = e]]
      BY <2>3 DEF I!Password
    <3>2. [I!Idle EXCEPT !.pc = "byEmail", !.kind = "password", !.email = e].pc = "byEmail"
      BY DEF I!Idle
    <3> QED BY <1>2, <2>1, <3>1, <3>2
  <2> QED BY <1>5, <2>2, <2>3
<1>6. ASSUME NEW c \in Caller, I!BySub(c) \/ I!ByEmail(c) PROVE SessionInv'
  <2>1. UNCHANGED <<sessions, ended, crossed>>
    BY <1>6 DEF I!BySub, I!ByEmail
  <2>2. ASSUME NEW u, call' = [call EXCEPT ![c].user = u, ![c].pc = "link"] PROVE SessionInv'
    <3> DEFINE l == [call[c] EXCEPT !.user = u, !.pc = "link"]
    <3>1. call' = [call EXCEPT ![c] = l] /\ l.pc = "link"
      BY <1>1, <2>2, CallTypes DEF SignInTypes, I!TypeOK, I!Local
    <3> HIDE DEF l
    <3> QED BY <1>2, <2>1, <3>1
  <2> QED BY <1>3, <1>4, <1>6, <2>1, <2>2 DEF I!BySub, I!ByEmail
<1>7. ASSUME NEW c \in Caller, I!Link(c) \/ I!Create(c) PROVE SessionInv'
  BY <1>4, <1>7 DEF I!Link, I!Create
<1>8. ASSUME NEW c \in Caller, I!Connected(c) \/ I!Fail(c) PROVE SessionInv'
  BY <1>2, <1>8, IdleCall DEF I!Connected, I!Fail
<1>9. ASSUME NEW c \in Caller, NEW t \in I!Session, I!Look(c, t) PROVE SessionInv'
  <2>1. [I!Idle EXCEPT !.pc = "rotate", !.kind = "refresh", !.token = t].token = t
    BY DEF I!Idle
  <2>2. Alive(t)
    BY <1>9 DEF I!Look, Alive
  <2> QED BY <1>2, <1>9, <2>1, <2>2 DEF I!Look
<1>10. CASE UNCHANGED iVars
  BY <1>1, <1>10, SessionsApart DEF iVars
<1> QED
  BY <1>1, <1>5, <1>6, <1>7, <1>8, <1>9, <1>10, SignInCases, OpenSession, RotateSession, LogoutSession

\* Whoever did not log out is still signed in, whatever refreshes meet or fail.
THEOREM SignInsStay == AccountSpec => []StaysSignedIn
<1>1. AccountInit => SessionInv
  BY SessionInit DEF AccountInit
<1>2. SessionInv => StaysSignedIn
  BY DEF SessionInv, SomeLive, Alive, StaysSignedIn, I!StaysSignedIn, I!Roots, I!Live
<1> QED BY <1>1, <1>2, SignInSteps, SessionNext, PTL DEF AccountSpec

\* A sign-in has one session at most, and none after its logout, unless a refresh
\* was under way when another write came.
THEOREM SessionsAreSingle == AccountSpec => []OneSession
<1>1. AccountInit => SessionInv
  BY SessionInit DEF AccountInit
<1>2. SessionInv => OneSession
  BY DEF SessionInv, OneLive, Alive, OneSession, I!OneSession, I!Roots, I!Live
<1> QED BY <1>1, <1>2, SignInSteps, SessionNext, PTL DEF AccountSpec

\* Every variable of an account keeps its type.
THEOREM AccountKeepsTypes == AccountSpec => []AccountTypes
<1> DEFINE AllTypes == SignInTypes /\ PadInv /\ BaselineInv /\ asked \in Part
<1>1. AccountInit => AllTypes
  BY SignInInit, PadInit, BaselineInit DEF AccountInit
<1>2. AllTypes /\ [AccountNext]_accountVars => AllTypes'
  <2> SUFFICES ASSUME AllTypes, [AccountNext]_accountVars PROVE AllTypes'
    OBVIOUS
  <2>1. [P!Next]_pVars /\ [B!Next]_bVars /\ asked' = asked
    BY DEF AccountNext, accountVars, SettingsStep, SignInStep, Consent, PadStep, BaselineStep
  <2> QED BY <2>1, SignInSteps, SignInNext, PadNext, BaselineNext
<1>3. AllTypes => AccountTypes
  BY DEF SignInTypes, PadInv, BaselineInv, AccountTypes
<1> QED BY <1>1, <1>2, <1>3, PTL DEF AccountSpec
===============================================================================
