------------------------------- MODULE Settings -------------------------------
(***************************************************************************)
(* The settings row of one tenant (PftSetting) and the investments that    *)
(* are checked against it.                                                 *)
(*                                                                         *)
(* SettingsService reads the row with getPftSettings, which creates it     *)
(* when there is none, builds a whole new row from what it read, and       *)
(* writes that with an upsert: every column, outside any transaction,      *)
(* unless an opening balance changes.  InvestmentsService.sell, undoSale,  *)
(* the writing of a monthly plan and a change of an opening balance are    *)
(* transactions under the lock 'investments:<tenant>'.  The OAuth callback *)
(* of AuthService writes the columns of the Gmail token only.              *)
(***************************************************************************)
EXTENDS Integers, FiniteSetsExt

CONSTANTS
    Asset,      \* MF and STOCKS
    Month,      \* the months with a plan
    MaxRupees,  \* bound on any amount
    Sale,       \* ids of sales (randomUUID)
    Token,      \* Gmail refresh tokens, one per callback
    Request,    \* requests in flight
    Exclusive,  \* whether requests that rewrite the row take turns
    None        \* no request, no token

ASSUME SettingsAssumption ==
    /\ IsFiniteSet(Month)
    /\ MaxRupees \in Nat
    /\ Exclusive \in BOOLEAN
    /\ None \notin Request \cup Token

VARIABLES
    row,     \* the row: is it there, and the columns that matter here
    plans,   \* sipMf and stocks of each month, and its stash
    sales,   \* the InvestmentSale rows
    lock,    \* who holds pg_advisory_xact_lock('investments:<tenant>')
    pc,      \* where each request stands
    kind,    \* what it is
    cur,     \* "current": the row it read
    seen     \* what it read of the ledgers

vars == <<row, plans, sales, lock, pc, kind, cur, seen>>

Rupees == 0 .. MaxRupees

RowType == [exists : BOOLEAN, opening : [Asset -> Rupees], deductions : Rupees,
            token : Token \cup {None}]
PlanType == [bought : [Asset -> Rupees], stash : Rupees]
SaleType == [id : Sale, asset : Asset, amount : 1 .. MaxRupees]
Ledger == [opening |-> row.opening, plans |-> plans, sales |-> sales]
LedgerType == [opening : [Asset -> Rupees], plans : [Month -> PlanType], sales : SUBSET SaleType]

NoRow == [exists |-> FALSE, opening |-> [a \in Asset |-> 0], deductions |-> 0, token |-> None]
NoPlan == [bought |-> [a \in Asset |-> 0], stash |-> 0]
Unread == [opening |-> NoRow.opening, plans |-> [m \in Month |-> NoPlan], sales |-> {}]

RowKind == {"get", "opening", "other", "deduct"}
LedgerKind == {"sell", "undoSale", "plan"}

TypeOK ==
    /\ row \in RowType
    /\ plans \in [Month -> PlanType]
    /\ sales \in SUBSET SaleType
    /\ lock \in Request \cup {None}
    /\ pc \in [Request -> {"idle", "find", "default", "lock", "read", "write"}]
    /\ kind \in [Request -> RowKind \cup LedgerKind]
    /\ cur \in [Request -> RowType]
    /\ seen \in [Request -> LedgerType]

Init ==
    /\ row = NoRow
    /\ plans = Unread.plans
    /\ sales = {}
    /\ lock = None
    /\ pc = [r \in Request |-> "idle"]
    /\ kind = [r \in Request |-> "get"]
    /\ cur = [r \in Request |-> NoRow]
    /\ seen = [r \in Request |-> Unread]

-----------------------------------------------------------------------------
(* What the services compute; sums are counted out rupee by rupee. *)

Bought(p, a) == Cardinality(UNION {{m} \X (1 .. p[m].bought[a]) : m \in Month})
Stash(p) == Cardinality(UNION {{m} \X (1 .. p[m].stash) : m \in Month})
Sold(S, a) == Cardinality(UNION {{s} \X (1 .. s.amount) : s \in {x \in S : x.asset = a}})

\* summarizeWithClient
Balance(l, a) == l.opening[a] + Bought(l.plans, a) - Sold(l.sales, a)

Covered(l) == \A a \in Asset : Balance(l, a) >= 0

-----------------------------------------------------------------------------
(* A request.  What it asks for is chosen where it is first looked at. *)

Busy == \E r \in Request : pc[r] # "idle" /\ kind[r] \in RowKind

Begin(r) ==
    /\ pc[r] = "idle"
    /\ \E k \in RowKind \cup LedgerKind :
         /\ k \in RowKind /\ Exclusive => ~Busy
         /\ kind' = [kind EXCEPT ![r] = k]
         /\ pc' = [pc EXCEPT ![r] = IF k \in RowKind THEN "find" ELSE "lock"]
    /\ UNCHANGED <<row, plans, sales, lock, cur, seen>>

\* The request is over, and its transaction and locks with it.
End(r) ==
    /\ pc' = [pc EXCEPT ![r] = "idle"]
    /\ cur' = [cur EXCEPT ![r] = NoRow]
    /\ seen' = [seen EXCEPT ![r] = Unread]
    /\ lock' = IF lock = r THEN None ELSE lock
    /\ UNCHANGED kind

\* What follows getPftSettings.
After(r) ==
    CASE kind[r] = "opening" -> "lock"
      [] kind[r] = "deduct" -> "read"
      [] OTHER -> "write"

\* getPftSettings: the row, if there is one.
Find(r) ==
    /\ pc[r] = "find"
    /\ IF row.exists
       THEN IF kind[r] = "get"
            THEN End(r)
            ELSE /\ cur' = [cur EXCEPT ![r] = row]
                 /\ pc' = [pc EXCEPT ![r] = After(r)]
                 /\ UNCHANGED <<lock, kind, seen>>
       ELSE /\ pc' = [pc EXCEPT ![r] = "default"]
            /\ UNCHANGED <<lock, kind, cur, seen>>
    /\ UNCHANGED <<row, plans, sales>>

\* Fault: a token that was not read is written as NULL.
UpsertNulls(new) == [new EXCEPT !.exists = TRUE]

\* The repository's upsert writes every column, except a token it does not have
\* ("?? undefined").
Upsert(new) ==
    [new EXCEPT !.exists = TRUE, !.token = IF new.token = None THEN row.token ELSE new.token]

\* Otherwise it writes a row of zeros, over one that came up meanwhile.
Default(r) ==
    /\ pc[r] = "default"
    /\ row' = Upsert(NoRow)
    /\ IF kind[r] = "get"
       THEN End(r)
       ELSE /\ cur' = [cur EXCEPT ![r] = row']
            /\ pc' = [pc EXCEPT ![r] = After(r)]
            /\ UNCHANGED <<lock, kind, seen>>
    /\ UNCHANGED <<plans, sales>>

\* Fault: pg_try_advisory_xact_lock, and nobody looks at its answer.
TakeLockTries(r) ==
    /\ pc[r] = "lock"
    /\ lock' = IF lock = None THEN r ELSE lock
    /\ pc' = [pc EXCEPT ![r] = "read"]
    /\ UNCHANGED <<row, plans, sales, kind, cur, seen>>

TakeLock(r) ==
    /\ pc[r] = "lock"
    /\ lock = None
    /\ lock' = r
    /\ pc' = [pc EXCEPT ![r] = "read"]
    /\ UNCHANGED <<row, plans, sales, kind, cur, seen>>

Read(r) ==
    /\ pc[r] = "read"
    /\ seen' = [seen EXCEPT ![r] = Ledger]
    /\ pc' = [pc EXCEPT ![r] = "write"]
    /\ UNCHANGED <<row, plans, sales, lock, kind, cur>>

Writes(r, k) == pc[r] = "write" /\ kind[r] = k

\* Fault: no "amount <= 0" check.
SellNothing(r) ==
    /\ Writes(r, "sell")
    /\ \E a \in Asset, amount \in Rupees, id \in Sale :
         /\ amount <= Balance(seen[r], a)
         /\ \A s \in sales : s.id # id
         /\ sales' = sales \cup {[id |-> id, asset |-> a, amount |-> amount]}
    /\ End(r)
    /\ UNCHANGED <<row, plans>>

Sell(r) ==
    /\ Writes(r, "sell")
    /\ \E a \in Asset, amount \in 1 .. MaxRupees, id \in Sale :
         /\ amount <= Balance(seen[r], a)
         /\ \A s \in sales : s.id # id
         /\ sales' = sales \cup {[id |-> id, asset |-> a, amount |-> amount]}
    /\ End(r)
    /\ UNCHANGED <<row, plans>>

UndoSale(r) ==
    /\ Writes(r, "undoSale")
    /\ \E s \in seen[r].sales : sales' = sales \ {s}
    /\ End(r)
    /\ UNCHANGED <<row, plans>>

\* lockAndValidatePlanWrite and the upsert of the plan; a field left out keeps
\* its value.
SavePlan(r) ==
    /\ Writes(r, "plan")
    /\ \E m \in Month, plan \in PlanType :
         /\ Covered([seen[r] EXCEPT !.plans[m] = plan])
         /\ plans' = [plans EXCEPT ![m] = plan]
    /\ End(r)
    /\ UNCHANGED <<row, sales>>

\* updatePftSettings with an opening balance: lockAndValidateOpeningBalance,
\* then the whole row as it was before the lock.
SaveOpening(r) ==
    /\ Writes(r, "opening")
    /\ \E opening \in [Asset -> Rupees], deductions \in Rupees :
         /\ Covered([seen[r] EXCEPT !.opening = opening])
         /\ row' = Upsert([cur[r] EXCEPT !.opening = opening, !.deductions = deductions])
    /\ End(r)
    /\ UNCHANGED <<plans, sales>>

\* updatePftSettings without: no lock, no transaction.
SaveOther(r) ==
    /\ Writes(r, "other")
    /\ \E deductions \in Rupees : row' = Upsert([cur[r] EXCEPT !.deductions = deductions])
    /\ End(r)
    /\ UNCHANGED <<plans, sales>>

\* Fault: the deduction takes the place of the earlier ones.
DeductStashReplaces(r) ==
    /\ Writes(r, "deduct")
    /\ \E amount \in Rupees :
         /\ amount <= Stash(seen[r].plans) - cur[r].deductions
         /\ row' = Upsert([cur[r] EXCEPT !.deductions = amount])
    /\ End(r)
    /\ UNCHANGED <<plans, sales>>

DeductStash(r) ==
    /\ Writes(r, "deduct")
    /\ \E amount \in Rupees :
         /\ amount = 0 \/ amount <= Stash(seen[r].plans) - cur[r].deductions
         /\ cur[r].deductions + amount \in Rupees
         /\ row' = Upsert([cur[r] EXCEPT !.deductions = @ + amount])
    /\ End(r)
    /\ UNCHANGED <<plans, sales>>

\* googleImportCallback: one upsert of the token's columns; it makes a row of
\* zeros when there is none.
Connect ==
    /\ \E t \in Token \ {row.token} : row' = [row EXCEPT !.exists = TRUE, !.token = t]
    /\ UNCHANGED <<plans, sales, lock, pc, kind, cur, seen>>

\* A check refuses the request, which is only known at "write", or an error
\* ends it anywhere; nothing is written.
Abort(r) ==
    /\ pc[r] # "idle"
    /\ End(r)
    /\ UNCHANGED <<row, plans, sales>>

Next ==
    \/ \E r \in Request :
         \/ Begin(r) \/ Find(r) \/ Default(r) \/ TakeLock(r) \/ Read(r)
         \/ Sell(r) \/ UndoSale(r) \/ SavePlan(r)
         \/ SaveOpening(r) \/ SaveOther(r) \/ DeductStash(r)
         \/ Abort(r)
    \/ Connect

Spec == Init /\ [][Next]_vars

-----------------------------------------------------------------------------
(* Properties *)

\* No more rupees of an asset are ever sold than its opening balance and the
\* plans have bought, whichever sales, undos, plans and openings meet.
SalesCovered == Covered(Ledger)

\* A stale row may bring back an older token, never take the only one away:
\* imports would ask for a new consent.
TokenNeverErased == [][row.token # None => row'.token # None]_vars

\* A deduction from the stash that is granted comes on top of those there are,
\* and leaves the opening balances alone.
DeductionsAddUp ==
    [][\A r \in Request :
         DeductStash(r) => row'.deductions >= row.deductions /\ row'.opening = row.opening]_vars
=============================================================================
