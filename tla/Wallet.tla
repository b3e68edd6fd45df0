------------------------------- MODULE Wallet -------------------------------
(***************************************************************************)
(* The wallet: statements, transactions, the card summary and the detailed *)
(* statements, over one database and one clock. Any call may run between   *)
(* two steps of any other, and the components meet in the tables: the      *)
(* summary reads what the import and the clerk write, the detailed sync    *)
(* ties its rows to the import's and creates cards that the import finds.  *)
(***************************************************************************)
EXTENDS Statements, DetailedSync

CONSTANTS
    Earlier, TypedDays, Editor, Reader, PageSize, MaxMonths,  \* Transactions
    Viewer, Lookback,                                         \* CycleSummary
    Mixes,       \* bound: how many calls of each part a behaviour may begin
    Starts,      \* bound: the days on which a behaviour may begin
    MaxNights    \* bound on the midnights in a behaviour

Part == {"statements", "transactions", "summary", "detailed"}

ASSUME WalletBounds ==
    /\ TypedDays \subseteq Day
    /\ PageSize \in Nat \ {0}
    /\ MaxMonths \in Nat /\ Lookback \in Nat
    /\ MaxMonths <= Lookback + 1   \* the 60th slice falls 59 months later
    /\ Selections \subseteq SUBSET Source
    /\ Syncer \cap Script = {}
    /\ Reach \in Nat /\ Overlap \in Nat
    /\ Mixes \subseteq [Part -> Nat]
    /\ MaxNights \in Nat

VARIABLES
    txns, removed, editing, scan, steady, untimed, repriced,   \* Transactions
    view, excused,                                             \* CycleSummary
    nights,     \* midnights so far
    left        \* the calls of each part that may still begin

T == INSTANCE Transactions
C == INSTANCE CycleSummary

\* The tables there may be to begin with are as the calls leave them, with no
\* split purchase repriced below its share.
ASSUME EarlierTables ==
    /\ None \notin T!Row
    /\ None \notin [ts : T!Instant, id : Txn]   \* nor is a cursor null
    /\ \A table \in Earlier :
         /\ table \in [Txn -> T!Row \cup {None}]
         /\ IsFiniteSet(T!Live(table))
         /\ \A t \in T!Live(table) :
              table[t].adj \in {T!NoAdjustment} \cup T!Acceptable(table[t])

sVars == <<task, clerk, settled>>
tVars == <<txns, removed, editing, scan, steady, untimed, repriced>>
cVars == <<view, excused>>
dVars == <<mark, details, linked, sync, givenUp, overlapped, orphaned>>
walletVars == <<today, cards, rows, sVars, tVars, cVars, dVars, nights, left>>

\* Besides the TypeOK of the statements.
WalletTypes == SyncTypes /\ T!TypeOK /\ C!TypeOK
               /\ nights \in 0 .. MaxNights /\ left \in [Part -> Nat]

\* Without calls on the statements, each card has one in the table; there are
\* transactions to begin with if there are calls on them.
WalletInit ==
    /\ left \in Mixes
    /\ Init /\ T!Init /\ C!Init /\ SyncInit
    /\ today \in Starts
    /\ left["statements"] = 0 => \A c \in Held : Stored(c) = {1}
    /\ left["transactions"] = 0 <=> T!Live(txns) = {}
    /\ nights = 0

New(part) == left[part] > 0 /\ left' = [left EXCEPT ![part] = @ - 1]
Going == UNCHANGED left

-----------------------------------------------------------------------------
Night ==
    /\ nights < MaxNights
    /\ nights' = nights + 1
    /\ Tick
    /\ UNCHANGED <<tVars, cVars, dVars, left>>

StatementCalls ==
    /\ \/ \E p \in Importer : New("statements") /\ Begin(p)
       \/ \E p \in Importer : Report(p) /\ Going
       \/ \E p \in Importer, s \in Source : ImportStep(p, s) /\ Going
       \/ \E k \in Clerk, c \in Card, m \in Month : New("statements") /\ ClerkCall(k, c, m)
       \/ \E k \in Clerk : WriteRow(k) /\ Going
    /\ UNCHANGED <<tVars, cVars, dVars, nights>>

\* A write to the table is seen by the summaries under way.
TransactionCalls ==
    /\ \/ \E t \in Txn : New("transactions") /\ (T!Create(t) \/ T!Remove(t)) /\ C!Disturb
       \/ \E e \in Editor, t \in Txn : New("transactions") /\ T!EditorCall(e, t) /\ UNCHANGED excused
       \/ \E e \in Editor : T!EditorStep(e) /\ Going /\ C!Disturb
       \/ \E r \in Reader : New("transactions") /\ T!BeginScan(r) /\ UNCHANGED excused
       \/ \E r \in Reader : (T!CursorPage(r) \/ T!OffsetPage(r)) /\ Going /\ UNCHANGED excused
    /\ UNCHANGED <<rows, sVars, view, dVars, nights>>

SummaryCalls ==
    /\ \/ \E v \in Viewer : New("summary") /\ C!BeginView(v)
       \/ \E v \in Viewer : C!ViewStep(v) /\ Going
    /\ UNCHANGED <<sVars, tVars, dVars, nights>>

DetailedRuns ==
    /\ \/ \E p \in Syncer \cup Script : New("detailed") /\ (BeginSync(p) \/ BeginScript(p))
       \/ \E p \in Syncer \cup Script : SyncStep(p) /\ Going
    /\ UNCHANGED <<sVars, tVars, cVars, nights>>

WalletNext ==
    Night \/ StatementCalls \/ TransactionCalls \/ SummaryCalls \/ DetailedRuns

WalletSpec == WalletInit /\ [][WalletNext]_walletVars

-----------------------------------------------------------------------------
(* Properties of the transactions and the summary, in company; those of *)
(* the statements and the detailed sync are stated in their modules.    *)

\* A scan returns every untouched row exactly once.
PagesComplete == T!PagesComplete

\* No scan by cursor skips an untouched row: what the design document says.
NothingSkipped == T!NothingSkipped

\* The own part of a cycle's spend is never above the spend.
SpendCovers == C!SpendCovers

\* A purchase made today is in today's cycle.
TodayCounted == C!TodayCounted

\* The own spend of the calendar month misses no slice of a spread purchase.
CalendarComplete == C!CalendarComplete
=============================================================================
