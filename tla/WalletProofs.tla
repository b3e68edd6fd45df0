----------------------------- MODULE WalletProofs -----------------------------
(***************************************************************************)
(* Proofs about Wallet: the parts, put together over one database and one  *)
(* clock, behave as each of them is specified to. What StatementsProofs    *)
(* and DetailedSyncProofs prove of a part then holds in the wallet. The    *)
(* transactions and the summary, which meet in one table, are proved about *)
(* here.                                                                   *)
(***************************************************************************)
EXTENDS Wallet, StatementsProofs, DetailedSyncProofs

\* The instances speak of the same calendar.
LEMMA SameDays == T!Day = Day /\ C!Day = Day
BY DEF Day, T!Day, C!Day

\* Only midnight changes the date.
LEMMA ImportDay ==
    ASSUME NEW p, NEW s, ImportStep(p, s)
    PROVE  UNCHANGED <<today, cards>>
<1>1. CASE FindCard(p, s) \/ CheckIntended(p, s) \/ Fetch(p, s) \/ OpenPdf(p, s)
  BY <1>1 DEF FindCard, CheckIntended, Fetch, OpenPdf
<1>2. CASE Ask(p, s)
  BY <1>2 DEF Ask
<1>3. CASE CheckParsed(p, s) \/ CheckLegacy(p, s) \/ Insert(p, s) \/ Fail(p, s)
  BY <1>3 DEF CheckParsed, CheckLegacy, Insert, Fail
<1> QED BY <1>1, <1>2, <1>3 DEF ImportStep

LEMMA StatementsDay == StatementCalls => UNCHANGED <<today, cards>>
<1> SUFFICES ASSUME StatementCalls PROVE UNCHANGED <<today, cards>>
  OBVIOUS
<1>1. ASSUME NEW p, Begin(p) \/ Report(p) PROVE UNCHANGED <<today, cards>>
  BY <1>1 DEF Begin, Report
<1>2. ASSUME NEW k, NEW c, NEW m, ClerkCall(k, c, m) PROVE UNCHANGED <<today, cards>>
  BY <1>2 DEF ClerkCall, Create, ReadRow
<1>3. ASSUME NEW k, WriteRow(k) PROVE UNCHANGED <<today, cards>>
  BY <1>3 DEF WriteRow
<1> QED BY <1>1, <1>2, <1>3, ImportDay DEF StatementCalls

LEMMA TransactionsDay == TransactionCalls => UNCHANGED <<today, cards>>
<1> SUFFICES ASSUME TransactionCalls PROVE UNCHANGED <<today, cards>>
  OBVIOUS
<1>1. ASSUME NEW t, T!Create(t) \/ T!Remove(t) PROVE UNCHANGED <<today, cards>>
  BY <1>1 DEF T!Create, T!Remove
<1>2. ASSUME NEW e, NEW t, T!EditorCall(e, t) PROVE UNCHANGED <<today, cards>>
  BY <1>2 DEF T!EditorCall, T!ReadRow, T!ReadForAdjustment, T!FindAdjustment
<1>3. ASSUME NEW e, T!EditorStep(e) PROVE UNCHANGED <<today, cards>>
  BY <1>3 DEF T!EditorStep, T!WriteRow, T!WriteAdjustment, T!DropAdjustment
<1>4. ASSUME NEW r, T!BeginScan(r) \/ T!CursorPage(r) \/ T!OffsetPage(r)
      PROVE  UNCHANGED <<today, cards>>
  BY <1>4 DEF T!BeginScan, T!CursorPage, T!OffsetPage
<1> QED BY <1>1, <1>2, <1>3, <1>4 DEF TransactionCalls

LEMMA SummaryDay == SummaryCalls => UNCHANGED <<today, cards, rows, txns, repriced>>
<1> SUFFICES ASSUME SummaryCalls PROVE UNCHANGED <<today, cards, rows, txns, repriced>>
  OBVIOUS
<1>1. ASSUME NEW v, C!BeginView(v) PROVE UNCHANGED <<today, cards, rows, txns, repriced>>
  BY <1>1 DEF C!BeginView
<1>2. ASSUME NEW v, C!ViewStep(v) PROVE UNCHANGED <<today, cards, rows, txns, repriced>>
  BY <1>2 DEF C!ViewStep, C!ReadLatest, C!ReadCalendar, C!ReadLast, C!ReadTotal,
              C!ReadList, C!Answer
<1> QED BY <1>1, <1>2 DEF SummaryCalls

\* The detailed sync may add a card, which every other part puts up with.
LEMMA DetailedDay == DetailedRuns => UNCHANGED <<today, rows>> /\ cards \subseteq cards'
<1> SUFFICES ASSUME DetailedRuns PROVE UNCHANGED <<today, rows>> /\ cards \subseteq cards'
  OBVIOUS
<1>1. ASSUME NEW p, BeginSync(p) \/ BeginScript(p)
      PROVE  UNCHANGED <<today, rows, cards>>
  BY <1>1 DEF BeginSync, BeginScript, Start
<1>2. ASSUME NEW p, NextSource(p) PROVE UNCHANGED <<today, rows>> /\ cards \subseteq cards'
  BY <1>2 DEF NextSource
<1>3. ASSUME NEW p, List(p) \/ FindStatement(p) \/ MoveMark(p)
      PROVE  UNCHANGED <<today, rows, cards>>
  BY <1>3 DEF List, FindStatement, MoveMark
<1>4. ASSUME NEW p, TakeMail(p) PROVE UNCHANGED <<today, rows, cards>>
  BY <1>4 DEF TakeMail
<1>5. ASSUME NEW p, Store(p) PROVE UNCHANGED <<today, rows, cards>>
  BY <1>5 DEF Store
<1>6. ASSUME NEW p, Crash(p) PROVE UNCHANGED <<today, rows, cards>>
  BY <1>6 DEF Crash, Die
<1> QED BY <1>1, <1>2, <1>3, <1>4, <1>5, <1>6 DEF DetailedRuns, SyncStep, ScriptSource, ScriptMail,
            ScriptList, ScriptStore, ScriptMark

InCalendar == today \in Day

LEMMA DayInit == WalletInit => InCalendar
BY SameDays DEF WalletInit, Init, InCalendar

LEMMA DayNext == InCalendar /\ [WalletNext]_walletVars => InCalendar'
<1> SUFFICES ASSUME today \in Day, WalletNext PROVE today' \in Day
  BY DEF walletVars, InCalendar
<1>1. CASE Night
  BY <1>1, SameDays DEF Night, Tick
<1>2. CASE StatementCalls \/ TransactionCalls \/ SummaryCalls \/ DetailedRuns
  BY <1>2, StatementsDay, TransactionsDay, SummaryDay, DetailedDay
<1> QED BY <1>1, <1>2 DEF WalletNext

\* The wallet never leaves its calendar.
LEMMA DaysInCalendar == WalletSpec => []InCalendar
BY DayInit, DayNext, PTL DEF WalletSpec

-----------------------------------------------------------------------------
(* Each part behaves in the wallet as it is specified to *)

\* In the wallet the statements do what the module Statements allows: whatever
\* the other parts do is midnight, a card that is added, or nothing to them.
THEOREM WalletKeepsStatements == WalletSpec => Spec
<1>1. WalletInit => Init
  BY DEF WalletInit
<1>2. [WalletNext]_walletVars => [Next]_vars
  <2> SUFFICES ASSUME [WalletNext]_walletVars PROVE Next \/ UNCHANGED vars
    OBVIOUS
  <2>1. CASE Night
    BY <2>1 DEF Night, Next
  <2>2. CASE StatementCalls
    BY <2>2 DEF StatementCalls, Next
  <2>3. CASE TransactionCalls
    BY <2>3, TransactionsDay DEF TransactionCalls, sVars, vars
  <2>4. CASE SummaryCalls
    BY <2>4, SummaryDay DEF SummaryCalls, sVars, vars
  <2>5. CASE DetailedRuns
    <3>1. Elsewhere
      BY <2>5, DetailedDay DEF DetailedRuns, sVars, Elsewhere
    <3> QED BY <3>1 DEF Next
  <2>6. CASE UNCHANGED walletVars
    BY <2>6 DEF walletVars, sVars, vars
  <2> QED BY <2>1, <2>2, <2>3, <2>4, <2>5, <2>6 DEF WalletNext
<1> QED BY <1>1, <1>2, PTL DEF WalletSpec, Spec

\* So does the detailed sync: to it, the others move the clock, add cards and
\* write statements.
THEOREM WalletKeepsDetailedSync == WalletSpec => SyncSpec
<1>1. WalletInit => SyncInit
  BY DEF WalletInit
<1>2. InCalendar /\ [WalletNext]_walletVars => [SyncNext]_syncVars
  <2> SUFFICES ASSUME InCalendar, [WalletNext]_walletVars PROVE SyncNext \/ UNCHANGED syncVars
    OBVIOUS
  <2>1. ASSUME UNCHANGED <<dVars, cards>>, today' \in {today, today + 1}, today' \in Day
        PROVE  SyncNext
    <3>1. today \in Int /\ today <= today'
      BY <2>1, CalendarAssumption DEF InCalendar, Day
    <3>2. Others
      BY <2>1, <3>1, SameDays DEF Others, dVars
    <3> QED BY <3>2 DEF SyncNext
  <2>2. CASE Night
    BY <2>1, <2>2, SameDays DEF Night, Tick
  <2>3. CASE StatementCalls
    BY <2>1, <2>3, StatementsDay DEF StatementCalls, InCalendar
  <2>4. CASE TransactionCalls
    BY <2>1, <2>4, TransactionsDay DEF TransactionCalls, InCalendar
  <2>5. CASE SummaryCalls
    BY <2>1, <2>5, SummaryDay DEF SummaryCalls, InCalendar
  <2>6. CASE DetailedRuns
    BY <2>6 DEF DetailedRuns, SyncNext, Proc
  <2>7. CASE UNCHANGED walletVars
    BY <2>7 DEF walletVars, dVars, syncVars
  <2> QED BY <2>2, <2>3, <2>4, <2>5, <2>6, <2>7 DEF WalletNext
<1> QED BY <1>1, <1>2, DaysInCalendar, PTL DEF WalletSpec, SyncSpec

\* And the transactions: a summary only reads them, and an import never writes
\* one by way of the statements.
THEOREM WalletKeepsTransactions == WalletSpec => T!Spec
<1>1. WalletInit => T!Init
  BY DEF WalletInit
<1>2. InCalendar /\ [WalletNext]_walletVars => [T!Next]_T!vars
  <2> SUFFICES ASSUME InCalendar, [WalletNext]_walletVars PROVE T!Next \/ UNCHANGED T!vars
    OBVIOUS
  <2>1. ASSUME UNCHANGED tVars, cards \subseteq cards', today' \in {today, today + 1}, today' \in Day
        PROVE  T!Next
    <3>1. today \in Int /\ today <= today'
      BY <2>1, CalendarAssumption DEF InCalendar, Day
    <3>2. T!Elsewhere
      BY <2>1, <3>1, SameDays DEF T!Elsewhere, tVars
    <3> QED BY <3>2 DEF T!Next
  <2>2. CASE Night
    BY <2>1, <2>2, SameDays DEF Night, Tick
  <2>3. CASE StatementCalls
    BY <2>1, <2>3, StatementsDay DEF StatementCalls, InCalendar
  <2>4. CASE TransactionCalls
    BY <2>4 DEF TransactionCalls, T!Next
  <2>5. CASE SummaryCalls
    BY <2>1, <2>5, SummaryDay DEF SummaryCalls, tVars, InCalendar
  <2>6. CASE DetailedRuns
    BY <2>1, <2>6, DetailedDay DEF DetailedRuns, InCalendar
  <2>7. CASE UNCHANGED walletVars
    BY <2>7 DEF walletVars, tVars, T!vars
  <2> QED BY <2>2, <2>3, <2>4, <2>5, <2>6, <2>7 DEF WalletNext
<1> QED BY <1>1, <1>2, DaysInCalendar, PTL DEF WalletSpec, T!Spec

-----------------------------------------------------------------------------
(* What was proved of a part, in the wallet *)

\* Imports, clerks, syncs and the script keep to their types, whatever runs.
THEOREM WalletPartTypes == WalletSpec => [](TypeOK /\ SyncTypes)
<1>1. WalletSpec => []TypeOK
  BY WalletKeepsStatements, StatementTypes
<1>2. WalletSpec => []SyncTypes
  BY WalletKeepsDetailedSync, DetailedTypes
<1> QED BY <1>1, <1>2, PTL

\* In the wallet too, a card for which an import dealt with the bill of the running
\* month is not shown as waiting for it, unless its latest statement's sync month
\* was typed in as an earlier one.
THEOREM WalletSettles == WalletSpec => []SyncSettles
BY WalletKeepsStatements, SettledMonths

\* In the wallet too, no import changes or removes a statement that is there.
THEOREM WalletEditsSurvive == WalletSpec => EditsSurvive
BY WalletKeepsStatements, EditsOutliveSyncs

\* In the wallet too, an import files a bill beside the statement of its due month
\* only if that one was typed in while the import was under way.
THEOREM WalletFilesOnce == WalletSpec => FiledOnce
BY WalletKeepsStatements, BillsFiledOnce

\* In the wallet too, a bill behind its card's watermark is wholly stored, or some
\* run turned away from it for one of the three reasons there are, if its source
\* has a key of its own.
THEOREM WalletAccountsForPassed == WalletSpec => []PassedIsAccounted
BY WalletKeepsDetailedSync, PassedBillsAreAccounted

\* In the wallet too, what is tied to a statement stays tied.
THEOREM WalletKeepsLinks == WalletSpec => LinksKept
BY WalletKeepsDetailedSync, LinksAreKept

\* In the wallet too, only overlapping runs, or one that died, store a bill twice.
THEOREM WalletReplays == WalletSpec => []MixedNeedsReplay
BY WalletKeepsDetailedSync, ReplayedOnlyByOverlap

-----------------------------------------------------------------------------
(* The cycle of a card *)

\* The instance's calendar is the wallet's.
LEMMA SameMonth == \A day : C!MonthOf(day) = MonthOf(day)
BY DEF C!MonthOf, C!Month, MonthOf, Month

\* A purchase made today is in today's cycle of its card, for any calendar and
\* any cycle day that is at most one past the end of the last month.
THEOREM TodayIsCounted == WalletSpec => []TodayCounted
<1>1. InCalendar => TodayCounted
  <2> SUFFICES ASSUME today \in Day, NEW dom \in Nat, C!MonthOf(today) > 0,
                      dom <= C!LengthOf(C!MonthOf(today) - 1) + 1
               PROVE  today \in C!CycleDays(today, dom)
    <3>1. \A c \in Card : C!ResolvedDay(CycleDay[c]) \in Nat
      BY CalendarAssumption, WalletAssumption DEF C!ResolvedDay
    <3> QED BY <3>1 DEF InCalendar, TodayCounted, C!TodayCounted
  <2> DEFINE m == C!MonthOf(today)
             first == FirstDay[m]
             last == FirstDay[m - 1]
  <2>1. m \in Month /\ m - 1 \in Month /\ first <= today /\ first \in Nat /\ last \in Nat /\ today \in Nat
    <3>1. m = MonthOf(today) /\ m > 0
      BY SameMonth
    <3>2. m \in Month /\ first <= today
      BY <3>1, MonthOfDay
    <3> HIDE DEF m
    <3>3. m - 1 \in Month /\ m \in 0 .. LastMonth + 1 /\ m - 1 \in 0 .. LastMonth + 1
      <4>1. LastMonth \in Nat /\ m \in 0 .. LastMonth /\ m > 0
        BY <3>1, <3>2, CalendarAssumption DEF Month
      <4> QED BY <4>1 DEF Month
    <3>4. first \in Nat /\ last \in Nat
      BY <3>3, CalendarAssumption
    <3>5. today \in Nat
      BY CalendarAssumption DEF Day
    <3> QED BY <3>2, <3>3, <3>4, <3>5
  <2>2. C!DayOfMonth(today) = today - first + 1
    BY DEF C!DayOfMonth
  <2>3. C!LengthOf(m - 1) = first - last
    <3>1. m \in Int
      BY <2>1, CalendarAssumption DEF Month
    <3> HIDE DEF m
    <3>2. m - 1 + 1 = m
      BY <3>1
    <3> QED BY <3>2 DEF C!LengthOf
  <2> HIDE DEF m
  <2>4. C!CycleStart(today, dom) = IF today - first + 1 >= dom THEN first + dom - 1 ELSE last + dom - 1
    BY <2>2 DEF C!CycleStart, C!NewDate, m
  <2>5. C!CycleStart(today, dom) <= today /\ C!CycleStart(today, dom) \in Int
    BY <2>1, <2>3, <2>4 DEF m
  <2> QED BY <2>1, <2>5 DEF C!CycleDays
<1> QED BY <1>1, DaysInCalendar, PTL

-----------------------------------------------------------------------------
(* The table of transactions *)

\* Counting in the instances is counting.
LEMMA SameCount == \A S : T!Cardinality(S) = Cardinality(S) /\ C!Cardinality(S) = Cardinality(S)
BY DEF T!Cardinality, C!Cardinality, Cardinality

FiniteTable == IsFiniteSet(T!Live(txns))

\* A call refers to a row that is there or was there: ids do not come back.
EditsRefer ==
    \A e \in Editor :
        /\ editing[e].pc # "idle" => editing[e].id \in T!Live(txns) \cup removed
        /\ editing[e].pc = "update" => editing[e].row \in T!Row

\* No purchase is spread over more months than there may be, or is about to be.
Spreads(adj) == adj.kind = "AMORTIZE" => adj.n \in 2 .. MaxMonths
SpreadsBounded ==
    /\ \A t \in T!Live(txns) : Spreads(txns[t].adj)
    /\ \A e \in Editor : editing[e].pc = "adjust" => Spreads(editing[e].adj)

\* A share is less than the whole, and one that is about to be written is, but
\* where the amount has been changed.
Fits(adj, amount) == adj.kind = "SPLIT" => adj.n < amount
SharesFit ==
    \A t \in T!Live(txns) \ repriced :
        /\ Fits(txns[t].adj, txns[t].amount)
        /\ \A e \in Editor :
             editing[e].pc = "adjust" /\ editing[e].id = t => Fits(editing[e].adj, txns[t].amount)

Table == /\ T!TypeOK
         /\ cards \in SUBSET Card
         /\ today \in T!Day
         /\ FiniteTable
         /\ EditsRefer
         /\ SpreadsBounded
         /\ SharesFit

\* What the calls let through is an adjustment that fits.
LEMMA AcceptableFits ==
    ASSUME NEW row \in T!Row, NEW adj \in {T!NoAdjustment} \cup T!Acceptable(row)
    PROVE  adj \in T!Adjustments /\ Spreads(adj) /\ Fits(adj, row.amount)
<1>1. row.amount \in Nat /\ MaxMonths \in Nat
  BY WalletAssumption, WalletBounds DEF T!Row
<1>2. CASE adj = T!NoAdjustment
  BY <1>2 DEF T!NoAdjustment, T!Adjustments, Spreads, Fits
<1>3. CASE adj \in T!Acceptable(row)
  <2>1. CASE \E share \in 1 .. row.amount - 1 : adj = [kind |-> "SPLIT", n |-> share]
    BY <1>1, <2>1 DEF T!Adjustments, Spreads, Fits
  <2>2. CASE adj = [kind |-> "EXCLUDE", n |-> 0]
    BY <2>2 DEF T!Adjustments, Spreads, Fits
  <2>3. CASE \E months \in 2 .. MaxMonths : adj = [kind |-> "AMORTIZE", n |-> months]
    BY <1>1, <2>3 DEF T!Adjustments, Spreads, Fits
  <2> QED BY <1>3, <2>1, <2>2, <2>3 DEF T!Acceptable
<1> QED BY <1>2, <1>3

\* A write changes one row, and leaves the table finite.
LEMMA SaveRow ==
    ASSUME T!TypeOK, FiniteTable, NEW t \in Txn, NEW row \in T!Row \cup {None}, T!Save(t, row)
    PROVE  /\ txns' \in [Txn -> T!Row \cup {None}]
           /\ txns' = [txns EXCEPT ![t] = row]
           /\ T!Live(txns') = IF row = None THEN T!Live(txns) \ {t} ELSE T!Live(txns) \cup {t}
           /\ FiniteTable'
           /\ steady' \in [Reader -> SUBSET Txn]
           /\ untimed' \in [Reader -> BOOLEAN]
<1>1. /\ txns' \in [Txn -> T!Row \cup {None}]
      /\ txns' = [txns EXCEPT ![t] = row]
  BY DEF T!Save, T!TypeOK
<1>2. T!Live(txns') = IF row = None THEN T!Live(txns) \ {t} ELSE T!Live(txns) \cup {t}
  BY <1>1 DEF T!Live, T!TypeOK
<1>3. IsFiniteSet(T!Live(txns) \ {t}) /\ IsFiniteSet(T!Live(txns) \cup {t})
  BY FS_AddElement, FS_RemoveElement DEF FiniteTable
<1>4. FiniteTable'
  BY <1>2, <1>3 DEF FiniteTable
<1>5. steady' \in [Reader -> SUBSET Txn]
  BY DEF T!Save, T!TypeOK
<1>6. untimed' \in [Reader -> BOOLEAN]
  <2>1. untimed' = [r \in Reader |->
          untimed[r] \/ \E u \in T!Where(txns', scan[r].from) : txns'[u].ts = None]
    BY DEF T!Save
  <2> QED BY <2>1
<1> QED BY <1>1, <1>2, <1>4, <1>5, <1>6

\* Midnight, and the moment after it, are in the calendar.
LEMMA InstantOf ==
    ASSUME NEW day \in T!Day
    PROVE  T!Midnight(day) \in T!Instant /\ T!Midnight(day) + 1 \in T!Instant
<1>1. day \in Nat /\ FirstDay[LastMonth + 1] \in Nat /\ day <= FirstDay[LastMonth + 1] - 1
  BY SameDays, CalendarAssumption DEF Day
<1> DEFINE top == FirstDay[LastMonth + 1]
<1>2. 2 * day \in 0 .. 2 * top /\ 2 * day + 1 \in 0 .. 2 * top
  <2> HIDE DEF top
  <2>1. day \in Nat /\ top \in Nat /\ day <= top - 1
    BY <1>1 DEF top
  <2> QED BY <2>1
<1> QED BY <1>2 DEF T!Midnight, T!Instant

\* What a write must respect for the table to stay sound.
LEMMA SaveTable ==
    ASSUME Table, NEW t \in Txn, NEW row \in T!Row \cup {None}, T!Save(t, row),
           t \in removed' \/ row # None, removed \subseteq removed', removed' \in SUBSET Txn,
           repriced \subseteq repriced', repriced' \in SUBSET Txn,
           UNCHANGED <<today, cards, scan>>,
           editing' \in [Editor -> T!Editing],
           \A e \in Editor : editing'[e] = editing[e] \/ editing'[e].pc = "idle",
           row # None => Spreads(row.adj),
           row # None /\ t \notin repriced' =>
             /\ Fits(row.adj, row.amount)
             /\ \A e \in Editor :
                  editing'[e].pc = "adjust" /\ editing'[e].id = t => Fits(editing'[e].adj, row.amount)
    PROVE  Table'
<1>1. /\ txns' \in [Txn -> T!Row \cup {None}]
      /\ txns' = [txns EXCEPT ![t] = row]
      /\ T!Live(txns') = IF row = None THEN T!Live(txns) \ {t} ELSE T!Live(txns) \cup {t}
      /\ FiniteTable'
      /\ steady' \in [Reader -> SUBSET Txn]
      /\ untimed' \in [Reader -> BOOLEAN]
  BY SaveRow DEF Table
<1>2. T!TypeOK'
  BY <1>1 DEF Table, T!TypeOK
<1>3. txns'[t] = row /\ \A u \in Txn : u # t => txns'[u] = txns[u]
  BY <1>1 DEF Table, T!TypeOK
<1>4. T!Live(txns) \subseteq Txn /\ T!Live(txns') \subseteq Txn
  BY DEF T!Live
<1>5. EditsRefer'
  <2> SUFFICES ASSUME NEW e \in Editor, editing'[e].pc # "idle"
               PROVE  /\ editing'[e].id \in T!Live(txns') \cup removed'
                      /\ editing'[e].pc = "update" => editing'[e].row \in T!Row
    BY DEF EditsRefer
  <2>1. editing'[e] = editing[e]
    OBVIOUS
  <2>2. /\ editing[e].id \in T!Live(txns) \cup removed
        /\ editing[e].pc = "update" => editing[e].row \in T!Row
    BY <2>1 DEF Table, EditsRefer
  <2> QED BY <1>1, <2>1, <2>2
<1>6. SpreadsBounded'
  <2>1. ASSUME NEW u \in T!Live(txns') PROVE Spreads(txns'[u].adj)
    <3>1. CASE u = t
      BY <1>1, <1>3, <3>1
    <3>2. CASE u # t
      <4>1. u \in T!Live(txns) /\ txns'[u] = txns[u]
        BY <1>1, <1>3, <1>4, <3>2
      <4> QED BY <4>1 DEF Table, SpreadsBounded
    <3> QED BY <3>1, <3>2
  <2>2. ASSUME NEW e \in Editor, editing'[e].pc = "adjust" PROVE Spreads(editing'[e].adj)
    <3>1. editing'[e] = editing[e]
      BY <2>2
    <3> QED BY <2>2, <3>1 DEF Table, SpreadsBounded
  <2> QED BY <2>1, <2>2 DEF SpreadsBounded
<1>7. SharesFit'
  <2> SUFFICES ASSUME NEW u \in T!Live(txns') \ repriced'
               PROVE  /\ Fits(txns'[u].adj, txns'[u].amount)
                      /\ \A e \in Editor : editing'[e].pc = "adjust" /\ editing'[e].id = u
                           => Fits(editing'[e].adj, txns'[u].amount)
    BY DEF SharesFit
  <2>1. CASE u = t
    BY <1>1, <1>3, <2>1
  <2>2. CASE u # t
    <3>1. u \in T!Live(txns) \ repriced /\ txns'[u] = txns[u]
      BY <1>1, <1>3, <1>4, <2>2
    <3>2. Fits(txns[u].adj, txns[u].amount)
      BY <3>1 DEF Table, SharesFit
    <3>3. ASSUME NEW e \in Editor, editing'[e].pc = "adjust", editing'[e].id = u
          PROVE  Fits(editing'[e].adj, txns[u].amount)
      <4>1. editing'[e] = editing[e]
        BY <3>3
      <4> QED BY <3>1, <3>3, <4>1 DEF Table, SharesFit
    <3> QED BY <3>1, <3>2, <3>3
  <2> QED BY <2>1, <2>2
<1>8. cards' \in SUBSET Card /\ today' \in T!Day
  BY DEF Table
<1> QED BY <1>1, <1>2, <1>5, <1>6, <1>7, <1>8 DEF Table

\* A row that is there is a row.
LEMMA LiveRow ==
    ASSUME T!TypeOK, NEW t \in T!Live(txns)
    PROVE  t \in Txn /\ txns[t] \in T!Row /\ txns[t] # None
BY DEF T!TypeOK, T!Live

LEMMA CreateTable ==
    ASSUME Table, NEW t \in Txn, T!Create(t)
    PROVE  Table'
<1>1. PICK c \in cards, day \in TypedDays, timed \in BOOLEAN, amount \in Amount :
        T!Save(t, [card |-> c, day |-> day, amount |-> amount, adj |-> T!NoAdjustment,
                   ts |-> IF timed THEN T!Midnight(day) + 1 ELSE None])
  BY DEF T!Create
<1> DEFINE row == [card |-> c, day |-> day, amount |-> amount, adj |-> T!NoAdjustment,
                   ts |-> IF timed THEN T!Midnight(day) + 1 ELSE None]
<1>2. row \in T!Row /\ row.adj = T!NoAdjustment
  <2>1. c \in Card /\ day \in T!Day
    BY WalletBounds, SameDays DEF Table
  <2>2. T!Midnight(day) + 1 \in T!Instant
    BY <2>1, InstantOf
  <2> QED BY <2>1, <2>2 DEF T!Row, T!NoAdjustment, T!Adjustments
<1>3. row # None
  BY <1>2, EarlierTables
<1>4. Spreads(row.adj) /\ Fits(row.adj, row.amount)
  BY <1>2, AcceptableFits
<1>5. \A e \in Editor : ~(editing[e].pc = "adjust" /\ editing[e].id = t)
  <2>1. t \notin T!Live(txns) \cup removed
    BY DEF T!Create
  <2> QED BY <2>1 DEF Table, EditsRefer
<1>6. UNCHANGED <<today, cards, removed, editing, scan, repriced>>
  BY DEF T!Create
<1>7. T!Save(t, row)
  BY <1>1
<1>8. /\ editing' \in [Editor -> T!Editing]
      /\ removed' \in SUBSET Txn
      /\ repriced' \in SUBSET Txn
  BY <1>6 DEF Table, T!TypeOK
<1>9. \A e \in Editor : editing'[e] = editing[e]
  BY <1>6
<1> HIDE DEF row
<1> QED BY <1>2, <1>3, <1>4, <1>5, <1>6, <1>7, <1>8, <1>9, SaveTable

LEMMA RemoveTable ==
    ASSUME Table, NEW t \in Txn, T!Remove(t)
    PROVE  Table'
<1>1. /\ T!Save(t, None)
      /\ removed' = removed \cup {t}
      /\ UNCHANGED <<today, cards, editing, scan, repriced>>
  BY DEF T!Remove
<1>2. /\ editing' \in [Editor -> T!Editing]
      /\ removed' \in SUBSET Txn
      /\ repriced' \in SUBSET Txn
  BY <1>1 DEF Table, T!TypeOK
<1>3. \A e \in Editor : editing'[e] = editing[e]
  BY <1>1
<1> QED BY <1>1, <1>2, <1>3, SaveTable

\* What a call may have in hand.
GoodEdit(edit) ==
    /\ edit.pc # "idle" => edit.id \in T!Live(txns) \cup removed
    /\ edit.pc = "update" => edit.row \in T!Row
    /\ edit.pc = "adjust" =>
         /\ Spreads(edit.adj)
         /\ edit.id \in T!Live(txns) \ repriced => Fits(edit.adj, txns[edit.id].amount)

\* A step that leaves the rows alone.
LEMMA EditTable ==
    ASSUME Table, UNCHANGED <<txns, removed, repriced>>, cards' \in SUBSET Card, today' \in T!Day,
           editing' \in [Editor -> T!Editing], scan' \in [Reader -> T!Scan],
           steady' \in [Reader -> SUBSET Txn], untimed' \in [Reader -> BOOLEAN],
           \A e \in Editor : editing'[e] = editing[e] \/ GoodEdit(editing'[e])
    PROVE  Table'
<1>1. T!TypeOK'
  BY DEF Table, T!TypeOK
<1>2. T!Live(txns') = T!Live(txns)
  OBVIOUS
<1>3. \A e \in Editor : GoodEdit(editing[e])
  BY DEF Table, EditsRefer, SpreadsBounded, SharesFit, GoodEdit
<1>4. \A e \in Editor : GoodEdit(editing'[e])
  BY <1>3
<1>5. EditsRefer'
  BY <1>2, <1>4 DEF EditsRefer, GoodEdit
<1>6. SpreadsBounded'
  BY <1>2, <1>4 DEF SpreadsBounded, GoodEdit, Table
<1>7. SharesFit'
  BY <1>2, <1>4 DEF SharesFit, GoodEdit, Table
<1>8. FiniteTable'
  BY <1>2 DEF FiniteTable, Table
<1> QED BY <1>1, <1>5, <1>6, <1>7, <1>8 DEF Table

\* A call that is over has nothing in hand.
LEMMA DoneEditing ==
    ASSUME T!TypeOK, NEW e \in Editor, editing' = [editing EXCEPT ![e] = T!NotEditing]
    PROVE  /\ editing' \in [Editor -> T!Editing]
           /\ \A d \in Editor : editing'[d] = editing[d] \/ editing'[d].pc = "idle"
           /\ editing'[e].pc = "idle"
<1>1. T!NotEditing \in T!Editing /\ T!NotEditing.pc = "idle"
  BY DEF T!NotEditing, T!Editing, T!NoAdjustment, T!Adjustments
<1> QED BY <1>1 DEF T!TypeOK

\* A call whose row is gone does nothing.
LEMMA GoneTable ==
    ASSUME Table, NEW e \in Editor, editing' = [editing EXCEPT ![e] = T!NotEditing],
           UNCHANGED <<today, cards, txns, removed, scan, steady, untimed, repriced>>
    PROVE  Table'
<1>1. /\ editing' \in [Editor -> T!Editing]
      /\ \A d \in Editor : editing'[d] = editing[d] \/ editing'[d].pc = "idle"
  BY DoneEditing DEF Table
<1>2. \A d \in Editor : editing'[d] = editing[d] \/ GoodEdit(editing'[d])
  BY <1>1 DEF GoodEdit
<1>3. /\ scan' \in [Reader -> T!Scan]
      /\ steady' \in [Reader -> SUBSET Txn]
      /\ untimed' \in [Reader -> BOOLEAN]
  BY DEF Table, T!TypeOK
<1>4. cards' \in SUBSET Card /\ today' \in T!Day
  BY DEF Table
<1> QED BY <1>1, <1>2, <1>3, <1>4, EditTable

LEMMA WriteRowTable ==
    ASSUME Table, NEW e \in Editor, T!WriteRow(e)
    PROVE  Table'
<1> DEFINE t == editing[e].id
           new == editing[e].row
           row == [new EXCEPT !.adj = txns[t].adj, !.ts = IF @ = None THEN txns[t].ts ELSE @]
<1>0. /\ editing[e].pc = "update"
      /\ editing' = [editing EXCEPT ![e] = T!NotEditing]
      /\ UNCHANGED <<today, cards, removed, scan>>
  BY DEF T!WriteRow
<1>1. CASE t \notin T!Live(txns)
  <2>1. UNCHANGED <<txns, steady, untimed, repriced>>
    BY <1>1 DEF T!WriteRow
  <2> QED BY <1>0, <2>1, GoneTable
<1>2. CASE t \in T!Live(txns)
  <2>1. /\ T!Save(t, row)
        /\ repriced' = IF new.amount # txns[t].amount THEN repriced \cup {t} ELSE repriced
    BY <1>2 DEF T!WriteRow
  <2>2. t \in Txn /\ txns[t] \in T!Row /\ new \in T!Row
    BY <1>0, <1>2, LiveRow DEF Table, EditsRefer
  <2>3. row \in T!Row /\ row.adj = txns[t].adj /\ row.amount = new.amount
    BY <2>2 DEF T!Row
  <2>4. row # None
    BY <2>3, EarlierTables
  <2>5. Spreads(row.adj)
    BY <1>2, <2>3 DEF Table, SpreadsBounded
  <2>6. /\ editing' \in [Editor -> T!Editing]
        /\ \A d \in Editor : editing'[d] = editing[d] \/ editing'[d].pc = "idle"
    BY <1>0, DoneEditing DEF Table
  <2>7. ASSUME t \notin repriced'
        PROVE  /\ Fits(row.adj, row.amount)
               /\ \A d \in Editor : editing'[d].pc = "adjust" /\ editing'[d].id = t
                    => Fits(editing'[d].adj, row.amount)
    <3>1. t \in T!Live(txns) \ repriced /\ row.amount = txns[t].amount
      BY <1>2, <2>1, <2>3, <2>7
    <3>2. /\ Fits(txns[t].adj, txns[t].amount)
          /\ \A d \in Editor : editing[d].pc = "adjust" /\ editing[d].id = t
               => Fits(editing[d].adj, txns[t].amount)
      BY <3>1 DEF Table, SharesFit
    <3> HIDE DEF row, t
    <3> QED BY <2>3, <2>6, <3>1, <3>2
  <2>8. removed' \in SUBSET Txn /\ repriced' \in SUBSET Txn /\ repriced \subseteq repriced'
    BY <1>0, <2>1, <2>2 DEF Table, T!TypeOK
  <2> HIDE DEF row, t, new
  <2> QED BY <1>0, <2>1, <2>2, <2>3, <2>4, <2>5, <2>6, <2>7, <2>8, SaveTable
<1> QED BY <1>1, <1>2

\* A call that gives a row another adjustment, one that fits.
LEMMA AdjustTable ==
    ASSUME Table, NEW e \in Editor, NEW t \in T!Live(txns), NEW adj \in T!Adjustments,
           T!Save(t, [txns[t] EXCEPT !.adj = adj]),
           editing' = [editing EXCEPT ![e] = T!NotEditing],
           UNCHANGED <<today, cards, removed, scan, repriced>>,
           Spreads(adj), t \notin repriced => Fits(adj, txns[t].amount)
    PROVE  Table'
<1> DEFINE row == [txns[t] EXCEPT !.adj = adj]
<1>1. t \in Txn /\ txns[t] \in T!Row
  BY LiveRow DEF Table
<1>2. row \in T!Row /\ row.adj = adj /\ row.amount = txns[t].amount
  BY <1>1 DEF T!Row
<1>3. row # None
  BY <1>2, EarlierTables
<1>4. /\ editing' \in [Editor -> T!Editing]
      /\ \A d \in Editor : editing'[d] = editing[d] \/ editing'[d].pc = "idle"
  BY DoneEditing DEF Table
<1>5. ASSUME t \notin repriced'
      PROVE  /\ Fits(row.adj, row.amount)
             /\ \A d \in Editor : editing'[d].pc = "adjust" /\ editing'[d].id = t
                  => Fits(editing'[d].adj, row.amount)
  <2>1. t \in T!Live(txns) \ repriced
    BY <1>5
  <2>2. \A d \in Editor : editing[d].pc = "adjust" /\ editing[d].id = t
          => Fits(editing[d].adj, txns[t].amount)
    BY <2>1 DEF Table, SharesFit
  <2> HIDE DEF row
  <2> QED BY <1>2, <1>4, <2>1, <2>2
<1>6. removed' \in SUBSET Txn /\ repriced' \in SUBSET Txn
  BY DEF Table, T!TypeOK
<1>7. T!Save(t, row)
  OBVIOUS
<1> HIDE DEF row
<1> QED BY <1>1, <1>2, <1>3, <1>4, <1>5, <1>6, <1>7, SaveTable

LEMMA WriteAdjustmentTable ==
    ASSUME Table, NEW e \in Editor, T!WriteAdjustment(e)
    PROVE  Table'
<1>0. /\ editing[e].pc = "adjust"
      /\ editing' = [editing EXCEPT ![e] = T!NotEditing]
      /\ UNCHANGED <<today, cards, removed, scan, repriced>>
  BY DEF T!WriteAdjustment
<1>1. CASE editing[e].id \notin T!Live(txns)
  <2>1. UNCHANGED <<txns, steady, untimed>>
    BY <1>1 DEF T!WriteAdjustment
  <2> QED BY <1>0, <2>1, GoneTable
<1>2. CASE editing[e].id \in T!Live(txns)
  <2>1. T!Save(editing[e].id, [txns[editing[e].id] EXCEPT !.adj = editing[e].adj])
    BY <1>2 DEF T!WriteAdjustment
  <2>2. editing[e].adj \in T!Adjustments
    BY DEF Table, T!TypeOK, T!Editing
  <2>3. Spreads(editing[e].adj)
    BY <1>0 DEF Table, SpreadsBounded
  <2>4. editing[e].id \notin repriced => Fits(editing[e].adj, txns[editing[e].id].amount)
    BY <1>0, <1>2 DEF Table, SharesFit
  <2> QED BY <1>0, <1>2, <2>1, <2>2, <2>3, <2>4, AdjustTable
<1> QED BY <1>1, <1>2

LEMMA DropAdjustmentTable ==
    ASSUME Table, NEW e \in Editor, T!DropAdjustment(e)
    PROVE  Table'
<1>0. /\ editing' = [editing EXCEPT ![e] = T!NotEditing]
      /\ UNCHANGED <<today, cards, removed, scan, repriced>>
  BY DEF T!DropAdjustment
<1>1. CASE editing[e].id \notin T!Live(txns)
  <2>1. UNCHANGED <<txns, steady, untimed>>
    BY <1>1 DEF T!DropAdjustment
  <2> QED BY <1>0, <2>1, GoneTable
<1>2. CASE editing[e].id \in T!Live(txns)
  <2>1. T!Save(editing[e].id, [txns[editing[e].id] EXCEPT !.adj = T!NoAdjustment])
    BY <1>2 DEF T!DropAdjustment
  <2>2. txns[editing[e].id] \in T!Row
    BY <1>2, LiveRow DEF Table
  <2>3. /\ T!NoAdjustment \in T!Adjustments
        /\ Spreads(T!NoAdjustment)
        /\ Fits(T!NoAdjustment, txns[editing[e].id].amount)
    BY <2>2, AcceptableFits
  <2> QED BY <1>0, <1>2, <2>1, <2>3, AdjustTable
<1> QED BY <1>1, <1>2

\* The calls read before they write.
LEMMA EditorCallReads ==
    ASSUME NEW e, NEW t, T!EditorCall(e, t)
    PROVE  /\ UNCHANGED <<today, cards, txns, removed, scan, steady, untimed, repriced>>
           /\ t \in T!Live(txns)
<1>1. CASE T!ReadRow(e, t)
  BY <1>1 DEF T!ReadRow
<1>2. CASE T!ReadForAdjustment(e, t)
  BY <1>2 DEF T!ReadForAdjustment
<1>3. CASE T!FindAdjustment(e, t)
  BY <1>3 DEF T!FindAdjustment
<1> QED BY <1>1, <1>2, <1>3 DEF T!EditorCall

LEMMA EditorCallTable ==
    ASSUME Table, NEW e \in Editor, NEW t \in Txn, T!EditorCall(e, t)
    PROVE  Table'
<1>1. UNCHANGED <<today, cards, txns, removed, scan, steady, untimed, repriced>> /\ t \in T!Live(txns)
  BY EditorCallReads
<1>2. txns[t] \in T!Row
  BY <1>1, LiveRow DEF Table
<1>3. /\ scan' \in [Reader -> T!Scan]
      /\ steady' \in [Reader -> SUBSET Txn]
      /\ untimed' \in [Reader -> BOOLEAN]
      /\ cards' \in SUBSET Card
      /\ today' \in T!Day
  BY <1>1 DEF Table, T!TypeOK
<1>4. ASSUME NEW edit \in T!Editing, editing' = [editing EXCEPT ![e] = edit], GoodEdit(edit)
      PROVE  Table'
  <2>1. /\ editing' \in [Editor -> T!Editing]
        /\ \A d \in Editor : editing'[d] = editing[d] \/ GoodEdit(editing'[d])
    BY <1>4 DEF Table, T!TypeOK
  <2> QED BY <1>1, <1>3, <2>1, EditTable
<1>5. T!NotEditing \in T!Editing
  BY DEF T!NotEditing, T!Editing, T!NoAdjustment, T!Adjustments
<1>6. CASE T!ReadRow(e, t)
  <2>1. PICK row \in {[txns[t] EXCEPT !.amount = a] : a \in Amount}
               \cup {[txns[t] EXCEPT !.day = day] : day \in TypedDays}
               \cup {[txns[t] EXCEPT !.ts = T!Midnight(txns[t].day) + 1]} :
          editing' = [editing EXCEPT ![e] = [T!NotEditing EXCEPT !.pc = "update", !.id = t, !.row = row]]
    BY <1>6 DEF T!ReadRow
  <2>2. row \in T!Row
    <3>1. txns[t].day \in T!Day
      BY <1>2 DEF T!Row
    <3>2. T!Midnight(txns[t].day) + 1 \in T!Instant
      BY <3>1, InstantOf
    <3>3. \A day \in TypedDays : day \in T!Day
      BY WalletBounds, SameDays
    <3> QED BY <1>2, <2>1, <3>2, <3>3 DEF T!Row, Table
  <2> DEFINE edit == [T!NotEditing EXCEPT !.pc = "update", !.id = t, !.row = row]
  <2>3. edit \in T!Editing /\ GoodEdit(edit)
    BY <1>1, <1>5, <2>2 DEF T!Editing, GoodEdit
  <2> QED BY <1>4, <2>1, <2>3
<1>7. CASE T!ReadForAdjustment(e, t)
  <2>1. PICK adj \in T!Acceptable(txns[t]) :
          editing' = [editing EXCEPT ![e] = [T!NotEditing EXCEPT !.pc = "adjust", !.id = t, !.adj = adj]]
    BY <1>7 DEF T!ReadForAdjustment
  <2>2. adj \in T!Adjustments /\ Spreads(adj) /\ Fits(adj, txns[t].amount)
    BY <1>2, AcceptableFits
  <2> DEFINE edit == [T!NotEditing EXCEPT !.pc = "adjust", !.id = t, !.adj = adj]
  <2>3. edit \in T!Editing /\ GoodEdit(edit)
    BY <1>1, <1>5, <2>2 DEF T!Editing, GoodEdit
  <2> QED BY <1>4, <2>1, <2>3
<1>8. CASE T!FindAdjustment(e, t)
  <2> DEFINE edit == [T!NotEditing EXCEPT !.pc = "drop", !.id = t]
  <2>1. edit \in T!Editing /\ GoodEdit(edit)
    BY <1>1, <1>5 DEF T!Editing, GoodEdit
  <2>2. editing' = [editing EXCEPT ![e] = edit]
    BY <1>8 DEF T!FindAdjustment
  <2> QED BY <1>4, <2>1, <2>2
<1> QED BY <1>6, <1>7, <1>8 DEF T!EditorCall

-----------------------------------------------------------------------------
(* The order of a list *)

\* The rows of the table as a scan goes through them.
ByTime == {p \in T!Live(txns) \X T!Live(txns) : T!Before(p[1], p[2])}
ByDate == {p \in T!Live(txns) \X T!Live(txns) : T!BeforeByDate(p[1], p[2])}
Order(mode) == IF mode = "cursor" THEN ByTime ELSE ByDate

\* Rows without a timestamp first, then the newest; the greater id breaks ties.
LEMMA BeforeMeans ==
    ASSUME T!TypeOK, NEW t \in T!Live(txns), NEW u \in T!Live(txns)
    PROVE  /\ t \in Nat /\ u \in Nat
           /\ txns[t].ts \in Nat \cup {None} /\ txns[u].ts \in Nat \cup {None}
           /\ txns[t].day \in Nat /\ txns[u].day \in Nat
           /\ T!Before(t, u) <=>
                \/ txns[t].ts = txns[u].ts /\ t > u
                \/ txns[t].ts = None /\ txns[u].ts # None
                \/ txns[t].ts # None /\ txns[u].ts # None /\ txns[t].ts > txns[u].ts
<1>1. txns[t] \in T!Row /\ txns[u] \in T!Row /\ t \in Nat /\ u \in Nat
  BY LiveRow, WalletAssumption
<1>2. \A row \in T!Row : row.ts \in T!Instant \cup {None} /\ row.day \in T!Day
  BY DEF T!Row
<1>3. T!Instant \subseteq Nat /\ T!Day \subseteq Nat
  BY SameDays, CalendarAssumption DEF T!Instant, Day
<1>4. /\ txns[t].ts \in Nat \cup {None} /\ txns[u].ts \in Nat \cup {None}
      /\ txns[t].day \in Nat /\ txns[u].day \in Nat
  BY <1>1, <1>2, <1>3
<1>5. None \notin Nat
  BY WalletAssumption
<1> DEFINE a == txns[t].ts
           b == txns[u].ts
<1>6. T!Before(t, u) = CASE a = b -> t > u
                         [] a = None /\ b # None -> TRUE
                         [] a # None /\ b = None -> FALSE
                         [] OTHER -> a > b
  BY DEF T!Before
<1>7. a \in Nat \cup {None} /\ b \in Nat \cup {None}
  BY <1>4
<1> HIDE DEF a, b
<1>8. T!Before(t, u) <=>
        \/ a = b /\ t > u
        \/ a = None /\ b # None
        \/ a # None /\ b # None /\ a > b
  <2>1. CASE a = b
    <3>1. T!Before(t, u) <=> t > u
      BY <1>6, <2>1
    <3>2. ~(a = None /\ b # None)
      BY <2>1
    <3>3. ~(a # None /\ b # None /\ a > b)
      BY <1>7, <2>1
    <3> QED BY <2>1, <3>1, <3>2, <3>3, Zenon
  <2>2. CASE a = None /\ b # None
    BY <1>6, <2>2
  <2>3. CASE a # None /\ b = None
    BY <1>6, <2>3
  <2>4. CASE a # None /\ b # None /\ a # b
    <3>1. T!Before(t, u) = (a > b)
      BY <1>6, <2>4
    <3> QED BY <2>4, <3>1
  <2> QED BY <2>1, <2>2, <2>3, <2>4
<1> QED BY <1>1, <1>4, <1>8 DEF a, b

LEMMA ListsInRow ==
    ASSUME T!TypeOK, NEW S \in SUBSET T!Live(txns), NEW mode
    PROVE  InRow(Order(mode), S)
<1>1. InRow(ByTime, S)
  <2>1. \A t, u \in S : <<t, u>> \in ByTime <=> T!Before(t, u)
    BY DEF ByTime
  <2>2. \A t \in S : ~T!Before(t, t)
    BY BeforeMeans
  <2>3. ASSUME NEW t \in S, NEW u \in S, NEW w \in S, T!Before(t, u), T!Before(u, w)
        PROVE  T!Before(t, w)
    <3>1. None \notin Nat
      BY WalletAssumption
    <3>2. /\ t \in Nat /\ u \in Nat /\ w \in Nat
          /\ txns[t].ts \in Nat \cup {None} /\ txns[u].ts \in Nat \cup {None} /\ txns[w].ts \in Nat \cup {None}
      BY BeforeMeans
    <3>3. /\ \/ txns[t].ts = txns[u].ts /\ t > u
             \/ txns[t].ts = None /\ txns[u].ts # None
             \/ txns[t].ts # None /\ txns[u].ts # None /\ txns[t].ts > txns[u].ts
          /\ \/ txns[u].ts = txns[w].ts /\ u > w
             \/ txns[u].ts = None /\ txns[w].ts # None
             \/ txns[u].ts # None /\ txns[w].ts # None /\ txns[u].ts > txns[w].ts
      BY <2>3, BeforeMeans
    <3>4. \/ txns[t].ts = txns[w].ts /\ t > w
          \/ txns[t].ts = None /\ txns[w].ts # None
          \/ txns[t].ts # None /\ txns[w].ts # None /\ txns[t].ts > txns[w].ts
      BY <3>1, <3>2, <3>3
    <3> QED BY <3>4, BeforeMeans
  <2>4. ASSUME NEW t \in S, NEW u \in S, t # u PROVE T!Before(t, u) \/ T!Before(u, t)
    <3>1. None \notin Nat
      BY WalletAssumption
    <3>2. /\ t \in Nat /\ u \in Nat
          /\ txns[t].ts \in Nat \cup {None} /\ txns[u].ts \in Nat \cup {None}
      BY BeforeMeans
    <3>3. \/ txns[t].ts = txns[u].ts /\ (t > u \/ u > t)
          \/ txns[t].ts = None /\ txns[u].ts # None
          \/ txns[u].ts = None /\ txns[t].ts # None
          \/ txns[t].ts # None /\ txns[u].ts # None /\ (txns[t].ts > txns[u].ts \/ txns[u].ts > txns[t].ts)
      BY <2>4, <3>1, <3>2
    <3>4. CASE \/ txns[t].ts = txns[u].ts /\ t > u
               \/ txns[t].ts = None /\ txns[u].ts # None
               \/ txns[t].ts # None /\ txns[u].ts # None /\ txns[t].ts > txns[u].ts
      <4>1. T!Before(t, u)
        BY <3>4, BeforeMeans
      <4> QED BY <4>1
    <3>5. CASE \/ txns[u].ts = txns[t].ts /\ u > t
               \/ txns[u].ts = None /\ txns[t].ts # None
               \/ txns[u].ts # None /\ txns[t].ts # None /\ txns[u].ts > txns[t].ts
      <4>1. T!Before(u, t)
        BY <3>5, BeforeMeans
      <4> QED BY <4>1
    <3> QED BY <3>3, <3>4, <3>5
  <2> QED BY <2>1, <2>2, <2>3, <2>4 DEF InRow
<1>2. InRow(ByDate, S)
  <2>1. \A t, u \in S : <<t, u>> \in ByDate <=> T!BeforeByDate(t, u)
    BY DEF ByDate
  <2>2. \A t \in S : t \in Nat /\ txns[t].day \in Nat
    BY BeforeMeans
  <2> QED BY <2>1, <2>2 DEF InRow, T!BeforeByDate
<1> QED BY <1>1, <1>2 DEF Order

\* A page is the top of a list.
LEMMA FirstIsTop ==
    ASSUME NEW S \in SUBSET T!Live(txns), NEW n, NEW mode
    PROVE  T!First(S, n, mode) = Top(Order(mode), S, n)
<1>1. ASSUME NEW t \in S
      PROVE  {u \in S : IF mode = "cursor" THEN T!Before(u, t) ELSE T!BeforeByDate(u, t)}
                = Preceding(Order(mode), S, t)
  BY DEF Preceding, Order, ByTime, ByDate
<1>2. T!First(S, n, mode) =
        {t \in S : Cardinality({u \in S : IF mode = "cursor" THEN T!Before(u, t)
                                                        ELSE T!BeforeByDate(u, t)}) < n}
  BY SameCount DEF T!First
<1> QED BY <1>1, <1>2 DEF Top

-----------------------------------------------------------------------------
(* Scans *)

\* What comes after a cursor.
Beyond(ts, t, cursor) ==
    \/ cursor = None
    \/ ts # None /\ (ts < cursor.ts \/ (ts = cursor.ts /\ t < cursor.id))

LEMMA AfterMeans ==
    \A S, cursor : T!After(S, cursor) = {t \in S : Beyond(txns[t].ts, t, cursor)}
BY DEF T!After, Beyond

\* A scan by cursor has had every untouched row up to its cursor once, and none
\* beyond it.
CursorScan(r) ==
    scan[r].pc = "paging" /\ scan[r].mode = "cursor" /\ ~untimed[r] =>
        /\ \A t \in T!Where(txns, scan[r].from) : txns[t].ts # None
        /\ steady[r] \subseteq T!Where(txns, scan[r].from)
        /\ \A t \in steady[r] :
             scan[r].got[t] = IF Beyond(txns[t].ts, t, scan[r].cursor) THEN 0 ELSE 1

\* A scan by offset beside which nothing was written has had its first pages.
OffsetScan(r) ==
    scan[r].pc = "paging" /\ scan[r].mode = "offset" /\ steady[r] # {} =>
        /\ steady[r] = T!Where(txns, scan[r].from)
        /\ \A t \in steady[r] :
             scan[r].got[t] = IF t \in Top(ByDate, steady[r], scan[r].page * PageSize) THEN 1 ELSE 0

DoneScan(r) ==
    scan[r].pc = "done" /\ (scan[r].mode = "cursor" => ~untimed[r]) =>
        \A t \in steady[r] : scan[r].got[t] = 1

Scans == \A r \in Reader : CursorScan(r) /\ OffsetScan(r) /\ DoneScan(r)

\* A list is finite and part of the table.
LEMMA ListOfRows ==
    ASSUME Table, NEW from
    PROVE  /\ T!Where(txns, from) \in SUBSET T!Live(txns)
           /\ T!Where(txns, from) \in SUBSET Txn
           /\ IsFiniteSet(T!Where(txns, from))
           /\ \A S \in SUBSET T!Where(txns, from) : IsFiniteSet(S)
<1>1. T!Where(txns, from) \in SUBSET T!Live(txns) /\ T!Live(txns) \in SUBSET Txn
  BY DEF T!Where, T!Live
<1>2. IsFiniteSet(T!Where(txns, from))
  BY <1>1, FS_Subset DEF Table, FiniteTable
<1>3. \A S \in SUBSET T!Where(txns, from) : IsFiniteSet(S)
  BY <1>2, FS_Subset
<1> QED BY <1>1, <1>2, <1>3

\* What a page does to the counts of the rows.
LEMMA GotRows ==
    ASSUME T!TypeOK, NEW r \in Reader, NEW items
    PROVE  /\ T!Got(r, items) \in [Txn -> 0 .. 2]
           /\ \A t \in Txn \ items : T!Got(r, items)[t] = scan[r].got[t]
           /\ \A t \in Txn : t \in items /\ scan[r].got[t] = 0 => T!Got(r, items)[t] = 1
<1>1. scan[r].got \in [Txn -> 0 .. 2]
  BY DEF T!TypeOK, T!Scan
<1>2. ASSUME NEW n \in 0 .. 2
      PROVE  T!Min({2, n + 1}) \in 0 .. 2 /\ (n = 0 => T!Min({2, n + 1}) = 1)
  <2>1. T!Min({2, n + 1}) = CHOOSE x \in {2, n + 1} : \A y \in {2, n + 1} : x <= y
    BY DEF T!Min
  <2>2. \E x \in {2, n + 1} : \A y \in {2, n + 1} : x <= y
    OBVIOUS
  <2>3. T!Min({2, n + 1}) \in {2, n + 1} /\ \A y \in {2, n + 1} : T!Min({2, n + 1}) <= y
    BY <2>1, <2>2
  <2> QED BY <2>3
<1>3. T!Got(r, items) = [t \in Txn |-> IF t \in items THEN T!Min({2, scan[r].got[t] + 1}) ELSE scan[r].got[t]]
  BY DEF T!Got
<1> QED BY <1>1, <1>2, <1>3

\* A write touches one row, which the scans then leave out.
LEMMA SaveScans ==
    ASSUME Table, Scans, NEW t \in Txn, NEW row \in T!Row \cup {None}, T!Save(t, row), scan' = scan
    PROVE  Scans'
<1> SUFFICES ASSUME NEW r \in Reader PROVE CursorScan(r)' /\ OffsetScan(r)' /\ DoneScan(r)'
  BY DEF Scans
<1>1. \A u \in Txn : u # t => txns'[u] = txns[u]
  BY SaveRow DEF Table, T!TypeOK
<1>2. /\ steady'[r] = IF scan[r].mode = "offset" THEN {} ELSE steady[r] \ {t}
      /\ ~untimed'[r] => /\ ~untimed[r]
                         /\ \A u \in T!Where(txns', scan[r].from) : txns'[u].ts # None
  <2>1. /\ steady' = [q \in Reader |-> IF scan[q].mode = "offset" THEN {} ELSE steady[q] \ {t}]
        /\ untimed' = [q \in Reader |->
             untimed[q] \/ \E u \in T!Where(txns', scan[q].from) : txns'[u].ts = None]
    BY DEF T!Save
  <2> QED BY <2>1
<1>3. CursorScan(r)'
  <2> SUFFICES ASSUME scan[r].pc = "paging", scan[r].mode = "cursor", ~untimed'[r]
               PROVE  /\ \A u \in T!Where(txns', scan[r].from) : txns'[u].ts # None
                      /\ steady'[r] \subseteq T!Where(txns', scan[r].from)
                      /\ \A u \in steady'[r] :
                           scan[r].got[u] = IF Beyond(txns'[u].ts, u, scan[r].cursor) THEN 0 ELSE 1
    BY DEF CursorScan
  <2>1. /\ steady[r] \subseteq T!Where(txns, scan[r].from)
        /\ \A u \in steady[r] :
             scan[r].got[u] = IF Beyond(txns[u].ts, u, scan[r].cursor) THEN 0 ELSE 1
    BY <1>2 DEF Scans, CursorScan
  <2>2. ASSUME NEW u \in steady'[r]
        PROVE  u \in steady[r] /\ txns'[u] = txns[u] /\ u \in T!Where(txns', scan[r].from)
    <3>1. u \in steady[r] /\ u # t
      BY <1>2, <2>2
    <3>2. u \in T!Where(txns, scan[r].from) /\ u \in Txn
      BY <2>1, <3>1, ListOfRows
    <3>3. txns'[u] = txns[u]
      BY <1>1, <3>1, <3>2
    <3> QED BY <3>1, <3>2, <3>3 DEF T!Where, T!Live
  <2> QED BY <1>2, <2>1, <2>2
<1>4. OffsetScan(r)'
  BY <1>2 DEF OffsetScan
<1>5. DoneScan(r)'
  BY <1>2 DEF Scans, DoneScan
<1> QED BY <1>3, <1>4, <1>5

\* A step that touches neither rows nor scans.
LEMMA QuietScans ==
    ASSUME Scans, UNCHANGED <<txns, scan, steady, untimed>>
    PROVE  Scans'
BY DEF Scans, CursorScan, OffsetScan, DoneScan, ByDate, T!BeforeByDate, Top, Preceding

\* The other scans do not notice a page.
LEMMA OtherScans ==
    ASSUME Scans, NEW r \in Reader, UNCHANGED txns,
           \A q \in Reader \ {r} : scan'[q] = scan[q] /\ steady'[q] = steady[q] /\ untimed'[q] = untimed[q],
           CursorScan(r)', OffsetScan(r)', DoneScan(r)'
    PROVE  Scans'
<1>1. ByDate' = ByDate
  BY DEF ByDate, T!BeforeByDate
<1>2. ASSUME NEW q \in Reader, q # r PROVE CursorScan(q)' /\ OffsetScan(q)' /\ DoneScan(q)'
  <2>1. scan'[q] = scan[q] /\ steady'[q] = steady[q] /\ untimed'[q] = untimed[q]
    BY <1>2
  <2>2. CursorScan(q) /\ OffsetScan(q) /\ DoneScan(q)
    BY DEF Scans
  <2>3. CursorScan(q)'
    BY <2>1, <2>2 DEF CursorScan
  <2>4. OffsetScan(q)'
    BY <1>1, <2>1, <2>2 DEF OffsetScan, Top, Preceding
  <2>5. DoneScan(q)'
    BY <2>1, <2>2 DEF DoneScan
  <2> QED BY <2>3, <2>4, <2>5
<1> QED BY <1>2 DEF Scans

LEMMA NoScan == T!NotScanning \in T!Scan /\ T!NotScanning.pc = "idle"
<1>1. [t \in Txn |-> 0] \in [Txn -> 0 .. 2] /\ 0 \in T!Day
  BY ZeroIsThere, SameDays
<1> QED BY <1>1 DEF T!Scan, T!NotScanning

LEMMA BeginScanGood ==
    ASSUME Table, Scans, NEW r \in Reader, T!BeginScan(r)
    PROVE  Table' /\ Scans'
<1>1. PICK mode \in {"cursor", "offset"}, from \in {0, today} :
        /\ scan' = [scan EXCEPT ![r] = [T!NotScanning EXCEPT !.pc = "paging", !.mode = mode, !.from = from]]
        /\ steady' = [steady EXCEPT ![r] = T!Where(txns, from)]
        /\ untimed' = [untimed EXCEPT ![r] = \E t \in T!Where(txns, from) : txns[t].ts = None]
  BY DEF T!BeginScan
<1>2. UNCHANGED <<today, cards, txns, removed, editing, repriced>>
  BY DEF T!BeginScan
<1> DEFINE start == [T!NotScanning EXCEPT !.pc = "paging", !.mode = mode, !.from = from]
<1>3. from \in T!Day
  BY ZeroIsThere, SameDays DEF Table
<1>4. start \in T!Scan
  BY <1>3, NoScan DEF T!Scan
<1>5. /\ start.pc = "paging" /\ start.mode = mode /\ start.from = from /\ start.page = 0
      /\ start.cursor = None /\ \A t \in Txn : start.got[t] = 0
  BY DEF T!NotScanning
<1>6. T!Where(txns, from) \in SUBSET T!Live(txns) /\ T!Where(txns, from) \in SUBSET Txn
      /\ IsFiniteSet(T!Where(txns, from))
  BY ListOfRows
<1>7. Table'
  <2>1. scan' \in [Reader -> T!Scan]
    BY <1>1, <1>4 DEF Table, T!TypeOK
  <2>2. steady' \in [Reader -> SUBSET Txn]
    BY <1>1, <1>6 DEF Table, T!TypeOK
  <2>3. untimed' \in [Reader -> BOOLEAN]
    BY <1>1 DEF Table, T!TypeOK
  <2>4. editing' \in [Editor -> T!Editing] /\ cards' \in SUBSET Card /\ today' \in T!Day
    BY <1>2 DEF Table, T!TypeOK
  <2> QED BY <1>2, <2>1, <2>2, <2>3, <2>4, EditTable
<1>8. /\ scan'[r] = start
      /\ steady'[r] = T!Where(txns, from)
      /\ untimed'[r] = \E t \in T!Where(txns, from) : txns[t].ts = None
  BY <1>1 DEF Table, T!TypeOK
<1> HIDE DEF start
<1>9. CursorScan(r)'
  BY <1>2, <1>5, <1>6, <1>8 DEF CursorScan, Beyond
<1>10. OffsetScan(r)'
  <2>1. InRow(ByDate, T!Where(txns, from))
    <3>1. InRow(Order("offset"), T!Where(txns, from))
      BY <1>6, ListsInRow DEF Table
    <3> QED BY <3>1 DEF Order
  <2>2. Top(ByDate, T!Where(txns, from), 0) = {}
    BY <1>6, <2>1, TopOfRow
  <2>3. ByDate' = ByDate
    BY <1>2 DEF ByDate, T!BeforeByDate
  <2>4. 0 * PageSize = 0
    BY WalletBounds
  <2>5. T!Where(txns, from)' = T!Where(txns, from)
    BY <1>2
  <2>6. \A t : t \notin {u \in T!Where(txns, from) : Cardinality({w \in T!Where(txns, from) : <<w, u>> \in ByDate}) < 0}
    BY <2>2 DEF Top, Preceding
  <2> SUFFICES ASSUME NEW t \in T!Where(txns, from) PROVE start.got[t] = 0
    BY <1>2, <1>5, <1>8, <2>3, <2>4, <2>6 DEF OffsetScan, Top, Preceding
  <2> QED BY <1>5, <1>6
<1>11. DoneScan(r)'
  BY <1>5, <1>8 DEF DoneScan
<1>12. \A q \in Reader \ {r} : scan'[q] = scan[q] /\ steady'[q] = steady[q] /\ untimed'[q] = untimed[q]
  BY <1>1 DEF Table, T!TypeOK
<1> QED BY <1>2, <1>7, <1>9, <1>10, <1>11, <1>12, OtherScans

\* The new place of a scan by cursor: its page is the top of what comes after
\* its cursor, and the new cursor is the last row of the page.
LEMMA CursorPlace ==
    ASSUME Table, NEW list \in SUBSET T!Live(txns), IsFiniteSet(list), NEW items,
           items = T!First(list, PageSize, "cursor")
    PROVE  /\ items \in SUBSET list
           /\ \A t \in items, u \in list : T!Before(u, t) => u \in items
           /\ ~(Cardinality(list) > PageSize) => items = list
           /\ Cardinality(list) > PageSize =>
                LET last == CHOOSE t \in items : \A u \in items : u = t \/ T!Before(u, t)
                IN  /\ last \in items
                    /\ \A u \in items : u = last \/ T!Before(u, last)
                    /\ \A u \in list \ items : T!Before(last, u)
<1>0. PageSize \in Nat /\ PageSize # 0
  BY WalletBounds
<1>1. items = Top(ByTime, list, PageSize)
  BY FirstIsTop DEF Order
<1>2. InRow(ByTime, list)
  <2>1. InRow(Order("cursor"), list)
    BY ListsInRow DEF Table
  <2> QED BY <2>1 DEF Order
<1>3. \A t, u \in list : <<t, u>> \in ByTime <=> T!Before(t, u)
  BY DEF ByTime
<1>4. items \in SUBSET list /\ IsFiniteSet(items)
  <2>1. items \in SUBSET list
    BY <1>1 DEF Top
  <2> QED BY <2>1, FS_Subset
<1>5. \A t \in items : \A u \in list : <<u, t>> \in ByTime => u \in items
  BY <1>0, <1>1, <1>2, TopOfRow
<1>6. Cardinality(list) <= PageSize => items = list
  BY <1>0, <1>1, <1>2, TopOfRow
<1>7. list # {} => items # {}
  BY <1>0, <1>1, <1>2, TopOfRow
<1>8. Cardinality(list) \in Nat
  BY FS_CardinalityType
<1>9. ASSUME Cardinality(list) > PageSize
      PROVE  items # {}
  <2>1. list # {}
    BY <1>0, <1>9, FS_EmptySet
  <2> QED BY <1>7, <2>1
<1> DEFINE last == CHOOSE t \in items : \A u \in items : u = t \/ T!Before(u, t)
<1>10. ASSUME items # {}
       PROVE  last \in items /\ \A u \in items : u = last \/ T!Before(u, last)
  <2>1. InRow(ByTime, items)
    BY <1>2, <1>4 DEF InRow
  <2>2. \E t \in items : \A u \in items : u = t \/ <<u, t>> \in ByTime
    BY <1>4, <1>10, <2>1, LastInRow
  <2>3. \E t \in items : \A u \in items : u = t \/ T!Before(u, t)
    BY <1>3, <1>4, <2>2
  <2> QED BY <2>3
<1> HIDE DEF last
<1>11. ASSUME items # {}, NEW u \in list \ items
       PROVE  T!Before(last, u)
  <2>1. last \in list /\ last # u
    BY <1>4, <1>10, <1>11
  <2>2. <<u, last>> \notin ByTime
    BY <1>5, <1>10, <1>11
  <2>3. <<last, u>> \in ByTime
    BY <1>2, <2>1, <2>2 DEF InRow
  <2> QED BY <1>3, <2>1, <2>3
<1>12. \A t \in items, u \in list : T!Before(u, t) => u \in items
  BY <1>3, <1>4, <1>5
<1>13. ~(Cardinality(list) > PageSize) => items = list
  BY <1>0, <1>6, <1>8
<1>14. Cardinality(list) > PageSize =>
         /\ last \in items
         /\ \A u \in items : u = last \/ T!Before(u, last)
         /\ \A u \in list \ items : T!Before(last, u)
  BY <1>9, <1>10, <1>11
<1> QED BY <1>4, <1>12, <1>13, <1>14 DEF last

LEMMA CursorPageGood ==
    ASSUME Table, Scans, NEW r \in Reader, T!CursorPage(r)
    PROVE  Table' /\ Scans'
<1> DEFINE where == T!Where(txns, scan[r].from)
           list == T!After(where, scan[r].cursor)
           items == T!First(list, PageSize, "cursor")
           last == CHOOSE t \in items : \A u \in items : u = t \/ T!Before(u, t)
           more == T!Cardinality(list) > PageSize
           got == T!Got(r, items)
           cursor == IF more THEN T!CursorOf(last) ELSE None
           next == [scan[r] EXCEPT !.got = got, !.pc = IF more THEN "paging" ELSE "done",
                                   !.cursor = cursor]
<1>1. /\ scan[r].pc = "paging" /\ scan[r].mode = "cursor"
      /\ scan' = [scan EXCEPT ![r] = next]
      /\ UNCHANGED <<today, cards, txns, removed, editing, steady, untimed, repriced>>
  BY DEF T!CursorPage
<1>2. /\ where \in SUBSET T!Live(txns) /\ where \in SUBSET Txn
      /\ \A S \in SUBSET where : IsFiniteSet(S)
  BY ListOfRows
<1>3. list = {t \in where : Beyond(txns[t].ts, t, scan[r].cursor)}
  BY AfterMeans
<1> HIDE DEF where, list
<1>4. list \in SUBSET where /\ list \in SUBSET T!Live(txns) /\ list \in SUBSET Txn /\ IsFiniteSet(list)
  BY <1>2, <1>3
<1>5. more <=> Cardinality(list) > PageSize
  BY SameCount
<1>6. /\ items \in SUBSET list
      /\ \A t \in items, u \in list : T!Before(u, t) => u \in items
      /\ ~more => items = list
      /\ more => /\ last \in items
                 /\ \A u \in items : u = last \/ T!Before(u, last)
                 /\ \A u \in list \ items : T!Before(last, u)
  <2> HIDE DEF items, more
  <2>1. items = T!First(list, PageSize, "cursor")
    BY DEF items
  <2> QED BY <1>4, <1>5, <2>1, CursorPlace
<1> HIDE DEF items, more, last
<1>7. /\ got \in [Txn -> 0 .. 2]
      /\ \A t \in Txn \ items : got[t] = scan[r].got[t]
      /\ \A t \in Txn : t \in items /\ scan[r].got[t] = 0 => got[t] = 1
  BY GotRows DEF Table
<1> HIDE DEF got
<1>8. /\ cursor \in [ts : T!Instant, id : Txn] \cup {None}
      /\ more => /\ cursor # None
                 /\ cursor.id = last
                 /\ txns[last].ts # None => cursor.ts = txns[last].ts
  <2>1. CASE more
    <3>1. last \in Txn /\ txns[last] \in T!Row
      BY <1>4, <1>6, <2>1, LiveRow DEF Table
    <3>2. /\ txns[last].ts \in T!Instant \cup {None}
          /\ T!Midnight(txns[last].day) \in T!Instant
      BY <3>1, InstantOf DEF T!Row
    <3>3. cursor = [id |-> last, ts |-> IF txns[last].ts = None THEN T!Midnight(txns[last].day)
                                                                ELSE txns[last].ts]
      BY <2>1 DEF T!CursorOf
    <3> HIDE DEF cursor
    <3>4. cursor \in [ts : T!Instant, id : Txn]
      BY <3>1, <3>2, <3>3
    <3> QED BY <3>3, <3>4, EarlierTables
  <2> QED BY <2>1
<1> HIDE DEF cursor
<1>9. scan[r] \in T!Scan
  BY DEF Table, T!TypeOK
<1>10. /\ next \in T!Scan
       /\ next.pc = (IF more THEN "paging" ELSE "done") /\ next.mode = "cursor"
       /\ next.from = scan[r].from /\ next.cursor = cursor /\ next.got = got
  BY <1>1, <1>7, <1>8, <1>9 DEF T!Scan
<1> HIDE DEF next
<1>11. /\ scan'[r] = next
       /\ scan' \in [Reader -> T!Scan]
       /\ \A q \in Reader \ {r} : scan'[q] = scan[q] /\ steady'[q] = steady[q] /\ untimed'[q] = untimed[q]
  BY <1>1, <1>10 DEF Table, T!TypeOK
<1>12. Table'
  <2>1. /\ steady' \in [Reader -> SUBSET Txn]
        /\ untimed' \in [Reader -> BOOLEAN]
        /\ editing' \in [Editor -> T!Editing] /\ cards' \in SUBSET Card /\ today' \in T!Day
        /\ \A e \in Editor : editing'[e] = editing[e]
    BY <1>1 DEF Table, T!TypeOK
  <2> QED BY <1>1, <1>11, <2>1, EditTable
<1>13. ASSUME ~untimed[r]
       PROVE  /\ \A t \in where : txns[t].ts # None
              /\ steady[r] \subseteq where
              /\ \A t \in steady[r] :
                   scan[r].got[t] = IF Beyond(txns[t].ts, t, scan[r].cursor) THEN 0 ELSE 1
  BY <1>1, <1>13 DEF Scans, CursorScan, where
<1>14. ASSUME ~untimed[r], NEW t \in steady[r]
       PROVE  /\ ~more => got[t] = 1
              /\ more => got[t] = IF Beyond(txns[t].ts, t, cursor) THEN 0 ELSE 1
  <2>1. t \in where /\ t \in Txn
    BY <1>2, <1>13, <1>14
  <2>2. scan[r].got[t] = IF t \in list THEN 0 ELSE 1
    BY <1>3, <1>13, <1>14, <2>1
  <2>3. got[t] = IF t \in list /\ t \notin items THEN 0 ELSE 1
    BY <1>6, <1>7, <2>1, <2>2
  <2>4. ASSUME more PROVE Beyond(txns[t].ts, t, cursor) <=> t \in list /\ t \notin items
    <3>1. last \in where /\ last \in list /\ last \in items
      BY <1>4, <1>6, <2>4
    <3>2. /\ t \in Nat /\ last \in Nat
          /\ txns[t].ts \in Nat /\ txns[last].ts \in Nat
          /\ txns[t].ts # None /\ txns[last].ts # None
      BY <1>2, <1>13, <1>14, <2>1, <3>1, BeforeMeans DEF Table
    <3>3. Beyond(txns[t].ts, t, cursor) <=>
            txns[t].ts < txns[last].ts \/ (txns[t].ts = txns[last].ts /\ t < last)
      BY <1>8, <2>4, <3>2 DEF Beyond
    <3>4. CASE t \in items
      <4>1. t = last \/ T!Before(t, last)
        BY <1>6, <2>4, <3>4
      <4>2. T!Before(t, last) => txns[t].ts > txns[last].ts \/ (txns[t].ts = txns[last].ts /\ t > last)
        BY <1>2, <2>1, <3>1, <3>2, BeforeMeans DEF Table
      <4> QED BY <3>2, <3>3, <3>4, <4>1, <4>2
    <3>5. CASE t \in list /\ t \notin items
      <4>1. T!Before(last, t)
        BY <1>6, <2>4, <3>5
      <4>2. T!Before(last, t) => txns[last].ts > txns[t].ts \/ (txns[t].ts = txns[last].ts /\ last > t)
        BY <1>2, <2>1, <3>1, <3>2, BeforeMeans DEF Table
      <4> QED BY <3>2, <3>3, <3>5, <4>1, <4>2
    <3>6. CASE t \notin list
      <4>1. ~Beyond(txns[t].ts, t, scan[r].cursor) /\ Beyond(txns[last].ts, last, scan[r].cursor)
        BY <1>3, <2>1, <3>1, <3>6
      <4>2. scan[r].cursor # None
        BY <4>1 DEF Beyond
      <4>3. scan[r].cursor.ts \in Nat /\ scan[r].cursor.id \in Nat
        <5>1. scan[r].cursor \in [ts : T!Instant, id : Txn]
          BY <1>9, <4>2 DEF T!Scan
        <5>2. T!Instant \subseteq Nat /\ Txn \subseteq Nat
          BY WalletAssumption DEF T!Instant
        <5> QED BY <5>1, <5>2
      <4>4. /\ ~(txns[t].ts < scan[r].cursor.ts \/ (txns[t].ts = scan[r].cursor.ts /\ t < scan[r].cursor.id))
            /\ txns[last].ts < scan[r].cursor.ts \/ (txns[last].ts = scan[r].cursor.ts /\ last < scan[r].cursor.id)
        BY <3>2, <4>1, <4>2 DEF Beyond
      <4>5. ~(txns[t].ts < txns[last].ts \/ (txns[t].ts = txns[last].ts /\ t < last))
        BY <3>2, <4>3, <4>4
      <4> QED BY <3>3, <3>6, <4>5
    <3> QED BY <1>6, <3>4, <3>5, <3>6
  <2>5. ~more => got[t] = 1
    BY <1>6, <2>3
  <2>6. more => got[t] = IF Beyond(txns[t].ts, t, cursor) THEN 0 ELSE 1
    BY <2>3, <2>4
  <2> QED BY <2>5, <2>6
<1>15. CursorScan(r)'
  <2> SUFFICES ASSUME more, ~untimed[r]
               PROVE  /\ \A t \in T!Where(txns, scan[r].from) : txns[t].ts # None
                      /\ steady[r] \subseteq T!Where(txns, scan[r].from)
                      /\ \A t \in steady[r] :
                           got[t] = IF Beyond(txns[t].ts, t, cursor) THEN 0 ELSE 1
    BY <1>1, <1>10, <1>11 DEF CursorScan
  <2> QED BY <1>13, <1>14 DEF where
<1>16. OffsetScan(r)'
  BY <1>10, <1>11 DEF OffsetScan
<1>17. DoneScan(r)'
  BY <1>1, <1>10, <1>11, <1>14 DEF DoneScan
<1> QED BY <1>1, <1>11, <1>12, <1>15, <1>16, <1>17, OtherScans

LEMMA OffsetPageGood ==
    ASSUME Table, Scans, NEW r \in Reader, T!OffsetPage(r)
    PROVE  Table' /\ Scans'
<1> DEFINE list == T!Where(txns, scan[r].from)
           skip == scan[r].page * PageSize
           items == T!First(list, skip + PageSize, "offset") \ T!First(list, skip, "offset")
           more == T!Cardinality(list) > skip + PageSize
           got == T!Got(r, items)
           next == [scan[r] EXCEPT !.got = got, !.page = @ + 1,
                                   !.pc = IF more THEN "paging" ELSE "done"]
<1>1. /\ scan[r].pc = "paging" /\ scan[r].mode = "offset"
      /\ scan' = [scan EXCEPT ![r] = next]
      /\ UNCHANGED <<today, cards, txns, removed, editing, steady, untimed, repriced>>
  <2>1. scan' = [scan EXCEPT ![r] = next]
    BY Zenon DEF T!OffsetPage
  <2> QED BY <2>1, Zenon DEF T!OffsetPage
<1>2. list \in SUBSET T!Live(txns) /\ list \in SUBSET Txn /\ IsFiniteSet(list)
  BY ListOfRows
<1>3. scan[r] \in T!Scan
  BY DEF Table, T!TypeOK
<1>4. /\ scan[r].page \in Nat /\ skip \in Nat /\ skip + PageSize \in Nat
      /\ (scan[r].page + 1) * PageSize = skip + PageSize
  <2>1. scan[r].page \in Nat
    BY <1>3 DEF T!Scan
  <2>2. PageSize \in Nat
    BY WalletBounds
  <2>3. \A n, k \in Nat : n * k \in Nat /\ (n + 1) * k = n * k + k /\ n * k + k \in Nat
    OBVIOUS
  <2> QED BY <2>1, <2>2, <2>3
<1>5. items = Top(ByDate, list, skip + PageSize) \ Top(ByDate, list, skip)
  BY <1>2, FirstIsTop DEF Order
<1>6. InRow(ByDate, list)
  <2>1. InRow(Order("offset"), list)
    BY <1>2, ListsInRow DEF Table
  <2> QED BY <2>1 DEF Order
<1>7. more <=> Cardinality(list) > skip + PageSize
  BY SameCount
<1> HIDE DEF list, skip, items, more
<1>8. ~more => Top(ByDate, list, skip + PageSize) = list
  <2>1. Cardinality(list) <= skip + PageSize => Top(ByDate, list, skip + PageSize) = list
    BY <1>2, <1>4, <1>6, TopOfRow
  <2>2. Cardinality(list) \in Nat
    BY <1>2, FS_CardinalityType
  <2> QED BY <1>4, <1>7, <2>1, <2>2
<1>9. Top(ByDate, list, skip) \subseteq Top(ByDate, list, skip + PageSize)
  <2>1. \A t \in list : Cardinality(Preceding(ByDate, list, t)) \in Nat
    BY <1>2, <1>6, RankOrders
  <2>2. \A n \in Nat : n < skip => n < skip + PageSize
    BY <1>4, WalletBounds
  <2> QED BY <2>1, <2>2 DEF Top
<1>10. /\ got \in [Txn -> 0 .. 2]
       /\ \A t \in Txn \ items : got[t] = scan[r].got[t]
       /\ \A t \in Txn : t \in items /\ scan[r].got[t] = 0 => got[t] = 1
  BY GotRows DEF Table
<1> HIDE DEF got
<1>11. /\ next \in T!Scan
       /\ next.pc = (IF more THEN "paging" ELSE "done") /\ next.mode = "offset"
       /\ next.from = scan[r].from /\ next.page = scan[r].page + 1 /\ next.got = got
  <2>1. scan[r].page + 1 \in Nat
    BY <1>4
  <2> HIDE DEF more
  <2> QED BY <1>1, <1>3, <1>10, <2>1 DEF T!Scan
<1> HIDE DEF next
<1>12. /\ scan'[r] = next
       /\ scan' \in [Reader -> T!Scan]
       /\ \A q \in Reader \ {r} : scan'[q] = scan[q] /\ steady'[q] = steady[q] /\ untimed'[q] = untimed[q]
  BY <1>1, <1>11 DEF Table, T!TypeOK
<1>13. Table'
  <2>1. /\ steady' \in [Reader -> SUBSET Txn]
        /\ untimed' \in [Reader -> BOOLEAN]
        /\ editing' \in [Editor -> T!Editing] /\ cards' \in SUBSET Card /\ today' \in T!Day
        /\ \A e \in Editor : editing'[e] = editing[e]
    BY <1>1 DEF Table, T!TypeOK
  <2> QED BY <1>1, <1>12, <2>1, EditTable
<1>14. ASSUME steady[r] # {}
       PROVE  /\ steady[r] = list
              /\ \A t \in steady[r] :
                   scan[r].got[t] = IF t \in Top(ByDate, steady[r], skip) THEN 1 ELSE 0
  BY <1>1, <1>14 DEF Scans, OffsetScan, list, skip
<1>15. ASSUME NEW t \in steady[r]
       PROVE  /\ t \in Txn
              /\ got[t] = IF t \in Top(ByDate, list, skip + PageSize) THEN 1 ELSE 0
  <2>1. /\ steady[r] = list /\ t \in list /\ t \in Txn
        /\ scan[r].got[t] = IF t \in Top(ByDate, list, skip) THEN 1 ELSE 0
    BY <1>2, <1>14, <1>15
  <2> QED BY <1>5, <1>9, <1>10, <2>1
<1>16. CursorScan(r)'
  BY <1>11, <1>12 DEF CursorScan
<1>17. OffsetScan(r)'
  <2>1. ByDate' = ByDate
    BY <1>1 DEF ByDate, T!BeforeByDate
  <2>2. /\ steady'[r] = steady[r]
        /\ T!Where(txns, scan[r].from)' = T!Where(txns', scan'[r].from)
        /\ T!Where(txns', scan'[r].from) = list
    BY <1>1, <1>11, <1>12 DEF list
  <2>3. scan'[r].page * PageSize = skip + PageSize
    BY <1>4, <1>11, <1>12
  <2> SUFFICES ASSUME steady[r] # {}
               PROVE  /\ steady[r] = list
                      /\ \A t \in steady[r] :
                           got[t] = IF t \in Top(ByDate, steady[r], skip + PageSize) THEN 1 ELSE 0
    BY <1>11, <1>12, <2>1, <2>2, <2>3 DEF OffsetScan, Top, Preceding
  <2> QED BY <1>14, <1>15
<1>18. DoneScan(r)'
  <2> SUFFICES ASSUME ~more, NEW t \in steady[r] PROVE got[t] = 1
    BY <1>1, <1>11, <1>12 DEF DoneScan
  <2>1. t \in list
    BY <1>14
  <2> QED BY <1>8, <1>15, <2>1
<1> QED BY <1>1, <1>12, <1>13, <1>16, <1>17, <1>18, OtherScans

\* Every step keeps the table and the scans.
LEMMA TransactionsStep ==
    ASSUME Table, Scans, T!Next, cards' \in SUBSET Card, today' \in T!Day
    PROVE  Table' /\ Scans'
<1>1. ASSUME T!Elsewhere PROVE Table' /\ Scans'
  <2>1. UNCHANGED <<txns, removed, editing, scan, steady, untimed, repriced>>
    BY <1>1 DEF T!Elsewhere
  <2>2. /\ editing' \in [Editor -> T!Editing]
        /\ scan' \in [Reader -> T!Scan]
        /\ steady' \in [Reader -> SUBSET Txn]
        /\ untimed' \in [Reader -> BOOLEAN]
        /\ \A e \in Editor : editing'[e] = editing[e]
    BY <2>1 DEF Table, T!TypeOK
  <2> QED BY <2>1, <2>2, EditTable, QuietScans
<1>2. ASSUME NEW t \in Txn, T!Create(t) PROVE Table' /\ Scans'
  <2>1. PICK c \in cards, day \in TypedDays, timed \in BOOLEAN, amount \in Amount :
          T!Save(t, [card |-> c, day |-> day, amount |-> amount, adj |-> T!NoAdjustment,
                     ts |-> IF timed THEN T!Midnight(day) + 1 ELSE None])
    BY <1>2 DEF T!Create
  <2> DEFINE row == [card |-> c, day |-> day, amount |-> amount, adj |-> T!NoAdjustment,
                     ts |-> IF timed THEN T!Midnight(day) + 1 ELSE None]
  <2>2. row \in T!Row
    <3>1. c \in Card /\ day \in T!Day
      BY WalletBounds, SameDays DEF Table
    <3>2. T!Midnight(day) + 1 \in T!Instant
      BY <3>1, InstantOf
    <3> QED BY <3>1, <3>2 DEF T!Row, T!NoAdjustment, T!Adjustments
  <2>3. T!Save(t, row) /\ scan' = scan
    BY <1>2, <2>1 DEF T!Create
  <2> HIDE DEF row
  <2> QED BY <1>2, <2>2, <2>3, CreateTable, SaveScans
<1>3. ASSUME NEW t \in Txn, T!Remove(t) PROVE Table' /\ Scans'
  <2>1. T!Save(t, None) /\ scan' = scan
    BY <1>3 DEF T!Remove
  <2> QED BY <1>3, <2>1, RemoveTable, SaveScans
<1>4. ASSUME NEW e \in Editor, T!EditorStep(e) PROVE Table' /\ Scans'
  <2>1. Table'
    BY <1>4, WriteRowTable, WriteAdjustmentTable, DropAdjustmentTable DEF T!EditorStep
  <2>2. scan' = scan
    BY <1>4 DEF T!EditorStep, T!WriteRow, T!WriteAdjustment, T!DropAdjustment
  <2>3. CASE UNCHANGED <<txns, steady, untimed>>
    <3>1. UNCHANGED <<txns, scan, steady, untimed>>
      BY <2>2, <2>3
    <3> QED BY <2>1, <3>1, QuietScans
  <2>4. CASE editing[e].id \in T!Live(txns)
    <3>1. editing[e].id \in Txn /\ txns[editing[e].id] \in T!Row
      BY <2>4, LiveRow DEF Table
    <3>2. CASE T!WriteRow(e)
      <4>1. editing[e].row \in T!Row
        BY <3>2 DEF Table, EditsRefer, T!WriteRow
      <4> DEFINE row == [editing[e].row EXCEPT !.adj = txns[editing[e].id].adj,
                                               !.ts = IF @ = None THEN txns[editing[e].id].ts ELSE @]
      <4>2. row \in T!Row
        BY <3>1, <4>1 DEF T!Row
      <4>3. T!Save(editing[e].id, row)
        BY <2>4, <3>2 DEF T!WriteRow
      <4> HIDE DEF row
      <4> QED BY <2>1, <2>2, <3>1, <4>2, <4>3, SaveScans
    <3>3. ASSUME NEW adj \in T!Adjustments,
                 T!Save(editing[e].id, [txns[editing[e].id] EXCEPT !.adj = adj])
          PROVE  Scans'
      <4> DEFINE row == [txns[editing[e].id] EXCEPT !.adj = adj]
      <4>1. row \in T!Row
        BY <3>1 DEF T!Row
      <4>2. T!Save(editing[e].id, row)
        BY <3>3
      <4> HIDE DEF row
      <4> QED BY <2>2, <3>1, <4>1, <4>2, SaveScans
    <3>4. CASE T!WriteAdjustment(e)
      <4>1. editing[e].adj \in T!Adjustments
        BY DEF Table, T!TypeOK, T!Editing
      <4>2. T!Save(editing[e].id, [txns[editing[e].id] EXCEPT !.adj = editing[e].adj])
        BY <2>4, <3>4 DEF T!WriteAdjustment
      <4> QED BY <2>1, <3>3, <4>1, <4>2
    <3>5. CASE T!DropAdjustment(e)
      <4>1. T!NoAdjustment \in T!Adjustments
        BY DEF T!NoAdjustment, T!Adjustments
      <4>2. T!Save(editing[e].id, [txns[editing[e].id] EXCEPT !.adj = T!NoAdjustment])
        BY <2>4, <3>5 DEF T!DropAdjustment
      <4> QED BY <2>1, <3>3, <4>1, <4>2
    <3> QED BY <1>4, <3>2, <3>4, <3>5 DEF T!EditorStep
  <2>5. UNCHANGED <<txns, steady, untimed>> \/ editing[e].id \in T!Live(txns)
    BY <1>4 DEF T!EditorStep, T!WriteRow, T!WriteAdjustment, T!DropAdjustment
  <2> QED BY <2>1, <2>3, <2>4, <2>5
<1>5. ASSUME NEW e \in Editor, NEW t \in Txn, T!EditorCall(e, t) PROVE Table' /\ Scans'
  <2>1. UNCHANGED <<txns, scan, steady, untimed>>
    BY <1>5, EditorCallReads
  <2> QED BY <1>5, <2>1, EditorCallTable, QuietScans
<1>6. ASSUME NEW r \in Reader, T!BeginScan(r) \/ T!CursorPage(r) \/ T!OffsetPage(r)
      PROVE  Table' /\ Scans'
  BY <1>6, BeginScanGood, CursorPageGood, OffsetPageGood
<1> QED BY <1>1, <1>2, <1>3, <1>4, <1>5, <1>6 DEF T!Next

LEMMA TransactionsInit ==
    ASSUME T!Init, cards \in SUBSET Card, today \in Day
    PROVE  Table /\ Scans
<1>1. /\ txns \in Earlier
      /\ removed = {}
      /\ editing = [e \in Editor |-> T!NotEditing]
      /\ scan = [r \in Reader |-> T!NotScanning]
      /\ steady = [r \in Reader |-> {}]
      /\ untimed = [r \in Reader |-> FALSE]
      /\ repriced = {}
  BY DEF T!Init
<1>2. /\ txns \in [Txn -> T!Row \cup {None}]
      /\ FiniteTable
      /\ \A t \in T!Live(txns) : txns[t].adj \in {T!NoAdjustment} \cup T!Acceptable(txns[t])
  BY <1>1, EarlierTables DEF FiniteTable
<1>3. T!NotEditing \in T!Editing /\ T!NotEditing.pc = "idle"
  BY DEF T!NotEditing, T!Editing, T!NoAdjustment, T!Adjustments
<1>5. T!TypeOK
  <2>1. editing \in [Editor -> T!Editing] /\ scan \in [Reader -> T!Scan]
    BY <1>1, <1>3, NoScan
  <2> QED BY <1>1, <1>2, <2>1 DEF T!TypeOK
<1>6. /\ \A e \in Editor : editing[e].pc = "idle"
      /\ \A r \in Reader : scan[r].pc = "idle"
  BY <1>1, <1>3, NoScan
<1>7. \A t \in T!Live(txns) : Spreads(txns[t].adj) /\ Fits(txns[t].adj, txns[t].amount)
  BY <1>2, <1>5, LiveRow, AcceptableFits
<1>8. EditsRefer /\ SpreadsBounded /\ SharesFit
  BY <1>6, <1>7 DEF EditsRefer, SpreadsBounded, SharesFit
<1>9. Scans
  BY <1>6 DEF Scans, CursorScan, OffsetScan, DoneScan
<1> QED BY <1>2, <1>5, <1>8, <1>9, SameDays DEF Table

\* The table stays as the calls leave it, and each scan has had what it should.
LEMMA TransactionsKept == WalletSpec => [](Table /\ Scans)
<1>1. T!Init /\ SyncTypes => Table /\ Scans
  BY TransactionsInit DEF SyncTypes
<1>2. SyncTypes' /\ (Table /\ Scans) /\ [T!Next]_T!vars => (Table /\ Scans)'
  <2> SUFFICES ASSUME SyncTypes', Table, Scans, [T!Next]_T!vars PROVE Table' /\ Scans'
    OBVIOUS
  <2>1. cards' \in SUBSET Card /\ today' \in T!Day
    BY SameDays DEF SyncTypes
  <2>2. CASE T!Next
    BY <2>1, <2>2, TransactionsStep
  <2>3. CASE UNCHANGED T!vars
    <3>1. UNCHANGED <<today, cards, txns, removed, editing, scan, steady, untimed, repriced>>
      BY <2>3 DEF T!vars
    <3>2. /\ editing' \in [Editor -> T!Editing]
          /\ scan' \in [Reader -> T!Scan]
          /\ steady' \in [Reader -> SUBSET Txn]
          /\ untimed' \in [Reader -> BOOLEAN]
          /\ \A e \in Editor : editing'[e] = editing[e]
      BY <3>1 DEF Table, T!TypeOK
    <3> QED BY <2>1, <3>1, <3>2, EditTable, QuietScans
  <2> QED BY <2>2, <2>3
<1>3. WalletSpec => []SyncTypes
  BY WalletPartTypes, PTL
<1> QED BY <1>1, <1>2, <1>3, WalletKeepsTransactions, PTL DEF T!Spec

\* For every table, page size and number of calls, a scan by cursor returns each
\* row that nothing touched while it ran exactly once, as long as every row in its
\* list has a timestamp, and a scan by offset does while nothing is written.
THEOREM PagesAreComplete == WalletSpec => []PagesComplete
<1>1. Scans => PagesComplete
  BY DEF Scans, DoneScan, PagesComplete, T!PagesComplete
<1> QED BY <1>1, TransactionsKept, PTL

-----------------------------------------------------------------------------
(* Amounts *)

LEMMA Slices ==
    /\ \A a \in Nat, n \in Nat \ {0} : a \div n \in Int
    /\ \A a \in Nat, n \in Nat \ {0} : a \div n >= 0
    /\ \A a \in Nat, n \in Nat \ {0} : a \div n <= a
OBVIOUS

\* What a row of the table counts for.
LEMMA OwnPart ==
    ASSUME Table, NEW t \in T!Live(txns)
    PROVE  /\ txns[t].amount \in Nat
           /\ C!OwnInCycle(txns[t]) \in Nat
           /\ \A month : C!OwnInMonth(txns[t], month) \in Nat
           /\ t \notin repriced => C!OwnInCycle(txns[t]) <= txns[t].amount
<1> DEFINE row == txns[t]
           slice == row.amount \div row.adj.n
<1>1. row \in T!Row
  BY LiveRow DEF Table
<1>2. /\ row.amount \in Nat
      /\ row.adj.kind \in {"NONE", "SPLIT", "EXCLUDE", "AMORTIZE"}
      /\ row.adj.n \in Nat
  BY <1>1, WalletAssumption DEF T!Row, T!Adjustments
<1>3. row.adj.kind = "AMORTIZE" => slice \in Nat /\ slice <= row.amount
  <2>1. row.adj.kind = "AMORTIZE" => row.adj.n \in Nat \ {0}
    BY <1>2 DEF Table, SpreadsBounded, Spreads
  <2>2. row.adj.kind = "AMORTIZE" => slice \in Int /\ slice >= 0 /\ slice <= row.amount
    BY <1>2, <2>1, Slices
  <2> HIDE DEF slice, row
  <2> QED BY <2>2
<1>4. t \notin repriced /\ row.adj.kind = "SPLIT" => row.adj.n <= row.amount
  BY <1>2 DEF Table, SharesFit, Fits
<1>5. C!OwnInCycle(row) = CASE row.adj.kind = "NONE" -> row.amount
                            [] row.adj.kind = "EXCLUDE" -> 0
                            [] row.adj.kind = "SPLIT" -> row.adj.n
                            [] row.adj.kind = "AMORTIZE" -> slice
  BY DEF C!OwnInCycle
<1>6. ASSUME NEW month
      PROVE  \/ C!OwnInMonth(row, month) = 0
             \/ C!OwnInMonth(row, month) = C!OwnInCycle(row)
             \/ row.adj.kind = "AMORTIZE" /\ C!OwnInMonth(row, month) = slice
  BY <1>2 DEF C!OwnInMonth
<1> HIDE DEF row, slice
<1>7. C!OwnInCycle(row) \in Nat
  BY <1>2, <1>3, <1>5
<1>8. t \notin repriced => C!OwnInCycle(row) <= row.amount
  BY <1>2, <1>3, <1>4, <1>5
<1>9. \A month : C!OwnInMonth(row, month) \in Nat
  BY <1>3, <1>6, <1>7
<1> QED BY <1>2, <1>7, <1>8, <1>9 DEF row

\* Sums over listed rows are numbers, and the own part of rows that kept their
\* amounts is no more than the whole.
LEMMA SumsOfRows ==
    ASSUME Table, NEW S \in SUBSET T!Live(txns)
    PROVE  /\ C!Spend(S) \in Nat
           /\ C!OwnSpend(S) \in Nat
           /\ \A month : C!OwnMonth(S, month) \in Nat
           /\ (\A t \in S : t \notin repriced) => C!OwnSpend(S) <= C!Spend(S)
           /\ C!Cardinality(S) \in Nat
<1>1. IsFiniteSet(S)
  BY FS_Subset DEF Table, FiniteTable
<1> DEFINE whole == [t \in S |-> txns[t].amount]
           own == [t \in S |-> C!OwnInCycle(txns[t])]
           Whole == UNION {{t} \X (1 .. txns[t].amount) : t \in S}
           Own == UNION {{t} \X (1 .. C!OwnInCycle(txns[t])) : t \in S}
<1>2. whole \in [S -> Nat] /\ own \in [S -> Nat]
  BY OwnPart
<1>3. Heaps(Whole, whole, S)
  BY DEF Heaps
<1>4. Heaps(Own, own, S)
  BY DEF Heaps
<1>5. (\A t \in S : t \notin repriced) => \A t \in S : own[t] <= whole[t]
  BY OwnPart
<1>6. C!Spend(S) = Cardinality(Whole) /\ C!OwnSpend(S) = Cardinality(Own)
  BY SameCount DEF C!Spend, C!OwnSpend
<1>7. ASSUME NEW month PROVE C!OwnMonth(S, month) \in Nat
  <2> DEFINE slice == [t \in S |-> C!OwnInMonth(txns[t], month)]
             Sliced == UNION {{t} \X (1 .. C!OwnInMonth(txns[t], month)) : t \in S}
  <2>1. slice \in [S -> Nat]
    BY OwnPart
  <2>2. Heaps(Sliced, slice, S)
    BY DEF Heaps
  <2>3. C!OwnMonth(S, month) = Cardinality(Sliced)
    BY SameCount DEF C!OwnMonth
  <2> HIDE DEF slice, Sliced
  <2>4. Cardinality(Sliced) \in Nat
    BY <1>1, <2>1, <2>2, HeapsFinite
  <2> QED BY <2>3, <2>4
<1> HIDE DEF whole, own, Whole, Own
<1>8. Cardinality(Whole) \in Nat /\ Cardinality(Own) \in Nat
  BY <1>1, <1>2, <1>3, <1>4, HeapsFinite
<1>9. ASSUME \A t \in S : t \notin repriced
      PROVE  Cardinality(Own) <= Cardinality(Whole)
  <2>1. \A t \in S : own[t] <= whole[t]
    BY <1>5, <1>9
  <2> QED BY <1>1, <1>2, <1>3, <1>4, <2>1, HeapsMonotone
<1>10. C!Cardinality(S) \in Nat
  BY <1>1, SameCount, FS_CardinalityType
<1> QED BY <1>6, <1>7, <1>8, <1>9, <1>10

LEMMA CardRows ==
    \A c, days : C!OfCard(c, days) \in SUBSET T!Live(txns)
BY DEF C!OfCard, T!Live

-----------------------------------------------------------------------------
(* The summary *)

\* The rows of the cycle that a call has in hand.
Shown(v) == C!OfCard(view[v].card, C!Window(v))

\* Between its two reads of a card, a call that no write has disturbed has the
\* total of the rows that it is going to read again, none of them repriced.
TotalStands(v) ==
    view[v].pc = "list" /\ ~excused[v] =>
        /\ view[v].spend = C!Spend(Shown(v))
        /\ \A t \in Shown(v) : t \notin repriced

OwnCovered(v) == view[v].pc = "done" /\ ~excused[v] => view[v].own <= view[v].spend

Views == /\ C!TypeOK
         /\ \A v \in Viewer : TotalStands(v) /\ OwnCovered(v)

\* A call takes a step; the others do not notice.
LEMMA ViewGood ==
    ASSUME Views, UNCHANGED <<txns, repriced>>, NEW v \in Viewer, NEW next \in C!View,
           view' = [view EXCEPT ![v] = next], NEW flag \in BOOLEAN,
           excused' = [excused EXCEPT ![v] = flag], TotalStands(v)', OwnCovered(v)'
    PROVE  Views'
<1>1. C!TypeOK'
  BY DEF Views, C!TypeOK
<1>2. ASSUME NEW w \in Viewer, w # v PROVE TotalStands(w)' /\ OwnCovered(w)'
  <2>1. view'[w] = view[w] /\ excused'[w] = excused[w]
    BY <1>2 DEF Views, C!TypeOK
  <2>2. TotalStands(w) /\ OwnCovered(w)
    BY DEF Views
  <2>3. TotalStands(w)'
    <3>1. txns' = txns /\ repriced' = repriced
      OBVIOUS
    <3>2. Shown(w)' = Shown(w)
      BY <2>1, <3>1 DEF Shown, C!Window, C!OfCard
    <3> QED BY <2>1, <2>2, <3>1, <3>2 DEF TotalStands, C!Spend
  <2>4. OwnCovered(w)'
    BY <2>1, <2>2 DEF OwnCovered
  <2> QED BY <2>3, <2>4
<1> QED BY <1>1, <1>2 DEF Views

LEMMA BeginViewGood ==
    ASSUME Views, Table, NEW v \in Viewer, C!BeginView(v)
    PROVE  Views'
<1> DEFINE next == [C!NoView EXCEPT !.pc = "latest", !.now = today, !.left = cards]
<1>1. /\ view' = [view EXCEPT ![v] = next]
      /\ UNCHANGED <<txns, repriced, excused>>
  BY DEF C!BeginView
<1>2. /\ [c \in Card |-> FALSE] \in [Card -> BOOLEAN]
      /\ [c \in Card |-> 0] \in [Card -> Nat]
      /\ today \in C!Day /\ cards \in SUBSET Card
  BY SameDays DEF Table
<1>3. next \in C!View /\ next.pc = "latest"
  BY <1>2 DEF C!View, C!NoView, C!Step
<1> HIDE DEF next
<1>4. view'[v] = next /\ excused \in [Viewer -> BOOLEAN]
  BY <1>1 DEF Views, C!TypeOK
<1>5. TotalStands(v)' /\ OwnCovered(v)'
  BY <1>3, <1>4 DEF TotalStands, OwnCovered
<1>6. excused' = [excused EXCEPT ![v] = excused[v]]
  BY <1>1, <1>4
<1> QED BY <1>1, <1>3, <1>4, <1>5, <1>6, ViewGood

LEMMA ViewStepGood ==
    ASSUME Views, Table, NEW v \in Viewer, C!ViewStep(v)
    PROVE  Views'
<1>1. view \in [Viewer -> C!View] /\ excused \in [Viewer -> BOOLEAN] /\ view[v] \in C!View
  BY DEF Views, C!TypeOK
<1>2. UNCHANGED <<txns, repriced>>
  <2>1. CASE C!ReadLatest(v) \/ C!ReadCalendar(v) \/ C!ReadLast(v)
    BY <2>1, Zenon DEF C!ReadLatest, C!ReadCalendar, C!ReadLast
  <2>2. CASE C!ReadTotal(v) \/ C!ReadList(v) \/ C!Answer(v)
    BY <2>2, Zenon DEF C!ReadTotal, C!ReadList, C!Answer
  <2> QED BY <2>1, <2>2 DEF C!ViewStep
<1>3. ASSUME NEW next \in C!View, view' = [view EXCEPT ![v] = next], UNCHANGED excused,
             next.pc \notin {"list", "done"}
      PROVE  Views'
  <2>1. view'[v] = next /\ excused' = [excused EXCEPT ![v] = excused[v]]
    BY <1>1, <1>3
  <2>2. TotalStands(v)' /\ OwnCovered(v)'
    BY <1>3, <2>1 DEF TotalStands, OwnCovered
  <2> QED BY <1>1, <1>2, <1>3, <2>1, <2>2, ViewGood
<1>4. CASE C!ReadLatest(v)
  <2> DEFINE pending == [c \in Card |->
                 C!SyncPending(view[v].now, C!ResolvedDay(CycleDay[c]), C!Stored(c) # {},
                               IF C!Stored(c) = {} THEN 0 ELSE rows[c][C!Latest(c)].sync)]
             next == [view[v] EXCEPT !.pc = "calendar", !.pending = pending]
  <2>1. pending \in [Card -> BOOLEAN]
    BY DEF C!SyncPending
  <2>2. view' = [view EXCEPT ![v].pc = "calendar", ![v].pending = pending] /\ UNCHANGED excused
    BY <1>4 DEF C!ReadLatest
  <2> HIDE DEF pending
  <2>3. view' = [view EXCEPT ![v] = next]
    BY <1>1, <2>2
  <2>4. next \in C!View /\ next.pc = "calendar"
    BY <1>1, <2>1 DEF C!View, C!Step
  <2> QED BY <1>3, <2>2, <2>3, <2>4
<1>5. CASE C!ReadCalendar(v)
  <2> DEFINE now == view[v].now
             month == C!MonthOf(now)
             raw == [c \in Card |->
                 C!Spend({t \in C!OfCard(c, C!CalendarDays(now)) : C!MonthOf(txns[t].day) = month})]
             own == [c \in Card |-> C!OwnMonth(C!OfCard(c, C!CalendarDays(now)), month)]
             next == [view[v] EXCEPT !.pc = "last", !.monthRaw = raw, !.monthOwn = own]
  <2>1. raw \in [Card -> Nat] /\ own \in [Card -> Nat]
    <3> SUFFICES ASSUME NEW c \in Card
                 PROVE  /\ C!Spend({t \in C!OfCard(c, C!CalendarDays(now)) : C!MonthOf(txns[t].day) = month}) \in Nat
                        /\ C!OwnMonth(C!OfCard(c, C!CalendarDays(now)), month) \in Nat
      OBVIOUS
    <3> HIDE DEF now, month
    <3>1. C!OfCard(c, C!CalendarDays(now)) \in SUBSET T!Live(txns)
      BY CardRows
    <3>2. {t \in C!OfCard(c, C!CalendarDays(now)) : C!MonthOf(txns[t].day) = month} \in SUBSET T!Live(txns)
      BY <3>1
    <3> QED BY <3>1, <3>2, SumsOfRows
  <2>2. view' = [view EXCEPT ![v].pc = "last", ![v].monthRaw = raw, ![v].monthOwn = own] /\ UNCHANGED excused
    BY <1>5, Zenon DEF C!ReadCalendar
  <2> HIDE DEF raw, own
  <2>3. view' = [view EXCEPT ![v] = next]
    BY <1>1, <2>2
  <2>4. next \in C!View /\ next.pc = "last"
    BY <1>1, <2>1 DEF C!View, C!Step
  <2> QED BY <1>3, <2>2, <2>3, <2>4
<1>6. CASE C!ReadLast(v)
  <2> DEFINE there == [c \in Card |-> rows[c][C!MonthOf(view[v].now) - 1] # None]
             next == [view[v] EXCEPT !.pc = "total", !.last = there]
  <2>1. there \in [Card -> BOOLEAN]
    OBVIOUS
  <2>2. view' = [view EXCEPT ![v].pc = "total", ![v].last = there] /\ UNCHANGED excused
    BY <1>6 DEF C!ReadLast
  <2> HIDE DEF there
  <2>3. view' = [view EXCEPT ![v] = next]
    BY <1>1, <2>2
  <2>4. next \in C!View /\ next.pc = "total"
    BY <1>1, <2>1 DEF C!View, C!Step
  <2> QED BY <1>3, <2>2, <2>3, <2>4
<1>7. CASE C!ReadTotal(v)
  <2> DEFINE c == CHOOSE first \in view[v].left : TRUE
             S == C!OfCard(c, C!CycleDays(view[v].now, C!ResolvedDay(CycleDay[c])))
             next == [view[v] EXCEPT !.pc = "list", !.card = c, !.left = @ \ {c},
                                     !.spend = C!Spend(S), !.count = C!Cardinality(S), !.own = 0]
             flag == \E t \in S : t \in repriced
  <2>1. /\ view' = [view EXCEPT ![v] = next]
        /\ excused' = [excused EXCEPT ![v] = flag]
        /\ view[v].left # {}
    BY <1>7, Zenon DEF C!ReadTotal
  <2>2. c \in Card
    BY <1>1, <2>1 DEF C!View
  <2>3. C!Spend(S) \in Nat /\ C!Cardinality(S) \in Nat
    <3> HIDE DEF c
    <3>1. S \in SUBSET T!Live(txns)
      BY CardRows
    <3> HIDE DEF S
    <3> QED BY <3>1, SumsOfRows
  <2>4. flag \in BOOLEAN
    OBVIOUS
  <2> HIDE DEF c, S
  <2>5. /\ next \in C!View
        /\ next.pc = "list" /\ next.card = c /\ next.now = view[v].now /\ next.spend = C!Spend(S)
    BY <1>1, <2>2, <2>3 DEF C!View, C!Step
  <2> HIDE DEF next
  <2>6. view'[v] = next /\ excused'[v] = flag
    BY <1>1, <2>1
  <2>7. Shown(v)' = S
    BY <1>2, <2>5, <2>6 DEF Shown, C!Window, C!OfCard, S
  <2>8. TotalStands(v)'
    BY <1>2, <2>5, <2>6, <2>7 DEF TotalStands, C!Spend
  <2>9. OwnCovered(v)'
    BY <2>5, <2>6 DEF OwnCovered
  <2> HIDE DEF flag
  <2> QED BY <1>2, <2>1, <2>4, <2>5, <2>8, <2>9, ViewGood
<1>8. CASE C!ReadList(v)
  <2> DEFINE own == C!OwnSpend(Shown(v))
             next == [view[v] EXCEPT !.pc = "done", !.own = own]
  <2>1. Shown(v) \in SUBSET T!Live(txns)
    BY CardRows DEF Shown
  <2>2. own \in Nat /\ ((\A t \in Shown(v) : t \notin repriced) => own <= C!Spend(Shown(v)))
    BY <2>1, SumsOfRows
  <2>3. view' = [view EXCEPT ![v].pc = "done", ![v].own = own] /\ UNCHANGED excused /\ view[v].pc = "list"
    BY <1>8 DEF C!ReadList, Shown
  <2> HIDE DEF own
  <2>4. view' = [view EXCEPT ![v] = next]
    BY <1>1, <2>3
  <2>5. next \in C!View /\ next.pc = "done" /\ next.own = own /\ next.spend = view[v].spend
    BY <1>1, <2>2 DEF C!View, C!Step
  <2> HIDE DEF next
  <2>6. view'[v] = next /\ excused'[v] = excused[v] /\ excused' = [excused EXCEPT ![v] = excused[v]]
    BY <1>1, <2>3, <2>4
  <2>7. OwnCovered(v)'
    <3>1. TotalStands(v)
      BY DEF Views
    <3> QED BY <2>2, <2>3, <2>5, <2>6, <3>1 DEF TotalStands, OwnCovered
  <2>8. TotalStands(v)'
    BY <2>5, <2>6 DEF TotalStands
  <2>9. excused[v] \in BOOLEAN
    BY <1>1
  <2> QED BY <1>2, <2>4, <2>5, <2>6, <2>7, <2>8, <2>9, ViewGood
<1>9. CASE C!Answer(v)
  <2>1. view' = [view EXCEPT ![v] = C!NoView] /\ UNCHANGED excused
    BY <1>9 DEF C!Answer
  <2>2. /\ [c \in Card |-> FALSE] \in [Card -> BOOLEAN]
        /\ [c \in Card |-> 0] \in [Card -> Nat]
        /\ 0 \in C!Day
    BY ZeroIsThere, SameDays
  <2>3. C!NoView \in C!View /\ C!NoView.pc = "idle"
    BY <2>2 DEF C!View, C!NoView, C!Step
  <2> QED BY <1>3, <2>1, <2>3
<1> QED BY <1>4, <1>5, <1>6, <1>7, <1>8, <1>9 DEF C!ViewStep

LEMMA ViewsInit ==
    ASSUME C!Init
    PROVE  Views
<1>1. /\ [c \in Card |-> FALSE] \in [Card -> BOOLEAN]
      /\ [c \in Card |-> 0] \in [Card -> Nat]
      /\ 0 \in C!Day
  BY ZeroIsThere, SameDays
<1>2. C!NoView \in C!View /\ C!NoView.pc = "idle"
  BY <1>1 DEF C!View, C!NoView, C!Step
<1>3. C!TypeOK /\ \A v \in Viewer : view[v].pc = "idle"
  BY <1>2 DEF C!Init, C!TypeOK
<1> QED BY <1>3 DEF Views, TotalStands, OwnCovered

\* A write between a call's two reads excuses it, and no other step of the wallet
\* moves the rows that it has in hand.
LEMMA ViewsNext ==
    ASSUME Views, Table, [WalletNext]_walletVars
    PROVE  Views'
<1>1. ASSUME UNCHANGED <<view, excused, txns, repriced>> PROVE Views'
  BY <1>1 DEF Views, C!TypeOK, TotalStands, OwnCovered, Shown, C!Window, C!OfCard, C!Spend
<1>2. ASSUME UNCHANGED view, C!Disturb PROVE Views'
  <2>1. /\ excused' \in [Viewer -> BOOLEAN]
        /\ \A v \in Viewer : /\ view[v].pc = "list" => excused'[v]
                             /\ view[v].pc = "done" /\ ~excused'[v] => ~excused[v]
    BY <1>2 DEF C!Disturb
  <2>2. C!TypeOK'
    BY <1>2, <2>1 DEF Views, C!TypeOK
  <2>3. ASSUME NEW v \in Viewer PROVE TotalStands(v)' /\ OwnCovered(v)'
    BY <1>2, <2>1 DEF Views, TotalStands, OwnCovered
  <2> QED BY <2>2, <2>3 DEF Views
<1>3. CASE Night \/ StatementCalls \/ DetailedRuns
  BY <1>1, <1>3 DEF Night, StatementCalls, DetailedRuns, tVars, cVars
<1>4. CASE TransactionCalls
  <2>1. UNCHANGED view
    BY <1>4 DEF TransactionCalls
  <2>2. CASE C!Disturb
    BY <1>2, <2>1, <2>2
  <2>3. ASSUME NEW e \in Editor, NEW t \in Txn, T!EditorCall(e, t), UNCHANGED excused PROVE Views'
    <3>1. UNCHANGED <<txns, repriced>>
      BY <2>3, EditorCallReads
    <3> QED BY <1>1, <2>1, <2>3, <3>1
  <2>4. ASSUME NEW r \in Reader, T!BeginScan(r) \/ T!CursorPage(r) \/ T!OffsetPage(r), UNCHANGED excused
        PROVE  Views'
    <3>1. UNCHANGED <<txns, repriced>>
      BY <2>4 DEF T!BeginScan, T!CursorPage, T!OffsetPage
    <3> QED BY <1>1, <2>1, <2>4, <3>1
  <2> QED BY <1>4, <2>2, <2>3, <2>4 DEF TransactionCalls
<1>5. CASE SummaryCalls
  BY <1>5, BeginViewGood, ViewStepGood DEF SummaryCalls
<1>6. CASE UNCHANGED walletVars
  BY <1>1, <1>6 DEF walletVars, tVars, cVars
<1> QED BY <1>3, <1>4, <1>5, <1>6 DEF WalletNext

LEMMA ViewsKept == WalletSpec => []Views
<1>1. WalletInit => Views
  BY ViewsInit DEF WalletInit
<1>2. (Table /\ Scans) /\ Views /\ [WalletNext]_walletVars => Views'
  BY ViewsNext
<1> QED BY <1>1, <1>2, TransactionsKept, PTL DEF WalletSpec

\* However many calls run beside it, the summary never reports more own spend than
\* spend in a cycle, unless a write came between its two reads or a split purchase
\* was repriced.
THEOREM SpendIsCovered == WalletSpec => []SpendCovers
<1>1. Views => SpendCovers
  BY DEF Views, OwnCovered, SpendCovers, C!SpendCovers
<1> QED BY <1>1, ViewsKept, PTL

-----------------------------------------------------------------------------
(* All the types *)

Budget == nights \in 0 .. MaxNights /\ left \in [Part -> Nat]

LEMMA BudgetKept == WalletSpec => []Budget
<1>1. WalletInit => Budget
  BY WalletBounds DEF WalletInit, Budget
<1>2. Budget /\ [WalletNext]_walletVars => Budget'
  <2> SUFFICES ASSUME Budget, [WalletNext]_walletVars PROVE Budget'
    OBVIOUS
  <2>1. ASSUME NEW part \in Part, New(part) PROVE left' \in [Part -> Nat]
    <3>1. /\ left \in [Part -> Nat] /\ left[part] > 0
          /\ left' = [left EXCEPT ![part] = left[part] - 1]
      BY <2>1 DEF Budget, New
    <3>2. left[part] - 1 \in Nat
      BY <3>1
    <3> QED BY <3>1, <3>2
  <2>2. ASSUME Going PROVE left' \in [Part -> Nat]
    BY <2>2 DEF Budget, Going
  <2>3. CASE Night
    <3>1. UNCHANGED left /\ nights < MaxNights /\ nights' = nights + 1
      BY <2>3 DEF Night
    <3> QED BY <3>1, WalletBounds DEF Budget
  <2>4. CASE StatementCalls
    <3>1. New("statements") \/ Going
      BY <2>4 DEF StatementCalls
    <3>2. UNCHANGED nights /\ "statements" \in Part
      BY <2>4 DEF StatementCalls, Part
    <3> QED BY <2>1, <2>2, <3>1, <3>2 DEF Budget
  <2>5. CASE TransactionCalls
    <3>1. New("transactions") \/ Going
      BY <2>5 DEF TransactionCalls
    <3>2. UNCHANGED nights /\ "transactions" \in Part
      BY <2>5 DEF TransactionCalls, Part
    <3> QED BY <2>1, <2>2, <3>1, <3>2 DEF Budget
  <2>6. CASE SummaryCalls
    <3>1. New("summary") \/ Going
      BY <2>6 DEF SummaryCalls
    <3>2. UNCHANGED nights /\ "summary" \in Part
      BY <2>6 DEF SummaryCalls, Part
    <3> QED BY <2>1, <2>2, <3>1, <3>2 DEF Budget
  <2>7. CASE DetailedRuns
    <3>1. New("detailed") \/ Going
      BY <2>7 DEF DetailedRuns
    <3>2. UNCHANGED nights /\ "detailed" \in Part
      BY <2>7 DEF DetailedRuns, Part
    <3> QED BY <2>1, <2>2, <3>1, <3>2 DEF Budget
  <2>8. CASE UNCHANGED walletVars
    BY <2>8 DEF walletVars, Budget
  <2> QED BY <2>3, <2>4, <2>5, <2>6, <2>7, <2>8 DEF WalletNext
<1> QED BY <1>1, <1>2, PTL DEF WalletSpec

\* Every part of the wallet keeps to its types: above all, every sum the summary
\* reports is a number, and every cursor points at an instant.
THEOREM WalletKeepsTypes == WalletSpec => []WalletTypes
<1>1. (TypeOK /\ SyncTypes) /\ (Table /\ Scans) /\ Views /\ Budget => WalletTypes
  BY DEF Table, Views, Budget, WalletTypes
<1> QED BY <1>1, WalletPartTypes, TransactionsKept, ViewsKept, BudgetKept, PTL

-----------------------------------------------------------------------------
(* The calendar month *)

\* Days of an earlier month come earlier.
LEMMA EarlierDays ==
    ASSUME NEW m \in Month, NEW day \in Day, day < FirstDay[m]
    PROVE  MonthOf(day) < m
<1>1. /\ MonthOf(day) \in Month /\ day < FirstDay[MonthOf(day) + 1]
      /\ FirstDay[MonthOf(day)] <= day
  BY MonthOfDay
<1>2. ASSUME MonthOf(day) >= m PROVE FALSE
  <2>1. FirstDay[m] <= FirstDay[MonthOf(day)]
    <3>1. m \in 0 .. LastMonth + 1 /\ MonthOf(day) \in 0 .. LastMonth + 1
      BY <1>1, CalendarAssumption DEF Month
    <3> QED BY <1>2, <3>1, MonthsInOrder
  <2>2. FirstDay[m] \in Nat /\ FirstDay[MonthOf(day)] \in Nat /\ day \in Nat
    BY <1>1, CalendarAssumption DEF Month, Day
  <2> QED BY <1>1, <2>1, <2>2
<1> QED BY <1>1, <1>2, CalendarAssumption DEF Month

\* Nothing from before the lookback still has a slice in the month: a purchase is
\* spread over at most one month more than the lookback goes back.
LEMMA NoOldSlices ==
    ASSUME Table, NEW t \in T!Live(txns), NEW month \in Month, month > Lookback,
           txns[t].day < FirstDay[month - Lookback]
    PROVE  C!OwnInMonth(txns[t], month) = 0
<1> DEFINE row == txns[t]
           bought == MonthOf(row.day)
<1>1. row \in T!Row /\ row.day \in Day
  BY LiveRow, SameDays DEF Table, T!Row
<1>2. row.adj.kind = "AMORTIZE" => row.adj.n \in Nat /\ row.adj.n <= Lookback + 1
  <2>1. row.adj.kind = "AMORTIZE" => row.adj.n \in 2 .. MaxMonths
    BY DEF Table, SpreadsBounded, Spreads
  <2> HIDE DEF row
  <2> QED BY <2>1, WalletBounds
<1>3. bought \in Nat /\ bought < month - Lookback /\ month \in Nat
  <2>1. month - Lookback \in Month
    <3>1. Lookback \in Nat /\ LastMonth \in Nat
      BY WalletBounds, CalendarAssumption
    <3> QED BY <3>1 DEF Month
  <2>2. bought < month - Lookback
    BY <1>1, <2>1, EarlierDays
  <2>3. bought \in Month
    BY <1>1, MonthOfDay
  <2> QED BY <2>2, <2>3, CalendarAssumption DEF Month
<1>4. C!MonthOf(row.day) = bought
  BY SameMonth
<1>5. Lookback \in Nat
  BY WalletBounds
<1> HIDE DEF bought, row
<1>6. row.adj.kind = "AMORTIZE" => month \notin bought .. bought + row.adj.n - 1
  BY <1>2, <1>3, <1>5
<1>7. bought # month
  BY <1>3, <1>5
<1> QED BY <1>4, <1>6, <1>7 DEF C!OwnInMonth, row

\* However the purchases are spread and whenever they were made, the summary's
\* lookback misses no slice that falls in the running month.
THEOREM CalendarIsComplete == WalletSpec => []CalendarComplete
<1>1. Table => CalendarComplete
  <2> SUFFICES ASSUME Table, NEW c \in Card
               PROVE  C!OwnMonth(C!OfCard(c, C!CalendarDays(today)), C!MonthOf(today))
                        = C!OwnMonth(C!OfCard(c, 0 .. FirstDay[C!MonthOf(today) + 1] - 1), C!MonthOf(today))
    BY DEF CalendarComplete, C!CalendarComplete
  <2> DEFINE month == MonthOf(today)
             back == IF month > Lookback THEN month - Lookback ELSE 0
             end == FirstDay[month + 1] - 1
             Recent == C!OfCard(c, FirstDay[back] .. end)
             All == C!OfCard(c, 0 .. end)
  <2>1. C!MonthOf(today) = month /\ C!CalendarDays(today) = FirstDay[back] .. end
    BY SameMonth DEF C!CalendarDays
  <2>2. month \in Month
    BY MonthOfDay, SameDays DEF Table
  <2>3. Lookback \in Nat /\ LastMonth \in Nat
    BY WalletBounds, CalendarAssumption
  <2> HIDE DEF month
  <2>4. back \in 0 .. LastMonth /\ end \in Int
    <3>1. back \in 0 .. LastMonth /\ month + 1 \in 0 .. LastMonth + 1
      BY <2>2, <2>3 DEF Month
    <3> QED BY <3>1, CalendarAssumption
  <2>5. FirstDay[back] \in Nat /\ FirstDay[0] = 0
    <3> HIDE DEF back
    <3>1. back \in 0 .. LastMonth + 1
      BY <2>3, <2>4
    <3> QED BY <3>1, CalendarAssumption
  <2>6. Recent \in SUBSET All
    <3> HIDE DEF back, end
    <3>1. FirstDay[back] .. end \subseteq 0 .. end
      BY <2>4, <2>5
    <3> QED BY <3>1 DEF C!OfCard
  <2>7. ASSUME NEW t \in All, t \notin Recent
        PROVE  C!OwnInMonth(txns[t], month) = 0
    <3>1. t \in T!Live(txns) /\ txns[t].day \in 0 .. end /\ txns[t].day \notin FirstDay[back] .. end
      BY <2>7 DEF C!OfCard, T!Live
    <3>2. txns[t].day < FirstDay[back]
      <4> HIDE DEF back, end
      <4> QED BY <2>4, <2>5, <3>1
    <3>3. month > Lookback
      <4>1. ~(month > Lookback) => FirstDay[back] = 0
        BY <2>5
      <4> HIDE DEF back, end
      <4> QED BY <2>4, <3>1, <3>2, <4>1
    <3> QED BY <2>2, <3>1, <3>2, <3>3, NoOldSlices
  <2> HIDE DEF Recent, All, back, end
  <2>8. C!OwnMonth(Recent, month) = C!OwnMonth(All, month)
    <3> DEFINE Some == UNION {{t} \X (1 .. C!OwnInMonth(txns[t], month)) : t \in Recent}
               Every == UNION {{t} \X (1 .. C!OwnInMonth(txns[t], month)) : t \in All}
    <3>1. \A x : x \in Some <=> \E t \in Recent : \E i \in 1 .. C!OwnInMonth(txns[t], month) : x = <<t, i>>
      OBVIOUS
    <3>2. \A x : x \in Every <=> \E t \in All : \E i \in 1 .. C!OwnInMonth(txns[t], month) : x = <<t, i>>
      OBVIOUS
    <3>3. C!OwnMonth(Recent, month) = C!Cardinality(Some) /\ C!OwnMonth(All, month) = C!Cardinality(Every)
      BY DEF C!OwnMonth
    <3> HIDE DEF Some, Every
    <3>4. ASSUME NEW t \in All, NEW i \in 1 .. C!OwnInMonth(txns[t], month) PROVE t \in Recent
      <4>1. C!OwnInMonth(txns[t], month) # 0
        BY <3>4
      <4> QED BY <2>7, <4>1
    <3>5. \A x : x \in Some <=> x \in Every
      BY <2>6, <3>1, <3>2, <3>4, Zenon
    <3>6. Some = Every
      BY <3>5
    <3> QED BY <3>3, <3>6, Zenon
  <2> QED BY <2>1, <2>8 DEF Recent, All, end
<1> QED BY <1>1, TransactionsKept, PTL

===============================================================================
