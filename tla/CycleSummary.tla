---------------------------- MODULE CycleSummary ----------------------------
(***************************************************************************)
(* The card summary (CardCycleSummaryService.getSummary): one call reads   *)
(* the latest statements, the transactions of the calendar month, last     *)
(* month's statements, and then, card by card, first the total of the      *)
(* running cycle and after that the cycle's transactions once more, each   *)
(* in a query of its own with other calls in between. The date is read     *)
(* once, at the start.                                                     *)
(***************************************************************************)
EXTENDS WalletData, FiniteSetsExt

CONSTANTS
    Viewer,     \* calls of the summary
    Lookback    \* 60: months back in which a spread purchase is looked for

VARIABLES
    txns,       \* the transaction table (Transactions)
    repriced,   \* the transactions whose amount has been changed
    view,       \* where each call stands, and what it has computed
    excused     \* auxiliary: has a transaction changed between the call's two
                \* reads of the card in hand, or was one of them repriced?

Step == {"idle", "latest", "calendar", "last", "total", "list", "done"}

View == [pc : Step, now : Day,
         card : Card \cup {None},              \* the card in hand
         left : SUBSET Card,                   \* the cards still to come
         pending : [Card -> BOOLEAN],          \* statementSyncPending
         monthRaw : [Card -> Nat],             \* calendarMonthSpend
         monthOwn : [Card -> Nat],             \* calendarMonthEffectiveSpend
         last : [Card -> BOOLEAN],             \* is there a statement for last month?
         spend : Nat, own : Nat, count : Nat]  \* cycleSpend, effectiveCycleSpend, txnCount

NoView == [pc |-> "idle", now |-> 0, card |-> None, left |-> {},
           pending |-> [c \in Card |-> FALSE],
           monthRaw |-> [c \in Card |-> 0], monthOwn |-> [c \in Card |-> 0],
           last |-> [c \in Card |-> FALSE], spend |-> 0, own |-> 0, count |-> 0]

TypeOK ==
    /\ view \in [Viewer -> View]
    /\ excused \in [Viewer -> BOOLEAN]

Init ==
    /\ view = [v \in Viewer |-> NoView]
    /\ excused = [v \in Viewer |-> FALSE]

-----------------------------------------------------------------------------
(* Amounts. roundMoney is left out: it never lifts a share above its whole. *)

\* effectiveForCycleTxn
OwnInCycle(row) ==
    CASE row.adj.kind = "NONE" -> row.amount
      [] row.adj.kind = "EXCLUDE" -> 0
      [] row.adj.kind = "SPLIT" -> row.adj.n
      [] row.adj.kind = "AMORTIZE" -> row.amount \div row.adj.n

\* effectiveForCalendarMonth: a spread purchase counts one slice in its own
\* month and in each of the n - 1 months after it.
OwnInMonth(row, month) ==
    CASE row.adj.kind = "EXCLUDE" -> 0
      [] row.adj.kind = "AMORTIZE" ->
             IF month \in MonthOf(row.day) .. MonthOf(row.day) + row.adj.n - 1
               THEN row.amount \div row.adj.n ELSE 0
      [] OTHER -> IF MonthOf(row.day) = month THEN OwnInCycle(row) ELSE 0

OfCard(c, days) == {t \in Txn : txns[t] # None /\ txns[t].card = c /\ txns[t].day \in days}

\* Sums are counted out, coin by coin.
Spend(S) == Cardinality(UNION {{t} \X (1 .. txns[t].amount) : t \in S})
OwnSpend(S) == Cardinality(UNION {{t} \X (1 .. OwnInCycle(txns[t])) : t \in S})
OwnMonth(S, month) == Cardinality(UNION {{t} \X (1 .. OwnInMonth(txns[t], month)) : t \in S})

-----------------------------------------------------------------------------
BeginView(v) ==
    /\ view[v].pc = "idle"
    /\ cards # {}
    /\ view' = [view EXCEPT ![v] = [NoView EXCEPT !.pc = "latest", !.now = today, !.left = cards]]
    /\ UNCHANGED <<today, cards, rows, txns, repriced, excused>>

Stored(c) == {m \in Month : rows[c][m] # None}
Latest(c) == Max(Stored(c))

\* The latest statement of each card says whether a newer one is missing.
ReadLatest(v) ==
    /\ view[v].pc = "latest"
    /\ view' = [view EXCEPT ![v].pc = "calendar", ![v].pending = [c \in Card |->
                  SyncPending(view[v].now, ResolvedDay(CycleDay[c]), Stored(c) # {},
                              IF Stored(c) = {} THEN 0 ELSE rows[c][Latest(c)].sync)]]
    /\ UNCHANGED <<today, cards, rows, txns, repriced, excused>>

\* Fault: spread purchases are looked for in the running month alone.
ShortCalendarDays(now) == FirstDay[MonthOf(now)] .. FirstDay[MonthOf(now) + 1] - 1

\* computeCalendarMonthByCard reads the running month and the Lookback months
\* before it.
CalendarDays(now) ==
    LET back == IF MonthOf(now) > Lookback THEN MonthOf(now) - Lookback ELSE 0
    IN  FirstDay[back] .. FirstDay[MonthOf(now) + 1] - 1

ReadCalendar(v) ==
    LET now == view[v].now
        month == MonthOf(now)
    IN  /\ view[v].pc = "calendar"
        /\ view' = [view EXCEPT ![v].pc = "last",
              ![v].monthRaw = [c \in Card |->
                  Spend({t \in OfCard(c, CalendarDays(now)) : MonthOf(txns[t].day) = month})],
              ![v].monthOwn = [c \in Card |->
                  OwnMonth(OfCard(c, CalendarDays(now)), month)]]
        /\ UNCHANGED <<today, cards, rows, txns, repriced, excused>>

\* getLastMonthStatementByCard
ReadLast(v) ==
    /\ view[v].pc = "last"
    /\ view' = [view EXCEPT ![v].pc = "total", ![v].last =
                  [c \in Card |-> rows[c][MonthOf(view[v].now) - 1] # None]]
    /\ UNCHANGED <<today, cards, rows, txns, repriced, excused>>

\* A write to the transaction table between the two reads of a card.
Disturb == excused' = [v \in Viewer |-> excused[v] \/ view[v].pc = "list"]

Window(v) == CycleDays(view[v].now, ResolvedDay(CycleDay[view[v].card]))

\* aggregateCardSpend, for the first card or the next.
ReadTotal(v) ==
    /\ view[v].pc \in {"total", "done"}
    /\ view[v].left # {}
    /\ LET c == CHOOSE first \in view[v].left : TRUE
           S == OfCard(c, CycleDays(view[v].now, ResolvedDay(CycleDay[c])))
       IN  /\ view' = [view EXCEPT ![v] = [view[v] EXCEPT
                         !.pc = "list", !.card = c, !.left = @ \ {c},
                         !.spend = Spend(S), !.count = Cardinality(S), !.own = 0]]
           /\ excused' = [excused EXCEPT ![v] = \E t \in S : t \in repriced]
    /\ UNCHANGED <<today, cards, rows, txns, repriced>>

\* Fault: the second read has no lower bound.
ReadAllListed(v) ==
    /\ view[v].pc = "list"
    /\ view' = [view EXCEPT ![v].pc = "done",
                  ![v].own = OwnSpend(OfCard(view[v].card, 0 .. view[v].now))]
    /\ UNCHANGED <<today, cards, rows, txns, repriced, excused>>

\* findTransactionsWithAdjustments
ReadList(v) ==
    /\ view[v].pc = "list"
    /\ view' = [view EXCEPT ![v].pc = "done",
                  ![v].own = OwnSpend(OfCard(view[v].card, Window(v)))]
    /\ UNCHANGED <<today, cards, rows, txns, repriced, excused>>

\* The answer: adjustedAmount is what the own part leaves of the spend, and
\* never negative.
Answer(v) ==
    /\ view[v].pc = "done"
    /\ view[v].left = {}
    /\ view' = [view EXCEPT ![v] = NoView]
    /\ UNCHANGED <<today, cards, rows, txns, repriced, excused>>

ViewStep(v) ==
    \/ ReadLatest(v) \/ ReadCalendar(v) \/ ReadLast(v) \/ ReadTotal(v)
    \/ ReadList(v) \/ Answer(v)

-----------------------------------------------------------------------------
(* Properties *)

\* What is left of a cycle's spend after splits, exclusions and spreading is
\* never more than the spend, unless the table changed between the summary's
\* two reads or a split purchase was repriced below its share.
SpendCovers ==
    \A v \in Viewer : view[v].pc = "done" /\ ~excused[v] => view[v].own <= view[v].spend

\* A purchase made today is in the running cycle of its card on the same day,
\* unless the card's cycle day is two or more past the end of the last month.
TodayCounted ==
    \A c \in Card :
        LET dom == ResolvedDay(CycleDay[c])
        IN  MonthOf(today) > 0 /\ dom <= LengthOf(MonthOf(today) - 1) + 1 =>
                today \in CycleDays(today, dom)

\* The own spend of a calendar month, read with a lookback, is that of all the
\* purchases there are: no slice of a spread purchase is missed.
CalendarComplete ==
    \A c \in Card :
        OwnMonth(OfCard(c, CalendarDays(today)), MonthOf(today))
          = OwnMonth(OfCard(c, 0 .. FirstDay[MonthOf(today) + 1] - 1), MonthOf(today))
=============================================================================
