------------------------------ MODULE Calendar ------------------------------
(***************************************************************************)
(* Days and months as the statement import, the statement link and the     *)
(* card summary compute them. A day is a number, a month is an index, and  *)
(* FirstDay lays the months out one after the other; an instance may use   *)
(* short months. Every Date of the code that these operators stand for is  *)
(* taken in local time (process.env.TZ).                                   *)
(***************************************************************************)
EXTENDS Integers

CONSTANTS
    LastMonth,   \* bound on the calendar: months 0 .. LastMonth
    FirstDay,    \* the first day of each month, and of the one after the last
    MaxDom,      \* 31: the largest day of month a card may name
    DefaultDom   \* 17: the summary's cycle day for a card that names none

Month == 0 .. LastMonth
Day == 0 .. FirstDay[LastMonth + 1] - 1

ASSUME CalendarAssumption ==
    /\ LastMonth \in Nat \ {0}
    /\ FirstDay \in [0 .. LastMonth + 1 -> Nat]
    /\ FirstDay[0] = 0
    /\ \A m \in Month : FirstDay[m] < FirstDay[m + 1]
    /\ MaxDom \in Nat \ {0}
    /\ DefaultDom \in 1 .. MaxDom

-----------------------------------------------------------------------------
\* getMonth, getDate.
MonthOf(day) == CHOOSE m \in Month : FirstDay[m] <= day /\ day < FirstDay[m + 1]
DayOfMonth(day) == day - FirstDay[MonthOf(day)] + 1

\* new Date(year, month, dom): a day of month that is too large runs over
\* into the month after it.
NewDate(m, dom) == FirstDay[m] + dom - 1

LengthOf(m) == FirstDay[m + 1] - FirstDay[m]

-----------------------------------------------------------------------------
(* The statement import *)

\* Fault: the cycle day itself still belongs to the month before.
LateMonth(today, cycleDay) ==
    IF DayOfMonth(today) > cycleDay THEN MonthOf(today) ELSE MonthOf(today) - 1

\* The month whose statement should be there by now.
IntendedMonth(today, cycleDay) ==
    IF DayOfMonth(today) >= cycleDay THEN MonthOf(today) ELSE MonthOf(today) - 1

\* deriveStatementMonthFromDueDate: a bill belongs to the month before the
\* one it is due in.
StatementMonthOf(due) == MonthOf(due) - 1

-----------------------------------------------------------------------------
(* The card summary *)

HasCycleDay(cycleDay) == cycleDay \in 1 .. MaxDom

\* resolveCycleDay
ResolvedDay(cycleDay) == IF HasCycleDay(cycleDay) THEN cycleDay ELSE DefaultDom

\* Fault: a day that has not come yet is looked for in this month.
ThisMonthStart(today, dom) == NewDate(MonthOf(today), dom)

\* getCycleWindow: from the last cycle day to the end of today.
CycleStart(today, dom) ==
    IF DayOfMonth(today) >= dom THEN NewDate(MonthOf(today), dom)
    ELSE NewDate(MonthOf(today) - 1, dom)
CycleDays(today, dom) == CycleStart(today, dom) .. today

\* isStatementSyncPending; a card without a statement has no sync month.
SyncPending(today, dom, synced, syncMonth) ==
    \/ ~synced
    \/ DayOfMonth(today) >= dom /\ syncMonth < MonthOf(today)
=============================================================================
