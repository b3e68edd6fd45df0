--------------------------- MODULE StatementsProofs ---------------------------
(***************************************************************************)
(* Proofs about Statements, for any calendar, cards, sources and bills and *)
(* any number of imports and calls.                                        *)
(***************************************************************************)
EXTENDS Statements, Counting, TLAPS

-----------------------------------------------------------------------------
(* The calendar *)

\* Every day is in a month.
LEMMA MonthExists ==
    ASSUME NEW day \in Day
    PROVE  \E m \in Month : FirstDay[m] <= day /\ day < FirstDay[m + 1]
<1> USE CalendarAssumption DEF Day, Month
<1> DEFINE Late == {n \in Nat : n <= LastMonth /\ day < FirstDay[n + 1]}
<1>1. Late \in SUBSET Nat /\ LastMonth \in Late
  OBVIOUS
<1>2. PICK m \in Late : \A n \in Late : m <= n
  BY <1>1, LeastNatural
<1>3. FirstDay[m] <= day
  <2>1. CASE m = 0
    BY <2>1
  <2>2. CASE m # 0
    <3>1. m - 1 \in Nat /\ m - 1 <= LastMonth /\ ~(m <= m - 1)
      BY <2>2
    <3>4. m - 1 \notin Late
      BY <1>2, <3>1
    <3>2. ~(day < FirstDay[m - 1 + 1])
      BY <3>1, <3>4
    <3>3. m - 1 + 1 = m /\ FirstDay[m] \in Nat
      BY <1>2, <2>2
    <3> QED BY <3>2, <3>3
  <2> QED BY <2>1, <2>2
<1> QED BY <1>2, <1>3

LEMMA MonthOfDay ==
    ASSUME NEW day \in Day
    PROVE  /\ MonthOf(day) \in Month
           /\ FirstDay[MonthOf(day)] <= day
           /\ day < FirstDay[MonthOf(day) + 1]
BY MonthExists DEF MonthOf

\* A later month begins later.
LEMMA MonthsInOrder ==
    ASSUME NEW a \in 0 .. LastMonth + 1, NEW b \in 0 .. LastMonth + 1, a <= b
    PROVE  FirstDay[a] <= FirstDay[b]
<1> USE CalendarAssumption DEF Month
<1> DEFINE Before == {n \in Nat : a <= n /\ n <= b /\ FirstDay[n] < FirstDay[a]}
<1>1. SUFFICES ASSUME b \in Before PROVE FALSE
  OBVIOUS
<1>2. PICK n \in Before : \A k \in Before : n <= k
  BY <1>1, LeastNatural
<1>3. n # a /\ n - 1 \in Month /\ a <= n - 1
  BY <1>2
<1>4. n - 1 \notin Before
  BY <1>2, <1>3
<1>5. FirstDay[a] <= FirstDay[n - 1]
  BY <1>3, <1>4
<1>6. FirstDay[n - 1] < FirstDay[n - 1 + 1] /\ n - 1 + 1 = n
  BY <1>3
<1> QED BY <1>2, <1>3, <1>5, <1>6

\* A later day is not in an earlier month.
LEMMA MonthOfMonotonic ==
    ASSUME NEW d \in Day, NEW e \in Day, d <= e
    PROVE  MonthOf(d) <= MonthOf(e)
<1>0. /\ LastMonth \in Nat /\ MonthOf(d) \in 0 .. LastMonth /\ MonthOf(e) \in 0 .. LastMonth
      /\ FirstDay[MonthOf(d)] <= d /\ e < FirstDay[MonthOf(e) + 1]
  BY MonthOfDay, CalendarAssumption DEF Month
<1>1. SUFFICES ASSUME MonthOf(e) + 1 <= MonthOf(d) PROVE FALSE
  BY <1>0
<1>2. MonthOf(e) + 1 \in 0 .. LastMonth + 1 /\ MonthOf(d) \in 0 .. LastMonth + 1
  BY <1>0
<1>3. FirstDay[MonthOf(e) + 1] <= FirstDay[MonthOf(d)]
  BY <1>1, <1>2, MonthsInOrder
<1>4. /\ FirstDay[MonthOf(e) + 1] \in Nat /\ FirstDay[MonthOf(d)] \in Nat
      /\ d \in Nat /\ e \in Nat
  BY <1>2, CalendarAssumption DEF Day
<1> QED BY <1>0, <1>3, <1>4

LEMMA AfterFirstMonth ==
    ASSUME NEW day \in Day, FirstDay[1] <= day
    PROVE  MonthOf(day) \in Month \ {0}
<1> USE CalendarAssumption DEF Month, Day
<1>1. ASSUME MonthOf(day) = 0 PROVE FALSE
  <2>1. day < FirstDay[0 + 1]
    BY <1>1, MonthOfDay
  <2>2. 0 + 1 = 1 /\ FirstDay[1] \in Nat /\ day \in Int
    OBVIOUS
  <2> QED BY <2>1, <2>2
<1> QED BY <1>1, MonthOfDay

LEMMA ZeroIsThere == 0 \in Month /\ 0 \in Day /\ 0 \in 0 .. MaxAttempts
<1> USE CalendarAssumption
<1>1. LastMonth + 1 \in 0 .. LastMonth + 1 /\ 0 \in 0 .. LastMonth + 1 /\ 0 <= LastMonth + 1
  OBVIOUS
<1>2. FirstDay[LastMonth] < FirstDay[LastMonth + 1] /\ FirstDay[LastMonth] \in Nat
      /\ FirstDay[LastMonth + 1] \in Nat
  BY DEF Month
<1>3. 0 \in 0 .. MaxAttempts
  BY WalletAssumption
<1> QED BY <1>2, <1>3 DEF Month, Day

\* A due date, however it is read, is in the calendar and past its first month.
LEMMA ReadingsAreDays ==
    ASSUME NEW b \in Bill, NEW due \in Readings(b)
    PROVE  /\ due \in Day
           /\ MonthOf(due) \in Month \ {0}
           /\ StatementMonthOf(due) \in Month
           /\ StatementMonthOf(due) = MonthOf(due) - 1
           /\ MonthOf(due) <= MonthOf(ReceivedOn[b]) + 1
<1> USE WalletAssumption, CalendarAssumption DEF Readings
<1>1. DueOn[b] \in Day /\ ReceivedOn[b] \in Day /\ FirstDay[1] \in Nat /\ FirstDay[1] < DueOn[b]
  BY DEF Month
<1>2. due \in Day /\ FirstDay[1] <= due /\ due <= DueOn[b]
  BY <1>1 DEF Day
<1>3. MonthOf(due) \in Month \ {0} /\ MonthOf(due) <= MonthOf(DueOn[b])
  BY <1>1, <1>2, AfterFirstMonth, MonthOfMonotonic
<1>4. MonthOf(DueOn[b]) \in Month /\ MonthOf(ReceivedOn[b]) \in Month
  BY <1>1, MonthOfDay
<1>5. MonthOf(DueOn[b]) <= MonthOf(ReceivedOn[b]) + 1
  BY WalletAssumption
<1>6. StatementMonthOf(due) = MonthOf(due) - 1
  BY DEF StatementMonthOf
<1>7. MonthOf(due) - 1 \in Month
  BY <1>3 DEF Month
<1>8. MonthOf(due) <= MonthOf(ReceivedOn[b]) + 1
  BY <1>3, <1>4, <1>5 DEF Month
<1> QED BY <1>2, <1>3, <1>6, <1>7, <1>8

-----------------------------------------------------------------------------
(* The inductive invariant *)

StoredIn(c, table) == {m \in Month : table[c][m] # None}

\* What a run knows of a source: the months that had a row when it began still
\* have one; a bill it may settle is of the intended month, and of the month it
\* was read to be of; and when it is about to insert, it found no row at the
\* start under the month the bill is due in.
Sound(t, table) ==
    /\ t.pc \in {"idle", "card", "done"} => t.apt = 0
    /\ t.pc \in {"intended", "fetch", "pdf", "ask", "parsed", "legacy", "insert"} =>
         /\ t.card \in Card
         /\ t.before \subseteq StoredIn(t.card, table)
    /\ t.pc = "intended" /\ t.apt # 0 => t.apt = t.intended
    /\ t.pc \in {"pdf", "ask", "parsed", "legacy", "insert"} => t.bill \in Bill
    /\ t.pc \in {"parsed", "legacy", "insert"} =>
         /\ t.due \in Readings(t.bill)
         /\ t.apt # 0 => StatementMonthOf(t.due) = t.apt
    /\ t.pc = "insert" => MonthOf(t.due) \notin t.before

\* A call that is about to write has a row of that month at hand.
DeskSound(d, table) ==
    d.pc = "write" =>
        /\ d.card \in Card
        /\ d.row \in Row
        /\ d.row.sync >= d.month \/ d.row.early
        /\ table[d.card][d.month] # None

\* No row was synced before its own month, unless it was typed so.
RowsAhead(table) ==
    \A c \in Card, m \in Month :
        table[c][m] # None => table[c][m].sync >= m \/ table[c][m].early

\* A month that was settled has a row, or a later one has.
Dealt(months, table) ==
    \A c \in Card : months[c] # 0 => \E m \in StoredIn(c, table) : months[c] <= m

IInv ==
    /\ TypeOK
    /\ FirstDay[1] <= today
    /\ \A p \in Importer, s \in Source : Sound(task[p][s], rows)
    /\ \A k \in Clerk : DeskSound(clerk[k], rows)
    /\ RowsAhead(rows)
    /\ Dealt(settled, rows)

\* Every row of one table is also in the other, if not with the same values.
Grown(table, later) == \A c \in Card, m \in Month : table[c][m] # None => later[c][m] # None

LEMMA SoundGrows ==
    ASSUME NEW t, NEW table, NEW later, Grown(table, later), Sound(t, table)
    PROVE  Sound(t, later)
<1>1. \A c \in Card : StoredIn(c, table) \subseteq StoredIn(c, later)
  BY DEF Grown, StoredIn
<1> QED BY <1>1 DEF Sound

LEMMA DealtGrows ==
    ASSUME NEW months, NEW table, NEW later, Grown(table, later), Dealt(months, table)
    PROVE  Dealt(months, later)
BY DEF Grown, Dealt, StoredIn

LEMMA DeskGrows ==
    ASSUME NEW d \in Desk, NEW table, NEW later, Grown(table, later), DeskSound(d, table)
    PROVE  DeskSound(d, later)
BY DEF Grown, DeskSound, Desk

\* What a write of one row does to the table.
LEMMA PutRow ==
    ASSUME TypeOK, RowsAhead(rows),
           NEW c \in Card, NEW m \in Month, NEW row \in Row,
           row.sync >= m \/ row.early, Put(c, m, row)
    PROVE  /\ rows' \in [Card -> [Month -> Row \cup {None}]]
           /\ Grown(rows, rows')
           /\ RowsAhead(rows')
           /\ rows'[c][m] = row
<1>1. row # None
  BY WalletAssumption DEF Row
<1>2. rows' = [rows EXCEPT ![c][m] = row]
  BY DEF Put
<1>3. rows' \in [Card -> [Month -> Row \cup {None}]]
  BY <1>2 DEF TypeOK
<1>4. \A d \in Card, n \in Month : rows'[d][n] = IF d = c /\ n = m THEN row ELSE rows[d][n]
  BY <1>2 DEF TypeOK
<1> QED BY <1>1, <1>3, <1>4 DEF Grown, RowsAhead

\* A step of one run with one source leaves the others alone.
LEMMA TaskStep ==
    ASSUME IInv, NEW p \in Importer, NEW s \in Source, NEW v \in Task,
           task' = [task EXCEPT ![p][s] = v], Grown(rows, rows'), Sound(v, rows')
    PROVE  /\ task' \in [Importer -> [Source -> Task]]
           /\ \A q \in Importer, r \in Source : Sound(task'[q][r], rows')
<1>1. task \in [Importer -> [Source -> Task]]
  BY DEF IInv, TypeOK
<1>2. task' \in [Importer -> [Source -> Task]]
  BY <1>1
<1>3. \A q \in Importer, r \in Source : task'[q][r] = IF q = p /\ r = s THEN v ELSE task[q][r]
  BY <1>1
<1>4. \A q \in Importer, r \in Source : Sound(task[q][r], rows')
  BY SoundGrows DEF IInv
<1> QED BY <1>2, <1>3, <1>4

\* A source that ends, with its running month settled or not.
LEMMA EndStep ==
    ASSUME IInv, NEW p \in Importer, NEW s \in Source, NEW result \in Result,
           End(p, s, result), Grown(rows, rows'),
           task[p][s].apt # 0 /\ ~task[p][s].dry /\ result \in {"inserted", "present"} =>
             /\ task[p][s].card \in Card
             /\ \E m \in StoredIn(task[p][s].card, rows') : task[p][s].apt <= m
    PROVE  /\ task' \in [Importer -> [Source -> Task]]
           /\ \A q \in Importer, r \in Source : Sound(task'[q][r], rows')
           /\ settled' \in [Card -> Month]
           /\ Dealt(settled', rows')
<1> DEFINE t == task[p][s]
           v == [NoTask EXCEPT !.pc = "done", !.result = result, !.dry = t.dry]
           last == t.apt # 0 /\ ~t.dry /\ result \in {"inserted", "present"}
<1>1. t \in Task /\ settled \in [Card -> Month]
  BY DEF IInv, TypeOK
<1>2. v \in Task /\ Sound(v, rows')
  <2>1. NoTask \in Task /\ NoTask.apt = 0
    BY ZeroIsThere DEF NoTask, Task, Step, Result
  <2>2. t.dry \in BOOLEAN
    BY <1>1 DEF Task
  <2>3. v \in Task /\ v.pc = "done" /\ v.apt = 0
    BY <2>1, <2>2 DEF Task, Step
  <2> HIDE DEF v
  <2> QED BY <2>3 DEF Sound
<1>3. task' = [task EXCEPT ![p][s] = v]
  BY DEF End
<1>4. settled' = IF last THEN [settled EXCEPT ![t.card] = t.apt] ELSE settled
  BY DEF End
<1> HIDE DEF v
<1>5. /\ task' \in [Importer -> [Source -> Task]]
      /\ \A q \in Importer, r \in Source : Sound(task'[q][r], rows')
  BY <1>2, <1>3, TaskStep
<1>6. Dealt(settled, rows')
  BY DealtGrows DEF IInv
<1>7. t.apt \in Month
  BY <1>1 DEF Task
<1>8. settled' \in [Card -> Month]
  BY <1>1, <1>4, <1>7
<1>9. Dealt(settled', rows')
  <2>1. CASE last
    <3>1. /\ t.card \in Card
          /\ \E m \in StoredIn(t.card, rows') : t.apt <= m
      BY <2>1
    <3>2. \A c \in Card : settled'[c] = IF c = t.card THEN t.apt ELSE settled[c]
      BY <1>1, <1>4, <2>1
    <3> QED BY <1>6, <3>1, <3>2 DEF Dealt
  <2>2. CASE ~last
    BY <1>4, <1>6, <2>2
  <2> QED BY <2>1, <2>2
<1> QED BY <1>5, <1>8, <1>9

-----------------------------------------------------------------------------
(* Every step of the import keeps it *)

RunsGood ==
    /\ task' \in [Importer -> [Source -> Task]]
    /\ \A p \in Importer, s \in Source : Sound(task'[p][s], rows')
    /\ settled' \in [Card -> Month]
    /\ Dealt(settled', rows')

\* A source that goes on.
LEMMA GoOn ==
    ASSUME IInv, NEW p \in Importer, NEW s \in Source, NEW v \in Task,
           task' = [task EXCEPT ![p][s] = v], UNCHANGED <<rows, settled>>, Sound(v, rows)
    PROVE  RunsGood
<1>1. Grown(rows, rows')
  BY DEF Grown
<1>2. /\ task' \in [Importer -> [Source -> Task]]
      /\ \A q \in Importer, r \in Source : Sound(task'[q][r], rows')
  BY <1>1, TaskStep
<1>3. settled' \in [Card -> Month] /\ Dealt(settled', rows')
  BY DEF IInv, TypeOK
<1> QED BY <1>2, <1>3 DEF RunsGood

LEMMA GotoGood ==
    ASSUME IInv, NEW p \in Importer, NEW s \in Source, NEW step \in Step,
           Goto(p, s, step), UNCHANGED <<rows, settled>>,
           Sound([task[p][s] EXCEPT !.pc = step], rows)
    PROVE  RunsGood
<1>1. task[p][s] \in Task
  BY DEF IInv, TypeOK
<1>2. [task[p][s] EXCEPT !.pc = step] \in Task
  BY <1>1 DEF Task
<1>3. task' = [task EXCEPT ![p][s] = [task[p][s] EXCEPT !.pc = step]]
  BY DEF Goto
<1> QED BY <1>2, <1>3, GoOn

\* A source that ends without a statement settled.
LEMMA EndGood ==
    ASSUME IInv, NEW p \in Importer, NEW s \in Source, NEW result \in Result,
           End(p, s, result), UNCHANGED rows,
           task[p][s].apt # 0 /\ ~task[p][s].dry /\ result \in {"inserted", "present"} =>
             /\ task[p][s].card \in Card
             /\ \E m \in StoredIn(task[p][s].card, rows) : task[p][s].apt <= m
    PROVE  RunsGood
<1>1. Grown(rows, rows')
  BY DEF Grown
<1>2. StoredIn(task[p][s].card, rows) = StoredIn(task[p][s].card, rows')
  OBVIOUS
<1> QED BY <1>1, <1>2, EndStep DEF RunsGood

LEMMA FindCardGood ==
    ASSUME IInv, NEW p \in Importer, NEW s \in Source, FindCard(p, s)
    PROVE  RunsGood
<1> DEFINE c == FoundCard(s, cards)
           intended == IntendedMonth(today, CycleDay[c])
           apt == IF Due(c, s) THEN MonthOf(today) ELSE 0
           v == [task[p][s] EXCEPT !.pc = "intended", !.card = c, !.intended = intended,
                                   !.before = Stored(c), !.apt = apt]
<1>1. UNCHANGED rows
  BY DEF FindCard
<1>2. CASE End(p, s, "failed") \/ End(p, s, "nothing")
  BY <1>1, <1>2, EndGood DEF Result
<1>3. CASE /\ c # None /\ HasCycleDay(CycleDay[c])
           /\ task' = [task EXCEPT ![p][s] = v]
           /\ UNCHANGED settled
  <2>1. c \in Card
    BY <1>3, WalletAssumption DEF FoundCard, IInv, TypeOK
  <2>2. task[p][s] \in Task /\ today \in Day /\ FirstDay[1] <= today
    BY DEF IInv, TypeOK
  <2>3. MonthOf(today) \in Month \ {0}
    BY <2>2, AfterFirstMonth
  <2>4. intended \in Month
    <3>1. MonthOf(today) - 1 \in Month
      BY <2>3, CalendarAssumption DEF Month
    <3> QED BY <2>3, <3>1 DEF IntendedMonth
  <2>5. apt \in Month
    BY <2>3, ZeroIsThere
  <2>6. apt # 0 => apt = intended
    BY DEF Due, IntendedMonth
  <2>7. Stored(c) = StoredIn(c, rows) /\ Stored(c) \in SUBSET Month
    BY DEF Stored, StoredIn, Has
  <2> HIDE DEF c, intended, apt
  <2>8. /\ v \in Task
        /\ v.pc = "intended" /\ v.card = c /\ v.intended = intended
        /\ v.before = Stored(c) /\ v.apt = apt
    BY <2>1, <2>2, <2>4, <2>5, <2>7 DEF Task, Step
  <2> HIDE DEF v
  <2>9. Sound(v, rows)
    BY <2>1, <2>6, <2>7, <2>8 DEF Sound
  <2> QED BY <1>1, <1>3, <2>8, <2>9, GoOn
<1> QED BY <1>2, <1>3 DEF FindCard

LEMMA CheckIntendedGood ==
    ASSUME IInv, NEW p \in Importer, NEW s \in Source, CheckIntended(p, s)
    PROVE  RunsGood
<1> DEFINE t == task[p][s]
<1>1. t \in Task /\ Sound(t, rows) /\ t.pc = "intended" /\ UNCHANGED rows
  BY DEF IInv, TypeOK, CheckIntended, At
<1>2. t.card \in Card /\ t.before \subseteq StoredIn(t.card, rows) /\ (t.apt # 0 => t.apt = t.intended)
  BY <1>1 DEF Sound
<1>3. CASE Has(t.card, t.intended)
  <2>3. t.intended \in Month
    BY <1>1 DEF Task
  <2>4. t.intended <= t.intended
    BY <2>3, CalendarAssumption DEF Month
  <2>1. t.intended \in StoredIn(t.card, rows)
    BY <1>3, <2>3 DEF Has, StoredIn
  <2>2. End(p, s, "present")
    BY <1>3 DEF CheckIntended
  <2> QED BY <1>1, <1>2, <2>1, <2>2, <2>4, EndGood DEF Result
<1>4. CASE ~Has(t.card, t.intended)
  <2>1. Goto(p, s, "fetch") /\ UNCHANGED settled
    BY <1>4 DEF CheckIntended
  <2> DEFINE v == [t EXCEPT !.pc = "fetch"]
  <2>3. v.pc = "fetch" /\ v.card = t.card /\ v.before = t.before
    BY <1>1 DEF Task
  <2> HIDE DEF v
  <2>4. Sound(v, rows)
    BY <1>2, <2>3 DEF Sound
  <2>2. Sound([t EXCEPT !.pc = "fetch"], rows)
    BY <2>4 DEF v
  <2> QED BY <1>1, <2>1, <2>2, GotoGood DEF Step
<1> QED BY <1>3, <1>4

\* The newest of the mails that have arrived is one of them.
LEMMA NewestArrived ==
    ASSUME NEW s \in Source, NEW day, Arrived(s, day) # {}
    PROVE  Newest(s, day) \in Arrived(s, day)
<1> DEFINE end == FirstDay[LastMonth + 1]
           Ages == {n \in Nat : \E b \in Arrived(s, day) : n = end - ReceivedOn[b]}
<1>1. end \in Nat
  BY CalendarAssumption
<1>2. \A b \in Arrived(s, day) : ReceivedOn[b] \in Nat /\ end - ReceivedOn[b] \in Nat
  BY <1>1, WalletAssumption DEF Arrived, Day
<1>3. Ages \in SUBSET Nat /\ Ages # {}
  BY <1>2
<1>4. PICK least \in Ages : \A n \in Ages : least <= n
  BY <1>3, LeastNatural
<1>5. PICK b \in Arrived(s, day) : least = end - ReceivedOn[b]
  BY <1>4
<1>6. ASSUME NEW other \in Arrived(s, day) PROVE ReceivedOn[other] <= ReceivedOn[b]
  <2>1. end - ReceivedOn[other] \in Ages
    BY <1>2
  <2>2. least <= end - ReceivedOn[other]
    BY <1>4, <2>1
  <2> QED BY <1>1, <1>2, <1>5, <2>2
<1> QED BY <1>6 DEF Newest

LEMMA FetchGood ==
    ASSUME IInv, NEW p \in Importer, NEW s \in Source, Fetch(p, s)
    PROVE  RunsGood
<1> DEFINE t == task[p][s]
           v == [t EXCEPT !.bill = Newest(s, today), !.pc = IF Flow[s] = "direct" THEN "ask" ELSE "pdf"]
<1>1. t \in Task /\ Sound(t, rows) /\ t.pc = "fetch" /\ UNCHANGED rows
  BY DEF IInv, TypeOK, Fetch, At
<1>2. CASE End(p, s, "nothing")
  BY <1>1, <1>2, EndGood DEF Result
<1>3. CASE Arrived(s, today) # {} /\ task' = [task EXCEPT ![p][s] = v] /\ UNCHANGED settled
  <2>1. Newest(s, today) \in Bill
    BY <1>3, NewestArrived DEF Arrived
  <2>2. t.card \in Card /\ t.before \subseteq StoredIn(t.card, rows)
    BY <1>1 DEF Sound
  <2>3. /\ v \in Task /\ v.pc \in {"ask", "pdf"} /\ v.bill \in Bill
        /\ v.card = t.card /\ v.before = t.before
    BY <1>1, <2>1 DEF Task, Step
  <2> HIDE DEF v
  <2>4. Sound(v, rows)
    BY <2>2, <2>3 DEF Sound
  <2> QED BY <1>1, <1>3, <2>3, <2>4, GoOn
<1> QED BY <1>2, <1>3 DEF Fetch

LEMMA OpenPdfGood ==
    ASSUME IInv, NEW p \in Importer, NEW s \in Source, OpenPdf(p, s)
    PROVE  RunsGood
<1> DEFINE t == task[p][s]
           v == [t EXCEPT !.pc = "ask"]
<1>1. t \in Task /\ Sound(t, rows) /\ t.pc = "pdf" /\ UNCHANGED rows
  BY DEF IInv, TypeOK, OpenPdf, At
<1>2. CASE End(p, s, "nothing") \/ End(p, s, "failed")
  BY <1>1, <1>2, EndGood DEF Result
<1>3. CASE Goto(p, s, "ask") /\ UNCHANGED settled
  <2>1. v.pc = "ask" /\ v.card = t.card /\ v.before = t.before /\ v.bill = t.bill
    BY <1>1 DEF Task
  <2>2. t.card \in Card /\ t.before \subseteq StoredIn(t.card, rows) /\ t.bill \in Bill
    BY <1>1 DEF Sound
  <2> HIDE DEF v
  <2>3. Sound(v, rows)
    BY <2>1, <2>2 DEF Sound
  <2>4. Sound([t EXCEPT !.pc = "ask"], rows)
    BY <2>3 DEF v
  <2> QED BY <1>1, <1>3, <2>4, GotoGood DEF Step
<1> QED BY <1>2, <1>3 DEF OpenPdf

LEMMA AskGood ==
    ASSUME IInv, NEW p \in Importer, NEW s \in Source, Ask(p, s)
    PROVE  RunsGood
<1> DEFINE t == task[p][s]
<1>1. t \in Task /\ Sound(t, rows) /\ t.pc = "ask" /\ UNCHANGED rows
  BY DEF IInv, TypeOK, Ask, At
<1>2. t.card \in Card /\ t.before \subseteq StoredIn(t.card, rows) /\ t.bill \in Bill
  BY <1>1 DEF Sound
<1>3. ASSUME NEW due \in Readings(t.bill),
             task' = [task EXCEPT ![p][s] = [@ EXCEPT !.pc = "parsed", !.due = due, !.attempt = 0,
                        !.apt = IF StatementMonthOf(due) = t.apt THEN t.apt ELSE 0]],
             UNCHANGED settled
      PROVE  RunsGood
  <2> DEFINE v == [t EXCEPT !.pc = "parsed", !.due = due, !.attempt = 0,
                            !.apt = IF StatementMonthOf(due) = t.apt THEN t.apt ELSE 0]
  <2>1. due \in Day
    BY <1>2, <1>3, ReadingsAreDays
  <2>2. /\ v \in Task /\ v.pc = "parsed" /\ v.due = due
        /\ v.card = t.card /\ v.before = t.before /\ v.bill = t.bill
        /\ v.apt = IF StatementMonthOf(due) = t.apt THEN t.apt ELSE 0
    BY <1>1, <2>1, ZeroIsThere DEF Task, Step
  <2>3. task' = [task EXCEPT ![p][s] = v]
    BY <1>3
  <2> HIDE DEF v
  <2>4. v.apt # 0 => StatementMonthOf(v.due) = v.apt
    BY <2>2
  <2>5. Sound(v, rows)
    BY <1>2, <2>2, <2>4, <1>3 DEF Sound
  <2> QED BY <1>1, <1>3, <2>2, <2>3, <2>5, GoOn
<1>4. CASE End(p, s, "nothing")
  BY <1>1, <1>4, EndGood DEF Result
<1>5. CASE /\ t.attempt + 1 < MaxAttempts
           /\ task' = [task EXCEPT ![p][s].attempt = @ + 1]
           /\ UNCHANGED settled
  <2> DEFINE v == [t EXCEPT !.attempt = @ + 1]
  <2>1. t.attempt + 1 \in 0 .. MaxAttempts
    BY <1>1, <1>5, WalletAssumption DEF Task
  <2>2. /\ v \in Task /\ v.pc = "ask"
        /\ v.card = t.card /\ v.before = t.before /\ v.bill = t.bill
    BY <1>1, <2>1 DEF Task
  <2>3. task' = [task EXCEPT ![p][s] = v]
    BY <1>5
  <2> HIDE DEF v
  <2>4. Sound(v, rows)
    BY <1>2, <2>2 DEF Sound
  <2> QED BY <1>1, <1>5, <2>2, <2>3, <2>4, GoOn
<1> QED BY <1>3, <1>4, <1>5 DEF Ask

\* What the steps from the parsed bill on have in hand.
LEMMA ParsedBill ==
    ASSUME IInv, NEW p \in Importer, NEW s \in Source,
           task[p][s].pc \in {"parsed", "legacy", "insert"}
    PROVE  LET t == task[p][s]
           IN  /\ t \in Task /\ t.card \in Card /\ t.bill \in Bill /\ t.due \in Readings(t.bill)
               /\ t.before \subseteq StoredIn(t.card, rows)
               /\ StatementMonthOf(t.due) \in Month /\ MonthOf(t.due) \in Month
               /\ t.apt # 0 => t.apt <= StatementMonthOf(t.due) /\ t.apt <= MonthOf(t.due)
<1> DEFINE t == task[p][s]
<1>1. t \in Task /\ Sound(t, rows)
  BY DEF IInv, TypeOK
<1>2. /\ t.card \in Card /\ t.bill \in Bill /\ t.due \in Readings(t.bill)
      /\ t.before \subseteq StoredIn(t.card, rows)
      /\ t.apt # 0 => StatementMonthOf(t.due) = t.apt
  BY <1>1 DEF Sound
<1>3. /\ MonthOf(t.due) \in Month \ {0} /\ StatementMonthOf(t.due) \in Month
      /\ StatementMonthOf(t.due) = MonthOf(t.due) - 1
  BY <1>2, ReadingsAreDays
<1>4. t.apt # 0 => t.apt <= StatementMonthOf(t.due) /\ t.apt <= MonthOf(t.due)
  <2>1. StatementMonthOf(t.due) \in Nat /\ MonthOf(t.due) = StatementMonthOf(t.due) + 1
    BY <1>3, CalendarAssumption DEF Month
  <2>2. t.apt # 0 => t.apt = StatementMonthOf(t.due)
    BY <1>2
  <2> HIDE DEF t
  <2> QED BY <2>1, <2>2
<1> QED BY <1>1, <1>2, <1>3, <1>4

LEMMA CheckParsedGood ==
    ASSUME IInv, NEW p \in Importer, NEW s \in Source, CheckParsed(p, s)
    PROVE  RunsGood
<1> DEFINE t == task[p][s]
           m == StatementMonthOf(t.due)
           v == [t EXCEPT !.pc = "legacy"]
<1>1. Sound(t, rows) /\ t.pc = "parsed" /\ UNCHANGED rows
  BY DEF IInv, CheckParsed, At
<1>2. /\ t \in Task /\ t.card \in Card /\ m \in Month
      /\ t.apt # 0 => t.apt <= m
  BY <1>1, ParsedBill
<1>3. CASE Has(t.card, m)
  <2>1. m \in StoredIn(t.card, rows)
    BY <1>2, <1>3 DEF Has, StoredIn
  <2>2. End(p, s, "present")
    BY <1>3 DEF CheckParsed
  <2> QED BY <1>1, <1>2, <2>1, <2>2, EndGood DEF Result
<1>4. CASE ~Has(t.card, m)
  <2>1. Goto(p, s, "legacy") /\ UNCHANGED settled
    BY <1>4 DEF CheckParsed
  <2>2. /\ v.pc = "legacy" /\ v.card = t.card /\ v.before = t.before /\ v.bill = t.bill
        /\ v.due = t.due /\ v.apt = t.apt
    BY <1>2 DEF Task
  <2> HIDE DEF v
  <2>3. Sound(v, rows)
    BY <1>1, <2>2 DEF Sound
  <2>4. Sound([t EXCEPT !.pc = "legacy"], rows)
    BY <2>3 DEF v
  <2> QED BY <1>1, <2>1, <2>4, GotoGood DEF Step
<1> QED BY <1>3, <1>4

LEMMA CheckLegacyGood ==
    ASSUME IInv, NEW p \in Importer, NEW s \in Source, CheckLegacy(p, s)
    PROVE  RunsGood
<1> DEFINE t == task[p][s]
           m == MonthOf(t.due)
           v == [t EXCEPT !.pc = "insert"]
<1>1. Sound(t, rows) /\ t.pc = "legacy" /\ UNCHANGED rows
  BY DEF IInv, CheckLegacy, At
<1>2. /\ t \in Task /\ t.card \in Card /\ m \in Month
      /\ t.before \subseteq StoredIn(t.card, rows)
      /\ t.apt # 0 => t.apt <= m
  BY <1>1, ParsedBill
<1>3. CASE Has(t.card, m)
  <2>1. m \in StoredIn(t.card, rows)
    BY <1>2, <1>3 DEF Has, StoredIn
  <2>2. End(p, s, "present")
    BY <1>3 DEF CheckLegacy
  <2> QED BY <1>1, <1>2, <2>1, <2>2, EndGood DEF Result
<1>4. CASE ~Has(t.card, m) /\ t.dry
  <2>1. End(p, s, "inserted")
    BY <1>4 DEF CheckLegacy
  <2> QED BY <1>1, <1>4, <2>1, EndGood DEF Result
<1>5. CASE ~Has(t.card, m) /\ ~t.dry
  <2>1. Goto(p, s, "insert") /\ UNCHANGED settled
    BY <1>5 DEF CheckLegacy
  <2>2. /\ v.pc = "insert" /\ v.card = t.card /\ v.before = t.before /\ v.bill = t.bill
        /\ v.due = t.due /\ v.apt = t.apt
    BY <1>2 DEF Task
  <2>3. m \notin t.before
    BY <1>2, <1>5 DEF Has, StoredIn
  <2> HIDE DEF v
  <2>4. Sound(v, rows)
    BY <1>1, <2>2, <2>3 DEF Sound
  <2>5. Sound([t EXCEPT !.pc = "insert"], rows)
    BY <2>4 DEF v
  <2> QED BY <1>1, <2>1, <2>5, GotoGood DEF Step
<1> QED BY <1>3, <1>4, <1>5

LEMMA InsertGood ==
    ASSUME IInv, NEW p \in Importer, NEW s \in Source, Insert(p, s)
    PROVE  /\ RunsGood
           /\ rows' \in [Card -> [Month -> Row \cup {None}]]
           /\ Grown(rows, rows')
           /\ RowsAhead(rows')
<1> DEFINE t == task[p][s]
           c == t.card
           m == StatementMonthOf(t.due)
           row == Imported(t.bill)
<1>1. Sound(t, rows) /\ t.pc = "insert" /\ TypeOK /\ RowsAhead(rows)
  BY DEF IInv, Insert, At
<1>2. /\ t \in Task /\ c \in Card /\ m \in Month /\ t.bill \in Bill /\ t.due \in Readings(t.bill)
      /\ t.apt # 0 => t.apt <= m
  BY <1>1, ParsedBill
<1>3. CASE Has(c, m)
  <2>1. End(p, s, "present") /\ UNCHANGED rows
    BY <1>3 DEF Insert
  <2>2. m \in StoredIn(c, rows)
    BY <1>2, <1>3 DEF Has, StoredIn
  <2>3. RunsGood
    BY <1>1, <1>2, <2>1, <2>2, EndGood DEF Result
  <2> QED BY <1>1, <2>1, <2>3 DEF Grown, TypeOK
<1>4. CASE ~Has(c, m)
  <2>1. Put(c, m, row) /\ End(p, s, "inserted")
    BY <1>4 DEF Insert, Put
  <2>2. ReceivedOn[t.bill] \in Day
    BY <1>2, WalletAssumption
  <2>3. MonthOf(ReceivedOn[t.bill]) \in Month
    BY <2>2, MonthOfDay
  <2>4. row \in Row
    BY <2>3 DEF Row, StatementRow, Imported
  <2>5. m <= MonthOf(ReceivedOn[t.bill])
    <3>1. m = MonthOf(t.due) - 1 /\ MonthOf(t.due) <= MonthOf(ReceivedOn[t.bill]) + 1
          /\ MonthOf(t.due) \in Month
      BY <1>2, ReadingsAreDays
    <3> QED BY <2>3, <3>1, CalendarAssumption DEF Month
  <2>6. row.sync >= m
    BY <1>2, <2>3, <2>5, CalendarAssumption DEF Month, Imported
  <2> HIDE DEF row
  <2>7. /\ rows' \in [Card -> [Month -> Row \cup {None}]]
        /\ Grown(rows, rows')
        /\ RowsAhead(rows')
        /\ rows'[c][m] = row
    BY <1>1, <1>2, <2>1, <2>4, <2>6, PutRow
  <2>8. m \in StoredIn(c, rows')
    <3>1. row # None
      BY <2>4, WalletAssumption DEF Row
    <3> QED BY <1>2, <2>7, <3>1 DEF StoredIn
  <2>9. /\ task' \in [Importer -> [Source -> Task]]
        /\ \A q \in Importer, r \in Source : Sound(task'[q][r], rows')
        /\ settled' \in [Card -> Month]
        /\ Dealt(settled', rows')
    BY <1>2, <2>1, <2>7, <2>8, EndStep DEF Result
  <2> QED BY <2>7, <2>9 DEF RunsGood
<1> QED BY <1>3, <1>4

LEMMA FailGood ==
    ASSUME IInv, NEW p \in Importer, NEW s \in Source, Fail(p, s)
    PROVE  RunsGood
BY EndGood DEF Fail, Result

\* One step of the import, whichever it is.
LEMMA ImportStepGood ==
    ASSUME IInv, NEW p \in Importer, NEW s \in Source, ImportStep(p, s)
    PROVE  /\ RunsGood
           /\ rows' \in [Card -> [Month -> Row \cup {None}]]
           /\ Grown(rows, rows')
           /\ RowsAhead(rows')
           /\ UNCHANGED <<today, cards, clerk>>
<1>1. CASE Insert(p, s)
  BY <1>1, InsertGood DEF Insert
<1>2. CASE ~Insert(p, s)
  <2>1. UNCHANGED <<today, cards, rows, clerk>>
    BY <1>2 DEF ImportStep, FindCard, CheckIntended, Fetch, OpenPdf, Ask, CheckParsed,
                CheckLegacy, Fail
  <2>2. RunsGood
    BY <1>2, FindCardGood, CheckIntendedGood, FetchGood, OpenPdfGood, AskGood,
       CheckParsedGood, CheckLegacyGood, FailGood DEF ImportStep
  <2>3. /\ rows' \in [Card -> [Month -> Row \cup {None}]]
        /\ Grown(rows, rows')
        /\ RowsAhead(rows')
    BY <2>1 DEF IInv, TypeOK, Grown
  <2> QED BY <2>1, <2>2, <2>3
<1> QED BY <1>1, <1>2

-----------------------------------------------------------------------------
(* So does every other step *)

LEMMA InitGood == Init => IInv
<1> SUFFICES ASSUME Init PROVE IInv
  OBVIOUS
<1>0. PICK n \in {0, 1} : \E old \in {None, [status |-> "DUE", sync |-> n, early |-> FALSE]} :
        rows = [c \in Card |-> [m \in Month |-> IF c \in Held /\ m = n THEN old ELSE None]]
  BY DEF Init
<1>1. PICK old \in {None, [status |-> "DUE", sync |-> n, early |-> FALSE]} :
        rows = [c \in Card |-> [m \in Month |-> IF c \in Held /\ m = n THEN old ELSE None]]
  BY <1>0
<1>2. n \in Month /\ old \in Row \cup {None} /\ (old # None => old.sync = n)
  <2>1. n \in Month
    BY CalendarAssumption DEF Month
  <2>2. CASE old = None
    BY <2>1, <2>2
  <2>3. CASE old = [status |-> "DUE", sync |-> n, early |-> FALSE]
    BY <2>1, <2>3 DEF Row, StatementRow
  <2> QED BY <2>1, <2>2, <2>3
<1>3. rows \in [Card -> [Month -> Row \cup {None}]]
  BY <1>1, <1>2
<1>4. RowsAhead(rows)
  BY <1>1, <1>2, CalendarAssumption DEF RowsAhead, Month
<1>5. NoTask \in Task /\ NoTask.pc = "idle" /\ NoTask.apt = 0
  BY ZeroIsThere DEF NoTask, Task, Step, Result
<1>6. NoDesk \in Desk /\ NoDesk.pc = "idle"
  BY ZeroIsThere DEF NoDesk, Desk
<1>7. TypeOK
  BY <1>3, <1>5, <1>6, ZeroIsThere, WalletAssumption DEF Init, TypeOK
<1>8. \A p \in Importer, s \in Source : Sound(task[p][s], rows)
  BY <1>5 DEF Init, Sound
<1>9. \A k \in Clerk : DeskSound(clerk[k], rows)
  BY <1>6 DEF Init, DeskSound
<1>10. Dealt(settled, rows)
  BY DEF Init, Dealt
<1> QED BY <1>4, <1>7, <1>8, <1>9, <1>10 DEF IInv, Init

\* The runs and the settled months are as good after a step that only adds rows.
LEMMA RunsGrow ==
    ASSUME IInv, UNCHANGED <<task, settled>>, Grown(rows, rows')
    PROVE  RunsGood
<1>1. \A p \in Importer, s \in Source : Sound(task[p][s], rows')
  BY SoundGrows DEF IInv
<1>2. Dealt(settled, rows')
  BY DealtGrows DEF IInv
<1> QED BY <1>1, <1>2 DEF IInv, TypeOK, RunsGood

LEMMA BeginGood ==
    ASSUME IInv, NEW p \in Importer, Begin(p) \/ Report(p)
    PROVE  RunsGood
<1>1. UNCHANGED <<rows, settled>> /\ Grown(rows, rows')
  BY DEF Begin, Report, Grown
<1>2. NoTask \in Task /\ NoTask.apt = 0 /\ NoTask.pc = "idle"
  BY ZeroIsThere DEF NoTask, Task, Step, Result
<1>3. ASSUME NEW step \in {"card", "done"}, NEW dry \in BOOLEAN
      PROVE  /\ [NoTask EXCEPT !.pc = step, !.dry = dry] \in Task
             /\ Sound([NoTask EXCEPT !.pc = step, !.dry = dry], rows)
  <2> DEFINE v == [NoTask EXCEPT !.pc = step, !.dry = dry]
  <2>1. v \in Task /\ v.pc = step /\ v.apt = 0
    BY <1>2 DEF Task, Step
  <2> HIDE DEF v
  <2>2. Sound(v, rows)
    BY <2>1 DEF Sound
  <2> QED BY <2>1, <2>2 DEF v
<1>4. [NoTask EXCEPT !.pc = "done"] \in Task /\ Sound([NoTask EXCEPT !.pc = "done"], rows)
  <2> DEFINE v == [NoTask EXCEPT !.pc = "done"]
  <2>1. v \in Task /\ v.pc = "done" /\ v.apt = 0
    BY <1>2 DEF Task, Step
  <2> HIDE DEF v
  <2>2. Sound(v, rows)
    BY <2>1 DEF Sound
  <2> QED BY <2>1, <2>2 DEF v
<1>5. Sound(NoTask, rows)
  <2>1. NoTask.pc = "idle" /\ NoTask.apt = 0
    BY <1>2
  <2> QED BY <2>1 DEF Sound
<1>6. PICK f \in [Source -> Task] :
        /\ task' = [task EXCEPT ![p] = f]
        /\ \A s \in Source : Sound(f[s], rows)
  <2>1. CASE Begin(p)
    <3>1. PICK selected \in Selections, dryRun \in BOOLEAN :
            task' = [task EXCEPT ![p] = [s \in Source |->
                       IF s \in selected THEN [NoTask EXCEPT !.pc = "card", !.dry = dryRun]
                       ELSE [NoTask EXCEPT !.pc = "done"]]]
      BY <2>1 DEF Begin
    <3> DEFINE busy == [NoTask EXCEPT !.pc = "card", !.dry = dryRun]
               over == [NoTask EXCEPT !.pc = "done"]
               f == [s \in Source |-> IF s \in selected THEN busy ELSE over]
    <3>2. busy \in Task /\ Sound(busy, rows) /\ over \in Task /\ Sound(over, rows)
      BY <1>3, <1>4
    <3>3. task' = [task EXCEPT ![p] = f]
      BY <3>1
    <3> HIDE DEF busy, over
    <3>4. f \in [Source -> Task] /\ \A s \in Source : Sound(f[s], rows)
      BY <3>2
    <3> HIDE DEF f
    <3> QED BY <3>3, <3>4
  <2>2. CASE Report(p)
    <3> DEFINE f == [s \in Source |-> NoTask]
    <3>1. f \in [Source -> Task] /\ \A s \in Source : Sound(f[s], rows)
      BY <1>2, <1>5
    <3> QED BY <2>2, <3>1 DEF Report
  <2> QED BY <2>1, <2>2
<1>7. task \in [Importer -> [Source -> Task]] /\ \A q \in Importer, s \in Source : Sound(task[q][s], rows)
  BY DEF IInv, TypeOK
<1>8. task' \in [Importer -> [Source -> Task]] /\ \A q \in Importer : task'[q] = IF q = p THEN f ELSE task[q]
  BY <1>6, <1>7
<1>9. \A q \in Importer, s \in Source : Sound(task'[q][s], rows')
  BY <1>1, <1>6, <1>7, <1>8
<1> QED BY <1>1, <1>8, <1>9 DEF RunsGood, IInv, TypeOK

\* A clerk's row lands in a month that has one, or makes one.
LEMMA CreateGood ==
    ASSUME IInv, NEW k \in Clerk, NEW c \in Card, NEW m \in Month, Create(k, c, m)
    PROVE  /\ rows' \in [Card -> [Month -> Row \cup {None}]]
           /\ Grown(rows, rows') /\ RowsAhead(rows')
<1>1. PICK status \in {"DUE", "PAID"}, sync \in Month :
        Put(c, m, [status |-> status, sync |-> sync, early |-> sync < m])
  BY DEF Create
<1> DEFINE row == [status |-> status, sync |-> sync, early |-> sync < m]
<1>2. row \in Row /\ (row.sync >= m \/ row.early)
  <2>1. m \in Nat /\ sync \in Nat /\ (sync < m) \in BOOLEAN
    BY CalendarAssumption DEF Month
  <2>2. row \in Row
    BY <2>1 DEF Row, StatementRow
  <2>3. row.sync = sync /\ row.early = (sync < m)
    OBVIOUS
  <2>4. sync >= m \/ sync < m
    BY <2>1
  <2> QED BY <2>2, <2>3, <2>4
<1> QED BY <1>1, <1>2, PutRow DEF IInv

LEMMA ReadRowGood ==
    ASSUME IInv, NEW k \in Clerk, NEW c \in Card, NEW m \in Month, ReadRow(k, c, m)
    PROVE  /\ clerk' \in [Clerk -> Desk]
           /\ \A j \in Clerk : DeskSound(clerk'[j], rows)
<1>1. PICK row \in Edited(rows[c][m], m) :
        clerk' = [clerk EXCEPT ![k] = [pc |-> "write", card |-> c, month |-> m, row |-> row]]
  BY DEF ReadRow
<1>2. /\ rows[c][m] \in Row /\ rows[c][m] # None
      /\ rows[c][m].sync >= m \/ rows[c][m].early
  BY DEF ReadRow, Has, IInv, TypeOK, RowsAhead
<1>3. row \in Row /\ (row.sync >= m \/ row.early)
  <2>1. CASE \E status \in {"DUE", "PAID"} : row = [rows[c][m] EXCEPT !.status = status]
    BY <1>2, <2>1 DEF Row, StatementRow
  <2>2. ASSUME NEW sync \in Month, row = [rows[c][m] EXCEPT !.sync = sync, !.early = sync < m]
        PROVE  row \in Row /\ (row.sync >= m \/ row.early)
    <3>1. m \in Nat /\ sync \in Nat /\ (sync < m) \in BOOLEAN
      BY CalendarAssumption DEF Month
    <3>2. /\ row \in [status : {"DUE", "PAID"}, sync : Month, early : BOOLEAN]
          /\ row.sync = sync /\ row.early = (sync < m)
      BY <1>2, <2>2, <3>1 DEF Row, StatementRow
    <3>3. sync >= m \/ sync < m
      BY <3>1
    <3> QED BY <3>2, <3>3 DEF Row, StatementRow
  <2> QED BY <1>1, <2>1, <2>2 DEF Edited, Synced
<1> DEFINE d == [pc |-> "write", card |-> c, month |-> m, row |-> row]
<1>4. d \in Desk /\ DeskSound(d, rows)
  BY <1>2, <1>3 DEF Desk, DeskSound
<1> HIDE DEF d
<1>5. clerk \in [Clerk -> Desk] /\ clerk' = [clerk EXCEPT ![k] = d]
  BY <1>1 DEF IInv, TypeOK, d
<1>6. \A j \in Clerk : clerk'[j] = IF j = k THEN d ELSE clerk[j]
  BY <1>5
<1> QED BY <1>4, <1>5, <1>6 DEF IInv

LEMMA WriteRowGood ==
    ASSUME IInv, NEW k \in Clerk, WriteRow(k)
    PROVE  /\ rows' \in [Card -> [Month -> Row \cup {None}]]
           /\ Grown(rows, rows') /\ RowsAhead(rows')
           /\ clerk' \in [Clerk -> Desk]
           /\ \A j \in Clerk : DeskSound(clerk'[j], rows')
<1> DEFINE d == clerk[k]
<1>1. d \in Desk /\ DeskSound(d, rows) /\ d.pc = "write"
  BY DEF IInv, TypeOK, WriteRow
<1>2. d.card \in Card /\ d.month \in Month /\ d.row \in Row
      /\ (d.row.sync >= d.month \/ d.row.early)
  BY <1>1 DEF Desk, DeskSound
<1>3. /\ rows' \in [Card -> [Month -> Row \cup {None}]]
      /\ Grown(rows, rows') /\ RowsAhead(rows')
  BY <1>2, PutRow DEF WriteRow, IInv
<1>4. NoDesk \in Desk /\ NoDesk.pc = "idle"
  BY ZeroIsThere DEF NoDesk, Desk
<1>5. clerk \in [Clerk -> Desk] /\ clerk' = [clerk EXCEPT ![k] = NoDesk]
  BY DEF IInv, TypeOK, WriteRow
<1>6. \A j \in Clerk : clerk'[j] = IF j = k THEN NoDesk ELSE clerk[j]
  BY <1>5
<1>7. \A j \in Clerk : DeskSound(clerk[j], rows')
  BY <1>3, <1>5, DeskGrows DEF IInv
<1>8. DeskSound(NoDesk, rows')
  BY <1>4 DEF DeskSound
<1> QED BY <1>3, <1>4, <1>5, <1>6, <1>7, <1>8

LEMMA IInvNext == IInv /\ [Next]_vars => IInv'
<1> SUFFICES ASSUME IInv, [Next]_vars PROVE IInv'
  OBVIOUS
<1>0. TypeOK /\ FirstDay[1] <= today
  BY DEF IInv
<1>1. CASE Tick
  <2>1. today' \in Day /\ FirstDay[1] <= today'
    BY <1>0, <1>1, CalendarAssumption DEF Tick, TypeOK, Day, Month
  <2> QED BY <1>1, <2>1 DEF Tick, IInv, TypeOK
<1>2. CASE Elsewhere
  BY <1>2 DEF Elsewhere, IInv, TypeOK
<1>3. ASSUME NEW p \in Importer, Begin(p) \/ Report(p) PROVE IInv'
  <2>1. RunsGood
    BY <1>3, BeginGood
  <2>2. UNCHANGED <<today, cards, rows, clerk>>
    BY <1>3 DEF Begin, Report
  <2> QED BY <2>1, <2>2 DEF RunsGood, IInv, TypeOK
<1>4. ASSUME NEW p \in Importer, NEW s \in Source, ImportStep(p, s) PROVE IInv'
  <2>1. /\ RunsGood
        /\ rows' \in [Card -> [Month -> Row \cup {None}]]
        /\ Grown(rows, rows')
        /\ RowsAhead(rows')
        /\ UNCHANGED <<today, cards, clerk>>
    BY <1>4, ImportStepGood
  <2>2. \A k \in Clerk : DeskSound(clerk[k], rows')
    BY <2>1, DeskGrows DEF IInv, TypeOK
  <2> QED BY <2>1, <2>2 DEF RunsGood, IInv, TypeOK
<1>5. ASSUME NEW k \in Clerk, NEW c \in Card, NEW m \in Month, ClerkCall(k, c, m) PROVE IInv'
  <2>1. CASE Create(k, c, m)
    <3>1. /\ rows' \in [Card -> [Month -> Row \cup {None}]]
          /\ Grown(rows, rows') /\ RowsAhead(rows')
      BY <2>1, CreateGood
    <3>2. UNCHANGED <<today, cards, task, clerk, settled>>
      BY <2>1 DEF Create
    <3>3. RunsGood
      BY <3>1, <3>2, RunsGrow
    <3>4. \A j \in Clerk : DeskSound(clerk[j], rows')
      BY <3>1, DeskGrows DEF IInv, TypeOK
    <3> QED BY <3>1, <3>2, <3>3, <3>4 DEF RunsGood, IInv, TypeOK
  <2>2. CASE ReadRow(k, c, m)
    <3>1. /\ clerk' \in [Clerk -> Desk]
          /\ \A j \in Clerk : DeskSound(clerk'[j], rows)
      BY <2>2, ReadRowGood
    <3>2. UNCHANGED <<today, cards, rows, task, settled>>
      BY <2>2 DEF ReadRow
    <3> QED BY <3>1, <3>2 DEF IInv, TypeOK
  <2> QED BY <1>5, <2>1, <2>2 DEF ClerkCall
<1>6. ASSUME NEW k \in Clerk, WriteRow(k) PROVE IInv'
  <2>1. /\ rows' \in [Card -> [Month -> Row \cup {None}]]
        /\ Grown(rows, rows') /\ RowsAhead(rows')
        /\ clerk' \in [Clerk -> Desk]
        /\ \A j \in Clerk : DeskSound(clerk'[j], rows')
    BY <1>6, WriteRowGood
  <2>2. UNCHANGED <<today, cards, task, settled>>
    BY <1>6 DEF WriteRow
  <2>3. RunsGood
    BY <2>1, <2>2, RunsGrow
  <2> QED BY <2>1, <2>2, <2>3 DEF RunsGood, IInv, TypeOK
<1>7. CASE UNCHANGED vars
  BY <1>7 DEF vars, IInv, TypeOK
<1> QED BY <1>1, <1>2, <1>3, <1>4, <1>5, <1>6, <1>7 DEF Next

LEMMA Invariance == Spec => []IInv
<1> QED BY InitGood, IInvNext, PTL DEF Spec

-----------------------------------------------------------------------------
(* The theorems *)

\* Every run, call and row of the model stays within its type: the date and
\* the months a run computes are in the calendar, whichever bill it reads.
THEOREM StatementTypes == Spec => []TypeOK
<1>1. IInv => TypeOK
  BY DEF IInv
<1> QED BY <1>1, Invariance, PTL

LEMMA LatestStored ==
    ASSUME NEW c \in Card, Stored(c) # {}
    PROVE  Latest(c) \in Stored(c) /\ \A n \in Stored(c) : n <= Latest(c)
<1> DEFINE Rest == {n \in Nat : \E m \in Stored(c) : n = LastMonth - m}
<1>1. \A m \in Stored(c) : m \in Nat /\ LastMonth - m \in Nat
  BY CalendarAssumption DEF Stored, Month
<1>2. Rest \in SUBSET Nat /\ Rest # {}
  BY <1>1
<1>3. PICK least \in Rest : \A n \in Rest : least <= n
  BY <1>2, LeastNatural
<1>4. PICK m \in Stored(c) : least = LastMonth - m
  BY <1>3
<1>5. ASSUME NEW n \in Stored(c) PROVE n <= m
  <2>1. LastMonth - n \in Rest
    BY <1>1
  <2>2. least <= LastMonth - n
    BY <1>3, <2>1
  <2>3. n \in Nat /\ m \in Nat /\ LastMonth \in Nat /\ LastMonth - m <= LastMonth - n
    BY <1>1, <1>4, <2>2, CalendarAssumption
  <2> QED BY ONLY <2>3
<1> QED BY <1>4, <1>5 DEF Latest

\* Once the import has dealt with the bill of the running month, the wallet
\* does not ask for that card's statement again before the month is over,
\* however many imports, edits and payments come in between: for any calendar
\* and any cycle day, a month that was dealt with has a statement from then on,
\* or a later one has, and no statement is synced before its own month unless
\* that month was typed in.
THEOREM SettledMonths == Spec => []SyncSettles
<1>1. IInv => SyncSettles
  <2> SUFFICES ASSUME IInv, NEW c \in Card, settled[c] # 0, settled[c] = MonthOf(today)
               PROVE  ~Pending(c) \/ rows[c][Latest(c)].early
    BY DEF SyncSettles
  <2>1. PICK m \in StoredIn(c, rows) : settled[c] <= m
    BY DEF IInv, Dealt
  <2>2. StoredIn(c, rows) = Stored(c)
    BY DEF StoredIn, Stored, Has
  <2>3. Stored(c) # {}
    BY <2>1, <2>2
  <2>4. Latest(c) \in Stored(c) /\ m <= Latest(c)
    BY <2>1, <2>2, <2>3, LatestStored
  <2>0. SUFFICES ASSUME ~rows[c][Latest(c)].early PROVE ~Pending(c)
    OBVIOUS
  <2>5. Latest(c) \in Month /\ rows[c][Latest(c)] \in Row /\ rows[c][Latest(c)].sync >= Latest(c)
    BY <2>0, <2>4 DEF IInv, TypeOK, RowsAhead, Stored, Has
  <2>6. m \in Nat /\ Latest(c) \in Nat /\ rows[c][Latest(c)].sync \in Nat
    BY <2>1, <2>5, CalendarAssumption DEF StoredIn, Month, Row, StatementRow
  <2>7. settled[c] \in Nat
    BY CalendarAssumption DEF IInv, TypeOK, Month
  <2>8. ~(rows[c][Latest(c)].sync < MonthOf(today))
    BY <2>1, <2>4, <2>5, <2>6, <2>7
  <2> QED BY <2>3, <2>8 DEF Pending, SyncPending
<1> QED BY <1>1, Invariance, PTL

\* No step of the import changes or removes a statement that is there: only
\* its insert writes, and only where no row is by then.
THEOREM EditsOutliveSyncs == Spec => EditsSurvive
<1>1. IInv /\ [Next]_vars =>
        [(\E c \in Card, m \in Month : Has(c, m) /\ rows'[c][m] # rows[c][m]) =>
           ~ \E p \in Importer, s \in Source : ImportStep(p, s)]_vars
  <2> SUFFICES ASSUME IInv,
                      NEW c \in Card, NEW m \in Month, Has(c, m), rows'[c][m] # rows[c][m],
                      NEW p \in Importer, NEW s \in Source, ImportStep(p, s)
               PROVE  FALSE
    OBVIOUS
  <2>1. Insert(p, s)
    BY DEF ImportStep, FindCard, CheckIntended, Fetch, OpenPdf, Ask, CheckParsed,
           CheckLegacy, Fail
  <2> DEFINE d == task[p][s].card
             n == StatementMonthOf(task[p][s].due)
  <2>2. ~Has(d, n)
    BY <2>1 DEF Insert
  <2>3. rows' = [rows EXCEPT ![d][n] = Imported(task[p][s].bill)]
    BY <2>1, <2>2 DEF Insert
  <2>4. rows \in [Card -> [Month -> Row \cup {None}]]
    BY DEF IInv, TypeOK
  <2> HIDE DEF d, n
  <2>5. rows'[c][m] = rows[c][m]
    BY <2>2, <2>3, <2>4 DEF Has
  <2> QED BY <2>5
<1> QED BY <1>1, Invariance, PTL DEF Spec, EditsSurvive

\* A bill is filed beside a statement under its due month only if that one was
\* typed in after the run had begun with the source.
THEOREM BillsFiledOnce == Spec => FiledOnce
<1>1. IInv /\ [Next]_vars =>
        [\A p \in Importer, s \in Source :
           LET t == task[p][s]
           IN  At(p, s, "insert") /\ rows' # rows /\ Insert(p, s)
               => MonthOf(t.due) \notin Stored(t.card) \cap t.before]_vars
  BY DEF IInv, Sound, At
<1> QED BY <1>1, Invariance, PTL DEF Spec, FiledOnce
=============================================================================
