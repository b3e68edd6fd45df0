---------------------------- MODULE Transactions ----------------------------
(***************************************************************************)
(* Transactions: the calls that create, edit and remove a row and set or   *)
(* drop its adjustment (TransactionsService, TransactionAdjustmentService, *)
(* PrismaTransactionRepository), and the scans that page through the list. *)
(* An edit is a read and, later, a write of the whole row; a scan is one   *)
(* query per page, and other calls run between its pages. A row's          *)
(* adjustment, which the database removes with it, is a field of the row.  *)
(***************************************************************************)
EXTENDS WalletData, FiniteSetsExt

CONSTANTS
    Earlier,    \* the tables there may be to begin with
    TypedDays,  \* bound: the days a txnDate may name
    Editor,     \* calls that change transactions
    Reader,     \* scans of the list
    PageSize,   \* limit, or pageSize
    MaxMonths   \* 60: the most months a purchase may be spread over

VARIABLES
    txns,      \* the transaction table: a row, or None, for each id
    removed,   \* ids that had a row once; ids are random and never come back
    editing,   \* where each editing call stands, and its local variables
    scan,      \* where each scan stands
    steady,    \* auxiliary: the listed rows that nothing has touched during the scan,
               \* none of them after any write if the scan goes by offset
    untimed,   \* auxiliary: has the scan's list had a row without a timestamp?
    repriced   \* auxiliary: rows whose amount has been changed

vars == <<today, cards, txns, removed, editing, scan, steady, untimed, repriced>>

\* Two instants a day; a txnDate is the first of its day.
Instant == 0 .. 2 * FirstDay[LastMonth + 1]
Midnight(day) == 2 * day

NoAdjustment == [kind |-> "NONE", n |-> 0]
Adjustments == [kind : {"NONE", "SPLIT", "EXCLUDE", "AMORTIZE"}, n : Nat]

Row == [card : Card, day : Day,
        ts : Instant \cup {None},   \* txnTimestamp
        amount : Amount, adj : Adjustments]

Editing == [pc : {"idle", "update", "adjust", "drop"}, id : Txn \cup {None},
            row : Row \cup {None},  \* the row an update is going to write
            adj : Adjustments]      \* the adjustment it is going to write
NotEditing == [pc |-> "idle", id |-> None, row |-> None, adj |-> NoAdjustment]

Scan == [pc : {"idle", "paging", "done"},
         mode : {"cursor", "offset"},
         from : Day,                          \* fromDate
         page : Nat,                          \* pages read so far
         cursor : [ts : Instant, id : Txn] \cup {None},
         got : [Txn -> 0 .. 2]]               \* times each row came back; 2 is two or more
NotScanning == [pc |-> "idle", mode |-> "cursor", from |-> 0, page |-> 0,
                cursor |-> None, got |-> [t \in Txn |-> 0]]

TypeOK ==
    /\ txns \in [Txn -> Row \cup {None}]
    /\ removed \in SUBSET Txn
    /\ editing \in [Editor -> Editing]
    /\ scan \in [Reader -> Scan]
    /\ steady \in [Reader -> SUBSET Txn]
    /\ untimed \in [Reader -> BOOLEAN]
    /\ repriced \in SUBSET Txn

Init ==
    /\ today \in Day /\ FirstDay[1] <= today
    /\ cards = Held
    /\ txns \in Earlier
    /\ removed = {}
    /\ editing = [e \in Editor |-> NotEditing]
    /\ scan = [r \in Reader |-> NotScanning]
    /\ steady = [r \in Reader |-> {}]
    /\ untimed = [r \in Reader |-> FALSE]
    /\ repriced = {}

Live(table) == {t \in Txn : table[t] # None}

-----------------------------------------------------------------------------
(* Writes. Each tells the scans under way which row it touched. *)

\* buildWhere, with fromDate as its only filter.
Where(table, from) == {t \in Live(table) : table[t].day >= from}

Save(t, row) ==
    /\ txns' = [txns EXCEPT ![t] = row]
    /\ steady' = [r \in Reader |-> IF scan[r].mode = "offset" THEN {} ELSE steady[r] \ {t}]
    /\ untimed' = [r \in Reader |->
         untimed[r] \/ \E u \in Where(txns', scan[r].from) : txns'[u].ts = None]

\* create: the date is any, the timestamp is optional.
Create(t) ==
    /\ t \notin Live(txns) \cup removed
    /\ \E c \in cards, day \in TypedDays, timed \in BOOLEAN, amount \in Amount :
         Save(t, [card |-> c, day |-> day, amount |-> amount, adj |-> NoAdjustment,
                  ts |-> IF timed THEN Midnight(day) + 1 ELSE None])
    /\ UNCHANGED <<today, cards, removed, editing, scan, repriced>>

\* update reads the row and builds the whole of the new one from it ...
ReadRow(e, t) ==
    /\ editing[e].pc = "idle"
    /\ t \in Live(txns)
    /\ \E row \in {[txns[t] EXCEPT !.amount = a] : a \in Amount}
               \cup {[txns[t] EXCEPT !.day = day] : day \in TypedDays}
               \cup {[txns[t] EXCEPT !.ts = Midnight(txns[t].day) + 1]} :
         editing' = [editing EXCEPT ![e] = [NotEditing EXCEPT
                       !.pc = "update", !.id = t, !.row = row]]
    /\ UNCHANGED <<today, cards, txns, removed, scan, steady, untimed, repriced>>

\* ... and writes it over whatever the row is by then: a null timestamp is
\* left out of the write, the adjustment is in another table, and a row that
\* is gone is an error.
WriteRow(e) ==
    LET t == editing[e].id
        new == editing[e].row
    IN  /\ editing[e].pc = "update"
        /\ IF t \in Live(txns)
           THEN /\ Save(t, [new EXCEPT !.adj = txns[t].adj,
                                       !.ts = IF @ = None THEN txns[t].ts ELSE @])
                /\ repriced' = IF new.amount # txns[t].amount
                                 THEN repriced \cup {t} ELSE repriced
           ELSE UNCHANGED <<txns, steady, untimed, repriced>>
        /\ editing' = [editing EXCEPT ![e] = NotEditing]
        /\ UNCHANGED <<today, cards, removed, scan>>

\* remove is one deleteMany; the adjustment goes with the row.
Remove(t) ==
    /\ t \in Live(txns)
    /\ Save(t, None)
    /\ removed' = removed \cup {t}
    /\ UNCHANGED <<today, cards, editing, scan, repriced>>

\* What upsert lets through, by the amount it has read.
Acceptable(row) ==
    {[kind |-> "SPLIT", n |-> share] : share \in 1 .. row.amount - 1}
    \cup {[kind |-> "EXCLUDE", n |-> 0]}
    \cup {[kind |-> "AMORTIZE", n |-> months] : months \in 2 .. MaxMonths}

ReadForAdjustment(e, t) ==
    /\ editing[e].pc = "idle"
    /\ t \in Live(txns)
    /\ \E adj \in Acceptable(txns[t]) :
         editing' = [editing EXCEPT ![e] = [NotEditing EXCEPT
                       !.pc = "adjust", !.id = t, !.adj = adj]]
    /\ UNCHANGED <<today, cards, txns, removed, scan, steady, untimed, repriced>>

\* The upsert fails on the foreign key if the transaction is gone.
WriteAdjustment(e) ==
    LET t == editing[e].id
    IN  /\ editing[e].pc = "adjust"
        /\ IF t \in Live(txns) THEN Save(t, [txns[t] EXCEPT !.adj = editing[e].adj])
           ELSE UNCHANGED <<txns, steady, untimed>>
        /\ editing' = [editing EXCEPT ![e] = NotEditing]
        /\ UNCHANGED <<today, cards, removed, scan, repriced>>

FindAdjustment(e, t) ==
    /\ editing[e].pc = "idle"
    /\ t \in Live(txns)
    /\ txns[t].adj # NoAdjustment
    /\ editing' = [editing EXCEPT ![e] = [NotEditing EXCEPT !.pc = "drop", !.id = t]]
    /\ UNCHANGED <<today, cards, txns, removed, scan, steady, untimed, repriced>>

\* The delete fails if the adjustment is gone, alone or with its transaction.
DropAdjustment(e) ==
    LET t == editing[e].id
    IN  /\ editing[e].pc = "drop"
        /\ IF t \in Live(txns) THEN Save(t, [txns[t] EXCEPT !.adj = NoAdjustment])
           ELSE UNCHANGED <<txns, steady, untimed>>
        /\ editing' = [editing EXCEPT ![e] = NotEditing]
        /\ UNCHANGED <<today, cards, removed, scan, repriced>>

-----------------------------------------------------------------------------
(* Scans *)

BeginScan(r) ==
    /\ scan[r].pc = "idle"
    /\ \E mode \in {"cursor", "offset"}, from \in {0, today} :
         /\ scan' = [scan EXCEPT ![r] = [NotScanning EXCEPT
                       !.pc = "paging", !.mode = mode, !.from = from]]
         /\ steady' = [steady EXCEPT ![r] = Where(txns, from)]
         /\ untimed' = [untimed EXCEPT ![r] = \E t \in Where(txns, from) : txns[t].ts = None]
    /\ UNCHANGED <<today, cards, txns, removed, editing, repriced>>

\* orderBy txnTimestamp desc, id desc: PostgreSQL puts nulls first.
Before(t, u) ==
    LET a == txns[t].ts
        b == txns[u].ts
    IN  CASE a = b -> t > u
          [] a = None /\ b # None -> TRUE
          [] a # None /\ b = None -> FALSE
          [] OTHER -> a > b

\* orderBy txnDate desc, id desc.
BeforeByDate(t, u) ==
    txns[t].day > txns[u].day \/ (txns[t].day = txns[u].day /\ t > u)

\* take: the first n rows of S in the order of a scan.
First(S, n, mode) ==
    {t \in S : Cardinality({u \in S : IF mode = "cursor" THEN Before(u, t)
                                                       ELSE BeforeByDate(u, t)}) < n}

\* Fault: looks for the rows at the cursor's instant by id alone.
AnyOlder(S, cursor) ==
    {t \in S : cursor = None \/ (txns[t].ts # None /\ txns[t].ts < cursor.ts)}

\* The rows after a cursor. Nothing compares with a null.
After(S, cursor) ==
    {t \in S : cursor = None
        \/ /\ txns[t].ts # None
           /\ \/ txns[t].ts < cursor.ts
              \/ txns[t].ts = cursor.ts /\ t < cursor.id}

Got(r, items) ==
    [t \in Txn |-> IF t \in items THEN Min({2, scan[r].got[t] + 1}) ELSE scan[r].got[t]]

\* Fault: a row without a timestamp leaves the cursor without one.
BareCursor(t) == [id |-> t, ts |-> txns[t].ts]

\* encodeCursor: a row without a timestamp is put at its date.
CursorOf(t) == [id |-> t, ts |-> IF txns[t].ts = None THEN Midnight(txns[t].day) ELSE txns[t].ts]

\* listWithCursor: one row more than the limit is read, to know of a next page.
CursorPage(r) ==
    LET list == After(Where(txns, scan[r].from), scan[r].cursor)
        items == First(list, PageSize, "cursor")
        last == CHOOSE t \in items : \A u \in items : u = t \/ Before(u, t)
        more == Cardinality(list) > PageSize
    IN  /\ scan[r].pc = "paging" /\ scan[r].mode = "cursor"
        /\ scan' = [scan EXCEPT ![r] = [@ EXCEPT
                      !.got = Got(r, items),
                      !.pc = IF more THEN "paging" ELSE "done",
                      !.cursor = IF more THEN CursorOf(last) ELSE None]]
        /\ UNCHANGED <<today, cards, txns, removed, editing, steady, untimed, repriced>>

\* listWithOffset: the caller goes on until it has as many rows as total says.
OffsetPage(r) ==
    LET list == Where(txns, scan[r].from)
        skip == scan[r].page * PageSize
        items == First(list, skip + PageSize, "offset") \ First(list, skip, "offset")
    IN  /\ scan[r].pc = "paging" /\ scan[r].mode = "offset"
        /\ scan' = [scan EXCEPT ![r] = [scan[r] EXCEPT
                      !.got = Got(r, items), !.page = @ + 1,
                      !.pc = IF Cardinality(list) > skip + PageSize THEN "paging" ELSE "done"]]
        /\ UNCHANGED <<today, cards, txns, removed, editing, steady, untimed, repriced>>

-----------------------------------------------------------------------------
EditorCall(e, t) ==
    ReadRow(e, t) \/ ReadForAdjustment(e, t) \/ FindAdjustment(e, t)
EditorStep(e) == WriteRow(e) \/ WriteAdjustment(e) \/ DropAdjustment(e)

\* Midnight, and cards that are added elsewhere.
Elsewhere ==
    /\ today' \in Day /\ today <= today'
    /\ cards \subseteq cards'
    /\ UNCHANGED <<txns, removed, editing, scan, steady, untimed, repriced>>

Next ==
    \/ Elsewhere
    \/ \E t \in Txn : Create(t) \/ Remove(t)
    \/ \E e \in Editor : EditorStep(e) \/ \E t \in Txn : EditorCall(e, t)
    \/ \E r \in Reader : BeginScan(r) \/ CursorPage(r) \/ OffsetPage(r)

Spec == Init /\ [][Next]_vars

-----------------------------------------------------------------------------
(* Properties *)

\* A scan by cursor returns every row that nothing touched while it ran
\* exactly once, whatever was created, moved or removed around it, as long as
\* every row in its list has a timestamp. A scan by offset does so only while
\* nothing is written at all.
PagesComplete ==
    \A r \in Reader :
        scan[r].pc = "done" /\ (scan[r].mode = "cursor" => ~untimed[r]) =>
            \A t \in steady[r] : scan[r].got[t] = 1

\* docs/DONE-pagination-and-cycle-data-design.md:181-183 promise of the cursor
\* "Stable pagination even if new transactions arrive" and "No duplicates or
\* skipped items", of every row.
NothingSkipped ==
    \A r \in Reader :
        scan[r].pc = "done" /\ scan[r].mode = "cursor" =>
            \A t \in steady[r] : scan[r].got[t] = 1
=============================================================================
