----------------------------- MODULE Statements -----------------------------
(***************************************************************************)
(* Card statements: the rows of the statement table, one per card and      *)
(* month; the import (CcStatementsImportService), which looks at the       *)
(* newest mail of every configured source, all sources at once, and adds   *)
(* the row of a month that has none; and the clerk's calls (Statements-    *)
(* Service), which create, edit and pay statements by hand at any time.    *)
(***************************************************************************)
EXTENDS WalletData

CONSTANTS
    Importer,     \* runs of the import
    Selections,   \* the sets of sources a run may be asked for
    Clerk         \* calls of the statement endpoints

VARIABLES
    task,      \* where each run stands with each source, and its local variables
    clerk,     \* where each call stands, and its local variables
    settled    \* auxiliary: the month for which an import last dealt with the
               \* card's newest bill, 0 for none

vars == <<today, cards, rows, task, clerk, settled>>

Step == {"idle", "card", "intended", "fetch", "pdf", "ask", "parsed",
         "legacy", "insert", "done"}
Result == {"none", "inserted", "present", "nothing", "failed"}

Row == StatementRow

Task == [pc : Step,
         result : Result,
         dry : BOOLEAN,                   \* dryRun
         card : Card \cup {None},
         intended : Month,                \* intendedMonth
         bill : Bill \cup {None},         \* the mail in hand
         due : Day,                       \* parsed.dueDate
         attempt : 0 .. MaxAttempts,      \* calls of Gemini so far
         before : SUBSET Month,           \* auxiliary: months with a row at the start
         apt : Month]                     \* auxiliary: the running month, if its bill is
                                          \* there to be dealt with, or else 0

NoTask == [pc |-> "idle", result |-> "none", dry |-> FALSE,
           card |-> None, intended |-> 0, bill |-> None, due |-> 0, attempt |-> 0,
           before |-> {}, apt |-> 0]

Desk == [pc : {"idle", "write"}, card : Card \cup {None}, month : Month,
         row : Row \cup {None}]   \* the row an update is going to write
NoDesk == [pc |-> "idle", card |-> None, month |-> 0, row |-> None]

TypeOK ==
    /\ today \in Day
    /\ rows \in [Card -> [Month -> Row \cup {None}]]
    /\ task \in [Importer -> [Source -> Task]]
    /\ clerk \in [Clerk -> Desk]
    /\ settled \in [Card -> Month]

Init ==
    /\ today \in Day /\ FirstDay[1] <= today
    /\ cards = Held
    /\ \E n \in {0, 1} : \E old \in {None, [status |-> "DUE", sync |-> n, early |-> FALSE]} :
         rows = [c \in Card |-> [m \in Month |-> IF c \in Held /\ m = n THEN old ELSE None]]
    /\ task = [p \in Importer |-> [s \in Source |-> NoTask]]
    /\ clerk = [k \in Clerk |-> NoDesk]
    /\ settled = [c \in Card |-> 0]

\* Midnight.
Tick ==
    /\ today + 1 \in Day
    /\ today' = today + 1
    /\ UNCHANGED <<cards, rows, task, clerk, settled>>

At(p, s, step) == task[p][s].pc = step
Has(c, m) == rows[c][m] # None
Stored(c) == {m \in Month : Has(c, m)}

Goto(p, s, step) == task' = [task EXCEPT ![p][s].pc = step]

-----------------------------------------------------------------------------
(* The import: runImport, and importForSource for each source in parallel. *)

\* runImport loads the tenant's sources, or those of the cardKeys it was given.
Begin(p) ==
    /\ \A s \in Source : At(p, s, "idle")
    /\ \E selected \in Selections, dryRun \in BOOLEAN :
         task' = [task EXCEPT ![p] = [s \in Source |->
                    IF s \in selected THEN [NoTask EXCEPT !.pc = "card", !.dry = dryRun]
                    ELSE [NoTask EXCEPT !.pc = "done"]]]
    /\ UNCHANGED <<today, cards, rows, clerk, settled>>

\* Ends a source's part of the run.
End(p, s, result) ==
    LET t == task[p][s]
    IN  /\ task' = [task EXCEPT ![p][s] = [NoTask EXCEPT
                      !.pc = "done", !.result = result, !.dry = t.dry]]
        /\ settled' = IF t.apt # 0 /\ ~t.dry /\ result \in {"inserted", "present"}
                        THEN [settled EXCEPT ![t.card] = t.apt] ELSE settled

\* Is the bill of the running month there to be dealt with? It is looked for from
\* the card's cycle day on, and has to be due in the month after it arrives.
Due(c, s) ==
    /\ DayOfMonth(today) >= CycleDay[c]
    /\ Arrived(s, today) # {}
    /\ MonthOf(ReceivedOn[Newest(s, today)]) = MonthOf(today)
    /\ StatementMonthOf(DueOn[Newest(s, today)]) = MonthOf(today)

\* A card that is not found fails the source; one without a cycle day is
\* skipped; for the others the intended month is computed.
FindCard(p, s) ==
    LET c == FoundCard(s, cards)
        intended == IntendedMonth(today, CycleDay[c])
    IN  /\ At(p, s, "card")
        /\ \/ c = None /\ End(p, s, "failed")
           \/ c # None /\ ~HasCycleDay(CycleDay[c]) /\ End(p, s, "nothing")
           \/ /\ c # None /\ HasCycleDay(CycleDay[c])
              /\ task' = [task EXCEPT ![p][s] = [@ EXCEPT
                            !.pc = "intended", !.card = c, !.intended = intended,
                            !.before = Stored(c),
                            !.apt = IF Due(c, s) THEN MonthOf(today) ELSE 0]]
              /\ UNCHANGED settled
        /\ UNCHANGED <<today, cards, rows, clerk>>

CheckIntended(p, s) ==
    /\ At(p, s, "intended")
    /\ IF Has(task[p][s].card, task[p][s].intended) THEN End(p, s, "present")
       ELSE Goto(p, s, "fetch") /\ UNCHANGED settled
    /\ UNCHANGED <<today, cards, rows, clerk>>

\* fetchLatestMessageByLabel
Fetch(p, s) ==
    /\ At(p, s, "fetch")
    /\ \/ Arrived(s, today) = {} /\ End(p, s, "nothing")
       \/ /\ Arrived(s, today) # {}
          /\ task' = [task EXCEPT ![p][s] = [@ EXCEPT
                        !.bill = Newest(s, today),
                        !.pc = IF Flow[s] = "direct" THEN "ask" ELSE "pdf"]]
          /\ UNCHANGED settled
    /\ UNCHANGED <<today, cards, rows, clerk>>

\* parsePdfStatement: a mail without a PDF, or with an empty one, is skipped;
\* a PDF that no candidate opens fails.
OpenPdf(p, s) ==
    /\ At(p, s, "pdf")
    /\ \/ End(p, s, "nothing")
       \/ ~Opens(s, task[p][s].bill) /\ End(p, s, "failed")
       \/ Opens(s, task[p][s].bill) /\ Goto(p, s, "ask") /\ UNCHANGED settled
    /\ UNCHANGED <<today, cards, rows, clerk>>

\* parseStatementTextWithGemini: an answer that names all three fields is
\* taken, one that does not is a skip; a transient HTTP error is retried, up
\* to MaxAttempts calls in all, and then fails like any other.
Ask(p, s) ==
    LET t == task[p][s]
    IN  /\ At(p, s, "ask")
        /\ \/ /\ \E due \in Readings(t.bill) :
                   task' = [task EXCEPT ![p][s] = [@ EXCEPT
                              !.pc = "parsed", !.due = due, !.attempt = 0,
                              !.apt = IF StatementMonthOf(due) = t.apt THEN t.apt ELSE 0]]
              /\ UNCHANGED settled
           \/ End(p, s, "nothing")
           \/ /\ t.attempt + 1 < MaxAttempts
              /\ task' = [task EXCEPT ![p][s].attempt = @ + 1]
              /\ UNCHANGED settled
        /\ UNCHANGED <<today, cards, rows, clerk>>

CheckParsed(p, s) ==
    /\ At(p, s, "parsed")
    /\ IF Has(task[p][s].card, StatementMonthOf(task[p][s].due)) THEN End(p, s, "present")
       ELSE Goto(p, s, "legacy") /\ UNCHANGED settled
    /\ UNCHANGED <<today, cards, rows, clerk>>

\* Fault: does not look for a statement filed under the due month.
SkipLegacy(p, s) ==
    /\ At(p, s, "legacy")
    /\ IF task[p][s].dry THEN End(p, s, "inserted")
       ELSE Goto(p, s, "insert") /\ UNCHANGED settled
    /\ UNCHANGED <<today, cards, rows, clerk>>

\* Statements were once filed under the month they are due in. A dry run ends
\* here, with an insert it does not make.
CheckLegacy(p, s) ==
    /\ At(p, s, "legacy")
    /\ IF Has(task[p][s].card, MonthOf(task[p][s].due)) THEN End(p, s, "present")
       ELSE IF task[p][s].dry THEN End(p, s, "inserted")
       ELSE Goto(p, s, "insert") /\ UNCHANGED settled
    /\ UNCHANGED <<today, cards, rows, clerk>>

\* The sync month of a row is the month its bill arrived in.
Imported(b) == [status |-> "DUE", sync |-> MonthOf(ReceivedOn[b]), early |-> FALSE]

\* Fault: writes the row whether or not the month has one by now.
InsertAnyway(p, s) ==
    /\ At(p, s, "insert")
    /\ rows' = [rows EXCEPT ![task[p][s].card][StatementMonthOf(task[p][s].due)] =
                  Imported(task[p][s].bill)]
    /\ End(p, s, "inserted")
    /\ UNCHANGED <<today, cards, clerk>>

\* A row that came in since the checks makes the insert fail on the unique
\* index (P2002), which is a skip.
Insert(p, s) ==
    LET t == task[p][s]
        c == t.card
        m == StatementMonthOf(t.due)
    IN  /\ At(p, s, "insert")
        /\ IF Has(c, m) THEN End(p, s, "present") /\ UNCHANGED rows
           ELSE /\ rows' = [rows EXCEPT ![c][m] = Imported(t.bill)]
                /\ End(p, s, "inserted")
        /\ UNCHANGED <<today, cards, clerk>>

\* An error of the database, of Gmail or of Gemini ends in importForSource's
\* catch block.
Fail(p, s) ==
    /\ task[p][s].pc \notin {"idle", "done"}
    /\ End(p, s, "failed")
    /\ UNCHANGED <<today, cards, rows, clerk>>

\* The run's status, from what became of its sources.
Status(p) ==
    LET Ended(result) == \E s \in Source : task[p][s].result = result
    IN  IF ~Ended("failed") THEN "OK"
        ELSE IF Ended("inserted") THEN "PARTIAL" ELSE "FAILURE"

\* runImport returns once every source has ended.
Report(p) ==
    /\ \A s \in Source : At(p, s, "done")
    /\ task' = [task EXCEPT ![p] = [s \in Source |-> NoTask]]
    /\ UNCHANGED <<today, cards, rows, clerk, settled>>

-----------------------------------------------------------------------------
(* Statements by hand *)

Put(c, m, row) == rows' = [rows EXCEPT ![c][m] = row]

\* The sync month typed by hand may be any; only its form is checked.
Synced(row, m, sync) == [row EXCEPT !.sync = sync, !.early = sync < m]

\* create is an upsert: it resets whatever row the month has. The status
\* defaults to DUE, the sync month to the month itself.
Create(k, c, m) ==
    /\ clerk[k].pc = "idle"
    /\ c \in cards
    /\ \E status \in {"DUE", "PAID"}, sync \in Month :
         Put(c, m, [status |-> status, sync |-> sync, early |-> sync < m])
    /\ UNCHANGED <<today, cards, task, clerk, settled>>

\* Fault: the sync month goes one beyond the one that was typed.
Ahead(row, m) ==
    {[row EXCEPT !.status = status] : status \in {"DUE", "PAID"}}
    \cup {[row EXCEPT !.sync = sync + 1] : sync \in Month}

\* What an update makes of the row it has read; markPaid is the first.
Edited(row, m) ==
    {[row EXCEPT !.status = status] : status \in {"DUE", "PAID"}}
    \cup {Synced(row, m, sync) : sync \in Month}

\* update and markPaid read the row and build the whole of the new one ...
ReadRow(k, c, m) ==
    /\ clerk[k].pc = "idle"
    /\ Has(c, m)
    /\ \E row \in Edited(rows[c][m], m) :
         clerk' = [clerk EXCEPT ![k] = [pc |-> "write", card |-> c, month |-> m, row |-> row]]
    /\ UNCHANGED <<today, cards, rows, task, settled>>

\* ... and write it, over whatever the row is by then.
WriteRow(k) ==
    /\ clerk[k].pc = "write"
    /\ Put(clerk[k].card, clerk[k].month, clerk[k].row)
    /\ clerk' = [clerk EXCEPT ![k] = NoDesk]
    /\ UNCHANGED <<today, cards, task, settled>>

-----------------------------------------------------------------------------
ImportStep(p, s) ==
    \/ FindCard(p, s) \/ CheckIntended(p, s) \/ Fetch(p, s) \/ OpenPdf(p, s)
    \/ Ask(p, s) \/ CheckParsed(p, s) \/ CheckLegacy(p, s) \/ Insert(p, s)
    \/ Fail(p, s)

ClerkCall(k, c, m) == Create(k, c, m) \/ ReadRow(k, c, m)

\* Cards are added elsewhere (CardsService, the detailed sync).
Elsewhere ==
    /\ cards \subseteq cards'
    /\ UNCHANGED <<today, rows, task, clerk, settled>>

Next ==
    \/ Tick
    \/ Elsewhere
    \/ \E p \in Importer : Begin(p) \/ Report(p)
    \/ \E p \in Importer, s \in Source : ImportStep(p, s)
    \/ \E k \in Clerk, c \in Card, m \in Month : ClerkCall(k, c, m)
    \/ \E k \in Clerk : WriteRow(k)

Spec == Init /\ [][Next]_vars

-----------------------------------------------------------------------------
(* Properties *)

\* The latest statement of a card, and whether the wallet asks for a newer one.
Latest(c) == CHOOSE m \in Stored(c) : \A n \in Stored(c) : n <= m
Pending(c) ==
    SyncPending(today, ResolvedDay(CycleDay[c]), Stored(c) # {},
                IF Stored(c) = {} THEN 0 ELSE rows[c][Latest(c)].sync)

\* Whatever the import does, between its checks and its insert or after, it
\* never changes or removes a statement that is there: what the user typed,
\* and that a bill is paid, outlives every sync.
EditsSurvive ==
    [][(\E c \in Card, m \in Month : Has(c, m) /\ rows'[c][m] # rows[c][m]) =>
         ~ \E p \in Importer, s \in Source : ImportStep(p, s)]_vars

\* Once an import has dealt with the bill of the running month, because it
\* stored it or found it there, the wallet stops asking for the statement for
\* the rest of the month, whatever is edited, paid or imported meanwhile, with
\* one exception: if the sync month of the card's latest statement was typed in
\* as one before its own month, which nothing refuses, the wallet asks again.
\* This is for bills that are due, and are read as due, in the month after
\* they arrive.
SyncSettles ==
    \A c \in Card :
        settled[c] # 0 /\ settled[c] = MonthOf(today) =>
            ~Pending(c) \/ rows[c][Latest(c)].early

\* The import files a bill beside a statement under the bill's due month,
\* where older statements are, only if that one was typed in while the import
\* was already under way.
FiledOnce ==
    [][\A p \in Importer, s \in Source :
         LET t == task[p][s]
         IN  At(p, s, "insert") /\ rows' # rows /\ Insert(p, s)
             => MonthOf(t.due) \notin Stored(t.card) \cap t.before]_vars
=============================================================================
