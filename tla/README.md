# Formal model of the PFT backend

TLA+ modules for the personal-finance backend in `src/` (NestJS, Prisma,
PostgreSQL): its import jobs, its savings ledgers, the wallet of cards,
statements and transactions, and the account with its settings and sign-ins. TLC
checks them on small instances; TLAPS proves the main results for every value of
the constants. `PROJECT.json` has the index: components, runs, the fault each
property detects, the source lines of every definition, findings, hazards,
theorems.

## 1. The system

One Node process serves HTTP requests of a tenant's users and of an external
scheduler; nothing inside it is scheduled. State lives in PostgreSQL tables.
Requests interleave at every `await`, and the process may die between any two
statements that are not in one transaction. Transactions run at READ COMMITTED;
where that is not enough the code takes advisory locks, which end with the
transaction.

| component | state | operations | talks to | what is hard |
|---|---|---|---|---|
| Import lock and job runs (`import-jobs.service.ts`, `import-lock.service.ts`) | `ImportJobLock`, `ImportJobRun` | start of three jobs, lock, run, release, startup, status | the imports | leases that nothing renews, a release without an owner, crashes, work that is not awaited |
| CC transaction import (`cc-txn-import.service.ts`, `import-failure.service.ts`, `gmail-poll.service.ts`) | `Transaction`, `ImportMessageFailure`, `ImportJobState` | drain a label, retry, ignore, rebase | Gmail, Gemini, wallet of cards | each call may fail; retries run beside imports; a stale set of dedupe keys |
| CC statements import (`cc-statements-import.service.ts`) | `Statement` | one run: every source in parallel, from the card to the insert | Gmail, Gemini, PDFs, cards | checks long before the insert; three ways to compute a month |
| Detailed sync (`detailed-statements-sync.service.ts`, `scripts/backfill-detailed-statements.ts`) | `DetailedStatement`, `ImportJobState`, `Card` | sources, messages, upserts, watermark; the same in a script | Gmail, Gemini, statements | a watermark that moves before the work is done; a script without the lock; rows keyed by what Gemini answers |
| FD ledger (`fd-ledger.service.ts`) | `FdLedgerEntry` | sync contribution, break, undo | monthly plans, settings | three kinds of request on the same lots |
| Goals (`goals.service.ts`) | `GoalLedgerEntry`, `Goal` | move out, undo | monthly plans | reads rows another lock protects |
| Monthly plans (`monthly-plans.service.ts`) | `MonthlyPlan` | upsert, dashboard | FD ledger, investments | one transaction over three components and two locks |
| Investments (`investments.service.ts`) | `InvestmentSale` | sell, undo, two checks | plans, settings | sums over three tables |
| Settings (`settings.service.ts`, its repository) | `PftSetting`, `PftBaseline` | get-or-create, update, deduct stash, baselines | investments, plans, FD ledger, auth, imports | whole rows written from stale reads |
| Auth, users (`auth.service.ts`, `users.service.ts`) | `AuthRefreshSession`, `User`, the token columns of `PftSetting` | login, refresh, logout, Gmail consent | Google, settings | look-ups outside the transaction; two subjects with one address |
| Transactions (`transactions.service.ts`, `transaction-adjustment.service.ts`, the repository) | `Transaction`, `TransactionAdjustment` | create, edit, remove, adjust, pages by cursor and by offset | | cursors over rows that change, read-modify-write, timestamps that may be null |
| Statements, cards | `Statement`, `Card` | create (an upsert), edit, pay | the imports | whole rows written from earlier reads |
| Card cycle summary (`card-cycle-summary.service.ts`, `effective-amount.ts`) | none | `getSummary` | transactions, statements, cards | five queries at five times; calendar arithmetic |
| Scratch pads (`scratch-pads.service.ts`) | `ScratchPad` | create, update, remove | | check-then-write of the linked sheet |
| Loans, bills, health, configuration | their tables | CRUD | | |

What makes each modelled component correct:

* **Job runs**: imports of one job do not overlap while leases are kept; a crash
  never leaves the hourly import locked; a run row a client polls gets its final
  status; the status endpoint shows the last outcome.
* **Transaction import**: no message the watermark passed is lost; a resolved
  failure is a stored transaction; watermarks do not go back; runs and retries end.
* **Ledgers**: what is broken or moved out was there; requests leave the
  books that one clerk would; requests never block one another for ever.
* **Settings and investments**: what was sold was bought; the Gmail token is not
  lost; deductions add up; the baseline of a half that has begun stays.
* **Statements**: an import changes no row that is there; a card whose bill was
  dealt with is no longer shown as waiting; a bill is not filed twice.
* **Detailed sync**: a bill behind the watermark is stored, or was counted as
  failed, or belongs to one of two kinds that the code passes over without a word
  (section 2); a bill is stored under one reading; what is tied to a statement
  stays tied.
* **Transactions, summary**: a scan returns each row once; a cycle's own spend is
  within its spend; today is in today's cycle; no slice of a spread purchase is
  missed.
* **Sign-ins, pads**: a Google account leads to one user; a sign-in keeps one
  session until its logout; sheets are linked once.

## 2. Modules

Every module states the code in its own terms: one action per step between two
points where another process can act, the guard from the code's conditions, the
failure of a call as an action of its own. Operators whose comment begins with
*Fault:* are plausible bugs; they are in no specification, each shows that a
property would notice it.

### ImportJobs (and JobLease)

One record of control per request (`pc`, `owner`, `lease`), the lock table and
the run rows. `Start … Release` follow `startCcTxnImport`,
`startCcStatementsImport` and `runDetailedStatementsSync` with their execute
methods; the differences of the three jobs (who has a run row, who releases with
an owner, what an exception does) are guards on `job`, which each request has from
the start; `Requests` says which requests there may be. `acquire` is two
statements, so two actions (`Sweep`; `Acquire` or `AcquireFails`). `Crash` kills
all requests and keeps the tables; `Boot` is `onModuleInit`. Time is a counter,
a lease a number of ticks: a tick between two statements stands for any time.

`JobLease` is the abstract promise: a lease is granted when it is free, and the
promise is void for a job once a run of it outlived its lease. `ImplementsLease`
is the refinement.

### CcTxnImport

A message is a model value that carries one dedupe key; whether it parses is the
model's choice at `ParseFails`, so the parsers are covered by every answer they
can give. `Worker`s drain a label (`Begin`, `Poll`, `Take`, …, `Finish`);
`Retrier`s are calls of the retry endpoint, which takes no lock. Both go through
`processMessage`, one action per await. A call that throws is an action
(`DrainFails`, `WriteFails`, `ConfirmThrows`, `SaveThrows`, `RetryThrows`), and
where the code catches is where these lead. `upsertFailure` is two steps
(`Find`, `Save`) with the unique key between them.

### Ledgers (and Savings)

One request is one transaction: `LockPlans` and `LockTenant` wait for the
advisory locks, `Read` takes a snapshot into `seen`, one of `SavePlan`,
`BreakPackets`, `UndoBreak`, `MoveGoal`, `UndoMove` decides on the snapshot and
writes, `Abort` rolls back anywhere. Keeping read and write apart is what makes
the locks matter: without them `seen` would be stale. The row a plan writes is
visible at its commit only, so plan row and contribution change in one action.
Packets are counted as sets of pairs, which is the same number as the sums of the
code and can be reasoned about.

`Savings` is the abstract promise: books with four columns (the packet and the
payments of each month, the packets broken out of it, the money moved out of each
goal) kept by one clerk, who looks and writes in one step. No lock, snapshot, entry
or request is in it. `KeepsBooks` is the refinement; its mapping adds the entries
up. It says that the requests are serial in what they leave behind, and, with the
order in which packets are taken, what each of them may leave.

### Settings

The settings row and the investment tables it is checked against. `Find`,
`Default`, `TakeLock`, `Read`, then a write; requests that rewrite the row
(`SaveOpening`, `SaveOther`, `DeductStash`) write the row they read at `Find`,
changed in a column or two, as the repository's `upsert` does. The columns kept
are those some other component relies on. `Exclusive` says whether such requests
take turns: the code does not make them, a tenant with one open browser does.

Ledgers and Settings both have the writing of a monthly plan, each with its own
columns. They are two modules because the columns, and the locks that protect
them, are disjoint: FD and goals under the tenant lock, investments under the
investments lock. The order of the two locks is in Ledgers.

### The wallet

Seven modules. `Wallet` composes four parts over one date, one card table and one
statement table, which `WalletData` declares:

| module | follows | state |
|---|---|---|
| `Calendar` | every computation of a month or a cycle | none: operators on days and months |
| `WalletData` | what the parts look up alike: the card of a source, passwords of a PDF, the newest mail of a label | `today`, `cards`, `rows` |
| `Statements` | `runImport`, `importForSource`; `StatementsService` | `task` (run and source), `clerk` |
| `DetailedSync` | `runSync`, `syncSource`; `main` of the script | `mark`, `details`, `linked`, `sync` |
| `Transactions` | `TransactionsService`, adjustments, the repository's pages | `txns`, `editing`, `scan` |
| `CycleSummary` | `getSummary` | `view` |

*Calendar.* A day is a number and a month an index; `FirstDay` lays the months
out, of any lengths. `NewDate` runs over into the next month like JavaScript's
`Date`. What is *today* for the import is local time, and so is the model's.

*Statements.* The sources of a run are tasks that interleave: `FindCard`,
`CheckIntended`, `Fetch`, `OpenPdf`, `Ask`, `CheckParsed`, `CheckLegacy`, `Insert`
are the awaits of `importForSource` in order, `Fail` its catch block. A bill that
is wrongly read a day early (`toIsoDate`, east of Greenwich) is one of its
`Readings`. An update by hand is a read and a write of the whole row (`ReadRow`,
`WriteRow`). Amounts and due dates of the rows are left out: nothing decides on
them. A sync month typed by hand may be any: the DTOs check its form only. One before
the statement's own month makes the wallet ask for the bill again, whatever was
synced; `early` marks such a row, and `SyncSettles` says that this is the only case.

*DetailedSync.* Sources one after the other; `TakeMail` moves `seen` before it
knows whether the PDF can be read, as the code does. The watermark is kept by card key
alone, without the source and without the tenant (lines 193-195 and 363-364); within a
tenant `settings.service.ts` refuses a second source of a key, so the sources of a key
are those of several tenants, who share its watermark. A source of either flow is
synced, if its mails have a PDF (`Attached`). What a run does with a bill that it does
not store is in `givenUp`: the bill is `"failed"`, which the run counts, or it is
passed over without a word, `"empty"` as nothing could be downloaded (line 234) or
`"old"` as it came more than a year before its key had a watermark. A bill that was
once given up may be stored by another run. A PDF read twice may give two
`Reading`s and so two sets of rows. The script runs the same actions without the
lock. `Crash` leaves the rows written so far. Mails are immutable, so reading one
is one step with every outcome it can have, and there is one PDF per mail. Gemini
names the month of the bill in hand, or none. `Others` is what the rest of the
wallet may do to `cards`, `rows` and the date. The source list, which the script
takes from its environment, is that of the service.

*Transactions.* A row has a card, a day (any of `TypedDays` when it is typed in), a
timestamp or none, an amount and an adjustment, which is a table of its own in the
code but lives and dies with the row. A scan is one page per step: the cursor (`CursorOf`, `After`) or the offset.

*CycleSummary.* One step per query, the date taken once at the start. Its sums are
counted as piles, like those of Ledgers: a pile per row, as high as the row's amount,
its own part or its slice.

*Wallet.* `Statements` and `DetailedSync` are extended, as their theorems speak of
the composition directly; `Transactions` and `CycleSummary` are instances `T` and
`C`. A transaction written while a summary is between its two reads of a card is
noted there (`C!Disturb`).

### The account

`Account` extends `Settings` and composes it with three instances:

* `SignIns`: a Google callback looks a user up `BySub`, then `ByEmail`, and `Link`s
  or `Create`s one; a consent to read Gmail starts like it and ends in the settings
  row (`Connected`, and with it `Settings!Connect`). `Look` and `Rotate` are the
  two parts of a refresh. Tokens are numbered in the order they are made. A token
  past its time is one whose look-up finds nothing.
* `ScratchPads`: `Check`, then `Insert` or `Overwrite`. An update that names no
  sheet changes nothing that is modelled; names, order and workbook are left out.
* `Baselines`: `HalfOf`, `NextHalf`, `Locked` follow `fiscal-half.ts`; a request
  looks a baseline up and writes it later, and the month may turn in between.

The parts share the consent's token and no other row. Steps of two parts that
share nothing commute, so a behaviour takes requests to one part (`asked`), and
`Consent` crosses over.

### MC modules, proof modules

`MCx` instantiates `x`. `ImportJobsProofs`, `CcTxnImportProofs`, `LedgersProofs`,
`AccountProofs`, `StatementsProofs`, `DetailedSyncProofs` and `WalletProofs` hold
the proofs, `Counting` what they share about finite sets and numbers: a pile of
`n` pieces counts `n`; families that count alike pile by pile count alike in all
(`FamilyCardinality`), and what was taken and what is left make up the whole
(`LeftAndTaken`); smaller heaps count less (`HeapsMonotone`); a set of numbers has a
least one; in a finite order every member has a rank, and the first, the last and
the top `n` are what the ranks say (`FirstInRow`, `LastInRow`, `TopOfRow`).

## 3. Runs

| run | instance | shows |
|---|---|---|
| `import_jobs_txn` | 3 requests for one job, be it any of the three, lease 1 tick, clock to 3 | `LeaseExclusive`, `OverlapNeedsOverrun`, `NoOrphanTxnLock`, `ImplementsLease` |
| `import_jobs_settle` | 1 request of each job, clock to 1, fair | `RunSettles` |
| `import_jobs_banner` | 3 requests of one job | **violation** of `BannerShowsLastOutcome` |
| `cc_txn_retry` | 2 runs in turn, 1 retry call, 2 messages, 1 label | `Accounted`, `ResolvedIsStored`, `MarkMonotonic` |
| `cc_txn_settles` | 1 run, 1 retry, 1 message, 1 rebase, fair | `Settles` |
| `cc_txn_two_labels` | 1 run, 1 retry, 1 message with two labels | **violation** of `ResolvedIsStored` |
| `ledgers` | 2 requests, 2 months, 2 denominations, 2 packets a month, 1 goal | `NothingOverbroken`, `OffersBreakable`, `MoveIsCovered`, `KeepsBooks` |
| `ledgers_end` | 2 requests, 1 month, fair | `Ends` |
| `settings_turns` | the account: 2 settings requests, row writers in turn; 4 sign-in calls, 3 tokens, 2 Google accounts, 2 users; 2 pads, 2 sheets; 3 halves | `SalesCovered`, `TokenNeverErased`, `DeductionsAddUp`, `StableLookups`, `StaysSignedIn`, `OneSession`, `SheetsDistinct`, `LockedKept` |
| `settings_stale` | 2 requests, no turns | **violation** of `SalesCovered` |
| `wallet` | 2 calls of the wallet's parts, 3 cards, 2 sources of either flow, 3 bills, 3 transactions, one midnight | `EditsSurvive`, `FiledOnce`, `SyncSettles`; `PassedIsAccounted`, `MixedNeedsReplay`, `LinksKept`; `PagesComplete`; `SpendCovers`, `TodayCounted`, `CalendarComplete` |
| `wallet_pages` | 1 scan of 3 rows, 2 without a timestamp | **violation** of `NothingSkipped` |

Each safety run also checks the type invariant of its module (`TypeOK`,
`WalletTypes`, `AccountTypes`).

### The violations

* `import_jobs_banner`: the endpoint is to keep "showing the last settled
  outcome" (`docs/domain/cc-txn-import-runtime.md:12`), and takes the newest run
  by creation that is not RUNNING. A request that finds the lock taken is newer and
  settles first, as SKIPPED_LOCKED; when the run that held the lock then ends with
  REAUTH_REQUIRED, the banner does not show.
* `cc_txn_two_labels`: a mail with two watched labels has two failure rows and one
  dedupe key. `processMessage` adds the key to `existingKeys` before it writes. A
  retry of both rows, where the first write fails, takes the second for a duplicate
  and marks it RESOLVED; nothing was stored.
* `settings_stale`: a save without an opening balance writes the whole row it read
  earlier, without lock or check. When another request raised the opening balance
  in between and a sale was made from it, the stale write takes the balance below
  what was sold, which `investments.service.ts:215` says cannot happen.
* `wallet_pages`: the list is ordered by timestamp, and a row without one comes
  first. The cursor after such a row takes its day for a timestamp
  (`prisma-transaction.repository.ts:163`), and the next page compares timestamps
  only, which is never true of a row that has none: the other rows without one
  come in no page, though `docs/DONE-pagination-and-cycle-data-design.md:183`
  promises "No duplicates or skipped items". `PagesComplete` is what does hold.

### Bounds

* *Requests and runs.* Lock properties are about pairs; a third request is needed
  in `import_jobs_txn` to come after one that overran. Its requests are all for the
  transaction import, all for the statements or all for the detailed sync: jobs have
  nothing in common but the clock and the process. With the last two the release
  names its owner, so that `LeaseExclusive`, which excuses only a job whose release
  does not, has to hold there after an overrun as well. Every request may start over
  (except in ImportJobs, where each is one run row), so two actors make long
  histories.
* *Clock.* With a lease of one tick a clock of three lets two leases expire one
  after the other. `import_jobs_settle` and `import_jobs_banner` do not depend on
  expiry, so their clock stands still.
* *Messages.* Two suffice for a message in hand with another still to do, for rows
  of one retry call that meet, and for a watermark with something before it. With
  `PollLimit = 2` a listing is never cut short; a smaller limit would leave a run
  with one message, and what a cut listing leaves behind is outside of `Accounted`
  (section 6).
* *Amounts.* Two packets of two denominations in two months give a break that spans
  months, one that is partial and one that is limited to a denomination. One rupee
  moved out of a goal paid by two months tells covered from not covered.
  In Settings two rupees are the least that can be reduced and still be there.
* *`None`, ids.* Entry, sale and token ids are drawn from small sets and reused once
  they are free; the code's are random and never reused, which only makes the
  model's histories a superset.

* *Wallet.* `Mixes` says how many calls of each part a behaviour may begin: two
  imports or clerk calls, one and a detailed sync (they meet in the cards and in the
  statements a row is tied to), two syncs, two calls on transactions, one beside a
  summary (they meet in the table). A call with no table in common with another
  commutes with it. Two imports of one label are the pair that inserts one
  month; two syncs the pair that stores one bill twice. The third bill has a PDF
  although its source reads the mail's text; that source's card comes into being in a
  sync only. `Reach` of one day makes the oldest bill too old for a first listing, and
  `TypedDays` has a day of each month. `Starts` is the second day
  of a month and `MaxNights` one midnight, by which the second bill arrives.
  Months have two, three and two days, shorter than the cycle days allow, so that a
  cycle day past the end of a month occurs at once; `MaxDom` (31) is 5 and
  `Lookback` (60 months) is 1, with purchases spread over two. A page holds one
  row, which makes every row a page boundary. `MaxAttempts` of two gives one retry.
* *Account.* `MaxCalls` of four is a sign-in, two calls that meet in one session and
  one after; `MaxSessions` of three is a token and two successors of it.
  `Clock` has the months on both sides of both half-year boundaries. One token
  value and one deduction amount suffice, as `TokenNeverErased` tells a token from
  none. The MC module gives the parts the same model values, which they never
  compare with one another's.

Bounds in guards are these: `MaxClock`, `MaxRebase`, `MaxQuantity`, `MaxPay`,
`MaxRupees`, `MaxNights`, `MaxCalls`, `MaxSessions`, `Mixes` and `LastMonth`. Symmetry is used in safety runs only, on sets whose members the
specification does not tell apart. Deadlock checking is off in the runs where the
system may come to rest: all requests of ImportJobs done and the clock at its
bound; `CcTxnImport` and its rebases; the wallet once its calls and nights are spent. In Ledgers and Account a request can always
begin, so it stays on.

### Fairness

* `ImportJobs`: `WF(Step(r))`: what a request awaits settles, for each Gmail and
  Gemini call has a timeout and a bounded number of attempts. Requests need not
  arrive, time need not pass, the server need not come back.
* `CcTxnImport`: the same, for runs and retries. That a call *succeeds* is never
  assumed.
* `Ledgers`: PostgreSQL queues those who wait for an advisory lock, so one that is
  free again and again is granted (`SF` on the lock steps); statements end (`WF` on
  `Read` and on the answer).
* The wallet and the account have safety properties only, and no fairness: none of
  their calls waits for another.

## 4. Proofs

All are for any number of requests, runs, messages, months and amounts.

* **ImportJobs.** The inductive invariant adds to the types: the clock has started,
  runs past their lease are in `late`, nothing works while the server is down, and
  the lock row of a job is the row of the run that holds the lease
  (`HolderOwnsRow`), unless excused. The last is what `LeaseExclusive` needs: two
  holders would both own the one row. No step changes what job a request is for
  (`SameJobs`). `LeaseIsExclusive`, `NoOverlapWithoutOverrun`,
  `TxnLockHasRun` and the refinement `LeaseImplemented` follow.
* **CcTxnImport.** `Knows(p)` is what a run or retry may rely on at each step: a
  polled message is to do, in hand, stored or has a failure row (`Handled`), and a
  key in `existingKeys` is that of a stored message or one it is done with
  (`Fresh`). `NothingLost` needs no assumption on runs taking turns;
  `ResolvedNeedsOneHome` assumes that no message can have two labels, the case the
  violation shows to be necessary; `MonotonicInTurns` assumes turns and no rebases.
  When turns can be relied on is `OverlapNeedsOverrun` of ImportJobs.
* **Ledgers.** `Holding` (who reads or writes holds the tenant's lock) makes
  `SeenFresh` inductive (nothing changes under who is about to write), and with it
  each check on `seen` is a check on the tables. `NeverOverbroken`,
  `DenominationsKept` and `MovesAreCovered` follow. The second, and that the ledger
  has the packets of the plans (`LedgerFollowsPlan`, a part of the invariant and by
  itself no more than what one transaction writes), are why breaking by denomination
  is right. `OffersAreBreakable` says
  that the offer, which nets the sums of a denomination, is what the walk through
  the lots can break: month by month, what is left and what was broken are the lot
  (`NothingOverbroken` keeps the difference from being cut off at zero), and
  `BreaksMatchLots` lets both sides be summed over the same months. The refinement
  `BooksAreKept` rests on the same invariant: by `SeenFresh` each write is decided on
  the books as they are, and one more entry counts for exactly its packets or rupees
  (`BrokenOneMore`, `MovedExactly`), because its id is fresh.
* **Settings.** The same two, for the investments lock; in addition `CurFresh`: the
  row copied before the lock still has its opening balances, which holds only
  because row writers take turns (`Exclusive`, hypothesis of
  `SalesCoveredInTurns`). `settings_stale` is what happens otherwise.
  `DeductionsAddUpInTurns` needs the same of the deductions (`DeductionsFresh`, with
  `AbsentHasNone` for the request that creates the row). `TokensAreKept` needs no
  turns: a stale copy may be written, but one without a token leaves the stored
  token alone (`UpsertColumns`).

* **Statements.** `IInv` says what each step of an import may rely on (`Sound`: the
  months it found stored at its start are still stored, the bill in hand is of the
  month it may settle), what a clerk's write may (`DeskSound`), that no row has a sync
  month before its own but one so typed in (`RowsAhead`), and that a month that was
  settled has a row, or a later one has (`Dealt`). `SyncSettles` is the last two
  together: the latest row is of the settled month or after, and its sync month as
  well unless it is `early`. No row is ever removed (`Grown`), which is why other runs
  and clerks do no harm. `MonthOfDay` (every day is in a month) needs a least element,
  hence `LeastNatural` of Counting.
* **DetailedSync.** `AInv`: a bill that a run has seen and that is not in its list any
  more is accounted for (stored whole, or in `givenUp`), or in hand, or up to the
  watermark the run began with (`Good`); a watermark only takes over what a run has
  seen. It is about the bills of sources that have their card key to themselves
  (`OwnPdfs`): where two share one, a run of either moves the watermark over bills of
  the other that it never lists. It holds with any number of runs and scripts, since
  nothing that is accounted for becomes unaccounted (`PassedBillsAreAccounted`).
  `RInv` adds what a run knows as long as it is alone (`Lone`): stored bills that no
  dead run left behind are behind the watermark, or behind the run.
* **Wallet.** The composition is proved, not assumed: `WalletKeepsStatements`,
  `WalletKeepsDetailedSync` and `WalletKeepsTransactions` show that each step of the
  wallet is a step of the part, one of its environment, or a stutter (`…Day` lemmas:
  what a part leaves alone). From these and the parts' theorems follow the wallet's
  own (`WalletSettles`, `WalletEditsSurvive`, `WalletFilesOnce`,
  `WalletAccountsForPassed`, `WalletKeepsLinks`, `WalletReplays`). `TodayIsCounted` is
  for months of any lengths; its one condition on the cycle day is necessary: a day
  two past the end of the last month begins a cycle after today.
  * `Table` adds to the types of the transactions what their writers rely on: the
    table is finite, an edit refers to a row that is or was there (`EditsRefer`), an
    adjustment spreads over no more months than allowed (`SpreadsBounded`), and a
    share is less than its whole unless the amount was edited after (`SharesFit`,
    with `repriced` for the exception: the code checks a share when it is made and
    never again).
  * `PagesAreComplete` rests on `CursorScan`: of the rows no write touched, a scan
    has returned those before its cursor, each once; and on `OffsetScan`: it has
    returned the top `page * PageSize` of the order. A page is the next rows in rank
    (`CursorPageGood`, `OffsetPageGood`). That no row listed lacks a timestamp is a
    premise of the first only, and `wallet_pages` shows that it is needed.
  * `SpendIsCovered` rests on `TotalStands`: unless excused, the rows of the second
    read are those the first summed up, and row by row the own part is at most the
    amount (`OwnPart`, from `SharesFit` and `SpreadsBounded`).
  * `CalendarIsComplete`: a purchase before the lookback has no slice in the month
    (`NoOldSlices`), so the rows left out count nothing. It needs
    `MaxMonths <= Lookback + 1`, as 60 and 60 are; with a lookback two months
    shorter than the longest spread it is false.
  * `WalletKeepsTypes` joins the types of the four parts and the budget of calls.
* **Account.** `AccountIsSettings`: a step of the account is a step of Settings or
  leaves its variables alone, so `AccountSalesCovered` follows. The other parts:
  * `SheetsAreDistinct` rests on `Reserved`: whoever is past its check found no
    other pad with the sheet, and is alone in linking it, unless the sheet is in
    `raced`. No unique key stands behind the check, so the exception is needed.
  * `BegunHalvesAreKept` rests on `InTime`: an edit under way came before the half
    of its baseline began.
  * `LookupsAreStable` rests on `UniqueSubs` (the unique index on `googleSub`) and
    on `AnswersStand`: who was taken for a user is the subject of that row still,
    unless another subject took the row over. `SignInsKeepTypes` adds to the types
    what each call knows of users and tokens (`Known`).
  * `SignInsStay` and `SessionsAreSingle` share one invariant: tokens are numbered
    (`Numbered`), so a new one is new; a refresh under way holds a live token
    (`HoldsLive`); a sign-in that was not logged out has a live one (`SomeLive`) and
    no other (`OneLive`). `HoldsLive` and `OneLive` except sign-ins of which two
    writes `crossed`. Rotation revokes and creates in one transaction, which is what
    keeps `SomeLive`.
  * `AccountKeepsTypes`, `AccountKeepsTokens` and `AccountDeductionsAddUp` bring the
    results on the parts to the composition.

Assumptions on constants are named `…Assumption` in the module that declares them
(types, finiteness, that `None` is no request); TLC evaluates them in every run.
`WalletBounds`, `EarlierTables` and `RowAssumption` have what only the compositions
need: the tables a behaviour may start with are typed, finite, and have the
adjustments the endpoints accept; `None` is neither a row nor a cursor. `Lookback`
and `MaxMonths` are any numbers in the relation named above.

Every safety property of the passing runs is proved. Only model-checked are the
liveness properties (`RunSettles`, `Settles`, `Ends`), which the prover cannot
reach, and what the violating runs refute.

## 5. Plan

Done, in order of weight: the imports (ImportJobs, CcTxnImport), the money (Ledgers,
Settings), the wallet, the account, each with its runs; the proofs of section 4.

No safety property of a passing run is without a theorem. What would say more:

1. A third abstract specification beside `JobLease` and `Savings`: a session store
   for `SignIns`, one token per sign-in and replaced in one step, with its refinement
   proved from the session invariant.
2. The monthly plans' `goalPayments`, which are lowered with no look at what was
   moved out already (a hazard without a property), as an action of `Ledgers`.

## 6. Not modelled

* What a mail says: parsers, prompts, regular expressions. Their verdict is an input.
* Messages a poll never lists because the backlog exceeds
  `IMPORT_GMAIL_MAX_RESULTS`: `Listings` has the limit, `Accounted` speaks of
  messages that were polled.
* More than one tenant in one behaviour. What tenants share is the watermark of a card
  key; the theorems of DetailedSync allow sources that share a key, and leave their
  bills out of `PassedIsAccounted`.
* CRUD of single rows without relation to others (loans, bills, goals, editing a
  card: cycle days stay as they are). That cards come into being during runs is
  in the wallet.
* The dashboard of the monthly plans: a read-only sum. Response formats, logging,
  alerts, validation decorators, scripts other than
  `backfill-detailed-statements.ts`, generated SQL.
* Columns nothing decides on: amounts and due dates of statements, the totals of a
  detailed run, names and order of pads, source and metrics of baselines, the other
  columns of the settings row, which behave like deductions.
* Google itself: a code is exchanged for a profile, or the callback fails. The
  look-ups of `googleCallback` that only log are left out.
* More than one server process: the deployment is one container. The script is
  the exception, a process of its own in `DetailedSync`.
* Rupees as decimals: amounts are natural numbers, and `roundMoney`, which never
  lifts a share above its whole, is left out.
