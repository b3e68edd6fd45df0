---------------------------- MODULE CcTxnImport ----------------------------
(***************************************************************************)
(* The credit-card transaction import (CcTxnImportService with its         *)
(* ImportFailureService and GmailPollService): hourly runs drain one Gmail *)
(* label after the other into Transaction rows, keep a watermark per label *)
(* and a failure row for each message they could not store; an operator    *)
(* retries or ignores failures and rebases watermarks, without the lock.   *)
(*                                                                         *)
(* Every await on the database or on Gmail is a point where another        *)
(* process may step in, and where the call itself may fail.                *)
(***************************************************************************)
EXTENDS Naturals, FiniteSets

CONSTANTS
    Folder,      \* the watched labels, identified with their 'LABEL:' key
    Legacy,      \* the watermark keys of the importer before this one
    LegacyOf,    \* the legacy key of each label
    Msg,         \* Gmail messages, with which their dedupe keys are one to one
    ReceivedAt,  \* internalDate of each message
    Homes,       \* the labels a message may ever get
    Worker,      \* import runs
    Retrier,     \* calls of the retry endpoint
    None,        \* no label, no message
    PollLimit,   \* IMPORT_GMAIL_MAX_RESULTS
    Exclusive,   \* do imports take turns? (ImportJobs says when they do)
    MaxRebase    \* bound on the number of rebases

ASSUME ImportAssumption ==
    /\ Folder \cap Legacy = {}
    /\ LegacyOf \in [Folder -> Legacy]
    /\ ReceivedAt \in [Msg -> Nat \ {0}]
    /\ Homes \in [Msg -> SUBSET Folder]
    /\ IsFiniteSet(Msg)
    /\ None \notin Msg \cup Folder
    /\ Worker \cap Retrier = {}
    /\ PollLimit \in Nat \ {0}
    /\ Exclusive \in BOOLEAN
    /\ MaxRebase \in Nat

VARIABLES
    labelled,  \* the messages Gmail has under each label
    txns,      \* the messages with a Transaction row (dedupeKey is unique)
    failure,   \* ImportMessageFailure.status for each label and message
    mark,      \* ImportJobState.watermarkCutoffMs for each key, 0 for none
    rebases,   \* number of rebases so far
    drained,   \* auxiliary: the messages each label's watermark was moved over
    at         \* where each run or retry call stands, and its local variables

vars == <<labelled, txns, failure, mark, rebases, drained, at>>

Proc == Worker \cup Retrier
Key == Folder \cup Legacy
Status == {"NONE", "OPEN", "RETRYING", "RESOLVED", "IGNORED"}
Step == {"idle", "polling", "next", "claim", "fetch", "parse", "write",
         "confirm", "find", "save", "resolve", "reopen"}

Local == [pc : Step,
          folder : Folder \cup {None},      \* the label it works on
          cutoff : Nat,                     \* the watermark it read
          polled : SUBSET Msg,              \* the messages the run polled
          todo : SUBSET (Folder \X Msg),    \* the messages it has not come to
          msg : Msg \cup {None},            \* the message in hand
          keys : SUBSET Msg,                \* existingKeys
          dry : BOOLEAN,                    \* dryRun
          found : BOOLEAN,                  \* did upsertFailure find a row?
          caught : BOOLEAN]                 \* is processMessage in its catch block?

Idle == [pc |-> "idle", folder |-> None, cutoff |-> 0, polled |-> {}, todo |-> {},
         msg |-> None, keys |-> {}, dry |-> FALSE, found |-> FALSE, caught |-> FALSE]

TypeOK ==
    /\ labelled \in [Folder -> SUBSET Msg]
    /\ txns \in SUBSET Msg
    /\ failure \in [Folder -> [Msg -> Status]]
    /\ mark \in [Key -> Nat]
    /\ rebases \in 0 .. MaxRebase
    /\ drained \in [Folder -> SUBSET Msg]
    /\ at \in [Proc -> Local]

Init ==
    /\ labelled = [f \in Folder |-> {}]
    /\ txns = {}
    /\ failure = [f \in Folder |-> [m \in Msg |-> "NONE"]]
    /\ \E old \in [Legacy -> {0} \cup {ReceivedAt[m] : m \in Msg}] :
         mark = [k \in Key |-> IF k \in Legacy THEN old[k] ELSE 0]
    /\ rebases = 0
    /\ drained = [f \in Folder |-> {}]
    /\ at = [p \in Proc |-> Idle]

At(p, step) == at[p].pc = step

SetFailure(f, m, status) == failure' = [failure EXCEPT ![f][m] = status]

-----------------------------------------------------------------------------
(* Gmail *)

\* A message gets a label: on arrival, or much later, by hand or by a filter.
Label(f, m) ==
    /\ f \in Homes[m]
    /\ m \notin labelled[f]
    /\ labelled' = [labelled EXCEPT ![f] = @ \cup {m}]
    /\ UNCHANGED <<txns, failure, mark, rebases, drained, at>>

\* What Gmail may list of S: at most PollLimit messages, the newest ones.
Listings(S) ==
    {T \in SUBSET S :
        /\ Cardinality(T) = IF Cardinality(S) < PollLimit THEN Cardinality(S) ELSE PollLimit
        /\ \A m \in T, n \in S \ T : ReceivedAt[n] <= ReceivedAt[m]}

-----------------------------------------------------------------------------
(* An import run works through one label: runImportForBank. *)

\* resolveWindow: the label's watermark, or else the one of its legacy key.
Window(f) == IF mark[f] # 0 THEN mark[f] ELSE mark[LegacyOf[f]]

\* Fault: the run does not wait for its turn.
BeginAnyway(w, f) ==
    /\ At(w, "idle")
    /\ \E dryRun \in BOOLEAN :
         at' = [at EXCEPT ![w] = [Idle EXCEPT
                  !.pc = "polling", !.folder = f, !.cutoff = Window(f), !.dry = dryRun]]
    /\ UNCHANGED <<labelled, txns, failure, mark, rebases, drained>>

Begin(w, f) ==
    /\ At(w, "idle")
    /\ Exclusive => \A v \in Worker : At(v, "idle")
    /\ \E dryRun \in BOOLEAN :
         at' = [at EXCEPT ![w] = [Idle EXCEPT
                  !.pc = "polling", !.folder = f, !.cutoff = Window(f), !.dry = dryRun]]
    /\ UNCHANGED <<labelled, txns, failure, mark, rebases, drained>>

\* pollByLabel, the cutoff filter, and getExistingDedupKeys.
Poll(w) ==
    /\ At(w, "polling")
    /\ \E list \in Listings(labelled[at[w].folder]) :
         LET new == {m \in list : ReceivedAt[m] > at[w].cutoff}
         IN  at' = [at EXCEPT ![w] = [@ EXCEPT
                      !.pc = "next", !.polled = new,
                      !.todo = {at[w].folder} \X new, !.keys = txns]]
    /\ UNCHANGED <<labelled, txns, failure, mark, rebases, drained>>

\* Gmail or the database fails, at the poll or at the watermark: the run goes
\* on with its next label.
DrainFails(w) ==
    /\ At(w, "polling") \/ (At(w, "next") /\ at[w].todo = {})
    /\ at' = [at EXCEPT ![w] = Idle]
    /\ UNCHANGED <<labelled, txns, failure, mark, rebases, drained>>

\* The last message is done: the watermark moves to the newest one polled.
Finish(w) ==
    /\ w \in Worker
    /\ At(w, "next")
    /\ at[w].todo = {}
    /\ IF at[w].dry \/ at[w].polled = {}
       THEN UNCHANGED <<mark, drained>>
       ELSE LET f == at[w].folder
            IN  /\ \E newest \in at[w].polled :
                     /\ \A m \in at[w].polled : ReceivedAt[m] <= ReceivedAt[newest]
                     /\ mark' = [mark EXCEPT ![f] = ReceivedAt[newest]]
                /\ drained' = [drained EXCEPT ![f] = @ \cup at[w].polled]
    /\ at' = [at EXCEPT ![w] = Idle]
    /\ UNCHANGED <<labelled, txns, failure, rebases>>

-----------------------------------------------------------------------------
(* A call of the retry endpoint: retryFailures. *)

Rows == {r \in Folder \X Msg : failure[r[1]][r[2]] # "NONE"}

\* getFailuresForRetry: the rows named by id, whatever their status; without
\* ids, up to a limit of the open ones.  Then getExistingDedupKeys.
Select(p) ==
    /\ At(p, "idle")
    /\ \E rows \in SUBSET Rows, dryRun \in BOOLEAN :
         /\ rows # {}
         /\ at' = [at EXCEPT ![p] = [Idle EXCEPT
                     !.pc = "next", !.todo = rows, !.keys = txns, !.dry = dryRun]]
    /\ UNCHANGED <<labelled, txns, failure, mark, rebases, drained>>

\* markRetrying, which a dry run leaves out.
Claim(p) ==
    /\ At(p, "claim")
    /\ at' = [at EXCEPT ![p].pc = "fetch"]
    /\ IF at[p].dry
       THEN UNCHANGED failure
       ELSE SetFailure(at[p].folder, at[p].msg, "RETRYING")
    /\ UNCHANGED <<labelled, txns, mark, rebases, drained>>

Fetch(p) ==
    /\ At(p, "fetch")
    /\ \E present \in BOOLEAN :
         at' = [at EXCEPT ![p].pc = IF present THEN "parse"
                                    ELSE IF at[p].dry THEN "next" ELSE "reopen"]
    /\ UNCHANGED <<labelled, txns, failure, mark, rebases, drained>>

\* markResolved
Resolve(p) ==
    /\ At(p, "resolve")
    /\ SetFailure(at[p].folder, at[p].msg, "RESOLVED")
    /\ at' = [at EXCEPT ![p].pc = "next"]
    /\ UNCHANGED <<labelled, txns, mark, rebases, drained>>

\* markOpenWithError
Reopen(p) ==
    /\ At(p, "reopen")
    /\ SetFailure(at[p].folder, at[p].msg, "OPEN")
    /\ at' = [at EXCEPT ![p].pc = "next"]
    /\ UNCHANGED <<labelled, txns, mark, rebases, drained>>

\* Gmail or the database fails: nothing catches it, the call ends.
RetryThrows(p) ==
    /\ at[p].pc \in {"claim", "fetch", "resolve", "reopen"}
    /\ at' = [at EXCEPT ![p] = Idle]
    /\ UNCHANGED <<labelled, txns, failure, mark, rebases, drained>>

RetryDone(p) ==
    /\ p \in Retrier
    /\ At(p, "next")
    /\ at[p].todo = {}
    /\ at' = [at EXCEPT ![p] = Idle]
    /\ UNCHANGED <<labelled, txns, failure, mark, rebases, drained>>

-----------------------------------------------------------------------------
(* One message, for a run and for a retry alike: processMessage. *)

\* The loop takes the next message; a run takes them newest first.
Take(p) ==
    /\ At(p, "next")
    /\ \E r \in at[p].todo :
         /\ p \in Worker => \A s \in at[p].todo : ReceivedAt[s[2]] <= ReceivedAt[r[2]]
         /\ at' = [at EXCEPT ![p] = [@ EXCEPT
                     !.pc = IF p \in Worker THEN "parse" ELSE "claim",
                     !.todo = at[p].todo \ {r}, !.folder = r[1], !.msg = r[2],
                     !.found = FALSE, !.caught = FALSE]]
    /\ UNCHANGED <<labelled, txns, failure, mark, rebases, drained>>

\* Where the outcomes 'inserted' and 'duplicate' lead to.
AfterStored(p) == IF p \in Worker \/ at[p].dry THEN "next" ELSE "resolve"

\* Fault: the caller takes every outcome for a stored message.
AfterFailedResolves(p) == IF p \in Worker \/ at[p].dry THEN "next" ELSE "resolve"

\* Where the other outcomes lead to.
AfterFailed(p) == IF p \in Worker \/ at[p].dry THEN "next" ELSE "reopen"

\* A transaction on a card of the wallet: a key already in existingKeys makes
\* it a duplicate; any other is added, and written unless the run is dry.
Parse(p) ==
    /\ At(p, "parse")
    /\ at' = [at EXCEPT ![p] = [@ EXCEPT
                !.pc = IF at[p].msg \in at[p].keys \/ at[p].dry THEN AfterStored(p) ELSE "write",
                !.keys = at[p].keys \cup {at[p].msg}]]
    /\ UNCHANGED <<labelled, txns, failure, mark, rebases, drained>>

\* No transaction in it, no such card, or an exception while finding out.
ParseFails(p) ==
    /\ At(p, "parse")
    /\ \E exception \in BOOLEAN :
         at' = [at EXCEPT ![p] = [@ EXCEPT !.pc = "find", !.caught = exception]]
    /\ UNCHANGED <<labelled, txns, failure, mark, rebases, drained>>

\* transaction.create: a second row with the key is refused (P2002), which
\* counts as a duplicate.
Write(p) ==
    /\ At(p, "write")
    /\ txns' = txns \cup {at[p].msg}
    /\ at' = [at EXCEPT ![p].pc = IF p \in Worker THEN "next" ELSE "confirm"]
    /\ UNCHANGED <<labelled, failure, mark, rebases, drained>>

\* The card row is missing or the database refuses the write, or the look-up
\* of the card throws.
WriteFails(p) ==
    /\ At(p, "write")
    /\ \E exception \in BOOLEAN :
         at' = [at EXCEPT ![p] = [@ EXCEPT !.pc = "find", !.caught = exception]]
    /\ UNCHANGED <<labelled, txns, failure, mark, rebases, drained>>

\* For a retry processMessage itself marks the row, before its caller does ...
Confirm(p) ==
    /\ At(p, "confirm")
    /\ SetFailure(at[p].folder, at[p].msg, "RESOLVED")
    /\ at' = [at EXCEPT ![p].pc = "resolve"]
    /\ UNCHANGED <<labelled, txns, mark, rebases, drained>>

\* ... and takes an exception of that write for one of the parser.
ConfirmThrows(p) ==
    /\ At(p, "confirm")
    /\ at' = [at EXCEPT ![p] = [@ EXCEPT !.pc = "find", !.caught = TRUE]]
    /\ UNCHANGED <<labelled, txns, failure, mark, rebases, drained>>

\* upsertFailure, first the look-up ...
Find(p) ==
    /\ At(p, "find")
    /\ at' = [at EXCEPT ![p] = [@ EXCEPT
                !.pc = "save", !.found = failure[at[p].folder][at[p].msg] # "NONE"]]
    /\ UNCHANGED <<labelled, txns, failure, mark, rebases, drained>>

\* ... then a create, or an update that sets the row OPEN whatever it was.
Save(p) ==
    /\ At(p, "save")
    /\ ~at[p].found => failure[at[p].folder][at[p].msg] = "NONE"
    /\ SetFailure(at[p].folder, at[p].msg, "OPEN")
    /\ at' = [at EXCEPT ![p].pc = AfterFailed(p)]
    /\ UNCHANGED <<labelled, txns, mark, rebases, drained>>

\* Fault: the catch block swallows its own exception as well.
SaveThrowsSwallowed(p) ==
    /\ At(p, "save")
    /\ at' = IF at[p].caught
             THEN [at EXCEPT ![p].pc = AfterFailed(p)]
             ELSE [at EXCEPT ![p] = [@ EXCEPT !.pc = "find", !.caught = TRUE]]
    /\ UNCHANGED <<labelled, txns, failure, mark, rebases, drained>>

\* Fault: the catch block tries until it succeeds.
SaveThrowsForever(p) ==
    /\ At(p, "save")
    /\ at' = [at EXCEPT ![p] = [@ EXCEPT !.pc = "find", !.caught = TRUE]]
    /\ UNCHANGED <<labelled, txns, failure, mark, rebases, drained>>

\* The unique key or the database refuses: processMessage catches it once and
\* records the failure anew; in the catch block itself nothing catches it.
SaveThrows(p) ==
    /\ At(p, "save")
    /\ at' = IF at[p].caught
             THEN [at EXCEPT ![p] = Idle]
             ELSE [at EXCEPT ![p] = [@ EXCEPT !.pc = "find", !.caught = TRUE]]
    /\ UNCHANGED <<labelled, txns, failure, mark, rebases, drained>>

-----------------------------------------------------------------------------
(* The operator *)

\* Fault: a status the enum does not have.
IgnoreMistyped(f, m) ==
    /\ failure[f][m] # "NONE"
    /\ SetFailure(f, m, "ignored")
    /\ UNCHANGED <<labelled, txns, mark, rebases, drained, at>>

\* markIgnored, for one of the rows ignoreFailures selected.
Ignore(f, m) ==
    /\ failure[f][m] # "NONE"
    /\ SetFailure(f, m, "IGNORED")
    /\ UNCHANGED <<labelled, txns, mark, rebases, drained, at>>

\* rebaseWatermark sets the watermark of a key, unconditionally.
Rebase(k, to) ==
    /\ rebases < MaxRebase
    /\ rebases' = rebases + 1
    /\ mark' = [mark EXCEPT ![k] = to]
    /\ UNCHANGED <<labelled, txns, failure, drained, at>>

\* The server stops; runs and retries in flight are gone.
Crash ==
    /\ at' = [p \in Proc |-> Idle]
    /\ UNCHANGED <<labelled, txns, failure, mark, rebases, drained>>

Process(p) ==
    \/ Take(p) \/ Parse(p) \/ ParseFails(p) \/ Write(p) \/ WriteFails(p)
    \/ Confirm(p) \/ ConfirmThrows(p) \/ Find(p) \/ Save(p) \/ SaveThrows(p)

Drain(w) == Poll(w) \/ DrainFails(w) \/ Finish(w)

Retry(p) == Claim(p) \/ Fetch(p) \/ Resolve(p) \/ Reopen(p) \/ RetryThrows(p) \/ RetryDone(p)

Next ==
    \/ \E f \in Folder, m \in Msg : Label(f, m) \/ Ignore(f, m)
    \/ \E w \in Worker, f \in Folder : Begin(w, f)
    \/ \E w \in Worker : Drain(w)
    \/ \E p \in Retrier : Select(p)
    \/ \E p \in Retrier : Retry(p)
    \/ \E p \in Proc : Process(p)
    \/ \E k \in Key, to \in {ReceivedAt[m] : m \in Msg} : Rebase(k, to)
    \/ Crash

Spec == Init /\ [][Next]_vars

\* Gmail and Gemini calls have timeouts and bounded retries, database calls
\* end or throw: what a run or a retry awaits always settles.
FairSpec ==
    /\ Spec
    /\ \A w \in Worker : WF_vars(Drain(w) \/ Process(w))
    /\ \A p \in Retrier : WF_vars(Retry(p) \/ Process(p))

-----------------------------------------------------------------------------
(* Properties *)

\* No message is lost: a message the watermark of a label has been moved over
\* by a run that polled it is a transaction or has a failure row, whatever
\* failed, crashed, or worked on the same rows at the same time.
Accounted ==
    \A f \in Folder : \A m \in drained[f] : m \in txns \/ failure[f][m] # "NONE"

\* docs/domain/cc-txn-import-failure-replay.md:20, "Successful retry marks row
\* RESOLVED": a resolved failure is a message that is stored, whatever the
\* runs and the other retries do.  (So it is as long as no message has two
\* labels: see ResolvedNeedsOneHome in the proofs.)
ResolvedIsStored ==
    \A f \in Folder, m \in Msg : failure[f][m] = "RESOLVED" => m \in txns

\* docs/domain/cc-txn-import-rollout.md:48, "Watermark progression is monotonic".
MarkMonotonic == [][\A k \in Key : mark'[k] >= mark[k]]_vars

\* Every run gets through its label and every retry through its rows.
Settles == \A p \in Proc : ~At(p, "idle") ~> At(p, "idle")
=============================================================================
