---------------------------- MODULE DetailedSync ----------------------------
(***************************************************************************)
(* The detailed statements: DetailedStatementsSyncService reads every new  *)
(* PDF of every source, one after the other, stores the transactions that  *)
(* Gemini finds in it, tied to the card's statement if there is one, and   *)
(* then moves the watermark of the card's key.                             *)
(* scripts/backfill-detailed-statements does the same work under the same  *)
(* job key, but without the import lock, so a run of it may overlap any    *)
(* other.                                                                  *)
(*                                                                         *)
(* Rows are keyed by a hash of what Gemini answered: two readings of one   *)
(* PDF that differ in a letter leave two sets of rows.                     *)
(***************************************************************************)
EXTENDS WalletData

CONSTANTS
    Syncer,     \* runs of the service
    Script,     \* runs of the script
    Reach,      \* a year: how far back the first run of a source looks
    Overlap     \* two days: how far before the watermark the next one lists

VARIABLES
    mark,        \* ImportJobState.watermarkCutoffMs of each card key, 0 for none
    details,     \* how much of each reading of each bill is stored
    linked,      \* the readings whose rows are tied to a statement
    sync,        \* where each run stands, and its local variables
    givenUp,     \* auxiliary: bills a run has turned away from, and why
    overlapped,  \* auxiliary: have two runs been under way at once?
    orphaned     \* auxiliary: bills stored by a run that died before it moved
                 \* the watermark

syncVars == <<today, cards, rows, mark, details, linked, sync, givenUp, overlapped, orphaned>>

Proc == Syncer \cup Script
Reading == {1, 2}

\* What a run does with a bill it does not store: it counts the bill in failed;
\* or it says nothing of it, as of one that has nothing to download, or one too
\* old for the first listing of its card.
Why == {"failed", "empty", "old"}
Stage == {"idle", "source", "list", "mail", "link", "store"}

Run == [pc : Stage,
        dry : BOOLEAN, bypass : BOOLEAN,   \* dryRun, bypassCardLookup
        known : SUBSET Card,               \* cardByKey, read at the start
        todo : SUBSET Source,              \* the sources still to come
        source : Source \cup {None},
        cutoff : Nat,                      \* cutoffMs
        seen : Nat,                        \* maxSeenInternalMs
        mails : SUBSET Bill,               \* messages listed and not yet looked at
        bill : Bill \cup {None},
        tie : BOOLEAN]                     \* is there a statement to tie the rows to?

NoRun == [pc |-> "idle", dry |-> FALSE, bypass |-> FALSE, known |-> {}, todo |-> {},
          source |-> None, cutoff |-> 0, seen |-> 0, mails |-> {}, bill |-> None,
          tie |-> FALSE]

SyncTypes ==
    /\ today \in Day
    /\ cards \in SUBSET Card
    /\ mark \in [Card -> Nat]
    /\ details \in [Bill -> [Reading -> {"none", "part", "all"}]]
    /\ linked \in SUBSET (Bill \X Reading)
    /\ sync \in [Proc -> Run]
    /\ givenUp \in SUBSET (Bill \X Why)
    /\ overlapped \in BOOLEAN
    /\ orphaned \in SUBSET Bill

SyncInit ==
    /\ today \in Day
    /\ cards \in SUBSET Card
    /\ mark = [c \in Card |-> 0]
    /\ details = [b \in Bill |-> [r \in Reading |-> "none"]]
    /\ linked = {}
    /\ sync = [p \in Proc |-> NoRun]
    /\ givenUp = {}
    /\ overlapped = FALSE
    /\ orphaned = {}

SyncAt(p, step) == sync[p].pc = step
HasRows(b) == \E r \in Reading : details[b][r] # "none"

-----------------------------------------------------------------------------
\* A run that has no source left is over.
Go(p, run) == sync' = [sync EXCEPT ![p] = IF run.pc = "source" /\ run.todo = {} THEN NoRun ELSE run]

\* A run reads the card table once, before its first source.
Start(p, selected, dryRun, bypass) ==
    /\ SyncAt(p, "idle")
    /\ Go(p, [NoRun EXCEPT !.pc = "source", !.todo = selected, !.known = cards,
                            !.dry = dryRun, !.bypass = bypass])
    /\ overlapped' = (overlapped \/ \E q \in Proc : ~SyncAt(q, "idle"))
    /\ UNCHANGED <<today, cards, rows, mark, details, linked, givenUp, orphaned>>

\* runSync
BeginSync(p) ==
    /\ p \in Syncer
    /\ \E asked \in Requests : Start(p, asked.sources, asked.dryRun, asked.bypass)

\* The script's main takes every source and has no dry run.
BeginScript(p) ==
    /\ p \in Script
    /\ \E asked \in Requests : Start(p, Source, FALSE, asked.bypass)

\* The run ends, or the process is gone, with a source in hand: its watermark
\* stays where it is.
Die(p) ==
    /\ sync' = [sync EXCEPT ![p] = NoRun]
    /\ orphaned' = orphaned \cup
         {b \in Bill : HasRows(b)' /\ BillOf[b] = sync[p].source /\ sync[p].cutoff < ReceivedOn[b]}
    /\ UNCHANGED <<today, rows, mark, givenUp, overlapped>>

\* The next source, in the order of the settings: its card is the one with
\* exactly its key. A card that is missing is created if the run is told to,
\* which fails the whole run if it has come into being since; or else the
\* source is passed over. With the card at hand the watermark of its key is read.
NextSource(p) ==
    LET run == sync[p]
        s == CHOOSE first \in run.todo : TRUE
        c == CardOf[s]
        Create == c \notin run.known /\ run.bypass
    IN  /\ SyncAt(p, "source")
        /\ \/ /\ c \in run.known
              /\ Go(p, [run EXCEPT !.pc = "list", !.source = s, !.todo = @ \ {s},
                                  !.cutoff = mark[c], !.seen = mark[c]])
              /\ UNCHANGED <<cards, details, linked, orphaned>>
           \/ /\ c \notin run.known /\ ~Create
              /\ Go(p, [run EXCEPT !.todo = @ \ {s}])
              /\ UNCHANGED <<cards, details, linked, orphaned>>
           \/ /\ Create /\ c \notin cards
              /\ cards' = cards \cup {c}
              /\ Go(p, [run EXCEPT !.known = @ \cup {c}])
              /\ UNCHANGED <<details, linked, orphaned>>
           \/ /\ Create /\ c \in cards
              /\ Go(p, NoRun)
              /\ UNCHANGED <<cards, details, linked, orphaned>>
        /\ UNCHANGED <<today, rows, mark, givenUp, overlapped>>

\* The mails with a PDF that Gmail lists under a source's label, whatever its
\* flow: those after lastStartDate, or of the last year if there is no watermark.
WithPdf(s) == Arrived(s, today) \cap Attached
Listed(s, cutoff) ==
    {b \in WithPdf(s) : ReceivedOn[b] >= IF cutoff = 0 THEN today - Reach ELSE cutoff - Overlap}

\* A dry run turns away from nothing: it leaves the bill to the runs to come.
GiveUp(p, bills, why) ==
    givenUp' = IF sync[p].dry THEN givenUp ELSE givenUp \cup (bills \X {why})

\* listAllMessageIds
List(p) ==
    LET s == sync[p].source
        mails == Listed(s, sync[p].cutoff)
    IN  /\ SyncAt(p, "list")
        /\ sync' = [sync EXCEPT ![p] = [@ EXCEPT !.pc = "mail", !.mails = mails]]
        /\ GiveUp(p, {b \in WithPdf(s) \ mails : sync[p].cutoff < ReceivedOn[b]}, "old")
        /\ UNCHANGED <<today, cards, rows, mark, details, linked, overlapped, orphaned>>

Later(t, u) == IF t > u THEN t ELSE u

\* Fault: a message at the watermark is read once more.
TakeAgain(p) ==
    /\ SyncAt(p, "mail")
    /\ \E b \in sync[p].mails :
         LET rest == [sync[p] EXCEPT !.mails = @ \ {b}]
             past == [rest EXCEPT !.seen = Later(ReceivedOn[b], @)]
         IN  \/ ReceivedOn[b] < rest.cutoff /\ Go(p, rest) /\ UNCHANGED givenUp
             \/ /\ ReceivedOn[b] >= rest.cutoff /\ Opens(rest.source, b)
                /\ Go(p, [past EXCEPT !.pc = "link", !.bill = b])
                /\ UNCHANGED givenUp
    /\ UNCHANGED <<today, cards, rows, mark, details, linked, overlapped, orphaned>>

\* The next message. One that cannot be fetched is counted as failed and leaves
\* maxSeen alone; one up to the watermark is done; any other moves maxSeen, and
\* only then is its PDF looked at. The download, the decryption, Gemini and the
\* look-up of the statement may fail, which is counted; there may be nothing to
\* download, which nothing counts. Mails do not change, so all this is one step.
TakeMail(p) ==
    /\ SyncAt(p, "mail")
    /\ \E b \in sync[p].mails :
         LET rest == [sync[p] EXCEPT !.mails = @ \ {b}]
             past == [rest EXCEPT !.seen = Later(ReceivedOn[b], @)]
         IN  \/ Go(p, rest) /\ GiveUp(p, {b}, "failed")
             \/ ReceivedOn[b] <= rest.cutoff /\ Go(p, rest) /\ UNCHANGED givenUp
             \/ /\ ReceivedOn[b] > rest.cutoff
                /\ Go(p, past)
                /\ \E why \in {"failed", "empty"} : GiveUp(p, {b}, why)
             \/ /\ ReceivedOn[b] > rest.cutoff /\ Opens(rest.source, b)
                /\ Go(p, [past EXCEPT !.pc = "link", !.bill = b])
                /\ UNCHANGED givenUp
    /\ UNCHANGED <<today, cards, rows, mark, details, linked, overlapped, orphaned>>

\* The statement of the month that Gemini names: the bill's own, or none.
FindStatement(p) ==
    LET c == CardOf[sync[p].source]
        m == StatementMonthOf(DueOn[sync[p].bill])
    IN  /\ SyncAt(p, "link")
        /\ \E named \in BOOLEAN :
             sync' = [sync EXCEPT ![p].pc = "store", ![p].tie = named /\ rows[c][m] # None]
        /\ UNCHANGED <<today, cards, rows, mark, details, linked, givenUp, overlapped, orphaned>>

\* Fault: the update writes the statement it found, even if it found none.
UpsertLink(p, b, r) ==
    linked' = IF sync[p].tie THEN linked \cup {<<b, r>>} ELSE linked \ {<<b, r>>}

\* An update without a statement leaves the one the row has.
Link(p, b, r) ==
    linked' = IF sync[p].tie THEN linked \cup {<<b, r>>} ELSE linked

\* The first of a reading's rows, and maybe not the last.
StorePart(b, r) == details' = [details EXCEPT ![b][r] = IF @ = "none" THEN "part" ELSE @]

\* One upsert per transaction in the answer; an error on the way leaves the
\* ones before it.
Store(p) ==
    LET b == sync[p].bill
    IN  /\ SyncAt(p, "store")
        /\ \/ sync[p].dry /\ UNCHANGED <<details, linked, givenUp>>
           \/ /\ ~sync[p].dry
              /\ \E r \in Reading :
                   /\ Link(p, b, r)
                   /\ \/ details' = [details EXCEPT ![b][r] = "all"] /\ UNCHANGED givenUp
                      \/ StorePart(b, r) /\ GiveUp(p, {b}, "failed")
        /\ Go(p, [sync[p] EXCEPT !.pc = "mail", !.bill = None, !.tie = FALSE])
        /\ UNCHANGED <<today, cards, rows, mark, overlapped, orphaned>>

\* The source is done with.
Leave(p) ==
    Go(p, [sync[p] EXCEPT !.pc = "source", !.source = None, !.cutoff = 0, !.seen = 0])

\* Fault: a dry run moves the watermark too.
MoveAlways(p) ==
    /\ SyncAt(p, "mail") /\ sync[p].mails = {}
    /\ mark' = IF sync[p].seen > sync[p].cutoff
                 THEN [mark EXCEPT ![CardOf[sync[p].source]] = sync[p].seen] ELSE mark
    /\ Leave(p)
    /\ UNCHANGED <<today, cards, rows, details, linked, givenUp, overlapped, orphaned>>

\* The watermark moves over everything seen, and never in a dry run.
MoveMark(p) ==
    /\ SyncAt(p, "mail") /\ sync[p].mails = {}
    /\ mark' = IF ~sync[p].dry /\ sync[p].seen > sync[p].cutoff
                 THEN [mark EXCEPT ![CardOf[sync[p].source]] = sync[p].seen] ELSE mark
    /\ Leave(p)
    /\ UNCHANGED <<today, cards, rows, details, linked, givenUp, overlapped, orphaned>>

\* The process is killed, maybe between two upserts, or an error outside the
\* loops throws.
Crash(p) ==
    /\ ~SyncAt(p, "idle")
    /\ \/ UNCHANGED <<details, linked>>
       \/ /\ SyncAt(p, "store") /\ ~sync[p].dry
          /\ \E r \in Reading : Link(p, sync[p].bill, r) /\ StorePart(sync[p].bill, r)
    /\ Die(p)
    /\ UNCHANGED cards

\* The script's copy of the loops.
ScriptSource(p) == p \in Script /\ NextSource(p)
ScriptMail(p) == p \in Script /\ (TakeMail(p) \/ FindStatement(p))
ScriptList(p) == p \in Script /\ List(p)
ScriptStore(p) == p \in Script /\ Store(p)
ScriptMark(p) == p \in Script /\ MoveMark(p)

SyncStep(p) ==
    \/ /\ p \in Syncer
       /\ \/ NextSource(p) \/ List(p) \/ TakeMail(p) \/ FindStatement(p)
          \/ Store(p) \/ MoveMark(p)
    \/ ScriptSource(p) \/ ScriptList(p) \/ ScriptMail(p) \/ ScriptStore(p) \/ ScriptMark(p)
    \/ Crash(p)

\* Time goes on, and the other components write cards and statements.
Others ==
    /\ today' \in Day /\ today <= today'
    /\ cards \subseteq cards' /\ cards' \ cards \subseteq Card
    /\ UNCHANGED <<mark, details, linked, sync, givenUp, overlapped, orphaned>>

SyncNext ==
    \/ Others
    \/ \E p \in Proc : BeginSync(p) \/ BeginScript(p) \/ SyncStep(p)

SyncSpec == SyncInit /\ [][SyncNext]_syncVars

-----------------------------------------------------------------------------
(* Properties *)

\* settings.service.ts refuses a second source with a card key. The watermark,
\* though, is looked up by the key alone, without a tenant.
OwnKey(s) == \A other \in Source : CardOf[other] = CardOf[s] => other = s

\* A bill with a PDF that is behind the watermark of its card is wholly stored
\* under one reading, or else some run that was not dry turned away from it:
\* it counted the bill as failed, or found nothing to download, or never listed
\* the bill, as it was more than a year old when its card was first synced. The
\* last two are silent. This holds whatever runs overlap or die, for sources
\* that share their card's key with no other.
PassedIsAccounted ==
    \A b \in Attached :
        OwnKey(BillOf[b]) /\ ReceivedOn[b] <= mark[CardOf[BillOf[b]]] =>
            \/ \E r \in Reading : details[b][r] = "all"
            \/ \E why \in Why : <<b, why>> \in givenUp

\* The rows of two readings of one PDF stand side by side only if two runs
\* overlapped, or the run that stored the first died before its watermark.
MixedNeedsReplay ==
    \A b \in Bill :
        (\A r \in Reading : details[b][r] # "none") => overlapped \/ b \in orphaned

\* Rows once tied to a statement stay tied, even if a run that looked for the
\* statement before it was there writes them again.
LinksKept == [][linked \subseteq linked']_syncVars
=============================================================================
