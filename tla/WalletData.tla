----------------------------- MODULE WalletData -----------------------------
(***************************************************************************)
(* What the parts of the wallet share. The fixed data: the tenant's cards, *)
(* the Gmail labels its settings name as statement sources, the bills that *)
(* arrive under them and what their PDFs are locked with, and the ids of   *)
(* transactions. And the state that more than one part works on.           *)
(***************************************************************************)
EXTENDS Calendar, FiniteSets

CONSTANTS
    None,        \* no card, no password, no row, no timestamp
    Card,        \* the cards there may be
    CycleDay,    \* card.statementCycleDay, 0 for null
    Held,        \* the cards the tenant has to begin with
    Source,      \* PftSetting.statementSourceConfig
    CardOf,      \* the card with the source's key
    Alike,       \* another card with the key's last four digits, or None
    Flow,        \* "direct" (the mail's text) or "cloudPdf"
    Explicit,    \* a source's pdfPassword, or None
    Fallback,    \* statementDefaultPdfPassword, or None
    Guess,       \* passwords derived from the source's label
    Bill,        \* the statement mails
    BillOf,      \* the source under whose label a bill arrives
    ReceivedOn,  \* the day it arrives
    DueOn,       \* the due date it states
    Attached,    \* the bills that come with a PDF, whatever the flow of their source
    LockedWith,  \* the password of its PDF, or None
    Requests,    \* what a detailed sync may be asked for
    MaxAttempts, \* statementGeminiMaxAttempts
    Txn,         \* ids of transaction rows; ids are compared by the cursor
    Amount       \* amounts, in the smallest unit

VARIABLES
    today,     \* the server's date
    cards,     \* the card table
    rows       \* the statement of each card and month, or None

\* A row of the statement table; sync is statementSyncMonth. Auxiliary: early
\* says that a sync month before the statement's own was typed in.
StatementRow == [status : {"DUE", "PAID"}, sync : Month, early : BOOLEAN]

ASSUME WalletAssumption ==
    /\ CycleDay \in [Card -> Nat]
    /\ Held \subseteq Card
    /\ CardOf \in [Source -> Card]
    /\ Alike \in [Source -> Card \cup {None}]
    /\ Flow \in [Source -> {"direct", "cloudPdf"}]
    /\ BillOf \in [Bill -> Source]
    /\ Attached \subseteq Bill
    /\ ReceivedOn \in [Bill -> Day]
    /\ DueOn \in [Bill -> Day]
    /\ \A b \in Bill : FirstDay[1] < DueOn[b]
    /\ \A b \in Bill : FirstDay[1] <= ReceivedOn[b]
    /\ \A b \in Bill : MonthOf(DueOn[b]) <= MonthOf(ReceivedOn[b]) + 1
    /\ Requests \subseteq [sources : SUBSET Source, dryRun : BOOLEAN, bypass : BOOLEAN]
    /\ MaxAttempts \in Nat \ {0}
    /\ Txn \subseteq Nat
    /\ Amount \subseteq Nat \ {0}
    /\ IsFiniteSet(Bill)
    /\ None \notin Card \cup Bill \cup Nat
    /\ None \notin StatementRow

-----------------------------------------------------------------------------
\* findCardWithCycleDay: the card with the source's key, or else one whose key
\* ends in the same four digits.
FoundCard(s, held) ==
    IF CardOf[s] \in held THEN CardOf[s] ELSE IF Alike[s] \in held THEN Alike[s] ELSE None

\* The newest mail under a label, as messages.list with maxResults 1 returns it.
Arrived(s, day) == {b \in Bill : BillOf[b] = s /\ ReceivedOn[b] <= day}
Newest(s, day) ==
    CHOOSE b \in Arrived(s, day) :
        \A other \in Arrived(s, day) : ReceivedOn[other] <= ReceivedOn[b]

\* buildStatementPdfPasswordCandidates: the default counts only for a source
\* without a password of its own.
Candidates(s) ==
    {IF Explicit[s] # None THEN Explicit[s] ELSE Fallback} \cup Guess[s]

\* decryptAndExtractPdfText: no password first, then each candidate in turn.
Opens(s, b) == LockedWith[b] \in {None} \cup Candidates(s)

\* toIsoDate: a due date that is not in ISO form is read as local midnight
\* and printed in UTC, which east of Greenwich is the day before.
Readings(b) == {DueOn[b], DueOn[b] - 1}
=============================================================================
