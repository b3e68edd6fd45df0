----------------------------- MODULE ScratchPads ------------------------------
(***************************************************************************)
(* The scratch pads of a tenant and the Google Sheets they are linked to   *)
(* (ScratchPadsService).  A sheet is looked for among the pads first and   *)
(* written afterwards; no unique key stands behind the look-up.            *)
(***************************************************************************)
EXTENDS Naturals

CONSTANTS
    Pad,     \* ids of pads
    Sheet,   \* ids of Google Sheets
    Client,  \* requests
    None     \* no sheet, no pad

VARIABLES
    pads,    \* the pads there are
    sheet,   \* the sheet of each pad
    edit,    \* where each request stands, and its local variables
    raced    \* auxiliary: the sheets two requests were about to link at once

vars == <<pads, sheet, edit, raced>>

Local == [pc : {"idle", "check", "write"}, new : BOOLEAN,
          pad : Pad \cup {None}, sheet : Sheet \cup {None}]
Idle == [pc |-> "idle", new |-> FALSE, pad |-> None, sheet |-> None]

TypeOK ==
    /\ pads \in SUBSET Pad
    /\ sheet \in [Pad -> Sheet \cup {None}]
    /\ edit \in [Client -> Local]
    /\ raced \in SUBSET Sheet

Init ==
    /\ pads = {}
    /\ sheet = [p \in Pad |-> None]
    /\ edit = [c \in Client |-> Idle]
    /\ raced = {}

At(c, pc) == edit[c].pc = pc

\* create, with the next free place in the order.
BeginCreate(c) ==
    /\ At(c, "idle")
    /\ \E s \in Sheet \cup {None} :
         edit' = [edit EXCEPT ![c] = [Idle EXCEPT !.pc = "check", !.new = TRUE, !.sheet = s]]
    /\ UNCHANGED <<pads, sheet, raced>>

\* update of a pad that is found, with a sheet or with null.
BeginUpdate(c) ==
    /\ At(c, "idle")
    /\ \E p \in pads, s \in Sheet \cup {None} :
         edit' = [edit EXCEPT ![c] = [pc |-> "check", new |-> FALSE, pad |-> p, sheet |-> s]]
    /\ UNCHANGED <<pads, sheet, raced>>

\* Fault: an update is not checked, as it was when it had the sheet already.
ClashesNew(c) ==
    {p \in pads : edit[c].new /\ edit[c].sheet # None /\ sheet[p] = edit[c].sheet}

\* assertSheetIdAvailable: the other pads with this sheet.
Clashes(c) ==
    {p \in pads \ {edit[c].pad} : edit[c].sheet # None /\ sheet[p] = edit[c].sheet}

\* The check: a clash refuses the request.
Check(c) ==
    /\ At(c, "check")
    /\ IF Clashes(c) # {}
       THEN edit' = [edit EXCEPT ![c] = Idle] /\ UNCHANGED raced
       ELSE /\ edit' = [edit EXCEPT ![c].pc = "write"]
            /\ raced' = raced \cup
                 {s \in Sheet : s = edit[c].sheet /\ \E d \in Client : At(d, "write") /\ edit[d].sheet = s}
    /\ UNCHANGED <<pads, sheet>>

Insert(c) ==
    /\ At(c, "write") /\ edit[c].new
    /\ \E p \in Pad \ pads :
         /\ pads' = pads \cup {p}
         /\ sheet' = [sheet EXCEPT ![p] = edit[c].sheet]
    /\ edit' = [edit EXCEPT ![c] = Idle]
    /\ UNCHANGED raced

\* A pad that was removed meanwhile is not updated: that is an error.
Overwrite(c) ==
    /\ At(c, "write") /\ ~edit[c].new
    /\ edit[c].pad \in pads
    /\ sheet' = [sheet EXCEPT ![edit[c].pad] = edit[c].sheet]
    /\ edit' = [edit EXCEPT ![c] = Idle]
    /\ UNCHANGED <<pads, raced>>

Remove(p) ==
    /\ p \in pads
    /\ pads' = pads \ {p}
    /\ sheet' = [sheet EXCEPT ![p] = None]
    /\ UNCHANGED <<edit, raced>>

\* An error or a crash ends the request.
Fail(c) ==
    /\ ~At(c, "idle")
    /\ edit' = [edit EXCEPT ![c] = Idle]
    /\ UNCHANGED <<pads, sheet, raced>>

Next ==
    \/ \E c \in Client : BeginCreate(c) \/ BeginUpdate(c) \/ Check(c) \/ Fail(c)
                          \/ Insert(c) \/ Overwrite(c)
    \/ \E p \in Pad : Remove(p)

Spec == Init /\ [][Next]_vars

-----------------------------------------------------------------------------
(* Property *)

\* scratch-pads.service.ts:131, "Each pad must link a distinct Google Sheet":
\* so it is, through creates, edits and removals in any order, for a sheet that
\* no two requests were about to link at the same time.
SheetsDistinct ==
    \A p, q \in pads : p # q /\ sheet[p] = sheet[q] => sheet[p] \in raced \cup {None}
=============================================================================
