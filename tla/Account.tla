------------------------------- MODULE Account --------------------------------
(***************************************************************************)
(* All that belongs to one account: its settings and investments, the      *)
(* sign-ins, the scratch pads and the baselines.  A consent to read Gmail  *)
(* is a sign-in that ends in the settings row of the user's tenant; apart  *)
(* from that the parts share no row, so that one behaviour follows the     *)
(* requests to one part, and no order of steps is lost.                    *)
(***************************************************************************)
EXTENDS Settings

CONSTANTS
    Tenant,                                  \* whose settings these are
    Sub, Email, Profiles, User, Seeded,      \* SignIns
    Home, Caller, MaxSessions, MaxCalls,
    Pad, Sheet, Client,                      \* ScratchPads
    Clock, Amount, Author                    \* Baselines

ASSUME SignInAssumption ==
    /\ Profiles \subseteq Sub \X Email
    /\ Seeded \in [User -> Email \cup {None}]
    /\ \A u, v \in User : Seeded[u] = Seeded[v] /\ u # v => Seeded[u] = None
    /\ MaxSessions \in Nat /\ MaxCalls \in Nat
    /\ None \notin Sub \cup Email \cup User \cup Nat
    /\ Home \notin Sub

ASSUME PadAssumption == None \notin Sheet \cup Pad

ASSUME BaselineAssumption ==
    /\ Clock \in (SUBSET Nat) \ {{}}
    /\ None \notin Amount

VARIABLES
    users, sessions, call, calls,            \* SignIns
    answers, taken, ended, crossed,
    pads, sheet, edit, raced,                \* ScratchPads
    month, baseline, draft,                  \* Baselines
    asked                                    \* the part with requests

I == INSTANCE SignIns
P == INSTANCE ScratchPads
B == INSTANCE Baselines

ASSUME RowAssumption == None \notin I!Row \cup I!SessionRow

Part == {"settings", "sign-ins", "pads", "baselines"}

iVars == <<users, sessions, call, calls, answers, taken, ended, crossed>>
pVars == <<pads, sheet, edit, raced>>
bVars == <<month, baseline, draft>>
accountVars == <<vars, iVars, pVars, bVars, asked>>

\* Besides the TypeOK of the settings.
AccountTypes ==
    I!TypeOK /\ P!TypeOK /\ B!TypeOK /\ asked \in Part

AccountInit == Init /\ I!Init /\ P!Init /\ B!Init /\ asked \in Part

\* In SettingsStep a consent is the one step Settings!Connect.
SettingsStep ==
    /\ asked = "settings"
    /\ Next
    /\ UNCHANGED <<iVars, pVars, bVars>>

SignInStep ==
    /\ asked = "sign-ins"
    /\ \/ \E c \in Caller :
            \/ I!Callback(c) \/ I!Password(c) \/ I!BySub(c) \/ I!ByEmail(c)
            \/ I!Link(c) \/ I!Create(c) \/ I!Open(c) \/ I!Rotate(c) \/ I!Fail(c)
            \/ \E t \in I!Session : I!Look(c, t)
       \/ \E t \in I!Session : I!Logout(t)
       \/ I!LogoutOfNone
    /\ UNCHANGED <<vars, pVars, bVars>>

\* upsertImportGmailCredential, for the tenant of the user found.
Consent ==
    /\ asked = "sign-ins"
    /\ \E c \in Caller :
         /\ I!Connected(c)
         /\ IF users[call[c].user].tenant = Tenant THEN Connect ELSE UNCHANGED vars
    /\ UNCHANGED <<pVars, bVars>>

PadStep == asked = "pads" /\ P!Next /\ UNCHANGED <<vars, iVars, bVars>>

BaselineStep == asked = "baselines" /\ B!Next /\ UNCHANGED <<vars, iVars, pVars>>

AccountNext ==
    (SettingsStep \/ SignInStep \/ Consent \/ PadStep \/ BaselineStep) /\ UNCHANGED asked

AccountSpec == AccountInit /\ [][AccountNext]_accountVars

-----------------------------------------------------------------------------
(* Properties of the parts *)

\* A Google account is taken for one user for ever, unless another one with
\* the same address took the row over (users.service.ts:51).
StableLookups == I!StableLookups

\* Whoever did not log out is still signed in.
StaysSignedIn == I!StaysSignedIn

\* One session for each sign-in and none after its logout, unless a refresh
\* was under way meanwhile.
OneSession == I!OneSession

\* Pads are linked to distinct sheets, unless two requests linked one at once
\* (scratch-pads.service.ts:131).
SheetsDistinct == P!SheetsDistinct

\* A baseline does not change once its half has begun (settings.service.ts:336).
LockedKept == B!LockedKept
=============================================================================
