------------------------------- MODULE SignIns --------------------------------
(***************************************************************************)
(* Signing in: AuthService over UsersService.  A Google callback looks the *)
(* account up by its subject, then by its e-mail address, and links or     *)
(* creates a User row; a sign-in then opens a refresh session, which every *)
(* refresh replaces by its successor and a logout revokes.  Each look-up   *)
(* is a statement of its own: two calls may work on one account or token.  *)
(***************************************************************************)
EXTENDS Naturals, FiniteSets

CONSTANTS
    Sub,          \* Google's subjects
    Email,        \* addresses, in lower case
    Profiles,     \* the pairs of the two that Google may ever report
    User,         \* ids of User rows
    Seeded,       \* the address of each row there is from the start
    Home,         \* the tenant of those
    Caller,       \* requests
    MaxSessions,  \* bound on the refresh tokens, numbered as they are made
    MaxCalls,     \* bound on the calls in a behaviour
    None          \* no value

VARIABLES
    users,     \* the User rows
    sessions,  \* the AuthRefreshSession rows, by token
    call,      \* where each request stands, and its local variables
    calls,     \* the calls that may still begin
    answers,   \* auxiliary: the users each subject was taken for
    taken,     \* auxiliary: the subjects whose row went over to another one
    ended,     \* auxiliary: the sign-ins that were logged out
    crossed    \* auxiliary: the sign-ins where a write met a refresh under way

vars == <<users, sessions, call, calls, answers, taken, ended, crossed>>

Session == 1 .. MaxSessions

Row == [sub : Sub \cup {None}, email : Email, tenant : Sub \cup {Home}]

\* A session belongs to the sign-in that began with the token "root".
SessionRow == [user : User, root : Session, revoked : BOOLEAN]

Kind == {"google", "consent", "password", "refresh"}
Local == [pc : {"idle", "bySub", "byEmail", "link", "create", "session", "connect", "rotate"},
          kind : Kind, sub : Sub \cup {None}, email : Email \cup {None},
          user : User \cup {None}, token : Session \cup {None}]
Idle == [pc |-> "idle", kind |-> "google", sub |-> None, email |-> None,
         user |-> None, token |-> None]

TypeOK ==
    /\ users \in [User -> Row \cup {None}]
    /\ sessions \in [Session -> SessionRow \cup {None}]
    /\ call \in [Caller -> Local]
    /\ calls \in 0 .. MaxCalls
    /\ answers \in [Sub -> SUBSET User]
    /\ taken \in SUBSET Sub
    /\ ended \in SUBSET Session
    /\ crossed \in SUBSET Session

Init ==
    /\ users = [u \in User |-> IF Seeded[u] = None THEN None
                               ELSE [sub |-> None, email |-> Seeded[u], tenant |-> Home]]
    /\ sessions = [t \in Session |-> None]
    /\ call = [c \in Caller |-> Idle]
    /\ calls = MaxCalls
    /\ answers = [s \in Sub |-> {}]
    /\ taken = {} /\ ended = {} /\ crossed = {}

New == calls > 0 /\ calls' = calls - 1

At(c, pc) == call[c].pc = pc
Goto(c, pc) == call' = [call EXCEPT ![c].pc = pc]
Accounts == {u \in User : users[u] # None}
Tokens == {t \in Session : sessions[t] # None}
Unused == Session \cap {Cardinality(Tokens) + 1}

-----------------------------------------------------------------------------
(* Who is it? *)

\* A callback whose code Google exchanged for a profile with subject and
\* address: of the sign-in, or of the consent to read Gmail.
Callback(c) ==
    /\ New
    /\ At(c, "idle")
    /\ \E p \in Profiles, k \in {"google", "consent"} :
         call' = [call EXCEPT ![c] = [Idle EXCEPT
                    !.pc = "bySub", !.kind = k, !.sub = p[1], !.email = p[2]]]
    /\ UNCHANGED <<users, sessions, answers, taken, ended, crossed>>

Password(c) ==
    /\ New
    /\ At(c, "idle")
    /\ \E e \in Email :
         call' = [call EXCEPT ![c] = [Idle EXCEPT !.pc = "byEmail", !.kind = "password", !.email = e]]
    /\ UNCHANGED <<users, sessions, answers, taken, ended, crossed>>

\* The call has its user: it goes on to the session or to the Gmail token.
Identified(c, u) ==
    /\ call' = [call EXCEPT ![c].user = u,
                            ![c].pc = IF call[c].kind = "consent" THEN "connect" ELSE "session"]
    /\ answers' = IF call[c].sub = None THEN answers
                  ELSE [answers EXCEPT ![call[c].sub] = @ \cup {u}]

BySub(c) ==
    /\ At(c, "bySub")
    /\ LET found == {u \in Accounts : users[u].sub = call[c].sub}
       IN  \/ \E u \in found : Identified(c, u)
           \/ found = {} /\ Goto(c, "byEmail") /\ UNCHANGED answers
    /\ UNCHANGED <<users, sessions, calls, taken, ended, crossed>>

\* findByEmail; only a row from the start has a password to compare.
ByEmail(c) ==
    /\ At(c, "byEmail")
    /\ LET found == {u \in Accounts : users[u].email = call[c].email}
       IN  IF call[c].kind = "password"
           THEN \E u \in found : Seeded[u] # None /\ Identified(c, u)
           ELSE /\ \/ \E u \in found :
                        call' = [call EXCEPT ![c].user = u, ![c].pc = "link"]
                   \/ found = {} /\ Goto(c, "create")
                /\ UNCHANGED answers
    /\ UNCHANGED <<users, sessions, calls, taken, ended, crossed>>

\* Fault: the column googleSub is not unique.
LinkAnyway(c) ==
    /\ At(c, "link")
    /\ LET u == call[c].user
       IN  /\ users' = [users EXCEPT ![u].sub = call[c].sub]
           /\ taken' = taken \cup ({users[u].sub} \ {None, call[c].sub})
           /\ Identified(c, u)
    /\ UNCHANGED <<sessions, calls, ended, crossed>>

\* updateGoogleSub, whatever subject the row had; the unique column refuses
\* one that another row has got meanwhile.
Link(c) ==
    /\ At(c, "link")
    /\ LET u == call[c].user
       IN  /\ \A v \in Accounts \ {u} : users[v].sub # call[c].sub
           /\ users' = [users EXCEPT ![u].sub = call[c].sub]
           /\ taken' = taken \cup ({users[u].sub} \ {None, call[c].sub})
           /\ Identified(c, u)
    /\ UNCHANGED <<sessions, calls, ended, crossed>>

\* Fault: the new user gets the address for a tenant.
CreateByAddress(c) ==
    /\ At(c, "create")
    /\ \A v \in Accounts : users[v].sub # call[c].sub /\ users[v].email # call[c].email
    /\ \E u \in User \ Accounts :
         /\ users' = [users EXCEPT ![u] =
                        [sub |-> call[c].sub, email |-> call[c].email, tenant |-> call[c].email]]
         /\ Identified(c, u)
    /\ UNCHANGED <<sessions, calls, taken, ended, crossed>>

\* createGoogleUser, with the subject for a tenant.
Create(c) ==
    /\ At(c, "create")
    /\ \A v \in Accounts : users[v].sub # call[c].sub /\ users[v].email # call[c].email
    /\ \E u \in User \ Accounts :
         /\ users' = [users EXCEPT ![u] =
                        [sub |-> call[c].sub, email |-> call[c].email, tenant |-> call[c].sub]]
         /\ Identified(c, u)
    /\ UNCHANGED <<sessions, calls, taken, ended, crossed>>

\* An error, a refusal or a crash ends the call.
Fail(c) ==
    /\ ~At(c, "idle")
    /\ call' = [call EXCEPT ![c] = Idle]
    /\ UNCHANGED <<users, sessions, calls, answers, taken, ended, crossed>>

-----------------------------------------------------------------------------
(* Sessions *)

Fresh(u, root) == [user |-> u, root |-> root, revoked |-> FALSE]

\* A refresh of the sign-in r that has read a row and not yet written.
UnderWay(c, r) == At(c, "rotate") /\ sessions[call[c].token].root = r

\* createRefreshSession
Open(c) ==
    /\ At(c, "session")
    /\ \E t \in Unused : sessions' = [sessions EXCEPT ![t] = Fresh(call[c].user, t)]
    /\ call' = [call EXCEPT ![c] = Idle]
    /\ UNCHANGED <<users, calls, answers, taken, ended, crossed>>

\* Fault: a token that was revoked is good for another refresh.
LookAnyway(c, t) ==
    /\ New
    /\ At(c, "idle")
    /\ t \in Tokens
    /\ call' = [call EXCEPT ![c] = [Idle EXCEPT !.pc = "rotate", !.kind = "refresh", !.token = t]]
    /\ UNCHANGED <<users, sessions, answers, taken, ended, crossed>>

\* rotateRefreshSession, first the look-up; one that comes after the days of
\* REFRESH_TOKEN_TTL_DAYS finds nothing and leaves everything as it is ...
Look(c, t) ==
    /\ New
    /\ At(c, "idle")
    /\ t \in Tokens /\ ~sessions[t].revoked
    /\ call' = [call EXCEPT ![c] = [Idle EXCEPT !.pc = "rotate", !.kind = "refresh", !.token = t]]
    /\ UNCHANGED <<users, sessions, answers, taken, ended, crossed>>

\* Fault: a refresh revokes every session of the user.
RotateAll(c) ==
    /\ At(c, "rotate")
    /\ LET old == sessions[call[c].token]
       IN  /\ \E t \in Unused :
                sessions' = [x \in Session |->
                               IF x = t THEN Fresh(old.user, old.root)
                               ELSE IF x \in Tokens /\ sessions[x].user = old.user
                                    THEN [sessions[x] EXCEPT !.revoked = TRUE] ELSE sessions[x]]
           /\ crossed' = crossed \cup {r \in {old.root} : \E d \in Caller \ {c} : UnderWay(d, r)}
    /\ call' = [call EXCEPT ![c] = Idle]
    /\ UNCHANGED <<users, calls, answers, taken, ended>>

\* ... then one transaction that revokes the row and creates its successor.
Rotate(c) ==
    /\ At(c, "rotate")
    /\ LET old == sessions[call[c].token]
       IN  /\ \E t \in Unused :
                sessions' = [sessions EXCEPT ![call[c].token].revoked = TRUE,
                                             ![t] = Fresh(old.user, old.root)]
           /\ crossed' = crossed \cup {r \in {old.root} : \E d \in Caller \ {c} : UnderWay(d, r)}
    /\ call' = [call EXCEPT ![c] = Idle]
    /\ UNCHANGED <<users, calls, answers, taken, ended>>

\* logout: one update of a row that is not revoked ...
Logout(t) ==
    /\ New
    /\ t \in Tokens /\ ~sessions[t].revoked
    /\ sessions' = [sessions EXCEPT ![t].revoked = TRUE]
    /\ ended' = ended \cup {sessions[t].root}
    /\ crossed' = crossed \cup {r \in {sessions[t].root} : \E d \in Caller : UnderWay(d, r)}
    /\ UNCHANGED <<users, call, answers, taken>>

\* ... or of none, with a token that is revoked, unknown or missing.
LogoutOfNone == UNCHANGED vars

\* The Gmail token goes to the settings of the user's tenant (Account).
Connected(c) ==
    /\ At(c, "connect")
    /\ call' = [call EXCEPT ![c] = Idle]
    /\ UNCHANGED <<users, sessions, calls, answers, taken, ended, crossed>>

Next ==
    \/ \E c \in Caller :
         \/ Callback(c) \/ Password(c) \/ BySub(c) \/ ByEmail(c) \/ Link(c) \/ Create(c)
         \/ Open(c) \/ Rotate(c) \/ Connected(c) \/ Fail(c)
         \/ \E t \in Session : Look(c, t)
    \/ \E t \in Session : Logout(t)
    \/ LogoutOfNone

Spec == Init /\ [][Next]_vars

-----------------------------------------------------------------------------
(* Properties *)

Live(r) == {t \in Tokens : sessions[t].root = r /\ ~sessions[t].revoked}
Roots == {sessions[t].root : t \in Tokens}

\* users.service.ts:51, "attach googleSub for future stable lookups": a Google
\* account is taken for one user for ever, unless another account with the
\* address of that user took the row over.
StableLookups == \A s \in Sub \ taken : \A u, v \in answers[s] : u = v

\* Whoever did not log out is still signed in: no refresh, failed or repeated,
\* of this or another device, takes the last session away.
StaysSignedIn == \A r \in Roots \ ended : Live(r) # {}

\* One sign-in, one session, and none after the logout, unless a refresh was
\* under way when another request wrote.
OneSession ==
    \A r \in Roots \ crossed : (Live(r) # {} => r \notin ended) /\ \A t, u \in Live(r) : t = u
=============================================================================
