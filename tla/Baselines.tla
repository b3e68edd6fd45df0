------------------------------ MODULE Baselines -------------------------------
(***************************************************************************)
(* The baselines of a tenant, one for each half of a fiscal year           *)
(* (SettingsService, fiscal-half.ts): made for the half that runs or the   *)
(* next one, edited until their half begins.  Months are counted from a    *)
(* January; the fiscal year begins in April.                               *)
(***************************************************************************)
EXTENDS Integers

CONSTANTS
    Clock,   \* bound: the months in which there are requests
    Amount,  \* baselineAmount
    Author,  \* requests
    None     \* no baseline

VARIABLES
    month,     \* the month it is
    baseline,  \* baselineAmount of each half, if there is one
    draft      \* where each request stands, and its local variables

vars == <<month, baseline, draft>>

\* fiscalHalfFromDate
HalfOf(m) ==
    LET inYear == (m % 12) + 1
    IN  [startYear |-> IF inYear >= 4 THEN m \div 12 ELSE m \div 12 - 1,
         half |-> IF 4 <= inYear /\ inYear <= 9 THEN 1 ELSE 2]

\* getNextFiscalHalfKey
NextHalf(h) ==
    IF h.half = 1 THEN [h EXCEPT !.half = 2]
    ELSE [startYear |-> h.startYear + 1, half |-> 1]

Half == {HalfOf(m) : m \in Clock} \cup {NextHalf(HalfOf(m)) : m \in Clock}

\* Fault: the half that runs is not locked yet.
LockedWhenOver(h) ==
    LET current == HalfOf(month)
    IN  \/ h.startYear < current.startYear
        \/ h.startYear = current.startYear /\ h.half < current.half

\* isFiscalHalfLocked
Locked(h) ==
    LET current == HalfOf(month)
    IN  \/ h.startYear < current.startYear
        \/ h.startYear = current.startYear /\ h.half <= current.half

\* isCreatableFiscalHalf
Creatable(h) == h \in {HalfOf(month), NextHalf(HalfOf(month))}

First == CHOOSE m \in Clock : \A n \in Clock : m <= n
Idle == [pc |-> "idle", half |-> HalfOf(First), since |-> First]

TypeOK ==
    /\ month \in Clock
    /\ baseline \in [Half -> Amount \cup {None}]
    /\ draft \in [Author -> [pc : {"idle", "find", "create", "read", "update"},
                             half : Half, since : Clock]]

Init ==
    /\ month = First
    /\ baseline = [h \in Half |-> None]
    /\ draft = [a \in Author |-> Idle]

At(a, pc) == draft[a].pc = pc
Goto(a, pc) == draft' = [draft EXCEPT ![a].pc = pc]
Done(a) == draft' = [draft EXCEPT ![a] = Idle]

BeginCreate(a) ==
    /\ At(a, "idle")
    /\ \E h \in Half :
         /\ Creatable(h)
         /\ draft' = [draft EXCEPT ![a] = [pc |-> "find", half |-> h, since |-> month]]
    /\ UNCHANGED <<month, baseline>>

BeginUpdate(a) ==
    /\ At(a, "idle")
    /\ \E h \in Half :
         /\ ~Locked(h) /\ Creatable(h)
         /\ draft' = [draft EXCEPT ![a] = [pc |-> "read", half |-> h, since |-> month]]
    /\ UNCHANGED <<month, baseline>>

\* findFirst: a create wants none ...
FindNone(a) ==
    /\ At(a, "find")
    /\ baseline[draft[a].half] = None
    /\ Goto(a, "create")
    /\ UNCHANGED <<month, baseline>>

\* ... and an update wants one.
FindOne(a) ==
    /\ At(a, "read")
    /\ baseline[draft[a].half] # None
    /\ Goto(a, "update")
    /\ UNCHANGED <<month, baseline>>

\* Version 1; the unique key refuses a second one.
Create(a) ==
    /\ At(a, "create")
    /\ baseline[draft[a].half] = None
    /\ \E x \in Amount : baseline' = [baseline EXCEPT ![draft[a].half] = x]
    /\ Done(a)
    /\ UNCHANGED month

Update(a) ==
    /\ At(a, "update")
    /\ \E x \in Amount : baseline' = [baseline EXCEPT ![draft[a].half] = x]
    /\ Done(a)
    /\ UNCHANGED month

\* A refusal, an error or a crash ends the request.
Fail(a) ==
    /\ ~At(a, "idle")
    /\ Done(a)
    /\ UNCHANGED <<month, baseline>>

Tick ==
    /\ \E m \in Clock : m > month /\ month' = m
    /\ UNCHANGED <<baseline, draft>>

Next ==
    \/ \E a \in Author :
         \/ BeginCreate(a) \/ FindNone(a) \/ Create(a)
         \/ BeginUpdate(a) \/ FindOne(a) \/ Update(a)
         \/ Fail(a)
    \/ Tick

Spec == Init /\ [][Next]_vars

-----------------------------------------------------------------------------
(* Property *)

\* The first month of a half, from the calendar.
Begins(h) == 12 * h.startYear + (IF h.half = 1 THEN 3 ELSE 9)

\* fiscal-half.spec.ts, "locks the half once it starts": from then on a
\* baseline does not change, but by a request that came before.
LockedKept ==
    [][\A h \in Half :
         baseline[h] # None /\ baseline'[h] # baseline[h] /\ Begins(h) <= month
         => \E a \in Author : At(a, "update") /\ draft[a].half = h /\ draft[a].since < Begins(h)]_vars
=============================================================================
