------------------------- MODULE CcTxnImportProofs -------------------------
(***************************************************************************)
(* Proofs about CcTxnImport, for any labels, messages, runs and retries.   *)
(***************************************************************************)
EXTENDS CcTxnImport, TLAPS

InHandSteps == Step \ {"idle", "polling", "next"}

\* A process has a message in hand, a run a label to work on; only a retry
\* call comes to the steps that mark a row.
Shape(p) ==
    /\ at[p].pc \in InHandSteps => at[p].folder \in Folder /\ at[p].msg \in Msg
    /\ p \in Worker =>
         /\ at[p].pc \notin {"claim", "fetch", "confirm", "resolve", "reopen"}
         /\ at[p].pc # "idle" => at[p].folder \in Folder
    /\ p \in Retrier => at[p].pc # "polling"

Typed == TypeOK /\ \A p \in Proc : Shape(p)

-----------------------------------------------------------------------------
(* The local variables of one process *)

LEMMA IdleTyped == Idle \in Local
  BY DEF Idle, Local, Step

LEMMA SetPc ==
  ASSUME NEW l \in Local, NEW s \in Step
  PROVE  [l EXCEPT !.pc = s] \in Local
  BY DEF Local

LEMMA SetPcCaught ==
  ASSUME NEW l \in Local, NEW s \in Step, NEW b \in BOOLEAN
  PROVE  [l EXCEPT !.pc = s, !.caught = b] \in Local
  BY DEF Local

LEMMA SetPcFound ==
  ASSUME NEW l \in Local, NEW s \in Step, NEW b \in BOOLEAN
  PROVE  [l EXCEPT !.pc = s, !.found = b] \in Local
  BY DEF Local

LEMMA SetPcKeys ==
  ASSUME NEW l \in Local, NEW s \in Step, NEW m \in Msg
  PROVE  [l EXCEPT !.pc = s, !.keys = @ \cup {m}] \in Local
  BY DEF Local

LEMMA SetPolled ==
  ASSUME NEW l \in Local, NEW f \in Folder, NEW new \in SUBSET Msg, NEW k \in SUBSET Msg
  PROVE  [l EXCEPT !.pc = "next", !.polled = new, !.todo = {f} \X new, !.keys = k] \in Local
  BY DEF Local, Step

LEMMA SetTaken ==
  ASSUME NEW l \in Local, NEW s \in Step, NEW r \in l.todo
  PROVE  [l EXCEPT !.pc = s, !.todo = @ \ {r}, !.folder = r[1], !.msg = r[2],
                   !.found = FALSE, !.caught = FALSE] \in Local
  BY DEF Local

\* A step of p gives p new local variables, and nobody else.
LEMMA OneMoves ==
  ASSUME at \in [Proc -> Local], NEW p \in Proc, NEW l \in Local, at' = [at EXCEPT ![p] = l]
  PROVE  /\ at' \in [Proc -> Local]
         /\ at'[p] = l
         /\ \A q \in Proc \ {p} : at'[q] = at[q]
  OBVIOUS

LEMMA ShapeFrame ==
  ASSUME NEW q \in Proc, Shape(q), at'[q] = at[q]
  PROVE  Shape(q)'
  BY DEF Shape

-----------------------------------------------------------------------------
(* Type correctness *)

LEMMA InitTyped == Init => Typed
<1> SUFFICES ASSUME Init PROVE Typed
  OBVIOUS
<1>1. mark \in [Key -> Nat]
  <2>1. PICK old \in [Legacy -> {0} \cup {ReceivedAt[m] : m \in Msg}] :
          mark = [k \in Key |-> IF k \in Legacy THEN old[k] ELSE 0]
    BY DEF Init
  <2>2. {0} \cup {ReceivedAt[m] : m \in Msg} \subseteq Nat
    BY ImportAssumption
  <2> QED BY <2>1, <2>2
<1>2. TypeOK
  BY <1>1, IdleTyped, ImportAssumption DEF Init, TypeOK, Status
<1>3. \A p \in Proc : at[p].pc = "idle"
  BY DEF Init, Idle
<1> QED
  BY <1>2, <1>3, ImportAssumption DEF Typed, Shape, InHandSteps, Step

LEMMA TypedAfter ==
  ASSUME Typed, NEW p \in Proc, NEW l \in Local, at' = [at EXCEPT ![p] = l], Shape(p)',
         labelled' \in [Folder -> SUBSET Msg], txns' \in SUBSET Msg,
         failure' \in [Folder -> [Msg -> Status]], mark' \in [Key -> Nat],
         rebases' \in 0 .. MaxRebase, drained' \in [Folder -> SUBSET Msg]
  PROVE  Typed'
<1>1. at' \in [Proc -> Local] /\ \A q \in Proc \ {p} : at'[q] = at[q]
  BY OneMoves DEF Typed, TypeOK
<1>2. \A q \in Proc : Shape(q)'
  BY <1>1, ShapeFrame DEF Typed
<1> QED BY <1>1, <1>2 DEF Typed, TypeOK

\* SetFailure keeps the type of the failure rows.
LEMMA FailureTyped ==
  ASSUME TypeOK, NEW f \in Folder, NEW m \in Msg, NEW s \in Status, SetFailure(f, m, s)
  PROVE  failure' \in [Folder -> [Msg -> Status]]
  BY DEF TypeOK, SetFailure

\* Every action but Crash touches the local variables of one process at most.
LEMMA NextTyped == Typed /\ [Next]_vars => Typed'
<1> SUFFICES ASSUME Typed, [Next]_vars
             PROVE  Typed'
  OBVIOUS
<1> USE ImportAssumption
<1>0. /\ TypeOK
      /\ \A p \in Proc : at[p] \in Local /\ Shape(p)
      /\ Worker \subseteq Proc /\ Retrier \subseteq Proc
      /\ \A p \in Proc : p \in Worker <=> p \notin Retrier
  BY DEF Typed, TypeOK, Proc
<1>a. ASSUME NEW s \in {"OPEN", "RETRYING", "RESOLVED", "IGNORED"} PROVE s \in Status
  BY DEF Status
<1>i. Idle \in Local /\ Idle.pc = "idle"
  BY IdleTyped DEF Idle
<1>1. ASSUME NEW f \in Folder, NEW m \in Msg, Label(f, m) PROVE Typed'
  BY <1>1 DEF Label, Typed, TypeOK, Shape
<1>2. ASSUME NEW f \in Folder, NEW m \in Msg, Ignore(f, m) PROVE Typed'
  <2>1. failure' \in [Folder -> [Msg -> Status]]
    BY <1>2, <1>0, <1>a, FailureTyped DEF Ignore
  <2> QED BY <1>2, <2>1 DEF Ignore, Typed, TypeOK, Shape
<1>3. ASSUME NEW w \in Worker, NEW f \in Folder, Begin(w, f) PROVE Typed'
  <2>1. Window(f) \in Nat
    BY DEF Window, Key, Typed, TypeOK
  <2>2. PICK b \in BOOLEAN :
          at' = [at EXCEPT ![w] = [Idle EXCEPT
                  !.pc = "polling", !.folder = f, !.cutoff = Window(f), !.dry = b]]
    BY <1>3 DEF Begin
  <2> DEFINE l == [Idle EXCEPT !.pc = "polling", !.folder = f, !.cutoff = Window(f), !.dry = b]
  <2>3. l \in Local /\ l.pc = "polling" /\ l.folder = f
    BY <2>1 DEF Idle, Local, Step
  <2> HIDE DEF l
  <2>4. at' = [at EXCEPT ![w] = l]
    BY <2>2 DEF l
  <2>5. Shape(w)'
    BY <1>0, <2>3, <2>4, OneMoves DEF Shape, InHandSteps, Typed, TypeOK
  <2> QED BY <1>3, <1>0, <2>3, <2>4, <2>5, TypedAfter DEF Begin, TypeOK
<1>4. ASSUME NEW w \in Worker, Poll(w) PROVE Typed'
  <2>1. at[w].folder \in Folder
    BY <1>4, <1>0 DEF Poll, At, Shape
  <2>2. PICK list \in Listings(labelled[at[w].folder]) :
          at' = [at EXCEPT ![w] = [@ EXCEPT !.pc = "next",
                   !.polled = {m \in list : ReceivedAt[m] > at[w].cutoff},
                   !.todo = {at[w].folder} \X {m \in list : ReceivedAt[m] > at[w].cutoff},
                   !.keys = txns]]
    BY <1>4 DEF Poll
  <2> DEFINE new == {m \in list : ReceivedAt[m] > at[w].cutoff}
             l == [at[w] EXCEPT !.pc = "next", !.polled = new,
                                !.todo = {at[w].folder} \X new, !.keys = txns]
  <2>3. new \in SUBSET Msg
    BY <1>0, <2>1, <2>2 DEF Listings, TypeOK
  <2>4. l \in Local
    <3> HIDE DEF new
    <3> QED BY <1>0, <2>1, <2>3, SetPolled DEF TypeOK
  <2>5. l.pc = "next" /\ l.folder = at[w].folder
    BY <1>0 DEF Local
  <2>6. at' = [at EXCEPT ![w] = l]
    BY <2>2
  <2> HIDE DEF l
  <2>7. Shape(w)'
    BY <1>0, <2>1, <2>4, <2>5, <2>6, OneMoves DEF Shape, InHandSteps, TypeOK
  <2> QED BY <1>4, <1>0, <2>4, <2>6, <2>7, TypedAfter DEF Poll, TypeOK
<1>5. ASSUME NEW w \in Worker, DrainFails(w) PROVE Typed'
  <2>3. at' = [at EXCEPT ![w] = Idle]
    BY <1>5 DEF DrainFails
  <2>4. Shape(w)'
    BY <1>0, <1>i, <2>3, OneMoves DEF Shape, InHandSteps, TypeOK
  <2> QED BY <1>5, <1>0, <1>i, <2>3, <2>4, TypedAfter DEF DrainFails, TypeOK
<1>6. ASSUME NEW w \in Worker, Finish(w) PROVE Typed'
  <2>1. at[w].polled \subseteq Msg /\ (at[w].polled # {} => w \in Proc)
    BY <1>0 DEF Local
  <2>2. mark' \in [Key -> Nat] /\ drained' \in [Folder -> SUBSET Msg]
    <3>1. CASE UNCHANGED <<mark, drained>>
      BY <1>0, <3>1 DEF TypeOK
    <3>2. CASE \E newest \in at[w].polled :
                 /\ mark' = [mark EXCEPT ![at[w].folder] = ReceivedAt[newest]]
                 /\ drained' = [drained EXCEPT ![at[w].folder] = @ \cup at[w].polled]
      <4>1. PICK newest \in at[w].polled : mark' = [mark EXCEPT ![at[w].folder] = ReceivedAt[newest]]
        BY <3>2
      <4>2. mark \in [Key -> Nat] /\ ReceivedAt[newest] \in Nat
        BY <1>0, <2>1, ImportAssumption DEF TypeOK
      <4>3. mark' \in [Key -> Nat]
        BY <4>1, <4>2
      <4>4. drained \in [Folder -> SUBSET Msg]
        BY <1>0 DEF TypeOK
      <4>5. drained' = [drained EXCEPT ![at[w].folder] = @ \cup at[w].polled]
        BY <3>2
      <4>6. drained' \in [Folder -> SUBSET Msg]
        BY <2>1, <4>4, <4>5
      <4> QED BY <4>3, <4>6
    <3> QED BY <1>6, <3>1, <3>2 DEF Finish
  <2>3. at' = [at EXCEPT ![w] = Idle]
    BY <1>6 DEF Finish
  <2>4. Shape(w)'
    BY <1>0, <1>i, <2>3, OneMoves DEF Shape, InHandSteps, TypeOK
  <2> QED BY <1>6, <1>0, <1>i, <2>2, <2>3, <2>4, TypedAfter DEF Finish, TypeOK
<1>7. ASSUME NEW p \in Retrier, Select(p) PROVE Typed'
  <2>1. PICK rows \in SUBSET Rows, b \in BOOLEAN :
          at' = [at EXCEPT ![p] = [Idle EXCEPT !.pc = "next", !.todo = rows, !.keys = txns, !.dry = b]]
    BY <1>7 DEF Select
  <2> DEFINE l == [Idle EXCEPT !.pc = "next", !.todo = rows, !.keys = txns, !.dry = b]
  <2>2. l \in Local /\ l.pc = "next"
    BY <1>0 DEF Idle, Local, Step, Rows, TypeOK
  <2>3. at' = [at EXCEPT ![p] = l]
    BY <2>1
  <2> HIDE DEF l
  <2>4. Shape(p)'
    BY <1>0, <2>2, <2>3, OneMoves DEF Shape, InHandSteps, TypeOK
  <2> QED BY <1>7, <1>0, <2>2, <2>3, <2>4, TypedAfter DEF Select, TypeOK
<1>8. ASSUME NEW p \in Retrier, Claim(p) PROVE Typed'
  <2>1. at' = [at EXCEPT ![p] = [@ EXCEPT !.pc = "fetch"]]
    BY <1>8 DEF Claim
  <2> DEFINE l == [at[p] EXCEPT !.pc = "fetch"]
  <2>2. l \in Local
    BY <1>0, <1>8, SetPc DEF Claim, At, Shape, InHandSteps, Step
  <2>3. l.pc = "fetch" /\ l.folder = at[p].folder /\ l.msg = at[p].msg
    BY <1>0, <1>8 DEF Claim, At, Local
  <2>4. at' = [at EXCEPT ![p] = l]
    BY <2>1
  <2> HIDE DEF l
  <2>5. Shape(p)'
    BY <1>0, <1>8, <2>2, <2>3, <2>4, OneMoves DEF Claim, At, Shape, InHandSteps, Step, TypeOK
  <2>6. failure' \in [Folder -> [Msg -> Status]]
    BY <1>8, <1>0, <1>a, FailureTyped DEF Claim, At, Shape, InHandSteps, Step, TypeOK
  <2> QED BY <1>8, <1>0, <2>2, <2>4, <2>5, <2>6, TypedAfter DEF Claim, TypeOK
<1>9. ASSUME NEW p \in Retrier, Fetch(p) PROVE Typed'
  <2>0. PICK present \in BOOLEAN : at' = [at EXCEPT ![p] = [@ EXCEPT !.pc = IF present THEN "parse" ELSE IF at[p].dry THEN "next" ELSE "reopen"]]
    BY <1>9 DEF Fetch
  <2>1. at' = [at EXCEPT ![p] = [@ EXCEPT !.pc = IF present THEN "parse" ELSE IF at[p].dry THEN "next" ELSE "reopen"]]
    BY <2>0
  <2> DEFINE l == [at[p] EXCEPT !.pc = IF present THEN "parse" ELSE IF at[p].dry THEN "next" ELSE "reopen"]
  <2>2. l \in Local
    BY <1>0, <2>0, <1>9, SetPc DEF Fetch, At, Shape, InHandSteps, Step
  <2>3. l.pc \in {"parse", "next", "reopen"} /\ l.folder = at[p].folder /\ l.msg = at[p].msg
    BY <1>0, <2>0, <1>9 DEF Fetch, At, Local
  <2>4. at' = [at EXCEPT ![p] = l]
    BY <2>1
  <2> HIDE DEF l
  <2>5. Shape(p)'
    BY <1>0, <1>9, <2>2, <2>3, <2>4, OneMoves DEF Fetch, At, Shape, InHandSteps, Step, TypeOK
  <2> QED BY <1>9, <1>0, <2>2, <2>4, <2>5, TypedAfter DEF Fetch, TypeOK
<1>10. ASSUME NEW p \in Retrier, Resolve(p) PROVE Typed'
  <2>1. at' = [at EXCEPT ![p] = [@ EXCEPT !.pc = "next"]]
    BY <1>10 DEF Resolve
  <2> DEFINE l == [at[p] EXCEPT !.pc = "next"]
  <2>2. l \in Local
    BY <1>0, <1>10, SetPc DEF Resolve, At, Shape, InHandSteps, Step
  <2>3. l.pc = "next" /\ l.folder = at[p].folder /\ l.msg = at[p].msg
    BY <1>0, <1>10 DEF Resolve, At, Local
  <2>4. at' = [at EXCEPT ![p] = l]
    BY <2>1
  <2> HIDE DEF l
  <2>5. Shape(p)'
    BY <1>0, <1>10, <2>2, <2>3, <2>4, OneMoves DEF Resolve, At, Shape, InHandSteps, Step, TypeOK
  <2>6. failure' \in [Folder -> [Msg -> Status]]
    BY <1>10, <1>0, <1>a, FailureTyped DEF Resolve, At, Shape, InHandSteps, Step, TypeOK
  <2> QED BY <1>10, <1>0, <2>2, <2>4, <2>5, <2>6, TypedAfter DEF Resolve, TypeOK
<1>11. ASSUME NEW p \in Retrier, Reopen(p) PROVE Typed'
  <2>1. at' = [at EXCEPT ![p] = [@ EXCEPT !.pc = "next"]]
    BY <1>11 DEF Reopen
  <2> DEFINE l == [at[p] EXCEPT !.pc = "next"]
  <2>2. l \in Local
    BY <1>0, <1>11, SetPc DEF Reopen, At, Shape, InHandSteps, Step
  <2>3. l.pc = "next" /\ l.folder = at[p].folder /\ l.msg = at[p].msg
    BY <1>0, <1>11 DEF Reopen, At, Local
  <2>4. at' = [at EXCEPT ![p] = l]
    BY <2>1
  <2> HIDE DEF l
  <2>5. Shape(p)'
    BY <1>0, <1>11, <2>2, <2>3, <2>4, OneMoves DEF Reopen, At, Shape, InHandSteps, Step, TypeOK
  <2>6. failure' \in [Folder -> [Msg -> Status]]
    BY <1>11, <1>0, <1>a, FailureTyped DEF Reopen, At, Shape, InHandSteps, Step, TypeOK
  <2> QED BY <1>11, <1>0, <2>2, <2>4, <2>5, <2>6, TypedAfter DEF Reopen, TypeOK
<1>12. ASSUME NEW p \in Retrier, RetryThrows(p) PROVE Typed'
  <2>3. at' = [at EXCEPT ![p] = Idle]
    BY <1>12 DEF RetryThrows
  <2>4. Shape(p)'
    BY <1>0, <1>i, <2>3, OneMoves DEF Shape, InHandSteps, TypeOK
  <2> QED BY <1>12, <1>0, <1>i, <2>3, <2>4, TypedAfter DEF RetryThrows, TypeOK
<1>13. ASSUME NEW p \in Retrier, RetryDone(p) PROVE Typed'
  <2>3. at' = [at EXCEPT ![p] = Idle]
    BY <1>13 DEF RetryDone
  <2>4. Shape(p)'
    BY <1>0, <1>i, <2>3, OneMoves DEF Shape, InHandSteps, TypeOK
  <2> QED BY <1>13, <1>0, <1>i, <2>3, <2>4, TypedAfter DEF RetryDone, TypeOK
<1>14. ASSUME NEW p \in Proc, Take(p) PROVE Typed'
  <2>0. PICK r \in at[p].todo : at' = [at EXCEPT ![p] = [@ EXCEPT !.pc = IF p \in Worker THEN "parse" ELSE "claim",
                    !.todo = at[p].todo \ {r}, !.folder = r[1], !.msg = r[2], !.found = FALSE, !.caught = FALSE]]
    BY <1>14 DEF Take
  <2>1. at' = [at EXCEPT ![p] = [@ EXCEPT !.pc = IF p \in Worker THEN "parse" ELSE "claim",
                    !.todo = at[p].todo \ {r}, !.folder = r[1], !.msg = r[2], !.found = FALSE, !.caught = FALSE]]
    BY <2>0
  <2> DEFINE l == [at[p] EXCEPT !.pc = IF p \in Worker THEN "parse" ELSE "claim",
                    !.todo = at[p].todo \ {r}, !.folder = r[1], !.msg = r[2], !.found = FALSE, !.caught = FALSE]
  <2>2. l \in Local
    BY <1>0, <2>0, <1>14, SetTaken DEF Take, At, Shape, InHandSteps, Step
  <2>3. /\ l.pc = IF p \in Worker THEN "parse" ELSE "claim"
        /\ l.folder \in Folder /\ l.msg \in Msg
    BY <1>0, <2>0, <1>14 DEF Take, At, Local
  <2>4. at' = [at EXCEPT ![p] = l]
    BY <2>1
  <2> HIDE DEF l
  <2>5. Shape(p)'
    <3>1. at'[p] = l
      BY <1>0, <2>2, <2>4, OneMoves DEF TypeOK
    <3> QED BY <1>0, <1>14, <2>3, <3>1 DEF Take, At, Shape, InHandSteps, Step
  <2> QED BY <1>14, <1>0, <2>2, <2>4, <2>5, TypedAfter DEF Take, TypeOK
<1>15. ASSUME NEW p \in Proc, Parse(p) PROVE Typed'
  <2>1. at' = [at EXCEPT ![p] = [@ EXCEPT
             !.pc = IF at[p].msg \in at[p].keys \/ at[p].dry THEN AfterStored(p) ELSE "write",
             !.keys = at[p].keys \cup {at[p].msg}]]
    BY <1>15 DEF Parse
  <2> DEFINE l == [at[p] EXCEPT
             !.pc = IF at[p].msg \in at[p].keys \/ at[p].dry THEN AfterStored(p) ELSE "write",
             !.keys = at[p].keys \cup {at[p].msg}]
  <2>2. l \in Local
    BY <1>0, <1>15, SetPcKeys DEF Parse, At, Shape, InHandSteps, Step, AfterStored
  <2>3. /\ l.pc \in {"next", "write", "resolve"} /\ (p \in Worker => l.pc # "resolve")
        /\ l.folder = at[p].folder /\ l.msg = at[p].msg
    BY <1>0, <1>15 DEF Parse, At, Local, AfterStored
  <2>4. at' = [at EXCEPT ![p] = l]
    BY <2>1
  <2> HIDE DEF l
  <2>5. Shape(p)'
    <3>1. at'[p] = l
      BY <1>0, <2>2, <2>4, OneMoves DEF TypeOK
    <3> QED BY <1>0, <1>15, <2>3, <3>1 DEF Parse, At, Shape, InHandSteps, Step
  <2> QED BY <1>15, <1>0, <2>2, <2>4, <2>5, TypedAfter DEF Parse, TypeOK
<1>16. ASSUME NEW p \in Proc, ParseFails(p) PROVE Typed'
  <2>0. PICK b \in BOOLEAN : at' = [at EXCEPT ![p] = [@ EXCEPT !.pc = "find", !.caught = b]]
    BY <1>16 DEF ParseFails
  <2>1. at' = [at EXCEPT ![p] = [@ EXCEPT !.pc = "find", !.caught = b]]
    BY <2>0
  <2> DEFINE l == [at[p] EXCEPT !.pc = "find", !.caught = b]
  <2>2. l \in Local
    BY <1>0, <2>0, <1>16, SetPcCaught DEF ParseFails, At, Shape, InHandSteps, Step
  <2>3. l.pc = "find" /\ l.folder = at[p].folder /\ l.msg = at[p].msg
    BY <1>0, <2>0, <1>16 DEF ParseFails, At, Local
  <2>4. at' = [at EXCEPT ![p] = l]
    BY <2>1
  <2> HIDE DEF l
  <2>5. Shape(p)'
    BY <1>0, <1>16, <2>2, <2>3, <2>4, OneMoves DEF ParseFails, At, Shape, InHandSteps, Step, TypeOK
  <2> QED BY <1>16, <1>0, <2>2, <2>4, <2>5, TypedAfter DEF ParseFails, TypeOK
<1>17. ASSUME NEW p \in Proc, Write(p) PROVE Typed'
  <2>1. at' = [at EXCEPT ![p] = [@ EXCEPT !.pc = IF p \in Worker THEN "next" ELSE "confirm"]]
    BY <1>17 DEF Write
  <2> DEFINE l == [at[p] EXCEPT !.pc = IF p \in Worker THEN "next" ELSE "confirm"]
  <2>2. l \in Local
    BY <1>0, <1>17, SetPc DEF Write, At, Shape, InHandSteps, Step
  <2>3. l.pc = (IF p \in Worker THEN "next" ELSE "confirm") /\ l.folder = at[p].folder /\ l.msg = at[p].msg
    BY <1>0, <1>17 DEF Write, At, Local
  <2>4. at' = [at EXCEPT ![p] = l]
    BY <2>1
  <2> HIDE DEF l
  <2>5. Shape(p)'
    BY <1>0, <1>17, <2>2, <2>3, <2>4, OneMoves DEF Write, At, Shape, InHandSteps, Step, TypeOK
  <2>6. txns' \in SUBSET Msg
    BY <1>17, <1>0 DEF Write, At, Shape, InHandSteps, Step, TypeOK
  <2> QED BY <1>17, <1>0, <2>2, <2>4, <2>5, <2>6, TypedAfter DEF Write, TypeOK
<1>18. ASSUME NEW p \in Proc, WriteFails(p) PROVE Typed'
  <2>0. PICK b \in BOOLEAN : at' = [at EXCEPT ![p] = [@ EXCEPT !.pc = "find", !.caught = b]]
    BY <1>18 DEF WriteFails
  <2>1. at' = [at EXCEPT ![p] = [@ EXCEPT !.pc = "find", !.caught = b]]
    BY <2>0
  <2> DEFINE l == [at[p] EXCEPT !.pc = "find", !.caught = b]
  <2>2. l \in Local
    BY <1>0, <2>0, <1>18, SetPcCaught DEF WriteFails, At, Shape, InHandSteps, Step
  <2>3. l.pc = "find" /\ l.folder = at[p].folder /\ l.msg = at[p].msg
    BY <1>0, <2>0, <1>18 DEF WriteFails, At, Local
  <2>4. at' = [at EXCEPT ![p] = l]
    BY <2>1
  <2> HIDE DEF l
  <2>5. Shape(p)'
    BY <1>0, <1>18, <2>2, <2>3, <2>4, OneMoves DEF WriteFails, At, Shape, InHandSteps, Step, TypeOK
  <2> QED BY <1>18, <1>0, <2>2, <2>4, <2>5, TypedAfter DEF WriteFails, TypeOK
<1>19. ASSUME NEW p \in Proc, Confirm(p) PROVE Typed'
  <2>1. at' = [at EXCEPT ![p] = [@ EXCEPT !.pc = "resolve"]]
    BY <1>19 DEF Confirm
  <2> DEFINE l == [at[p] EXCEPT !.pc = "resolve"]
  <2>2. l \in Local
    BY <1>0, <1>19, SetPc DEF Confirm, At, Shape, InHandSteps, Step
  <2>3. l.pc = "resolve" /\ l.folder = at[p].folder /\ l.msg = at[p].msg
    BY <1>0, <1>19 DEF Confirm, At, Local
  <2>4. at' = [at EXCEPT ![p] = l]
    BY <2>1
  <2> HIDE DEF l
  <2>5. Shape(p)'
    BY <1>0, <1>19, <2>2, <2>3, <2>4, OneMoves DEF Confirm, At, Shape, InHandSteps, Step, TypeOK
  <2>6. failure' \in [Folder -> [Msg -> Status]]
    BY <1>19, <1>0, <1>a, FailureTyped DEF Confirm, At, Shape, InHandSteps, Step, TypeOK
  <2> QED BY <1>19, <1>0, <2>2, <2>4, <2>5, <2>6, TypedAfter DEF Confirm, TypeOK
<1>20. ASSUME NEW p \in Proc, ConfirmThrows(p) PROVE Typed'
  <2>1. at' = [at EXCEPT ![p] = [@ EXCEPT !.pc = "find", !.caught = TRUE]]
    BY <1>20 DEF ConfirmThrows
  <2> DEFINE l == [at[p] EXCEPT !.pc = "find", !.caught = TRUE]
  <2>2. l \in Local
    BY <1>0, <1>20, SetPcCaught DEF ConfirmThrows, At, Shape, InHandSteps, Step
  <2>3. l.pc = "find" /\ l.folder = at[p].folder /\ l.msg = at[p].msg
    BY <1>0, <1>20 DEF ConfirmThrows, At, Local
  <2>4. at' = [at EXCEPT ![p] = l]
    BY <2>1
  <2> HIDE DEF l
  <2>5. Shape(p)'
    BY <1>0, <1>20, <2>2, <2>3, <2>4, OneMoves DEF ConfirmThrows, At, Shape, InHandSteps, Step, TypeOK
  <2> QED BY <1>20, <1>0, <2>2, <2>4, <2>5, TypedAfter DEF ConfirmThrows, TypeOK
<1>21. ASSUME NEW p \in Proc, Find(p) PROVE Typed'
  <2>1. at' = [at EXCEPT ![p] = [@ EXCEPT !.pc = "save", !.found = failure[at[p].folder][at[p].msg] # "NONE"]]
    BY <1>21 DEF Find
  <2> DEFINE l == [at[p] EXCEPT !.pc = "save", !.found = failure[at[p].folder][at[p].msg] # "NONE"]
  <2>2. l \in Local
    BY <1>0, <1>21, SetPcFound DEF Find, At, Shape, InHandSteps, Step
  <2>3. l.pc = "save" /\ l.folder = at[p].folder /\ l.msg = at[p].msg
    BY <1>0, <1>21 DEF Find, At, Local
  <2>4. at' = [at EXCEPT ![p] = l]
    BY <2>1
  <2> HIDE DEF l
  <2>5. Shape(p)'
    BY <1>0, <1>21, <2>2, <2>3, <2>4, OneMoves DEF Find, At, Shape, InHandSteps, Step, TypeOK
  <2> QED BY <1>21, <1>0, <2>2, <2>4, <2>5, TypedAfter DEF Find, TypeOK
<1>22. ASSUME NEW p \in Proc, Save(p) PROVE Typed'
  <2>1. at' = [at EXCEPT ![p] = [@ EXCEPT !.pc = AfterFailed(p)]]
    BY <1>22 DEF Save
  <2> DEFINE l == [at[p] EXCEPT !.pc = AfterFailed(p)]
  <2>2. l \in Local
    BY <1>0, <1>22, SetPc DEF Save, At, Shape, InHandSteps, Step, AfterFailed
  <2>3. /\ l.pc \in {"next", "reopen"} /\ (p \in Worker => l.pc # "reopen")
        /\ l.folder = at[p].folder /\ l.msg = at[p].msg
    BY <1>0, <1>22 DEF Save, At, Local, AfterFailed
  <2>4. at' = [at EXCEPT ![p] = l]
    BY <2>1
  <2> HIDE DEF l
  <2>5. Shape(p)'
    BY <1>0, <1>22, <2>2, <2>3, <2>4, OneMoves DEF Save, At, Shape, InHandSteps, Step, TypeOK
  <2>6. failure' \in [Folder -> [Msg -> Status]]
    BY <1>22, <1>0, <1>a, FailureTyped DEF Save, At, Shape, InHandSteps, Step, TypeOK
  <2> QED BY <1>22, <1>0, <2>2, <2>4, <2>5, <2>6, TypedAfter DEF Save, TypeOK
<1>23. ASSUME NEW p \in Proc, SaveThrows(p) PROVE Typed'
  <2>1. CASE at[p].caught
    <3>1. at' = [at EXCEPT ![p] = Idle]
      BY <1>23, <2>1 DEF SaveThrows
    <3>2. Shape(p)'
      BY <1>0, <1>i, <3>1, OneMoves DEF Shape, InHandSteps, TypeOK
    <3> QED BY <1>23, <1>0, <1>i, <3>1, <3>2, TypedAfter DEF SaveThrows, TypeOK
  <2>2. CASE ~at[p].caught
    <3> DEFINE l == [at[p] EXCEPT !.pc = "find", !.caught = TRUE]
    <3>1. at' = [at EXCEPT ![p] = l]
      BY <1>23, <2>2 DEF SaveThrows
    <3>2. l \in Local
      BY <1>0, SetPcCaught DEF Step
    <3>3. l.pc = "find" /\ l.folder = at[p].folder /\ l.msg = at[p].msg
      BY <1>0 DEF Local
    <3> HIDE DEF l
    <3>4. Shape(p)'
      BY <1>0, <1>23, <3>1, <3>2, <3>3, OneMoves DEF SaveThrows, At, Shape, InHandSteps, Step, TypeOK
    <3> QED BY <1>23, <1>0, <3>1, <3>2, <3>4, TypedAfter DEF SaveThrows, TypeOK
  <2> QED BY <2>1, <2>2
<1>24. ASSUME NEW k \in Key, NEW m \in Msg, Rebase(k, ReceivedAt[m]) PROVE Typed'
  BY <1>24 DEF Rebase, Typed, TypeOK, Shape
<1>25. CASE Crash
  BY <1>25, <1>i DEF Crash, Typed, TypeOK, Shape, InHandSteps
<1>26. CASE UNCHANGED vars
  BY <1>26 DEF vars, Typed, TypeOK, Shape
<1> QED
  BY <1>1, <1>2, <1>3, <1>4, <1>5, <1>6, <1>7, <1>8, <1>9, <1>10,
     <1>11, <1>12, <1>13, <1>14, <1>15, <1>16, <1>17, <1>18, <1>19, <1>20,
     <1>21, <1>22, <1>23, <1>24, <1>25, <1>26
     DEF Next, Drain, Retry, Process

\* Every variable keeps its type, local variables of runs and retries included.
THEOREM TypeCorrect == Spec => []TypeOK
<1>1. Typed => TypeOK
  BY DEF Typed
<1> QED BY <1>1, InitTyped, NextTyped, PTL DEF Spec

-----------------------------------------------------------------------------
(* What a process knows about the messages it has to do *)

OneHome == \A m \in Msg : \A f, g \in Homes[m] : f = g

\* No two of the rows the process works on are of the same message.
Alone(p) == p \in Worker \/ OneHome

\* A run works on what it polled under its label.
OwnTodo(p) == p \in Worker => at[p].todo \subseteq {at[p].folder} \X at[p].polled

AtHome(p) ==
    /\ \A r \in at[p].todo : r[1] \in Homes[r[2]]
    /\ at[p].pc \in InHandSteps => at[p].folder \in Homes[at[p].msg]

Distinct(p) ==
    Alone(p) =>
        /\ \A r, s \in at[p].todo : r[2] = s[2] => r = s
        /\ at[p].pc \in InHandSteps => \A r \in at[p].todo : r[2] # at[p].msg

\* A key in existingKeys is that of a stored message, or of one it is done with.
Fresh(p) ==
    Alone(p) /\ ~at[p].dry =>
        \A m \in at[p].keys :
            \/ m \in txns
            \/ /\ \A r \in at[p].todo : r[2] # m
               /\ at[p].pc \in {"claim", "fetch", "parse"} => at[p].msg # m

\* A polled message is still to do, in hand, stored, or has a failure row.
Handled(p) ==
    p \in Worker /\ at[p].pc \notin {"idle", "polling"} /\ ~at[p].dry =>
        \A m \in at[p].polled :
            \/ <<at[p].folder, m>> \in at[p].todo
            \/ at[p].pc \in InHandSteps /\ at[p].msg = m
            \/ m \in txns
            \/ failure[at[p].folder][m] # "NONE"

\* A retry is about to mark a row RESOLVED.
Stored(p) == OneHome /\ at[p].pc \in {"confirm", "resolve"} => at[p].msg \in txns

Knows(p) ==
    OwnTodo(p) /\ AtHome(p) /\ Distinct(p) /\ Fresh(p) /\ Handled(p) /\ Stored(p)

\* Rows and labels are where the message may be.
RowsAtHome ==
    /\ \A f \in Folder : \A m \in labelled[f] : f \in Homes[m]
    /\ \A f \in Folder, m \in Msg : failure[f][m] # "NONE" => f \in Homes[m]

IInv ==
    /\ Typed
    /\ \A p \in Proc : Knows(p)
    /\ RowsAtHome
    /\ Accounted
    /\ OneHome => ResolvedIsStored

\* Transactions and failure rows are never deleted.
Kept ==
    /\ txns \subseteq txns'
    /\ \A f \in Folder, m \in Msg : failure[f][m] # "NONE" => failure'[f][m] # "NONE"

\* What a step can do to the tables: rows are kept; a row is written for the
\* message in hand or, if it exists, by the operator; it becomes RESOLVED where
\* a retry is about to mark it; only Finish adds to the drained messages.
Effect ==
    /\ Kept
    /\ \A f \in Folder, m \in Msg :
         failure'[f][m] # failure[f][m] =>
            \/ failure[f][m] # "NONE" /\ failure'[f][m] # "RESOLVED"
            \/ \E p \in Proc : /\ at[p].pc \in InHandSteps
                               /\ at[p].folder = f /\ at[p].msg = m
                               /\ failure'[f][m] = "RESOLVED" => at[p].pc \in {"confirm", "resolve"}
    /\ drained' = drained \/ \E w \in Worker : Finish(w)
    /\ labelled' = labelled \/ \E f \in Folder, m \in Msg : Label(f, m)

LEMMA SetEffect ==
  ASSUME TypeOK, NEW p \in Proc, Shape(p), at[p].pc \in InHandSteps,
         NEW s \in Status \ {"NONE"}, SetFailure(at[p].folder, at[p].msg, s),
         s = "RESOLVED" => at[p].pc \in {"confirm", "resolve"},
         txns' = txns, drained' = drained, labelled' = labelled
  PROVE  Effect
<1>1. at[p].folder \in Folder /\ at[p].msg \in Msg
  BY DEF Shape
<1>2. failure' = [failure EXCEPT ![at[p].folder][at[p].msg] = s]
  BY DEF SetFailure
<1>3. ASSUME NEW f \in Folder, NEW m \in Msg, failure'[f][m] # failure[f][m]
      PROVE  at[p].folder = f /\ at[p].msg = m /\ failure'[f][m] = s
  BY <1>1, <1>2, <1>3 DEF TypeOK
<1>4. Kept
  BY <1>3 DEF Kept
<1> QED
  BY <1>3, <1>4 DEF Effect

LEMMA StepEffect == Typed /\ [Next]_vars => Effect
<1> SUFFICES ASSUME Typed, [Next]_vars
             PROVE  Effect
  OBVIOUS
<1>0. /\ TypeOK
      /\ \A p \in Proc : at[p] \in Local /\ Shape(p)
      /\ Worker \subseteq Proc /\ Retrier \subseteq Proc
  BY DEF Typed, TypeOK, Proc
<1>1. ASSUME txns' = txns, failure' = failure, drained' = drained, labelled' = labelled
      PROVE  Effect
  BY <1>1 DEF Effect, Kept
<1>2. ASSUME NEW f \in Folder, NEW m \in Msg, Label(f, m) PROVE Effect
  BY <1>2 DEF Label, Effect, Kept
<1>3. ASSUME NEW f \in Folder, NEW m \in Msg, Ignore(f, m) PROVE Effect
  <2>1. /\ failure[f][m] # "NONE"
        /\ failure' = [failure EXCEPT ![f][m] = "IGNORED"]
        /\ txns' = txns /\ drained' = drained /\ labelled' = labelled
    BY <1>3 DEF Ignore, SetFailure
  <2>2. ASSUME NEW g \in Folder, NEW n \in Msg, failure'[g][n] # failure[g][n]
        PROVE  failure[g][n] # "NONE" /\ failure'[g][n] = "IGNORED"
    BY <1>0, <2>1, <2>2 DEF TypeOK
  <2> QED BY <2>1, <2>2 DEF Effect, Kept
<1>4. ASSUME NEW w \in Worker, Finish(w) PROVE Effect
  BY <1>4 DEF Finish, Effect, Kept
<1>5. ASSUME NEW w \in Worker, NEW f \in Folder, Begin(w, f) PROVE Effect
  BY <1>1, <1>5 DEF Begin
<1>6. ASSUME NEW w \in Worker, Poll(w) \/ DrainFails(w) PROVE Effect
  BY <1>1, <1>6 DEF Poll, DrainFails
<1>7. ASSUME NEW p \in Retrier, Select(p) \/ Fetch(p) \/ RetryThrows(p) \/ RetryDone(p)
      PROVE  Effect
  BY <1>1, <1>7 DEF Select, Fetch, RetryThrows, RetryDone
<1>8. ASSUME NEW p \in Retrier, Claim(p) PROVE Effect
  <2>1. CASE at[p].dry
    BY <1>1, <1>8, <2>1 DEF Claim
  <2>2. CASE ~at[p].dry
    BY <1>0, <1>8, <2>2, SetEffect DEF Claim, At, InHandSteps, Step, Status
  <2> QED BY <2>1, <2>2
<1>9. ASSUME NEW p \in Retrier, Resolve(p) PROVE Effect
  BY <1>0, <1>9, SetEffect DEF Resolve, At, InHandSteps, Step, Status
<1>10. ASSUME NEW p \in Retrier, Reopen(p) PROVE Effect
  BY <1>0, <1>10, SetEffect DEF Reopen, At, InHandSteps, Step, Status
<1>11. ASSUME NEW p \in Proc,
              \/ Take(p) \/ Parse(p) \/ ParseFails(p) \/ WriteFails(p)
              \/ ConfirmThrows(p) \/ Find(p) \/ SaveThrows(p)
       PROVE  Effect
  BY <1>1, <1>11 DEF Take, Parse, ParseFails, WriteFails, ConfirmThrows, Find, SaveThrows
<1>12. ASSUME NEW p \in Proc, Write(p) PROVE Effect
  BY <1>12 DEF Write, Effect, Kept
<1>13. ASSUME NEW p \in Proc, Confirm(p) PROVE Effect
  BY <1>0, <1>13, SetEffect DEF Confirm, At, InHandSteps, Step, Status
<1>14. ASSUME NEW p \in Proc, Save(p) PROVE Effect
  BY <1>0, <1>14, SetEffect DEF Save, At, InHandSteps, Step, Status
<1>15. ASSUME NEW k \in Key, NEW m \in Msg, Rebase(k, ReceivedAt[m]) PROVE Effect
  BY <1>1, <1>15 DEF Rebase
<1>16. CASE Crash
  BY <1>1, <1>16 DEF Crash
<1>17. CASE UNCHANGED vars
  BY <1>1, <1>17 DEF vars
<1> QED
  BY <1>2, <1>3, <1>4, <1>5, <1>6, <1>7, <1>8, <1>9, <1>10, <1>11, <1>12, <1>13,
     <1>14, <1>15, <1>16, <1>17 DEF Next, Drain, Retry, Process

-----------------------------------------------------------------------------
(* What the processes know, step by step *)

LEMMA KnowsFrame ==
  ASSUME Typed, Kept, NEW p \in Proc, Knows(p), at'[p] = at[p]
  PROVE  Knows(p)'
<1>1. at[p] \in Local /\ Shape(p)
  BY DEF Typed, TypeOK
<1>2. (OwnTodo(p) /\ AtHome(p) /\ Distinct(p))'
  BY DEF Knows, OwnTodo, AtHome, Distinct, Alone
<1>3. (Fresh(p) /\ Stored(p))'
  BY DEF Knows, Fresh, Stored, Alone, Kept
<1>4. Handled(p)'
  <2>1. at[p].polled \subseteq Msg /\ (p \in Worker /\ at[p].pc # "idle" => at[p].folder \in Folder)
    BY <1>1 DEF Local, Shape
  <2> QED BY <2>1 DEF Knows, Handled, Kept
<1> QED BY <1>2, <1>3, <1>4 DEF Knows

LEMMA KnowsIdle ==
  ASSUME NEW p \in Proc, at'[p] = Idle
  PROVE  Knows(p)'
  BY DEF Idle, Knows, OwnTodo, AtHome, Distinct, Fresh, Handled, Stored, InHandSteps

\* Everything but the place stays as it is.
Keeps(p) ==
    /\ at'[p].folder = at[p].folder /\ at'[p].msg = at[p].msg
    /\ at'[p].todo = at[p].todo /\ at'[p].polled = at[p].polled
    /\ at'[p].keys = at[p].keys /\ at'[p].dry = at[p].dry
    /\ at'[p].cutoff = at[p].cutoff

\* The process goes on with the message in hand.
LEMMA KnowsGoOn ==
  ASSUME Typed, Kept, NEW p \in Proc, Knows(p), Keeps(p),
         at[p].pc \in InHandSteps, at'[p].pc \in InHandSteps,
         at'[p].pc \in {"claim", "fetch", "parse"} => at[p].pc \in {"claim", "fetch", "parse"},
         at'[p].pc \in {"confirm", "resolve"} =>
            at[p].pc \in {"confirm", "resolve"} \/ at[p].msg \in txns'
  PROVE  Knows(p)'
<1>1. at[p] \in Local /\ Shape(p)
  BY DEF Typed, TypeOK
<1>2. at[p].polled \subseteq Msg /\ at[p].folder \in Folder
  BY <1>1 DEF Local, Shape
<1>3. (OwnTodo(p) /\ AtHome(p) /\ Distinct(p))'
  BY DEF Keeps, Knows, OwnTodo, AtHome, Distinct, Alone
<1>4. Fresh(p)'
  BY DEF Keeps, Knows, Fresh, Alone, Kept
<1>5. Handled(p)'
  BY <1>2 DEF Keeps, Knows, Handled, Kept, InHandSteps
<1>6. Stored(p)'
  BY DEF Keeps, Knows, Stored, Kept
<1> QED BY <1>3, <1>4, <1>5, <1>6 DEF Knows

\* The process is done with the message in hand.
LEMMA KnowsDone ==
  ASSUME Typed, Kept, NEW p \in Proc, Knows(p), Keeps(p),
         at[p].pc \in InHandSteps, at'[p].pc = "next",
         p \in Worker /\ ~at[p].dry =>
            at[p].msg \in txns' \/ failure'[at[p].folder][at[p].msg] # "NONE"
  PROVE  Knows(p)'
<1>1. at[p] \in Local /\ Shape(p)
  BY DEF Typed, TypeOK
<1>2. at[p].polled \subseteq Msg /\ at[p].folder \in Folder
  BY <1>1 DEF Local, Shape
<1>3. (OwnTodo(p) /\ AtHome(p) /\ Distinct(p))'
  BY DEF Keeps, Knows, OwnTodo, AtHome, Distinct, Alone, InHandSteps
<1>4. Fresh(p)'
  BY DEF Keeps, Knows, Fresh, Alone, Kept
<1>5. Handled(p)'
  BY <1>2 DEF Keeps, Knows, Handled, Kept, InHandSteps
<1>6. Stored(p)'
  BY DEF Stored
<1> QED BY <1>3, <1>4, <1>5, <1>6 DEF Knows

\* A step that changes the place of p, and perhaps one of its flags.
Goes(p, s) ==
    /\ Keeps(p) /\ at'[p].pc = s
    /\ \A q \in Proc \ {p} : at'[q] = at[q]

LEMMA GoesPc ==
  ASSUME TypeOK, NEW p \in Proc, NEW s \in Step, at' = [at EXCEPT ![p].pc = s]
  PROVE  Goes(p, s)
  BY DEF Goes, Keeps, TypeOK, Local

LEMMA GoesPcCaught ==
  ASSUME TypeOK, NEW p \in Proc, NEW s \in Step, NEW b \in BOOLEAN,
         at' = [at EXCEPT ![p] = [@ EXCEPT !.pc = s, !.caught = b]]
  PROVE  Goes(p, s)
  BY DEF Goes, Keeps, TypeOK, Local

LEMMA GoesPcFound ==
  ASSUME TypeOK, NEW p \in Proc, NEW s \in Step, NEW b \in BOOLEAN,
         at' = [at EXCEPT ![p] = [@ EXCEPT !.pc = s, !.found = b]]
  PROVE  Goes(p, s)
  BY DEF Goes, Keeps, TypeOK, Local

LEMMA PollKnows ==
  ASSUME IInv, NEW w \in Worker, Poll(w)
  PROVE  Knows(w)'
<1> USE DEF IInv
<1>1. at[w] \in Local /\ at \in [Proc -> Local] /\ w \in Proc /\ at[w].folder \in Folder
  BY DEF Typed, TypeOK, Proc, Poll, At, Shape
<1>2. PICK list \in Listings(labelled[at[w].folder]) :
        LET new == {m \in list : ReceivedAt[m] > at[w].cutoff}
        IN  at' = [at EXCEPT ![w] = [@ EXCEPT
                    !.pc = "next", !.polled = new, !.todo = {at[w].folder} \X new, !.keys = txns]]
  BY DEF Poll
<1> DEFINE new == {m \in list : ReceivedAt[m] > at[w].cutoff}
<1>3. /\ at'[w].pc = "next" /\ at'[w].folder = at[w].folder
      /\ at'[w].polled = new /\ at'[w].todo = {at[w].folder} \X new
      /\ at'[w].keys = txns /\ at'[w].dry = at[w].dry
  BY <1>1, <1>2 DEF Local
<1>4. new \subseteq labelled[at[w].folder] /\ txns' = txns
  BY <1>2 DEF Listings, Poll
<1> HIDE DEF new
<1>5. AtHome(w)'
  BY <1>1, <1>3, <1>4 DEF AtHome, RowsAtHome, InHandSteps
<1>6. (OwnTodo(w) /\ Distinct(w) /\ Handled(w) /\ Stored(w))'
  BY <1>3 DEF OwnTodo, Distinct, Handled, Stored, InHandSteps
<1>7. Fresh(w)'
  BY <1>3, <1>4 DEF Fresh
<1> QED BY <1>5, <1>6, <1>7 DEF Knows

LEMMA SelectKnows ==
  ASSUME IInv, NEW p \in Retrier, Select(p)
  PROVE  Knows(p)'
<1> USE DEF IInv
<1>1. at \in [Proc -> Local] /\ p \in Proc /\ p \notin Worker
  BY ImportAssumption DEF Typed, TypeOK, Proc
<1>2. PICK rows \in SUBSET Rows, b \in BOOLEAN :
        at' = [at EXCEPT ![p] = [Idle EXCEPT !.pc = "next", !.todo = rows, !.keys = txns, !.dry = b]]
  BY DEF Select
<1>3. at'[p].pc = "next" /\ at'[p].todo = rows /\ at'[p].keys = txns /\ txns' = txns
  BY <1>1, <1>2 DEF Idle, Select
<1>4. \A r \in rows : r[1] \in Homes[r[2]] /\ r \in Folder \X Msg
  BY <1>2 DEF Rows, RowsAtHome
<1>5. AtHome(p)' /\ Fresh(p)'
  BY <1>3, <1>4 DEF AtHome, Fresh, InHandSteps
<1>6. Distinct(p)'
  <2>1. ASSUME OneHome, NEW r \in rows, NEW s \in rows, r[2] = s[2] PROVE r = s
    BY <1>4, <2>1, ImportAssumption DEF OneHome
  <2> QED BY <1>1, <1>3, <2>1 DEF Distinct, Alone, InHandSteps, OneHome
<1>7. (OwnTodo(p) /\ Handled(p) /\ Stored(p))'
  BY <1>1, <1>3 DEF OwnTodo, Handled, Stored
<1> QED BY <1>5, <1>6, <1>7 DEF Knows

LEMMA TakeKnows ==
  ASSUME IInv, NEW p \in Proc, Take(p)
  PROVE  Knows(p)'
<1> USE DEF IInv
<1>1. /\ at[p] \in Local /\ at \in [Proc -> Local] /\ at[p].pc = "next"
      /\ p \in Worker => at[p].folder \in Folder
  BY DEF Typed, TypeOK, Take, At, Shape
<1>2. PICK r \in at[p].todo :
        at' = [at EXCEPT ![p] = [@ EXCEPT
                 !.pc = IF p \in Worker THEN "parse" ELSE "claim",
                 !.todo = at[p].todo \ {r}, !.folder = r[1], !.msg = r[2],
                 !.found = FALSE, !.caught = FALSE]]
  BY DEF Take
<1>3. /\ at'[p].pc = IF p \in Worker THEN "parse" ELSE "claim"
      /\ at'[p].todo = at[p].todo \ {r} /\ at'[p].folder = r[1] /\ at'[p].msg = r[2]
      /\ at'[p].keys = at[p].keys /\ at'[p].dry = at[p].dry /\ at'[p].polled = at[p].polled
  BY <1>1, <1>2 DEF Local
<1>4. r \in Folder \X Msg /\ txns' = txns /\ failure' = failure
  BY <1>1 DEF Local, Take
<1>5. OwnTodo(p) /\ AtHome(p) /\ Distinct(p) /\ Fresh(p) /\ Handled(p)
  BY DEF Knows
<1>6. p \in Worker => r[1] = at[p].folder
  BY <1>5 DEF OwnTodo
<1>7. OwnTodo(p)'
  BY <1>3, <1>5, <1>6 DEF OwnTodo
<1>8. AtHome(p)'
  BY <1>3, <1>5 DEF AtHome
<1>9. Distinct(p)'
  BY <1>3, <1>5 DEF Distinct, Alone, OneHome
<1>10. Fresh(p)'
  BY <1>3, <1>4, <1>5 DEF Fresh, Alone, OneHome
<1>11. Handled(p)'
  <2>1. CASE p \in Worker
    <3>1. ASSUME NEW m \in at[p].polled, m # r[2], <<at[p].folder, m>> \in at[p].todo
          PROVE  <<at'[p].folder, m>> \in at'[p].todo
      BY <1>3, <1>4, <1>6, <2>1, <3>1
    <3>2. at'[p].pc \in InHandSteps
      BY <1>3, <2>1 DEF InHandSteps, Step
    <3> QED BY <1>1, <1>3, <1>4, <1>5, <1>6, <2>1, <3>1, <3>2 DEF Handled, InHandSteps
  <2>2. CASE p \notin Worker
    BY <2>2 DEF Handled
  <2> QED BY <2>1, <2>2
<1>12. Stored(p)'
  BY <1>3 DEF Stored
<1> QED BY <1>7, <1>8, <1>9, <1>10, <1>11, <1>12 DEF Knows

LEMMA ParseKnows ==
  ASSUME IInv, NEW p \in Proc, Parse(p)
  PROVE  Knows(p)'
<1> USE DEF IInv
<1>1. /\ at[p] \in Local /\ at \in [Proc -> Local] /\ Shape(p) /\ at[p].pc = "parse"
  BY DEF Typed, TypeOK, Parse, At
<1>2. at[p].folder \in Folder /\ at[p].msg \in Msg
  BY <1>1 DEF Shape, InHandSteps, Step
<1>3. /\ at' = [at EXCEPT ![p] = [@ EXCEPT
                  !.pc = IF at[p].msg \in at[p].keys \/ at[p].dry THEN AfterStored(p) ELSE "write",
                  !.keys = at[p].keys \cup {at[p].msg}]]
      /\ txns' = txns /\ failure' = failure
  BY DEF Parse
<1>4. /\ at'[p].pc = IF at[p].msg \in at[p].keys \/ at[p].dry THEN AfterStored(p) ELSE "write"
      /\ at'[p].keys = at[p].keys \cup {at[p].msg}
      /\ at'[p].todo = at[p].todo /\ at'[p].folder = at[p].folder /\ at'[p].msg = at[p].msg
      /\ at'[p].dry = at[p].dry /\ at'[p].polled = at[p].polled
  BY <1>1, <1>3 DEF Local
<1>5. /\ at'[p].pc \in {"next", "resolve", "write"}
      /\ at'[p].pc # "write" => at[p].msg \in at[p].keys \/ at[p].dry
      /\ at'[p].pc = "resolve" => ~at[p].dry
  BY <1>4 DEF AfterStored
<1>6. OwnTodo(p) /\ AtHome(p) /\ Distinct(p) /\ Fresh(p) /\ Handled(p)
  BY DEF Knows
<1>7. (OwnTodo(p) /\ AtHome(p) /\ Distinct(p))'
  BY <1>1, <1>4, <1>5, <1>6 DEF OwnTodo, AtHome, Distinct, Alone, OneHome, InHandSteps, Step
<1>8. Alone(p) /\ ~at[p].dry /\ at[p].msg \in at[p].keys => at[p].msg \in txns
  BY <1>1, <1>6 DEF Fresh
<1>9. Fresh(p)'
  <2>1. at[p].pc \in InHandSteps
    BY <1>1 DEF InHandSteps, Step
  <2> QED BY <1>3, <1>4, <1>5, <1>6, <2>1 DEF Fresh, Distinct, Alone, OneHome
<1>10. Handled(p)'
  BY <1>1, <1>3, <1>4, <1>5, <1>6, <1>8 DEF Handled, Alone, InHandSteps, Step
<1>11. Stored(p)'
  BY <1>3, <1>4, <1>5, <1>8 DEF Stored, Alone, OneHome
<1> QED BY <1>7, <1>9, <1>10, <1>11 DEF Knows

\* It is enough to look at the process that moves.
LEMMA OthersKnow ==
  ASSUME IInv, Kept, NEW p \in Proc, Knows(p)', \A q \in Proc \ {p} : at'[q] = at[q]
  PROVE  \A q \in Proc : Knows(q)'
  BY KnowsFrame DEF IInv

LEMMA AllGoOn ==
  ASSUME IInv, Kept, NEW p \in Proc, NEW s \in InHandSteps, Goes(p, s),
         at[p].pc \in InHandSteps,
         s \in {"claim", "fetch", "parse"} => at[p].pc \in {"claim", "fetch", "parse"},
         s \in {"confirm", "resolve"} => at[p].pc \in {"confirm", "resolve"} \/ at[p].msg \in txns'
  PROVE  \A q \in Proc : Knows(q)'
<1>1. Knows(p)'
  BY KnowsGoOn DEF IInv, Goes
<1> QED BY <1>1, OthersKnow DEF Goes

LEMMA AllDone ==
  ASSUME IInv, Kept, NEW p \in Proc, Goes(p, "next"), at[p].pc \in InHandSteps,
         p \in Worker /\ ~at[p].dry =>
            at[p].msg \in txns' \/ failure'[at[p].folder][at[p].msg] # "NONE"
  PROVE  \A q \in Proc : Knows(q)'
<1>1. Knows(p)'
  BY KnowsDone DEF IInv, Goes
<1> QED BY <1>1, OthersKnow DEF Goes

LEMMA AllIdle ==
  ASSUME IInv, Kept, NEW p \in Proc, at' = [at EXCEPT ![p] = Idle]
  PROVE  \A q \in Proc : Knows(q)'
<1>1. at'[p] = Idle /\ \A q \in Proc \ {p} : at'[q] = at[q]
  BY DEF IInv, Typed, TypeOK
<1> QED BY <1>1, KnowsIdle, OthersKnow

LEMMA NextKnows == IInv /\ [Next]_vars => \A q \in Proc : Knows(q)'
<1> SUFFICES ASSUME IInv, [Next]_vars
             PROVE  \A q \in Proc : Knows(q)'
  OBVIOUS
<1> DEFINE Goal == \A q \in Proc : Knows(q)'
<1>0. /\ Kept /\ TypeOK /\ at \in [Proc -> Local]
      /\ \A p \in Proc : Shape(p)
      /\ Worker \subseteq Proc /\ Retrier \subseteq Proc /\ Worker \cap Retrier = {}
  BY StepEffect, ImportAssumption DEF IInv, Typed, TypeOK, Effect, Proc
<1>1. ASSUME at' = at PROVE Goal
  BY <1>0, <1>1, KnowsFrame DEF IInv
<1>2. ASSUME NEW f \in Folder, NEW m \in Msg, Label(f, m) \/ Ignore(f, m) PROVE Goal
  BY <1>1, <1>2 DEF Label, Ignore
<1>3. ASSUME NEW w \in Worker, NEW f \in Folder, Begin(w, f) PROVE Goal
  <2>1. /\ at'[w].pc = "polling" /\ at'[w].todo = {} /\ at'[w].keys = {}
        /\ \A q \in Proc \ {w} : at'[q] = at[q]
    BY <1>0, <1>3 DEF Begin, Idle
  <2>2. Knows(w)'
    BY <2>1 DEF Knows, OwnTodo, AtHome, Distinct, Fresh, Handled, Stored, InHandSteps
  <2> QED BY <1>0, <2>1, <2>2, OthersKnow
<1>4. ASSUME NEW w \in Worker, Poll(w) PROVE Goal
  BY <1>0, <1>4, PollKnows, OthersKnow DEF Poll
<1>5. ASSUME NEW w \in Worker, DrainFails(w) \/ Finish(w) PROVE Goal
  BY <1>0, <1>5, AllIdle DEF DrainFails, Finish
<1>6. ASSUME NEW p \in Retrier, Select(p) PROVE Goal
  BY <1>0, <1>6, SelectKnows, OthersKnow DEF Select
<1>7. ASSUME NEW p \in Retrier, Claim(p) PROVE Goal
  BY <1>0, <1>7, GoesPc, AllGoOn DEF Claim, At, InHandSteps, Step
<1>8. ASSUME NEW p \in Retrier, Fetch(p) PROVE Goal
  <2>1. PICK present \in BOOLEAN :
          at' = [at EXCEPT ![p].pc = IF present THEN "parse"
                                     ELSE IF at[p].dry THEN "next" ELSE "reopen"]
    BY <1>8 DEF Fetch
  <2>2. CASE present
    BY <1>0, <1>8, <2>1, <2>2, GoesPc, AllGoOn DEF Fetch, At, InHandSteps, Step
  <2>3. CASE ~present /\ at[p].dry
    BY <1>0, <1>8, <2>1, <2>3, GoesPc, AllDone DEF Fetch, At, InHandSteps, Step
  <2>4. CASE ~present /\ ~at[p].dry
    BY <1>0, <1>8, <2>1, <2>4, GoesPc, AllGoOn DEF Fetch, At, InHandSteps, Step
  <2> QED BY <2>2, <2>3, <2>4
<1>9. ASSUME NEW p \in Retrier, Resolve(p) \/ Reopen(p) PROVE Goal
  <2>1. at' = [at EXCEPT ![p].pc = "next"] /\ at[p].pc \in {"resolve", "reopen"}
    BY <1>9 DEF Resolve, Reopen, At
  <2> QED BY <1>0, <2>1, GoesPc, AllDone DEF InHandSteps, Step
<1>10. ASSUME NEW p \in Retrier, RetryThrows(p) \/ RetryDone(p) PROVE Goal
  BY <1>0, <1>10, AllIdle DEF RetryThrows, RetryDone
<1>11. ASSUME NEW p \in Proc, Take(p) PROVE Goal
  BY <1>0, <1>11, TakeKnows, OthersKnow DEF Take
<1>12. ASSUME NEW p \in Proc, Parse(p) PROVE Goal
  BY <1>0, <1>12, ParseKnows, OthersKnow DEF Parse
<1>13. ASSUME NEW p \in Proc, ParseFails(p) \/ WriteFails(p) PROVE Goal
  <2>1. PICK b \in BOOLEAN : at' = [at EXCEPT ![p] = [@ EXCEPT !.pc = "find", !.caught = b]]
    BY <1>13 DEF ParseFails, WriteFails
  <2>2. at[p].pc \in {"parse", "write"}
    BY <1>13 DEF ParseFails, WriteFails, At
  <2> QED BY <1>0, <2>1, <2>2, GoesPcCaught, AllGoOn DEF InHandSteps, Step
<1>14. ASSUME NEW p \in Proc, Write(p) PROVE Goal
  <2>1. /\ at[p].pc = "write" /\ at[p].msg \in txns'
        /\ at' = [at EXCEPT ![p].pc = IF p \in Worker THEN "next" ELSE "confirm"]
    BY <1>14 DEF Write, At
  <2>2. CASE p \in Worker
    BY <1>0, <2>1, <2>2, GoesPc, AllDone DEF InHandSteps, Step
  <2>3. CASE p \notin Worker
    BY <1>0, <2>1, <2>3, GoesPc, AllGoOn DEF InHandSteps, Step
  <2> QED BY <2>2, <2>3
<1>15. ASSUME NEW p \in Proc, Confirm(p) PROVE Goal
  BY <1>0, <1>15, GoesPc, AllGoOn DEF Confirm, At, InHandSteps, Step
<1>16. ASSUME NEW p \in Proc, ConfirmThrows(p) PROVE Goal
  BY <1>0, <1>16, GoesPcCaught, AllGoOn DEF ConfirmThrows, At, InHandSteps, Step
<1>17. ASSUME NEW p \in Proc, Find(p) PROVE Goal
  BY <1>0, <1>17, GoesPcFound, AllGoOn DEF Find, At, InHandSteps, Step
<1>18. ASSUME NEW p \in Proc, Save(p) PROVE Goal
  <2>1. at[p].pc = "save" /\ at' = [at EXCEPT ![p].pc = AfterFailed(p)]
    BY <1>18 DEF Save, At
  <2>2. failure'[at[p].folder][at[p].msg] # "NONE"
    BY <1>0, <1>18, <2>1 DEF Save, SetFailure, TypeOK, Shape, InHandSteps, Step
  <2>3. CASE AfterFailed(p) = "next"
    BY <1>0, <2>1, <2>2, <2>3, GoesPc, AllDone DEF InHandSteps, Step
  <2>4. CASE AfterFailed(p) = "reopen"
    BY <1>0, <2>1, <2>4, GoesPc, AllGoOn DEF InHandSteps, Step
  <2> QED BY <2>3, <2>4 DEF AfterFailed
<1>19. ASSUME NEW p \in Proc, SaveThrows(p) PROVE Goal
  <2>1. CASE at[p].caught
    BY <1>0, <1>19, <2>1, AllIdle DEF SaveThrows
  <2>2. CASE ~at[p].caught
    BY <1>0, <1>19, <2>2, GoesPcCaught, AllGoOn DEF SaveThrows, At, InHandSteps, Step
  <2> QED BY <2>1, <2>2
<1>20. ASSUME NEW k \in Key, NEW m \in Msg, Rebase(k, ReceivedAt[m]) PROVE Goal
  BY <1>1, <1>20 DEF Rebase
<1>21. CASE Crash
  BY <1>21, KnowsIdle DEF Crash
<1>22. CASE UNCHANGED vars
  BY <1>1, <1>22 DEF vars
<1> QED
  BY <1>2, <1>3, <1>4, <1>5, <1>6, <1>7, <1>8, <1>9, <1>10, <1>11, <1>12, <1>13, <1>14,
     <1>15, <1>16, <1>17, <1>18, <1>19, <1>20, <1>21, <1>22 DEF Next, Drain, Retry, Process

-----------------------------------------------------------------------------
(* Nothing is lost, and what is resolved is stored *)

LEMMA InitIInv == Init => IInv
<1> SUFFICES ASSUME Init PROVE IInv
  OBVIOUS
<1>1. \A p \in Proc : at[p] = Idle
  BY DEF Init
<1>2. \A p \in Proc : Knows(p)
  BY <1>1 DEF Idle, Knows, OwnTodo, AtHome, Distinct, Fresh, Handled, Stored, InHandSteps
<1>3. RowsAtHome /\ Accounted /\ ResolvedIsStored
  BY DEF Init, RowsAtHome, Accounted, ResolvedIsStored
<1> QED BY <1>2, <1>3, InitTyped DEF IInv

\* The watermark moves over messages the run is done with.
LEMMA FinishAccounts ==
  ASSUME IInv, NEW w \in Worker, Finish(w)
  PROVE  Accounted'
<1>1. w \in Proc /\ at[w].pc = "next" /\ at[w].todo = {} /\ txns' = txns /\ failure' = failure
  BY DEF Finish, At, Proc
<1>2. CASE drained' = drained
  BY <1>1, <1>2 DEF IInv, Accounted
<1>3. CASE drained' = [drained EXCEPT ![at[w].folder] = @ \cup at[w].polled] /\ ~at[w].dry
  <2>1. \A m \in at[w].polled : m \in txns \/ failure[at[w].folder][m] # "NONE"
    BY <1>1, <1>3 DEF IInv, Knows, Handled, InHandSteps
  <2> QED BY <1>1, <1>3, <2>1 DEF IInv, Typed, TypeOK, Accounted
<1> QED BY <1>2, <1>3 DEF Finish

LEMMA NextIInv == IInv /\ [Next]_vars => IInv'
<1> SUFFICES ASSUME IInv, [Next]_vars PROVE IInv'
  OBVIOUS
<1> USE DEF IInv
<1>1. Typed' /\ Effect /\ Kept
  BY NextTyped, StepEffect DEF Effect
<1>2. \A p \in Proc : Knows(p)'
  BY NextKnows
<1>3. RowsAtHome'
  <2>1. ASSUME NEW f \in Folder, NEW m \in labelled'[f] PROVE f \in Homes[m]
    <3>1. CASE labelled' = labelled
      BY <2>1, <3>1 DEF RowsAtHome
    <3>2. ASSUME NEW g \in Folder, NEW n \in Msg, Label(g, n) PROVE f \in Homes[m]
      <4>1. g \in Homes[n] /\ labelled' = [labelled EXCEPT ![g] = labelled[g] \cup {n}]
        BY <3>2 DEF Label
      <4>2. m \in labelled[f] \/ (f = g /\ m = n)
        BY <2>1, <4>1 DEF Typed, TypeOK
      <4> QED BY <4>1, <4>2 DEF RowsAtHome
    <3> QED BY <1>1, <3>1, <3>2 DEF Effect
  <2>2. ASSUME NEW f \in Folder, NEW m \in Msg, failure'[f][m] # "NONE" PROVE f \in Homes[m]
    BY <1>1, <2>2 DEF Effect, RowsAtHome, Knows, AtHome
  <2> QED BY <2>1, <2>2 DEF RowsAtHome
<1>4. Accounted'
  <2>1. CASE drained' = drained
    <3>1. \A f \in Folder : drained[f] \subseteq Msg
      BY DEF Typed, TypeOK
    <3> QED BY <1>1, <2>1, <3>1 DEF Accounted, Kept
  <2> QED BY <1>1, <2>1, FinishAccounts DEF Effect
<1>5. OneHome => ResolvedIsStored'
  BY <1>1 DEF Effect, Kept, Knows, Stored, ResolvedIsStored
<1> QED BY <1>1, <1>2, <1>3, <1>4, <1>5 DEF OneHome

\* No message a watermark was moved over is lost, whether runs take turns or
\* overlap, whatever retries, rebases, crashes and failed calls do.
THEOREM NothingLost == Spec => []Accounted
<1>1. IInv => Accounted
  BY DEF IInv
<1> QED BY <1>1, InitIInv, NextIInv, PTL DEF Spec

\* As long as no message has two labels, a failure row that says RESOLVED is
\* that of a stored message.
THEOREM ResolvedNeedsOneHome == OneHome /\ Spec => []ResolvedIsStored
<1>1. OneHome => OneHome'
  BY DEF OneHome
<1>2. IInv /\ OneHome => ResolvedIsStored
  BY DEF IInv
<1> QED BY <1>1, <1>2, InitIInv, NextIInv, PTL DEF Spec

-----------------------------------------------------------------------------
(* Runs that take turns move watermarks forward *)

\* Only one run is at work; its label's watermark has not passed the one it
\* has read, and what it has polled is newer.
InTurn ==
    /\ \A v, w \in Worker : ~At(v, "idle") /\ ~At(w, "idle") => v = w
    /\ \A w \in Worker :
         /\ ~At(w, "idle") => mark[at[w].folder] <= at[w].cutoff
         /\ \A m \in at[w].polled : ReceivedAt[m] > at[w].cutoff

Turns == Exclusive /\ MaxRebase = 0

\* A worker that stays at work keeps its label, its cutoff and what it polled.
Steady(w) ==
    /\ ~At(w, "idle")
    /\ at'[w].folder = at[w].folder /\ at'[w].cutoff = at[w].cutoff
    /\ at'[w].polled = at[w].polled

LEMMA WorkerStep ==
  ASSUME IInv, [Next]_vars, NEW w \in Worker
  PROVE  \/ at'[w] = at[w]
         \/ at'[w] = Idle
         \/ \E f \in Folder : Begin(w, f)
         \/ Poll(w)
         \/ Steady(w)
<1> DEFINE Goal == \/ at'[w] = at[w]
                   \/ at'[w] = Idle
                   \/ \E f \in Folder : Begin(w, f)
                   \/ Poll(w)
                   \/ Steady(w)
<1> SUFFICES Goal
  OBVIOUS
<1>0. /\ TypeOK /\ at \in [Proc -> Local] /\ at[w] \in Local
      /\ w \in Proc /\ w \notin Retrier
      /\ Worker \subseteq Proc /\ Retrier \subseteq Proc
  BY ImportAssumption DEF IInv, Typed, TypeOK, Proc
<1>1. ASSUME at' = at PROVE Goal
  BY <1>1
<1>2. ASSUME NEW p \in Proc, NEW l, at' = [at EXCEPT ![p] = l], p # w PROVE Goal
  BY <1>0, <1>2
<1>3. ASSUME NEW p \in Proc, NEW s \in Step, Goes(p, s), ~At(p, "idle") PROVE Goal
  BY <1>0, <1>3 DEF Goes, Keeps, Steady
<1>4. ASSUME NEW f \in Folder, NEW m \in Msg, Label(f, m) \/ Ignore(f, m) PROVE Goal
  BY <1>1, <1>4 DEF Label, Ignore
<1>5. ASSUME NEW v \in Worker, NEW f \in Folder, Begin(v, f) PROVE Goal
  <2>1. CASE v = w
    BY <1>5, <2>1
  <2>2. CASE v # w
    BY <1>0, <1>5, <2>2 DEF Begin
  <2> QED BY <2>1, <2>2
<1>6. ASSUME NEW v \in Worker, Poll(v) PROVE Goal
  <2>1. CASE v = w
    BY <1>6, <2>1
  <2>2. CASE v # w
    BY <1>0, <1>6, <2>2 DEF Poll
  <2> QED BY <2>1, <2>2
<1>7. ASSUME NEW p \in Proc, at' = [at EXCEPT ![p] = Idle] PROVE Goal
  BY <1>0, <1>7
<1>8. ASSUME NEW p \in Retrier, Select(p) \/ Claim(p) \/ Fetch(p) \/ Resolve(p) \/ Reopen(p)
      PROVE  Goal
  BY <1>0, <1>8 DEF Select, Claim, Fetch, Resolve, Reopen
<1>9. ASSUME NEW p \in Proc, Take(p) PROVE Goal
  <2>1. PICK r \in at[p].todo :
          at' = [at EXCEPT ![p] = [@ EXCEPT
                   !.pc = IF p \in Worker THEN "parse" ELSE "claim",
                   !.todo = at[p].todo \ {r}, !.folder = r[1], !.msg = r[2],
                   !.found = FALSE, !.caught = FALSE]]
    BY <1>9 DEF Take
  <2>2. CASE p = w
    <3>1. r[1] = at[w].folder
      BY <1>0, <2>1, <2>2 DEF IInv, Knows, OwnTodo
    <3>2. /\ at'[w].folder = r[1] /\ at'[w].cutoff = at[w].cutoff
          /\ at'[w].polled = at[w].polled
      BY <1>0, <2>1, <2>2 DEF Local
    <3> QED BY <1>9, <2>2, <3>1, <3>2 DEF Take, At, Steady
  <2>3. CASE p # w
    BY <1>2, <2>1, <2>3
  <2> QED BY <2>2, <2>3
<1>10. ASSUME NEW p \in Proc, Parse(p) PROVE Goal
  <2>1. CASE p = w
    BY <1>0, <1>10, <2>1 DEF Parse, At, Steady, Local
  <2>2. CASE p # w
    BY <1>2, <1>10, <2>2 DEF Parse
  <2> QED BY <2>1, <2>2
<1>11. ASSUME NEW p \in Proc, ParseFails(p) \/ WriteFails(p) \/ ConfirmThrows(p) PROVE Goal
  <2>1. PICK b \in BOOLEAN : at' = [at EXCEPT ![p] = [@ EXCEPT !.pc = "find", !.caught = b]]
    BY <1>11 DEF ParseFails, WriteFails, ConfirmThrows
  <2>2. ~At(p, "idle")
    BY <1>11 DEF ParseFails, WriteFails, ConfirmThrows, At
  <2> QED BY <1>0, <1>3, <2>1, <2>2, GoesPcCaught DEF Step
<1>12. ASSUME NEW p \in Proc, Write(p) \/ Confirm(p) \/ Save(p) PROVE Goal
  <2>1. PICK s \in Step : at' = [at EXCEPT ![p].pc = s]
    BY <1>12 DEF Write, Confirm, Save, AfterFailed, Step
  <2>2. ~At(p, "idle")
    BY <1>12 DEF Write, Confirm, Save, At
  <2> QED BY <1>0, <1>3, <2>1, <2>2, GoesPc
<1>13. ASSUME NEW p \in Proc, Find(p) PROVE Goal
  BY <1>0, <1>3, <1>13, GoesPcFound DEF Find, At, Step
<1>14. ASSUME NEW p \in Proc, SaveThrows(p) PROVE Goal
  <2>1. CASE at[p].caught
    BY <1>7, <1>14, <2>1 DEF SaveThrows
  <2>2. CASE ~at[p].caught
    BY <1>0, <1>3, <1>14, <2>2, GoesPcCaught DEF SaveThrows, At, Step
  <2> QED BY <2>1, <2>2
<1>15. ASSUME NEW k \in Key, NEW m \in Msg, Rebase(k, ReceivedAt[m]) PROVE Goal
  BY <1>1, <1>15 DEF Rebase
<1>16. CASE Crash
  BY <1>0, <1>16 DEF Crash
<1>17. CASE UNCHANGED vars
  BY <1>1, <1>17 DEF vars
<1>18. ASSUME NEW v \in Worker, DrainFails(v) \/ Finish(v) PROVE Goal
  BY <1>0, <1>7, <1>18 DEF DrainFails, Finish
<1>19. ASSUME NEW p \in Retrier, RetryThrows(p) \/ RetryDone(p) PROVE Goal
  BY <1>0, <1>7, <1>19 DEF RetryThrows, RetryDone
<1> QED
  BY <1>4, <1>5, <1>6, <1>8, <1>9, <1>10, <1>11, <1>12, <1>13, <1>14,
     <1>15, <1>16, <1>17, <1>18, <1>19 DEF Next, Drain, Retry, Process

\* Without rebases, only the end of a run moves a watermark.
LEMMA MarkStep ==
  ASSUME Turns, TypeOK, [Next]_vars
  PROVE  mark' = mark \/ \E w \in Worker : Finish(w)
<1>1. ASSUME NEW k \in Key, NEW to, Rebase(k, to) PROVE FALSE
  BY <1>1 DEF Turns, TypeOK, Rebase
<1>2. ASSUME NEW w \in Worker, NEW f \in Folder, Begin(w, f) PROVE mark' = mark
  BY <1>2 DEF Begin
<1>3. ASSUME NEW f \in Folder, NEW m \in Msg, Label(f, m) \/ Ignore(f, m) PROVE mark' = mark
  BY <1>3 DEF Label, Ignore
<1>4. ASSUME NEW p \in Retrier, Select(p) \/ Retry(p) PROVE mark' = mark
  BY <1>4 DEF Select, Retry, Claim, Fetch, Resolve, Reopen, RetryThrows, RetryDone
<1>5. ASSUME NEW p \in Proc, Process(p) PROVE mark' = mark
  BY <1>5 DEF Process, Take, Parse, ParseFails, Write, WriteFails, Confirm, ConfirmThrows,
     Find, Save, SaveThrows
<1>6. ASSUME NEW w \in Worker, Poll(w) \/ DrainFails(w) PROVE mark' = mark
  BY <1>6 DEF Poll, DrainFails
<1>7. CASE Crash \/ UNCHANGED vars
  BY <1>7 DEF Crash, vars
<1> QED
  BY <1>1, <1>2, <1>3, <1>4, <1>5, <1>6, <1>7 DEF Next, Drain

LEMMA NextInTurn ==
  ASSUME Turns, IInv, InTurn, [Next]_vars
  PROVE  InTurn'
<1>0. /\ TypeOK /\ at \in [Proc -> Local] /\ Worker \subseteq Proc
      /\ \A w \in Worker : at[w].cutoff \in Nat /\ at[w].polled \subseteq Msg
      /\ \A w \in Worker : at[w].pc # "idle" => at[w].folder \in Folder
      /\ \A k \in Key : mark[k] \in Nat
      /\ \A m \in Msg : ReceivedAt[m] \in Nat
  BY ImportAssumption DEF IInv, Typed, TypeOK, Proc, Local, Shape
<1>1. Idle.pc = "idle" /\ Idle.polled = {}
  BY DEF Idle
<1>2. ASSUME NEW w \in Worker, NEW f \in Folder, Begin(w, f) PROVE InTurn'
  <2>1. /\ at'[w].folder = f /\ at'[w].cutoff = Window(f) /\ at'[w].polled = {}
        /\ \A v \in Worker \ {w} : at'[v] = at[v]
        /\ \A v \in Worker : at[v].pc = "idle"
        /\ mark' = mark
    BY <1>0, <1>2 DEF Begin, Idle, Turns, At
  <2>2. mark[f] <= Window(f)
    BY <1>0, ImportAssumption DEF Window, Key
  <2> QED BY <2>1, <2>2 DEF InTurn, At
<1>3. ASSUME NEW w \in Worker, Poll(w) PROVE InTurn'
  <2>1. PICK list \in Listings(labelled[at[w].folder]) :
          LET new == {m \in list : ReceivedAt[m] > at[w].cutoff}
          IN  at' = [at EXCEPT ![w] = [@ EXCEPT
                      !.pc = "next", !.polled = new, !.todo = {at[w].folder} \X new, !.keys = txns]]
    BY <1>3 DEF Poll
  <2>2. /\ at'[w].folder = at[w].folder /\ at'[w].cutoff = at[w].cutoff
        /\ \A m \in at'[w].polled : ReceivedAt[m] > at[w].cutoff
        /\ \A v \in Worker \ {w} : at'[v] = at[v]
        /\ mark' = mark /\ ~At(w, "idle")
    BY <1>0, <1>3, <2>1 DEF Poll, At, Local
  <2> QED BY <2>2 DEF InTurn, At
<1>4. ASSUME NEW w \in Worker, Finish(w) PROVE InTurn'
  <2>1. /\ at'[w] = Idle /\ ~At(w, "idle")
        /\ \A v \in Worker \ {w} : at'[v] = at[v]
    BY <1>0, <1>4 DEF Finish, At
  <2>2. \A v \in Worker : at'[v].pc = "idle"
    BY <1>1, <2>1 DEF InTurn, At
  <2> QED BY <1>1, <2>1, <2>2 DEF InTurn, At
<1>5. ASSUME \A w \in Worker : at'[w] = at[w] \/ at'[w] = Idle \/ Steady(w), mark' = mark
      PROVE  InTurn'
  BY <1>1, <1>5 DEF InTurn, Steady, At
<1>6. mark' = mark \/ \E w \in Worker : Finish(w)
  BY <1>0, MarkStep
<1> QED BY <1>2, <1>3, <1>4, <1>5, <1>6, WorkerStep

LEMMA StepForward ==
  ASSUME Turns, IInv, InTurn, [Next]_vars
  PROVE  \A k \in Key : mark'[k] >= mark[k]
<1>0. /\ TypeOK /\ \A k \in Key : mark[k] \in Nat
      /\ \A w \in Worker : /\ at[w].cutoff \in Nat /\ at[w].polled \subseteq Msg
                           /\ at[w].pc # "idle" => at[w].folder \in Folder
      /\ \A m \in Msg : ReceivedAt[m] \in Nat
  BY ImportAssumption DEF IInv, Typed, TypeOK, Proc, Local, Shape
<1>1. CASE mark' = mark
  BY <1>0, <1>1
<1>2. ASSUME NEW w \in Worker, Finish(w), mark' # mark PROVE \A k \in Key : mark'[k] >= mark[k]
  <2>1. PICK newest \in at[w].polled : mark' = [mark EXCEPT ![at[w].folder] = ReceivedAt[newest]]
    BY <1>2 DEF Finish
  <2>2. ReceivedAt[newest] > at[w].cutoff /\ mark[at[w].folder] <= at[w].cutoff
    BY <1>2 DEF InTurn, Finish, At
  <2>3. at[w].folder \in Key /\ newest \in Msg
    BY <1>0, <1>2 DEF Finish, At, Key
  <2>4. ReceivedAt[newest] >= mark[at[w].folder]
    BY <1>0, <2>2, <2>3
  <2> QED BY <1>0, <2>1, <2>3, <2>4 DEF TypeOK
<1> QED BY <1>0, <1>1, <1>2, MarkStep

\* Runs that take turns, with nobody rebasing, move the watermark of a label
\* forward only.
THEOREM MonotonicInTurns == Turns /\ Spec => MarkMonotonic
<1>1. Turns => Turns'
  BY DEF Turns
<1>2. Init => InTurn
  BY DEF Init, InTurn, At, Idle, Proc
<1>3. Turns /\ IInv /\ InTurn /\ [Next]_vars => InTurn'
  BY NextInTurn
<1>4. Turns /\ IInv /\ InTurn /\ [Next]_vars => [\A k \in Key : mark'[k] >= mark[k]]_vars
  BY StepForward
<1> QED BY <1>1, <1>2, <1>3, <1>4, InitIInv, NextIInv, PTL DEF Spec, MarkMonotonic
=============================================================================
