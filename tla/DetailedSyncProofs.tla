-------------------------- MODULE DetailedSyncProofs --------------------------
(***************************************************************************)
(* Proofs about DetailedSync, for any sources and bills and any number of  *)
(* runs of the service and of the script.                                  *)
(***************************************************************************)
EXTENDS DetailedSync, TLAPS

-----------------------------------------------------------------------------
(* The inductive invariant *)

Pdfs(s) == {b \in Attached : BillOf[b] = s}

\* The same, if the source shares its card's key, and so its watermark, with none.
OwnPdfs(s) == {b \in Pdfs(s) : OwnKey(s)}

\* The bills that are wholly stored, or that a run has turned away from.
Accounted == {b \in Bill : \/ \E why \in Why : <<b, why>> \in givenUp
                          \/ \E r \in Reading : details[b][r] = "all"}

Busy == {"list", "mail", "link", "store"}

\* A run holds a bill only while it stores it; its messages are its source's, and
\* the bill in hand is one of them that is past the watermark and was seen.
Shape(r) ==
    /\ r.pc \in {"idle", "source", "list", "mail"} => r.bill = None
    /\ r.pc \in {"idle", "source", "list"} => r.mails = {}
    /\ r.pc \in Busy =>
         /\ r.source \in Source
         /\ r.cutoff <= r.seen
         /\ r.mails \subseteq Pdfs(r.source)
    /\ r.pc = "list" => r.seen = r.cutoff
    /\ r.pc \in {"link", "store"} =>
         /\ r.bill \in Bill
         /\ BillOf[r.bill] = r.source
         /\ r.bill \notin r.mails
         /\ r.cutoff < ReceivedOn[r.bill]
         /\ ReceivedOn[r.bill] <= r.seen

\* Between two sources there is one to come.
Onward(r) == r.pc = "source" => r.todo # {}

\* A bill that is not newer than what a run has seen, or has yet to see, is
\* accounted for or still before it, if no other source moves the watermark.
Covers(r, done) ==
    r.pc \in Busy =>
      /\ \A b \in OwnPdfs(r.source) : ReceivedOn[b] <= r.cutoff => b \in done
      /\ ~r.dry /\ r.pc # "list" =>
           \A b \in OwnPdfs(r.source) :
             (ReceivedOn[b] <= r.seen \/ \E o \in r.mails : ReceivedOn[b] <= ReceivedOn[o]) =>
               b \in done \/ b \in r.mails \/ b = r.bill

Good(r, done) == Shape(r) /\ Onward(r) /\ Covers(r, done)

AInv ==
    /\ SyncTypes
    /\ \A p \in Proc : Good(sync[p], Accounted)
    /\ PassedIsAccounted

LEMMA NoRunGood == NoRun \in Run /\ \A done : Good(NoRun, done)
<1> DEFINE r == NoRun
<1>1. r \in Run /\ r.pc = "idle" /\ r.bill = None /\ r.mails = {}
  BY DEF NoRun, Run, Stage
<1> HIDE DEF r
<1>2. \A done : Good(r, done)
  BY <1>1 DEF Good, Shape, Onward, Covers, Busy
<1> QED BY <1>1, <1>2 DEF r

\* What the steps of the runs, of the clock and of the other components keep.
SyncRunsGood == sync' \in [Proc -> Run] /\ \A p \in Proc : Good(sync'[p], Accounted')

LEMMA RunStep ==
    ASSUME AInv, NEW p \in Proc, NEW r \in Run, sync' = [sync EXCEPT ![p] = r],
           Accounted \subseteq Accounted', Good(r, Accounted')
    PROVE  SyncRunsGood
<1>1. sync \in [Proc -> Run] /\ \A q \in Proc : Good(sync[q], Accounted)
  BY DEF AInv, SyncTypes
<1>2. \A q \in Proc : sync'[q] = IF q = p THEN r ELSE sync[q]
  BY <1>1
<1>3. \A q \in Proc : Good(sync[q], Accounted')
  BY <1>1 DEF Good, Covers
<1> QED BY <1>1, <1>2, <1>3 DEF SyncRunsGood

LEMMA GoStep ==
    ASSUME AInv, NEW p \in Proc, NEW r \in Run, Go(p, r),
           Accounted \subseteq Accounted', Shape(r), Covers(r, Accounted')
    PROVE  SyncRunsGood
<1>1. CASE r.pc = "source" /\ r.todo = {}
  <2>1. sync' = [sync EXCEPT ![p] = NoRun]
    BY <1>1 DEF Go
  <2> QED BY <2>1, NoRunGood, RunStep
<1>2. CASE ~(r.pc = "source" /\ r.todo = {})
  <2>1. sync' = [sync EXCEPT ![p] = r]
    BY <1>2 DEF Go
  <2>2. Good(r, Accounted')
    BY <1>2 DEF Good, Onward
  <2> QED BY <2>1, <2>2, RunStep
<1> QED BY <1>1, <1>2

\* What an own key means, and what giving up on bills does.
LEMMA OwnBillsOf ==
    ASSUME NEW b \in Attached, OwnKey(BillOf[b])
    PROVE  /\ b \in Bill /\ BillOf[b] \in Source /\ b \in OwnPdfs(BillOf[b])
           /\ \A s \in Source : CardOf[s] = CardOf[BillOf[b]] => s = BillOf[b]
BY WalletAssumption DEF OwnKey, OwnPdfs, Pdfs

LEMMA GaveUp ==
    ASSUME SyncTypes, NEW p \in Proc, NEW bills \in SUBSET Bill, NEW why \in Why,
           GiveUp(p, bills, why)
    PROVE  /\ givenUp' \in SUBSET (Bill \X Why) /\ givenUp \subseteq givenUp'
           /\ ~sync[p].dry => \A b \in bills : \E w \in Why : <<b, w>> \in givenUp'
BY DEF GiveUp, SyncTypes

LEMMA PassedGrows ==
    ASSUME AInv, UNCHANGED mark, Accounted \subseteq Accounted'
    PROVE  PassedIsAccounted'
<1>1. \A b \in Attached : OwnKey(BillOf[b]) /\ ReceivedOn[b] <= mark[CardOf[BillOf[b]]]
        => b \in Accounted
  BY WalletAssumption DEF AInv, PassedIsAccounted, Accounted
<1>2. \A b \in Attached : OwnKey(BillOf[b]) /\ ReceivedOn[b] <= mark'[CardOf[BillOf[b]]]
        => b \in Accounted'
  BY <1>1
<1> QED BY <1>2 DEF PassedIsAccounted, Accounted

-----------------------------------------------------------------------------
(* Every step keeps it *)

LEMMA StartGood ==
    ASSUME AInv, NEW p \in Proc, NEW selected \in SUBSET Source,
           NEW dryRun \in BOOLEAN, NEW bypass \in BOOLEAN, Start(p, selected, dryRun, bypass)
    PROVE  AInv'
<1> DEFINE r == [NoRun EXCEPT !.pc = "source", !.todo = selected, !.known = cards,
                              !.dry = dryRun, !.bypass = bypass]
<1>1. r \in Run /\ r.pc = "source" /\ r.bill = None /\ r.mails = {}
  BY NoRunGood DEF Run, NoRun, Stage, AInv, SyncTypes
<1>2. Go(p, r) /\ UNCHANGED <<today, cards, rows, mark, details, linked, givenUp, orphaned>>
  BY DEF Start
<1> HIDE DEF r
<1>3. Shape(r) /\ Covers(r, Accounted')
  BY <1>1 DEF Shape, Covers, Busy
<1>4. Accounted' = Accounted
  BY <1>2 DEF Accounted
<1>5. SyncRunsGood
  BY <1>1, <1>2, <1>3, <1>4, GoStep
<1>6. overlapped' \in BOOLEAN
  BY DEF Start, AInv, SyncTypes
<1> QED BY <1>2, <1>4, <1>5, <1>6, PassedGrows DEF SyncRunsGood, AInv, SyncTypes

LEMMA DieGood ==
    ASSUME AInv, NEW p \in Proc, Die(p), Accounted \subseteq Accounted', cards' \in SUBSET Card,
           details' \in [Bill -> [Reading -> {"none", "part", "all"}]],
           linked' \in SUBSET (Bill \X Reading)
    PROVE  AInv'
<1>1. SyncRunsGood
  BY NoRunGood, RunStep DEF Die
<1>2. UNCHANGED <<today, mark, givenUp, overlapped>> /\ orphaned' \in SUBSET Bill
  BY DEF Die, AInv, SyncTypes
<1> QED BY <1>1, <1>2, PassedGrows DEF SyncRunsGood, AInv, SyncTypes

LEMMA NextSourceGood ==
    ASSUME AInv, NEW p \in Proc, NextSource(p)
    PROVE  AInv'
<1> DEFINE run == sync[p]
           s == CHOOSE first \in run.todo : TRUE
           c == CardOf[s]
<1>1. run \in Run /\ Shape(run) /\ run.pc = "source" /\ run.todo # {} /\ run.bill = None
      /\ run.mails = {}
  BY DEF AInv, SyncTypes, Good, Onward, Shape, NextSource, SyncAt
<1>2. s \in Source /\ c \in Card
  <2>1. s \in run.todo
    BY <1>1
  <2> QED BY <1>1, <2>1, WalletAssumption DEF Run
<1>3. UNCHANGED <<today, rows, mark, details, linked, givenUp, overlapped, orphaned>>
  BY DEF NextSource
<1>4. Accounted' = Accounted
  BY <1>3 DEF Accounted
<1>5. cards' \in SUBSET Card
  BY <1>2 DEF NextSource, AInv, SyncTypes
<1> HIDE DEF s, c
<1>6. CASE Go(p, [run EXCEPT !.pc = "list", !.source = s, !.todo = @ \ {s},
                             !.cutoff = mark[c], !.seen = mark[c]])
  <2> DEFINE r == [run EXCEPT !.pc = "list", !.source = s, !.todo = @ \ {s},
                              !.cutoff = mark[c], !.seen = mark[c]]
  <2>1. mark[c] \in Nat
    BY <1>2 DEF AInv, SyncTypes
  <2>2. /\ r \in Run /\ r.pc = "list" /\ r.source = s /\ r.cutoff = mark[c]
        /\ r.seen = mark[c] /\ r.mails = {} /\ r.bill = None
    BY <1>1, <1>2, <2>1 DEF Run, Stage
  <2>3. Go(p, r)
    BY <1>6
  <2> HIDE DEF r
  <2>4. Shape(r)
    BY <1>2, <2>1, <2>2 DEF Shape
  <2>5. \A b \in OwnPdfs(s) : ReceivedOn[b] <= mark[c] => b \in Accounted
    BY WalletAssumption DEF OwnPdfs, Pdfs, AInv, PassedIsAccounted, Accounted, c
  <2>6. Covers(r, Accounted')
    BY <1>4, <2>2, <2>5 DEF Covers
  <2>7. SyncRunsGood
    BY <1>4, <2>2, <2>3, <2>4, <2>6, GoStep
  <2> QED BY <1>3, <1>4, <1>5, <2>7, PassedGrows DEF SyncRunsGood, AInv, SyncTypes
<1>7. ASSUME NEW r \in Run, Go(p, r), r.pc \in {"idle", "source"}, r.bill = None, r.mails = {}
      PROVE  AInv'
  <2>1. Shape(r) /\ Covers(r, Accounted')
    BY <1>7 DEF Shape, Covers, Busy
  <2>2. SyncRunsGood
    BY <1>4, <1>7, <2>1, GoStep
  <2> QED BY <1>3, <1>4, <1>5, <2>2, PassedGrows DEF SyncRunsGood, AInv, SyncTypes
<1>8. CASE Go(p, [run EXCEPT !.todo = @ \ {s}])
  BY <1>1, <1>7, <1>8 DEF Run
<1>9. CASE Go(p, [run EXCEPT !.known = @ \cup {c}])
  BY <1>1, <1>2, <1>7, <1>9 DEF Run
<1>10. CASE Go(p, NoRun)
  <2>1. NoRun \in Run /\ NoRun.pc = "idle" /\ NoRun.bill = None /\ NoRun.mails = {}
    BY NoRunGood DEF NoRun
  <2> QED BY <1>7, <1>10, <2>1
<1> QED BY <1>6, <1>8, <1>9, <1>10 DEF NextSource, s, c

LEMMA ListGood ==
    ASSUME AInv, NEW p \in Proc, List(p)
    PROVE  AInv'
<1> DEFINE run == sync[p]
           s == run.source
           mails == Listed(s, run.cutoff)
           r == [run EXCEPT !.pc = "mail", !.mails = mails]
<1>1. /\ run \in Run /\ Shape(run) /\ Covers(run, Accounted) /\ run.pc = "list"
      /\ sync \in [Proc -> Run]
  BY DEF AInv, SyncTypes, Good, List, SyncAt
<1>2. /\ s \in Source /\ run.seen = run.cutoff /\ run.bill = None
      /\ \A b \in OwnPdfs(s) : ReceivedOn[b] <= run.cutoff => b \in Accounted
  BY <1>1 DEF Shape, Covers, Busy
<1>3. UNCHANGED <<today, cards, rows, mark, details, linked, overlapped, orphaned>>
  BY DEF List
<1>4. GiveUp(p, {b \in WithPdf(s) \ mails : run.cutoff < ReceivedOn[b]}, "old")
  BY DEF List
<1>5. mails \in SUBSET Bill /\ mails \subseteq Pdfs(s)
      /\ mails \subseteq WithPdf(s) /\ WithPdf(s) \subseteq Bill
  BY DEF Listed, WithPdf, Arrived, Pdfs
<1>6. /\ givenUp' \in SUBSET (Bill \X Why) /\ givenUp \subseteq givenUp'
      /\ ~run.dry => \A b \in WithPdf(s) \ mails : run.cutoff < ReceivedOn[b] =>
                       \E w \in Why : <<b, w>> \in givenUp'
  <2>1. SyncTypes /\ "old" \in Why
    BY DEF AInv, Why
  <2>2. {b \in WithPdf(s) \ mails : run.cutoff < ReceivedOn[b]} \in SUBSET Bill
    BY <1>5
  <2> HIDE DEF mails
  <2> QED BY <1>4, <2>1, <2>2, GaveUp
<1>7. Accounted \subseteq Accounted'
  BY <1>3, <1>6 DEF Accounted
<1>8. sync' = [sync EXCEPT ![p] = r]
  BY DEF List
<1> HIDE DEF mails
<1>9. /\ r \in Run /\ r.pc = "mail" /\ r.mails = mails /\ r.source = s /\ r.bill = None
      /\ r.cutoff = run.cutoff /\ r.seen = run.seen /\ r.dry = run.dry
  BY <1>1, <1>2, <1>5 DEF Run, Stage
<1> HIDE DEF r
<1>10. Shape(r) /\ Onward(r)
  BY <1>1, <1>2, <1>5, <1>9, SMT DEF Shape, Onward, Busy, Run
<1>11. ASSUME ~run.dry, NEW b \in OwnPdfs(s), NEW o \in mails, ReceivedOn[b] <= ReceivedOn[o]
       PROVE  b \in Accounted' \/ b \in mails
  <2>1. ReceivedOn[o] <= today /\ today \in Nat /\ ReceivedOn[o] \in Nat /\ ReceivedOn[b] \in Nat
    BY <1>5, <1>11, WalletAssumption DEF WithPdf, Arrived, AInv, SyncTypes, Day, Pdfs, OwnPdfs
  <2>2. ReceivedOn[b] <= today
    BY <1>11, <2>1
  <2>3. b \in WithPdf(s)
    BY <1>11, <2>2, WalletAssumption DEF WithPdf, Arrived, Pdfs, OwnPdfs
  <2>4. CASE ReceivedOn[b] <= run.cutoff
    BY <1>2, <1>7, <1>11, <2>4
  <2>5. CASE run.cutoff < ReceivedOn[b] /\ b \notin mails
    BY <1>5, <1>6, <1>11, <2>3, <2>5 DEF Accounted
  <2> QED BY <1>1, <2>1, <2>4, <2>5 DEF Run
<1>12. Covers(r, Accounted')
  BY <1>2, <1>7, <1>9, <1>11 DEF Covers
<1>13. SyncRunsGood
  BY <1>7, <1>8, <1>9, <1>10, <1>12, RunStep DEF Good
<1> QED BY <1>3, <1>6, <1>7, <1>13, PassedGrows DEF SyncRunsGood, AInv, SyncTypes

LEMMA TakeMailGood ==
    ASSUME AInv, NEW p \in Proc, TakeMail(p)
    PROVE  AInv'
<1> DEFINE run == sync[p]
           s == run.source
<1>1. /\ run \in Run /\ Shape(run) /\ Covers(run, Accounted) /\ run.pc = "mail"
  BY DEF AInv, SyncTypes, Good, TakeMail, SyncAt
<1>2. /\ s \in Source /\ run.cutoff <= run.seen /\ run.bill = None
      /\ run.cutoff \in Nat /\ run.seen \in Nat /\ run.mails \in SUBSET Bill
      /\ run.mails \subseteq Pdfs(s)
      /\ \A b \in OwnPdfs(s) : ReceivedOn[b] <= run.cutoff => b \in Accounted
      /\ ~run.dry =>
           \A b \in OwnPdfs(s) :
             (ReceivedOn[b] <= run.seen \/ \E o \in run.mails : ReceivedOn[b] <= ReceivedOn[o])
             => b \in Accounted \/ b \in run.mails
  <2>1. /\ s \in Source /\ run.cutoff <= run.seen /\ run.bill = None
        /\ run.cutoff \in Nat /\ run.seen \in Nat /\ run.mails \in SUBSET Bill
        /\ run.mails \subseteq Pdfs(s)
    BY <1>1 DEF Shape, Busy, Run
  <2>2. run.bill \notin OwnPdfs(s)
    BY <2>1, WalletAssumption DEF Pdfs, OwnPdfs
  <2> QED BY <1>1, <2>1, <2>2 DEF Covers, Busy
<1>3. UNCHANGED <<today, cards, rows, mark, details, linked, overlapped, orphaned>>
  BY DEF TakeMail
<1>4. PICK b \in run.mails :
         LET rest == [run EXCEPT !.mails = @ \ {b}]
             past == [rest EXCEPT !.seen = Later(ReceivedOn[b], @)]
         IN  \/ Go(p, rest) /\ GiveUp(p, {b}, "failed")
             \/ ReceivedOn[b] <= rest.cutoff /\ Go(p, rest) /\ UNCHANGED givenUp
             \/ /\ ReceivedOn[b] > rest.cutoff
                /\ Go(p, past)
                /\ \E why \in {"failed", "empty"} : GiveUp(p, {b}, why)
             \/ /\ ReceivedOn[b] > rest.cutoff /\ Opens(rest.source, b)
                /\ Go(p, [past EXCEPT !.pc = "link", !.bill = b])
                /\ UNCHANGED givenUp
  BY DEF TakeMail
<1> DEFINE rest == [run EXCEPT !.mails = @ \ {b}]
           past == [rest EXCEPT !.seen = Later(ReceivedOn[b], @)]
           taken == [past EXCEPT !.pc = "link", !.bill = b]
<1>5. b \in Bill /\ b \in Pdfs(s) /\ BillOf[b] = s /\ ReceivedOn[b] \in Nat
  BY <1>2, WalletAssumption DEF Day, Pdfs
<1>6. /\ rest \in Run /\ rest.pc = "mail" /\ rest.source = s /\ rest.cutoff = run.cutoff
      /\ rest.dry = run.dry /\ rest.seen = run.seen /\ rest.mails = run.mails \ {b}
      /\ rest.bill = None
  BY <1>1, <1>2 DEF Run
<1> HIDE DEF rest
<1>7. Later(ReceivedOn[b], run.seen) \in Nat /\ run.seen <= Later(ReceivedOn[b], run.seen)
      /\ ReceivedOn[b] <= Later(ReceivedOn[b], run.seen)
      /\ Later(ReceivedOn[b], run.seen) \in {ReceivedOn[b], run.seen}
  BY <1>2, <1>5 DEF Later
<1>8. /\ past \in Run /\ past.pc = "mail" /\ past.source = s /\ past.cutoff = run.cutoff
      /\ past.dry = run.dry /\ past.seen = Later(ReceivedOn[b], run.seen)
      /\ past.mails = run.mails \ {b} /\ past.bill = None
  BY <1>6, <1>7 DEF Run
<1> HIDE DEF past
<1>9. /\ taken \in Run /\ taken.pc = "link" /\ taken.source = s /\ taken.cutoff = run.cutoff
      /\ taken.dry = run.dry /\ taken.seen = Later(ReceivedOn[b], run.seen)
      /\ taken.mails = run.mails \ {b} /\ taken.bill = b
  BY <1>5, <1>8 DEF Run, Stage
<1> HIDE DEF taken
<1> DEFINE gives == \E why \in Why : GiveUp(p, {b}, why)
<1>10. /\ givenUp' \in SUBSET (Bill \X Why) /\ givenUp \subseteq givenUp'
       /\ gives /\ ~run.dry => b \in Accounted'
  <2>1. gives \/ UNCHANGED givenUp
    BY <1>4 DEF Why
  <2>2. SyncTypes /\ {b} \in SUBSET Bill /\ givenUp \in SUBSET (Bill \X Why)
    BY <1>5 DEF AInv, SyncTypes
  <2>3. CASE UNCHANGED givenUp /\ ~gives
    BY <2>2, <2>3
  <2>4. ASSUME NEW why \in Why, GiveUp(p, {b}, why)
        PROVE  /\ givenUp' \in SUBSET (Bill \X Why) /\ givenUp \subseteq givenUp'
               /\ ~run.dry => \E w \in Why : <<b, w>> \in givenUp'
    BY <2>2, <2>4, GaveUp
  <2> QED BY <1>5, <2>1, <2>3, <2>4 DEF Accounted
<1>11. Accounted \subseteq Accounted'
  BY <1>3, <1>10 DEF Accounted
<1>12. SUFFICES ASSUME NEW r \in Run, Go(p, r), r.pc \in {"mail", "link"}, r.source = s,
                       r.cutoff = run.cutoff, r.dry = run.dry, r.mails = run.mails \ {b},
                       r.seen \in {run.seen, Later(ReceivedOn[b], run.seen)},
                       r.pc = "mail" => r.bill = None,
                       r.pc = "link" => r.bill = b /\ run.cutoff < ReceivedOn[b]
                                        /\ r.seen = Later(ReceivedOn[b], run.seen),
                       ~run.dry /\ OwnKey(s) => r.bill = b \/ b \in Accounted'
                PROVE  AInv'
  <2> HIDE DEF gives
  <2>2. CASE Go(p, rest) /\ gives
    BY <1>6, <1>10, <1>12, <2>2
  <2>3. CASE ReceivedOn[b] <= rest.cutoff /\ Go(p, rest)
    <3>1. OwnKey(s) => b \in Accounted
      BY <1>2, <1>5, <1>6, <2>3 DEF OwnPdfs
    <3> QED BY <1>6, <1>11, <1>12, <2>3, <3>1
  <2>4. CASE ReceivedOn[b] > rest.cutoff /\ Go(p, past) /\ gives
    BY <1>8, <1>10, <1>12, <2>4
  <2>5. CASE /\ ReceivedOn[b] > rest.cutoff /\ Opens(rest.source, b)
             /\ Go(p, taken)
    <3>1. run.cutoff < ReceivedOn[b]
      BY <1>2, <1>5, <1>6, <2>5
    <3> QED BY <1>9, <1>12, <2>5, <3>1
  <2> QED BY <1>4, <2>2, <2>3, <2>4, <2>5 DEF rest, past, taken, gives, Why
<1>13. Shape(r)
  BY <1>2, <1>5, <1>7, <1>12 DEF Shape, Busy
<1>14. ASSUME ~run.dry, NEW a \in OwnPdfs(s),
              ReceivedOn[a] <= r.seen \/ \E o \in r.mails : ReceivedOn[a] <= ReceivedOn[o]
       PROVE  a \in Accounted' \/ a \in r.mails \/ a = r.bill
  <2>1. ReceivedOn[a] <= run.seen \/ \E o \in run.mails : ReceivedOn[a] <= ReceivedOn[o]
    BY <1>7, <1>12, <1>14
  <2>2. a \in Accounted \/ a \in run.mails
    BY <1>2, <1>14, <2>1
  <2>3. OwnKey(s)
    BY <1>14 DEF OwnPdfs
  <2> QED BY <1>11, <1>12, <1>14, <2>2, <2>3
<1>15. Covers(r, Accounted')
  BY <1>2, <1>11, <1>12, <1>14 DEF Covers
<1>16. SyncRunsGood
  BY <1>11, <1>12, <1>13, <1>15, GoStep
<1> QED BY <1>3, <1>10, <1>11, <1>16, PassedGrows DEF SyncRunsGood, AInv, SyncTypes

LEMMA FindStatementGood ==
    ASSUME AInv, NEW p \in Proc, FindStatement(p)
    PROVE  AInv'
<1> DEFINE run == sync[p]
<1>1. /\ run \in Run /\ Shape(run) /\ Covers(run, Accounted) /\ run.pc = "link"
  BY DEF AInv, SyncTypes, Good, FindStatement, SyncAt
<1>2. UNCHANGED <<today, cards, rows, mark, details, linked, givenUp, overlapped, orphaned>>
  BY DEF FindStatement
<1>3. Accounted' = Accounted
  BY <1>2 DEF Accounted
<1>4. PICK found \in BOOLEAN : sync' = [sync EXCEPT ![p].pc = "store", ![p].tie = found]
  BY DEF FindStatement
<1> DEFINE r == [run EXCEPT !.pc = "store", !.tie = found]
<1>5. sync \in [Proc -> Run] /\ sync' = [sync EXCEPT ![p] = r]
  BY <1>4 DEF AInv, SyncTypes
<1>6. /\ r \in Run /\ r.pc = "store" /\ r.source = run.source /\ r.cutoff = run.cutoff
      /\ r.seen = run.seen /\ r.dry = run.dry /\ r.mails = run.mails /\ r.bill = run.bill
  BY <1>1 DEF Run, Stage
<1> HIDE DEF r
<1>7. Good(r, Accounted')
  BY <1>1, <1>3, <1>6 DEF Good, Shape, Onward, Covers, Busy
<1>8. SyncRunsGood
  BY <1>3, <1>5, <1>6, <1>7, RunStep
<1> QED BY <1>2, <1>3, <1>8, PassedGrows DEF SyncRunsGood, AInv, SyncTypes

\* What one reading's rows become; no bill loses what it had.
LEMMA StoredGrows ==
    ASSUME SyncTypes, NEW b \in Bill, NEW r \in Reading, givenUp \subseteq givenUp',
           givenUp' \in SUBSET (Bill \X Why),
           StorePart(b, r) \/ details' = [details EXCEPT ![b][r] = "all"]
    PROVE  /\ details' \in [Bill -> [Reading -> {"none", "part", "all"}]]
           /\ Accounted \subseteq Accounted'
           /\ ~StorePart(b, r) => b \in Accounted'
<1> DEFINE much == IF StorePart(b, r) /\ details[b][r] = "none" THEN "part"
                   ELSE IF StorePart(b, r) THEN details[b][r] ELSE "all"
<1>1. /\ details \in [Bill -> [Reading -> {"none", "part", "all"}]]
      /\ details' = [details EXCEPT ![b][r] = much]
  BY DEF StorePart, SyncTypes
<1>2. much \in {"none", "part", "all"} /\ (details[b][r] = "all" => much = "all")
  BY <1>1
<1>3. details' \in [Bill -> [Reading -> {"none", "part", "all"}]]
  <2> HIDE DEF much
  <2> QED BY <1>1, <1>2
<1>4. \A a \in Bill, q \in Reading : details[a][q] = "all" => details'[a][q] = "all"
  <2> HIDE DEF much
  <2> QED BY <1>1, <1>2
<1>5. ~StorePart(b, r) => details'[b][r] = "all"
  BY <1>1
<1> QED BY <1>3, <1>4, <1>5 DEF Accounted

LEMMA StoreGood ==
    ASSUME AInv, NEW p \in Proc, Store(p)
    PROVE  AInv'
<1> DEFINE run == sync[p]
           b == run.bill
           r == [run EXCEPT !.pc = "mail", !.bill = None, !.tie = FALSE]
<1>1. /\ run \in Run /\ Shape(run) /\ Covers(run, Accounted) /\ run.pc = "store" /\ SyncTypes
  BY DEF AInv, SyncTypes, Good, Store, SyncAt
<1>2. b \in Bill
  BY <1>1 DEF Shape
<1>3. UNCHANGED <<today, cards, rows, mark, overlapped, orphaned>> /\ Go(p, r)
  BY DEF Store
<1>4. /\ details' \in [Bill -> [Reading -> {"none", "part", "all"}]]
      /\ linked' \in SUBSET (Bill \X Reading) /\ givenUp' \in SUBSET (Bill \X Why)
      /\ Accounted \subseteq Accounted'
      /\ ~run.dry => b \in Accounted'
  <2>1. CASE run.dry
    BY <1>1, <2>1 DEF Store, SyncTypes, Accounted
  <2>2. CASE ~run.dry
    <3>1. PICK q \in Reading :
            /\ Link(p, b, q)
            /\ \/ details' = [details EXCEPT ![b][q] = "all"] /\ UNCHANGED givenUp
               \/ StorePart(b, q) /\ GiveUp(p, {b}, "failed")
      BY <2>2 DEF Store
    <3>2. linked' \in SUBSET (Bill \X Reading)
      BY <1>1, <1>2, <3>1 DEF Link, SyncTypes
    <3>5. GiveUp(p, {b}, "failed") =>
            /\ givenUp' \in SUBSET (Bill \X Why) /\ givenUp \subseteq givenUp'
            /\ b \in Accounted'
      <4>1. "failed" \in Why /\ {b} \in SUBSET Bill
        BY <1>2 DEF Why
      <4> QED BY <1>1, <1>2, <2>2, <4>1, GaveUp DEF Accounted
    <3>3. givenUp' \in SUBSET (Bill \X Why) /\ givenUp \subseteq givenUp'
      BY <1>1, <3>1, <3>5 DEF SyncTypes
    <3>4. /\ details' \in [Bill -> [Reading -> {"none", "part", "all"}]]
          /\ Accounted \subseteq Accounted'
          /\ ~StorePart(b, q) => b \in Accounted'
      BY <1>1, <1>2, <3>1, <3>3, StoredGrows
    <3>6. details' = [details EXCEPT ![b][q] = "all"] => b \in Accounted'
      BY <1>1, <1>2, <3>1 DEF Accounted, SyncTypes
    <3> QED BY <3>1, <3>2, <3>3, <3>4, <3>5, <3>6
  <2> QED BY <2>1, <2>2
<1>5. /\ r \in Run /\ r.pc = "mail" /\ r.source = run.source /\ r.cutoff = run.cutoff
      /\ r.seen = run.seen /\ r.dry = run.dry /\ r.mails = run.mails /\ r.bill = None
  BY <1>1 DEF Run, Stage
<1> HIDE DEF r
<1>6. Shape(r)
  BY <1>1, <1>5 DEF Shape, Busy
<1>7. Covers(r, Accounted')
  BY <1>1, <1>4, <1>5 DEF Covers, Busy
<1>8. SyncRunsGood
  BY <1>3, <1>4, <1>5, <1>6, <1>7, GoStep
<1> QED BY <1>3, <1>4, <1>8, PassedGrows DEF SyncRunsGood, AInv, SyncTypes

LEMMA MoveMarkGood ==
    ASSUME AInv, NEW p \in Proc, MoveMark(p)
    PROVE  AInv'
<1> DEFINE run == sync[p]
           s == run.source
           r == [run EXCEPT !.pc = "source", !.source = None, !.cutoff = 0, !.seen = 0]
<1>1. /\ run \in Run /\ Shape(run) /\ Covers(run, Accounted) /\ run.pc = "mail" /\ run.mails = {}
      /\ SyncTypes
  BY DEF AInv, SyncTypes, Good, MoveMark, SyncAt
<1>2. UNCHANGED <<today, cards, rows, details, linked, givenUp, overlapped, orphaned>> /\ Go(p, r)
  BY DEF MoveMark, Leave
<1>3. Accounted' = Accounted
  BY <1>2 DEF Accounted
<1>4. s \in Source /\ run.seen \in Nat /\ run.bill = None
  BY <1>1 DEF Shape, Busy, Run
<1>5. ~run.dry => \A b \in OwnPdfs(s) : ReceivedOn[b] <= run.seen => b \in Accounted
  BY <1>1, <1>4, WalletAssumption DEF Covers, Busy, Pdfs, OwnPdfs
<1>6. /\ mark' \in [Card -> Nat]
      /\ \A c \in Card : mark'[c] = mark[c] \/ (c = CardOf[s] /\ ~run.dry /\ mark'[c] = run.seen)
  BY <1>1, <1>4 DEF MoveMark, SyncTypes
<1>7. PassedIsAccounted'
  <2>1. ASSUME NEW b \in Attached, OwnKey(BillOf[b]), ReceivedOn[b] <= mark'[CardOf[BillOf[b]]]
        PROVE  b \in Accounted
    <3>1. /\ b \in Bill /\ b \in OwnPdfs(BillOf[b]) /\ CardOf[BillOf[b]] \in Card
          /\ CardOf[s] = CardOf[BillOf[b]] => s = BillOf[b]
      BY <1>4, <2>1, OwnBillsOf, WalletAssumption
    <3>2. CASE mark'[CardOf[BillOf[b]]] = mark[CardOf[BillOf[b]]]
      BY <2>1, <3>1, <3>2 DEF AInv, PassedIsAccounted, Accounted
    <3>3. CASE BillOf[b] = s /\ ~run.dry /\ mark'[CardOf[BillOf[b]]] = run.seen
      BY <1>5, <2>1, <3>1, <3>3
    <3> QED BY <1>6, <3>1, <3>2, <3>3
  <2> QED BY <1>2, <2>1 DEF PassedIsAccounted, Accounted
<1>8. r \in Run /\ r.pc = "source" /\ r.mails = {} /\ r.bill = None
  BY <1>1, <1>4 DEF Run, Stage
<1> HIDE DEF r
<1>9. Shape(r) /\ Covers(r, Accounted')
  BY <1>8 DEF Shape, Covers, Busy
<1>10. SyncRunsGood
  BY <1>2, <1>3, <1>8, <1>9, GoStep
<1> QED BY <1>2, <1>6, <1>7, <1>10 DEF SyncRunsGood, AInv, SyncTypes

LEMMA CrashGood ==
    ASSUME AInv, NEW p \in Proc, Crash(p)
    PROVE  AInv'
<1>1. Die(p) /\ UNCHANGED <<cards, givenUp>> /\ SyncTypes /\ givenUp \in SUBSET (Bill \X Why)
  BY DEF Crash, Die, AInv, SyncTypes
<1>2. CASE UNCHANGED <<details, linked>>
  <2>1. Accounted' = Accounted
    BY <1>1, <1>2 DEF Accounted
  <2> QED BY <1>1, <1>2, <2>1, DieGood DEF SyncTypes
<1>3. CASE /\ SyncAt(p, "store") /\ ~sync[p].dry
           /\ \E r \in Reading : Link(p, sync[p].bill, r) /\ StorePart(sync[p].bill, r)
  <2>1. PICK r \in Reading : Link(p, sync[p].bill, r) /\ StorePart(sync[p].bill, r)
    BY <1>3
  <2>2. sync[p].bill \in Bill
    BY <1>3 DEF AInv, Good, Shape, SyncAt
  <2>3. linked' \in SUBSET (Bill \X Reading)
    BY <1>1, <2>1, <2>2 DEF Link, SyncTypes
  <2>4. /\ details' \in [Bill -> [Reading -> {"none", "part", "all"}]]
        /\ Accounted \subseteq Accounted'
    BY <1>1, <2>1, <2>2, StoredGrows DEF SyncTypes
  <2> QED BY <1>1, <2>3, <2>4, DieGood DEF SyncTypes
<1> QED BY <1>2, <1>3 DEF Crash

LEMMA StutterGood ==
    ASSUME AInv, today' \in Day, cards' \in SUBSET Card,
           UNCHANGED <<mark, details, linked, sync, givenUp, overlapped, orphaned>>
    PROVE  AInv'
<1>1. Accounted' = Accounted
  BY DEF Accounted
<1>2. sync' = sync /\ sync \in [Proc -> Run] /\ \A p \in Proc : Good(sync[p], Accounted)
  BY DEF AInv, SyncTypes
<1>3. \A p \in Proc : Good(sync'[p], Accounted')
  BY <1>1, <1>2
<1> QED BY <1>1, <1>2, <1>3, PassedGrows DEF AInv, SyncTypes

LEMMA SyncInitGood == SyncInit => AInv
<1> SUFFICES ASSUME SyncInit PROVE AInv
  OBVIOUS
<1>1. SyncTypes
  BY NoRunGood DEF SyncInit, SyncTypes
<1>2. \A p \in Proc : Good(sync[p], Accounted)
  BY NoRunGood DEF SyncInit
<1>3. \A b \in Bill : BillOf[b] \in Source /\ FirstDay[1] <= ReceivedOn[b]
        /\ FirstDay[0] < FirstDay[0 + 1] /\ FirstDay[1] \in Nat /\ FirstDay[0] = 0
        /\ ReceivedOn[b] \in Nat
  BY WalletAssumption, CalendarAssumption DEF Month, Day
<1>4. \A b \in Bill : ~(ReceivedOn[b] <= mark[CardOf[BillOf[b]]])
  BY <1>3, WalletAssumption DEF SyncInit
<1>5. Attached \subseteq Bill
  BY WalletAssumption
<1> QED BY <1>5, <1>1, <1>2, <1>4 DEF AInv, PassedIsAccounted

LEMMA AInvNext == AInv /\ [SyncNext]_syncVars => AInv'
<1> SUFFICES ASSUME AInv, [SyncNext]_syncVars PROVE AInv'
  OBVIOUS
<1>1. CASE Others
  <2>1. cards' \in SUBSET Card
    BY <1>1 DEF Others, AInv, SyncTypes
  <2> QED BY <1>1, <2>1, StutterGood DEF Others
<1>2. ASSUME NEW p \in Proc, BeginSync(p) PROVE AInv'
  <2>1. PICK asked \in Requests : Start(p, asked.sources, asked.dryRun, asked.bypass)
    BY <1>2 DEF BeginSync
  <2>2. asked.sources \in SUBSET Source /\ asked.dryRun \in BOOLEAN /\ asked.bypass \in BOOLEAN
    BY WalletAssumption
  <2> QED BY <2>1, <2>2, StartGood
<1>3. ASSUME NEW p \in Proc, BeginScript(p) PROVE AInv'
  <2>1. PICK asked \in Requests : Start(p, Source, FALSE, asked.bypass)
    BY <1>3 DEF BeginScript
  <2>2. Source \in SUBSET Source /\ asked.bypass \in BOOLEAN
    BY WalletAssumption
  <2> QED BY <2>1, <2>2, StartGood
<1>4. ASSUME NEW p \in Proc, SyncStep(p) PROVE AInv'
  BY <1>4, NextSourceGood, ListGood, TakeMailGood, FindStatementGood, StoreGood, MoveMarkGood, CrashGood
     DEF SyncStep, ScriptSource, ScriptList, ScriptMail, ScriptStore, ScriptMark
<1>5. CASE UNCHANGED syncVars
  BY <1>5, StutterGood DEF syncVars, AInv, SyncTypes
<1> QED BY <1>1, <1>2, <1>3, <1>4, <1>5 DEF SyncNext

LEMMA AInvariance == SyncSpec => []AInv
BY SyncInitGood, AInvNext, PTL DEF SyncSpec

-----------------------------------------------------------------------------
(* The theorems *)

\* Every run of the service and of the script stays within its type: it always
\* has a source when it looks for mails, and a bill when it stores.
THEOREM DetailedTypes == SyncSpec => []SyncTypes
<1>1. AInv => SyncTypes
  BY DEF AInv
<1> QED BY <1>1, AInvariance, PTL

\* A bill behind its card's watermark is wholly stored, or some run turned away
\* from it for one of the three reasons there are, two of which are silent: for
\* any sources, bills and watermark reach, any number of runs of the service and
\* of the script that overlap, die or fail at any step, and whatever arrives
\* while they list. A source with a key of its own is all it takes.
THEOREM PassedBillsAreAccounted == SyncSpec => []PassedIsAccounted
<1>1. AInv => PassedIsAccounted
  BY DEF AInv
<1> QED BY <1>1, AInvariance, PTL

\* No upsert takes a stored transaction's statement away, be it that of a run
\* that looked before the statement was there.
THEOREM LinksAreKept == SyncSpec => LinksKept
<1>1. [SyncNext]_syncVars => [linked \subseteq linked']_syncVars
  <2> SUFFICES ASSUME SyncNext PROVE linked \subseteq linked'
    OBVIOUS
  <2>1. CASE Others
    BY <2>1 DEF Others
  <2>2. ASSUME NEW p \in Proc, BeginSync(p) \/ BeginScript(p) PROVE linked \subseteq linked'
    BY <2>2 DEF BeginSync, BeginScript, Start
  <2>3. ASSUME NEW p \in Proc, SyncStep(p) PROVE linked \subseteq linked'
    BY <2>3 DEF SyncStep, ScriptSource, ScriptList, ScriptMail, ScriptStore, ScriptMark,
                NextSource, List, TakeMail, FindStatement, Store, MoveMark, Crash, Link
  <2> QED BY <2>1, <2>2, <2>3 DEF SyncNext
<1> QED BY <1>1, PTL DEF SyncSpec, LinksKept

-----------------------------------------------------------------------------
(* Readings of one bill *)

\* A run that has stored a bill, and is still with its source.
Holds(r, b) ==
    /\ r.pc \in {"mail", "link", "store"}
    /\ ~r.dry
    /\ r.source = BillOf[b]
    /\ b \notin r.mails
    /\ b # r.bill
    /\ ReceivedOn[b] <= r.seen

\* As long as no two runs were under way at once, the watermark is where the
\* running one read it, and a stored bill is behind the watermark, held by that
\* run, or was left by one that died.
Lone ==
    /\ \A p \in Proc, q \in Proc : ~SyncAt(p, "idle") /\ ~SyncAt(q, "idle") => p = q
    /\ \A p \in Proc : sync[p].pc \in Busy => mark[CardOf[sync[p].source]] = sync[p].cutoff
    /\ \A b \in Bill : HasRows(b) /\ b \notin orphaned =>
         ReceivedOn[b] <= mark[CardOf[BillOf[b]]] \/ \E p \in Proc : Holds(sync[p], b)

RInv ==
    /\ AInv
    /\ ~overlapped => Lone
    /\ MixedNeedsReplay

\* The bills of the only run there is.
LEMMA OwnBills ==
    ASSUME RInv, ~overlapped, NEW p \in Proc, ~SyncAt(p, "idle"),
           NEW b \in Bill, HasRows(b), b \notin orphaned
    PROVE  ReceivedOn[b] <= mark[CardOf[BillOf[b]]] \/ Holds(sync[p], b)
<1>1. \A q \in Proc : Holds(sync[q], b) => q = p
  BY DEF RInv, Lone, Holds, SyncAt
<1> QED BY <1>1 DEF RInv, Lone

\* What a step of that run has to show.
LEMMA LoneStep ==
    ASSUME RInv, AInv', NEW p \in Proc, NEW r, ~SyncAt(p, "idle"),
           sync' = [sync EXCEPT ![p] = r],
           ~overlapped => (r.pc \in Busy => mark'[CardOf[r.source]] = r.cutoff),
           ~overlapped => \A b \in Bill : HasRows(b)' /\ b \notin orphaned' =>
             ReceivedOn[b] <= mark'[CardOf[BillOf[b]]] \/ Holds(r, b),
           overlapped' = overlapped, MixedNeedsReplay'
    PROVE  RInv'
<1>1. SUFFICES ASSUME ~overlapped PROVE Lone'
  BY DEF RInv
<1>2. \A q \in Proc : sync'[q] = IF q = p THEN r ELSE sync[q]
  BY DEF RInv, AInv, SyncTypes
<1>3. \A q \in Proc : q # p => sync[q].pc = "idle"
  BY <1>1 DEF RInv, Lone, SyncAt
<1>4. \A q \in Proc, q2 \in Proc : ~SyncAt(q, "idle")' /\ ~SyncAt(q2, "idle")' => q = q2
  BY <1>2, <1>3 DEF SyncAt
<1>5. \A q \in Proc : sync'[q].pc \in Busy => mark'[CardOf[sync'[q].source]] = sync'[q].cutoff
  BY <1>1, <1>2, <1>3 DEF Busy
<1>6. \A b \in Bill : HasRows(b)' /\ b \notin orphaned' =>
        ReceivedOn[b] <= mark'[CardOf[BillOf[b]]] \/ \E q \in Proc : Holds(sync'[q], b)
  BY <1>1, <1>2
<1> QED BY <1>4, <1>5, <1>6 DEF Lone, Holds

LEMMA StoredAsBefore ==
    ASSUME RInv, UNCHANGED <<details, overlapped>>, orphaned \subseteq orphaned'
    PROVE  MixedNeedsReplay' /\ \A b \in Bill : HasRows(b)' => HasRows(b)
BY DEF RInv, MixedNeedsReplay, HasRows

LEMMA StartLone ==
    ASSUME RInv, AInv', NEW p \in Proc, NEW selected, NEW dryRun, NEW bypass,
           Start(p, selected, dryRun, bypass)
    PROVE  RInv'
<1> DEFINE r == [NoRun EXCEPT !.pc = "source", !.todo = selected, !.known = cards,
                              !.dry = dryRun, !.bypass = bypass]
<1>1. /\ UNCHANGED <<mark, details, orphaned>> /\ Go(p, r) /\ SyncAt(p, "idle")
      /\ overlapped' = (overlapped \/ \E q \in Proc : ~SyncAt(q, "idle"))
  BY DEF Start
<1>2. MixedNeedsReplay'
  BY <1>1 DEF RInv, MixedNeedsReplay
<1>3. ASSUME ~overlapped' PROVE Lone'
  <2>1. ~overlapped /\ \A q \in Proc : sync[q].pc = "idle"
    BY <1>1, <1>3 DEF SyncAt
  <2>2. r.pc = "source" /\ NoRun.pc = "idle"
    BY DEF NoRun
  <2>3. \A q \in Proc : q # p => sync'[q].pc = "idle"
    BY <1>1, <2>1 DEF Go, RInv, AInv, SyncTypes
  <2>4. sync'[p].pc \in {"idle", "source"}
    BY <1>1, <2>2 DEF Go, RInv, AInv, SyncTypes
  <2>5. \A b \in Bill : HasRows(b)' /\ b \notin orphaned' => ReceivedOn[b] <= mark'[CardOf[BillOf[b]]]
    BY <1>1, <2>1 DEF RInv, Lone, Holds, HasRows
  <2> QED BY <2>3, <2>4, <2>5 DEF Lone, SyncAt, Busy
<1> QED BY <1>2, <1>3 DEF RInv

LEMMA DieLone ==
    ASSUME RInv, AInv', NEW p \in Proc, ~SyncAt(p, "idle"), Die(p),
           \A b \in Bill : HasRows(b)' => HasRows(b) \/ (SyncAt(p, "store") /\ b = sync[p].bill),
           \A b \in Bill : (\A r \in Reading : details[b][r] # "none")' =>
             (\A r \in Reading : details[b][r] # "none") \/ b \in orphaned' \/ overlapped
    PROVE  RInv'
<1>1. /\ sync' = [sync EXCEPT ![p] = NoRun] /\ UNCHANGED <<mark, overlapped>>
      /\ orphaned' = orphaned \cup
           {b \in Bill : HasRows(b)' /\ BillOf[b] = sync[p].source /\ sync[p].cutoff < ReceivedOn[b]}
  BY DEF Die
<1>2. NoRun.pc = "idle"
  BY DEF NoRun
<1>3. MixedNeedsReplay'
  BY <1>1 DEF RInv, MixedNeedsReplay
<1>4. ASSUME ~overlapped, NEW b \in Bill, HasRows(b)', b \notin orphaned'
      PROVE  ReceivedOn[b] <= mark'[CardOf[BillOf[b]]]
  <2>0. b \notin orphaned /\ ~(BillOf[b] = sync[p].source /\ sync[p].cutoff < ReceivedOn[b])
    BY <1>1, <1>4
  <2>1. CASE SyncAt(p, "store") /\ b = sync[p].bill
    BY <2>0, <2>1 DEF RInv, AInv, Good, Shape, SyncAt
  <2>2. CASE HasRows(b)
    <3>1. CASE Holds(sync[p], b)
      <4>1. /\ sync[p].source = BillOf[b] /\ sync[p].pc \in Busy
        BY <3>1 DEF Holds, Busy
      <4>2. mark[CardOf[BillOf[b]]] = sync[p].cutoff
        BY <1>4, <4>1 DEF RInv, Lone
      <4>3. sync[p].cutoff \in Nat /\ ReceivedOn[b] \in Nat
        BY WalletAssumption DEF RInv, AInv, SyncTypes, Run, Day
      <4> QED BY <1>1, <2>0, <4>1, <4>2, <4>3
    <3>2. CASE ~Holds(sync[p], b)
      BY <1>1, <1>4, <2>0, <2>2, <3>2, OwnBills
    <3> QED BY <3>1, <3>2
  <2> QED BY <1>4, <2>1, <2>2
<1> HIDE DEF NoRun
<1> QED BY <1>1, <1>2, <1>3, <1>4, LoneStep DEF Busy

LEMMA NextSourceLone ==
    ASSUME RInv, AInv', NEW p \in Proc, NextSource(p)
    PROVE  RInv'
<1> DEFINE run == sync[p]
           s == CHOOSE first \in run.todo : TRUE
           c == CardOf[s]
<1>1. /\ UNCHANGED <<mark, details, overlapped, orphaned>>
      /\ run.pc = "source" /\ ~SyncAt(p, "idle") /\ run \in Run
  BY DEF NextSource, SyncAt, RInv, AInv, SyncTypes
<1>2. MixedNeedsReplay' /\ \A b \in Bill : HasRows(b)' => HasRows(b)
  BY <1>1, StoredAsBefore
<1>3. ~overlapped => \A b \in Bill : HasRows(b)' /\ b \notin orphaned' =>
        ReceivedOn[b] <= mark'[CardOf[BillOf[b]]]
  BY <1>1, <1>2, OwnBills DEF Holds
<1>4. ASSUME NEW r, sync' = [sync EXCEPT ![p] = r], r.pc \in Busy => mark[CardOf[r.source]] = r.cutoff
      PROVE  RInv'
  BY <1>1, <1>2, <1>3, <1>4, LoneStep
<1>5. ASSUME NEW r, Go(p, r), r.pc \in Busy => mark[CardOf[r.source]] = r.cutoff
      PROVE  RInv'
  <2>1. NoRun.pc = "idle"
    BY DEF NoRun
  <2> QED BY <1>4, <1>5, <2>1 DEF Go, Busy
<1>6. CASE Go(p, [run EXCEPT !.pc = "list", !.source = s, !.todo = @ \ {s},
                             !.cutoff = mark[c], !.seen = mark[c]])
  <2> DEFINE r == [run EXCEPT !.pc = "list", !.source = s, !.todo = @ \ {s},
                             !.cutoff = mark[c], !.seen = mark[c]]
  <2>1. r.source = s /\ r.cutoff = mark[CardOf[r.source]]
    BY <1>1 DEF Run
  <2>2. Go(p, r)
    BY <1>6
  <2> HIDE DEF r
  <2> QED BY <1>5, <2>1, <2>2
<1>7. ASSUME NEW d, Go(p, [run EXCEPT !.known = @ \cup {d}]) \/ Go(p, [run EXCEPT !.todo = @ \ {s}])
      PROVE  RInv'
  <2>1. [run EXCEPT !.known = @ \cup {d}].pc = "source" /\ [run EXCEPT !.todo = @ \ {s}].pc = "source"
    BY <1>1 DEF Run
  <2> QED BY <1>5, <1>7, <2>1 DEF Busy
<1>8. CASE Go(p, NoRun)
  <2>1. NoRun.pc = "idle"
    BY DEF NoRun
  <2> QED BY <1>5, <1>8, <2>1 DEF Busy
<1> QED BY <1>6, <1>7, <1>8 DEF NextSource

Keeps(old, new) == \A b \in Bill : Holds(old, b) => Holds(new, b)

\* A step that stores nothing and keeps what the run holds.
LEMMA HeldStep ==
    ASSUME RInv, AInv', NEW p \in Proc, NEW r, sync[p].pc \in Busy,
           sync' = [sync EXCEPT ![p] = r],
           mark' = mark, details' = details, overlapped' = overlapped, orphaned' = orphaned,
           r.source = sync[p].source, r.cutoff = sync[p].cutoff,
           Keeps(sync[p], r)
    PROVE  RInv'
<1>1. ~SyncAt(p, "idle")
  BY DEF SyncAt, Busy
<1>2. MixedNeedsReplay' /\ \A b \in Bill : HasRows(b)' => HasRows(b)
  BY StoredAsBefore
<1>3. ~overlapped => mark'[CardOf[r.source]] = r.cutoff
  BY DEF RInv, Lone
<1>4. ~overlapped => \A b \in Bill : HasRows(b)' /\ b \notin orphaned' =>
        ReceivedOn[b] <= mark'[CardOf[BillOf[b]]] \/ Holds(r, b)
  BY <1>1, <1>2, OwnBills DEF Keeps
<1> QED BY <1>1, <1>2, <1>3, <1>4, LoneStep

LEMMA ListLone ==
    ASSUME RInv, AInv', NEW p \in Proc, List(p)
    PROVE  RInv'
<1> DEFINE run == sync[p]
           r == [run EXCEPT !.pc = "mail", !.mails = Listed(run.source, run.cutoff)]
<1>1. /\ sync' = [sync EXCEPT ![p] = r] /\ UNCHANGED <<mark, details, overlapped, orphaned>>
      /\ run \in Run /\ run.pc = "list"
  BY DEF List, SyncAt, RInv, AInv, SyncTypes
<1>2. r.source = run.source /\ r.cutoff = run.cutoff
  BY <1>1 DEF Run
<1>3. Keeps(sync[p], r)
  BY <1>1 DEF Keeps, Holds
<1>4. sync[p].pc \in Busy
  BY <1>1 DEF Busy
<1> HIDE DEF r
<1> QED BY <1>1, <1>2, <1>3, <1>4, HeldStep

LEMMA TakeMailLone ==
    ASSUME RInv, AInv', NEW p \in Proc, TakeMail(p)
    PROVE  RInv'
<1> DEFINE run == sync[p]
<1>1. /\ run \in Run /\ Shape(run) /\ run.pc = "mail"
      /\ UNCHANGED <<mark, details, overlapped, orphaned>>
  BY DEF TakeMail, SyncAt, RInv, AInv, SyncTypes, Good
<1>2. PICK b \in run.mails :
         LET rest == [run EXCEPT !.mails = @ \ {b}]
             past == [rest EXCEPT !.seen = Later(ReceivedOn[b], @)]
         IN  Go(p, rest) \/ Go(p, past) \/ Go(p, [past EXCEPT !.pc = "link", !.bill = b])
  BY DEF TakeMail
<1> DEFINE rest == [run EXCEPT !.mails = @ \ {b}]
           past == [rest EXCEPT !.seen = Later(ReceivedOn[b], @)]
           taken == [past EXCEPT !.pc = "link", !.bill = b]
<1>3. b \in Bill /\ run.bill = None /\ run.seen \in Nat /\ run.mails \in SUBSET Bill
      /\ ReceivedOn \in [Bill -> Day] /\ \A a \in Bill : ReceivedOn[a] \in Nat
  BY <1>1, WalletAssumption DEF Shape, Run, Day
<1>4. /\ rest.pc = "mail" /\ rest.source = run.source /\ rest.cutoff = run.cutoff
      /\ rest.dry = run.dry /\ rest.seen = run.seen /\ rest.mails = run.mails \ {b}
      /\ rest.bill = None /\ rest \in Run
  BY <1>1, <1>3 DEF Run
<1> HIDE DEF rest
<1>5. run.seen <= Later(ReceivedOn[b], run.seen)
  BY <1>3 DEF Later
<1>6. /\ past.pc = "mail" /\ past.source = run.source /\ past.cutoff = run.cutoff
      /\ past.dry = run.dry /\ past.seen = Later(ReceivedOn[b], run.seen)
      /\ past.mails = run.mails \ {b} /\ past.bill = None
  BY <1>4 DEF Run
<1>7. /\ taken.pc = "link" /\ taken.source = run.source /\ taken.cutoff = run.cutoff
      /\ taken.dry = run.dry /\ taken.seen = Later(ReceivedOn[b], run.seen)
      /\ taken.mails = run.mails \ {b} /\ taken.bill = b
  BY <1>4 DEF Run
<1> HIDE DEF past, taken
<1>8. ASSUME NEW r, Go(p, r), r.pc \in {"mail", "link"}, r.source = run.source,
             r.cutoff = run.cutoff, r.dry = run.dry, r.mails = run.mails \ {b},
             r.seen \in {run.seen, Later(ReceivedOn[b], run.seen)},
             r.bill \in {None, b}
      PROVE  RInv'
  <2>1. sync' = [sync EXCEPT ![p] = r]
    BY <1>8 DEF Go
  <2>2. ASSUME NEW a \in Bill, Holds(run, a) PROVE Holds(r, a)
    <3>1. a # b /\ a \notin r.mails /\ a # None
      BY <1>3, <1>8, <2>2, WalletAssumption DEF Holds
    <3>2. ReceivedOn[a] <= r.seen
      <4>1. ReceivedOn[a] <= run.seen /\ ReceivedOn[a] \in Nat /\ ReceivedOn[b] \in Nat
        BY <1>3, <2>2 DEF Holds
      <4>2. Later(ReceivedOn[b], run.seen) \in Nat
        BY <1>3, <4>1 DEF Later
      <4> QED BY <1>3, <1>5, <1>8, <4>1, <4>2
    <3> QED BY <1>8, <2>2, <3>1, <3>2 DEF Holds
  <2>3. Keeps(sync[p], r)
    BY <2>2 DEF Keeps
  <2>4. sync[p].pc \in Busy
    BY <1>1 DEF Busy
  <2> QED BY <1>1, <1>8, <2>1, <2>3, <2>4, HeldStep
<1> QED BY <1>2, <1>4, <1>6, <1>7, <1>8 DEF rest, past, taken

LEMMA FindStatementLone ==
    ASSUME RInv, AInv', NEW p \in Proc, FindStatement(p)
    PROVE  RInv'
<1> DEFINE run == sync[p]
<1>1. PICK found \in BOOLEAN : sync' = [sync EXCEPT ![p].pc = "store", ![p].tie = found]
  BY DEF FindStatement
<1> DEFINE r == [run EXCEPT !.pc = "store", !.tie = found]
<1>2. /\ sync' = [sync EXCEPT ![p] = r] /\ UNCHANGED <<mark, details, overlapped, orphaned>>
      /\ run \in Run /\ run.pc = "link"
  BY <1>1 DEF FindStatement, SyncAt, RInv, AInv, SyncTypes
<1>3. /\ r.pc = "store" /\ r.source = run.source /\ r.cutoff = run.cutoff
      /\ r.seen = run.seen /\ r.dry = run.dry /\ r.mails = run.mails /\ r.bill = run.bill
  BY <1>2 DEF Run
<1> HIDE DEF r
<1>4. Keeps(sync[p], r)
  BY <1>3 DEF Keeps, Holds
<1>5. sync[p].pc \in Busy
  BY <1>2 DEF Busy
<1> QED BY <1>2, <1>3, <1>4, <1>5, HeldStep

\* A run that is about to store a bill finds no rows of it.
LEMMA BillIsNew ==
    ASSUME RInv, ~overlapped, NEW p \in Proc, sync[p].pc = "store", sync[p].bill \notin orphaned
    PROVE  ~HasRows(sync[p].bill)
<1> DEFINE b == sync[p].bill
<1>1. /\ b \in Bill /\ BillOf[b] = sync[p].source /\ sync[p].cutoff < ReceivedOn[b]
  BY DEF RInv, AInv, Good, Shape
<1>2. mark[CardOf[BillOf[b]]] = sync[p].cutoff
  BY <1>1 DEF RInv, Lone, Busy
<1>3. sync[p].cutoff \in Nat /\ ReceivedOn[b] \in Nat
  BY <1>1, WalletAssumption DEF RInv, AInv, SyncTypes, Run, Day
<1>4. ~(ReceivedOn[b] <= mark[CardOf[BillOf[b]]]) /\ ~Holds(sync[p], b)
  BY <1>1, <1>2, <1>3 DEF Holds
<1> QED BY <1>1, <1>4, OwnBills DEF SyncAt

\* Rows of one reading of the bill in hand, all or some.
LEMMA OneReading ==
    ASSUME RInv, NEW p \in Proc, sync[p].pc = "store", NEW q \in Reading,
           \/ details' = [details EXCEPT ![sync[p].bill][q] = "all"]
           \/ StorePart(sync[p].bill, q)
    PROVE  /\ \A b \in Bill : HasRows(b)' => HasRows(b) \/ b = sync[p].bill
           /\ \A b \in Bill : (\A r \in Reading : details[b][r] # "none")' =>
                (\A r \in Reading : details[b][r] # "none") \/ b \in orphaned \/ overlapped
<1> DEFINE bill == sync[p].bill
<1>1. bill \in Bill /\ details \in [Bill -> [Reading -> {"none", "part", "all"}]]
  BY DEF RInv, AInv, SyncTypes, Good, Shape
<1>2. \A b \in Bill, r \in Reading :
        details'[b][r] # "none" => details[b][r] # "none" \/ (b = bill /\ r = q)
  BY <1>1 DEF StorePart
<1>3. \A b \in Bill : HasRows(b)' => HasRows(b) \/ b = bill
  BY <1>2 DEF HasRows
<1>4. ASSUME NEW b \in Bill, \A r \in Reading : details'[b][r] # "none",
             b \notin orphaned, ~overlapped
      PROVE  \A r \in Reading : details[b][r] # "none"
  <2>1. CASE b # bill
    BY <1>2, <1>4, <2>1
  <2>2. CASE b = bill
    <3>1. PICK r \in Reading : r # q
      BY DEF Reading
    <3>2. details[b][r] # "none"
      BY <1>2, <1>4, <3>1
    <3> QED BY <1>4, <2>2, <3>2, BillIsNew DEF HasRows
  <2> QED BY <2>1, <2>2
<1> QED BY <1>3, <1>4

LEMMA StoreLone ==
    ASSUME RInv, AInv', NEW p \in Proc, Store(p)
    PROVE  RInv'
<1> DEFINE run == sync[p]
           b == run.bill
           r == [run EXCEPT !.pc = "mail", !.bill = None, !.tie = FALSE]
<1>1. /\ run \in Run /\ Shape(run) /\ run.pc = "store"
      /\ UNCHANGED <<mark, overlapped, orphaned>> /\ Go(p, r)
  BY DEF Store, SyncAt, RInv, AInv, SyncTypes, Good
<1>2. /\ b \in Bill /\ BillOf[b] = run.source /\ b \notin run.mails
      /\ ReceivedOn[b] <= run.seen
  BY <1>1 DEF Shape
<1>3. /\ r.pc = "mail" /\ r.source = run.source /\ r.cutoff = run.cutoff
      /\ r.seen = run.seen /\ r.dry = run.dry /\ r.mails = run.mails /\ r.bill = None
  BY <1>1 DEF Run
<1> HIDE DEF r
<1>4. sync' = [sync EXCEPT ![p] = r]
  BY <1>1, <1>3 DEF Go
<1>5. \A a \in Bill : Holds(run, a) => Holds(r, a)
  BY <1>3, WalletAssumption DEF Holds
<1>6. CASE run.dry
  <2>1. UNCHANGED details
    BY <1>6 DEF Store
  <2>2. Keeps(sync[p], r)
    BY <1>5 DEF Keeps
  <2>3. sync[p].pc \in Busy
    BY <1>1 DEF Busy
  <2> QED BY <1>1, <1>3, <1>4, <2>1, <2>2, <2>3, HeldStep
<1>7. CASE ~run.dry
  <2>1. PICK q \in Reading : details' = [details EXCEPT ![b][q] = "all"] \/ StorePart(b, q)
    BY <1>7 DEF Store
  <2>2. /\ \A a \in Bill : HasRows(a)' => HasRows(a) \/ a = b
        /\ \A a \in Bill : (\A x \in Reading : details[a][x] # "none")' =>
             (\A x \in Reading : details[a][x] # "none") \/ a \in orphaned \/ overlapped
    BY <1>1, <2>1, OneReading
  <2>3. MixedNeedsReplay'
    BY <1>1, <2>2 DEF RInv, MixedNeedsReplay
  <2>4. Holds(r, b)
    BY <1>2, <1>3, <1>7, WalletAssumption DEF Holds
  <2>5. ~SyncAt(p, "idle")
    BY <1>1 DEF SyncAt
  <2>6. ~overlapped => mark'[CardOf[r.source]] = r.cutoff
    BY <1>1, <1>3 DEF RInv, Lone, Busy
  <2>7. ~overlapped => \A a \in Bill : HasRows(a)' /\ a \notin orphaned' =>
          ReceivedOn[a] <= mark'[CardOf[BillOf[a]]] \/ Holds(r, a)
    BY <1>1, <1>5, <2>2, <2>4, <2>5, OwnBills
  <2> QED BY <1>1, <1>4, <2>3, <2>5, <2>6, <2>7, LoneStep
<1> QED BY <1>6, <1>7

LEMMA MoveMarkLone ==
    ASSUME RInv, AInv', NEW p \in Proc, MoveMark(p)
    PROVE  RInv'
<1> DEFINE run == sync[p]
           r == [run EXCEPT !.pc = "source", !.source = None, !.cutoff = 0, !.seen = 0]
<1>1. /\ run \in Run /\ Shape(run) /\ run.pc = "mail" /\ mark \in [Card -> Nat]
      /\ UNCHANGED <<details, overlapped, orphaned>> /\ Go(p, r) /\ ~SyncAt(p, "idle")
  BY DEF MoveMark, Leave, SyncAt, RInv, AInv, SyncTypes, Good
<1>2. MixedNeedsReplay' /\ \A b \in Bill : HasRows(b)' => HasRows(b)
  BY <1>1, StoredAsBefore
<1>3. ASSUME ~overlapped, NEW b \in Bill, HasRows(b)', b \notin orphaned'
      PROVE  ReceivedOn[b] <= mark'[CardOf[BillOf[b]]]
  <2>1. /\ BillOf[b] \in Source /\ ReceivedOn[b] \in Nat /\ run.seen \in Nat /\ run.cutoff \in Nat
        /\ run.source \in Source /\ run.cutoff <= run.seen
        /\ CardOf[BillOf[b]] \in Card /\ CardOf[run.source] \in Card
    BY <1>1, WalletAssumption DEF Run, Day, Shape, Busy
  <2>2. mark[CardOf[run.source]] = run.cutoff
    BY <1>1, <1>3 DEF RInv, Lone, Busy
  <2>3. mark' = IF ~run.dry /\ run.seen > run.cutoff
                  THEN [mark EXCEPT ![CardOf[run.source]] = run.seen] ELSE mark
    BY DEF MoveMark
  <2>6. \A c \in Card : mark'[c] = mark[c] \/ (c = CardOf[run.source] /\ mark'[c] = run.seen)
    BY <1>1, <2>3
  <2>7. mark[CardOf[BillOf[b]]] \in Nat
    BY <1>1, <2>1
  <2>4. CASE ReceivedOn[b] <= mark[CardOf[BillOf[b]]]
    BY <2>1, <2>2, <2>4, <2>6, <2>7
  <2>5. CASE Holds(run, b)
    BY <1>1, <2>1, <2>2, <2>3, <2>5 DEF Holds
  <2> QED BY <1>1, <1>2, <1>3, <2>4, <2>5, OwnBills
<1>4. r.pc = "source" /\ NoRun.pc = "idle"
  BY <1>1 DEF Run, NoRun
<1> HIDE DEF r
<1>5. CASE sync' = [sync EXCEPT ![p] = r]
  BY <1>1, <1>2, <1>3, <1>4, <1>5, LoneStep DEF Busy
<1>6. CASE sync' = [sync EXCEPT ![p] = NoRun]
  BY <1>1, <1>2, <1>3, <1>4, <1>6, LoneStep DEF Busy
<1> QED BY <1>1, <1>5, <1>6 DEF Go

LEMMA CrashLone ==
    ASSUME RInv, AInv', NEW p \in Proc, Crash(p)
    PROVE  RInv'
<1> DEFINE b == sync[p].bill
<1>1. ~SyncAt(p, "idle") /\ Die(p)
  BY DEF Crash
<1>2. orphaned \subseteq orphaned'
  BY <1>1 DEF Die
<1>3. CASE UNCHANGED details
  BY <1>1, <1>3, DieLone DEF HasRows
<1>4. ASSUME SyncAt(p, "store"), NEW q \in Reading, StorePart(b, q)
      PROVE  RInv'
  <2>1. sync[p].pc = "store"
    BY <1>4 DEF SyncAt
  <2> QED BY <1>1, <1>2, <1>4, <2>1, OneReading, DieLone
<1> QED BY <1>3, <1>4 DEF Crash

LEMMA RInvInit == SyncInit => RInv
<1> SUFFICES ASSUME SyncInit PROVE RInv
  OBVIOUS
<1>1. NoRun.pc = "idle"
  BY DEF NoRun
<1>2. \A p \in Proc : sync[p].pc = "idle"
  BY <1>1 DEF SyncInit
<1>3. \A b \in Bill : ~HasRows(b)
  BY DEF SyncInit, HasRows
<1>4. Lone
  BY <1>2, <1>3 DEF Lone, SyncAt, Busy
<1>5. MixedNeedsReplay
  BY DEF SyncInit, MixedNeedsReplay, Reading
<1> QED BY <1>4, <1>5, SyncInitGood DEF RInv

LEMMA RInvNext == RInv /\ [SyncNext]_syncVars => RInv'
<1> SUFFICES ASSUME RInv, [SyncNext]_syncVars PROVE RInv'
  OBVIOUS
<1>0. AInv'
  BY AInvNext DEF RInv
<1>1. ASSUME UNCHANGED <<mark, details, sync, overlapped, orphaned>> PROVE RInv'
  BY <1>0, <1>1 DEF RInv, Lone, MixedNeedsReplay, SyncAt, HasRows, Holds
<1>2. ASSUME NEW p \in Proc, BeginSync(p) \/ BeginScript(p) PROVE RInv'
  BY <1>0, <1>2, StartLone DEF BeginSync, BeginScript
<1>3. ASSUME NEW p \in Proc, SyncStep(p) PROVE RInv'
  BY <1>0, <1>3, NextSourceLone, ListLone, TakeMailLone, FindStatementLone, StoreLone,
     MoveMarkLone, CrashLone
     DEF SyncStep, ScriptSource, ScriptList, ScriptMail, ScriptStore, ScriptMark
<1> QED BY <1>1, <1>2, <1>3 DEF SyncNext, Others, syncVars

\* Two readings of one PDF stand side by side only if two runs were once under
\* way together or the run that stored the first died before its watermark
\* moved: as long as the runs come one at a time and none dies, each bill is
\* read into the table once, although a failed store leaves it there in part.
THEOREM ReplayedOnlyByOverlap == SyncSpec => []MixedNeedsReplay
<1>1. RInv => MixedNeedsReplay
  BY DEF RInv
<1> QED BY <1>1, RInvInit, RInvNext, PTL DEF SyncSpec
===============================================================================
