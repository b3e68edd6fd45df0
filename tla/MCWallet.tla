------------------------------ MODULE MCWallet ------------------------------
(* A small instance of Wallet: months of two, three and two days; a card     *)
(* whose cycle starts on the third, one whose cycle day no month here has,   *)
(* and one without a cycle day that only a detailed sync brings into being.  *)
EXTENDS Wallet, TLC

CONSTANTS HDFC, SBI, AXIS, b1, b2, b3, pw, i1, i2, e1, e2

Days == [m \in 0 .. 3 |-> <<0, 2, 5, 7>>[m + 1]]
Cycles == [c \in Card |-> IF c = HDFC THEN 3 ELSE IF c = SBI THEN 5 ELSE 0]

\* Every source is named after its card.
Sources == {HDFC, AXIS}
Own == [s \in Sources |-> s]
Nobody == [s \in Sources |-> None]
Flows == [s \in Sources |-> IF s = HDFC THEN "cloudPdf" ELSE "direct"]
Passwords == [s \in Sources |-> IF s = HDFC THEN pw ELSE None]
Guesses == [s \in Sources |-> {}]

\* The first bill is due in the month after it arrives, the second at the end
\* of the month it arrives in; the first is locked. The third comes with a PDF
\* too, though its source reads the mail's text.
Labels == [b \in Bill |-> IF b = b3 THEN AXIS ELSE HDFC]
Received == [b \in Bill |-> IF b = b1 THEN 3 ELSE IF b = b2 THEN 5 ELSE 4]
DueDates == [b \in Bill |-> IF b = b2 THEN 5 ELSE 6]
Locks == [b \in Bill |-> IF b = b1 THEN pw ELSE None]

Asked == {{HDFC}, {AXIS}}
Orders == {[sources |-> {HDFC}, dryRun |-> FALSE, bypass |-> FALSE],
           [sources |-> {HDFC}, dryRun |-> TRUE, bypass |-> FALSE],
           [sources |-> {AXIS}, dryRun |-> FALSE, bypass |-> TRUE]}
Calls(s, t, c, d) ==
    "statements" :> s @@ "transactions" :> t @@ "summary" :> c @@ "detailed" :> d
Mixed == {Calls(2, 0, 0, 0), Calls(1, 0, 0, 1), Calls(0, 0, 0, 2), Calls(0, 2, 0, 0), Calls(0, 1, 1, 0)}
OneScan == {Calls(0, 1, 0, 0)}

\* Purchases on the first card: one spread over two months, two shared.
Spread == [card |-> HDFC, day |-> 1, ts |-> 3, amount |-> 3, adj |-> [kind |-> "AMORTIZE", n |-> 2]]
Shared == [card |-> HDFC, day |-> 4, ts |-> 9, amount |-> 3, adj |-> [kind |-> "SPLIT", n |-> 2]]
Tables ==
    {[t \in Txn |-> None],
     [t \in Txn |-> IF t = 1 THEN Spread ELSE IF t = 3 THEN Shared ELSE None],
     [t \in Txn |-> IF t = 2 THEN Spread ELSE Shared]}

\* Rows without a timestamp.
Undated == {[t \in Txn |-> [Shared EXCEPT !.ts = IF t = 3 THEN 9 ELSE None]]}

Symmetric == Permutations({i1, i2}) \cup Permutations({e1, e2})
=============================================================================
