---------------------------- MODULE MCCcTxnImport ----------------------------
(* Small instances of CcTxnImport: one or two labels, one or two messages. *)
EXTENDS CcTxnImport, TLC

CONSTANTS HDFC, SBI, HDFC_XX9335, SBI_XX5965, m1, m2, w1, w2

OneFolder == {HDFC}
OneLegacy == [f \in OneFolder |-> HDFC_XX9335]
TwoFolders == {HDFC, SBI}
TwoLegacy == [f \in TwoFolders |-> IF f = HDFC THEN HDFC_XX9335 ELSE SBI_XX5965]

OneMsg == {m1}
TwoMsgs == {m1, m2}

\* m2 came later than m1.
Received == [m \in Msg |-> IF m = m1 THEN 1 ELSE 2]

\* Every message may get every label.
AnyHome == [m \in Msg |-> Folder]

Symmetric == Permutations({w1, w2})
=============================================================================
