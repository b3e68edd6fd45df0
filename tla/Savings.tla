------------------------------- MODULE Savings -------------------------------
(***************************************************************************)
(* What the ledgers of a tenant promise: books kept by one clerk.  There   *)
(* are no entries, requests or locks in them, only how many packets of     *)
(* each month are broken and how much was moved out of each goal; each     *)
(* operation looks at the books as they are and changes them at once.      *)
(***************************************************************************)
EXTENDS Integers, FiniteSets

CONSTANTS
    Month, Goal, Amount,
    Packet, Zero,  \* what a plan may buy, and nothing
    Payments,      \* what a plan pays into the goals
    MaxQuantity, MaxPay

VARIABLES
    plan,   \* the packet of each month
    paid,   \* what each month pays into each goal
    out,    \* the packets broken out of each month
    moved   \* what was moved out of each goal

vars == <<plan, paid, out, moved>>

Init ==
    /\ plan = [m \in Month |-> Zero]
    /\ paid = [m \in Month |-> [g \in Goal |-> 0]]
    /\ out = [m \in Month |-> 0]
    /\ moved = [g \in Goal |-> 0]

Left(m) == plan[m].quantity - out[m]
Of(denominations) == {m \in Month : plan[m] # Zero /\ plan[m].amount \in denominations}
Fund(g) == Cardinality(UNION {{m} \X (1 .. paid[m][g]) : m \in Month})

\* A plan has at least the packets that were broken, of their denomination.
Save(m, packet, payments) ==
    /\ packet.quantity >= out[m]
    /\ out[m] > 0 => packet.amount = plan[m].amount
    /\ plan' = [plan EXCEPT ![m] = packet]
    /\ paid' = [paid EXCEPT ![m] = payments]
    /\ UNCHANGED <<out, moved>>

\* Packets are broken if they are there, the oldest first.
Break(take, denominations) ==
    /\ \A m \in Month :
         take[m] > 0 =>
            /\ m \in Of(denominations)
            /\ take[m] <= Left(m)
            /\ \A n \in Of(denominations) : n < m => take[n] = Left(n)
    /\ out' = [m \in Month |-> out[m] + take[m]]
    /\ UNCHANGED <<plan, paid, moved>>

Mend(m, n) ==
    /\ n <= out[m]
    /\ out' = [out EXCEPT ![m] = @ - n]
    /\ UNCHANGED <<plan, paid, moved>>

\* Money is moved out of a goal if it was paid in.
Move(g, n) ==
    /\ moved[g] + n <= Fund(g)
    /\ moved' = [moved EXCEPT ![g] = @ + n]
    /\ UNCHANGED <<plan, paid, out>>

Return(g, n) ==
    /\ n <= moved[g]
    /\ moved' = [moved EXCEPT ![g] = @ - n]
    /\ UNCHANGED <<plan, paid, out>>

\* A break asks for one denomination, or for any.
Next ==
    \/ \E m \in Month, packet \in Packet, payments \in Payments : Save(m, packet, payments)
    \/ \E take \in [Month -> 0 .. MaxQuantity], denominations \in {Amount} \cup {{a} : a \in Amount} :
         Break(take, denominations)
    \/ \E m \in Month, n \in 1 .. MaxQuantity : Mend(m, n)
    \/ \E g \in Goal, n \in 1 .. MaxPay : Move(g, n) \/ Return(g, n)

Spec == Init /\ [][Next]_vars
=============================================================================
