------------------------------- MODULE Periods -------------------------------
(***************************************************************************)
(* What the gateway takes for granted about the subscriptions contract: the *)
(* period of each account as get_subscription shows it.  _mirror_chain       *)
(* (src/gateway/application/billing_service.py) copies it into a row, the    *)
(* period_key of src/gateway/infrastructure/billing/subscriptions.py names   *)
(* its grant by plan and started, and Billing models the contract by it.    *)
(* Subscriptions, the contract itself, is shown to implement it.            *)
(***************************************************************************)
EXTENDS Naturals

CONSTANTS Accounts, Plans

VARIABLES now, period

Period == [plan : Plans, started : Nat, expires : Nat, periods : Nat]

Nothing(p) == p.started = 0 /\ p.expires = 0 /\ p.periods = 0

Init == now = 0 /\ \A a \in Accounts : Nothing(period[a])

\* A payment adds to the end of the period that runs: it keeps its plan and its
\* start, and so its name, and never ends earlier than it did.
Extend(p, q) ==
    /\ p.expires > now
    /\ q.plan = p.plan /\ q.started = p.started
    /\ q.expires > p.expires

\* Or it begins one, at the present second of the ledger.
Begin(p, q) ==
    /\ q.started = now /\ q.expires > now
    /\ p.expires > now => q.plan # p.plan

\* One payment, one period of one account.
Pay(a) ==
    /\ Extend(period[a], period'[a]) \/ Begin(period[a], period'[a])
    /\ period'[a].periods = period[a].periods + 1
    /\ period'[a] \in Period
    /\ \A b \in Accounts \ {a} : period'[b] = period[b]
    /\ UNCHANGED now

\* The ledger's clock moves on, and no period changes by that alone.
Close == now' \in Nat /\ now' > now /\ UNCHANGED period

Next == Close \/ \E a \in Accounts : Pay(a)

Spec == Init /\ [][Next]_<<now, period>>

=============================================================================
