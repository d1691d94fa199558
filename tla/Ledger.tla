------------------------------- MODULE Ledger -------------------------------
(***************************************************************************)
(* What the rows of an account add up to: balance_of of                    *)
(* src/gateway/domain/billing.py.                                          *)
(*                                                                         *)
(* The ledger is append-only and balance_of replays it from the first row, *)
(* so a model of the ledger can keep, for each account, the two pools the  *)
(* loop has reached instead of the rows behind them: appending a row is    *)
(* one more round of the loop, and reading the balance is what follows the *)
(* loop.  The pools are the loop's own variables; purchased may be         *)
(* negative, which is how an overspend is remembered.                      *)
(***************************************************************************)
EXTENDS Integers

Pools == [granted : Nat, purchased : Int]

NoTokens == [granted |-> 0, purchased |-> 0]

\* The sum of both pools: what the account owns, or owes when negative.
Worth(p) == p.granted + p.purchased

-----------------------------------------------------------------------------
(* Plausible bugs of the definitions below, used to test the properties.   *)

\* Each pool is clamped on its own: an overspend is forgiven.
ForgivingBalance(p) ==
    [granted   |-> p.granted,
     purchased |-> IF p.purchased < 0 THEN 0 ELSE p.purchased]

-----------------------------------------------------------------------------
(* One round of the loop, by the kind of the row.  No code writes an        *)
(* ADJUSTMENT row: it is an operator's own.                                *)

grant(p, tokens) == [p EXCEPT !.granted = @ + tokens]

\* PURCHASE and REFUND.
purchase(p, tokens) == [p EXCEPT !.purchased = @ + tokens]

expire(p, tokens) ==
    [p EXCEPT !.granted = IF @ < tokens THEN 0 ELSE @ - tokens]

\* USAGE: the perishable pool first, the rest from the other.
debit(p, owed) ==
    LET from_grant == IF p.granted < owed THEN p.granted ELSE owed
    IN  [granted   |-> p.granted - from_grant,
         purchased |-> p.purchased - (owed - from_grant)]

\* The end of balance_of: a negative pool is covered by the granted one, and
\* nothing is ever shown as less than zero.
Balance(p) ==
    IF p.purchased >= 0 THEN p
    ELSE [granted |-> IF Worth(p) < 0 THEN 0 ELSE Worth(p), purchased |-> 0]

can_afford(p, tokens) == Worth(Balance(p)) >= tokens

=============================================================================
