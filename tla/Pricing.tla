------------------------------- MODULE Pricing -------------------------------
(***************************************************************************)
(* Where tokens and money meet: Money.scaled, Pricing and Usage of          *)
(* src/gateway/domain/billing.py, and what a sequence of sales and runs     *)
(* comes to under their integer rounding.  Money is an integer number of    *)
(* micros.  The two scales, PER_MILLION and the 10_000 basis points, are    *)
(* parameters, so that TLC meets every remainder with small numbers.        *)
(***************************************************************************)
EXTENDS Integers

CONSTANTS PER_MILLION,       \* tokens a rate is quoted for
          Whole,             \* basis points in one: 10_000
          Rates,             \* Pricing.per_million, in micros
          Margins,           \* Pricing.margin_bps
          Minimums,          \* Pricing.minimum_charge
          Amounts,           \* micros somebody pays
          Bills,             \* micros the agent reports a run cost, or was refunded
          Counts,            \* token counts the agent reports
          MaxSales, MaxRuns  \* bounds on the history

ASSUME PricingAssumption ==
    /\ PER_MILLION \in Nat \ {0} /\ Whole \in Nat \ {0}
    /\ Rates \subseteq Nat
    /\ Margins \subseteq Nat /\ Minimums \subseteq Nat
    /\ Amounts \subseteq Nat /\ Bills \subseteq Nat /\ Counts \subseteq Nat
    /\ MaxSales \in Nat /\ MaxRuns \in Nat

VARIABLES rate, margin, minimum,   \* the deployment's Pricing
          sales,                   \* [n, paid, sold]: tokens bought at list price
          runs                     \* [n, cost, charged]: runs that were charged for

pricingVars == <<rate, margin, minimum, sales, runs>>

\* Money.parse takes a negative number like any other.
Costs == Bills \cup {-b : b \in Bills}

\* The agent's panel after Usage.from_agent: whatever it could not read is zero.
Usages == [tokens : Counts, calls : {0, 1}, cost : Costs, simulated : BOOLEAN]

PricingTypeOK ==
    /\ rate \in Rates /\ margin \in Margins /\ minimum \in Minimums
    /\ sales \in [n : 0..MaxSales, paid : Nat, sold : Nat]
    /\ runs \in [n : 0..MaxRuns, cost : Int, charged : Nat]

PricingInit ==
    /\ rate \in Rates /\ margin \in Margins /\ minimum \in Minimums
    /\ sales = [n |-> 0, paid |-> 0, sold |-> 0]
    /\ runs = [n |-> 0, cost |-> 0, charged |-> 0]

-----------------------------------------------------------------------------
\* max(0, ...)
Floored(n) == IF n < 0 THEN 0 ELSE n

(* Mutants. *)

\* tokens_for, rounding half up like every other conversion
TokensRoundedUp(amount) ==
    IF rate = 0 THEN 0 ELSE Floored((amount * PER_MILLION + rate \div 2) \div rate)

\* scaled, rounding down
ScaledDown(micros, numerator, denominator) == (micros * numerator) \div denominator

-----------------------------------------------------------------------------

\* Money.scaled: rounded half up, in integers throughout.
scaled(micros, numerator, denominator) ==
    (micros * numerator + denominator \div 2) \div denominator

\* Pricing.tokens_for: rounded down.
tokens_for(amount) ==
    IF rate = 0 THEN 0 ELSE Floored((amount * PER_MILLION) \div rate)

\* Usage.is_empty
is_empty(usage) == usage.calls = 0 /\ usage.tokens = 0

\* max(self.minimum_charge, ...)
at_least(tokens) == IF tokens < minimum THEN minimum ELSE tokens

\* Pricing.billable
billable(usage) ==
    IF usage.simulated \/ is_empty(usage) THEN 0
    ELSE IF usage.cost = 0 THEN at_least(usage.tokens)
    ELSE at_least(tokens_for(scaled(usage.cost, Whole + margin, Whole)))

\* A payment at list price: X402Service.requirements through tokens_worth.
Sell(amount) ==
    /\ sales.n < MaxSales
    /\ sales' = [n |-> sales.n + 1, paid |-> sales.paid + amount,
                 sold |-> sales.sold + tokens_for(amount)]
    /\ UNCHANGED <<rate, margin, minimum, runs>>

\* BillingService.charge: nothing to write when there is nothing to charge.
Run(usage) ==
    /\ runs.n < MaxRuns
    /\ billable(usage) > 0
    /\ runs' = [n |-> runs.n + 1, cost |-> runs.cost + usage.cost,
                charged |-> runs.charged + billable(usage)]
    /\ UNCHANGED <<rate, margin, minimum, sales>>

PricingNext == (\E amount \in Amounts : Sell(amount)) \/ (\E usage \in Usages : Run(usage))

PricingSpec == PricingInit /\ [][PricingNext]_pricingVars

-----------------------------------------------------------------------------
(* Properties. *)

\* "Rounded DOWN: never sell more than was paid for" (billing.py:285), however the money
\* comes in: many small payments do not buy what one large one would not.
NeverOversold == sales.sold * rate <= sales.paid * PER_MILLION

\* "what the run COST, marked up" (billing.py:294): over any series of runs the tokens
\* charged are worth the provider's bill with the margin on it, to within the one token
\* and the half micro that rounding takes off each run.  (At a rate of zero a token is
\* worth nothing, and the minimum is all that is charged.)
CostsCovered ==
    rate # 0 =>
        2 * Whole * rate * (runs.charged + runs.n)
            >= PER_MILLION * (2 * runs.cost * (Whole + margin) - Whole * runs.n)

=============================================================================
