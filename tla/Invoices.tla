------------------------------ MODULE Invoices ------------------------------
(***************************************************************************)
(* From a payment on the Stellar ledger to tokens: checkout, confirm,      *)
(* reconcile and _deliver of src/gateway/application/billing_service.py,   *)
(* settle of src/gateway/application/x402_service.py, over the invoices    *)
(* and ledger tables and the network of stellar.py.                        *)
(*                                                                         *)
(* As in Billing, one step is one call to the store or to the network with *)
(* the code up to the next.  A transaction pays one invoice, named by its  *)
(* memo; payment_for sees only the newest one that carries the memo.       *)
(***************************************************************************)
EXTENDS FiniteSets, Naturals

CONSTANTS
    Packs, Plans, Quotes,   \* invoices by kind: pack, plan, x402
    MaxIssued,              \* bound on the invoices issued
    MaxTxs,                 \* bound on the payments an invoice gets
    Handlers                \* requests being served, the poller among them

Invoices == Packs \cup Plans \cup Quotes

ASSUME InvoicesAssumption ==
    /\ Packs \cap Quotes = {} /\ Plans \cap Quotes = {} /\ Packs \cap Plans = {}
    /\ MaxIssued \in Nat /\ MaxTxs \in Nat

\* Transactions: the invoice whose memo they carry, their number, and whether
\* they pay too little.
Txs == [of : Invoices, n : 1..MaxTxs, short : BOOLEAN]

VARIABLES
    status,     \* invoices table: the status column, "none" before checkout
    lapsed,     \* invoices whose expires_at has passed
    included,   \* transactions the network has taken
    newest,     \* the newest of them with an invoice's memo
    keys,       \* ledger table: references of the credits
    started,    \* plan invoices whose subscription was written
    calls,      \* what each handler's coroutine holds
    crossed,    \* history: invoices two requests were at, at once
    cut         \* history: invoices a request was cut off from

vars == <<status, lapsed, included, newest, keys, started, calls, crossed, cut>>

marks == <<crossed, cut>>

NoTx == [n |-> 0]

\* invoice:<id>, or x402:<transaction hash>.
InvoiceKey(i) == [kind |-> "invoice", of |-> i]
TxKey(t)      == [kind |-> "x402", of |-> t]
Keys == {InvoiceKey(i) : i \in Invoices} \cup {TxKey(t) : t \in Txs}

Statuses == {"none", "pending", "paid", "expired"}

Places == {"idle", "ask", "answer", "deliver", "subscribe",
           "submit", "reread", "settled", "credit"}

\* open is the status the coroutine read, tx the payment it has in hand.
NoInvoice == "no invoice"
Idle  == [at |-> "idle", of |-> NoInvoice, open |-> FALSE, tx |-> NoTx]
Calls == {Idle} \cup [at : Places \ {"idle"}, of : Invoices, open : BOOLEAN,
                      tx : Txs \cup {NoTx}]

TypeOK ==
    /\ status \in [Invoices -> Statuses]
    /\ lapsed \subseteq Invoices
    /\ included \subseteq Txs
    /\ newest \in [Invoices -> Txs \cup {NoTx}]
    /\ keys \subseteq Keys
    /\ started \subseteq Plans
    /\ calls \in [Handlers -> Calls]
    /\ crossed \subseteq Invoices /\ cut \subseteq Invoices

Init ==
    /\ status = [i \in Invoices |-> "none"]
    /\ lapsed = {}
    /\ included = {}
    /\ newest = [i \in Invoices |-> NoTx]
    /\ keys = {}
    /\ started = {}
    /\ calls = [h \in Handlers |-> Idle]
    /\ crossed = {} /\ cut = {}

End(h) == calls' = [calls EXCEPT ![h] = Idle]
Moves(h, place) == calls' = [calls EXCEPT ![h].at = place]

\* A request begins on the invoice, while another is at it or not.
Meet(i) ==
    /\ crossed' = IF \E g \in Handlers : calls[g].of = i THEN crossed \cup {i} ELSE crossed
    /\ UNCHANGED cut

-----------------------------------------------------------------------------
(* Plausible bugs of the definitions below, used to test the properties.   *)

\* A payment that carries the memo is enough.
SettlesByMemo(t, i) == t.of = i

\* confirm that looks at the clock before anything else.
ConfirmByClock(h, i) ==
    /\ calls[h].at = "idle" /\ status[i] # "none"
    /\ IF i \in lapsed
       THEN status' = [status EXCEPT ![i] = "expired"] /\ UNCHANGED calls
       ELSE /\ calls' = [calls EXCEPT ![h] = [at |-> "ask", of |-> i, tx |-> NoTx,
                                              open |-> status[i] = "pending"]]
            /\ UNCHANGED status
    /\ Meet(i)
    /\ UNCHANGED <<lapsed, included, newest, keys, started>>

\* confirm that takes an expired invoice for a closed one.
ConfirmPending(h, i) ==
    /\ calls[h].at = "idle" /\ status[i] = "pending"
    /\ calls' = [calls EXCEPT ![h] = [at |-> "ask", of |-> i, tx |-> NoTx,
                                      open |-> TRUE]]
    /\ Meet(i)
    /\ UNCHANGED <<status, lapsed, included, newest, keys, started>>

\* _deliver that stops at the tokens.
DeliverTokensOnly(h) ==
    LET i == calls[h].of
    IN  /\ calls[h].at = "deliver"
        /\ keys' = IF i \in Quotes THEN keys ELSE keys \cup {InvoiceKey(i)}
        /\ End(h)
        /\ UNCHANGED <<status, lapsed, included, newest, started, marks>>

\* The invoice is marked paid and its delivery left to somebody else.
PayWithoutDelivery(h) ==
    LET c == calls[h]
    IN  /\ c.at = "answer" /\ c.tx # NoTx /\ ~c.tx.short
        /\ status' = [status EXCEPT ![c.of] = "paid"]
        /\ End(h)
        /\ UNCHANGED <<lapsed, included, newest, keys, started, marks>>

-----------------------------------------------------------------------------
(* Selling, and the network                                                *)

\* The invoice row that every sale begins with.
Issue(i) ==
    /\ status[i] = "none"
    /\ Cardinality({j \in Invoices : status[j] # "none"}) < MaxIssued
    /\ status' = [status EXCEPT ![i] = "pending"]
    /\ UNCHANGED <<lapsed, included, newest, keys, started, calls, marks>>

\* checkout of a pack or a plan.
Checkout(i) == i \in Packs \cup Plans /\ Issue(i)

\* requirements: a 402 quotes a price, and its invoice is written with it.
Challenge(i) == i \in Quotes /\ Issue(i)

Lapse(i) ==
    /\ status[i] # "none" /\ i \notin lapsed
    /\ lapsed' = lapsed \cup {i}
    /\ UNCHANGED <<status, included, newest, keys, started, calls, marks>>

\* The network takes a transaction; taking it twice changes nothing.
Include(t) ==
    /\ included' = included \cup {t}
    /\ newest' = IF t \in included THEN newest
                 ELSE [newest EXCEPT ![t.of] = t]

\* A payment that has not been made, as the bound counts them.
Fresh(t) == \A u \in included : u.of = t.of => u.n # t.n

\* The payer's wallet sends a payment.
Pay(t) ==
    /\ status[t.of] # "none" /\ Fresh(t)
    /\ Include(t)
    /\ UNCHANGED <<status, lapsed, keys, started, calls, marks>>

\* ObservedPayment.settles
settles(t, i) == t.of = i /\ ~t.short

-----------------------------------------------------------------------------
(* confirm                                                                 *)

\* A paid invoice returns itself; any other is asked about.
Confirm(h, i) ==
    /\ calls[h].at = "idle" /\ status[i] \in {"pending", "expired"}
    /\ calls' = [calls EXCEPT ![h] = [at |-> "ask", of |-> i, tx |-> NoTx,
                                      open |-> status[i] = "pending"]]
    /\ Meet(i)
    /\ UNCHANGED <<status, lapsed, included, newest, keys, started>>

\* reconcile, at one of the pending invoices it walks: confirm of it.
Sweep(h, i) == status[i] = "pending" /\ Confirm(h, i)

\* The first record on Horizon's page, newest first, that is a payment with the memo.
observed(i) == newest[i]

\* payment_for
Ask(h) ==
    /\ calls[h].at = "ask"
    /\ calls' = [calls EXCEPT ![h].at = "answer", ![h].tx = observed(calls[h].of)]
    /\ UNCHANGED <<status, lapsed, included, newest, keys, started, marks>>

\* Horizon cannot be asked, or the invoice is still open and unpaid, or the
\* payment does not settle it.
NotYet(h) ==
    LET c == calls[h]
    IN  /\ \/ c.at = "ask"
           \/ c.at = "answer" /\ c.tx = NoTx /\ c.open /\ c.of \notin lapsed
           \/ c.at = "answer" /\ c.tx # NoTx /\ ~settles(c.tx, c.of)
        /\ End(h)
        /\ UNCHANGED <<status, lapsed, included, newest, keys, started, marks>>

\* put_invoice(invoice.expired()): whatever the row says by now.
Expire(h) ==
    LET c == calls[h]
    IN  /\ c.at = "answer" /\ c.tx = NoTx
        /\ ~c.open \/ c.of \in lapsed
        /\ status' = [status EXCEPT ![c.of] = "expired"]
        /\ End(h)
        /\ UNCHANGED <<lapsed, included, newest, keys, started, marks>>

Paid(h) ==
    LET c == calls[h]
    IN  /\ c.at = "answer" /\ c.tx # NoTx /\ settles(c.tx, c.of)
        /\ status' = [status EXCEPT ![c.of] = "paid"]
        /\ Moves(h, "deliver")
        /\ UNCHANGED <<lapsed, included, newest, keys, started, marks>>

\* _deliver: the catalog is asked first, and an x402 quote is no product of
\* it, so UnknownProductError ends the request there.
Deliver(h) ==
    LET i == calls[h].of
    IN  /\ calls[h].at = "deliver"
        /\ keys' = IF i \in Quotes THEN keys ELSE keys \cup {InvoiceKey(i)}
        /\ IF i \in Plans THEN Moves(h, "subscribe") ELSE End(h)
        /\ UNCHANGED <<status, lapsed, included, newest, started, marks>>

\* The subscription of a plan (its rows are in Billing).
Subscribe(h) ==
    /\ calls[h].at = "subscribe"
    /\ started' = started \cup {calls[h].of}
    /\ End(h)
    /\ UNCHANGED <<status, lapsed, included, newest, keys, marks>>

-----------------------------------------------------------------------------
(* X402Service.settle                                                      *)

IsOpen(i) == status[i] = "pending" /\ i \notin lapsed

\* StellarNetwork.verify: the first payment of the signed envelope to the destination, in
\* the invoice's asset, with its memo, is enough.
verifies(t, i) == t.of = i /\ ~t.short

\* redeem and the verify of settle: the X-PAYMENT header can be read and names an
\* invoice, of whatever kind, that is open, and the envelope pays it.
Redeem(h, t) ==
    /\ calls[h].at = "idle"
    /\ Fresh(t) \/ t \in included
    /\ IsOpen(t.of) /\ verifies(t, t.of)
    /\ calls' = [calls EXCEPT ![h] = [at |-> "submit", of |-> t.of, tx |-> t,
                                      open |-> TRUE]]
    /\ Meet(t.of)
    /\ UNCHANGED <<status, lapsed, included, newest, keys, started>>

\* The network takes the envelope, and says so or is not heard.
Submit(h) ==
    /\ calls[h].at = "submit"
    /\ Include(calls[h].tx)
    /\ Moves(h, "reread") \/ End(h)
    /\ UNCHANGED <<status, lapsed, keys, started, marks>>

\* It is refused, or never arrives.
SubmitFails(h) ==
    /\ calls[h].at = "submit"
    /\ End(h)
    /\ UNCHANGED <<status, lapsed, included, newest, keys, started, marks>>

\* The invoice is read again; if it is not open any more, that is all.
Reread(h) ==
    /\ calls[h].at = "reread"
    /\ IF IsOpen(calls[h].of) THEN Moves(h, "settled") ELSE End(h)
    /\ UNCHANGED <<status, lapsed, included, newest, keys, started, marks>>

Settled(h) ==
    /\ calls[h].at = "settled"
    /\ status' = [status EXCEPT ![calls[h].of] = "paid"]
    /\ Moves(h, "credit")
    /\ UNCHANGED <<lapsed, included, newest, keys, started, marks>>

\* The payer's own address is credited.
Credit(h) ==
    /\ calls[h].at = "credit"
    /\ keys' = keys \cup {TxKey(calls[h].tx)}
    /\ End(h)
    /\ UNCHANGED <<status, lapsed, included, newest, started, marks>>

-----------------------------------------------------------------------------

\* The request is cancelled, or the process stops.
Die(h) ==
    /\ calls[h].at # "idle"
    /\ End(h)
    /\ cut' = cut \cup {calls[h].of}
    /\ UNCHANGED <<status, lapsed, included, newest, keys, started, crossed>>

Step(h) ==
    \/ Ask(h) \/ Expire(h) \/ Paid(h) \/ Deliver(h) \/ Subscribe(h)
    \/ (calls[h].at = "answer" /\ NotYet(h))
    \/ Submit(h) \/ Reread(h) \/ Settled(h) \/ Credit(h)

Next ==
    \/ \E i \in Invoices : Checkout(i) \/ Challenge(i) \/ Lapse(i)
    \/ \E t \in Txs : Pay(t)
    \/ \E h \in Handlers : \/ \E i \in Invoices : Confirm(h, i) \/ Sweep(h, i)
                           \/ \E t \in Txs : Redeem(h, t)
                           \/ Step(h) \/ NotYet(h) \/ SubmitFails(h) \/ Die(h)

Spec == Init /\ [][Next]_vars

\* A request that is ready goes on, and Horizon answers often enough about
\* each invoice.
Served ==
    /\ \A h \in Handlers : WF_vars(Step(h))
    /\ \A i \in Invoices : SF_vars(\E h \in Handlers : calls[h].of = i /\ Ask(h))

\* Nothing in the gateway calls confirm or reconcile of its own accord, so neither is fair.
FairSpec == Spec /\ Served

-----------------------------------------------------------------------------
(* Properties.                                                             *)

CreditsOf(i)  == keys \cap ({InvoiceKey(i)}
                              \cup {TxKey(t) : t \in {u \in Txs : u.of = i}})
PaymentsOf(i) == {t \in included : t.of = i /\ ~t.short}

\* "the tokens must appear exactly once": however many confirmations, polls
\* and settlements run at once, no invoice is credited without a payment that
\* settles it, nor more often than it was paid.  A pack or a plan that a
\* confirmation and an X-PAYMENT settle at once is the exception, by one: each
\* has a reference of its own.
CreditedAsPaid ==
    \A i \in Invoices :
        LET credits  == Cardinality(CreditsOf(i))
            payments == Cardinality(PaymentsOf(i))
        IN  \/ credits <= payments
            \/ i \in crossed \ Quotes /\ 0 < payments /\ credits <= payments + 1

\* "a paid invoice returns itself, and the credit behind it is keyed on the
\* invoice id": a pack or a plan marked paid has been credited, and a plan whose
\* invoice delivered its tokens has its subscription, or somebody is still at it.
\* Nobody will look at it again: a request that is cut off there leaves it so.
PaidMeansCredited ==
    /\ \A i \in (Packs \cup Plans) \ cut :
           status[i] = "paid" =>
               \/ CreditsOf(i) # {}
               \/ \E h \in Handlers : calls[h].of = i /\ calls[h].at \in {"deliver", "credit"}
    /\ \A i \in Plans \ cut :
           InvoiceKey(i) \in keys =>
               \/ i \in started
               \/ \E h \in Handlers : calls[h].of = i /\ calls[h].at = "subscribe"

\* "a paid invoice returns itself": once paid, no confirmation makes it less,
\* unless another request had read it before: expired() is then written over.
PaidIsFinal ==
    [][\A i \in Invoices \ crossed : status[i] = "paid" => status'[i] = "paid"]_vars

\* "Safe to poll" (routes/billing.py:199).  If somebody asks about a pack or a plan over and
\* over until told that it is paid, a payment that settles it is credited, be it late and
\* whatever else confirms, sweeps or redeems the invoice meanwhile; unless a request was cut
\* off from the invoice, or a payment that is too little came after it and hides it.  That
\* somebody asks is the premise, and none of the gateway's doing: nothing there schedules
\* confirm or reconcile, and a payer who never comes back is promised nothing here.
PaymentIsCredited ==
    \A i \in Packs \cup Plans :
        SF_vars(\E h \in Handlers : Confirm(h, i)) =>
            (observed(i) \in PaymentsOf(i)
             ~> CreditsOf(i) # {} \/ i \in cut \/ observed(i) \notin PaymentsOf(i))

=============================================================================
