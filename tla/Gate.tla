-------------------------------- MODULE Gate --------------------------------
(***************************************************************************)
(* Who pays for a run: payer_of of src/gateway/api/payment_gate.py, with   *)
(* the sessions of Identity, X402Service.redeem and the route that starts  *)
(* the run on the account it was given.                                    *)
(*                                                                         *)
(* One step is one call to the store or to the network with the code up to *)
(* the next.  A payment is an envelope signed by its payer's key with the  *)
(* memo of one quote.  Whether an account can pay for a run is Billing's   *)
(* to decide and a choice here.  The ledger is external; its answer to a   *)
(* submission names the source account.                                    *)
(***************************************************************************)
EXTENDS Identity, TLC

CONSTANTS Quotes,     \* x402 invoices, one for each 402 that names a price
          Handlers,   \* requests being served
          MaxRuns     \* bound on the runs kept

ASSUME GateAssumption == MaxRuns \in Nat

VARIABLES
    status,     \* invoices table: the status of each quote, "none" before it is written
    quoted,     \* the account on its row, Nobody for a caller who gave none
    lapsed,     \* quotes whose expires_at has passed
    taken,      \* payments the ledger has taken
    credited,   \* payments credited to their payer: x402:<transaction> references
    calls,      \* what each handler's coroutine holds
    runs,       \* the accounts that the runs kept are on
    polled,     \* history: quotes an invoice poll marked paid
    lost        \* history: payments a request gave up on, its answer unheard or cut off

books    == <<status, quoted, lapsed, taken, credited>>
history  == <<polled, lost>>
gateVars == <<vars, books, calls, runs, history>>

Nobody == "nobody"

Payments == [by : Addresses, of : Quotes]
NoPayment == [of |-> "no quote"]

\* account is the payer once known, payment the envelope in hand.
Idle == [at |-> "idle", account |-> Nobody, payment |-> NoPayment]
Places == {"submit", "reread", "mark", "credit", "authorize", "refuse"}
Calls == {Idle} \cup [at : Places, account : Addresses \cup {Nobody},
                      payment : Payments \cup {NoPayment}]

GateTypeOK ==
    /\ TypeOK
    /\ status \in [Quotes -> {"none", "pending", "paid", "expired"}]
    /\ quoted \in [Quotes -> Addresses \cup {Nobody}]
    /\ lapsed \subseteq Quotes
    /\ taken \subseteq Payments /\ credited \subseteq Payments
    /\ calls \in [Handlers -> Calls]
    /\ runs \subseteq Addresses
    /\ polled \subseteq Quotes /\ lost \subseteq Payments

GateInit ==
    /\ Init
    /\ status = [q \in Quotes |-> "none"]
    /\ quoted = [q \in Quotes |-> Nobody]
    /\ lapsed = {} /\ taken = {} /\ credited = {}
    /\ calls = [h \in Handlers |-> Idle]
    /\ runs = {}
    /\ polled = {} /\ lost = {}

-----------------------------------------------------------------------------
(* Mutants. *)

\* redeem, returning the account of the quote
PayerAsQuoted(p) == quoted[p.of]

\* settle, with the credit left to whoever confirms the invoice
MarkIsEnough(h) ==
    /\ calls[h].at = "mark"
    /\ status' = [status EXCEPT ![calls[h].payment.of] = "paid"]
    /\ calls' = [calls EXCEPT ![h] = [Idle EXCEPT !.at = "authorize",
                                                  !.account = calls[h].payment.by]]
    /\ UNCHANGED <<vars, quoted, lapsed, taken, credited, runs, history>>

-----------------------------------------------------------------------------
(* Quotes. *)

Moves(h, place) == calls' = [calls EXCEPT ![h].at = place]
Turned(h) == calls' = [calls EXCEPT ![h] = [Idle EXCEPT !.at = "refuse"]]
End(h) == calls' = [calls EXCEPT ![h] = Idle]

\* requirements: the price is asked of the network, and the row written.
requirements(q, account) ==
    /\ status[q] = "none"
    /\ status' = [status EXCEPT ![q] = "pending"]
    /\ quoted' = [quoted EXCEPT ![q] = account]
    /\ UNCHANGED <<lapsed, taken, credited>>

\* POST /x402/quote, for whatever payer the body names.
Quote(q, account) ==
    /\ requirements(q, account)
    /\ UNCHANGED <<vars, calls, runs, history>>

Lapse(q) ==
    /\ status[q] # "none" /\ q \notin lapsed
    /\ lapsed' = lapsed \cup {q}
    /\ UNCHANGED <<vars, status, quoted, taken, credited, calls, runs, history>>

\* Invoice.is_open
is_open(q) == status[q] = "pending" /\ q \notin lapsed

\* GET /billing/invoices/{id}: confirm, whose invoice it is looked at afterwards.  A payment
\* it finds makes the row paid, and the delivery of what is no product fails.
Poll(q) ==
    /\ status[q] \in {"pending", "expired"}
    /\ IF \E p \in taken : p.of = q
       THEN status' = [status EXCEPT ![q] = "paid"] /\ polled' = polled \cup {q}
       ELSE /\ status[q] = "expired" \/ q \in lapsed
            /\ status' = [status EXCEPT ![q] = "expired"] /\ UNCHANGED polled
    /\ UNCHANGED <<vars, quoted, lapsed, taken, credited, calls, runs, lost>>

-----------------------------------------------------------------------------
(* payer_of. *)

\* _session_account: a bearer token the identity service accepts.
Session(h, t) ==
    /\ calls[h].at = "idle"
    /\ account_of(t)
    /\ calls' = [calls EXCEPT ![h] = [Idle EXCEPT !.at = "authorize", !.account = t.a]]
    /\ UNCHANGED <<vars, books, runs, history>>

\* _paid_account, with no token or one that is refused: redeem decodes the header, and the
\* quote it names is read and must be open.
Redeem(h, p) ==
    /\ calls[h].at = "idle"
    /\ is_open(p.of)
    /\ calls' = [calls EXCEPT ![h] = [Idle EXCEPT !.at = "submit", !.payment = p]]
    /\ UNCHANGED <<vars, books, runs, history>>

\* The ledger takes the envelope, again or for the first time, and the gateway hears it or not.
Submit(h) ==
    LET p == calls[h].payment
    IN  /\ calls[h].at = "submit"
        /\ taken' = taken \cup {p}
        /\ \/ Moves(h, "reread") /\ lost' = IF is_open(p.of) THEN lost \ {p} ELSE lost
           \/ Turned(h) /\ lost' = lost \cup {p}
        /\ UNCHANGED <<vars, status, quoted, lapsed, credited, runs, polled>>

\* It does not, or cannot be asked.
SubmitFails(h) ==
    /\ calls[h].at = "submit"
    /\ Turned(h)
    /\ UNCHANGED <<vars, books, runs, history>>

\* What redeem returns: the source account of the transaction the ledger took.
payer(p) == p.by

Paid(h) == calls' = [calls EXCEPT ![h] = [Idle EXCEPT !.at = "authorize",
                                                      !.account = payer(calls[h].payment)]]

\* The quote is read again; one that is not open any more is left as it is.
Reread(h) ==
    /\ calls[h].at = "reread"
    /\ IF is_open(calls[h].payment.of) THEN Moves(h, "mark") ELSE Paid(h)
    /\ UNCHANGED <<vars, books, runs, history>>

Mark(h) ==
    /\ calls[h].at = "mark"
    /\ status' = [status EXCEPT ![calls[h].payment.of] = "paid"]
    /\ Moves(h, "credit")
    /\ UNCHANGED <<vars, quoted, lapsed, taken, credited, runs, history>>

Credit(h) ==
    /\ calls[h].at = "credit"
    /\ credited' = credited \cup {calls[h].payment}
    /\ Paid(h)
    /\ UNCHANGED <<vars, status, quoted, lapsed, taken, runs, history>>

\* _refuse, of an account that authorize turns down or of a caller without one: no token that
\* is accepted, and no header, one that does not decode, names no quote or one that is not
\* open, carries an envelope that does not pay it, or was not taken.  A 402 with a price, or
\* without one when it cannot be had.
Refuse(h) ==
    /\ calls[h].at \in {"idle", "refuse", "authorize"}
    /\ (\E q \in Quotes : requirements(q, calls[h].account)) \/ UNCHANGED books
    /\ End(h)
    /\ UNCHANGED <<vars, runs, history>>

\* authorize, and RunOrchestrator.start: the account is authorised once more, the PM asked, the
\* run kept; or either fails.
Start(h) ==
    /\ calls[h].at = "authorize"
    /\ \/ Cardinality(runs) < MaxRuns /\ runs' = runs \cup {calls[h].account}
       \/ UNCHANGED runs
    /\ End(h)
    /\ UNCHANGED <<vars, books, history>>

\* The request is cancelled.
Die(h) ==
    /\ calls[h].at # "idle"
    /\ lost' = lost \cup ({calls[h].payment} \ {NoPayment})
    /\ End(h)
    /\ UNCHANGED <<vars, books, runs, polled>>

\* A new secret comes with a new process: requests and runs are gone.
Restart ==
    /\ Rotate
    /\ calls' = [h \in Handlers |-> Idle]
    /\ runs' = {}
    /\ lost' = lost \cup ({calls[h].payment : h \in Handlers} \ {NoPayment})
    /\ UNCHANGED <<books, polled>>

-----------------------------------------------------------------------------

\* The identity service, its wallets and the clock.
SignIn ==
    /\ \/ \E a \in Addresses : IssueChallenge(a)
       \/ \E b \in Addresses, t \in tokens : Sign(b, t)
       \/ \E t \in tokens, s \in signatures : Verify(t, s)
       \/ Tick
    /\ UNCHANGED <<books, calls, runs, history>>

GateNext ==
    \/ SignIn \/ Restart
    \/ \E q \in Quotes : \/ \E a \in Addresses \cup {Nobody} : Quote(q, a)
                         \/ Lapse(q) \/ Poll(q)
    \/ \E h \in Handlers : \/ \E t \in tokens : Session(h, t)
                           \/ \E p \in Payments : Redeem(h, p)
                           \/ Submit(h) \/ SubmitFails(h) \/ Reread(h)
                           \/ Mark(h) \/ Credit(h) \/ Refuse(h)
                           \/ Start(h) \/ Die(h)

GateSpec == GateInit /\ [][GateNext]_gateVars

\* Handlers and quotes are interchangeable, and so are the accounts.
Alike == Permutations(Handlers) \cup Permutations(Quotes) \cup Permutations(Addresses)

-----------------------------------------------------------------------------
(* Properties. *)

\* "whoever's key moved the money is whoever bought the tokens": a token that opens a session
\* names an account whose own key signed a challenge, under the secret in use, less than both
\* lifetimes together ago; and a run, or a request on its way to one, is on such an account or
\* on that of a key that signed a payment the ledger took, whatever account the quote named
\* and whoever presented the token or the header.
PayerProved ==
    /\ AccountProved
    /\ \A a \in (runs \cup {calls[h].account : h \in Handlers}) \ {Nobody} :
           \/ \E s \in signatures : s.by = a /\ s.over.sealed = secret
           \/ \E p \in taken : p.by = a

\* A payment the gate was told the ledger had taken is credited to its payer, though the run
\* it was to pay for be refused or fail, unless the quote lapsed, an invoice poll or another
\* payment closed it in between, or the request was cut off.  A header sent again after an
\* answer that was lost is credited like the first.
SettledIsCredited ==
    \A p \in taken \ lost :
        \/ p \in credited
        \/ \E h \in Handlers : calls[h].payment = p /\ calls[h].at \in {"reread", "mark", "credit"}
        \/ p.of \in lapsed \cup polled
        \/ \E r \in taken \ {p} : r.of = p.of

=============================================================================
