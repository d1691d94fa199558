---------------------------- MODULE InvoicesProofs ----------------------------
(***************************************************************************)
(* Proofs about Invoices, for any number of invoices of each kind, payments *)
(* and requests: a paid invoice stays paid and is credited, and no invoice  *)
(* is credited without a payment nor more often than it was paid.  And about *)
(* Pricing, which says what an invoice buys, for every rate, margin, minimum *)
(* and scale: the rounding argument, which no bounded set of amounts can     *)
(* exhaust.                                                                  *)
(***************************************************************************)
EXTENDS Invoices, Pricing, TLAPS, FiniteSetTheorems

-----------------------------------------------------------------------------
(* The inductive invariant.                                                *)

\* The payment a request has in hand.  From verify or settles on it pays the
\* invoice; from the network's answer on it is one the network has taken.
CallInv(c) ==
    /\ c.at \in {"submit", "reread", "settled", "credit", "deliver"}
         => c.tx \in Txs /\ settles(c.tx, c.of)
    /\ c.at \in {"reread", "settled", "credit", "deliver"} => c.tx \in included
    /\ c.at = "answer" /\ c.tx # NoTx => c.tx \in included
    /\ c.at = "subscribe" => c.of \in Plans

NewestInv ==
    /\ IsFiniteSet(included)
    /\ \A i \in Invoices : newest[i] # NoTx => newest[i] \in included

\* A credit has a payment behind it, and a quote's is its transaction's.
KeysInv ==
    /\ \A t \in Txs : TxKey(t) \in keys => t \in included /\ ~t.short
    /\ \A i \in Invoices :
         InvoiceKey(i) \in keys => i \notin Quotes /\ PaymentsOf(i) # {}

At(h, i) == calls[h].at # "idle" /\ calls[h].of = i

TxCredited(i) == \E t \in Txs : t.of = i /\ TxKey(t) \in keys
Credited(i) == InvoiceKey(i) \in keys \/ TxCredited(i)

\* An invoice no two requests were at: the one that is at it knows its status,
\* a credit is written after the row says paid, and once.
LoneInv(i) ==
    /\ \A g, h \in Handlers : At(g, i) /\ At(h, i) => g = h
    /\ \A h \in Handlers : At(h, i) =>
         /\ calls[h].at \in {"ask", "answer"} => status[i] \in {"pending", "expired"}
         /\ calls[h].at \in {"submit", "reread", "settled"} => status[i] = "pending"
         /\ calls[h].at \in {"deliver", "credit"} => status[i] = "paid" /\ ~Credited(i)
    /\ Credited(i) => status[i] = "paid"
    /\ ~(InvoiceKey(i) \in keys /\ TxCredited(i))

\* PaidMeansCredited, part by part.
PaidInv(i) ==
    status[i] = "paid" =>
        \/ Credited(i)
        \/ \E h \in Handlers : calls[h].of = i /\ calls[h].at \in {"deliver", "credit"}

StartedInv(i) ==
    InvoiceKey(i) \in keys =>
        \/ i \in started
        \/ \E h \in Handlers : calls[h].of = i /\ calls[h].at = "subscribe"

InvoicesInv ==
    /\ TypeOK
    /\ \A h \in Handlers : CallInv(calls[h])
    /\ NewestInv
    /\ KeysInv
    /\ \A i \in Invoices \ crossed : LoneInv(i)
    /\ \A i \in (Packs \cup Plans) \ cut : PaidInv(i)
    /\ \A i \in Plans \ cut : StartedInv(i)

-----------------------------------------------------------------------------
(* Requests and references.                                                *)

\* What a coroutine holds, and what becomes of it.
LEMMA Fields ==
    ASSUME NEW c \in Calls
    PROVE  /\ c.at \in Places
           /\ c.at # "idle" => /\ c.of \in Invoices /\ c.tx \in Txs \cup {NoTx}
                               /\ c.open \in BOOLEAN
           /\ \A p \in Places \ {"idle"} : c.at # "idle" =>
                /\ [c EXCEPT !.at = p] \in Calls
                /\ [c EXCEPT !.at = p].at = p
                /\ [c EXCEPT !.at = p].of = c.of
                /\ [c EXCEPT !.at = p].tx = c.tx
           /\ Idle \in Calls /\ Idle.at = "idle"
BY DEF Calls, Idle, Places

\* A coroutine that is ready to start something.
LEMMA Begun ==
    ASSUME NEW p \in Places \ {"idle"}, NEW i \in Invoices, NEW b \in BOOLEAN,
           NEW t \in Txs \cup {NoTx}
    PROVE  LET d == [at |-> p, of |-> i, tx |-> t, open |-> b]
           IN  d \in Calls /\ d.at = p /\ d.of = i /\ d.tx = t
BY DEF Calls

\* A coroutine that has heard from Horizon.
LEMMA Answered ==
    ASSUME NEW c \in Calls, c.at # "idle", NEW t \in Txs \cup {NoTx}
    PROVE  LET d == [c EXCEPT !.at = "answer", !.tx = t]
           IN  d \in Calls /\ d.at = "answer" /\ d.of = c.of /\ d.tx = t
<1>1. c \in [at : Places \ {"idle"}, of : Invoices, open : BOOLEAN,
             tx : Txs \cup {NoTx}]
  BY DEF Calls, Idle
<1> QED
  BY <1>1 DEF Calls, Places

\* The references of the two kinds of credit, and of two invoices, differ.
LEMMA References ==
    /\ \A i, j : InvoiceKey(i) = InvoiceKey(j) => i = j
    /\ \A t, u : TxKey(t) = TxKey(u) => t = u
    /\ \A i, t : InvoiceKey(i) # TxKey(t)
    /\ \A i \in Invoices : InvoiceKey(i) \in Keys
    /\ \A t \in Txs : TxKey(t) \in Keys
<1>1. /\ \A i : InvoiceKey(i).of = i /\ InvoiceKey(i).kind = "invoice"
      /\ \A t : TxKey(t).of = t /\ TxKey(t).kind = "x402"
  BY DEF InvoiceKey, TxKey
<1>2. "invoice" # "x402"
  OBVIOUS
<1> QED
  BY <1>1, <1>2 DEF Keys

\* No transaction is no transaction.
LEMMA NoTxIsNone == NoTx \notin Txs
<1>1. "of" \notin DOMAIN NoTx
  BY DEF NoTx
<1>2. \A t \in Txs : "of" \in DOMAIN t
  BY DEF Txs
<1> QED
  BY <1>1, <1>2

\* The credits of an invoice, as a set and as a fact.
LEMMA CreditsMean ==
    ASSUME NEW i \in Invoices
    PROVE  CreditsOf(i) # {} <=> Credited(i)
BY DEF CreditsOf, Credited, TxCredited

-----------------------------------------------------------------------------
(* Steps.                                                                  *)

\* An invoice a step does not touch.
LEMMA Elsewhere ==
    ASSUME NEW i \in Invoices, status'[i] = status[i],
           Credited(i)' <=> Credited(i),
           (InvoiceKey(i) \in keys /\ TxCredited(i))'
             <=> InvoiceKey(i) \in keys /\ TxCredited(i),
           \A g \in Handlers : \/ calls'[g] = calls[g]
                               \/ ~At(g, i) /\ ~At(g, i)',
           LoneInv(i)
    PROVE  LoneInv(i)'
<1>1. \A g \in Handlers : /\ At(g, i)' <=> At(g, i)
                          /\ At(g, i) => calls'[g] = calls[g]
  BY DEF At
<1> QED
  BY <1>1 DEF LoneInv

\* The one request at an invoice takes a step, or the first one begins.
LEMMA OwnStep ==
    ASSUME NEW h \in Handlers, NEW i \in Invoices, LoneInv(i),
           \A g \in Handlers \ {h} : calls'[g] = calls[g] /\ ~At(g, i),
           At(h, i)' =>
             /\ calls'[h].at \in {"ask", "answer"}
                  => status'[i] \in {"pending", "expired"}
             /\ calls'[h].at \in {"submit", "reread", "settled"}
                  => status'[i] = "pending"
             /\ calls'[h].at \in {"deliver", "credit"}
                  => status'[i] = "paid" /\ ~Credited(i)',
           Credited(i)' => status'[i] = "paid",
           ~(InvoiceKey(i) \in keys' /\ TxCredited(i)')
    PROVE  LoneInv(i)'
<1>1. \A g \in Handlers : At(g, i)' => g = h
  BY DEF At
<1> QED
  BY <1>1 DEF LoneInv

\* A step of request h on invoice i: what is left to show is about i.
LEMMA RequestStep ==
    ASSUME InvoicesInv, NEW h \in Handlers, NEW i \in Invoices, NEW d \in Calls,
           calls' = [calls EXCEPT ![h] = d],
           calls[h].at = "idle" \/ calls[h].of = i,
           d.at = "idle" \/ d.of = i,
           \A j \in Invoices \ {i} :
               /\ status'[j] = status[j]
               /\ InvoiceKey(j) \in keys' <=> InvoiceKey(j) \in keys
               /\ \A t \in Txs : t.of = j => (TxKey(t) \in keys' <=> TxKey(t) \in keys),
           started \subseteq started', included \subseteq included',
           crossed \subseteq crossed', cut \subseteq cut',
           TypeOK', CallInv(d)', NewestInv', KeysInv',
           i \notin crossed' => LoneInv(i)',
           i \in (Packs \cup Plans) \ cut' => PaidInv(i)',
           i \in Plans \ cut' => StartedInv(i)'
    PROVE  InvoicesInv'
<1>a. /\ TypeOK /\ \A g \in Handlers : CallInv(calls[g])
      /\ \A j \in Invoices \ crossed : LoneInv(j)
      /\ \A j \in (Packs \cup Plans) \ cut : PaidInv(j)
      /\ \A j \in Plans \ cut : StartedInv(j)
  BY DEF InvoicesInv
<1>b. calls'[h] = d /\ \A g \in Handlers \ {h} : calls'[g] = calls[g]
  BY <1>a DEF TypeOK
<1>1. \A g \in Handlers : CallInv(calls[g])'
  BY <1>a, <1>b DEF CallInv
<1>2. \A j \in Invoices \ {i} :
        /\ Credited(j)' <=> Credited(j)
        /\ (InvoiceKey(j) \in keys /\ TxCredited(j))'
             <=> InvoiceKey(j) \in keys /\ TxCredited(j)
        /\ \A g \in Handlers : \/ calls'[g] = calls[g]
                               \/ ~At(g, j) /\ ~At(g, j)'
  BY <1>b DEF Credited, TxCredited, At
<1>3. \A j \in Invoices \ crossed' : LoneInv(j)'
  BY <1>a, <1>2, Elsewhere
<1>4. \A j \in (Packs \cup Plans) \ cut' : PaidInv(j)'
  <2> SUFFICES ASSUME NEW j \in (Packs \cup Plans) \ cut', j # i
               PROVE  PaidInv(j)'
    OBVIOUS
  <2>1. j \in Invoices /\ PaidInv(j)
    BY <1>a DEF Invoices
  <2> QED
    BY <1>b, <1>2, <2>1 DEF PaidInv
<1>5. \A j \in Plans \ cut' : StartedInv(j)'
  <2> SUFFICES ASSUME NEW j \in Plans \ cut', j # i
               PROVE  StartedInv(j)'
    OBVIOUS
  <2>1. j \in Invoices \ {i} /\ StartedInv(j)
    BY <1>a DEF Invoices
  <2>2. InvoiceKey(j) \in keys' <=> InvoiceKey(j) \in keys
    BY <2>1
  <2>3. \A g \in Handlers : calls[g].of = j /\ calls[g].at = "subscribe"
                            => calls'[g] = calls[g]
    BY <1>b, <2>1
  <2> QED
    BY <2>1, <2>2, <2>3 DEF StartedInv
<1> QED
  BY <1>1, <1>3, <1>4, <1>5 DEF InvoicesInv

\* A step of request h on invoice i that writes nothing but marks.
LEMMA QuietStep ==
    ASSUME InvoicesInv, NEW h \in Handlers, NEW i \in Invoices, NEW d \in Calls,
           calls' = [calls EXCEPT ![h] = d],
           calls[h].at = "idle" \/ calls[h].of = i,
           d.at = "idle" \/ d.of = i,
           UNCHANGED <<status, lapsed, included, newest, keys, started>>,
           crossed \subseteq crossed', crossed' \subseteq Invoices,
           cut \subseteq cut', cut' \subseteq Invoices,
           CallInv(d),
           i \notin crossed' =>
             /\ At(h, i) \/ \A g \in Handlers : ~At(g, i)
             /\ d.at \in {"ask", "answer"} => status[i] \in {"pending", "expired"}
             /\ d.at \in {"submit", "reread", "settled"} => status[i] = "pending"
             /\ d.at \notin {"deliver", "credit"},
           calls[h].at \in {"deliver", "credit", "subscribe"} => i \in cut'
    PROVE  InvoicesInv'
<1>a. /\ TypeOK /\ NewestInv /\ KeysInv
      /\ calls \in [Handlers -> Calls]
      /\ \A j \in Invoices \ crossed : LoneInv(j)
      /\ \A j \in (Packs \cup Plans) \ cut : PaidInv(j)
      /\ \A j \in Plans \ cut : StartedInv(j)
  BY DEF InvoicesInv, TypeOK
<1>b. calls'[h] = d /\ \A g \in Handlers \ {h} : calls'[g] = calls[g]
  BY <1>a
<1>1. TypeOK'
  <2>1. calls' \in [Handlers -> Calls]
    BY <1>a
  <2> QED
    BY <1>a, <2>1 DEF TypeOK
<1>2. CallInv(d)' /\ NewestInv'
  BY <1>a DEF CallInv, NewestInv
<1>3. KeysInv'
  BY <1>a DEF KeysInv, PaymentsOf
<1>4. (TxCredited(i)' <=> TxCredited(i)) /\ (Credited(i)' <=> Credited(i))
  BY DEF TxCredited, Credited
<1>5. ASSUME i \notin crossed'
      PROVE  LoneInv(i)'
  <2>1. LoneInv(i)
    BY <1>5, <1>a
  <2>2. \A g \in Handlers \ {h} : calls'[g] = calls[g] /\ ~At(g, i)
    BY <1>5, <1>b, <2>1 DEF LoneInv
  <2>3. /\ Credited(i)' => status'[i] = "paid"
        /\ ~(InvoiceKey(i) \in keys' /\ TxCredited(i)')
    BY <1>4, <2>1 DEF LoneInv
  <2>4. At(h, i)' =>
          /\ calls'[h].at \in {"ask", "answer"}
               => status'[i] \in {"pending", "expired"}
          /\ calls'[h].at \in {"submit", "reread", "settled"}
               => status'[i] = "pending"
          /\ calls'[h].at \in {"deliver", "credit"}
               => status'[i] = "paid" /\ ~Credited(i)'
    BY <1>5, <1>b
  <2> QED
    BY <2>1, <2>2, <2>3, <2>4, OwnStep
<1>6. i \in (Packs \cup Plans) \ cut' => PaidInv(i)'
  BY <1>a, <1>b, <1>4 DEF PaidInv
<1>7. i \in Plans \ cut' => StartedInv(i)'
  BY <1>a, <1>b DEF StartedInv
<1> QED
  BY <1>1, <1>2, <1>3, <1>5, <1>6, <1>7, RequestStep

\* A request begins on an invoice: confirm asks about it, or settle pays it.
LEMMA BeginStep ==
    ASSUME InvoicesInv, NEW h \in Handlers, NEW i \in Invoices,
           NEW p \in {"ask", "submit"}, NEW t \in Txs \cup {NoTx}, NEW b \in BOOLEAN,
           calls[h].at = "idle", Meet(i),
           calls' = [calls EXCEPT ![h] = [at |-> p, of |-> i, tx |-> t, open |-> b]],
           UNCHANGED <<status, lapsed, included, newest, keys, started>>,
           p = "ask" => status[i] \in {"pending", "expired"},
           p = "submit" => status[i] = "pending" /\ t \in Txs /\ settles(t, i)
    PROVE  InvoicesInv'
<1>a. p \in Places \ {"idle"}
  BY DEF Places
<1> DEFINE e == [at |-> p, of |-> i, tx |-> t, open |-> b]
<1>b. e \in Calls /\ e.at = p /\ e.of = i /\ e.tx = t
  BY <1>a, Begun
<1>1. PICK d \in Calls : d = e /\ d.at = p /\ d.of = i /\ d.tx = t
  <2> HIDE DEF e
  <2> QED
    BY <1>b
<1>2. CallInv(d)
  BY <1>1 DEF CallInv
<1>3. calls' = [calls EXCEPT ![h] = d]
  BY <1>1
<1>4. /\ crossed \subseteq crossed' /\ crossed' \subseteq Invoices
      /\ cut \subseteq cut' /\ cut' \subseteq Invoices
      /\ i \notin crossed' => \A g \in Handlers : ~At(g, i)
  BY DEF InvoicesInv, TypeOK, Meet, At
<1> QED
  BY <1>1, <1>2, <1>3, <1>4, QuietStep

\* confirm, and reconcile at each invoice it walks, ask about an invoice.
LEMMA ConfirmStep ==
    ASSUME InvoicesInv, NEW h \in Handlers, NEW i \in Invoices, Confirm(h, i)
    PROVE  InvoicesInv'
<1>1. PICK b \in BOOLEAN : b = (status[i] = "pending")
  OBVIOUS
<1> QED
  BY <1>1, BeginStep DEF Confirm

\* settle takes an envelope that verify found to pay the invoice.
LEMMA RedeemStep ==
    ASSUME InvoicesInv, NEW h \in Handlers, NEW t \in Txs, Redeem(h, t)
    PROVE  InvoicesInv'
<1>1. t.of \in Invoices
  BY DEF Txs
<1> QED
  BY <1>1, BeginStep DEF Redeem, IsOpen, verifies, settles

\* A request ends, with nothing written or cut off.
LEMMA EndStep ==
    ASSUME InvoicesInv, NEW h \in Handlers, calls[h].at # "idle", End(h),
           UNCHANGED <<status, lapsed, included, newest, keys, started, crossed>>,
           \/ cut' = cut \cup {calls[h].of}
           \/ cut' = cut /\ calls[h].at \notin {"deliver", "credit", "subscribe"}
    PROVE  InvoicesInv'
<1>1. calls[h] \in Calls /\ crossed \subseteq Invoices /\ cut \subseteq Invoices
  BY DEF InvoicesInv, TypeOK
<1>2. PICK i \in Invoices : i = calls[h].of
  BY <1>1, Fields
<1>3. PICK d \in Calls : d = Idle /\ d.at = "idle"
  BY <1>1, Fields
<1>4. calls' = [calls EXCEPT ![h] = d] /\ CallInv(d)
  BY <1>3 DEF End, CallInv
<1>5. At(h, i)
  BY <1>2 DEF At
<1> QED
  BY <1>1, <1>2, <1>3, <1>4, <1>5, QuietStep

\* payment_for answers with the newest payment, or with none.
LEMMA AskStep ==
    ASSUME InvoicesInv, NEW h \in Handlers, Ask(h)
    PROVE  InvoicesInv'
<1>1. /\ calls[h] \in Calls /\ crossed \subseteq Invoices /\ cut \subseteq Invoices
      /\ newest \in [Invoices -> Txs \cup {NoTx}] /\ NewestInv
      /\ calls \in [Handlers -> Calls]
      /\ \A j \in Invoices \ crossed : LoneInv(j)
  BY DEF InvoicesInv, TypeOK
<1>2. PICK i \in Invoices : i = calls[h].of
  BY <1>1, Fields DEF Ask
<1>3. newest[i] \in Txs \cup {NoTx} /\ calls[h].at # "idle"
  BY <1>1 DEF Ask
<1> DEFINE e == [calls[h] EXCEPT !.at = "answer", !.tx = newest[i]]
<1>b. e \in Calls /\ e.at = "answer" /\ e.of = i /\ e.tx = newest[i]
  BY <1>1, <1>2, <1>3, Answered
<1>4. PICK d \in Calls : d = e /\ d.at = "answer" /\ d.of = i /\ d.tx = newest[i]
  <2> HIDE DEF e
  <2> QED
    BY <1>b
<1>5. calls' = [calls EXCEPT ![h] = d]
  BY <1>1, <1>2, <1>4 DEF Ask, observed
<1>6. CallInv(d)
  BY <1>1, <1>4 DEF CallInv, NewestInv
<1>7. At(h, i)
  BY <1>2 DEF At, Ask
<1>8. i \notin crossed => status[i] \in {"pending", "expired"}
  BY <1>1, <1>7 DEF LoneInv, Ask
<1>9. /\ UNCHANGED <<status, lapsed, included, newest, keys, started, crossed, cut>>
      /\ calls[h].at = "ask"
  BY DEF Ask, marks
<1> QED
  BY <1>1, <1>2, <1>4, <1>5, <1>6, <1>7, <1>8, <1>9, QuietStep

\* settle reads the invoice again before it writes.
LEMMA RereadStep ==
    ASSUME InvoicesInv, NEW h \in Handlers, Reread(h)
    PROVE  InvoicesInv'
<1>1. /\ calls[h] \in Calls /\ crossed \subseteq Invoices /\ cut \subseteq Invoices
      /\ calls \in [Handlers -> Calls] /\ CallInv(calls[h])
  BY DEF InvoicesInv, TypeOK
<1>2. PICK i \in Invoices : i = calls[h].of
  BY <1>1, Fields DEF Reread
<1>3. CASE ~IsOpen(i)
  BY <1>2, <1>3, EndStep DEF Reread, marks
<1>4. CASE IsOpen(i)
  <2>1. PICK d \in Calls : d = [calls[h] EXCEPT !.at = "settled"]
                           /\ d.at = "settled" /\ d.of = i /\ d.tx = calls[h].tx
    BY <1>1, <1>2, Fields DEF Reread, Places
  <2>2. calls' = [calls EXCEPT ![h] = d]
    BY <1>1, <1>2, <1>4, <2>1 DEF Reread, Moves
  <2>3. CallInv(d)
    BY <1>1, <1>2, <2>1 DEF CallInv, Reread
  <2>4. At(h, i)
    BY <1>2 DEF At, Reread
  <2> QED
    BY <1>1, <1>2, <1>4, <2>1, <2>2, <2>3, <2>4, QuietStep DEF Reread, marks, IsOpen
<1> QED
  BY <1>3, <1>4

\* confirm and settle write the invoice's status: over one that says paid only
\* where two requests met.
LEMMA StatusStep ==
    ASSUME InvoicesInv, NEW h \in Handlers, NEW i \in Invoices, NEW d \in Calls,
           calls' = [calls EXCEPT ![h] = d],
           calls[h].at \in {"answer", "settled"}, calls[h].of = i,
           NEW v \in {"expired", "paid"}, status' = [status EXCEPT ![i] = v],
           UNCHANGED <<lapsed, included, newest, keys, started, crossed, cut>>,
           v = "expired" => d.at = "idle",
           v = "paid" => d.at \in {"deliver", "credit"} /\ d.of = i,
           CallInv(d)
    PROVE  InvoicesInv'
<1>a. /\ TypeOK /\ NewestInv /\ KeysInv
      /\ calls \in [Handlers -> Calls] /\ status \in [Invoices -> Statuses]
      /\ \A j \in Invoices \ crossed : LoneInv(j)
      /\ \A j \in Plans \ cut : StartedInv(j)
  BY DEF InvoicesInv, TypeOK
<1>b. /\ calls'[h] = d /\ \A g \in Handlers \ {h} : calls'[g] = calls[g]
      /\ status'[i] = v /\ \A j \in Invoices \ {i} : status'[j] = status[j]
  BY <1>a
<1>1. TypeOK'
  <2>1. calls' \in [Handlers -> Calls] /\ status' \in [Invoices -> Statuses]
    BY <1>a DEF Statuses
  <2> QED
    BY <1>a, <2>1 DEF TypeOK
<1>2. CallInv(d)' /\ NewestInv'
  BY <1>a DEF CallInv, NewestInv
<1>3. KeysInv'
  BY <1>a DEF KeysInv, PaymentsOf
<1>4. (TxCredited(i)' <=> TxCredited(i)) /\ (Credited(i)' <=> Credited(i))
  BY DEF TxCredited, Credited
<1>5. ASSUME i \notin crossed'
      PROVE  LoneInv(i)'
  <2>1. LoneInv(i) /\ At(h, i)
    BY <1>5, <1>a DEF At
  <2>2. ~Credited(i)
    BY <2>1 DEF LoneInv
  <2>3. \A g \in Handlers \ {h} : calls'[g] = calls[g] /\ ~At(g, i)
    BY <1>b, <2>1 DEF LoneInv
  <2>4. ~Credited(i)' /\ ~(InvoiceKey(i) \in keys' /\ TxCredited(i)')
    BY <1>4, <2>2 DEF Credited
  <2>5. At(h, i)' =>
          /\ calls'[h].at \in {"ask", "answer"}
               => status'[i] \in {"pending", "expired"}
          /\ calls'[h].at \in {"submit", "reread", "settled"}
               => status'[i] = "pending"
          /\ calls'[h].at \in {"deliver", "credit"}
               => status'[i] = "paid" /\ ~Credited(i)'
    BY <1>b, <2>4 DEF At
  <2> QED
    BY <2>1, <2>3, <2>4, <2>5, OwnStep
<1>6. i \in (Packs \cup Plans) \ cut' => PaidInv(i)'
  BY <1>b DEF PaidInv
<1>7. i \in Plans \ cut' => StartedInv(i)'
  BY <1>a, <1>b DEF StartedInv
<1>8. calls[h].at = "idle" \/ calls[h].of = i
  OBVIOUS
<1>9. d.at = "idle" \/ d.of = i
  OBVIOUS
<1> QED
  BY <1>1, <1>2, <1>3, <1>5, <1>6, <1>7, <1>8, <1>9, <1>b, RequestStep

\* confirm writes expired(): alone at the invoice, not over one that is paid.
LEMMA ExpireStep ==
    ASSUME InvoicesInv, NEW h \in Handlers, Expire(h)
    PROVE  InvoicesInv'
<1>1. calls[h] \in Calls
  BY DEF InvoicesInv, TypeOK
<1>2. PICK i \in Invoices : i = calls[h].of
  BY <1>1, Fields DEF Expire
<1>3. PICK d \in Calls : d = Idle /\ d.at = "idle"
  BY <1>1, Fields
<1>4. calls' = [calls EXCEPT ![h] = d] /\ CallInv(d)
  BY <1>3 DEF Expire, End, CallInv
<1> QED
  BY <1>2, <1>3, <1>4, StatusStep DEF Expire, marks

\* confirm writes paid() and has the delivery before it.
LEMMA PaidStep ==
    ASSUME InvoicesInv, NEW h \in Handlers, Paid(h)
    PROVE  InvoicesInv'
<1>1. /\ calls[h] \in Calls /\ CallInv(calls[h]) /\ calls \in [Handlers -> Calls]
      /\ included \subseteq Txs
  BY DEF InvoicesInv, TypeOK
<1>2. PICK i \in Invoices : i = calls[h].of
  BY <1>1, Fields DEF Paid
<1> DEFINE e == [calls[h] EXCEPT !.at = "deliver"]
<1>b. e \in Calls /\ e.at = "deliver" /\ e.of = i /\ e.tx = calls[h].tx
  BY <1>1, <1>2, Fields DEF Paid, Places
<1>3. PICK d \in Calls : d = e /\ d.at = "deliver" /\ d.of = i /\ d.tx = calls[h].tx
  <2> HIDE DEF e
  <2> QED
    BY <1>b
<1>4. calls' = [calls EXCEPT ![h] = d]
  BY <1>1, <1>3 DEF Paid, Moves
<1>5. CallInv(d)
  BY <1>1, <1>2, <1>3 DEF CallInv, Paid
<1> QED
  BY <1>2, <1>3, <1>4, <1>5, StatusStep DEF Paid, marks

\* settle writes paid() and has the credit before it.
LEMMA SettledStep ==
    ASSUME InvoicesInv, NEW h \in Handlers, Settled(h)
    PROVE  InvoicesInv'
<1>1. /\ calls[h] \in Calls /\ CallInv(calls[h]) /\ calls \in [Handlers -> Calls]
      /\ included \subseteq Txs
  BY DEF InvoicesInv, TypeOK
<1>2. PICK i \in Invoices : i = calls[h].of
  BY <1>1, Fields DEF Settled
<1> DEFINE e == [calls[h] EXCEPT !.at = "credit"]
<1>b. e \in Calls /\ e.at = "credit" /\ e.of = i /\ e.tx = calls[h].tx
  BY <1>1, <1>2, Fields DEF Settled, Places
<1>3. PICK d \in Calls : d = e /\ d.at = "credit" /\ d.of = i /\ d.tx = calls[h].tx
  <2> HIDE DEF e
  <2> QED
    BY <1>b
<1>4. calls' = [calls EXCEPT ![h] = d]
  BY <1>1, <1>3 DEF Settled, Moves
<1>5. CallInv(d)
  BY <1>1, <1>2, <1>3 DEF CallInv, Settled
<1> QED
  BY <1>2, <1>3, <1>4, <1>5, StatusStep DEF Settled, marks

\* What the network takes stays taken.
LEMMA IncludeStep ==
    ASSUME InvoicesInv, NEW t \in Txs, Include(t), UNCHANGED keys
    PROVE  /\ included \subseteq included' /\ included' \subseteq Txs /\ t \in included'
           /\ newest' \in [Invoices -> Txs \cup {NoTx}]
           /\ NewestInv' /\ KeysInv'
<1>1. /\ included \subseteq Txs /\ newest \in [Invoices -> Txs \cup {NoTx}]
      /\ NewestInv /\ KeysInv
  BY DEF InvoicesInv, TypeOK
<1>2. t.of \in Invoices
  BY DEF Txs
<1>3. included' = included \cup {t}
  BY DEF Include
<1>4. newest' \in [Invoices -> Txs \cup {NoTx}]
  BY <1>1 DEF Include
<1>5. \A i \in Invoices : newest'[i] # NoTx => newest'[i] \in included'
  BY <1>1, <1>3 DEF Include, NewestInv
<1>6. IsFiniteSet(included')
  BY <1>1, <1>3, FS_AddElement DEF NewestInv
<1>7. \A i \in Invoices : PaymentsOf(i) # {} => PaymentsOf(i)' # {}
  BY <1>3 DEF PaymentsOf
<1>8. KeysInv'
  <2>1. \A u \in Txs : TxKey(u) \in keys' => u \in included' /\ ~u.short
    BY <1>1, <1>3 DEF KeysInv
  <2>2. \A i \in Invoices : InvoiceKey(i) \in keys'
                            => i \notin Quotes /\ PaymentsOf(i)' # {}
    BY <1>1, <1>3 DEF KeysInv, PaymentsOf
  <2> QED
    BY <2>1, <2>2 DEF KeysInv
<1> QED
  BY <1>1, <1>3, <1>4, <1>5, <1>6, <1>8 DEF NewestInv

\* The network takes the envelope, heard or not.
LEMMA SubmitStep ==
    ASSUME InvoicesInv, NEW h \in Handlers, Submit(h)
    PROVE  InvoicesInv'
<1>a. /\ TypeOK /\ calls[h] \in Calls /\ CallInv(calls[h])
      /\ calls \in [Handlers -> Calls]
      /\ \A j \in Invoices \ crossed : LoneInv(j)
      /\ \A j \in (Packs \cup Plans) \ cut : PaidInv(j)
      /\ \A j \in Plans \ cut : StartedInv(j)
  BY DEF InvoicesInv, TypeOK
<1>b. PICK i \in Invoices : i = calls[h].of
  BY <1>a, Fields DEF Submit
<1>c. PICK t \in Txs : t = calls[h].tx /\ settles(t, i)
  BY <1>a, <1>b DEF CallInv, Submit
<1>d. Include(t) /\ UNCHANGED <<status, lapsed, keys, started, crossed, cut>>
  BY <1>c DEF Submit, marks
<1>e. /\ included \subseteq included' /\ included' \subseteq Txs /\ t \in included'
      /\ newest' \in [Invoices -> Txs \cup {NoTx}]
      /\ NewestInv' /\ KeysInv'
  BY <1>d, IncludeStep
<1>f. PICK d \in Calls : /\ calls' = [calls EXCEPT ![h] = d]
                         /\ \/ d.at = "idle"
                            \/ d.at = "reread" /\ d.of = i /\ d.tx = t
  <2>1. CASE End(h)
    BY <1>a, <2>1, Fields DEF End
  <2>2. CASE Moves(h, "reread")
    <3> DEFINE e == [calls[h] EXCEPT !.at = "reread"]
    <3>1. e \in Calls /\ e.at = "reread" /\ e.of = i /\ e.tx = t
      BY <1>a, <1>b, <1>c, Fields DEF Submit, Places
    <3>2. calls' = [calls EXCEPT ![h] = e]
      BY <1>a, <2>2 DEF Moves
    <3> HIDE DEF e
    <3> QED
      BY <3>1, <3>2
  <2> QED
    BY <2>1, <2>2 DEF Submit
<1>g. calls'[h] = d /\ \A g \in Handlers \ {h} : calls'[g] = calls[g]
  BY <1>a, <1>f
<1>1. TypeOK'
  <2>1. calls' \in [Handlers -> Calls]
    BY <1>a, <1>f
  <2> QED
    BY <1>a, <1>d, <1>e, <2>1 DEF TypeOK
<1>2. CallInv(d)'
  BY <1>c, <1>e, <1>f DEF CallInv, settles
<1>4. (TxCredited(i)' <=> TxCredited(i)) /\ (Credited(i)' <=> Credited(i))
  BY <1>d DEF TxCredited, Credited
<1>5. ASSUME i \notin crossed'
      PROVE  LoneInv(i)'
  <2>1. LoneInv(i) /\ At(h, i)
    BY <1>5, <1>a, <1>b, <1>d DEF At, Submit
  <2>2. status'[i] = "pending"
    BY <1>d, <2>1 DEF LoneInv, Submit
  <2>3. \A g \in Handlers \ {h} : calls'[g] = calls[g] /\ ~At(g, i)
    BY <1>g, <2>1 DEF LoneInv
  <2>4. /\ Credited(i)' => status'[i] = "paid"
        /\ ~(InvoiceKey(i) \in keys' /\ TxCredited(i)')
    BY <1>d, <1>4, <2>1 DEF LoneInv
  <2>5. At(h, i)' =>
          /\ calls'[h].at \in {"ask", "answer"}
               => status'[i] \in {"pending", "expired"}
          /\ calls'[h].at \in {"submit", "reread", "settled"}
               => status'[i] = "pending"
          /\ calls'[h].at \in {"deliver", "credit"}
               => status'[i] = "paid" /\ ~Credited(i)'
    BY <1>f, <1>g, <2>2 DEF At
  <2> QED
    BY <2>1, <2>3, <2>4, <2>5, OwnStep
<1>6. i \in (Packs \cup Plans) \ cut' => PaidInv(i)'
  BY <1>a, <1>d, <1>g, <1>4 DEF PaidInv, Submit
<1>7. i \in Plans \ cut' => StartedInv(i)'
  BY <1>a, <1>d, <1>g DEF StartedInv, Submit
<1> QED
  BY <1>1, <1>2, <1>5, <1>6, <1>7, <1>b, <1>d, <1>e, <1>f, RequestStep

\* The payer's wallet sends a payment: no request takes part.
LEMMA PayStep ==
    ASSUME InvoicesInv, NEW t \in Txs, Pay(t)
    PROVE  InvoicesInv'
<1>a. /\ TypeOK /\ \A h \in Handlers : CallInv(calls[h])
      /\ \A j \in Invoices \ crossed : LoneInv(j)
      /\ \A j \in (Packs \cup Plans) \ cut : PaidInv(j)
      /\ \A j \in Plans \ cut : StartedInv(j)
  BY DEF InvoicesInv
<1>d. Include(t) /\ UNCHANGED <<status, lapsed, keys, started, calls, crossed, cut>>
  BY DEF Pay, marks
<1>e. /\ included \subseteq included' /\ included' \subseteq Txs
      /\ newest' \in [Invoices -> Txs \cup {NoTx}]
      /\ NewestInv' /\ KeysInv'
  BY <1>d, IncludeStep
<1>1. TypeOK'
  BY <1>a, <1>d, <1>e DEF TypeOK
<1>2. \A h \in Handlers : CallInv(calls[h])'
  BY <1>a, <1>d, <1>e DEF CallInv
<1>3. \A j \in Invoices \ crossed' : LoneInv(j)'
  BY <1>a, <1>d DEF LoneInv, At, Credited, TxCredited
<1>4. \A j \in (Packs \cup Plans) \ cut' : PaidInv(j)'
  BY <1>a, <1>d DEF PaidInv, Credited, TxCredited
<1>5. \A j \in Plans \ cut' : StartedInv(j)'
  BY <1>a, <1>d DEF StartedInv
<1> QED
  BY <1>1, <1>2, <1>3, <1>4, <1>5, <1>e DEF InvoicesInv

\* The clock passes expires_at.
LEMMA LapseStep ==
    ASSUME InvoicesInv, NEW i \in Invoices, Lapse(i)
    PROVE  InvoicesInv'
<1>1. TypeOK'
  BY DEF InvoicesInv, TypeOK, Lapse, marks
<1>2. NewestInv' /\ KeysInv' /\ \A h \in Handlers : CallInv(calls[h])'
  BY DEF InvoicesInv, Lapse, marks, NewestInv, KeysInv, PaymentsOf, CallInv
<1>3. \A j \in Invoices \ crossed' : LoneInv(j)'
  BY DEF InvoicesInv, Lapse, marks, LoneInv, At, Credited, TxCredited
<1>4. \A j \in (Packs \cup Plans) \ cut' : PaidInv(j)'
  BY DEF InvoicesInv, Lapse, marks, PaidInv, Credited, TxCredited
<1>5. \A j \in Plans \ cut' : StartedInv(j)'
  BY DEF InvoicesInv, Lapse, marks, StartedInv
<1> QED
  BY <1>1, <1>2, <1>3, <1>4, <1>5 DEF InvoicesInv

\* An invoice is issued: nothing was at it yet that knows its status.
LEMMA IssueStep ==
    ASSUME InvoicesInv, NEW i \in Invoices, Issue(i)
    PROVE  InvoicesInv'
<1>a. /\ status[i] = "none" /\ status' = [status EXCEPT ![i] = "pending"]
      /\ UNCHANGED <<lapsed, included, newest, keys, started, calls, crossed, cut>>
      /\ status \in [Invoices -> Statuses]
  BY DEF InvoicesInv, TypeOK, Issue, marks
<1>b. status'[i] = "pending" /\ \A j \in Invoices \ {i} : status'[j] = status[j]
  BY <1>a
<1>1. TypeOK'
  <2>1. status' \in [Invoices -> Statuses]
    BY <1>a DEF Statuses
  <2> QED
    BY <1>a, <2>1 DEF InvoicesInv, TypeOK
<1>2. NewestInv' /\ KeysInv' /\ \A h \in Handlers : CallInv(calls[h])'
  BY <1>a DEF InvoicesInv, NewestInv, KeysInv, PaymentsOf, CallInv
<1>3. \A j \in Invoices \ crossed' : LoneInv(j)'
  BY <1>a, <1>b DEF InvoicesInv, LoneInv, At, Credited, TxCredited
<1>4. \A j \in (Packs \cup Plans) \ cut' : PaidInv(j)'
  BY <1>a, <1>b DEF InvoicesInv, PaidInv, Credited, TxCredited, Invoices
<1>5. \A j \in Plans \ cut' : StartedInv(j)'
  BY <1>a DEF InvoicesInv, StartedInv
<1> QED
  BY <1>1, <1>2, <1>3, <1>4, <1>5 DEF InvoicesInv

\* _deliver credits the invoice, under its own reference.
LEMMA DeliverStep ==
    ASSUME InvoicesInv, NEW h \in Handlers, Deliver(h)
    PROVE  InvoicesInv'
<1>a. /\ TypeOK /\ calls[h] \in Calls /\ CallInv(calls[h]) /\ NewestInv /\ KeysInv
      /\ calls \in [Handlers -> Calls] /\ keys \subseteq Keys
      /\ \A j \in Invoices \ crossed : LoneInv(j)
      /\ \A j \in (Packs \cup Plans) \ cut : PaidInv(j)
      /\ \A j \in Plans \ cut : StartedInv(j)
  BY DEF InvoicesInv, TypeOK
<1>b. PICK i \in Invoices : i = calls[h].of
  BY <1>a, Fields DEF Deliver
<1>c. calls[h].tx \in PaymentsOf(i)
  BY <1>a, <1>b DEF CallInv, Deliver, PaymentsOf, settles
<1>d. /\ keys' = IF i \in Quotes THEN keys ELSE keys \cup {InvoiceKey(i)}
      /\ calls[h].at = "deliver"
      /\ UNCHANGED <<status, lapsed, included, newest, started, crossed, cut>>
  BY <1>b DEF Deliver, marks
<1>e. PICK d \in Calls : /\ calls' = [calls EXCEPT ![h] = d]
                         /\ \/ d.at = "idle" /\ i \notin Plans
                            \/ d.at = "subscribe" /\ d.of = i /\ i \in Plans
  <2>1. CASE i \notin Plans
    BY <1>a, <1>b, <2>1, Fields DEF Deliver, End
  <2>2. CASE i \in Plans
    <3> DEFINE e == [calls[h] EXCEPT !.at = "subscribe"]
    <3>1. e \in Calls /\ e.at = "subscribe" /\ e.of = i
      BY <1>a, <1>b, <1>d, Fields DEF Places
    <3>2. calls' = [calls EXCEPT ![h] = e]
      BY <1>a, <1>b, <2>2 DEF Deliver, Moves
    <3> HIDE DEF e
    <3> QED
      BY <2>2, <3>1, <3>2
  <2> QED
    BY <2>1, <2>2
<1>f. calls'[h] = d /\ \A g \in Handlers \ {h} : calls'[g] = calls[g]
  BY <1>a, <1>e
<1>g. /\ \A j \in Invoices \ {i} : InvoiceKey(j) \in keys' <=> InvoiceKey(j) \in keys
      /\ \A t \in Txs : TxKey(t) \in keys' <=> TxKey(t) \in keys
      /\ InvoiceKey(i) \in keys' <=> (i \notin Quotes \/ InvoiceKey(i) \in keys)
  BY <1>d, References
<1>1. TypeOK'
  <2>1. calls' \in [Handlers -> Calls] /\ keys' \subseteq Keys
    BY <1>a, <1>d, <1>e, References
  <2> QED
    BY <1>a, <1>d, <2>1 DEF TypeOK
<1>2. CallInv(d)' /\ NewestInv'
  BY <1>a, <1>d, <1>e DEF CallInv, NewestInv
<1>3. KeysInv'
  <2>1. \A t \in Txs : TxKey(t) \in keys' => t \in included' /\ ~t.short
    BY <1>a, <1>d, <1>g DEF KeysInv
  <2>2. \A j \in Invoices : InvoiceKey(j) \in keys'
                            => j \notin Quotes /\ PaymentsOf(j)' # {}
    BY <1>a, <1>c, <1>d, <1>g DEF KeysInv, PaymentsOf
  <2> QED
    BY <2>1, <2>2 DEF KeysInv
<1>4. TxCredited(i)' <=> TxCredited(i)
  BY <1>g DEF TxCredited
<1>5. ASSUME i \notin crossed'
      PROVE  LoneInv(i)'
  <2>1. LoneInv(i) /\ At(h, i)
    BY <1>5, <1>a, <1>b, <1>d DEF At
  <2>2. status'[i] = "paid" /\ ~Credited(i)
    BY <1>d, <2>1 DEF LoneInv
  <2>3. \A g \in Handlers \ {h} : calls'[g] = calls[g] /\ ~At(g, i)
    BY <1>f, <2>1 DEF LoneInv
  <2>4. ~TxCredited(i)'
    BY <1>4, <2>2 DEF Credited
  <2>5. /\ calls'[h].at \notin {"ask", "answer"}
        /\ calls'[h].at \notin {"submit", "reread", "settled"}
        /\ calls'[h].at \notin {"deliver", "credit"}
    BY <1>e, <1>f
  <2> QED
    BY <2>1, <2>2, <2>3, <2>4, <2>5, OwnStep
<1>6. i \in (Packs \cup Plans) \ cut' => PaidInv(i)'
  BY <1>g, InvoicesAssumption DEF PaidInv, Credited
<1>7. i \in Plans \ cut' => StartedInv(i)'
  BY <1>e, <1>f DEF StartedInv
<1> QED
  BY <1>1, <1>2, <1>3, <1>5, <1>6, <1>7, <1>b, <1>d, <1>e, <1>g, RequestStep

\* _deliver writes the subscription of a plan.
LEMMA SubscribeStep ==
    ASSUME InvoicesInv, NEW h \in Handlers, Subscribe(h)
    PROVE  InvoicesInv'
<1>a. /\ TypeOK /\ calls[h] \in Calls /\ CallInv(calls[h]) /\ NewestInv /\ KeysInv
      /\ calls \in [Handlers -> Calls]
      /\ \A j \in Invoices \ crossed : LoneInv(j)
      /\ \A j \in (Packs \cup Plans) \ cut : PaidInv(j)
  BY DEF InvoicesInv, TypeOK
<1>b. PICK i \in Invoices : i = calls[h].of
  BY <1>a, Fields DEF Subscribe
<1>c. /\ calls[h].at = "subscribe" /\ started' = started \cup {i}
      /\ UNCHANGED <<status, lapsed, included, newest, keys, crossed, cut>>
  BY <1>b DEF Subscribe, marks
<1>d. PICK d \in Calls : d = Idle /\ d.at = "idle"
  BY <1>a, Fields
<1>e. calls' = [calls EXCEPT ![h] = d]
  BY <1>d DEF Subscribe, End
<1>f. calls'[h] = d /\ \A g \in Handlers \ {h} : calls'[g] = calls[g]
  BY <1>a, <1>e
<1>1. TypeOK'
  <2>1. calls' \in [Handlers -> Calls] /\ started' \subseteq Plans
    BY <1>a, <1>b, <1>c, <1>e DEF TypeOK, CallInv
  <2> QED
    BY <1>a, <1>c, <2>1 DEF TypeOK
<1>2. CallInv(d)' /\ NewestInv'
  BY <1>a, <1>c, <1>d DEF CallInv, NewestInv
<1>3. KeysInv'
  BY <1>a, <1>c DEF KeysInv, PaymentsOf
<1>4. (TxCredited(i)' <=> TxCredited(i)) /\ (Credited(i)' <=> Credited(i))
  BY <1>c DEF TxCredited, Credited
<1>5. ASSUME i \notin crossed'
      PROVE  LoneInv(i)'
  <2>1. LoneInv(i) /\ At(h, i)
    BY <1>5, <1>a, <1>b, <1>c DEF At
  <2>2. \A g \in Handlers \ {h} : calls'[g] = calls[g] /\ ~At(g, i)
    BY <1>f, <2>1 DEF LoneInv
  <2>3. /\ Credited(i)' => status'[i] = "paid"
        /\ ~(InvoiceKey(i) \in keys' /\ TxCredited(i)')
    BY <1>c, <1>4, <2>1 DEF LoneInv
  <2>4. ~At(h, i)'
    BY <1>d, <1>f DEF At
  <2> QED
    BY <2>1, <2>2, <2>3, <2>4, OwnStep
<1>6. i \in (Packs \cup Plans) \ cut' => PaidInv(i)'
  BY <1>a, <1>c, <1>f, <1>4 DEF PaidInv
<1>7. i \in Plans \ cut' => StartedInv(i)'
  BY <1>c DEF StartedInv
<1> QED
  BY <1>1, <1>2, <1>3, <1>5, <1>6, <1>7, <1>b, <1>c, <1>d, <1>e, RequestStep

\* settle credits the invoice, under the reference of the transaction.
LEMMA CreditStep ==
    ASSUME InvoicesInv, NEW h \in Handlers, Credit(h)
    PROVE  InvoicesInv'
<1>a. /\ TypeOK /\ calls[h] \in Calls /\ CallInv(calls[h]) /\ NewestInv /\ KeysInv
      /\ calls \in [Handlers -> Calls] /\ keys \subseteq Keys
      /\ \A j \in Invoices \ crossed : LoneInv(j)
      /\ \A j \in Plans \ cut : StartedInv(j)
  BY DEF InvoicesInv, TypeOK
<1>b. PICK i \in Invoices : i = calls[h].of
  BY <1>a, Fields DEF Credit
<1>c. PICK t \in Txs : t = calls[h].tx /\ t \in included /\ t.of = i /\ ~t.short
  BY <1>a, <1>b DEF CallInv, Credit, settles
<1>d. /\ calls[h].at = "credit" /\ keys' = keys \cup {TxKey(t)}
      /\ UNCHANGED <<status, lapsed, included, newest, started, crossed, cut>>
  BY <1>c DEF Credit, marks
<1>e. PICK d \in Calls : d = Idle /\ d.at = "idle"
  BY <1>a, Fields
<1>f. calls' = [calls EXCEPT ![h] = d]
  BY <1>e DEF Credit, End
<1>g. calls'[h] = d /\ \A g \in Handlers \ {h} : calls'[g] = calls[g]
  BY <1>a, <1>f
<1>h. /\ \A j \in Invoices : InvoiceKey(j) \in keys' <=> InvoiceKey(j) \in keys
      /\ \A u \in Txs : TxKey(u) \in keys' <=> (u = t \/ TxKey(u) \in keys)
  BY <1>d, References
<1>1. TypeOK'
  <2>1. calls' \in [Handlers -> Calls] /\ keys' \subseteq Keys
    BY <1>a, <1>d, <1>f, References
  <2> QED
    BY <1>a, <1>d, <2>1 DEF TypeOK
<1>2. CallInv(d)' /\ NewestInv'
  BY <1>a, <1>d, <1>e DEF CallInv, NewestInv
<1>3. KeysInv'
  <2>1. \A u \in Txs : TxKey(u) \in keys' => u \in included' /\ ~u.short
    BY <1>a, <1>c, <1>d, <1>h DEF KeysInv
  <2>2. \A j \in Invoices : InvoiceKey(j) \in keys'
                            => j \notin Quotes /\ PaymentsOf(j)' # {}
    BY <1>a, <1>d, <1>h DEF KeysInv, PaymentsOf
  <2> QED
    BY <2>1, <2>2 DEF KeysInv
<1>4. TxCredited(i)'
  BY <1>c, <1>h DEF TxCredited
<1>5. ASSUME i \notin crossed'
      PROVE  LoneInv(i)'
  <2>1. LoneInv(i) /\ At(h, i)
    BY <1>5, <1>a, <1>b, <1>d DEF At
  <2>2. status'[i] = "paid" /\ ~Credited(i)
    BY <1>d, <2>1 DEF LoneInv
  <2>3. \A g \in Handlers \ {h} : calls'[g] = calls[g] /\ ~At(g, i)
    BY <1>g, <2>1 DEF LoneInv
  <2>4. InvoiceKey(i) \notin keys'
    BY <1>h, <2>2 DEF Credited
  <2>5. ~At(h, i)'
    BY <1>e, <1>g DEF At
  <2> QED
    BY <2>1, <2>2, <2>3, <2>4, <2>5, OwnStep
<1>6. i \in (Packs \cup Plans) \ cut' => PaidInv(i)'
  BY <1>4 DEF PaidInv, Credited
<1>7. i \in Plans \ cut' => StartedInv(i)'
  BY <1>a, <1>d, <1>g, <1>h DEF StartedInv
<1>8. \A j \in Invoices \ {i} : \A u \in Txs :
        u.of = j => (TxKey(u) \in keys' <=> TxKey(u) \in keys)
  BY <1>c, <1>h
<1>9. \A j \in Invoices \ {i} :
        /\ status'[j] = status[j]
        /\ InvoiceKey(j) \in keys' <=> InvoiceKey(j) \in keys
        /\ \A u \in Txs : u.of = j => (TxKey(u) \in keys' <=> TxKey(u) \in keys)
  BY <1>8, <1>d, <1>h
<1>10. /\ started \subseteq started' /\ included \subseteq included'
       /\ crossed \subseteq crossed' /\ cut \subseteq cut'
       /\ calls[h].of = i /\ d.at = "idle"
  BY <1>b, <1>d, <1>e
<1> QED
  BY <1>1, <1>2, <1>3, <1>5, <1>6, <1>7, <1>9, <1>10, <1>f, RequestStep

\* Nothing is sold yet.
LEMMA InvoicesInit ==
    ASSUME Init
    PROVE  InvoicesInv
<1>1. Idle \in Calls /\ Idle.at = "idle"
  BY DEF Calls, Idle
<1>2. \A h \in Handlers : calls[h] = Idle
  BY DEF Init
<1>3. TypeOK
  <2>1. calls \in [Handlers -> Calls] /\ status \in [Invoices -> Statuses]
    BY <1>1 DEF Init, Statuses
  <2> QED
    BY <2>1 DEF Init, TypeOK
<1>4. \A h \in Handlers : CallInv(calls[h])
  BY <1>1, <1>2 DEF CallInv
<1>5. NewestInv
  BY FS_EmptySet DEF Init, NewestInv
<1>6. KeysInv
  BY DEF Init, KeysInv
<1>7. \A i \in Invoices : status[i] = "none" /\ LoneInv(i) /\ PaidInv(i) /\ StartedInv(i)
  <2> SUFFICES ASSUME NEW i \in Invoices
               PROVE  status[i] = "none" /\ LoneInv(i) /\ PaidInv(i) /\ StartedInv(i)
    OBVIOUS
  <2>1. status[i] = "none" /\ InvoiceKey(i) \notin keys /\ ~TxCredited(i)
    BY DEF Init, TxCredited
  <2>2. ~Credited(i) /\ \A h \in Handlers : ~At(h, i)
    BY <1>1, <1>2, <2>1 DEF Credited, At
  <2> QED
    BY <2>1, <2>2 DEF LoneInv, PaidInv, StartedInv
<1> QED
  BY <1>3, <1>4, <1>5, <1>6, <1>7 DEF InvoicesInv, Invoices

\* Every step keeps the invariant.
LEMMA InvoicesNext ==
    ASSUME InvoicesInv, [Next]_vars
    PROVE  InvoicesInv'
<1>1. ASSUME NEW i \in Invoices, Checkout(i) \/ Challenge(i) \/ Lapse(i)
      PROVE  InvoicesInv'
  BY <1>1, IssueStep, LapseStep DEF Checkout, Challenge
<1>2. ASSUME NEW t \in Txs, Pay(t)
      PROVE  InvoicesInv'
  BY <1>2, PayStep
<1>3. ASSUME NEW h \in Handlers, NEW i \in Invoices, Confirm(h, i) \/ Sweep(h, i)
      PROVE  InvoicesInv'
  BY <1>3, ConfirmStep DEF Sweep
<1>4. ASSUME NEW h \in Handlers, NEW t \in Txs, Redeem(h, t)
      PROVE  InvoicesInv'
  BY <1>4, RedeemStep
<1>5. ASSUME NEW h \in Handlers, NotYet(h)
      PROVE  InvoicesInv'
  BY <1>5, EndStep DEF NotYet, marks
<1>6. ASSUME NEW h \in Handlers, SubmitFails(h) \/ Die(h)
      PROVE  InvoicesInv'
  BY <1>6, EndStep DEF SubmitFails, Die, marks
<1>7. ASSUME NEW h \in Handlers, Step(h)
      PROVE  InvoicesInv'
  BY <1>5, <1>7, AskStep, ExpireStep, PaidStep, DeliverStep, SubscribeStep,
     SubmitStep, RereadStep, SettledStep, CreditStep DEF Step
<1>8. CASE UNCHANGED vars
  <2>1. UNCHANGED <<status, lapsed, included, newest, keys, started, calls, crossed, cut>>
    BY <1>8 DEF vars
  <2>2. TypeOK' /\ NewestInv' /\ \A h \in Handlers : CallInv(calls[h])'
    BY <2>1 DEF InvoicesInv, TypeOK, NewestInv, CallInv
  <2>3. KeysInv' /\ \A i \in Plans \ cut' : StartedInv(i)'
    BY <2>1 DEF InvoicesInv, KeysInv, PaymentsOf, StartedInv
  <2>4. \A i \in Invoices \ crossed' : LoneInv(i)'
    BY <2>1 DEF InvoicesInv, LoneInv, At, Credited, TxCredited
  <2>5. \A i \in (Packs \cup Plans) \ cut' : PaidInv(i)'
    BY <2>1 DEF InvoicesInv, PaidInv, Credited, TxCredited
  <2> QED
    BY <2>2, <2>3, <2>4, <2>5 DEF InvoicesInv
<1> QED
  BY <1>1, <1>2, <1>3, <1>4, <1>5, <1>6, <1>7, <1>8 DEF Next

\* The invariant holds throughout.
LEMMA InvoicesTyped == Spec => []InvoicesInv
<1>1. Init => InvoicesInv
  BY InvoicesInit
<1>2. InvoicesInv /\ [Next]_vars => InvoicesInv'
  BY InvoicesNext
<1> QED
  BY <1>1, <1>2, PTL DEF Spec

-----------------------------------------------------------------------------
(* What an invoice's payer gets.                                           *)

\* A set with at most one element that a finite set does not have.
LEMMA OneMore ==
    ASSUME NEW T, IsFiniteSet(T), NEW x, NEW C, C \subseteq T \cup {x}
    PROVE  /\ Cardinality(C) \in Nat /\ Cardinality(T) \in Nat
           /\ Cardinality(C) <= Cardinality(T) + 1
<1>1. Cardinality(T) \in Nat
  BY FS_CardinalityType
<1>2. /\ IsFiniteSet(T \cup {x})
      /\ Cardinality(T \cup {x}) = IF x \in T THEN Cardinality(T) ELSE Cardinality(T) + 1
  BY FS_AddElement
<1>3. C \in SUBSET (T \cup {x})
  OBVIOUS
<1>4. IsFiniteSet(C) /\ Cardinality(C) <= Cardinality(T \cup {x})
  BY <1>2, <1>3, FS_Subset
<1>5. Cardinality(C) \in Nat
  BY <1>4, FS_CardinalityType
<1> QED
  BY <1>1, <1>2, <1>4, <1>5

\* The credits of an invoice are its own and those of payments that settle it.
LEMMA CreditsCounted ==
    ASSUME InvoicesInv, NEW i \in Invoices
    PROVE  LET credits  == Cardinality(CreditsOf(i))
               payments == Cardinality(PaymentsOf(i))
           IN  \/ credits <= payments
               \/ i \in crossed \ Quotes /\ 0 < payments /\ credits <= payments + 1
<1> DEFINE P == PaymentsOf(i)
           f == [t \in P |-> TxKey(t)]
           T == {f[t] : t \in P}
           C == CreditsOf(i)
<1>a. KeysInv /\ NewestInv /\ included \subseteq Txs
  BY DEF InvoicesInv, TypeOK
<1>1. IsFiniteSet(P) /\ Cardinality(P) \in Nat
  <2>1. P \subseteq included
    BY DEF PaymentsOf
  <2> QED
    BY <1>a, <2>1, FS_Subset, FS_CardinalityType DEF NewestInv
<1>2. IsFiniteSet(T) /\ Cardinality(T) <= Cardinality(P) /\ Cardinality(T) \in Nat
  <2>a. f \in [P -> T] /\ \A k \in T : \E t \in P : f[t] = k
    OBVIOUS
  <2> HIDE DEF P, f, T
  <2>b. f \in Surjection(P, T)
    BY <2>a DEF Surjection
  <2>1. IsFiniteSet(T) /\ Cardinality(T) <= Cardinality(P)
    BY <1>1, <2>b, FS_Surjection
  <2> QED
    BY <2>1, FS_CardinalityType
<1>3. ASSUME NEW k \in C, k # InvoiceKey(i)
      PROVE  k \in T
  <2>1. PICK t \in Txs : t.of = i /\ k = TxKey(t) /\ k \in keys
    BY <1>3 DEF CreditsOf
  <2>2. t \in P
    BY <1>a, <2>1 DEF KeysInv, PaymentsOf
  <2>3. f[t] = k
    BY <2>1, <2>2
  <2> QED
    BY <2>2, <2>3
<1>4. CASE InvoiceKey(i) \notin keys
  <2>1. C \subseteq T
    BY <1>3, <1>4 DEF CreditsOf
  <2>2. Cardinality(C) <= Cardinality(T) /\ Cardinality(C) \in Nat
    <3> HIDE DEF P, f, C, T
    <3>1. C \in SUBSET T
      BY <2>1
    <3>2. IsFiniteSet(C) /\ Cardinality(C) <= Cardinality(T)
      BY <1>2, <3>1, FS_Subset
    <3> QED
      BY <3>2, FS_CardinalityType
  <2> QED
    BY <1>1, <1>2, <2>2
<1>5. CASE InvoiceKey(i) \in keys
  <2>1. i \notin Quotes /\ P # {}
    BY <1>a, <1>5 DEF KeysInv
  <2>2. Cardinality(P) # 0
    BY <1>1, <2>1, FS_EmptySet
  <2>3. CASE i \in crossed
    <3>1. C \subseteq T \cup {InvoiceKey(i)}
      BY <1>3
    <3>2. Cardinality(C) \in Nat /\ Cardinality(C) <= Cardinality(T) + 1
      <4> HIDE DEF P, f, C, T
      <4> QED
        BY <1>2, <3>1, OneMore
    <3> QED
      BY <1>1, <1>2, <2>1, <2>2, <2>3, <3>2
  <2>4. CASE i \notin crossed
    <3>1. ~TxCredited(i)
      BY <1>5, <2>4 DEF InvoicesInv, LoneInv
    <3>2. C = {InvoiceKey(i)}
      BY <1>5, <3>1 DEF CreditsOf, TxCredited
    <3>3. Cardinality(C) = 1
      BY <3>2, FS_Singleton
    <3> QED
      BY <1>1, <2>2, <3>3
  <2> QED
    BY <2>3, <2>4
<1> QED
  BY <1>4, <1>5

\* CreditedAsPaid: whatever interleaving of confirmations, polls, X-PAYMENT
\* settlements, cancellations and late payments, the references that
\* BillingStore.credit refuses twice keep an invoice from being credited more
\* often than it was paid, except by one where a confirmation and a settlement met.
THEOREM Counted == Spec => [](TypeOK /\ CreditedAsPaid)
<1>1. InvoicesInv => TypeOK /\ CreditedAsPaid
  <2> SUFFICES ASSUME InvoicesInv
               PROVE  TypeOK /\ CreditedAsPaid
    OBVIOUS
  <2>1. TypeOK
    BY DEF InvoicesInv
  <2>2. CreditedAsPaid
    BY CreditsCounted DEF CreditedAsPaid
  <2> QED
    BY <2>1, <2>2
<1> QED
  BY <1>1, InvoicesTyped, PTL

\* PaidMeansCredited: confirm and settle write "paid" before the credit, and a
\* paid invoice is never looked at again; a pack or a plan marked paid has its
\* credit, or the request that marked it is still at it, unless one was cut off.
THEOREM PaidDelivered == Spec => []PaidMeansCredited
<1>1. InvoicesInv => PaidMeansCredited
  <2> SUFFICES ASSUME InvoicesInv
               PROVE  PaidMeansCredited
    OBVIOUS
  <2>1. \A i \in Invoices : CreditsOf(i) # {} <=> Credited(i)
    BY CreditsMean
  <2>2. /\ \A i \in (Packs \cup Plans) \ cut : PaidInv(i)
        /\ \A i \in Plans \ cut : StartedInv(i)
    BY DEF InvoicesInv
  <2> QED
    BY <2>1, <2>2 DEF PaidMeansCredited, PaidInv, StartedInv, Invoices
<1> QED
  BY <1>1, InvoicesTyped, PTL

\* PaidIsFinal: only expired() is ever written over a status, by a confirmation
\* that read the row before; on an invoice no two requests were at, it read what
\* the row still says.
THEOREM PaidStays == Spec => PaidIsFinal
<1>1. ASSUME InvoicesInv, [Next]_vars
      PROVE  [\A i \in Invoices \ crossed : status[i] = "paid" => status'[i] = "paid"]_vars
  <2> SUFFICES ASSUME NEW i \in Invoices \ crossed, status[i] = "paid", ~UNCHANGED vars
               PROVE  status'[i] = "paid"
    OBVIOUS
  <2>a. status \in [Invoices -> Statuses] /\ LoneInv(i)
    BY <1>1 DEF InvoicesInv, TypeOK
  <2>1. ASSUME NEW j \in Invoices, Issue(j)
        PROVE  status'[i] = "paid"
    BY <2>a, <2>1 DEF Issue
  <2>2. ASSUME NEW h \in Handlers, Expire(h)
        PROVE  status'[i] = "paid"
    <3>1. calls[h].of # i
      BY <2>a, <2>2 DEF LoneInv, At, Expire
    <3> QED
      BY <2>a, <2>2, <3>1 DEF Expire
  <2>3. ASSUME NEW h \in Handlers, Paid(h) \/ Settled(h)
        PROVE  status'[i] = "paid"
    BY <2>a, <2>3 DEF Paid, Settled
  <2>4. ASSUME UNCHANGED status
        PROVE  status'[i] = "paid"
    BY <2>4
  <2>5. ASSUME NEW h \in Handlers, Step(h)
        PROVE  status'[i] = "paid"
    BY <2>2, <2>3, <2>4, <2>5 DEF Step, Ask, Deliver, Subscribe, NotYet, Submit,
       Reread, Credit
  <2>6. ASSUME NEW h \in Handlers, NotYet(h) \/ SubmitFails(h) \/ Die(h)
        PROVE  status'[i] = "paid"
    BY <2>4, <2>6 DEF NotYet, SubmitFails, Die
  <2>7. ASSUME NEW h \in Handlers, NEW j \in Invoices, Confirm(h, j) \/ Sweep(h, j)
        PROVE  status'[i] = "paid"
    BY <2>4, <2>7 DEF Sweep, Confirm
  <2>8. ASSUME NEW h \in Handlers, NEW t \in Txs, Redeem(h, t)
        PROVE  status'[i] = "paid"
    BY <2>4, <2>8 DEF Redeem
  <2>9. ASSUME NEW j \in Invoices, Lapse(j)
        PROVE  status'[i] = "paid"
    BY <2>4, <2>9 DEF Lapse
  <2>10. ASSUME NEW t \in Txs, Pay(t)
         PROVE  status'[i] = "paid"
    BY <2>4, <2>10 DEF Pay
  <2> QED
    BY <1>1, <2>1, <2>5, <2>6, <2>7, <2>8, <2>9, <2>10 DEF Next, Checkout, Challenge
<1> QED
  BY <1>1, InvoicesTyped, PTL DEF Spec, PaidIsFinal

-----------------------------------------------------------------------------
(* Pricing. *)

\* What an integer division leaves.
LEMMA Division ==
    ASSUME NEW a \in Int, NEW b \in Nat \ {0}
    PROVE  /\ a \div b \in Int
           /\ (a \div b) * b <= a
           /\ a < (a \div b) * b + b
  BY SMTT(30)

\* A factor that is not negative keeps an inequality.
LEMMA Multiplied ==
    ASSUME NEW a \in Int, NEW b \in Int, NEW c \in Nat, a <= b
    PROVE  a * c <= b * c
  BY SMTT(30)

\* Products distribute over sums.
LEMMA Distributed ==
    ASSUME NEW a \in Int, NEW b \in Int, NEW c \in Int
    PROVE  (a + b) * c = a * c + b * c
  BY SMTT(30)

\* Products of integers are integers.
LEMMA Product ==
    ASSUME NEW a \in Int, NEW b \in Int
    PROVE  a * b \in Int
  BY SMT

\* tokens_for is the last whole number of tokens the amount pays for.
LEMMA TokensFor ==
    ASSUME rate \in Nat \ {0}, NEW amount \in Int
    PROVE  /\ tokens_for(amount) \in Nat
           /\ amount >= 0 => tokens_for(amount) * rate <= amount * PER_MILLION
           /\ amount * PER_MILLION <= tokens_for(amount) * rate + rate
<1> DEFINE d == (amount * PER_MILLION) \div rate
<1>1. amount * PER_MILLION \in Int
  BY PricingAssumption, Product
<1>2. d \in Int /\ d * rate <= amount * PER_MILLION /\ amount * PER_MILLION < d * rate + rate
  BY <1>1, Division
<1>3. amount >= 0 => amount * PER_MILLION >= 0
  <2>1. PER_MILLION \in Nat
    BY PricingAssumption
  <2>2. QED
    BY <2>1, Multiplied
<1> HIDE DEF d
<1>4. CASE d >= 0
  <2>1. tokens_for(amount) = d
    BY <1>4, <1>2 DEF tokens_for, Floored, d
  <2>2. d * rate \in Int
    BY <1>2, Product
  <2>3. QED
    BY <1>1, <1>2, <1>4, <2>1, <2>2
<1>5. CASE d < 0
  <2>1. tokens_for(amount) = 0
    BY <1>5, <1>2 DEF tokens_for, Floored, d
  <2>2. d * rate <= (-1) * rate
    BY <1>2, <1>5, Multiplied
  <2>3. d * rate \in Int
    BY <1>2, Product
  <2>4. amount * PER_MILLION < 0
    BY <1>1, <1>2, <2>2, <2>3
  <2>5. QED
    BY <1>1, <1>3, <2>1, <2>4
<1>6. QED
  BY <1>2, <1>4, <1>5

\* Money.scaled is within half a unit of the exact quotient.
LEMMA Scaled ==
    ASSUME NEW micros \in Int, NEW numerator \in Nat
    PROVE  /\ scaled(micros, numerator, Whole) \in Int
           /\ 2 * (micros * numerator) - Whole <= 2 * (scaled(micros, numerator, Whole) * Whole)
<1> DEFINE x == micros * numerator
           h == Whole \div 2
           m == (x + h) \div Whole
<1>1. x \in Int
  BY Product
<1>2. Whole \in Nat \ {0}
  BY PricingAssumption
<1>3. h \in Int /\ Whole <= 2 * h + 1
  BY <1>2
<1> HIDE DEF x, h
<1>4. m \in Int /\ x + h < m * Whole + Whole
  BY <1>1, <1>2, <1>3, Division
<1>5. m = scaled(micros, numerator, Whole)
  BY DEF scaled, x, h
<1> HIDE DEF m
<1>6. m * Whole \in Int
  BY <1>2, <1>4, Product
<1>7. 2 * x - Whole <= 2 * (m * Whole)
  BY <1>1, <1>2, <1>3, <1>4, <1>6
<1>8. QED
  BY <1>4, <1>5, <1>7 DEF x

\* What the agent reports is an integer, whatever its sign.
LEMMA Reported ==
    ASSUME NEW usage \in Usages
    PROVE  usage.cost \in Int /\ usage.tokens \in Nat
<1>1. \A b \in Bills : b \in Nat /\ -b \in Int
  BY PricingAssumption
<1>2. Costs \subseteq Int
  BY <1>1 DEF Costs
<1>3. usage.cost \in Costs /\ usage.tokens \in Counts
  BY DEF Usages
<1>4. Counts \subseteq Nat
  BY PricingAssumption
<1>5. QED
  BY <1>2, <1>3, <1>4

\* With no rate nothing is sold.
LEMMA NoRate ==
    ASSUME rate = 0, NEW amount \in Int
    PROVE  tokens_for(amount) = 0
  BY DEF tokens_for

-----------------------------------------------------------------------------
(* The invariants are inductive: each step adds its own remainder.          *)

Typed ==
    /\ rate \in Nat /\ margin \in Nat /\ minimum \in Nat
    /\ sales \in [n : Nat, paid : Nat, sold : Nat]
    /\ runs \in [n : Nat, cost : Int, charged : Nat]

\* tokens_for counts, at any rate.
LEMMA Tokens ==
    ASSUME Typed, NEW amount \in Int
    PROVE  tokens_for(amount) \in Nat
<1>1. CASE rate = 0
  BY <1>1, NoRate
<1>2. CASE rate # 0
  BY <1>2, TokensFor DEF Typed
<1>3. QED
  BY <1>1, <1>2

\* A sale keeps the types.
LEMMA SellTyped ==
    ASSUME Typed, NEW amount \in Amounts, Sell(amount)
    PROVE  Typed'
<1>1. amount \in Nat
  BY PricingAssumption
<1>2. tokens_for(amount) \in Nat
  BY <1>1, Tokens
<1>3. QED
  BY <1>1, <1>2 DEF Typed, Sell

\* A run is charged a natural number of tokens and keeps the types.
LEMMA RunTyped ==
    ASSUME Typed, NEW usage \in Usages
    PROVE  billable(usage) \in Nat /\ (Run(usage) => Typed')
<1> DEFINE m == scaled(usage.cost, Whole + margin, Whole)
<1>1. usage.cost \in Int /\ usage.tokens \in Nat
  BY Reported
<1>2. m \in Int
  <2>1. Whole + margin \in Nat
    BY PricingAssumption DEF Typed
  <2>2. QED
    BY <1>1, <2>1, Scaled
<1>3. tokens_for(m) \in Nat
  BY <1>2, Tokens
<1>4. billable(usage) \in Nat
  BY <1>1, <1>3 DEF billable, at_least, Typed
<1>5. ASSUME Run(usage)
      PROVE  Typed'
  BY <1>1, <1>4, <1>5 DEF Typed, Run
<1>6. QED
  BY <1>4, <1>5

SoldInv == Typed /\ NeverOversold

\* A sale adds at most what was paid to what was sold.
LEMMA SellStep ==
    ASSUME SoldInv, NEW amount \in Amounts, Sell(amount)
    PROVE  SoldInv'
<1>1. amount \in Nat
  BY PricingAssumption
<1>2. tokens_for(amount) \in Nat /\ tokens_for(amount) * rate <= amount * PER_MILLION
  <2>1. CASE rate = 0
    <3>1. tokens_for(amount) = 0
      BY <1>1, <2>1, NoRate
    <3>2. amount * PER_MILLION >= 0
      BY <1>1, PricingAssumption, Multiplied
    <3>3. QED
      BY <2>1, <3>1, <3>2
  <2>2. CASE rate # 0
    BY <1>1, <2>2, TokensFor DEF SoldInv, Typed
  <2>3. QED
    BY <2>1, <2>2
<1>3. /\ sales'.paid = sales.paid + amount
      /\ sales'.sold = sales.sold + tokens_for(amount)
      /\ UNCHANGED <<rate, margin, minimum, runs>>
  BY DEF Sell
<1>4. Typed'
  BY <1>1, <1>2 DEF SoldInv, Typed, Sell
<1>5. sales.sold \in Nat /\ sales.paid \in Nat /\ rate \in Nat
  BY DEF SoldInv, Typed
<1>6. sales'.sold * rate' = sales.sold * rate + tokens_for(amount) * rate
  BY <1>2, <1>3, <1>5, Distributed
<1>7. sales'.paid * PER_MILLION = sales.paid * PER_MILLION + amount * PER_MILLION
  BY <1>1, <1>3, <1>5, PricingAssumption, Distributed
<1>8. /\ sales.sold * rate \in Int /\ tokens_for(amount) * rate \in Int
      /\ sales.paid * PER_MILLION \in Int /\ amount * PER_MILLION \in Int
  BY <1>1, <1>2, <1>5, PricingAssumption, Product
<1>9. NeverOversold'
  BY <1>2, <1>6, <1>7, <1>8 DEF SoldInv, NeverOversold
<1>10. QED
  BY <1>4, <1>9 DEF SoldInv

\* A series of payments never buys more tokens than the money paid for, at any rate.
THEOREM Sold == PricingSpec => []NeverOversold
<1>1. PricingInit => SoldInv
  BY PricingAssumption DEF PricingInit, SoldInv, Typed, NeverOversold
<1>2. SoldInv /\ [PricingNext]_pricingVars => SoldInv'
  <2> SUFFICES ASSUME SoldInv, [PricingNext]_pricingVars
               PROVE  SoldInv'
    OBVIOUS
  <2>1. ASSUME NEW amount \in Amounts, Sell(amount)
        PROVE  SoldInv'
    BY <2>1, SellStep
  <2>2. ASSUME NEW usage \in Usages, Run(usage)
        PROVE  SoldInv'
    BY <2>2, RunTyped DEF SoldInv, NeverOversold, Run
  <2>3. CASE UNCHANGED pricingVars
    BY <2>3 DEF pricingVars, SoldInv, Typed, NeverOversold
  <2>4. QED
    BY <2>1, <2>2, <2>3 DEF PricingNext
<1>3. SoldInv => NeverOversold
  BY DEF SoldInv
<1>4. QED
  BY <1>1, <1>2, <1>3, PTL DEF PricingSpec

-----------------------------------------------------------------------------
(* What one run adds to the two sides of CostsCovered.                      *)

\* A run is charged its marked-up cost but for one token and half a micro.
LEMMA RunCovered ==
    ASSUME rate \in Nat \ {0}, margin \in Nat, minimum \in Nat,
           NEW usage \in Usages, billable(usage) > 0
    PROVE  PER_MILLION * (2 * usage.cost * (Whole + margin) - Whole)
             <= 2 * Whole * rate * (billable(usage) + 1)
<1> DEFINE c == usage.cost
           f == Whole + margin
           q == billable(usage)
           m == scaled(c, f, Whole)
           t == tokens_for(m)
<1>1. c \in Int /\ usage.tokens \in Nat /\ f \in Nat
  BY PricingAssumption, Reported
<1>2. PER_MILLION \in Nat \ {0} /\ Whole \in Nat \ {0}
  BY PricingAssumption
<1>3. m \in Int /\ 2 * (c * f) - Whole <= 2 * (m * Whole)
  BY <1>1, Scaled
<1>4. t \in Nat /\ m * PER_MILLION <= t * rate + rate
  BY <1>3, TokensFor
<1>5. q \in Nat
  BY <1>1, <1>3, <1>4 DEF billable, at_least
<1>6. CASE c = 0
  <2>1. PER_MILLION * (0 - Whole) <= 0 /\ 0 <= 2 * Whole * rate * (q + 1)
    BY <1>2, <1>5, SMTT(30)
  <2>2. 2 * c * f - Whole = 0 - Whole
    BY <1>1, <1>2, <1>6
  <2>3. QED
    BY <1>2, <1>5, <2>1, <2>2, SMTT(30)
<1>7. CASE c # 0
  <2>1. t <= q
    BY <1>3, <1>4, <1>7 DEF billable, at_least
  <2> HIDE DEF q, t, m, f, c
  <2>2. (2 * (c * f) - Whole) * PER_MILLION <= (2 * (m * Whole)) * PER_MILLION
    <3>1. c * f \in Int /\ m * Whole \in Int
      BY <1>1, <1>2, <1>3, Product
    <3>2. QED
      BY <1>2, <1>3, <3>1, Multiplied
  <2>3. (m * PER_MILLION) * (2 * Whole) <= (t * rate + rate) * (2 * Whole)
    <3>1. m * PER_MILLION \in Int /\ t * rate + rate \in Int
      BY <1>2, <1>3, <1>4, Product
    <3>2. QED
      BY <1>2, <1>4, <3>1, Multiplied
  <2>4. (t + 1) * (2 * Whole * rate) <= (q + 1) * (2 * Whole * rate)
    <3>1. 2 * Whole * rate \in Nat
      BY <1>2, SMT
    <3>2. QED
      BY <1>4, <1>5, <2>1, <3>1, Multiplied
  <2>5. PER_MILLION * (2 * c * f - Whole) = (2 * (c * f) - Whole) * PER_MILLION
    BY <1>1, <1>2, SMTT(30)
  <2>6. (2 * (m * Whole)) * PER_MILLION = (m * PER_MILLION) * (2 * Whole)
    BY <1>2, <1>3, SMTT(30)
  <2>7. (t * rate + rate) * (2 * Whole) = (t + 1) * (2 * Whole * rate)
    BY <1>2, <1>4, SMTT(30)
  <2>8. (q + 1) * (2 * Whole * rate) = 2 * Whole * rate * (q + 1)
    BY <1>2, <1>5, SMTT(30)
  <2>9. QED
    BY <2>2, <2>3, <2>4, <2>5, <2>6, <2>7, <2>8, <1>1, <1>2, <1>3, <1>4, <1>5, SMTT(30)
       DEF c, f, q
<1>8. QED
  BY <1>6, <1>7

CostInv == Typed /\ CostsCovered

\* A run adds at least its marked-up cost, but for the rounding, to what was charged.
LEMMA RunStep ==
    ASSUME CostInv, NEW usage \in Usages, Run(usage)
    PROVE  CostsCovered'
<1> SUFFICES ASSUME rate # 0
             PROVE  CostsCovered'
  BY DEF CostsCovered, Run
<1> DEFINE c == usage.cost
           q == billable(usage)
           C == runs.cost
           Q == runs.charged
           n == runs.n
           f == Whole + margin
<1>1. c \in Int /\ q \in Nat /\ C \in Int /\ Q \in Nat /\ n \in Nat /\ f \in Nat
  <2>1. c \in Int
    BY Reported
  <2>2. q \in Nat
    BY RunTyped DEF CostInv
  <2>3. QED
    BY <2>1, <2>2, PricingAssumption DEF CostInv, Typed
<1>2. PER_MILLION \in Nat /\ Whole \in Nat /\ rate \in Nat
  BY PricingAssumption DEF CostInv, Typed
<1>3. PER_MILLION * (2 * c * f - Whole) <= 2 * Whole * rate * (q + 1)
  BY RunCovered DEF CostInv, Typed, Run
<1>4. PER_MILLION * (2 * C * f - Whole * n) <= 2 * Whole * rate * (Q + n)
  BY <1>1, <1>2 DEF CostInv, CostsCovered
<1>5. runs'.cost = C + c /\ runs'.charged = Q + q /\ runs'.n = n + 1 /\ UNCHANGED <<rate, margin>>
  BY DEF Run
<1> HIDE DEF c, q, C, Q, n, f
<1>6. PER_MILLION * (2 * (C + c) * f - Whole * (n + 1))
        = PER_MILLION * (2 * C * f - Whole * n) + PER_MILLION * (2 * c * f - Whole)
  BY <1>1, <1>2, SMTT(30)
<1>7. 2 * Whole * rate * ((Q + q) + (n + 1))
        = 2 * Whole * rate * (Q + n) + 2 * Whole * rate * (q + 1)
  BY <1>1, <1>2, SMTT(30)
<1>8. PER_MILLION * (2 * (C + c) * f - Whole * (n + 1))
        <= 2 * Whole * rate * ((Q + q) + (n + 1))
  BY <1>1, <1>2, <1>3, <1>4, <1>6, <1>7, SMTT(30)
<1>9. QED
  BY <1>1, <1>2, <1>5, <1>8, SMTT(30) DEF CostsCovered, f

\* Whatever runs are charged for and however their costs round, the tokens charged cover
\* the provider's bill with the margin, to within one token and half a micro a run.
THEOREM Covered == PricingSpec => []CostsCovered
<1>1. PricingInit => CostInv
  BY PricingAssumption DEF PricingInit, CostInv, Typed, CostsCovered
<1>2. CostInv /\ [PricingNext]_pricingVars => CostInv'
  <2> SUFFICES ASSUME CostInv, [PricingNext]_pricingVars
               PROVE  CostInv'
    OBVIOUS
  <2>1. ASSUME NEW amount \in Amounts, Sell(amount)
        PROVE  CostInv'
    BY <2>1, SellTyped DEF CostInv, CostsCovered, Sell
  <2>2. ASSUME NEW usage \in Usages, Run(usage)
        PROVE  CostInv'
    BY <2>2, RunTyped, RunStep DEF CostInv
  <2>3. CASE UNCHANGED pricingVars
    BY <2>3 DEF pricingVars, CostInv, Typed, CostsCovered
  <2>4. QED
    BY <2>1, <2>2, <2>3 DEF PricingNext
<1>3. CostInv => CostsCovered
  BY DEF CostInv
<1>4. QED
  BY <1>1, <1>2, <1>3, PTL DEF PricingSpec

=============================================================================
