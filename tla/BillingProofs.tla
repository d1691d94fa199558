--------------------------- MODULE BillingProofs ---------------------------
(***************************************************************************)
(* Proofs about Billing, for any number of accounts, requests and runs,    *)
(* any prices and any bounds.                                              *)
(*                                                                         *)
(* Funds: the books.  Each row adds to the pools what it adds to the       *)
(* totals, except an expiry, which only takes away: Books is inductive and *)
(* OverspendNotForgiven reads off it.                                      *)
(*                                                                         *)
(* Granted: the free period an account is on is granted, unless the        *)
(* request that was about to do it was cut off.  The inductive part is     *)
(* InHand, which says what row a coroutine holds where: it is how a stored *)
(* free row is known to have been put by a request that is about to grant  *)
(* it.                                                                     *)
(*                                                                         *)
(* SubscribersGranted: the same for a period mirrored from the contract,   *)
(* where a request may also store an old paid row as ended: MirrorInv.     *)
(*                                                                         *)
(* Weekly: the weeks of an account whose requests are served one at a      *)
(* time: WeekInv.                                                          *)
(***************************************************************************)
EXTENDS Billing, TLAPS

Books == \A a \in Accounts :
            Worth(pools[a]) + totals[a].spent <= totals[a].credited

InHand ==
    \A h \in Handlers :
        /\ calls[h].at \in {"mirror", "mirrored", "delivered"}
             => calls[h].row \in Rows /\ calls[h].row.plan = "paid"
        /\ calls[h].at \in {"begin", "grant"}
             => calls[h].row \in Rows /\ calls[h].row.plan = "free"
        /\ calls[h].at \in {"balance", "expire", "turn"} => calls[h].row \in Rows
        /\ calls[h].at = "authorize" => calls[h].goal \in Runs

FundsInv == TypeOK /\ InHand /\ Books

-----------------------------------------------------------------------------

\* What a row does to the pools: they stay pools, a credit is worth its
\* tokens, a debit costs its price, and an expiry takes at most what it says.
LEMMA PoolRows ==
    ASSUME NEW p \in Pools, NEW n \in Nat
    PROVE  /\ grant(p, n) \in Pools /\ Worth(grant(p, n)) = Worth(p) + n
           /\ purchase(p, n) \in Pools /\ Worth(purchase(p, n)) = Worth(p) + n
           /\ debit(p, n) \in Pools /\ Worth(debit(p, n)) = Worth(p) - n
           /\ expire(p, n) \in Pools /\ Worth(expire(p, n)) <= Worth(p)
           /\ Worth(p) \in Int
BY DEF Pools, grant, purchase, debit, expire, Worth

\* What balance_of shows is never negative and is the pools' worth or zero.
LEMMA Shown ==
    ASSUME NEW p \in Pools
    PROVE  /\ Balance(p) \in [granted : Nat, purchased : Nat]
           /\ Worth(Balance(p)) = IF Worth(p) < 0 THEN 0 ELSE Worth(p)
BY DEF Pools, Balance, Worth

\* The rows and references a request makes are of their types.
LEMMA RowValues ==
    ASSUME NEW t \in Nat, NEW row \in Rows, NEW a \in Accounts, NEW plan \in Plans,
           NEW kind \in {"grant", "expiry", "chain"}
    PROVE  /\ begin(plan, t) \in Rows /\ begin(plan, t).plan = plan
           /\ ended(row) \in Rows /\ ended(row).plan = row.plan
           /\ period_key(kind, a, row) \in Keys
           /\ chain_key(row) \in Keys
<1>1. Week \in Nat /\ Month \in Nat
  BY BillingAssumption DEF BillingAssumption
<1>2. begin(plan, t) \in Rows /\ begin(plan, t).plan = plan
  BY <1>1 DEF Rows, begin, period_of, Times
<1>3. ended(row) \in Rows /\ ended(row).plan = row.plan
  BY DEF Rows, ended
<1>4. period_key(kind, a, row) \in Keys
  BY DEF Rows, period_key, Keys
<1>5. chain_key(row) \in Keys
  BY DEF Rows, chain_key, Keys
<1>. QED  BY <1>2, <1>3, <1>4, <1>5

\* The two ways a request's copy is replaced keep it what it should be.
LEMMA Returning ==
    ASSUME TypeOK, InHand, NEW h \in Handlers, Settled(h)
    PROVE  /\ calls' \in [Handlers -> Calls]
           /\ InHand'
<1>1. \A a \in Accounts : Idle(a) \in Calls
  BY DEF Idle, Calls, Places, Times
<1>2. PICK c \in Calls : /\ calls' = [calls EXCEPT ![h] = c]
                         /\ c.at \in {"idle", "authorize"}
                         /\ c.at = "authorize" => c.goal \in Runs
  <2>1. calls[h] \in Calls
    BY DEF TypeOK
  <2>. DEFINE place == IF calls[h].goal = Reading THEN "idle" ELSE "authorize"
              goal == calls[h].goal
              x == Idle(calls[h].of)
              y == [x EXCEPT !.at = place, !.goal = goal]
  <2>2. calls' = [calls EXCEPT ![h] = y]
    BY <2>1 DEF Settled, TypeOK
  <2>3. /\ place \in {"idle", "authorize"} /\ goal \in Runs \cup {Reading}
        /\ place = "authorize" => goal # Reading
    BY <2>1 DEF Calls
  <2>4. x \in Calls
    BY <1>1, <2>1 DEF Calls
  <2>. HIDE DEF place, goal, x
  <2>5. y \in Calls /\ y.at = place /\ y.goal = goal
    BY <2>3, <2>4 DEF Calls, Places
  <2>. HIDE DEF y
  <2>. QED  BY <2>2, <2>3, <2>5
<1>3. calls' \in [Handlers -> Calls]
  BY <1>2 DEF TypeOK
<1>4. InHand'
  BY <1>2 DEF InHand, TypeOK
<1>. QED  BY <1>3, <1>4

\* A coroutine that only moves on with what it holds.
LEMMA Moving ==
    ASSUME TypeOK, InHand, NEW h \in Handlers, NEW place \in Places \ {"authorize"},
           Moves(h, place),
           place \in {"mirrored", "delivered"}
             => calls[h].row \in Rows /\ calls[h].row.plan = "paid",
           place = "grant" => calls[h].row \in Rows /\ calls[h].row.plan = "free",
           place = "turn" => calls[h].row \in Rows,
           place \in {"mirrored", "delivered", "grant", "turn"}
    PROVE  /\ calls' \in [Handlers -> Calls]
           /\ InHand'
           /\ calls'[h].row = calls[h].row /\ calls'[h].of = calls[h].of
           /\ calls'[h].at = place
<1>1. calls[h] \in Calls /\ calls' = [calls EXCEPT ![h] = [calls[h] EXCEPT !.at = place]]
  BY DEF TypeOK, Moves
<1>2. [calls[h] EXCEPT !.at = place] \in Calls
  BY <1>1 DEF Calls
<1>3. calls' \in [Handlers -> Calls]
  BY <1>1, <1>2 DEF TypeOK
<1>4. /\ calls'[h].row = calls[h].row /\ calls'[h].of = calls[h].of
      /\ calls'[h].at = place
      /\ \A g \in Handlers \ {h} : calls'[g] = calls[g]
  BY <1>1, <1>2 DEF TypeOK, Calls
<1>5. InHand'
  BY <1>4 DEF InHand
<1>. QED  BY <1>3, <1>4, <1>5

\* A coroutine whose copy is replaced by a good one.
LEMMA Replacing ==
    ASSUME TypeOK, InHand, NEW h \in Handlers, NEW c \in Calls,
           calls' = [calls EXCEPT ![h] = c],
           c.at \in {"mirror", "mirrored", "delivered"}
             => c.row \in Rows /\ c.row.plan = "paid",
           c.at \in {"begin", "grant"} => c.row \in Rows /\ c.row.plan = "free",
           c.at \in {"balance", "expire", "turn"} => c.row \in Rows,
           c.at = "authorize" => c.goal \in Runs
    PROVE  /\ calls' \in [Handlers -> Calls]
           /\ InHand'
           /\ calls'[h] = c
<1>1. calls' \in [Handlers -> Calls] /\ calls'[h] = c
      /\ \A g \in Handlers \ {h} : calls'[g] = calls[g]
  BY DEF TypeOK
<1>. QED  BY <1>1 DEF InHand

\* A coroutine with nothing to do is one of the coroutines.
LEMMA IdleTyped == \A a \in Accounts : Idle(a) \in Calls /\ Idle(a).at = "idle"
BY DEF Idle, Calls, Places, Times

\* A grant that is lost is a reference.
LEMMA Unwritten ==
    ASSUME TypeOK, InHand, NEW h \in Handlers
    PROVE  unwritten(calls[h]) \subseteq Keys
<1>1. calls[h].of \in Accounts
  BY DEF TypeOK, Calls
<1>2. CASE calls[h].at = "grant"
  <2>1. calls[h].row \in Rows
    BY <1>2 DEF InHand
  <2>2. period_key("grant", calls[h].of, calls[h].row) \in Keys
    BY <1>1, <2>1 DEF Rows, period_key, Keys
  <2>. QED  BY <1>2, <2>2 DEF unwritten
<1>3. CASE calls[h].at = "mirrored"
  <2>1. calls[h].row \in Rows
    BY <1>3 DEF InHand
  <2>2. chain_key(calls[h].row) \in Keys
    BY <2>1 DEF Rows, chain_key, Keys
  <2>. QED  BY <1>3, <2>2 DEF unwritten
<1>4. CASE calls[h].at \notin {"grant", "mirrored"}
  BY <1>4 DEF unwritten
<1>. QED  BY <1>2, <1>3, <1>4

\* How an account's totals are updated.
LEMMA Totalling ==
    ASSUME NEW t \in Totals, NEW n \in Nat
    PROVE  /\ t.credited \in Nat /\ t.spent \in Nat /\ t.chained \in SUBSET Times
           /\ t.packs \in 0..MaxPurchases /\ t.periods \in 0..MaxPurchases
           /\ LET u == [t EXCEPT !.spent = n]
              IN  u \in Totals /\ u.spent = n /\ u.credited = t.credited
           /\ \A C \in SUBSET Times :
                LET u == [t EXCEPT !.credited = n, !.chained = C]
                IN  u \in Totals /\ u.credited = n /\ u.spent = t.spent
           /\ \A p \in 0..MaxPurchases :
                LET u == [t EXCEPT !.packs = p, !.credited = n]
                IN  u \in Totals /\ u.credited = n /\ u.spent = t.spent
           /\ \A p \in 0..MaxPurchases :
                LET u == [t EXCEPT !.periods = p, !.credited = n]
                IN  u \in Totals /\ u.credited = n /\ u.spent = t.spent
BY DEF Totals

\* An account that may buy is below each of its bounds.
LEMMA Bought ==
    ASSUME TypeOK, NEW a \in Accounts, MayBuy(a)
    PROVE  /\ totals[a].packs < MaxPurchases /\ totals[a].periods < MaxPurchases
           /\ chain[a].periods < MaxPurchases
<1>1. /\ totals[a].packs \in Nat /\ totals[a].periods \in Nat
      /\ chain[a].periods \in Nat /\ MaxPurchases \in Nat
  BY BillingAssumption DEF TypeOK, Totals, OnChain
<1>. QED  BY <1>1 DEF MayBuy

\* A credit, taken or refused, keeps the books.
LEMMA Crediting ==
    ASSUME TypeOK, Books, NEW a \in Accounts, NEW key \in Keys, NEW tokens \in Nat,
           NEW chained \in SUBSET Times, Credit(a, key, tokens, chained)
    PROVE  /\ keys' \subseteq Keys /\ key \in keys' /\ keys \subseteq keys'
           /\ pools' \in [Accounts -> Pools]
           /\ totals' \in [Accounts -> Totals]
           /\ Books'
<1>1. CASE key \in keys
  BY <1>1 DEF Credit, TypeOK, Books
<1>2. CASE key \notin keys
  <2>1. /\ keys' = keys \cup {key}
        /\ pools' = [pools EXCEPT ![a] = grant(pools[a], tokens)]
        /\ totals' = [totals EXCEPT ![a] = [totals[a] EXCEPT
                         !.credited = totals[a].credited + tokens,
                         !.chained = totals[a].chained \cup chained]]
    BY <1>2 DEF Credit, TypeOK
  <2>2. /\ totals \in [Accounts -> Totals] /\ totals[a] \in Totals /\ pools[a] \in Pools
        /\ pools \in [Accounts -> Pools]
    BY DEF TypeOK
  <2>3. /\ [totals[a] EXCEPT !.credited = totals[a].credited + tokens,
                             !.chained = totals[a].chained \cup chained] \in Totals
        /\ totals'[a].credited = totals[a].credited + tokens
        /\ totals'[a].spent = totals[a].spent
    <3>1. totals[a].credited \in Nat /\ totals[a].chained \in SUBSET Times
      BY <2>2, Totalling, 0 \in Nat
    <3>2. totals[a].chained \cup chained \in SUBSET Times
      BY <3>1
    <3>3. totals[a].credited + tokens \in Nat
      BY <3>1
    <3>4. totals'[a] = [totals[a] EXCEPT
                          !.credited = totals[a].credited + tokens,
                          !.chained = totals[a].chained \cup chained]
      BY <2>1, <2>2
    <3>5. \A n \in Nat, C \in SUBSET Times :
            LET u == [totals[a] EXCEPT !.credited = n, !.chained = C]
            IN  u \in Totals /\ u.credited = n /\ u.spent = totals[a].spent
      BY <2>2, Totalling
    <3>. QED  BY <3>2, <3>3, <3>4, <3>5 DEF Totals
  <2>4. pools' \in [Accounts -> Pools] /\ totals' \in [Accounts -> Totals]
    BY <2>1, <2>2, <2>3, PoolRows
  <2>5. Worth(pools'[a]) = Worth(pools[a]) + tokens /\ Worth(pools[a]) \in Int
    BY <2>1, <2>2, PoolRows
  <2>6. \A b \in Accounts \ {a} : totals'[b] = totals[b] /\ pools'[b] = pools[b]
    BY <2>1, <2>2
  <2>7. Books'
    <3>1. Worth(pools'[a]) + totals'[a].spent <= totals'[a].credited
      <4>1. totals[a].credited \in Nat /\ totals[a].spent \in Nat
        BY <2>2 DEF Totals
      <4>. QED  BY <4>1, <2>3, <2>5 DEF Books
    <3>. QED  BY <3>1, <2>6 DEF Books
  <2>. QED  BY <2>1, <2>4, <2>7 DEF TypeOK
<1>. QED  BY <1>1, <1>2

\* Nothing was credited or spent yet.
LEMMA FundsInit == Init => FundsInv
<1>. SUFFICES ASSUME Init PROVE FundsInv
  OBVIOUS
<1>1. PICK a0 \in Accounts :
        /\ calls = [h \in Handlers |-> Idle(a0)]
        /\ runs = [r \in Runs |-> [at |-> "new", of |-> a0]]
  BY DEF Init
<1>2. NoTokens \in Pools /\ Worth(NoTokens) = 0
  BY DEF NoTokens, Pools, Worth
<1>3. MaxTime \in Nat /\ MaxPurchases \in Nat
  BY BillingAssumption
<1>4. TypeOK
  <2>1. calls \in [Handlers -> Calls]
    BY <1>1, IdleTyped
  <2>2. runs \in [Runs -> [at : {"new", "asking", "refused", "started", "charged"},
                           of : Accounts]]
    BY <1>1
  <2>3. totals \in [Accounts -> Totals]
    BY <1>3 DEF Init, Totals
  <2>4. /\ now \in 0..MaxTime
        /\ subs \in [Accounts -> Rows \cup {NoRow}]
        /\ pools \in [Accounts -> Pools]
        /\ keys \subseteq Keys
        /\ market \in {"invoices", "contract"}
        /\ crossed \subseteq Accounts /\ lost \subseteq Keys
    BY <1>2, <1>3 DEF Init
  <2>5. chain \in [Accounts -> OnChain]
    BY <1>3 DEF Init, OnChain, Times
  <2>. QED  BY <2>1, <2>2, <2>3, <2>4, <2>5 DEF TypeOK
<1>5. InHand
  BY <1>1, IdleTyped DEF InHand
<1>6. Books
  BY <1>2 DEF Books, Init
<1>. QED  BY <1>4, <1>5, <1>6 DEF FundsInv

\* The steps of settle_period.
LEMMA FundsSettling ==
    ASSUME FundsInv, NEW h \in Handlers,
           \/ Mirror(h) \/ MirrorGrant(h) \/ ReadRow(h) \/ Begin(h)
           \/ ReadBalance(h) \/ Expire(h) \/ Turn(h) \/ Grant(h)
    PROVE  FundsInv'
<1>. DEFINE c == calls[h]
<1>a. /\ TypeOK /\ InHand /\ Books
      /\ c \in Calls /\ c.of \in Accounts /\ c.now \in Nat
      /\ c.goal \in Runs \cup {Reading} /\ c.take \in Nat
      /\ c.row \in Rows \cup {NoRow}
  BY DEF FundsInv, TypeOK, Calls, Times
<1>b. FreeTokens \in Nat /\ PaidTokens \in Nat
  BY BillingAssumption
<1>. HIDE DEF c
<1>1. CASE Mirror(h)
  <2>1. c.at = "mirror" /\ c.row \in Rows /\ c.row.plan = "paid"
    BY <1>1, <1>a DEF Mirror, InHand, c
  <2>2. calls' \in [Handlers -> Calls] /\ InHand'
    BY <1>1, <1>a, <2>1, Moving DEF Mirror, Places, c
  <2>3. subs' \in [Accounts -> Rows \cup {NoRow}]
    BY <1>1, <1>a, <2>1 DEF Mirror, TypeOK, c
  <2>. QED  BY <1>1, <1>a, <2>2, <2>3 DEF Mirror, aside, FundsInv, TypeOK, Books
<1>2. CASE MirrorGrant(h)
  <2>1. c.at = "mirrored" /\ c.row \in Rows
    BY <1>2, <1>a DEF MirrorGrant, InHand, c
  <2>2. chain_key(c.row) \in Keys /\ {c.row.started} \in SUBSET Times
    BY <2>1 DEF Rows, chain_key, Keys
  <2>3. Credit(c.of, chain_key(c.row), PaidTokens, {c.row.started}) /\ Settled(h)
    BY <1>2 DEF MirrorGrant, c
  <2>4. calls' \in [Handlers -> Calls] /\ InHand'
    BY <1>a, <2>3, Returning
  <2>. QED  BY <1>2, <1>a, <1>b, <2>2, <2>3, <2>4, Crediting
            DEF MirrorGrant, aside, FundsInv, TypeOK
<1>3. CASE ReadRow(h)
  <2>1. calls' \in [Handlers -> Calls] /\ InHand'
    <3>1. CASE calls' = [calls EXCEPT ![h].at = "begin", ![h].now = 0,
                                      ![h].row = begin("free", c.now)]
      <4>1. calls' = [calls EXCEPT ![h] = [c EXCEPT !.at = "begin", !.now = 0,
                                                    !.row = begin("free", c.now)]]
        BY <3>1, <1>a DEF TypeOK, c
      <4>2. begin("free", c.now) \in Rows /\ begin("free", c.now).plan = "free"
        BY <1>a, BillingAssumption DEF begin, period_of, Rows, Plans, Times
      <4>3. LET d == [c EXCEPT !.at = "begin", !.now = 0, !.row = begin("free", c.now)]
            IN  d \in Calls /\ d.at = "begin" /\ d.row = begin("free", c.now)
        BY <1>a, <4>2 DEF Calls, Places, Times
      <4>. QED  BY <1>a, <4>1, <4>2, <4>3, Replacing
    <3>2. CASE Settled(h)
      BY <1>a, <3>2, Returning
    <3>3. CASE /\ subs[c.of] # NoRow
               /\ calls' = [calls EXCEPT ![h].at = "balance", ![h].row = subs[c.of]]
      <4>1. calls' = [calls EXCEPT ![h] = [c EXCEPT !.at = "balance",
                                                    !.row = subs[c.of]]]
        BY <3>3, <1>a DEF TypeOK, c
      <4>2. subs[c.of] \in Rows
        BY <3>3, <1>a DEF TypeOK
      <4>3. LET d == [c EXCEPT !.at = "balance", !.row = subs[c.of]]
            IN  d \in Calls /\ d.at = "balance" /\ d.row = subs[c.of]
        BY <1>a, <4>2 DEF Calls, Places
      <4>. QED  BY <1>a, <4>1, <4>2, <4>3, Replacing
    <3>. QED  BY <1>3, <3>1, <3>2, <3>3 DEF ReadRow, c
  <2>. QED  BY <1>3, <1>a, <2>1 DEF ReadRow, aside, FundsInv, TypeOK, Books
<1>4. CASE Begin(h)
  <2>1. c.at = "begin" /\ c.row \in Rows /\ c.row.plan = "free"
    BY <1>4, <1>a DEF Begin, InHand, c
  <2>2. calls' \in [Handlers -> Calls] /\ InHand'
    BY <1>4, <1>a, <2>1, Moving DEF Begin, Places, c
  <2>3. subs' \in [Accounts -> Rows \cup {NoRow}]
    BY <1>4, <1>a, <2>1 DEF Begin, TypeOK, c
  <2>. QED  BY <1>4, <1>a, <2>2, <2>3 DEF Begin, aside, FundsInv, TypeOK, Books
<1>5. CASE ReadBalance(h)
  <2>. DEFINE left == Balance(pools[c.of]).granted
              place == IF left > 0 THEN "expire" ELSE "turn"
  <2>1. c.at = "balance" /\ c.row \in Rows
    BY <1>5, <1>a DEF ReadBalance, InHand, c
  <2>2. left \in Nat
    <3>1. pools[c.of] \in Pools
      BY <1>a DEF TypeOK
    <3>. QED  BY <3>1, Shown
  <2>3. calls' = [calls EXCEPT ![h] = [c EXCEPT !.at = place, !.take = left]]
    BY <1>5, <1>a DEF ReadBalance, TypeOK, c
  <2>4. place \in {"expire", "turn"}
    OBVIOUS
  <2>. HIDE DEF left, place
  <2>5. LET d == [c EXCEPT !.at = place, !.take = left]
        IN  d \in Calls /\ d.at = place /\ d.row = c.row
    BY <1>a, <2>2, <2>4 DEF Calls, Places
  <2>6. calls' \in [Handlers -> Calls] /\ InHand'
    BY <1>a, <2>1, <2>3, <2>4, <2>5, Replacing
  <2>. QED  BY <1>5, <1>a, <2>6 DEF ReadBalance, aside, FundsInv, TypeOK, Books
<1>6. CASE Expire(h)
  <2>. DEFINE key == period_key("expiry", c.of, c.row)
  <2>1. c.at = "expire" /\ c.row \in Rows
    BY <1>6, <1>a DEF Expire, InHand, c
  <2>2. key \in Keys
    BY <1>a, <2>1 DEF period_key, Keys, Rows
  <2>3. calls' \in [Handlers -> Calls] /\ InHand'
    <3>1. calls' = [calls EXCEPT ![h] = [c EXCEPT !.at = "turn", !.take = 0]]
      BY <1>6, <1>a DEF Expire, TypeOK, c
    <3>2. LET d == [c EXCEPT !.at = "turn", !.take = 0]
          IN  d \in Calls /\ d.at = "turn" /\ d.row = c.row
      BY <1>a DEF Calls, Places
    <3>. QED  BY <1>a, <2>1, <3>1, <3>2, Replacing
  <2>4. /\ keys' \subseteq Keys /\ pools' \in [Accounts -> Pools] /\ Books'
    <3>1. CASE key \in keys
      BY <3>1, <1>6, <1>a DEF Expire, TypeOK, Books, c
    <3>2. CASE key \notin keys
      <4>1. /\ keys' = keys \cup {key} /\ totals' = totals
            /\ pools' = [pools EXCEPT ![c.of] = expire(pools[c.of], c.take)]
        BY <3>2, <1>6, <1>a DEF Expire, TypeOK, c
      <4>2. pools \in [Accounts -> Pools] /\ pools[c.of] \in Pools
        BY <1>a DEF TypeOK
      <4>3. /\ expire(pools[c.of], c.take) \in Pools
            /\ Worth(expire(pools[c.of], c.take)) <= Worth(pools[c.of])
            /\ Worth(pools[c.of]) \in Int
            /\ Worth(expire(pools[c.of], c.take)) \in Int
        BY <4>2, <1>a, PoolRows
      <4>4. pools' \in [Accounts -> Pools]
        BY <4>1, <4>2, <4>3
      <4>5. /\ totals[c.of].spent \in Nat /\ totals[c.of].credited \in Nat
        BY <1>a DEF TypeOK, Totals
      <4>6. Worth(pools'[c.of]) + totals'[c.of].spent <= totals'[c.of].credited
        BY <4>1, <4>2, <4>3, <4>5, <1>a DEF Books
      <4>7. Books'
        BY <4>1, <4>2, <4>6, <1>a DEF Books
      <4>. QED  BY <4>1, <4>4, <4>7, <2>2, <1>a DEF TypeOK
    <3>. QED  BY <3>1, <3>2
  <2>. QED  BY <1>6, <1>a, <2>3, <2>4 DEF Expire, aside, FundsInv, TypeOK
<1>7. CASE Turn(h)
  <2>1. c.at = "turn" /\ c.row \in Rows
    BY <1>7, <1>a DEF Turn, InHand, c
  <2>2. begin("free", c.now) \in Rows /\ begin("free", c.now).plan = "free"
    BY <1>a, BillingAssumption DEF begin, period_of, Rows, Plans, Times
  <2>3. ended(c.row) \in Rows
    BY <2>1 DEF ended, Rows
  <2>4. subs' \in [Accounts -> Rows \cup {NoRow}]
    BY <1>7, <1>a, <2>2, <2>3 DEF Turn, TypeOK, c
  <2>5. calls' \in [Handlers -> Calls] /\ InHand'
    <3>1. CASE c.row.plan = "free"
      <4>1. calls' = [calls EXCEPT ![h] = [c EXCEPT !.at = "grant", !.now = 0,
                                                    !.row = begin("free", c.now)]]
        BY <3>1, <1>7, <1>a DEF Turn, TypeOK, c
      <4>2. LET d == [c EXCEPT !.at = "grant", !.row = begin("free", c.now), !.now = 0]
            IN  d \in Calls /\ d.at = "grant" /\ d.row = begin("free", c.now)
        BY <1>a, <2>2 DEF Calls, Places, Times
      <4>. QED  BY <1>a, <2>2, <4>1, <4>2, Replacing
    <3>2. CASE c.row.plan # "free"
      BY <3>2, <1>7, <1>a, Returning DEF Turn, c
    <3>. QED  BY <3>1, <3>2
  <2>. QED  BY <1>7, <1>a, <2>4, <2>5 DEF Turn, aside, FundsInv, TypeOK, Books
<1>8. CASE Grant(h)
  <2>1. c.at = "grant" /\ c.row \in Rows
    BY <1>8, <1>a DEF Grant, InHand, c
  <2>2. period_key("grant", c.of, c.row) \in Keys /\ {} \in SUBSET Times
    BY <1>a, <2>1 DEF Rows, period_key, Keys
  <2>3. Credit(c.of, period_key("grant", c.of, c.row), FreeTokens, {}) /\ Settled(h)
    BY <1>8 DEF Grant, c
  <2>4. calls' \in [Handlers -> Calls] /\ InHand'
    BY <1>a, <2>3, Returning
  <2>. QED  BY <1>8, <1>a, <1>b, <2>2, <2>3, <2>4, Crediting
            DEF Grant, aside, FundsInv, TypeOK
<1>. QED  BY <1>1, <1>2, <1>3, <1>4, <1>5, <1>6, <1>7, <1>8

\* The other steps of a request.
LEMMA FundsRequest ==
    ASSUME FundsInv, NEW h \in Handlers, NEW a \in Accounts,
           NEW goal \in Runs \cup {Reading},
           \/ Settle(h, a, goal) \/ Authorize(h) \/ Deliver(h, a) \/ Delivered(h)
           \/ Die(h)
    PROVE  FundsInv'
<1>. DEFINE c == calls[h]
<1>a. /\ TypeOK /\ InHand /\ Books
      /\ c \in Calls /\ c.of \in Accounts
      /\ now \in Nat /\ now \in 0..MaxTime
      /\ chain[a] \in OnChain /\ pools[a] \in Pools /\ totals[a] \in Totals
      /\ totals \in [Accounts -> Totals] /\ pools \in [Accounts -> Pools]
  BY BillingAssumption DEF FundsInv, TypeOK, Calls
<1>b. /\ PaidTokens \in Nat /\ PackTokens \in Nat /\ Month \in Nat
      /\ MaxPurchases \in Nat /\ MaxTime \in Nat
  BY BillingAssumption
<1>c. Idle(a) \in Calls /\ Idle(a).at = "idle"
      /\ Idle(c.of) \in Calls /\ Idle(c.of).at = "idle"
  BY <1>a, IdleTyped
<1>. HIDE DEF c
<1>1. CASE Settle(h, a, goal)
  <2>. DEFINE d == [Idle(a) EXCEPT !.goal = goal]
              row == [plan |-> "paid", active |-> TRUE,
                      started |-> chain[a].started, renews |-> chain[a].expires]
  <2>1. row \in Rows /\ row.plan = "paid"
    BY <1>a DEF OnChain, Rows, Plans
  <2>2. runs' \in [Runs -> [at : {"new", "asking", "refused", "started", "charged"},
                            of : Accounts]]
    BY <1>1, <1>a DEF Settle, TypeOK
  <2>3. calls' \in [Handlers -> Calls] /\ InHand'
    <3>0. d \in Calls
      BY <1>a, <1>c DEF Calls, Times
    <3>1. ASSUME calls' = [calls EXCEPT ![h] = [d EXCEPT !.at = "mirror", !.row = row]]
          PROVE  calls' \in [Handlers -> Calls] /\ InHand'
      <4>. HIDE DEF d, row
      <4>1. LET e == [d EXCEPT !.at = "mirror", !.row = row]
            IN  e \in Calls /\ e.at = "mirror" /\ e.row = row
        BY <2>1, <3>0 DEF Calls, Places
      <4>. QED  BY <1>a, <2>1, <3>1, <4>1, Replacing
    <3>2. ASSUME calls' = [calls EXCEPT ![h] = [d EXCEPT !.at = "read", !.now = now]]
          PROVE  calls' \in [Handlers -> Calls] /\ InHand'
      <4>. HIDE DEF d
      <4>1. LET e == [d EXCEPT !.at = "read", !.now = now]
            IN  e \in Calls /\ e.at = "read"
        BY <1>a, <3>0 DEF Calls, Places, Times
      <4>. QED  BY <1>a, <3>2, <4>1, Replacing
    <3>. QED  BY <1>1, <3>1, <3>2 DEF Settle
  <2>4. market' = market /\ crossed' \subseteq Accounts /\ lost' = lost
    BY <1>1, <1>a DEF Settle, Meet, TypeOK
  <2>. QED  BY <1>1, <1>a, <2>2, <2>3, <2>4 DEF Settle, FundsInv, TypeOK, Books
<1>2. CASE Authorize(h)
  <2>1. c.at = "authorize" /\ c.goal \in Runs
    BY <1>2, <1>a DEF Authorize, InHand, c
  <2>2. runs' \in [Runs -> [at : {"new", "asking", "refused", "started", "charged"},
                            of : Accounts]]
    BY <1>2, <1>a, <2>1 DEF Authorize, TypeOK, c
  <2>3. calls' = [calls EXCEPT ![h] = Idle(c.of)]
    BY <1>2 DEF Authorize, c
  <2>4. calls' \in [Handlers -> Calls] /\ InHand'
    BY <1>a, <1>c, <2>3, Replacing
  <2>. QED  BY <1>2, <1>a, <2>2, <2>4 DEF Authorize, aside, FundsInv, TypeOK, Books
<1>3. CASE Deliver(h, a)
  <2>1. begin("paid", now) \in Rows /\ begin("paid", now).plan = "paid"
    BY <1>a, <1>b DEF begin, period_of, Rows, Plans, Times
  <2>2. LET d == [Idle(a) EXCEPT !.at = "delivered", !.row = begin("paid", now)]
        IN  d \in Calls /\ d.at = "delivered" /\ d.row = begin("paid", now)
    BY <1>c, <2>1 DEF Calls, Places
  <2>3. calls' \in [Handlers -> Calls] /\ InHand'
    BY <1>3, <1>a, <2>1, <2>2, Replacing DEF Deliver
  <2>4. /\ pools' = [pools EXCEPT ![a] = grant(pools[a], PaidTokens)]
        /\ totals' = [totals EXCEPT ![a] = [totals[a] EXCEPT
                        !.periods = totals[a].periods + 1,
                        !.credited = totals[a].credited + PaidTokens]]
    BY <1>3, <1>a DEF Deliver
  <2>5. LET t == [totals[a] EXCEPT !.periods = totals[a].periods + 1,
                                   !.credited = totals[a].credited + PaidTokens]
        IN  /\ t \in Totals /\ t.spent = totals[a].spent
            /\ t.credited = totals[a].credited + PaidTokens
    <3>1. totals[a].credited \in Nat /\ totals[a].periods \in 0..MaxPurchases
      BY <1>a, Totalling, 0 \in Nat
    <3>2. totals[a].credited + PaidTokens \in Nat /\ totals[a].periods + 1 \in 0..MaxPurchases
      BY <3>1, <1>a, <1>b, <1>3, Bought DEF Deliver
    <3>. QED  BY <1>a, <3>2, Totalling DEF Totals
  <2>6. /\ grant(pools[a], PaidTokens) \in Pools
        /\ Worth(grant(pools[a], PaidTokens)) = Worth(pools[a]) + PaidTokens
        /\ Worth(pools[a]) \in Int
    BY <1>a, <1>b, PoolRows
  <2>7. pools' \in [Accounts -> Pools] /\ totals' \in [Accounts -> Totals] /\ Books'
    <3>1. totals[a].credited \in Nat /\ totals[a].spent \in Nat
      BY <1>a DEF Totals
    <3>2. pools' \in [Accounts -> Pools] /\ totals' \in [Accounts -> Totals]
      BY <1>a, <2>4, <2>5, <2>6
    <3>3. Books'
      BY <3>1, <1>a, <1>b, <2>4, <2>5, <2>6 DEF Books
    <3>. QED  BY <3>2, <3>3
  <2>8. market' = market /\ crossed' \subseteq Accounts /\ lost' = lost
    BY <1>3, <1>a DEF Deliver, Meet, TypeOK
  <2>. QED  BY <1>3, <1>a, <2>3, <2>7, <2>8 DEF Deliver, FundsInv, TypeOK
<1>4. CASE Delivered(h)
  <2>1. c.at = "delivered" /\ c.row \in Rows
    BY <1>4, <1>a DEF Delivered, InHand, c
  <2>2. subs' \in [Accounts -> Rows \cup {NoRow}]
    BY <1>4, <1>a, <2>1 DEF Delivered, TypeOK, c
  <2>3. calls' = [calls EXCEPT ![h] = Idle(c.of)]
    BY <1>4, <1>a DEF Delivered, TypeOK, c
  <2>4. calls' \in [Handlers -> Calls] /\ InHand'
    BY <1>a, <1>c, <2>3, Replacing
  <2>. QED  BY <1>4, <1>a, <2>2, <2>4 DEF Delivered, aside, FundsInv, TypeOK, Books
<1>5. CASE Die(h)
  <2>1. calls' = [calls EXCEPT ![h] = Idle(c.of)]
    BY <1>5, <1>a DEF Die, TypeOK, c
  <2>2. calls' \in [Handlers -> Calls] /\ InHand'
    BY <1>a, <1>c, <2>1, Replacing
  <2>3. lost' \subseteq Keys
    BY <1>5, <1>a, Unwritten DEF Die, TypeOK
  <2>. QED  BY <1>5, <1>a, <2>2, <2>3 DEF Die, FundsInv, TypeOK, Books
<1>. QED  BY <1>1, <1>2, <1>3, <1>4, <1>5

\* Purchases, and the world around.
LEMMA FundsWorld ==
    ASSUME FundsInv, NEW a \in Accounts, BuyPack(a) \/ Subscribe(a)
    PROVE  FundsInv'
<1>a. /\ TypeOK /\ InHand /\ Books
      /\ now \in Nat
      /\ chain[a] \in OnChain /\ pools[a] \in Pools /\ totals[a] \in Totals
      /\ totals \in [Accounts -> Totals] /\ pools \in [Accounts -> Pools]
  BY BillingAssumption DEF FundsInv, TypeOK
<1>b. /\ PackTokens \in Nat /\ Month \in Nat /\ MaxPurchases \in Nat
  BY BillingAssumption
<1>1. CASE BuyPack(a)
  <2>1. /\ pools' = [pools EXCEPT ![a] = purchase(pools[a], PackTokens)]
        /\ totals' = [totals EXCEPT ![a] = [totals[a] EXCEPT
                        !.packs = totals[a].packs + 1,
                        !.credited = totals[a].credited + PackTokens]]
    BY <1>1, <1>a DEF BuyPack
  <2>2. LET t == [totals[a] EXCEPT !.packs = totals[a].packs + 1,
                                   !.credited = totals[a].credited + PackTokens]
        IN  /\ t \in Totals /\ t.spent = totals[a].spent
            /\ t.credited = totals[a].credited + PackTokens
    <3>1. totals[a].credited \in Nat /\ totals[a].packs \in 0..MaxPurchases
      BY <1>a, Totalling, 0 \in Nat
    <3>2. totals[a].credited + PackTokens \in Nat /\ totals[a].packs + 1 \in 0..MaxPurchases
      BY <3>1, <1>b, <1>1, <1>a, Bought DEF BuyPack
    <3>. QED  BY <1>a, <3>2, Totalling DEF Totals
  <2>3. /\ purchase(pools[a], PackTokens) \in Pools
        /\ Worth(purchase(pools[a], PackTokens)) = Worth(pools[a]) + PackTokens
        /\ Worth(pools[a]) \in Int
    BY <1>a, <1>b, PoolRows
  <2>4. pools' \in [Accounts -> Pools] /\ totals' \in [Accounts -> Totals] /\ Books'
    <3>1. totals[a].credited \in Nat /\ totals[a].spent \in Nat
      BY <1>a DEF Totals
    <3>2. pools' \in [Accounts -> Pools] /\ totals' \in [Accounts -> Totals]
      BY <1>a, <2>1, <2>2, <2>3
    <3>3. Books'
      BY <3>1, <1>a, <1>b, <2>1, <2>2, <2>3 DEF Books
    <3>. QED  BY <3>2, <3>3
  <2>. QED  BY <1>1, <1>a, <2>4 DEF BuyPack, aside, FundsInv, TypeOK, InHand
<1>2. CASE Subscribe(a)
  <2>. DEFINE k == chain[a]
              up == [k EXCEPT !.expires = k.expires + Month, !.periods = k.periods + 1]
              new == [started |-> now, expires |-> now + Month,
                      periods |-> k.periods + 1]
  <2>a. /\ chain' = [chain EXCEPT ![a] = IF k.expires > now THEN up ELSE new]
        /\ k.periods < MaxPurchases
    BY <1>2, <1>a, Bought DEF Subscribe, TypeOK
  <2>b. up \in OnChain /\ new \in OnChain
    <3>1. k.periods + 1 \in 0..MaxPurchases /\ k.expires + Month \in Nat
          /\ now + Month \in Nat
      BY <1>a, <1>b, <2>a DEF OnChain, Times
    <3>2. \A e \in Nat, p \in 0..MaxPurchases :
            [k EXCEPT !.expires = e, !.periods = p] \in OnChain
      BY <1>a DEF OnChain, Times
    <3>. QED  BY <1>a, <3>1, <3>2 DEF OnChain, Times
  <2>1. chain' \in [Accounts -> OnChain]
    <3>. HIDE DEF up, new
    <3>. QED  BY <1>a, <2>a, <2>b DEF TypeOK
  <2>. QED  BY <1>2, <1>a, <2>1 DEF Subscribe, aside, FundsInv, TypeOK, InHand, Books
<1>. QED  BY <1>1, <1>2

\* A run that is charged: its price leaves the pools and joins what is spent.
LEMMA FundsCharging ==
    ASSUME FundsInv, NEW r \in Runs, NEW cost \in Costs, Charge(r, cost)
    PROVE  FundsInv'
<1>. DEFINE a == runs[r].of
<1>1. /\ TypeOK /\ InHand /\ Books /\ cost \in Nat /\ a \in Accounts
      /\ totals \in [Accounts -> Totals] /\ pools \in [Accounts -> Pools]
  BY BillingAssumption DEF FundsInv, TypeOK
<1>2. runs' \in [Runs -> [at : {"new", "asking", "refused", "started", "charged"},
                          of : Accounts]]
  BY <1>1 DEF Charge, TypeOK
<1>. HIDE DEF a
<1>3. /\ pools' = [pools EXCEPT ![a] = debit(pools[a], cost)]
      /\ totals' = [totals EXCEPT ![a] = [totals[a] EXCEPT
                      !.spent = totals[a].spent + cost]]
  BY <1>1 DEF Charge, a
<1>4. LET t == [totals[a] EXCEPT !.spent = totals[a].spent + cost]
      IN  /\ t \in Totals /\ t.credited = totals[a].credited
          /\ t.spent = totals[a].spent + cost
  <2>1. totals[a].spent \in Nat /\ totals[a] \in Totals
    BY <1>1, Totalling, 0 \in Nat
  <2>2. totals[a].spent + cost \in Nat
    BY <1>1, <2>1
  <2>. QED  BY <2>1, <2>2, Totalling
<1>5. /\ debit(pools[a], cost) \in Pools
      /\ Worth(debit(pools[a], cost)) = Worth(pools[a]) - cost
      /\ Worth(pools[a]) \in Int
  BY <1>1, PoolRows
<1>6. pools' \in [Accounts -> Pools] /\ totals' \in [Accounts -> Totals] /\ Books'
  <2>1. totals[a].credited \in Nat /\ totals[a].spent \in Nat
    BY <1>1 DEF Totals
  <2>2. pools' \in [Accounts -> Pools] /\ totals' \in [Accounts -> Totals]
    BY <1>1, <1>3, <1>4, <1>5
  <2>3. Books'
    BY <2>1, <1>1, <1>3, <1>4, <1>5 DEF Books
  <2>. QED  BY <2>2, <2>3
<1>. QED  BY <1>1, <1>2, <1>6 DEF Charge, aside, FundsInv, TypeOK, InHand

\* Every step keeps the books.
LEMMA FundsStep == FundsInv /\ [Next]_vars => FundsInv'
<1>. SUFFICES ASSUME FundsInv, [Next]_vars PROVE FundsInv'
  OBVIOUS
<1>1. CASE \E h \in Handlers, a \in Accounts :
              (\E goal \in Runs \cup {Reading} : Settle(h, a, goal)) \/ Deliver(h, a)
  BY <1>1, FundsRequest
<1>2. CASE \E h \in Handlers : Step(h) \/ Die(h)
  <2>. PICK h \in Handlers : Step(h) \/ Die(h)
    BY <1>2
  <2>a. calls[h].of \in Accounts
    BY DEF FundsInv, TypeOK, Calls
  <2>. QED  BY <2>a, FundsSettling, FundsRequest DEF Step
<1>3. CASE \E r \in Runs, cost \in Costs : Charge(r, cost)
  BY <1>3, FundsCharging
<1>4. CASE \E a \in Accounts : BuyPack(a) \/ Subscribe(a)
  BY <1>4, FundsWorld
<1>5. CASE Tick
  BY <1>5, BillingAssumption DEF Tick, aside, FundsInv, TypeOK, InHand, Books
<1>6. CASE UNCHANGED vars
  BY <1>6 DEF FundsInv, TypeOK, InHand, Books, vars
<1>. QED  BY <1>1, <1>2, <1>3, <1>4, <1>5, <1>6 DEF Next

\* For every account, request, price and bound: the state is what TypeOK says,
\* and an account with something left has not spent more than the rest of what
\* it was ever credited, so balance_of's clamp forgives no overspend.
THEOREM Funds == Spec => [](TypeOK /\ OverspendNotForgiven)
<1>1. FundsInv => TypeOK /\ OverspendNotForgiven
  <2>. SUFFICES ASSUME FundsInv, NEW a \in Accounts, Worth(Balance(pools[a])) > 0
                PROVE  Worth(Balance(pools[a])) + totals[a].spent <= totals[a].credited
    BY DEF FundsInv, OverspendNotForgiven
  <2>1. pools[a] \in Pools
    BY DEF FundsInv, TypeOK
  <2>2. Worth(Balance(pools[a])) = Worth(pools[a])
    BY <2>1, Shown, PoolRows
  <2>. QED  BY <2>2 DEF FundsInv, Books
<1>. QED  BY <1>1, FundsInit, FundsStep, PTL DEF Spec

-----------------------------------------------------------------------------

\* A step that stores no row, takes no reference back and disturbs no request
\* that is about to grant.
LEMMA Keeping ==
    ASSUME PeriodGranted, subs' = subs, market' = market,
           keys \cup lost \subseteq keys' \cup lost',
           \A g \in Handlers : calls[g].at = "grant" => calls'[g] = calls[g]
    PROVE  PeriodGranted'
<1>. SUFFICES ASSUME NEW a \in Accounts, subs[a].plan = "free"
              PROVE  \/ period_key("grant", a, subs[a]) \in keys' \cup lost'
                     \/ \E h \in Handlers : /\ calls'[h].at = "grant"
                                            /\ calls'[h].of = a
                                            /\ calls'[h].row = subs[a]
  BY DEF PeriodGranted, period_key, ChainAvailable
<1>. QED  BY DEF PeriodGranted

\* A step that stores a row: not a free one, or one that is about to be granted.
LEMMA Storing ==
    ASSUME TypeOK, PeriodGranted, market' = market,
           keys \cup lost \subseteq keys' \cup lost',
           NEW a \in Accounts, NEW row, subs' = [subs EXCEPT ![a] = row],
           \A g \in Handlers : calls[g].at = "grant" => calls'[g] = calls[g],
           \/ row.plan # "free"
           \/ \E h \in Handlers : /\ calls'[h].at = "grant" /\ calls'[h].of = a
                                  /\ calls'[h].row = row
    PROVE  PeriodGranted'
<1>. SUFFICES ASSUME NEW b \in Accounts, subs'[b].plan = "free"
              PROVE  \/ period_key("grant", b, subs'[b]) \in keys' \cup lost'
                     \/ \E h \in Handlers : /\ calls'[h].at = "grant"
                                            /\ calls'[h].of = b
                                            /\ calls'[h].row = subs'[b]
  BY DEF PeriodGranted, period_key, ChainAvailable
<1>1. CASE b = a
  BY <1>1 DEF TypeOK
<1>2. CASE b # a
  <2>1. subs'[b] = subs[b]
    BY <1>2 DEF TypeOK
  <2>. QED  BY <2>1 DEF PeriodGranted
<1>. QED  BY <1>1, <1>2

\* Every step leaves the free period of an account granted or in hand.
LEMMA GrantedStep ==
    ASSUME FundsInv, PeriodGranted, [Next]_vars
    PROVE  PeriodGranted'
<1>a. TypeOK /\ InHand /\ calls \in [Handlers -> Calls]
  BY DEF FundsInv, TypeOK
<1>1. ASSUME NEW h \in Handlers, NEW a \in Accounts,
             \/ \E goal \in Runs \cup {Reading} : Settle(h, a, goal)
             \/ Deliver(h, a)
      PROVE  PeriodGranted'
  <2>1. /\ subs' = subs /\ keys' = keys /\ calls[h].at = "idle"
        /\ market' = market /\ lost' = lost
    BY <1>1 DEF Settle, Deliver, Meet
  <2>2. \A g \in Handlers \ {h} : calls'[g] = calls[g]
    BY <1>1, <1>a DEF Settle, Deliver
  <2>. QED  BY <2>1, <2>2, Keeping
<1>2. ASSUME NEW h \in Handlers, Step(h) \/ Die(h)
      PROVE  PeriodGranted'
  <2>. DEFINE c == calls[h]
  <2>a. c \in Calls /\ c.of \in Accounts
    BY <1>a DEF Calls
  <2>b. (\A g \in Handlers \ {h} : calls'[g] = calls[g])
    BY <1>2, <1>a DEF Step, Die, Mirror, MirrorGrant, ReadRow, Begin, ReadBalance,
                      Expire, Turn, Grant, Authorize, Delivered, Settled, Moves
  <2>c. /\ market' = market /\ lost \subseteq lost'
        /\ Step(h) => lost' = lost
    BY <1>2 DEF Step, Die, Mirror, MirrorGrant, ReadRow, Begin, ReadBalance, Expire,
                Turn, Grant, Authorize, Delivered, aside
  <2>. HIDE DEF c
  <2>1. CASE \/ ReadRow(h) \/ ReadBalance(h) \/ Expire(h) \/ Authorize(h)
             \/ MirrorGrant(h)
    <3>1. c.at # "grant" /\ subs' = subs
      BY <2>1 DEF ReadRow, ReadBalance, Expire, Authorize, MirrorGrant, c
    <3>2. keys \subseteq keys'
      BY <2>1 DEF ReadRow, ReadBalance, Expire, Authorize, MirrorGrant, Credit
    <3>. QED  BY <2>b, <2>c, <3>1, <3>2, Keeping DEF c
  <2>2. CASE Mirror(h) \/ Delivered(h)
    <3>1. /\ c.at # "grant" /\ c.row.plan = "paid" /\ keys' = keys
          /\ subs' = [subs EXCEPT ![c.of] = c.row]
      BY <2>2, <1>a DEF Mirror, Delivered, InHand, c
    <3>. QED  BY <1>a, <2>a, <2>b, <2>c, <3>1, Storing DEF c
  <2>3. CASE Begin(h)
    <3>1. /\ c.at = "begin" /\ keys' = keys
          /\ subs' = [subs EXCEPT ![c.of] = c.row]
      BY <2>3 DEF Begin, c
    <3>2. calls'[h] = [c EXCEPT !.at = "grant"]
      BY <2>3, <1>a DEF Begin, Moves, c
    <3>3. calls'[h].at = "grant" /\ calls'[h].of = c.of /\ calls'[h].row = c.row
      BY <2>a, <3>2 DEF Calls
    <3>. QED  BY <1>a, <2>a, <2>b, <2>c, <3>1, <3>3, Storing DEF c
  <2>4. CASE Turn(h)
    <3>1. c.at = "turn" /\ keys' = keys /\ c.row \in Rows
      BY <2>4, <1>a DEF Turn, InHand, c
    <3>2. CASE c.row.plan = "free"
      <4>. DEFINE row == begin("free", c.now)
      <4>1. subs' = [subs EXCEPT ![c.of] = row]
        BY <3>2, <2>4 DEF Turn, c
      <4>2. calls'[h] = [c EXCEPT !.at = "grant", !.row = row, !.now = 0]
        BY <3>2, <2>4, <1>a DEF Turn, c
      <4>. HIDE DEF row
      <4>3. calls'[h].at = "grant" /\ calls'[h].of = c.of /\ calls'[h].row = row
        BY <2>a, <4>2 DEF Calls
      <4>. QED  BY <1>a, <2>a, <2>b, <2>c, <3>1, <4>1, <4>3, Storing DEF c
    <3>3. CASE c.row.plan # "free"
      <4>1. subs' = [subs EXCEPT ![c.of] = ended(c.row)]
        BY <3>3, <2>4 DEF Turn, c
      <4>2. ended(c.row).plan # "free"
        BY <3>1, <3>3 DEF ended, Rows
      <4>. QED  BY <1>a, <2>a, <2>b, <2>c, <3>1, <4>1, <4>2, Storing DEF c
    <3>. QED  BY <3>2, <3>3
  <2>5. CASE Grant(h)
    <3>1. /\ c.at = "grant" /\ subs' = subs
          /\ period_key("grant", c.of, c.row) \in keys' /\ keys \subseteq keys'
      BY <2>5 DEF Grant, Credit, c
    <3>. SUFFICES ASSUME NEW a \in Accounts, subs[a].plan = "free"
                  PROVE  \/ period_key("grant", a, subs[a]) \in keys' \cup lost'
                         \/ \E g \in Handlers : /\ calls'[g].at = "grant"
                                                /\ calls'[g].of = a
                                                /\ calls'[g].row = subs[a]
      BY <3>1, <2>c DEF PeriodGranted, period_key, ChainAvailable
    <3>2. CASE c.of = a /\ c.row = subs[a]
      BY <3>1, <3>2, <2>c DEF period_key, ChainAvailable
    <3>3. CASE ~(c.of = a /\ c.row = subs[a])
      BY <2>b, <2>c, <3>1, <3>3 DEF PeriodGranted, c
    <3>. QED  BY <3>2, <3>3
  <2>6. CASE Die(h)
    <3>1. /\ subs' = subs /\ keys' = keys
          /\ c.at = "grant" => period_key("grant", c.of, c.row) \in lost'
      BY <2>6 DEF Die, unwritten, c
    <3>. SUFFICES ASSUME NEW a \in Accounts, subs[a].plan = "free"
                  PROVE  \/ period_key("grant", a, subs[a]) \in keys' \cup lost'
                         \/ \E g \in Handlers : /\ calls'[g].at = "grant"
                                                /\ calls'[g].of = a
                                                /\ calls'[g].row = subs[a]
      BY <3>1, <2>c DEF PeriodGranted, period_key, ChainAvailable
    <3>2. CASE c.at = "grant" /\ c.of = a /\ c.row = subs[a]
      BY <3>1, <3>2
    <3>3. CASE ~(c.at = "grant" /\ c.of = a /\ c.row = subs[a])
      BY <2>b, <2>c, <3>1, <3>3 DEF PeriodGranted, c
    <3>. QED  BY <3>2, <3>3
  <2>. QED  BY <1>2, <2>1, <2>2, <2>3, <2>4, <2>5, <2>6 DEF Step
<1>3. CASE \/ \E r \in Runs, cost \in Costs : Charge(r, cost)
           \/ \E a \in Accounts : BuyPack(a) \/ Subscribe(a)
           \/ Tick \/ UNCHANGED vars
  <2>1. /\ subs' = subs /\ keys' = keys /\ calls' = calls
        /\ market' = market /\ lost' = lost
    BY <1>3 DEF Charge, BuyPack, Subscribe, Tick, vars, aside
  <2>. QED  BY <2>1, Keeping
<1>. QED  BY <1>1, <1>2, <1>3 DEF Next

\* However many requests settle an account at once, and whatever the contract
\* answers them, the free period it is on has been granted or is about to be,
\* unless the request was cut off between the row and the grant.
THEOREM Granted == Spec => []PeriodGranted
<1>1. Init => PeriodGranted
  BY DEF Init, PeriodGranted, NoRow
<1>2. FundsInv /\ PeriodGranted /\ [Next]_vars => PeriodGranted'
  BY GrantedStep
<1>. QED  BY <1>1, <1>2, FundsInit, FundsStep, PTL DEF Spec

-----------------------------------------------------------------------------
(* The tokens of a mirrored period.  A paid row that is stored, or that a   *)
(* request read and may still store as ended, is one whose tokens went out, *)
(* are about to, or were lost with their request.  That a refused credit    *)
(* went to somebody takes ChainKeys: the reference of a period is only ever *)
(* written with its tokens.                                                 *)

Served(a, row, all, gone, held) ==
    \/ \E b \in Accounts : row.started \in all[b].chained
    \/ chain_key(row) \in gone
    \/ \E h \in Handlers : /\ held[h].at = "mirrored" /\ held[h].of = a
                           /\ held[h].row.started = row.started

ServedNow(a, row) == Served(a, row, totals, lost, calls)

ChainKeys ==
    \A k \in keys : k.kind = "chain" =>
        \E b \in Accounts : k.at \in totals[b].chained

MirrorInv ==
    ChainAvailable =>
        /\ ChainKeys
        /\ \A h \in Handlers : calls[h].at # "delivered"
        /\ \A a \in Accounts : subs[a].plan = "paid" => ServedNow(a, subs[a])
        /\ \A h \in Handlers :
             calls[h].at \in {"balance", "expire", "turn"} /\ calls[h].row.plan = "paid"
               => ServedNow(calls[h].of, calls[h].row)

\* A period once served stays served: tokens stay credited, a loss is not made
\* good, and a request leaves "mirrored" with its tokens credited or lost.
LEMMA StaysServed ==
    ASSUME NEW a \in Accounts, NEW row, ServedNow(a, row), ChainAvailable,
           lost \subseteq lost',
           \A b \in Accounts : totals[b].chained \subseteq totals'[b].chained,
           \A g \in Handlers : calls[g].at = "mirrored" =>
              \/ calls'[g] = calls[g]
              \/ \E b \in Accounts : calls[g].row.started \in totals'[b].chained
              \/ chain_key(calls[g].row) \in lost' /\ calls[g].row.plan = row.plan
    PROVE  Served(a, row, totals', lost', calls')
<1>1. CASE \E b \in Accounts : row.started \in totals[b].chained
  BY <1>1 DEF ServedNow, Served
<1>2. CASE chain_key(row) \in lost
  BY <1>2 DEF ServedNow, Served, chain_key
<1>3. CASE \E h \in Handlers : /\ calls[h].at = "mirrored" /\ calls[h].of = a
                               /\ calls[h].row.started = row.started
  <2>. PICK h \in Handlers : /\ calls[h].at = "mirrored" /\ calls[h].of = a
                             /\ calls[h].row.started = row.started
    BY <1>3
  <2>1. CASE calls'[h] = calls[h]
    BY <2>1 DEF ServedNow, Served
  <2>2. CASE \E b \in Accounts : calls[h].row.started \in totals'[b].chained
    BY <2>2 DEF ServedNow, Served
  <2>3. CASE chain_key(calls[h].row) \in lost' /\ calls[h].row.plan = row.plan
    <3>1. chain_key(calls[h].row) = chain_key(row)
      BY <2>3 DEF chain_key
    <3>. QED  BY <2>3, <3>1 DEF ServedNow, Served, chain_key
  <2>. QED  BY <2>1, <2>2, <2>3
<1>. QED  BY <1>1, <1>2, <1>3 DEF ServedNow, Served

\* What a credit does to the periods credited, and that a refused one of the
\* contract's was somebody's.
LEMMA CreditChained ==
    ASSUME TypeOK, ChainKeys, NEW a \in Accounts, NEW key \in Keys,
           NEW tokens \in Nat, NEW chained \in SUBSET Times,
           Credit(a, key, tokens, chained), key.kind = "chain" => key.at \in chained
    PROVE  /\ \A b \in Accounts : totals[b].chained \subseteq totals'[b].chained
           /\ ChainKeys'
           /\ key.kind = "chain" => \E b \in Accounts : key.at \in totals'[b].chained
<1>1. CASE key \in keys
  BY <1>1 DEF Credit, ChainKeys
<1>2. CASE key \notin keys
  <2>0. totals \in [Accounts -> Totals] /\ totals[a] \in Totals
    BY DEF TypeOK
  <2>. DEFINE t == [totals[a] EXCEPT !.credited = totals[a].credited + tokens,
                                     !.chained = totals[a].chained \cup chained]
  <2>1. keys' = keys \cup {key} /\ totals' = [totals EXCEPT ![a] = t]
    BY <1>2, <2>0 DEF Credit
  <2>2. t.chained = totals[a].chained \cup chained
    BY <2>0 DEF Totals
  <2>. HIDE DEF t
  <2>3. totals'[a] = t /\ \A b \in Accounts \ {a} : totals'[b] = totals[b]
    BY <2>0, <2>1
  <2>4. \A b \in Accounts : totals[b].chained \subseteq totals'[b].chained
    BY <2>2, <2>3
  <2>5. key.kind = "chain" => key.at \in totals'[a].chained
    BY <2>2, <2>3
  <2>. QED  BY <2>1, <2>4, <2>5 DEF ChainKeys
<1>. QED  BY <1>1, <1>2

\* The coroutine settle_period begins.
LEMMA SettleBegins ==
    ASSUME TypeOK, NEW h \in Handlers, NEW a \in Accounts,
           NEW goal \in Runs \cup {Reading}, Settle(h, a, goal)
    PROVE  /\ \A g \in Handlers \ {h} : calls'[g] = calls[g]
           /\ calls'[h].at \in {"mirror", "read"} /\ calls'[h].of = a
<1>. DEFINE d == [Idle(a) EXCEPT !.goal = goal]
<1>a. calls \in [Handlers -> Calls]
  BY DEF TypeOK
<1>1. d \in Calls /\ d.of = a
  BY IdleTyped DEF Calls, Idle
<1>2. \A x \in Calls : \A place, v :
        /\ [x EXCEPT !.at = place, !.row = v].at = place
        /\ [x EXCEPT !.at = place, !.row = v].of = x.of
        /\ [x EXCEPT !.at = place, !.now = v].at = place
        /\ [x EXCEPT !.at = place, !.now = v].of = x.of
  BY DEF Calls
<1>3. \E place \in {"mirror", "read"} : \E v :
        \/ calls' = [calls EXCEPT ![h] = [d EXCEPT !.at = place, !.row = v]]
        \/ calls' = [calls EXCEPT ![h] = [d EXCEPT !.at = place, !.now = v]]
  BY DEF Settle
<1>. HIDE DEF d
<1>b. PICK place \in {"mirror", "read"} : \E v :
        \/ calls' = [calls EXCEPT ![h] = [d EXCEPT !.at = place, !.row = v]]
        \/ calls' = [calls EXCEPT ![h] = [d EXCEPT !.at = place, !.now = v]]
  BY <1>3
<1>4. PICK v : \/ calls' = [calls EXCEPT ![h] = [d EXCEPT !.at = place, !.row = v]]
               \/ calls' = [calls EXCEPT ![h] = [d EXCEPT !.at = place, !.now = v]]
  BY <1>b
<1>5. CASE calls' = [calls EXCEPT ![h] = [d EXCEPT !.at = place, !.row = v]]
  <2>1. /\ [d EXCEPT !.at = place, !.row = v].at = place
        /\ [d EXCEPT !.at = place, !.row = v].of = a
    BY <1>1, <1>2
  <2>. QED  BY <1>a, <1>5, <2>1
<1>6. CASE calls' = [calls EXCEPT ![h] = [d EXCEPT !.at = place, !.now = v]]
  <2>1. /\ [d EXCEPT !.at = place, !.now = v].at = place
        /\ [d EXCEPT !.at = place, !.now = v].of = a
    BY <1>1, <1>2
  <2>. QED  BY <1>a, <1>6, <2>1
<1>. QED  BY <1>4, <1>5, <1>6

\* No step leaves a mirrored period unserved.
LEMMA MirrorStep ==
    ASSUME FundsInv, MirrorInv, [Next]_vars
    PROVE  MirrorInv'
<1>. SUFFICES ASSUME ChainAvailable
              PROVE  MirrorInv'
  <2>1. market' = market
    BY DEF Next, Step, Settle, Deliver, Meet, Die, Mirror, MirrorGrant, ReadRow,
           Begin, ReadBalance, Expire, Turn, Grant, Authorize, Delivered, Charge,
           BuyPack, Subscribe, Tick, aside, vars
  <2>. QED  BY <2>1 DEF MirrorInv, ChainAvailable
<1>a. /\ TypeOK /\ InHand /\ calls \in [Handlers -> Calls]
      /\ totals \in [Accounts -> Totals]
      /\ \A h \in Handlers : calls[h] \in Calls /\ calls[h].of \in Accounts
  BY DEF FundsInv, TypeOK, Calls
<1>b. /\ ChainKeys
      /\ \A h \in Handlers : calls[h].at # "delivered"
      /\ \A a \in Accounts : subs[a].plan = "paid" => ServedNow(a, subs[a])
      /\ \A h \in Handlers :
           calls[h].at \in {"balance", "expire", "turn"} /\ calls[h].row.plan = "paid"
             => ServedNow(calls[h].of, calls[h].row)
  BY DEF MirrorInv
\* Most steps credit no period, lose nothing and leave the mirrored alone.
<1>c. ASSUME ChainKeys',
             \A a \in Accounts : \A row : ServedNow(a, row) /\ row.plan = "paid"
                => Served(a, row, totals', lost', calls'),
             \A h \in Handlers : calls'[h].at # "delivered",
             \A a \in Accounts : subs'[a].plan = "paid" =>
                \/ ServedNow(a, subs'[a])
                \/ \E h \in Handlers : /\ calls'[h].at = "mirrored"
                                       /\ calls'[h].of = a /\ calls'[h].row = subs'[a],
             \A h \in Handlers :
               /\ calls'[h].at \in {"balance", "expire", "turn"}
               /\ calls'[h].row.plan = "paid"
               => /\ calls'[h].of \in Accounts
                  /\ ServedNow(calls'[h].of, calls'[h].row)
      PROVE  MirrorInv'
  <2>1. \A a \in Accounts : subs'[a].plan = "paid"
          => Served(a, subs'[a], totals', lost', calls')
    BY <1>c DEF Served
  <2>2. \A h \in Handlers :
          calls'[h].at \in {"balance", "expire", "turn"} /\ calls'[h].row.plan = "paid"
            => Served(calls'[h].of, calls'[h].row, totals', lost', calls')
    BY <1>c
  <2>. QED  BY <1>c, <2>1, <2>2 DEF MirrorInv, ServedNow
<1>d. ASSUME keys' = keys \/ \E k \in Keys : keys' = keys \cup {k} /\ k.kind # "chain",
             \A b \in Accounts : totals'[b].chained = totals[b].chained
      PROVE  ChainKeys'
  BY <1>b, <1>d DEF ChainKeys
<1>1. ASSUME NEW h \in Handlers, NEW a \in Accounts,
             \/ \E goal \in Runs \cup {Reading} : Settle(h, a, goal)
             \/ Deliver(h, a)
      PROVE  MirrorInv'
  <2>1. PICK goal \in Runs \cup {Reading} : Settle(h, a, goal)
    BY <1>1 DEF Deliver
  <2>2. /\ subs' = subs /\ keys' = keys /\ totals' = totals /\ lost' = lost
        /\ calls[h].at = "idle"
    BY <2>1 DEF Settle, Meet
  <2>3. /\ \A g \in Handlers \ {h} : calls'[g] = calls[g]
        /\ calls'[h].at \in {"mirror", "read"}
    BY <1>a, <2>1, SettleBegins
  <2>4. \A b \in Accounts : \A row : ServedNow(b, row) => Served(b, row, totals', lost', calls')
    BY <2>2, <2>3, StaysServed
  <2>5. ChainKeys'
    BY <1>d, <2>2
  <2>. QED  BY <1>a, <1>b, <1>c, <2>2, <2>3, <2>4, <2>5
<1>2. ASSUME NEW h \in Handlers, Step(h) \/ Die(h)
      PROVE  MirrorInv'
  <2>. DEFINE c == calls[h]
  <2>a. c \in Calls /\ c.of \in Accounts
    BY <1>a
  <2>b. (\A g \in Handlers \ {h} : calls'[g] = calls[g])
    BY <1>2, <1>a DEF Step, Die, Mirror, MirrorGrant, ReadRow, Begin, ReadBalance,
                      Expire, Turn, Grant, Authorize, Delivered, Settled, Moves
  <2>c. lost \subseteq lost' /\ (Step(h) => lost' = lost)
    BY <1>2 DEF Step, Die, Mirror, MirrorGrant, ReadRow, Begin, ReadBalance, Expire,
                Turn, Grant, Authorize, Delivered, aside
  <2>d. Settled(h) => calls'[h].at \in {"idle", "authorize"}
    <3>. SUFFICES ASSUME Settled(h) PROVE calls'[h].at \in {"idle", "authorize"}
      OBVIOUS
    <3>1. Idle(c.of) \in Calls
      BY <2>a, IdleTyped
    <3>2. \A x \in Calls : \A place, goal : [x EXCEPT !.at = place, !.goal = goal].at = place
      BY DEF Calls
    <3>. QED  BY <3>1, <3>2, <1>a DEF Settled
  <2>e. ASSUME totals' = totals, c.at # "mirrored"
        PROVE  \A b \in Accounts : \A row : ServedNow(b, row) => Served(b, row, totals', lost', calls')
    BY <2>b, <2>c, <2>e, StaysServed DEF c
  <2>. HIDE DEF c
  <2>1. CASE Mirror(h)
    <3>1. /\ c.at = "mirror" /\ keys' = keys /\ totals' = totals
          /\ subs' = [subs EXCEPT ![c.of] = c.row]
          /\ calls'[h] = [c EXCEPT !.at = "mirrored"]
      BY <2>1, <1>a DEF Mirror, Moves, c
    <3>2. /\ calls'[h].at = "mirrored" /\ calls'[h].of = c.of
          /\ calls'[h].row = c.row
      BY <2>a, <3>1 DEF Calls
    <3>3. ChainKeys'
      BY <1>d, <3>1
    <3>4. \A a \in Accounts : a = c.of \/ subs'[a] = subs[a]
      BY <3>1, <1>a DEF TypeOK
    <3>5. subs'[c.of] = c.row
      BY <3>1, <1>a, <2>a DEF TypeOK
    <3>. QED  BY <1>a, <1>b, <1>c, <2>b, <2>e, <3>1, <3>2, <3>3, <3>4, <3>5
  <2>2. CASE MirrorGrant(h)
    <3>. DEFINE key == chain_key(c.row)
    <3>1. /\ c.at = "mirrored" /\ c.row \in Rows /\ subs' = subs
          /\ Credit(c.of, key, PaidTokens, {c.row.started}) /\ Settled(h)
      BY <2>2, <1>a DEF MirrorGrant, InHand, c
    <3>2. key \in Keys /\ key.kind = "chain" /\ key.at = c.row.started
          /\ {c.row.started} \in SUBSET Times /\ PaidTokens \in Nat
      BY <3>1, BillingAssumption DEF Rows, chain_key, Keys
    <3>. HIDE DEF key
    <3>3. /\ \A b \in Accounts : totals[b].chained \subseteq totals'[b].chained
          /\ ChainKeys'
          /\ \E b \in Accounts : c.row.started \in totals'[b].chained
      BY <1>a, <1>b, <2>a, <3>1, <3>2, CreditChained
    <3>4. \A b \in Accounts : \A row : ServedNow(b, row) => Served(b, row, totals', lost', calls')
      BY <2>b, <2>c, <3>3, StaysServed DEF c
    <3>. QED  BY <1>a, <1>b, <1>c, <2>b, <2>d, <3>1, <3>3, <3>4
  <2>3. CASE ReadRow(h)
    <3>1. /\ c.at = "read" /\ subs' = subs /\ keys' = keys /\ totals' = totals
          /\ \/ calls'[h] = [c EXCEPT !.at = "begin", !.now = 0,
                                      !.row = begin("free", c.now)]
             \/ Settled(h)
             \/ calls'[h] = [c EXCEPT !.at = "balance", !.row = subs[c.of]]
      BY <2>3, <1>a DEF ReadRow, c
    <3>2. \/ calls'[h].at \in {"begin", "idle", "authorize"}
          \/ /\ calls'[h].at = "balance" /\ calls'[h].of = c.of
             /\ calls'[h].row = subs[c.of]
      BY <2>a, <2>d, <3>1 DEF Calls
    <3>3. ChainKeys'
      BY <1>d, <3>1
    <3>. QED  BY <1>a, <1>b, <1>c, <2>a, <2>b, <2>e, <3>1, <3>2, <3>3
  <2>4. CASE Begin(h)
    <3>1. /\ c.at = "begin" /\ c.row.plan = "free" /\ keys' = keys /\ totals' = totals
          /\ subs' = [subs EXCEPT ![c.of] = c.row]
          /\ calls'[h] = [c EXCEPT !.at = "grant"]
      BY <2>4, <1>a DEF Begin, Moves, InHand, c
    <3>2. calls'[h].at = "grant"
      BY <2>a, <3>1 DEF Calls
    <3>3. ChainKeys'
      BY <1>d, <3>1
    <3>4. \A a \in Accounts : subs'[a].plan = "free" \/ subs'[a] = subs[a]
      BY <3>1, <1>a, <2>a DEF TypeOK
    <3>. QED  BY <1>a, <1>b, <1>c, <2>b, <2>e, <3>1, <3>2, <3>3, <3>4
  <2>5. CASE ReadBalance(h) \/ Expire(h)
    <3>1. /\ c.at \in {"balance", "expire"} /\ subs' = subs /\ totals' = totals
          /\ \E place \in {"expire", "turn"} : \E n :
               calls'[h] = [c EXCEPT !.at = place, !.take = n]
      BY <2>5, <1>a DEF ReadBalance, Expire, c
    <3>2. /\ calls'[h].at \in {"expire", "turn"} /\ calls'[h].of = c.of
          /\ calls'[h].row = c.row
      BY <2>a, <3>1 DEF Calls
    <3>3. ChainKeys'
      <4>1. CASE ReadBalance(h)
        BY <1>d, <3>1, <4>1 DEF ReadBalance
      <4>2. CASE Expire(h)
        <5>1. c.row \in Rows
          BY <4>2, <1>a DEF Expire, InHand, c
        <5>2. /\ period_key("expiry", c.of, c.row) \in Keys
              /\ period_key("expiry", c.of, c.row).kind = "expiry"
          BY <5>1, <2>a DEF period_key, Keys, Rows
        <5>. QED  BY <1>d, <3>1, <4>2, <5>2 DEF Expire, c
      <4>. QED  BY <2>5, <4>1, <4>2
    <3>. QED  BY <1>a, <1>b, <1>c, <2>a, <2>b, <2>e, <3>1, <3>2, <3>3 DEF c
  <2>6. CASE Turn(h)
    <3>1. c.at = "turn" /\ keys' = keys /\ c.row \in Rows /\ totals' = totals
      BY <2>6, <1>a DEF Turn, InHand, c
    <3>2. ChainKeys'
      BY <1>d, <3>1
    <3>3. CASE c.row.plan = "free"
      <4>1. /\ subs' = [subs EXCEPT ![c.of] = begin("free", c.now)]
            /\ calls'[h] = [c EXCEPT !.at = "grant", !.row = begin("free", c.now),
                                     !.now = 0]
        BY <3>3, <2>6, <1>a DEF Turn, c
      <4>2. calls'[h].at = "grant" /\ begin("free", c.now).plan = "free"
        BY <2>a, <4>1 DEF Calls, begin
      <4>3. \A a \in Accounts : subs'[a].plan = "free" \/ subs'[a] = subs[a]
        BY <4>1, <4>2, <1>a, <2>a DEF TypeOK
      <4>. QED  BY <1>a, <1>b, <1>c, <2>b, <2>e, <3>1, <3>2, <4>2, <4>3
    <3>4. CASE c.row.plan # "free"
      <4>1. /\ subs' = [subs EXCEPT ![c.of] = ended(c.row)]
            /\ calls'[h].at \in {"idle", "authorize"}
        BY <3>4, <2>6, <2>d DEF Turn, c
      <4>2. /\ c.row.plan = "paid" /\ ended(c.row).plan = "paid"
            /\ ended(c.row).started = c.row.started
        BY <3>1, <3>4 DEF ended, Rows, Plans
      <4>3. ServedNow(c.of, ended(c.row))
        <5>1. ServedNow(c.of, c.row)
          BY <1>b, <3>1, <4>2 DEF c
        <5>. QED  BY <4>2, <5>1 DEF ServedNow, Served, chain_key
      <4>4. /\ \A a \in Accounts : a = c.of \/ subs'[a] = subs[a]
            /\ subs'[c.of] = ended(c.row)
        BY <4>1, <1>a, <2>a DEF TypeOK
      <4>. QED  BY <1>a, <1>b, <1>c, <2>b, <2>e, <3>1, <3>2, <4>1, <4>3, <4>4
    <3>. QED  BY <3>3, <3>4
  <2>7. CASE Grant(h)
    <3>. DEFINE key == period_key("grant", c.of, c.row)
    <3>1. /\ c.at = "grant" /\ c.row \in Rows /\ subs' = subs
          /\ Credit(c.of, key, FreeTokens, {}) /\ Settled(h)
      BY <2>7, <1>a DEF Grant, InHand, c
    <3>2. key \in Keys /\ key.kind = "grant" /\ {} \in SUBSET Times
          /\ FreeTokens \in Nat
      BY <2>a, <3>1, BillingAssumption DEF Rows, period_key, Keys
    <3>. HIDE DEF key
    <3>3. /\ \A b \in Accounts : totals[b].chained \subseteq totals'[b].chained
          /\ ChainKeys'
      BY <1>a, <1>b, <2>a, <3>1, <3>2, CreditChained
    <3>4. \A b \in Accounts : \A row : ServedNow(b, row) => Served(b, row, totals', lost', calls')
      BY <2>b, <2>c, <3>1, <3>3, StaysServed DEF c
    <3>. QED  BY <1>a, <1>b, <1>c, <2>b, <2>d, <3>1, <3>3, <3>4
  <2>8. CASE Authorize(h) \/ Delivered(h)
    <3>1. /\ c.at = "authorize" /\ subs' = subs /\ keys' = keys /\ totals' = totals
          /\ calls'[h] = Idle(c.of)
      BY <2>8, <1>a, <1>b DEF Authorize, Delivered, c
    <3>2. calls'[h].at = "idle"
      BY <2>a, <3>1, IdleTyped
    <3>3. ChainKeys'
      BY <1>d, <3>1
    <3>. QED  BY <1>a, <1>b, <1>c, <2>b, <2>e, <3>1, <3>2, <3>3
  <2>9. CASE Die(h)
    <3>1. /\ subs' = subs /\ keys' = keys /\ totals' = totals
          /\ calls'[h] = Idle(c.of)
          /\ c.at = "mirrored" => chain_key(c.row) \in lost'
      BY <2>9, <1>a DEF Die, unwritten, c
    <3>2. calls'[h].at = "idle"
      BY <2>a, <3>1, IdleTyped
    <3>3. ChainKeys'
      BY <1>d, <3>1
    <3>4. c.at = "mirrored" => c.row.plan = "paid"
      BY <1>a DEF InHand, c
    <3>5. \A b \in Accounts : \A row : ServedNow(b, row) /\ row.plan = "paid"
            => Served(b, row, totals', lost', calls')
      BY <2>b, <2>c, <3>1, <3>4, StaysServed DEF c
    <3>. QED  BY <1>a, <1>b, <1>c, <2>b, <3>1, <3>2, <3>3, <3>5
  <2>. QED  BY <1>2, <2>1, <2>2, <2>3, <2>4, <2>5, <2>6, <2>7, <2>8, <2>9 DEF Step
<1>3. CASE \/ \E r \in Runs, cost \in Costs : Charge(r, cost)
           \/ \E a \in Accounts : BuyPack(a) \/ Subscribe(a)
           \/ Tick \/ UNCHANGED vars
  <2>1. subs' = subs /\ keys' = keys /\ calls' = calls /\ lost' = lost
    BY <1>3 DEF Charge, BuyPack, Subscribe, Tick, vars, aside
  <2>2. \A b \in Accounts : totals'[b].chained = totals[b].chained
    <3>1. CASE \E r \in Runs, cost \in Costs : Charge(r, cost)
      <4>. PICK r \in Runs, cost \in Costs : Charge(r, cost)
        BY <3>1
      <4>1. totals' = [totals EXCEPT ![runs[r].of].spent = @ + cost]
        BY DEF Charge
      <4>. QED  BY <4>1, <1>a DEF Totals
    <3>2. CASE \E a \in Accounts : BuyPack(a)
      <4>. PICK a \in Accounts : BuyPack(a)
        BY <3>2
      <4>1. totals' = [totals EXCEPT ![a].packs = @ + 1,
                                     ![a].credited = @ + PackTokens]
        BY DEF BuyPack
      <4>. QED  BY <4>1, <1>a DEF Totals
    <3>. QED  BY <1>3, <3>1, <3>2 DEF Subscribe, Tick, vars
  <2>3. ChainKeys'
    BY <1>d, <2>1, <2>2
  <2>4. \A b \in Accounts : \A row : ServedNow(b, row) => Served(b, row, totals', lost', calls')
    BY <2>1, <2>2, StaysServed
  <2>. QED  BY <1>a, <1>b, <1>c, <2>1, <2>3, <2>4
<1>. QED  BY <1>1, <1>2, <1>3 DEF Next

\* However requests interleave and wherever they are cut off, the tokens of a
\* mirrored period have gone to its account or are about to, unless they were
\* lost with the request or its second was another account's too.
THEOREM SubscribersGranted == Spec => []SubscriberGranted
<1>1. Init => MirrorInv
  <2>. SUFFICES ASSUME Init PROVE MirrorInv
    OBVIOUS
  <2>1. \A h \in Handlers : calls[h].at = "idle"
    BY IdleTyped DEF Init
  <2>. QED  BY <2>1 DEF Init, MirrorInv, ChainKeys, NoRow
<1>2. FundsInv /\ MirrorInv /\ [Next]_vars => MirrorInv'
  BY MirrorStep
<1>3. MirrorInv => SubscriberGranted
  BY DEF MirrorInv, ServedNow, Served, SubscriberGranted
<1>. QED  BY <1>1, <1>2, <1>3, FundsInit, FundsStep, PTL DEF Spec

-----------------------------------------------------------------------------
(* A week at a time.  An account whose requests are served one at a time    *)
(* has a request that holds the row the table holds, so its weeks follow    *)
(* each other, and between the expiry of one and the grant of the next it   *)
(* is worth nothing.                                                        *)

Busy(h, a) == calls[h].at # "idle" /\ calls[h].of = a

FreeKeys(kind, a) == {k \in keys : k.kind = kind /\ k.of = a /\ k.plan = "free"}

Unbought(a) ==
    totals[a].packs = 0 /\ totals[a].periods = 0 /\ totals[a].chained = {}

Alone(a) == \A g, h \in Handlers : Busy(g, a) /\ Busy(h, a) => g = h

\* The weeks of the account, and what the request that settles it holds.
WeeksFollow(a) ==
    /\ \A k, l \in FreeKeys("grant", a) : k.at < l.at => k.at + Week <= l.at
    /\ subs[a] = NoRow => FreeKeys("grant", a) = {} /\ FreeKeys("expiry", a) = {}
    /\ subs[a].plan = "free" =>
         /\ \A k \in FreeKeys("grant", a) :
              k.at = subs[a].renews \/ k.at + Week <= subs[a].renews
         /\ \A k \in FreeKeys("expiry", a) : k.at <= subs[a].renews
    /\ \A h \in Handlers : Busy(h, a) =>
         /\ calls[h].at = "begin" => subs[a] = NoRow
         /\ calls[h].at = "grant" =>
              /\ subs[a] = calls[h].row
              /\ \A k \in FreeKeys("expiry", a) : k.at < subs[a].renews
         /\ calls[h].at \in {"balance", "expire", "turn"} =>
              subs[a] = calls[h].row /\ due(calls[h].row, calls[h].now)

\* What an account that never bought is worth on the way from week to week.
WeekSpent(a) ==
    Unbought(a) =>
        /\ pools[a].purchased <= 0
        /\ Worth(pools[a]) <= FreeTokens
        /\ subs[a] = NoRow => Worth(pools[a]) <= 0
        /\ /\ subs[a].plan = "free"
           /\ \E k \in FreeKeys("expiry", a) : k.at = subs[a].renews
           => Worth(pools[a]) <= 0
        /\ \A h \in Handlers : Busy(h, a) =>
             /\ calls[h].at = "expire" => Worth(pools[a]) <= calls[h].take
             /\ calls[h].at = "grant" => Worth(pools[a]) <= 0
             /\ calls[h].at = "turn" /\ subs[a].plan = "free"
                  => Worth(pools[a]) <= 0

WeekInv ==
    /\ \A k \in keys : k.kind = "grant" => k.plan = "free" /\ k.of \in Accounts
    /\ \A a \in Accounts \ crossed : Alone(a) /\ WeeksFollow(a) /\ WeekSpent(a)

\* What the rows do to a pool that nothing was bought into: it is worth no more
\* than the balance shows of it, and an expiry of as much leaves nothing.
LEMMA Perishable ==
    ASSUME NEW p \in Pools, NEW n \in Nat
    PROVE  /\ p.purchased \in Int
           /\ grant(p, n).purchased = p.purchased
           /\ expire(p, n).purchased = p.purchased
           /\ debit(p, n).purchased <= p.purchased
           /\ p.purchased <= 0 => /\ Worth(p) <= Balance(p).granted
                                  /\ Worth(p) <= 0 => Balance(p).granted = 0
           /\ p.purchased <= 0 /\ Worth(p) <= n => Worth(expire(p, n)) <= 0
BY DEF Pools, grant, debit, expire, Worth, Balance

\* Places that say nothing of the account's weeks.
Harmless == {"mirror", "mirrored", "read", "authorize", "delivered"}

\* A step after which an account that never bought is worth no more.
NoRicher(a) ==
    Unbought(a)' => /\ Unbought(a)
                    /\ pools'[a].purchased <= pools[a].purchased
                    /\ Worth(pools'[a]) <= Worth(pools[a])

\* A step that grants and expires nothing of the account, and stores no free row.
LEMMA Quiet ==
    ASSUME TypeOK, TypeOK', NEW a \in Accounts, WeeksFollow(a), WeekSpent(a),
           FreeKeys("grant", a)' = FreeKeys("grant", a),
           FreeKeys("expiry", a)' = FreeKeys("expiry", a),
           NoRicher(a),
           \A g \in Handlers : Busy(g, a)' =>
              \/ calls'[g].at \in Harmless
              \/ subs'[a] = subs[a] /\ Busy(g, a) /\ calls'[g] = calls[g],
           subs'[a] = subs[a] \/ subs'[a].plan = "paid"
    PROVE  WeeksFollow(a)' /\ WeekSpent(a)'
<1>1. /\ Worth(pools[a]) \in Int /\ Worth(pools'[a]) \in Int
      /\ pools[a].purchased \in Int /\ pools'[a].purchased \in Int
  <2>1. pools[a] \in Pools /\ pools'[a] \in Pools
    BY DEF TypeOK
  <2>. QED  BY <2>1 DEF Pools, Worth
<1>2. subs'[a].plan = "paid" => subs'[a] # NoRow
  BY DEF NoRow
<1>3. WeeksFollow(a)'
  BY <1>2 DEF WeeksFollow, Harmless
<1>4. WeekSpent(a)'
  <2>. SUFFICES ASSUME Unbought(a)' PROVE WeekSpent(a)'
    BY DEF WeekSpent
  <2>1. FreeTokens \in Nat /\ \A h \in Handlers : calls[h].take \in Nat
    BY BillingAssumption DEF TypeOK, Calls
  <2>. QED  BY <1>1, <1>2, <2>1 DEF NoRicher, WeekSpent, Harmless
<1>. QED  BY <1>3, <1>4

\* A row of another kind, account or plan.
LEMMA OtherKeys ==
    ASSUME NEW kind, NEW a, NEW key, keys' = keys \/ keys' = keys \cup {key},
           key.kind # kind \/ key.of # a \/ key.plan # "free"
    PROVE  FreeKeys(kind, a)' = FreeKeys(kind, a)
BY DEF FreeKeys

\* What a step of a request cannot touch.
LEMMA StepOf ==
    ASSUME FundsInv, NEW h \in Handlers, Step(h) \/ Die(h)
    PROVE  /\ calls[h].at # "idle" /\ crossed' = crossed
           /\ \A g \in Handlers \ {h} : calls'[g] = calls[g]
           /\ calls'[h].of = calls[h].of
           /\ \A b \in Accounts \ {calls[h].of} :
                subs'[b] = subs[b] /\ pools'[b] = pools[b] /\ totals'[b] = totals[b]
<1>. DEFINE c == calls[h]
<1>a. /\ TypeOK /\ calls \in [Handlers -> Calls] /\ c \in Calls /\ c.of \in Accounts
      /\ Idle(c.of) \in Calls /\ Idle(c.of).of = c.of
  <2>1. TypeOK /\ calls \in [Handlers -> Calls] /\ c \in Calls /\ c.of \in Accounts
    BY DEF FundsInv, TypeOK, Calls
  <2>. QED  BY <2>1, IdleTyped DEF Idle
<1>1. calls[h].at # "idle" /\ crossed' = crossed
  BY DEF Step, Die, Mirror, MirrorGrant, ReadRow, Begin, ReadBalance, Expire, Turn,
         Grant, Authorize, Delivered, aside
<1>2. \A g \in Handlers \ {h} : calls'[g] = calls[g]
  BY <1>a DEF Step, Die, Mirror, MirrorGrant, ReadRow, Begin, ReadBalance,
              Expire, Turn, Grant, Authorize, Delivered, Settled, Moves
<1>3. \A b \in Accounts \ {c.of} :
        subs'[b] = subs[b] /\ pools'[b] = pools[b] /\ totals'[b] = totals[b]
  <2>1. /\ subs \in [Accounts -> Rows \cup {NoRow}]
        /\ pools \in [Accounts -> Pools] /\ totals \in [Accounts -> Totals]
    BY <1>a DEF TypeOK
  <2>2. \E row : subs' = subs \/ subs' = [subs EXCEPT ![c.of] = row]
    BY DEF Step, Die, Mirror, MirrorGrant, ReadRow, Begin, ReadBalance, Expire, Turn,
           Grant, Authorize, Delivered
  <2>3. \E p, t : /\ pools' = pools \/ pools' = [pools EXCEPT ![c.of] = p]
                  /\ totals' = totals \/ totals' = [totals EXCEPT ![c.of] = t]
    <3>1. CASE MirrorGrant(h)
      BY <3>1 DEF MirrorGrant, Credit
    <3>2. CASE Grant(h)
      BY <3>2 DEF Grant, Credit
    <3>3. CASE Expire(h)
      BY <3>3 DEF Expire
    <3>4. CASE ~MirrorGrant(h) /\ ~Grant(h) /\ ~Expire(h)
      BY <3>4 DEF Step, Die, Mirror, ReadRow, Begin, ReadBalance, Turn, Authorize,
                  Delivered
    <3>. QED  BY <3>1, <3>2, <3>3, <3>4
  <2>. QED  BY <2>1, <2>2, <2>3
<1>4. calls'[h].of = c.of
  <2>1. ASSUME Settled(h) PROVE calls'[h].of = c.of
    <3>1. \A x \in Calls : \A place, goal : [x EXCEPT !.at = place, !.goal = goal].of = x.of
      BY DEF Calls
    <3>. QED  BY <1>a, <2>1, <3>1 DEF Settled
  <2>2. ASSUME NEW place, Moves(h, place) PROVE calls'[h].of = c.of
    BY <1>a, <2>2 DEF Moves, Calls
  <2>3. ASSUME calls' = [calls EXCEPT ![h] = Idle(c.of)] PROVE calls'[h].of = c.of
    BY <1>a, <2>3
  <2>4. CASE ReadRow(h)
    BY <1>a, <2>1, <2>4 DEF ReadRow, Calls
  <2>5. CASE ReadBalance(h) \/ Expire(h)
    BY <1>a, <2>5 DEF ReadBalance, Expire, Calls
  <2>6. CASE Turn(h)
    BY <1>a, <2>1, <2>6 DEF Turn, Calls
  <2>7. CASE MirrorGrant(h) \/ Grant(h)
    BY <2>1, <2>7 DEF MirrorGrant, Grant
  <2>8. CASE Mirror(h) \/ Begin(h)
    BY <2>2, <2>8 DEF Mirror, Begin
  <2>9. CASE Authorize(h) \/ Delivered(h) \/ Die(h)
    <3>1. calls' = [calls EXCEPT ![h] = Idle(c.of)]
      BY <1>a, <2>9 DEF Authorize, Delivered, Die
    <3>. QED  BY <3>1, <2>3
  <2>. QED  BY <2>4, <2>5, <2>6, <2>7, <2>8, <2>9 DEF Step
<1>. QED  BY <1>1, <1>2, <1>3, <1>4

\* Where a request that settled its account goes.
LEMMA SettledAt ==
    ASSUME TypeOK, NEW h \in Handlers, Settled(h)
    PROVE  calls'[h].at \in {"idle", "authorize"}
<1>1. calls \in [Handlers -> Calls] /\ calls[h].of \in Accounts
  BY DEF TypeOK, Calls
<1>2. Idle(calls[h].of) \in Calls
  BY <1>1, IdleTyped
<1>3. \A x \in Calls : \A place, goal : [x EXCEPT !.at = place, !.goal = goal].at = place
  BY DEF Calls
<1>. QED  BY <1>1, <1>2, <1>3 DEF Settled

\* The account's own request takes a step of settle_period, alone.
LEMMA WeekSettling ==
    ASSUME FundsInv, FundsInv', NEW h \in Handlers, NEW a \in Accounts,
           a = calls[h].of, Alone(a), WeeksFollow(a), WeekSpent(a),
           Step(h) \/ Die(h)
    PROVE  WeeksFollow(a)' /\ WeekSpent(a)'
<1>. DEFINE c == calls[h]
            G == FreeKeys("grant", a)
            E == FreeKeys("expiry", a)
<1>a. /\ TypeOK /\ TypeOK' /\ InHand /\ c \in Calls /\ c.of = a
      /\ calls \in [Handlers -> Calls]
      /\ c.now \in Nat /\ c.take \in Nat
      /\ subs \in [Accounts -> Rows \cup {NoRow}]
      /\ pools \in [Accounts -> Pools] /\ pools[a] \in Pools
      /\ totals \in [Accounts -> Totals] /\ totals[a] \in Totals
  BY DEF FundsInv, TypeOK, Calls, Times
<1>b. \A g \in Handlers : Busy(g, a)' => g = h
  BY StepOf DEF Alone, Busy
<1>c. Busy(h, a)
  BY StepOf DEF Busy
<1>d. /\ FreeTokens \in Nat /\ PaidTokens \in Nat /\ Week \in Nat /\ Week > 0
      /\ Worth(pools[a]) \in Int /\ pools[a].purchased \in Int
      /\ \A k \in keys : k.at \in Nat
  <2>1. \A k \in keys : k.at \in Nat
    BY <1>a DEF TypeOK, Keys, Times
  <2>. QED  BY <1>a, <2>1, BillingAssumption, PoolRows, Perishable
<1>. HIDE DEF c, G, E
\* Nothing that matters happens.
<1>q. ASSUME G' = G, E' = E,
             calls'[h].at \in Harmless \cup {"idle"},
             Unbought(a)' => Unbought(a) /\ pools'[a] = pools[a],
             subs'[a] = subs[a] \/ subs'[a].plan = "paid"
      PROVE  WeeksFollow(a)' /\ WeekSpent(a)'
  <2>1. \A g \in Handlers : Busy(g, a)' => calls'[g].at \in Harmless
    BY <1>b, <1>q DEF Busy
  <2>2. NoRicher(a)
    BY <1>d, <1>q DEF NoRicher
  <2>. QED  BY <1>a, <1>q, <2>1, <2>2, Quiet DEF G, E
<1>k. keys' = keys => G' = G /\ E' = E
  BY DEF G, E, FreeKeys
<1>u. totals' = totals => (Unbought(a)' <=> Unbought(a))
  BY DEF Unbought
<1>1. CASE Mirror(h) \/ Delivered(h)
  <2>1. /\ keys' = keys /\ totals' = totals /\ pools' = pools
        /\ subs' = [subs EXCEPT ![a] = c.row] /\ c.row.plan = "paid"
    BY <1>1, <1>a DEF Mirror, Delivered, InHand, c
  <2>2. calls'[h].at \in {"mirrored", "idle"}
    <3>1. CASE Mirror(h)
      BY <3>1, <1>a DEF Mirror, Moves, Calls
    <3>2. CASE Delivered(h)
      <4>1. calls'[h] = Idle(c.of)
        BY <3>2, <1>a DEF Delivered, c
      <4>. QED  BY <4>1, <1>a, IdleTyped
    <3>. QED  BY <1>1, <3>1, <3>2
  <2>3. subs'[a].plan = "paid"
    BY <2>1, <1>a
  <2>. QED  BY <1>q, <1>k, <1>u, <2>1, <2>2, <2>3 DEF Harmless
<1>2. CASE MirrorGrant(h)
  <2>. DEFINE key == chain_key(c.row)
  <2>1. /\ subs' = subs /\ Settled(h)
        /\ Credit(a, key, PaidTokens, {c.row.started})
    BY <1>2, <1>a DEF MirrorGrant, c
  <2>2. key.kind = "chain"
    BY DEF chain_key
  <2>3. keys' = keys \/ keys' = keys \cup {key}
    BY <2>1 DEF Credit
  <2>. HIDE DEF key
  <2>4. G' = G /\ E' = E
    BY <2>2, <2>3, OtherKeys DEF G, E
  <2>5. Unbought(a)' => Unbought(a) /\ pools'[a] = pools[a]
    <3>1. CASE key \in keys
      BY <3>1, <2>1, <1>u DEF Credit
    <3>2. CASE key \notin keys
      <4>. DEFINE t == [totals[a] EXCEPT !.credited = totals[a].credited + PaidTokens,
                                !.chained = totals[a].chained \cup {c.row.started}]
      <4>1. totals' = [totals EXCEPT ![a] = t]
        BY <3>2, <2>1, <1>a DEF Credit
      <4>2. c.row.started \in t.chained
        BY <1>a DEF Totals
      <4>. HIDE DEF t
      <4>3. totals'[a].chained # {}
        BY <4>1, <4>2, <1>a
      <4>. QED  BY <4>3 DEF Unbought
    <3>. QED  BY <3>1, <3>2
  <2>. QED  BY <1>a, <1>q, <2>1, <2>4, <2>5, SettledAt DEF Harmless
<1>3. CASE ReadRow(h)
  <2>1. /\ subs' = subs /\ keys' = keys /\ pools' = pools /\ totals' = totals
        /\ \/ /\ subs[a] = NoRow
              /\ calls'[h] = [c EXCEPT !.at = "begin", !.now = 0,
                                       !.row = begin("free", c.now)]
           \/ Settled(h)
           \/ /\ due(subs[a], c.now)
              /\ calls'[h] = [c EXCEPT !.at = "balance", !.row = subs[a]]
    BY <1>3, <1>a DEF ReadRow, c
  <2>2. CASE Settled(h)
    BY <1>a, <1>q, <1>k, <1>u, <2>1, <2>2, SettledAt DEF Harmless
  <2>3. CASE ~Settled(h)
    <3>1. \/ calls'[h].at = "begin" /\ subs[a] = NoRow
          \/ /\ calls'[h].at = "balance" /\ calls'[h].row = subs[a]
             /\ due(subs[a], calls'[h].now)
      BY <2>1, <2>3, <1>a DEF Calls
    <3>2. G' = G /\ E' = E /\ (Unbought(a)' <=> Unbought(a))
      BY <2>1, <1>k, <1>u
    <3>3. WeeksFollow(a)'
      BY <1>b, <2>1, <3>1, <3>2 DEF WeeksFollow, G, E
    <3>4. WeekSpent(a)'
      BY <1>b, <2>1, <3>1, <3>2 DEF WeekSpent, G, E
    <3>. QED  BY <3>3, <3>4
  <2>. QED  BY <2>2, <2>3
<1>4. CASE Begin(h)
  <2>1. /\ c.at = "begin" /\ keys' = keys /\ pools' = pools /\ totals' = totals
        /\ subs' = [subs EXCEPT ![a] = c.row] /\ c.row \in Rows
        /\ calls'[h] = [c EXCEPT !.at = "grant"]
    BY <1>4, <1>a DEF Begin, Moves, InHand, c
  <2>2. subs'[a] = c.row /\ calls'[h].at = "grant" /\ calls'[h].row = c.row
    BY <2>1, <1>a DEF Calls
  <2>3. subs[a] = NoRow /\ G = {} /\ E = {}
    BY <1>c, <2>1 DEF WeeksFollow, c, G, E
  <2>4. c.row # NoRow
    BY <2>1 DEF Rows, Plans, NoRow
  <2>5. G' = {} /\ E' = {} /\ (Unbought(a)' <=> Unbought(a))
    BY <2>1, <2>3, <1>k, <1>u
  <2>6. WeeksFollow(a)'
    BY <1>b, <2>2, <2>4, <2>5 DEF WeeksFollow, G, E
  <2>7. WeekSpent(a)'
    BY <1>b, <1>d, <2>1, <2>2, <2>3, <2>4, <2>5 DEF WeekSpent, G, E
  <2>. QED  BY <2>6, <2>7
<1>5. CASE ReadBalance(h)
  <2>. DEFINE left == Balance(pools[a]).granted
              place == IF left > 0 THEN "expire" ELSE "turn"
  <2>1. /\ subs' = subs /\ keys' = keys /\ pools' = pools /\ totals' = totals
        /\ c.at = "balance"
        /\ calls'[h] = [c EXCEPT !.at = place, !.take = left]
    BY <1>5, <1>a DEF ReadBalance, c
  <2>2. /\ left \in Nat
        /\ pools[a].purchased <= 0 => Worth(pools[a]) <= left
    BY <1>a, <1>d, Shown, Perishable
  <2>3. place \in {"expire", "turn"} /\ (place = "turn" => left = 0)
    BY <2>2
  <2>. HIDE DEF left, place
  <2>4. /\ calls'[h].at = place /\ calls'[h].take = left /\ calls'[h].row = c.row
        /\ calls'[h].now = c.now
    BY <2>1, <1>a DEF Calls
  <2>5. G' = G /\ E' = E /\ (Unbought(a)' <=> Unbought(a))
    BY <2>1, <1>k, <1>u
  <2>6. WeeksFollow(a)'
    BY <1>b, <1>c, <2>1, <2>3, <2>4, <2>5 DEF WeeksFollow, G, E, c
  <2>7. WeekSpent(a)'
    BY <1>b, <2>1, <2>2, <2>3, <2>4, <2>5 DEF WeekSpent, G, E
  <2>. QED  BY <2>6, <2>7
<1>6. CASE Expire(h)
  <2>. DEFINE key == period_key("expiry", a, c.row)
  <2>1. /\ subs' = subs /\ totals' = totals /\ c.at = "expire" /\ c.row \in Rows
        /\ calls'[h] = [c EXCEPT !.at = "turn", !.take = 0]
        /\ IF key \in keys THEN keys' = keys /\ pools' = pools
           ELSE /\ keys' = keys \cup {key}
                /\ pools' = [pools EXCEPT ![a] = expire(pools[a], c.take)]
    BY <1>6, <1>a DEF Expire, InHand, c
  <2>2. /\ calls'[h].at = "turn" /\ calls'[h].row = c.row /\ calls'[h].now = c.now
    BY <2>1, <1>a DEF Calls
  <2>3. subs[a] = c.row /\ due(c.row, c.now)
    BY <1>c, <2>1 DEF WeeksFollow, c
  <2>4. /\ key.kind = "expiry" /\ key.at = subs[a].renews
        /\ c.row.plan = "free" => key.of = a /\ key.plan = "free"
        /\ c.row.plan # "free" => key.plan # "free"
    BY <2>3 DEF period_key
  <2>. HIDE DEF key
  <2>5. G' = G
    BY <2>1, <2>4, OtherKeys DEF G
  <2>6. \A k \in E' : k \in E \/ k.at = subs[a].renews
    BY <2>1, <2>4 DEF E, FreeKeys
  <2>7. WeeksFollow(a)'
    <3>1. subs[a].plan = "free" => \A k \in E' : k.at <= subs[a].renews
      <4>. SUFFICES ASSUME subs[a].plan = "free", NEW k \in E'
                    PROVE  k.at <= subs[a].renews
        OBVIOUS
      <4>1. subs[a].renews \in Nat
        BY <2>1, <2>3 DEF Rows, Times
      <4>. QED  BY <2>6, <4>1 DEF WeeksFollow, E
    <3>2. subs[a] # NoRow
      BY <2>1, <2>3 DEF Rows, Plans, NoRow
    <3>. QED  BY <1>b, <2>1, <2>2, <2>3, <2>5, <3>1, <3>2 DEF WeeksFollow, G, E
  <2>8. WeekSpent(a)'
    <3>. SUFFICES ASSUME Unbought(a) PROVE WeekSpent(a)'
      BY <2>1, <1>u DEF WeekSpent
    <3>1. /\ pools[a].purchased <= 0 /\ Worth(pools[a]) <= FreeTokens
          /\ Worth(pools[a]) <= c.take
      BY <1>c, <2>1 DEF WeekSpent, c
    <3>2. /\ pools'[a].purchased <= 0
          /\ Worth(pools'[a]) <= FreeTokens
          /\ subs[a].plan = "free" => Worth(pools'[a]) <= 0
      <4>1. CASE key \in keys
        <5>1. subs[a].plan = "free" => key \in E
          BY <4>1, <2>3, <2>4 DEF E, FreeKeys
        <5>. QED  BY <2>1, <2>4, <3>1, <4>1, <5>1 DEF WeekSpent, E
      <4>2. CASE key \notin keys
        <5>1. pools'[a] = expire(pools[a], c.take)
          BY <2>1, <4>2, <1>a
        <5>2. /\ expire(pools[a], c.take).purchased = pools[a].purchased
              /\ Worth(expire(pools[a], c.take)) <= 0
              /\ Worth(expire(pools[a], c.take)) \in Int
          BY <1>a, <3>1, PoolRows, Perishable
        <5>. QED  BY <1>d, <3>1, <5>1, <5>2
      <4>. QED  BY <4>1, <4>2
    <3>3. subs[a] # NoRow
      BY <2>1, <2>3 DEF Rows, Plans, NoRow
    <3>. QED  BY <1>b, <2>1, <2>2, <3>2, <3>3 DEF WeekSpent
  <2>. QED  BY <2>7, <2>8
<1>7. CASE Turn(h)
  <2>1. /\ c.at = "turn" /\ keys' = keys /\ pools' = pools /\ totals' = totals
        /\ c.row \in Rows
    BY <1>7, <1>a DEF Turn, InHand, c
  <2>2. subs[a] = c.row /\ due(c.row, c.now)
    BY <1>c, <2>1 DEF WeeksFollow, c
  <2>3. CASE c.row.plan = "free"
    <3>. DEFINE row == begin("free", c.now)
    <3>1. /\ subs' = [subs EXCEPT ![a] = row]
          /\ calls'[h] = [c EXCEPT !.at = "grant", !.row = row, !.now = 0]
      BY <2>3, <1>7, <1>a DEF Turn, c
    <3>2. row.renews = c.now + Week /\ row.plan = "free" /\ row # NoRow
      BY DEF begin, period_of, NoRow
    <3>. HIDE DEF row
    <3>3. subs'[a] = row /\ calls'[h].at = "grant" /\ calls'[h].row = row
      BY <3>1, <1>a DEF Calls
    <3>4. subs[a].plan = "free" /\ subs[a].renews \in Nat /\ c.now >= subs[a].renews
      BY <2>1, <2>2, <2>3 DEF due, Rows, Times
    <3>5. G' = G /\ E' = E /\ (Unbought(a)' <=> Unbought(a))
      BY <2>1, <1>k, <1>u
    <3>6. (\A k \in G : k.at + Week <= row.renews) /\ (\A k \in E : k.at < row.renews)
      <4>1. (\A k \in G : k.at \in Nat) /\ (\A k \in E : k.at \in Nat)
        BY <1>d DEF G, E, FreeKeys
      <4>2. \A k \in G : k.at = subs[a].renews \/ k.at + Week <= subs[a].renews
        BY <3>4 DEF WeeksFollow, G
      <4>3. \A k \in E : k.at <= subs[a].renews
        BY <3>4 DEF WeeksFollow, E
      <4>. QED  BY <1>a, <1>d, <3>2, <3>4, <4>1, <4>2, <4>3
    <3>6a. \A k \in E : k.at \in Nat
      BY <1>d DEF E, FreeKeys
    <3>6b. row.renews \in Nat
      BY <1>a, <1>d, <3>2
    <3>7. WeeksFollow(a)'
      BY <1>b, <3>2, <3>3, <3>5, <3>6, <3>6a, <3>6b DEF WeeksFollow, G, E
    <3>8. WeekSpent(a)'
      <4>1. Unbought(a) => Worth(pools[a]) <= 0
        BY <1>c, <2>1, <3>4 DEF WeekSpent, c
      <4>2. ~\E k \in E : k.at = row.renews
        BY <3>6, <3>6a, <3>6b
      <4>. QED  BY <1>b, <1>d, <2>1, <3>2, <3>3, <3>5, <4>1, <4>2 DEF WeekSpent, G, E
    <3>. QED  BY <3>7, <3>8
  <2>4. CASE c.row.plan # "free"
    <3>1. subs' = [subs EXCEPT ![a] = ended(c.row)] /\ Settled(h)
      BY <2>4, <1>7, <1>a DEF Turn, c
    <3>2. ended(c.row).plan = "paid"
      BY <2>1, <2>4 DEF ended, Rows, Plans
    <3>3. subs'[a].plan = "paid"
      BY <3>1, <3>2, <1>a
    <3>. QED  BY <1>a, <1>q, <1>k, <1>u, <2>1, <3>1, <3>3, SettledAt DEF Harmless
  <2>. QED  BY <2>3, <2>4
<1>8. CASE Grant(h)
  <2>. DEFINE key == period_key("grant", a, c.row)
  <2>1. /\ subs' = subs /\ Settled(h) /\ c.at = "grant" /\ c.row \in Rows
        /\ c.row.plan = "free"
        /\ Credit(a, key, FreeTokens, {})
    BY <1>8, <1>a DEF Grant, InHand, c
  <2>2. /\ subs[a] = c.row /\ \A k \in E : k.at < subs[a].renews
    BY <1>c, <2>1 DEF WeeksFollow, c, E
  <2>3. /\ key.kind = "grant" /\ key.at = subs[a].renews
        /\ key.of = a /\ key.plan = "free"
    BY <2>1, <2>2 DEF period_key
  <2>. HIDE DEF key
  <2>4. calls'[h].at \in {"idle", "authorize"}
    BY <1>a, <2>1, SettledAt
  <2>5. CASE key \in keys
    <3>1. keys' = keys /\ pools' = pools /\ totals' = totals
      BY <2>1, <2>5 DEF Credit
    <3>. QED  BY <1>q, <1>k, <1>u, <2>1, <2>4, <3>1 DEF Harmless
  <2>6. CASE key \notin keys
    <3>1. /\ keys' = keys \cup {key}
          /\ pools' = [pools EXCEPT ![a] = grant(pools[a], FreeTokens)]
      BY <2>1, <2>6, <1>a DEF Credit
    <3>2. E' = E
      BY <2>3, <3>1, OtherKeys DEF E
    <3>3. G' = G \cup {key}
      BY <2>3, <3>1 DEF G, FreeKeys
    <3>4. subs[a].renews \in Nat /\ subs[a].plan = "free" /\ subs[a] # NoRow
      BY <2>1, <2>2 DEF Rows, Times, Plans, NoRow
    <3>5. \A k \in G : /\ k.at \in Nat
                       /\ k.at = subs[a].renews \/ k.at + Week <= subs[a].renews
      BY <1>d, <3>4 DEF WeeksFollow, G, FreeKeys
    <3>6. WeeksFollow(a)'
      <4>1. \A k, l \in G' : k.at < l.at => k.at + Week <= l.at
        <5>1. \A k, l \in G : k.at < l.at => k.at + Week <= l.at
          BY DEF WeeksFollow, G
        <5>. QED  BY <1>d, <2>3, <3>3, <3>4, <3>5, <5>1
      <4>2. \A k \in G' : k.at = subs[a].renews \/ k.at + Week <= subs[a].renews
        BY <2>3, <3>3, <3>5
      <4>3. \A k \in E' : k.at <= subs[a].renews
        BY <3>2, <3>4 DEF WeeksFollow, E
      <4>. QED  BY <1>b, <2>1, <2>4, <3>4, <4>1, <4>2, <4>3 DEF WeeksFollow, G, E
    <3>7. WeekSpent(a)'
      <4>. SUFFICES ASSUME Unbought(a)' PROVE WeekSpent(a)'
        BY DEF WeekSpent
      <4>1. Unbought(a)
        <5>. DEFINE t == [totals[a] EXCEPT
                            !.credited = totals[a].credited + FreeTokens,
                            !.chained = totals[a].chained \cup {}]
        <5>1. totals' = [totals EXCEPT ![a] = t]
          BY <2>1, <2>6, <1>a DEF Credit
        <5>2. /\ t.chained = totals[a].chained /\ t.packs = totals[a].packs
              /\ t.periods = totals[a].periods
          BY <1>a DEF Totals
        <5>. HIDE DEF t
        <5>3. totals'[a] = t
          BY <5>1, <1>a
        <5>. QED  BY <5>2, <5>3 DEF Unbought
      <4>2. pools[a].purchased <= 0 /\ Worth(pools[a]) <= 0
        BY <1>c, <2>1, <4>1 DEF WeekSpent, c
      <4>3. /\ pools'[a].purchased <= 0
            /\ Worth(pools'[a]) <= FreeTokens
        <5>1. pools'[a] = grant(pools[a], FreeTokens)
          BY <3>1, <1>a
        <5>2. /\ grant(pools[a], FreeTokens).purchased = pools[a].purchased
              /\ Worth(grant(pools[a], FreeTokens)) = Worth(pools[a]) + FreeTokens
          BY <1>a, <1>d, PoolRows, Perishable
        <5>. QED  BY <1>d, <4>2, <5>1, <5>2
      <4>4. ~\E k \in E' : k.at = subs[a].renews
        <5>1. \A k \in E : k.at \in Nat
          BY <1>d DEF E, FreeKeys
        <5>. QED  BY <2>2, <3>2, <3>4, <5>1
      <4>. QED  BY <1>b, <2>1, <2>4, <3>4, <4>3, <4>4 DEF WeekSpent, E
    <3>. QED  BY <3>6, <3>7
  <2>. QED  BY <2>5, <2>6
<1>9. CASE Authorize(h) \/ Die(h)
  <2>1. /\ keys' = keys /\ totals' = totals /\ pools' = pools /\ subs' = subs
        /\ calls'[h] = Idle(c.of)
    BY <1>9, <1>a DEF Authorize, Die, c
  <2>2. calls'[h].at = "idle"
    BY <2>1, <1>a, IdleTyped
  <2>. QED  BY <1>q, <1>k, <1>u, <2>1, <2>2
<1>. QED  BY <1>1, <1>2, <1>3, <1>4, <1>5, <1>6, <1>7, <1>8, <1>9 DEF Step

\* A request that begins is the account's only one, or the account is crossed.
LEMMA AloneStep ==
    ASSUME FundsInv, NEW a \in Accounts, a \notin crossed', Alone(a), [Next]_vars
    PROVE  Alone(a)'
<1>a. calls \in [Handlers -> Calls] /\ TypeOK
  BY DEF FundsInv, TypeOK
<1>1. ASSUME NEW h \in Handlers, NEW b \in Accounts,
             \/ \E goal \in Runs \cup {Reading} : Settle(h, b, goal)
             \/ Deliver(h, b)
      PROVE  Alone(a)'
  <2>1. /\ \A g \in Handlers \ {h} : calls'[g] = calls[g]
        /\ Meet(h, b)
    BY <1>1, <1>a DEF Settle, Deliver
  <2>2. calls'[h].of = b
    <3>1. Idle(b) \in Calls /\ Idle(b).of = b
      BY IdleTyped DEF Idle
    <3>2. \A x, v : [Idle(b) EXCEPT !.at = x, !.row = v].of = b
      BY DEF Idle
    <3>3. CASE Deliver(h, b)
      BY <3>3, <3>2, <1>a DEF Deliver
    <3>4. CASE \E goal \in Runs \cup {Reading} : Settle(h, b, goal)
      BY <3>4, <1>a, SettleBegins
    <3>. QED  BY <1>1, <3>3, <3>4
  <2>3. CASE b = a
    BY <2>1, <2>2, <2>3 DEF Meet, Alone, Busy
  <2>4. CASE b # a
    BY <2>1, <2>2, <2>4 DEF Alone, Busy
  <2>. QED  BY <2>3, <2>4
<1>2. ASSUME NEW h \in Handlers, Step(h) \/ Die(h)
      PROVE  Alone(a)'
  <2>1. \A g \in Handlers : Busy(g, a)' => Busy(g, a)
    BY <1>2, StepOf DEF Busy
  <2>. QED  BY <2>1 DEF Alone
<1>3. CASE \/ \E r \in Runs, cost \in Costs : Charge(r, cost)
           \/ \E b \in Accounts : BuyPack(b) \/ Subscribe(b)
           \/ Tick \/ UNCHANGED vars
  <2>1. calls' = calls
    BY <1>3 DEF Charge, BuyPack, Subscribe, Tick, vars
  <2>. QED  BY <2>1 DEF Alone, Busy
<1>. QED  BY <1>1, <1>2, <1>3 DEF Next

\* Every step keeps the weeks of an account whose requests do not cross.
LEMMA WeekStep ==
    ASSUME FundsInv, FundsInv', WeekInv, [Next]_vars
    PROVE  WeekInv'
<1>a. /\ TypeOK /\ TypeOK' /\ InHand /\ calls \in [Handlers -> Calls]
      /\ totals \in [Accounts -> Totals] /\ pools \in [Accounts -> Pools]
      /\ subs \in [Accounts -> Rows \cup {NoRow}]
      /\ \A h \in Handlers : calls[h].of \in Accounts
      /\ \A b \in Accounts : Worth(pools[b]) \in Int /\ pools[b].purchased \in Int
  <2>1. \A p \in Pools : Worth(p) \in Int /\ p.purchased \in Int
    BY PoolRows, Perishable, 0 \in Nat
  <2>. QED  BY <2>1 DEF FundsInv, TypeOK, Calls
<1>b. crossed \subseteq crossed'
  BY DEF Next, Step, Settle, Deliver, Meet, Die, Mirror, MirrorGrant, ReadRow,
         Begin, ReadBalance, Expire, Turn, Grant, Authorize, Delivered, Charge,
         BuyPack, Subscribe, Tick, aside, vars
\* The references a request writes, by its account.
<1>c. ASSUME NEW h \in Handlers, Step(h) \/ Die(h)
      PROVE  \E key \in Keys :
               /\ keys' = keys \/ keys' = keys \cup {key}
               /\ key.kind = "grant" => key.plan = "free"
               /\ key.plan = "free" => key.of = calls[h].of
  <2>. DEFINE c == calls[h]
  <2>1. CASE MirrorGrant(h)
    <3>1. c.row \in Rows /\ c.row.plan = "paid"
      BY <2>1, <1>a DEF MirrorGrant, InHand
    <3>2. chain_key(c.row) \in Keys /\ chain_key(c.row).plan = "paid"
          /\ chain_key(c.row).kind = "chain"
      BY <3>1 DEF chain_key, Keys, Rows
    <3>. QED  BY <2>1, <3>2 DEF MirrorGrant, Credit
  <2>2. CASE Grant(h)
    <3>1. c.row \in Rows /\ c.row.plan = "free"
      BY <2>2, <1>a DEF Grant, InHand
    <3>2. /\ period_key("grant", c.of, c.row) \in Keys
          /\ period_key("grant", c.of, c.row).plan = "free"
          /\ period_key("grant", c.of, c.row).of = c.of
      BY <3>1, <1>a DEF period_key, Keys, Rows
    <3>. QED  BY <2>2, <3>2 DEF Grant, Credit
  <2>3. CASE Expire(h)
    <3>1. c.row \in Rows
      BY <2>3, <1>a DEF Expire, InHand
    <3>2. /\ period_key("expiry", c.of, c.row) \in Keys
          /\ period_key("expiry", c.of, c.row).kind = "expiry"
          /\ period_key("expiry", c.of, c.row).plan = "free"
               => period_key("expiry", c.of, c.row).of = c.of
      BY <3>1, <1>a DEF period_key, Keys, Rows
    <3>. QED  BY <2>3, <3>2 DEF Expire
  <2>4. CASE ~MirrorGrant(h) /\ ~Grant(h) /\ ~Expire(h)
    <3>1. keys' = keys
      BY <1>c, <2>4 DEF Step, Die, Mirror, ReadRow, Begin, ReadBalance, Turn,
                        Authorize, Delivered
    <3>2. [kind |-> "chain", of |-> c.of, plan |-> "paid", at |-> 0] \in Keys
      BY <1>a DEF Keys, Plans, Times
    <3>. QED  BY <3>1, <3>2
  <2>. QED  BY <2>1, <2>2, <2>3, <2>4
<1>1. \A k \in keys' : k.kind = "grant" => k.plan = "free" /\ k.of \in Accounts
  <2>1. CASE keys' = keys
    BY <2>1 DEF WeekInv
  <2>2. CASE \E h \in Handlers : Step(h) \/ Die(h)
    <3>. PICK h \in Handlers : Step(h) \/ Die(h)
      BY <2>2
    <3>1. PICK key \in Keys : /\ keys' = keys \/ keys' = keys \cup {key}
                              /\ key.kind = "grant" => key.plan = "free"
                              /\ key.plan = "free" => key.of = calls[h].of
      BY <1>c
    <3>. QED  BY <1>a, <3>1 DEF WeekInv
  <2>3. CASE keys' # keys
    BY <2>2, <2>3 DEF Next, Settle, Deliver, Charge, BuyPack, Subscribe, Tick, vars
  <2>. QED  BY <2>1, <2>3
<1>2. ASSUME NEW a \in Accounts, a \notin crossed'
      PROVE  Alone(a)' /\ WeeksFollow(a)' /\ WeekSpent(a)'
  <2>a. Alone(a) /\ WeeksFollow(a) /\ WeekSpent(a)
    BY <1>2, <1>b DEF WeekInv
  <2>b. Alone(a)'
    BY <1>2, <2>a, AloneStep
  <2>k. keys' = keys => /\ FreeKeys("grant", a)' = FreeKeys("grant", a)
                        /\ FreeKeys("expiry", a)' = FreeKeys("expiry", a)
    BY DEF FreeKeys
  <2>1. ASSUME NEW h \in Handlers, NEW b \in Accounts,
               \/ \E goal \in Runs \cup {Reading} : Settle(h, b, goal)
               \/ Deliver(h, b)
        PROVE  WeeksFollow(a)' /\ WeekSpent(a)'
    <3>1. /\ subs' = subs /\ keys' = keys
          /\ \A g \in Handlers \ {h} : calls'[g] = calls[g]
          /\ calls'[h].at \in Harmless
      <4>1. CASE Deliver(h, b)
        <5>1. /\ calls'[h] = [Idle(b) EXCEPT !.at = "delivered",
                                             !.row = begin("paid", now)]
              /\ subs' = subs /\ keys' = keys
              /\ \A g \in Handlers \ {h} : calls'[g] = calls[g]
          BY <4>1, <1>a DEF Deliver
        <5>2. calls'[h].at = "delivered"
          BY <5>1 DEF Idle
        <5>. QED  BY <5>1, <5>2 DEF Harmless
      <4>2. CASE \E goal \in Runs \cup {Reading} : Settle(h, b, goal)
        <5>1. subs' = subs /\ keys' = keys
          BY <4>2 DEF Settle
        <5>. QED  BY <4>2, <5>1, <1>a, SettleBegins DEF Harmless
      <4>. QED  BY <2>1, <4>1, <4>2
    <3>2. Unbought(a)' => Unbought(a) /\ pools'[a] = pools[a]
      <4>1. CASE Deliver(h, b) /\ b = a
        <5>. DEFINE t == [totals[a] EXCEPT !.periods = totals[a].periods + 1,
                                    !.credited = totals[a].credited + PaidTokens]
        <5>1. totals'[a] = t
          BY <4>1, <1>a DEF Deliver
        <5>2. t.periods = totals[a].periods + 1 /\ totals[a].periods \in Nat
          BY <1>a, BillingAssumption DEF Totals
        <5>. HIDE DEF t
        <5>. QED  BY <5>1, <5>2 DEF Unbought
      <4>2. CASE Deliver(h, b) /\ b # a
        <5>1. totals'[a] = totals[a] /\ pools'[a] = pools[a]
          BY <4>2, <1>a DEF Deliver
        <5>. QED  BY <5>1 DEF Unbought
      <4>3. CASE \E goal \in Runs \cup {Reading} : Settle(h, b, goal)
        <5>1. totals' = totals /\ pools' = pools
          BY <4>3 DEF Settle
        <5>. QED  BY <5>1 DEF Unbought
      <4>. QED  BY <2>1, <4>1, <4>2, <4>3
    <3>3. \A g \in Handlers : Busy(g, a)' =>
            \/ calls'[g].at \in Harmless
            \/ subs'[a] = subs[a] /\ Busy(g, a) /\ calls'[g] = calls[g]
      BY <3>1 DEF Busy
    <3>4. NoRicher(a)
      BY <1>a, <3>2 DEF NoRicher
    <3>. QED  BY <1>a, <2>a, <2>k, <3>1, <3>3, <3>4, Quiet
  <2>2. ASSUME NEW h \in Handlers, Step(h) \/ Die(h)
        PROVE  WeeksFollow(a)' /\ WeekSpent(a)'
    <3>1. CASE calls[h].of = a
      BY <2>2, <2>a, <3>1, WeekSettling
    <3>2. CASE calls[h].of # a
      <4>1. /\ subs'[a] = subs[a] /\ pools'[a] = pools[a] /\ totals'[a] = totals[a]
            /\ calls'[h].of # a
            /\ \A g \in Handlers \ {h} : calls'[g] = calls[g]
        BY <2>2, <3>2, StepOf
      <4>2. \A g \in Handlers : Busy(g, a)' =>
              \/ calls'[g].at \in Harmless
              \/ subs'[a] = subs[a] /\ Busy(g, a) /\ calls'[g] = calls[g]
        BY <4>1 DEF Busy
      <4>3. PICK key \in Keys : /\ keys' = keys \/ keys' = keys \cup {key}
                                /\ key.plan = "free" => key.of = calls[h].of
        BY <2>2, <1>c
      <4>4. /\ FreeKeys("grant", a)' = FreeKeys("grant", a)
            /\ FreeKeys("expiry", a)' = FreeKeys("expiry", a)
        BY <3>2, <4>3, OtherKeys
      <4>5. Unbought(a)' => Unbought(a)
        BY <4>1 DEF Unbought
      <4>6. NoRicher(a)
        BY <1>a, <4>1, <4>5 DEF NoRicher
      <4>. QED  BY <1>a, <2>a, <4>1, <4>2, <4>4, <4>6, Quiet
    <3>. QED  BY <3>1, <3>2
  <2>3. CASE \/ \E r \in Runs, cost \in Costs : Charge(r, cost)
             \/ \E b \in Accounts : BuyPack(b) \/ Subscribe(b)
             \/ Tick \/ UNCHANGED vars
    <3>1. subs' = subs /\ keys' = keys /\ calls' = calls
      BY <2>3 DEF Charge, BuyPack, Subscribe, Tick, vars
    <3>2. Unbought(a)' => /\ Unbought(a)
                          /\ pools'[a].purchased <= pools[a].purchased
                          /\ Worth(pools'[a]) <= Worth(pools[a])
      <4>1. ASSUME NEW r \in Runs, NEW cost \in Costs, Charge(r, cost)
            PROVE  /\ Unbought(a)' => Unbought(a)
                   /\ pools'[a].purchased <= pools[a].purchased
                   /\ Worth(pools'[a]) <= Worth(pools[a])
        <5>1. totals' = [totals EXCEPT ![runs[r].of].spent = @ + cost]
          BY <4>1 DEF Charge
        <5>2. Unbought(a)' => Unbought(a)
          BY <1>a, <5>1 DEF Totals, Unbought
        <5>3. pools'[a] = pools[a] \/ pools'[a] = debit(pools[a], cost)
          BY <4>1, <1>a DEF Charge
        <5>4. /\ debit(pools[a], cost).purchased <= pools[a].purchased
              /\ Worth(debit(pools[a], cost)) <= Worth(pools[a])
          <6>1. cost \in Nat /\ pools[a] \in Pools
            BY <1>a, BillingAssumption
          <6>2. Worth(debit(pools[a], cost)) = Worth(pools[a]) - cost
            BY <6>1, PoolRows
          <6>3. debit(pools[a], cost).purchased <= pools[a].purchased
            BY <6>1, Perishable
          <6>. QED  BY <1>a, <6>1, <6>2, <6>3
        <5>. QED  BY <1>a, <5>2, <5>3, <5>4
      <4>2. ASSUME NEW b \in Accounts, BuyPack(b)
            PROVE  Unbought(a)' => Unbought(a) /\ pools'[a] = pools[a]
        <5>1. CASE b = a
          <6>. DEFINE t == [totals[a] EXCEPT !.packs = totals[a].packs + 1,
                                      !.credited = totals[a].credited + PackTokens]
          <6>1. totals'[a] = t
            BY <4>2, <5>1, <1>a DEF BuyPack
          <6>2. t.packs = totals[a].packs + 1 /\ totals[a].packs \in Nat
            BY <1>a, BillingAssumption DEF Totals
          <6>. HIDE DEF t
          <6>. QED  BY <6>1, <6>2 DEF Unbought
        <5>2. CASE b # a
          BY <4>2, <5>2, <1>a DEF BuyPack, Unbought
        <5>. QED  BY <5>1, <5>2
      <4>3. ASSUME pools' = pools, totals' = totals
            PROVE  Unbought(a)' => Unbought(a) /\ pools'[a] = pools[a]
        BY <4>3 DEF Unbought
      <4>4. pools'[a] = pools[a] => /\ pools'[a].purchased <= pools[a].purchased
                                    /\ Worth(pools'[a]) <= Worth(pools[a])
        BY <1>a
      <4>5. CASE \E r \in Runs, cost \in Costs : Charge(r, cost)
        BY <4>1, <4>5
      <4>6. CASE \E b \in Accounts : BuyPack(b)
        BY <4>2, <4>4, <4>6
      <4>7. CASE (\E b \in Accounts : Subscribe(b)) \/ Tick \/ UNCHANGED vars
        <5>1. pools' = pools /\ totals' = totals
          BY <4>7 DEF Subscribe, Tick, vars
        <5>. QED  BY <4>3, <4>4, <5>1
      <4>. QED  BY <2>3, <4>5, <4>6, <4>7
    <3>3. \A g \in Handlers : Busy(g, a)' =>
            \/ calls'[g].at \in Harmless
            \/ subs'[a] = subs[a] /\ Busy(g, a) /\ calls'[g] = calls[g]
      BY <3>1 DEF Busy
    <3>4. NoRicher(a)
      BY <3>2 DEF NoRicher
    <3>5. /\ FreeKeys("grant", a)' = FreeKeys("grant", a)
          /\ FreeKeys("expiry", a)' = FreeKeys("expiry", a)
          /\ subs'[a] = subs[a] /\ TypeOK /\ TypeOK'
      BY <1>a, <2>k, <3>1
    <3>. QED  BY <2>a, <2>b, <3>3, <3>4, <3>5, Quiet
  <2>4. WeeksFollow(a)' /\ WeekSpent(a)'
    BY <2>1, <2>2, <2>3 DEF Next
  <2>. QED  BY <2>b, <2>4
<1>. QED  BY <1>1, <1>2 DEF WeekInv

\* For every account whose requests are served one at a time, wherever they are
\* cut off: its free weeks are granted a week apart, and one that never bought
\* never has more than one week's grant to spend.
THEOREM Weekly == Spec => []AWeekAtATime
<1>1. Init => WeekInv
  <2>. SUFFICES ASSUME Init PROVE WeekInv
    OBVIOUS
  <2>1. \A h \in Handlers : calls[h].at = "idle"
    BY IdleTyped DEF Init
  <2>2. \A a \in Accounts : Alone(a)
    BY <2>1 DEF Alone, Busy
  <2>3. keys = {} /\ \A a \in Accounts : subs[a] = NoRow
    BY DEF Init
  <2>4. \A a \in Accounts : WeeksFollow(a)
    BY <2>1, <2>3 DEF WeeksFollow, FreeKeys, Busy, NoRow
  <2>5. \A a \in Accounts : pools[a].purchased = 0 /\ Worth(pools[a]) = 0
    BY DEF Init, NoTokens, Worth
  <2>6. \A a \in Accounts : WeekSpent(a)
    BY <2>1, <2>3, <2>5, BillingAssumption DEF WeekSpent, Busy
  <2>. QED  BY <2>2, <2>3, <2>4, <2>6 DEF WeekInv
<1>2. FundsInv /\ FundsInv' /\ WeekInv /\ [Next]_vars => WeekInv'
  BY WeekStep
<1>3. FundsInv /\ WeekInv => AWeekAtATime
  <2>. SUFFICES ASSUME FundsInv, WeekInv PROVE AWeekAtATime
    OBVIOUS
  <2>1. OneGrantPerWeek
    <3>. SUFFICES ASSUME NEW k \in keys, NEW l \in keys,
                         k.kind = "grant", l.kind = "grant",
                         k.of = l.of, k.of \notin crossed, k.at < l.at
                  PROVE  k.at + Week <= l.at
      BY DEF OneGrantPerWeek
    <3>1. k.plan = "free" /\ l.plan = "free"
      BY DEF WeekInv
    <3>2. k.of \in Accounts
      BY <3>1 DEF WeekInv
    <3>3. k \in FreeKeys("grant", k.of) /\ l \in FreeKeys("grant", k.of)
      BY <3>1 DEF FreeKeys
    <3>. QED  BY <3>2, <3>3 DEF WeekInv, WeeksFollow
  <2>2. NoRollOver
    <3>. SUFFICES ASSUME NEW a \in Accounts, a \notin crossed, Unbought(a)
                  PROVE  Balance(pools[a]).granted <= FreeTokens
      BY DEF NoRollOver, Unbought
    <3>1. pools[a] \in Pools /\ FreeTokens \in Nat
      BY BillingAssumption DEF FundsInv, TypeOK
    <3>2. pools[a].purchased <= 0 /\ Worth(pools[a]) <= FreeTokens
      BY DEF WeekInv, WeekSpent
    <3>. QED  BY <3>1, <3>2 DEF Pools, Worth, Balance
  <2>. QED  BY <2>1, <2>2 DEF AWeekAtATime
<1>. QED  BY <1>1, <1>2, <1>3, FundsInit, FundsStep, PTL DEF Spec

=============================================================================
