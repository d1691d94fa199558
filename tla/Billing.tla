------------------------------- MODULE Billing -------------------------------
(***************************************************************************)
(* Periods, grants, authorisations and charges: settle_period, authorize,  *)
(* charge and the plan half of _deliver in                                 *)
(* src/gateway/application/billing_service.py, over the subscriptions and  *)
(* ledger tables of sqlite_store.py and the subscriptions contract.        *)
(*                                                                         *)
(* Every call to the store runs in a worker thread, so a coroutine is      *)
(* suspended at each of them and one step here is one store call with the  *)
(* code up to the next.  The call itself is atomic: one lock, one          *)
(* statement, one commit.  Reading the contract is a blocking call and     *)
(* suspends nobody.  What a coroutine read in one step may be stale in the *)
(* next.                                                                   *)
(*                                                                         *)
(* Time is counted in seconds of the chain's ledger.  The gateway's own    *)
(* clock has microseconds, so a key made from it never collides between    *)
(* accounts, and here it carries the account to say so; a key made from    *)
(* the contract's seconds does not.                                        *)
(***************************************************************************)
EXTENDS Ledger, FiniteSets

CONSTANTS
    Accounts,
    Handlers,        \* requests that settle or credit an account concurrently
    Runs,            \* runs that may be authorised
    Week, Month,     \* periods of the free plan and of the paid one
    FreeTokens, PaidTokens, PackTokens,
    Reserve,         \* _reserve: what a run must find to start
    Costs,           \* what a run may turn out to cost
    MaxTime,         \* bound on the clock
    MaxPurchases,    \* bound on the packs and paid periods an account buys
    MaxLost          \* bound on the grants lost: no request is cut off after them

ASSUME BillingAssumption ==
    /\ Week \in Nat \ {0} /\ Month \in Nat \ {0}
    /\ FreeTokens \in Nat \ {0} /\ PaidTokens \in Nat \ {0}
    /\ PackTokens \in Nat \ {0} /\ Reserve \in Nat \ {0}
    /\ Costs \subseteq Nat \ {0}
    /\ MaxTime \in Nat /\ MaxPurchases \in Nat /\ MaxLost \in Nat

VARIABLES
    market,   \* where the deployment sells plans; settings, they never change
    now,      \* the clock
    subs,     \* subscriptions table, a row per account
    pools,    \* ledger table: what each account's rows replay to
    keys,     \* ledger table: the references in its UNIQUE index
    chain,    \* the contract's Subscription of each account
    calls,    \* what each handler's coroutine holds
    runs,     \* what became of each run, and who pays for it
    totals,   \* history: what each account was credited, spent and bought
    crossed,  \* history: accounts two of whose requests were served at once
    lost      \* history: references of grants whose request was cut off

vars == <<market, now, subs, pools, keys, chain, calls, runs, totals, crossed, lost>>

\* What most steps leave alone.
aside == <<market, crossed, lost>>

\* A subscriptions contract is configured.
ChainAvailable == market = "contract"

Plans == {"free", "paid"}
Times == Nat

\* The idempotency references: what the row is for, whose clock made it, and
\* the period it belongs to.
Anyone == "anyone"
Keys == [kind : {"grant", "expiry", "chain"}, of : Accounts \cup {Anyone},
         plan : Plans, at : Times]

Rows  == [plan : Plans, started : Times, renews : Times, active : BOOLEAN]
NoRow == [plan |-> "none"]

OnChain == [started : Times, expires : Times, periods : 0..MaxPurchases]

\* goal is the run the account is settled for, Reading when there is none.
Reading == "reading"
Places  == {"idle", "mirror", "mirrored", "read", "begin", "balance", "expire",
            "turn", "grant", "authorize", "delivered"}
Calls   == [at : Places, of : Accounts, now : Times, goal : Runs \cup {Reading},
            row : Rows \cup {NoRow}, take : Nat]

\* chained: the on-chain periods that were credited.
Totals  == [credited : Nat, spent : Nat, packs : 0..MaxPurchases,
            periods : 0..MaxPurchases, chained : SUBSET Times]

TypeOK ==
    /\ market \in {"invoices", "contract"}
    /\ now \in 0..MaxTime
    /\ subs \in [Accounts -> Rows \cup {NoRow}]
    /\ pools \in [Accounts -> Pools]
    /\ keys \subseteq Keys
    /\ chain \in [Accounts -> OnChain]
    /\ calls \in [Handlers -> Calls]
    /\ runs \in [Runs -> [at : {"new", "asking", "refused", "started", "charged"},
                          of : Accounts]]
    /\ totals \in [Accounts -> Totals]
    /\ crossed \subseteq Accounts /\ lost \subseteq Keys

Idle(a) == [at |-> "idle", of |-> a, now |-> 0, goal |-> Reading, row |-> NoRow,
            take |-> 0]

Init ==
    /\ market \in {"invoices", "contract"}
    /\ now = 0
    /\ subs = [a \in Accounts |-> NoRow]
    /\ pools = [a \in Accounts |-> NoTokens]
    /\ keys = {}
    /\ chain = [a \in Accounts |-> [started |-> 0, expires |-> 0, periods |-> 0]]
    /\ \E a \in Accounts : /\ calls = [h \in Handlers |-> Idle(a)]
                           /\ runs = [r \in Runs |-> [at |-> "new", of |-> a]]
    /\ totals = [a \in Accounts |-> [credited |-> 0, spent |-> 0, packs |-> 0,
                                     periods |-> 0, chained |-> {}]]
    /\ crossed = {} /\ lost = {}

-----------------------------------------------------------------------------
(* Subscription and the references of its period.                          *)

period_of(plan) == IF plan = "free" THEN Week ELSE Month

\* Subscription.begin, and renewed, which differs in nothing that is kept.
begin(plan, t) == [plan |-> plan, started |-> t, renews |-> t + period_of(plan),
                   active |-> TRUE]

\* A bug: a period is due from its last day on.
DueTooEarly(row, t) == row.active /\ t + 1 >= row.renews

due(row, t) == row.active /\ t >= row.renews

ended(row) == [row EXCEPT !.active = FALSE]

\* Subscription.period_key.  A mirrored row has the contract's seconds.
period_key(kind, a, row) ==
    [kind |-> kind, plan |-> row.plan, at |-> row.renews,
     of |-> IF row.plan = "paid" /\ ChainAvailable THEN Anyone ELSE a]

\* A bug: the key of a paid period names its plan only.
ChainKeyOfPlan(row) ==
    [kind |-> "chain", plan |-> row.plan, at |-> 0, of |-> Anyone]

\* OnChainSubscription.period_key.
chain_key(row) ==
    [kind |-> "chain", plan |-> row.plan, at |-> row.started, of |-> Anyone]

\* Where settle_period returns: to authorize, or to the caller.
Settled(h) ==
    calls' = [calls EXCEPT ![h] = [Idle(@.of) EXCEPT
                !.at = IF calls[h].goal = Reading THEN "idle" ELSE "authorize",
                !.goal = calls[h].goal]]

Moves(h, place) == calls' = [calls EXCEPT ![h].at = place]

\* A request on the account begins, while another is being served or not.
Meet(h, a) ==
    /\ crossed' = IF \E g \in Handlers \ {h} : calls[g].of = a /\ calls[g].at # "idle"
                  THEN crossed \cup {a} ELSE crossed
    /\ UNCHANGED <<market, lost>>

\* BillingStore.append of a credit: a second row with its reference is refused.
\* chained is the on-chain period it is for, if any.
Credit(a, key, tokens, chained) ==
    IF key \in keys THEN UNCHANGED <<keys, pools, totals>>
    ELSE /\ keys' = keys \cup {key}
         /\ pools' = [pools EXCEPT ![a] = grant(@, tokens)]
         /\ totals' = [totals EXCEPT ![a].credited = @ + tokens,
                                     ![a].chained = @ \cup chained]

-----------------------------------------------------------------------------
(* Plausible bugs of the actions below, used to test the properties.       *)

\* A period that is over is renewed without expiring what is left of it.
BalanceWithoutExpiry(h) ==
    /\ calls[h].at = "balance"
    /\ Moves(h, "turn")
    /\ UNCHANGED <<now, subs, pools, keys, chain, runs, totals, aside>>

\* A free period renews itself and its grant is left to the next read.
TurnWithoutGrant(h) ==
    LET c == calls[h]
    IN  /\ c.at = "turn"
        /\ subs' = [subs EXCEPT ![c.of] = IF c.row.plan = "free"
                                          THEN begin("free", c.now)
                                          ELSE ended(c.row)]
        /\ Settled(h)
        /\ UNCHANGED <<now, pools, keys, chain, runs, totals, aside>>

-----------------------------------------------------------------------------
(* settle_period                                                           *)

\* SubscriptionContract.subscription: what it says of the account is still running.
subscribed(a) == ChainAvailable /\ now < chain[a].expires

\* The clock is read and the contract asked.  Its live subscription is
\* mirrored; otherwise, and when it cannot be read, the stored row decides.
Settle(h, a, goal) ==
    LET live == subscribed(a)
        c    == [Idle(a) EXCEPT !.goal = goal]
    IN  /\ calls[h].at = "idle"
        /\ goal # Reading => runs[goal].at = "new"
        /\ runs' = IF goal = Reading THEN runs
                   ELSE [runs EXCEPT ![goal] = [at |-> "asking", of |-> a]]
        /\ \/ /\ live
              /\ calls' = [calls EXCEPT ![h] =
                             [c EXCEPT !.at = "mirror",
                                       !.row = [plan |-> "paid", active |-> TRUE,
                                                started |-> chain[a].started,
                                                renews |-> chain[a].expires]]]
           \/ calls' = [calls EXCEPT ![h] = [c EXCEPT !.at = "read", !.now = now]]
        /\ Meet(h, a)
        /\ UNCHANGED <<now, subs, pools, keys, chain, totals>>

\* _mirror_chain: the row, then the grant.
Mirror(h) ==
    /\ calls[h].at = "mirror"
    /\ subs' = [subs EXCEPT ![calls[h].of] = calls[h].row]
    /\ Moves(h, "mirrored")
    /\ UNCHANGED <<now, pools, keys, chain, runs, totals, aside>>

MirrorGrant(h) ==
    /\ calls[h].at = "mirrored"
    /\ Credit(calls[h].of, chain_key(calls[h].row), PaidTokens,
              {calls[h].row.started})
    /\ Settled(h)
    /\ UNCHANGED <<now, subs, chain, runs, aside>>

\* The stored row: none, running or ended, or due.
ReadRow(h) ==
    LET c   == calls[h]
        row == subs[c.of]
    IN  /\ c.at = "read"
        /\ \/ /\ row = NoRow
              /\ calls' = [calls EXCEPT ![h].at = "begin", ![h].now = 0,
                                        ![h].row = begin("free", c.now)]
           \/ row # NoRow /\ ~due(row, c.now) /\ Settled(h)
           \/ /\ row # NoRow /\ due(row, c.now)
              /\ calls' = [calls EXCEPT ![h].at = "balance", ![h].row = row]
        /\ UNCHANGED <<now, subs, pools, keys, chain, runs, totals, aside>>

\* _begin_free, up to its grant.
Begin(h) ==
    /\ calls[h].at = "begin"
    /\ subs' = [subs EXCEPT ![calls[h].of] = calls[h].row]
    /\ Moves(h, "grant")
    /\ UNCHANGED <<now, pools, keys, chain, runs, totals, aside>>

\* _expire_grant reads the balance, and then takes what it read away.
ReadBalance(h) ==
    LET left == Balance(pools[calls[h].of]).granted
    IN  /\ calls[h].at = "balance"
        /\ calls' = [calls EXCEPT ![h].at = IF left > 0 THEN "expire" ELSE "turn",
                                  ![h].take = left]
        /\ UNCHANGED <<now, subs, pools, keys, chain, runs, totals, aside>>

Expire(h) ==
    LET c   == calls[h]
        key == period_key("expiry", c.of, c.row)
    IN  /\ c.at = "expire"
        /\ IF key \in keys THEN UNCHANGED <<keys, pools>>
           ELSE /\ keys' = keys \cup {key}
                /\ pools' = [pools EXCEPT ![c.of] = expire(@, c.take)]
        /\ calls' = [calls EXCEPT ![h].at = "turn", ![h].take = 0]
        /\ UNCHANGED <<now, subs, chain, runs, totals, aside>>

\* A free period renews itself, any other ends.
Turn(h) ==
    LET c   == calls[h]
        row == IF c.row.plan = "free" THEN begin("free", c.now) ELSE ended(c.row)
    IN  /\ c.at = "turn"
        /\ subs' = [subs EXCEPT ![c.of] = row]
        /\ IF c.row.plan = "free"
           THEN calls' = [calls EXCEPT ![h].at = "grant", ![h].row = row, ![h].now = 0]
           ELSE Settled(h)
        /\ UNCHANGED <<now, pools, keys, chain, runs, totals, aside>>

\* _grant
Grant(h) ==
    LET c == calls[h]
    IN  /\ c.at = "grant"
        /\ Credit(c.of, period_key("grant", c.of, c.row), FreeTokens, {})
        /\ Settled(h)
        /\ UNCHANGED <<now, subs, chain, runs, aside>>

-----------------------------------------------------------------------------
(* Runs, purchases, and the world around                                   *)

MayBuy(a) == totals[a].packs + totals[a].periods + chain[a].periods < MaxPurchases

\* authorize, once the period is settled.
Authorize(h) ==
    LET c == calls[h]
    IN  /\ c.at = "authorize"
        /\ runs' = [runs EXCEPT ![c.goal].at =
                      IF can_afford(pools[c.of], Reserve) THEN "started"
                                                          ELSE "refused"]
        /\ calls' = [calls EXCEPT ![h] = Idle(c.of)]
        /\ UNCHANGED <<now, subs, pools, keys, chain, totals, aside>>

\* charge: never refused, once per run.  A run may also end uncharged.
Charge(r, cost) ==
    LET a == runs[r].of
    IN  /\ runs[r].at = "started"
        /\ runs' = [runs EXCEPT ![r].at = "charged"]
        /\ pools' = [pools EXCEPT ![a] = debit(@, cost)]
        /\ totals' = [totals EXCEPT ![a].spent = @ + cost]
        /\ UNCHANGED <<now, subs, keys, chain, calls, aside>>

\* _deliver of a pack's invoice.
BuyPack(a) ==
    /\ MayBuy(a)
    /\ pools' = [pools EXCEPT ![a] = purchase(@, PackTokens)]
    /\ totals' = [totals EXCEPT ![a].packs = @ + 1,
                                ![a].credited = @ + PackTokens]
    /\ UNCHANGED <<now, subs, keys, chain, calls, runs, aside>>

\* _deliver of a plan's invoice, sold only where there is no contract: the
\* grant, keyed on the invoice, then the row, which is the same whatever the
\* row read in between says.
Deliver(h, a) ==
    /\ ~ChainAvailable /\ MayBuy(a)
    /\ calls[h].at = "idle"
    /\ pools' = [pools EXCEPT ![a] = grant(@, PaidTokens)]
    /\ totals' = [totals EXCEPT ![a].periods = @ + 1,
                                ![a].credited = @ + PaidTokens]
    /\ calls' = [calls EXCEPT ![h] = [Idle(a) EXCEPT !.at = "delivered",
                                                     !.row = begin("paid", now)]]
    /\ Meet(h, a)
    /\ UNCHANGED <<now, subs, keys, chain, runs>>

Delivered(h) ==
    /\ calls[h].at = "delivered"
    /\ subs' = [subs EXCEPT ![calls[h].of] = calls[h].row]
    /\ calls' = [calls EXCEPT ![h] = Idle(@.of)]
    /\ UNCHANGED <<now, pools, keys, chain, runs, totals, aside>>

\* The contract's subscribe: a period added to the end of a running one, or
\* a new one from now.
Subscribe(a) ==
    LET s == chain[a]
    IN  /\ ChainAvailable /\ MayBuy(a)
        /\ chain' = [chain EXCEPT ![a] =
             IF s.expires > now
             THEN [s EXCEPT !.expires = @ + Month, !.periods = @ + 1]
             ELSE [started |-> now, expires |-> now + Month,
                   periods |-> s.periods + 1]]
        /\ UNCHANGED <<now, subs, pools, keys, calls, runs, totals, aside>>

Tick ==
    /\ now < MaxTime
    /\ now' = now + 1
    /\ UNCHANGED <<subs, pools, keys, chain, calls, runs, totals, aside>>

\* The grant a request was about to write for the row it has stored.
unwritten(c) ==
    CASE c.at = "grant"    -> {period_key("grant", c.of, c.row)}
      [] c.at = "mirrored" -> {chain_key(c.row)}
      [] OTHER             -> {}

\* The request is cancelled, or the process stops: what the store has stays.
Die(h) ==
    /\ calls[h].at # "idle" /\ Cardinality(lost) < MaxLost
    /\ calls' = [calls EXCEPT ![h] = Idle(@.of)]
    /\ lost' = lost \cup unwritten(calls[h])
    /\ UNCHANGED <<now, subs, pools, keys, chain, runs, totals, market, crossed>>

Step(h) ==
    \/ Mirror(h) \/ MirrorGrant(h) \/ ReadRow(h) \/ Begin(h) \/ ReadBalance(h)
    \/ Expire(h) \/ Turn(h) \/ Grant(h) \/ Authorize(h) \/ Delivered(h)

Next ==
    \/ \E h \in Handlers, a \in Accounts :
         (\E goal \in Runs \cup {Reading} : Settle(h, a, goal)) \/ Deliver(h, a)
    \/ \E h \in Handlers : Step(h) \/ Die(h)
    \/ \E r \in Runs, cost \in Costs : Charge(r, cost)
    \/ \E a \in Accounts : BuyPack(a) \/ Subscribe(a)
    \/ Tick

Spec == Init /\ [][Next]_vars

-----------------------------------------------------------------------------
(* Properties.                                                             *)

\* "clamping it away on its own would FORGIVE the overspend": whatever the
\* order of grants, expiries, purchases and overshooting runs, an account
\* that has something left never had more than it was credited.
OverspendNotForgiven ==
    \A a \in Accounts :
        LET left == Worth(Balance(pools[a]))
        IN  left > 0 => left + totals[a].spent <= totals[a].credited

\* "it has to be idempotent. It is: both the grant and the expiry are keyed on
\* the period they belong to": an account is granted one free week at a time,
\* wherever its requests are cut off.  Two first reads at once are the
\* exception: each begins a week of its own.
OneGrantPerWeek ==
    \A k, l \in keys :
        /\ k.kind = "grant" /\ l.kind = "grant"
        /\ k.of = l.of /\ k.of \notin crossed /\ k.at < l.at
        => k.at + Week <= l.at

\* "Granted tokens never roll over": an account that never bought anything, with
\* its requests one at a time, has never more than one week's grant to spend,
\* whatever debts its runs have left in between.
NoRollOver ==
    \A a \in Accounts \ crossed :
        totals[a].packs = 0 /\ totals[a].periods = 0 /\ totals[a].chained = {}
          => Balance(pools[a]).granted <= FreeTokens

\* "one decision": a free week is granted once, and its tokens go when it ends, whatever
\* requests settle the period, at once or cut off (settle_period).
AWeekAtATime == OneGrantPerWeek /\ NoRollOver

\* "This period's tokens. Keyed on the period, so it lands exactly once": the
\* free period an account is on has been granted, or is about to be, unless
\* the request was cut off between the row and the grant: nobody makes up for
\* it.
PeriodGranted ==
    \A a \in Accounts :
        subs[a].plan = "free" =>
            \/ period_key("grant", a, subs[a]) \in keys \cup lost
            \/ \E h \in Handlers : /\ calls[h].at = "grant" /\ calls[h].of = a
                                   /\ calls[h].row = subs[a]

\* "credits exactly once per period paid for": the tokens of a mirrored period
\* have gone to the account that paid for it, or are about to, unless the
\* request was cut off, or another account's period began in the same second:
\* the reference does not name the account.
SubscriberGranted ==
    \A a \in Accounts :
        ChainAvailable /\ subs[a].plan = "paid" =>
            \/ subs[a].started \in totals[a].chained
            \/ chain_key(subs[a]) \in lost
            \/ \E b \in Accounts \ {a} : subs[a].started \in totals[b].chained
            \/ \E h \in Handlers : calls[h].at = "mirrored" /\ calls[h].of = a

=============================================================================
