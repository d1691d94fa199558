---------------------------- MODULE Subscriptions ----------------------------
(***************************************************************************)
(* The Soroban contract of contracts/subscriptions/src/lib.rs: a catalogue  *)
(* of plans, the current period of every subscriber, and the takings.  Each *)
(* invocation is one atomic step on the ledger; one that panics reverts and *)
(* is no step at all, so a panic is the negation of a guard.  An invocation *)
(* is authorised by a set of signers, of which the contract requires some.  *)
(*                                                                          *)
(* A plan's tokens, the events published and the token's own address carry  *)
(* no control here and are left out.  Sums are checked (overflow-checks is  *)
(* on in the release profile), so an overflow would be a panic as well.     *)
(***************************************************************************)
EXTENDS Integers, FiniteSets, SequencesExt

CONSTANTS Addresses, PlanIds,
          Prices, Terms,     \* what set_plan may be given, good and bad
          Funds,             \* what every address starts with
          MaxTime,           \* bound on ledger time
          MaxPlanSets,       \* bound on calls of set_plan
          MaxPeriods         \* bound on the periods an address pays for

ASSUME SubscriptionsAssumption ==
    /\ Prices \subseteq Int /\ Terms \subseteq Nat
    /\ Funds \in Nat /\ MaxTime \in Nat /\ MaxPlanSets \in Nat /\ MaxPeriods \in Nat

VARIABLES now,       \* env.ledger().timestamp()
          admin,     \* Key::Admin
          plans,     \* Key::Plan(id)
          ids,       \* Key::Plans
          subs,      \* Key::Sub(address)
          wallets,   \* the token's balance of every address
          held,      \* the token's balance of the contract
          sets,      \* how many times set_plan was called
          signers,   \* history: who signed the last invocation
          books      \* history, per address: price paid, and what it was paid for

vars == <<now, admin, plans, ids, subs, wallets, held, sets, signers, books>>

Nobody == "nobody"
NoPlan == [price |-> 0, period |-> 0, active |-> FALSE]
NoSub  == [plan |-> "none", started |-> 0, expires |-> 0, periods |-> 0]

Plan  == [price : Prices, period : Terms, active : BOOLEAN]
Subs  == [plan : PlanIds, started : Nat, expires : Nat, periods : Nat \ {0}]
\* paid: moved by the token.  bought: prices of the periods recorded.  term: their
\* length, since the current period started.
Books == [paid : Nat, bought : Nat, term : Nat]

TypeOK ==
    /\ now \in Nat /\ held \in Nat /\ sets \in Nat
    /\ admin \in Addresses \cup {Nobody}
    /\ plans \in [PlanIds -> Plan \cup {NoPlan}]
    /\ ids \in Seq(PlanIds)
    /\ subs \in [Addresses -> Subs \cup {NoSub}]
    /\ wallets \in [Addresses -> Nat]
    /\ signers \in SUBSET Addresses
    /\ books \in [Addresses -> Books]

Init ==
    /\ now = 0 /\ held = 0 /\ sets = 0 /\ signers = {}
    /\ admin = Nobody
    /\ plans = [i \in PlanIds |-> NoPlan] /\ ids = <<>>
    /\ subs = [a \in Addresses |-> NoSub]
    /\ wallets = [a \in Addresses |-> Funds]
    /\ books = [a \in Addresses |-> [paid |-> 0, bought |-> 0, term |-> 0]]

-----------------------------------------------------------------------------
\* subscribe's first case: the same plan, still running.
running(s, i) == s.plan = i /\ s.expires > now

(* Mutants. *)

\* initialise, without `if has(Key::Admin)`
InitialisesAgain(who, a) ==
    /\ admin' = a /\ ids' = <<>> /\ signers' = who
    /\ UNCHANGED <<now, plans, subs, wallets, held, sets, books>>

\* subscribe, renewing from now
RenewsFromNow(s, i, term) ==
    IF running(s, i)
    THEN [s EXCEPT !.expires = now + term, !.periods = @ + 1]
    ELSE [plan |-> i, started |-> now, expires |-> now + term, periods |-> s.periods + 1]

\* subscribe, transferring only what the subscriber has
PaysWhatItCan(a, price) ==
    LET part == IF wallets[a] < price THEN wallets[a] ELSE price
    IN  /\ wallets' = [wallets EXCEPT ![a] = @ - part]
        /\ held' = held + part

-----------------------------------------------------------------------------
(* Invocations. *)

\* initialise: once, and nobody has to sign.
Initialise(who, a) ==
    /\ admin = Nobody
    /\ admin' = a /\ ids' = <<>> /\ signers' = who
    /\ UNCHANGED <<now, plans, subs, wallets, held, sets, books>>

\* The catalogue with i in it.
listed(i) == IF i \in ToSet(ids) THEN ids ELSE Append(ids, i)

SetPlan(who, i, p) ==
    /\ admin \in who
    /\ p.price > 0 /\ p.period # 0
    /\ sets < MaxPlanSets /\ sets' = sets + 1
    /\ plans' = [plans EXCEPT ![i] = p]
    /\ ids' = listed(i)
    /\ signers' = who
    /\ UNCHANGED <<now, admin, subs, wallets, held, books>>

\* What subscribe records: a period added to the end of the one that runs, or one from
\* now if it lapsed, was of another plan, or never was.
renewed(s, i, term) ==
    IF running(s, i)
    THEN [s EXCEPT !.expires = @ + term, !.periods = @ + 1]
    ELSE [plan |-> i, started |-> now, expires |-> now + term, periods |-> s.periods + 1]

\* token.transfer from the subscriber to the contract: fails without the funds.
pays(a, price) ==
    /\ wallets[a] >= price
    /\ wallets' = [wallets EXCEPT ![a] = @ - price]
    /\ held' = held + price

Subscribe(who, a, i) ==
    LET p == plans[i]
        s == renewed(subs[a], i, p.period)
        b == books[a]
    IN  /\ a \in who
        /\ p # NoPlan
        /\ p.active
        /\ subs[a].periods < MaxPeriods
        /\ pays(a, p.price)
        /\ subs' = [subs EXCEPT ![a] = s]
        /\ signers' = who
        /\ books' = [books EXCEPT ![a] =
               [paid   |-> b.paid + (wallets[a] - wallets'[a]),
                bought |-> b.bought + p.price,
                term   |-> IF running(subs[a], i) THEN b.term + p.period ELSE p.period]]
        /\ UNCHANGED <<now, admin, plans, ids, sets>>

\* withdraw's guard on the amount
withdrawable(amount) == amount > 0 /\ amount <= held

Withdraw(who, to, amount) ==
    /\ admin \in who
    /\ withdrawable(amount)
    /\ held' = held - amount
    /\ wallets' = [wallets EXCEPT ![to] = @ + amount]
    /\ signers' = who
    /\ UNCHANGED <<now, admin, plans, ids, subs, sets, books>>

SetAdmin(who, a) ==
    /\ admin \in who
    /\ a \in who
    /\ admin' = a
    /\ signers' = who
    /\ UNCHANGED <<now, plans, ids, subs, wallets, held, sets, books>>

\* A ledger closes.
Tick ==
    /\ now < MaxTime
    /\ now' = now + 1 /\ signers' = {}
    /\ UNCHANGED <<admin, plans, ids, subs, wallets, held, sets, books>>

Amounts == 0..(Funds * Cardinality(Addresses) + 1)

Next ==
    \/ \E who \in SUBSET Addresses :
         \/ \E a \in Addresses : Initialise(who, a) \/ SetAdmin(who, a)
         \/ \E i \in PlanIds, p \in Plan : SetPlan(who, i, p)
         \/ \E a \in Addresses, i \in PlanIds : Subscribe(who, a, i)
         \/ \E a \in Addresses, amount \in Amounts : Withdraw(who, a, amount)
    \/ Tick

Spec == Init /\ [][Next]_vars

-----------------------------------------------------------------------------
(* Properties. *)

\* "either both happened or neither did" (lib.rs:10): what a subscriber's key moved is what
\* the periods recorded for it cost, and the contract never holds less than nothing.
PaidAsBought == \A a \in Addresses : books[a].paid = books[a].bought

\* "renewing a day early must not cost somebody the rest of the week they already paid
\* for" (lib.rs:194): the running period is as long as what was bought of it, whatever
\* became of the plan's own period in between.
TimeAsPaid ==
    \A a \in Addresses : subs[a].expires = subs[a].started + books[a].term

\* Both: the money and the time of every subscriber move together.
AsPaid == PaidAsBought /\ TimeAsPaid

\* The period of an account, as the gateway reads it, moves as the gateway takes for
\* granted: one period per payment, added to the one that runs under its old name or begun
\* now under a new one, and by nothing else anybody calls.
P == INSTANCE Periods WITH Accounts <- Addresses, Plans <- PlanIds, period <- subs

AsRelied == P!Spec

\* "what they paid for is what they keep until it expires" (lib.rs:169): no call of
\* anybody's takes time off a subscriber, but for its own switch to another plan.
PaidTimeKept ==
    [][\A a \in Addresses :
          subs'[a].expires < subs[a].expires
          => a \in signers' /\ subs'[a].plan # subs[a].plan]_vars

\* "Nothing here can take money from an account that has not signed for it" (lib.rs:20),
\* only the admin takes the takings, and an admin is replaced only by signing for it along
\* with the one who takes over.
Signed ==
    [][/\ \A a \in Addresses : wallets'[a] < wallets[a] => a \in signers'
       /\ held' < held => admin \in signers'
       /\ plans' # plans => admin \in signers'
       /\ admin # Nobody /\ admin' # admin => {admin, admin'} \subseteq signers']_vars

=============================================================================
