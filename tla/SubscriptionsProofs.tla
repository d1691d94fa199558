------------------------ MODULE SubscriptionsProofs ------------------------
(***************************************************************************)
(* Proofs about Subscriptions for every set of addresses, plans, prices and *)
(* terms, and without the bounds of its runs.                               *)
(***************************************************************************)
EXTENDS Subscriptions, TLAPS

\* Every plan on record passed set_plan's check.
Sold == \A i \in PlanIds : plans[i] # NoPlan => plans[i].price > 0 /\ plans[i].period > 0

\* The inductive invariant.  The books balance only because no plan has a price that is
\* not positive: with one, a transfer could take a wallet or the takings below zero.
PaidInv == TypeOK /\ Sold /\ PaidAsBought /\ TimeAsPaid

\* What renewed and pays come to, for an address that can pay for the plan.
LEMMA Subscribed ==
    ASSUME PaidInv,
           NEW who \in SUBSET Addresses, NEW a \in Addresses, NEW i \in PlanIds,
           Subscribe(who, a, i)
    PROVE  PaidInv'
<1> DEFINE p == plans[i]
           s == renewed(subs[a], i, p.period)
<1>1. p \in Plan /\ p.price \in Nat \ {0} /\ p.period \in Nat \ {0}
  <2>1. p # NoPlan
    BY DEF Subscribe
  <2>2. plans \in [PlanIds -> Plan \cup {NoPlan}] /\ p.price > 0 /\ p.period > 0
    BY <2>1 DEF PaidInv, TypeOK, Sold
  <2>3. p \in Plan
    BY <2>1, <2>2
  <2>4. p.price \in Prices /\ p.period \in Terms
    BY <2>3 DEF Plan
  <2> HIDE DEF p
  <2>5. Prices \subseteq Int /\ Terms \subseteq Int
    BY SubscriptionsAssumption
  <2>6. p.price \in Int /\ p.period \in Int
    BY <2>4, <2>5
  <2>7. QED
    BY <2>2, <2>3, <2>6
<1>2. subs[a] \in Subs \cup {NoSub} /\ now \in Nat
  BY DEF PaidInv, TypeOK
<1>3. s \in Subs
  <2>1. CASE running(subs[a], i)
    <3>1. subs[a] \in Subs
      BY <1>2, <2>1 DEF running, NoSub
    <3>2. s = [subs[a] EXCEPT !.expires = @ + p.period, !.periods = @ + 1]
      BY <2>1 DEF renewed
    <3>3. subs[a].expires + p.period \in Nat /\ subs[a].periods + 1 \in Nat \ {0}
      BY <1>1, <3>1 DEF Subs
    <3>4. QED
      BY <3>1, <3>2, <3>3 DEF Subs
  <2>2. CASE ~running(subs[a], i)
    BY <1>1, <1>2, <2>2 DEF renewed, Subs, NoSub
  <2>3. QED
    BY <2>1, <2>2
<1>4. /\ wallets' = [wallets EXCEPT ![a] = @ - p.price]
      /\ wallets[a] >= p.price
      /\ held' = held + p.price
      /\ subs' = [subs EXCEPT ![a] = s]
      /\ UNCHANGED <<now, admin, plans, ids, sets>>
      /\ signers' = who
  BY DEF Subscribe, pays
<1>5. wallets \in [Addresses -> Nat] /\ held \in Nat
  BY DEF PaidInv, TypeOK
<1>6. wallets' \in [Addresses -> Nat] /\ held' \in Nat /\ wallets[a] - wallets'[a] = p.price
  BY <1>1, <1>4, <1>5
<1> DEFINE b == books[a]
           t == IF running(subs[a], i) THEN b.term + p.period ELSE p.period
<1>7. b \in Books
  BY DEF PaidInv, TypeOK
<1>8. books' = [books EXCEPT ![a] = [paid |-> b.paid + p.price, bought |-> b.bought + p.price,
                                     term |-> t]]
  BY <1>6 DEF Subscribe
<1>9. t \in Nat
  BY <1>1, <1>7 DEF Books
<1>10. [paid |-> b.paid + p.price, bought |-> b.bought + p.price, term |-> t] \in Books
  <2>1. b.paid + p.price \in Nat /\ b.bought + p.price \in Nat
    BY <1>1, <1>7 DEF Books
  <2>2. QED
    BY <1>9, <2>1 DEF Books
<1>11. TypeOK'
  <2>1. subs' \in [Addresses -> Subs \cup {NoSub}]
    BY <1>3, <1>4 DEF PaidInv, TypeOK
  <2>2. books' \in [Addresses -> Books]
    BY <1>8, <1>10 DEF PaidInv, TypeOK
  <2>3. QED
    BY <1>4, <1>6, <2>1, <2>2 DEF PaidInv, TypeOK
<1>12. Sold'
  BY <1>4 DEF PaidInv, Sold
<1>13. PaidAsBought'
  BY <1>8 DEF PaidInv, PaidAsBought, TypeOK
<1>14. TimeAsPaid'
  <2>1. s.expires = s.started + t
    BY <1>1, <1>2, <1>7 DEF PaidInv, TimeAsPaid, renewed, Subs, NoSub, Books
  <2>2. \A c \in Addresses \ {a} : subs'[c] = subs[c] /\ books'[c] = books[c]
    BY <1>4, <1>8 DEF PaidInv, TypeOK
  <2>3. subs'[a] = s /\ books'[a].term = t
    BY <1>4, <1>8 DEF PaidInv, TypeOK
  <2>4. QED
    BY <2>1, <2>2, <2>3 DEF PaidInv, TimeAsPaid
<1>15. QED
  BY <1>11, <1>12, <1>13, <1>14 DEF PaidInv

\* The other invocations leave periods and books alone.
LEMMA Others ==
    ASSUME PaidInv, NEW who \in SUBSET Addresses, NEW a \in Addresses,
           \/ Initialise(who, a) \/ SetAdmin(who, a)
           \/ \E i \in PlanIds, p \in Plan : SetPlan(who, i, p)
           \/ \E amount \in Amounts : Withdraw(who, a, amount)
    PROVE  PaidInv'
<1>1. CASE Initialise(who, a)
  BY <1>1 DEF PaidInv, TypeOK, Sold, PaidAsBought, TimeAsPaid, Initialise
<1>2. CASE SetAdmin(who, a)
  BY <1>2 DEF PaidInv, TypeOK, Sold, PaidAsBought, TimeAsPaid, SetAdmin
<1>3. ASSUME NEW i \in PlanIds, NEW p \in Plan, SetPlan(who, i, p)
      PROVE  PaidInv'
  <2>1. p.price > 0 /\ p.period > 0
    <3>1. p.period \in Nat
      BY SubscriptionsAssumption DEF Plan
    <3>2. QED
      BY <1>3, <3>1 DEF SetPlan
  <2>2. Sold'
    BY <1>3, <2>1 DEF PaidInv, TypeOK, Sold, SetPlan
  <2>3. ids' \in Seq(PlanIds)
    BY <1>3 DEF PaidInv, TypeOK, SetPlan, listed
  <2>4. plans' \in [PlanIds -> Plan \cup {NoPlan}] /\ sets' \in Nat
    BY <1>3 DEF PaidInv, TypeOK, SetPlan
  <2>5. UNCHANGED <<now, admin, subs, wallets, held, books>> /\ signers' = who
    BY <1>3 DEF SetPlan
  <2>6. TypeOK'
    BY <2>3, <2>4, <2>5 DEF PaidInv, TypeOK
  <2>7. QED
    BY <2>2, <2>5, <2>6 DEF PaidInv, PaidAsBought, TimeAsPaid
<1>4. ASSUME NEW amount \in Amounts, Withdraw(who, a, amount)
      PROVE  PaidInv'
  <2>1. amount \in Int /\ amount > 0 /\ amount <= held
    BY <1>4 DEF Withdraw, withdrawable, Amounts
  <2>2. held' \in Nat /\ wallets' \in [Addresses -> Nat]
    BY <1>4, <2>1 DEF PaidInv, TypeOK, Withdraw
  <2>3. UNCHANGED <<now, admin, plans, ids, subs, sets, books>> /\ signers' = who
    BY <1>4 DEF Withdraw
  <2>4. QED
    BY <2>2, <2>3 DEF PaidInv, TypeOK, Sold, PaidAsBought, TimeAsPaid
<1>5. QED
  BY <1>1, <1>2, <1>3, <1>4

\* The invariant holds throughout.
LEMMA Invariance == Spec => []PaidInv
<1>1. Init => PaidInv
  BY SubscriptionsAssumption
     DEF Init, PaidInv, TypeOK, Sold, PaidAsBought, TimeAsPaid, Books, NoSub
<1>2. PaidInv /\ [Next]_vars => PaidInv'
  <2> SUFFICES ASSUME PaidInv, [Next]_vars
               PROVE  PaidInv'
    OBVIOUS
  <2>1. ASSUME NEW who \in SUBSET Addresses, NEW a \in Addresses,
               Initialise(who, a) \/ SetAdmin(who, a)
        PROVE  PaidInv'
    BY <2>1, Others
  <2>2. ASSUME NEW who \in SUBSET Addresses, NEW i \in PlanIds, NEW p \in Plan,
               SetPlan(who, i, p)
        PROVE  PaidInv'
    <3>1. PICK a \in Addresses : admin = a
      BY <2>2 DEF SetPlan
    <3>2. QED
      BY <2>2, Others
  <2>3. ASSUME NEW who \in SUBSET Addresses, NEW a \in Addresses, NEW i \in PlanIds,
               Subscribe(who, a, i)
        PROVE  PaidInv'
    BY <2>3, Subscribed
  <2>4. ASSUME NEW who \in SUBSET Addresses, NEW a \in Addresses, NEW amount \in Amounts,
               Withdraw(who, a, amount)
        PROVE  PaidInv'
    BY <2>4, Others
  <2>5. CASE Tick
    BY <2>5 DEF Tick, PaidInv, TypeOK, Sold, PaidAsBought, TimeAsPaid
  <2>6. CASE UNCHANGED vars
    BY <2>6 DEF vars, PaidInv, TypeOK, Sold, PaidAsBought, TimeAsPaid
  <2>7. QED
    BY <2>1, <2>2, <2>3, <2>4, <2>5, <2>6 DEF Next
<1>3. QED
  BY <1>1, <1>2, PTL DEF Spec

\* A subscriber's key moves what the periods recorded for it cost, and a period lasts as
\* long as what was bought of it, whatever the admin does to the plans meanwhile.
THEOREM Paid == Spec => [](TypeOK /\ AsPaid)
<1>1. PaidInv => TypeOK /\ AsPaid
  BY DEF PaidInv, AsPaid
<1>2. QED
  BY <1>1, Invariance, PTL

-----------------------------------------------------------------------------
(* What a step may never do. *)

\* Nobody's paid time is shortened, but by its own switch to another plan.
THEOREM TimeKept == Spec => PaidTimeKept
<1> DEFINE Kept == \A a \in Addresses :
                      subs'[a].expires < subs[a].expires
                      => a \in signers' /\ subs'[a].plan # subs[a].plan
<1>1. PaidInv /\ [Next]_vars => [Kept]_vars
  <2> SUFFICES ASSUME PaidInv, Next
               PROVE  Kept
    BY DEF vars
  <2>1. ASSUME subs' = subs
        PROVE  Kept
    <3> SUFFICES ASSUME NEW a \in Addresses
                 PROVE  ~(subs[a].expires < subs[a].expires)
      BY <2>1
    <3>1. subs[a].expires \in Nat
      BY DEF PaidInv, TypeOK, Subs, NoSub
    <3>2. QED
      BY <3>1
  <2>2. ASSUME NEW who \in SUBSET Addresses, NEW a \in Addresses, NEW i \in PlanIds,
               Subscribe(who, a, i)
        PROVE  Kept
    <3> DEFINE s == renewed(subs[a], i, plans[i].period)
    <3>1. /\ subs' = [subs EXCEPT ![a] = s]
          /\ signers' = who /\ a \in who
      BY <2>2 DEF Subscribe
    <3>2. plans[i].period \in Nat /\ plans[i].period > 0
      <4>1. plans[i] # NoPlan
        BY <2>2 DEF Subscribe
      <4>2. plans[i] \in Plan /\ plans[i].period > 0
        BY <4>1 DEF PaidInv, TypeOK, Sold
      <4>3. QED
        BY <4>2, SubscriptionsAssumption DEF Plan
    <3>3. subs[a] \in Subs \cup {NoSub} /\ now \in Nat
      BY DEF PaidInv, TypeOK
    <3>4. s.expires < subs[a].expires => s.plan # subs[a].plan
      BY <3>2, <3>3 DEF renewed, running, Subs, NoSub
    <3>5. subs'[a] = s
      BY <3>1 DEF PaidInv, TypeOK
    <3>6. ASSUME NEW c \in Addresses \ {a}
          PROVE  ~(subs'[c].expires < subs[c].expires)
      <4>1. subs'[c] = subs[c]
        BY <3>1 DEF PaidInv, TypeOK
      <4>2. subs[c].expires \in Nat
        BY DEF PaidInv, TypeOK, Subs, NoSub
      <4>3. QED
        BY <4>1, <4>2
    <3>7. QED
      BY <3>1, <3>4, <3>5, <3>6
  <2>3. Next => subs' = subs \/ \E who \in SUBSET Addresses, a \in Addresses, i \in PlanIds :
                                    Subscribe(who, a, i)
    BY DEF Next, Initialise, SetAdmin, SetPlan, Withdraw, Tick
  <2>4. QED
    BY <2>1, <2>2, <2>3
<1>2. QED
  BY <1>1, Invariance, PTL DEF Spec, PaidTimeKept

\* No money leaves an address or the contract, no plan changes and no admin is replaced
\* without the signatures the contract asks for.
THEOREM Authorised == Spec => Signed
<1> DEFINE Ok == /\ \A a \in Addresses : wallets'[a] < wallets[a] => a \in signers'
                 /\ held' < held => admin \in signers'
                 /\ plans' # plans => admin \in signers'
                 /\ admin # Nobody /\ admin' # admin => {admin, admin'} \subseteq signers'
<1>1. PaidInv /\ [Next]_vars => [Ok]_vars
  <2> SUFFICES ASSUME PaidInv, Next
               PROVE  Ok
    BY DEF vars
  <2>1. wallets \in [Addresses -> Nat] /\ held \in Nat
    BY DEF PaidInv, TypeOK
  <2>2. ASSUME NEW who \in SUBSET Addresses, NEW a \in Addresses, Initialise(who, a)
        PROVE  Ok
    BY <2>1, <2>2 DEF Initialise
  <2>3. ASSUME NEW who \in SUBSET Addresses, NEW a \in Addresses, SetAdmin(who, a)
        PROVE  Ok
    BY <2>1, <2>3 DEF SetAdmin
  <2>4. ASSUME NEW who \in SUBSET Addresses, NEW i \in PlanIds, NEW p \in Plan,
               SetPlan(who, i, p)
        PROVE  Ok
    BY <2>1, <2>4 DEF SetPlan
  <2>5. ASSUME NEW who \in SUBSET Addresses, NEW a \in Addresses, NEW i \in PlanIds,
               Subscribe(who, a, i)
        PROVE  Ok
    <3>1. /\ wallets' = [wallets EXCEPT ![a] = @ - plans[i].price]
          /\ held' = held + plans[i].price
          /\ UNCHANGED <<admin, plans>> /\ signers' = who /\ a \in who
      BY <2>5 DEF Subscribe, pays
    <3>2. plans[i].price \in Int /\ plans[i].price > 0
      <4>1. plans[i] # NoPlan
        BY <2>5 DEF Subscribe
      <4>2. plans[i] \in Plan /\ plans[i].price > 0
        BY <4>1 DEF PaidInv, TypeOK, Sold
      <4>3. QED
        BY <4>2, SubscriptionsAssumption DEF Plan
    <3>3. QED
      BY <2>1, <3>1, <3>2
  <2>6. ASSUME NEW who \in SUBSET Addresses, NEW a \in Addresses, NEW amount \in Amounts,
               Withdraw(who, a, amount)
        PROVE  Ok
    <3>1. amount \in Int /\ amount > 0
      BY <2>6 DEF Withdraw, withdrawable, Amounts
    <3>2. QED
      BY <2>1, <2>6, <3>1 DEF Withdraw
  <2>7. CASE Tick
    BY <2>1, <2>7 DEF Tick
  <2>8. QED
    BY <2>2, <2>3, <2>4, <2>5, <2>6, <2>7 DEF Next
<1>2. QED
  BY <1>1, Invariance, PTL DEF Spec, Signed

-----------------------------------------------------------------------------
(* The contract implements what the gateway takes for granted of it. *)

\* The accounts' periods start as none, and every invocation either leaves them and the
\* clock alone or is one payment for one period of one account.
THEOREM Refines == Spec => AsRelied
<1>1. Init => P!Init
  BY DEF Init, P!Init, P!Nothing, NoSub
<1>2. PaidInv /\ [Next]_vars => [P!Next]_<<now, subs>>
  <2> SUFFICES ASSUME PaidInv, Next, <<now, subs>>' # <<now, subs>>
               PROVE  P!Next
    BY DEF vars
  <2>1. ASSUME NEW who \in SUBSET Addresses, NEW a \in Addresses, NEW i \in PlanIds,
               Subscribe(who, a, i)
        PROVE  P!Pay(a)
    <3> DEFINE t == plans[i].period
               p == subs[a]
               q == renewed(p, i, t)
    <3>1. t \in Nat /\ t > 0
      <4>1. plans[i] # NoPlan
        BY <2>1 DEF Subscribe
      <4>2. plans[i] \in Plan /\ plans[i].period > 0
        BY <4>1 DEF PaidInv, TypeOK, Sold
      <4>3. QED
        BY <4>2, SubscriptionsAssumption DEF Plan
    <3>2. p \in Subs \cup {NoSub} /\ now \in Nat
      BY DEF PaidInv, TypeOK
    <3>3. /\ subs'[a] = q
          /\ \A b \in Addresses \ {a} : subs'[b] = subs[b]
          /\ now' = now
      BY <2>1 DEF Subscribe, PaidInv, TypeOK
    <3> HIDE DEF t, p
    <3>4. CASE running(p, i)
      <4>1. p \in Subs
        BY <3>2, <3>4 DEF running, NoSub
      <4>2. q = [p EXCEPT !.expires = @ + t, !.periods = @ + 1]
        BY <3>4 DEF renewed
      <4> HIDE DEF q
      <4>3. /\ q.plan = p.plan /\ q.started = p.started
            /\ q.expires = p.expires + t /\ q.periods = p.periods + 1
        BY <4>1, <4>2 DEF Subs
      <4>4. P!Extend(p, q)
        BY <3>1, <3>4, <4>1, <4>3 DEF running, Subs, P!Extend
      <4>5. q \in P!Period
        <5>1. p.expires + t \in Nat /\ p.periods + 1 \in Nat
          BY <3>1, <4>1 DEF Subs
        <5>2. QED
          BY <4>1, <4>2, <5>1 DEF Subs, P!Period
      <4>6. QED
        BY <3>3, <4>3, <4>4, <4>5 DEF P!Pay, p
    <3>5. CASE ~running(p, i)
      <4>1. q = [plan |-> i, started |-> now, expires |-> now + t,
                 periods |-> p.periods + 1]
        BY <3>5 DEF renewed
      <4>2. P!Begin(p, q) /\ q.periods = p.periods + 1 /\ q \in P!Period
        BY <3>1, <3>2, <3>5, <4>1 DEF running, Subs, NoSub, P!Begin, P!Period
      <4>3. QED
        BY <3>3, <4>2 DEF P!Pay, p
    <3>6. QED
      BY <3>4, <3>5
  <2>2. CASE Tick
    BY <2>2 DEF Tick, PaidInv, TypeOK, P!Next, P!Close
  <2>3. \/ now' = now /\ subs' = subs
        \/ Tick
        \/ \E who \in SUBSET Addresses, a \in Addresses, i \in PlanIds : Subscribe(who, a, i)
    BY DEF Next, Initialise, SetAdmin, SetPlan, Withdraw
  <2>4. QED
    BY <2>1, <2>2, <2>3 DEF P!Next
<1>3. QED
  BY <1>1, <1>2, Invariance, PTL DEF Spec, AsRelied, P!Spec

=============================================================================
