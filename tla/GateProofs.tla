------------------------------ MODULE GateProofs ------------------------------
(***************************************************************************)
(* Proofs about Gate, with the sessions of Identity, for any number of      *)
(* accounts, quotes, requests and secrets and any lifetimes: nobody pays    *)
(* for a run who has not proved to hold the paying account's key, and what  *)
(* the gate was told the ledger had taken is credited.                     *)
(***************************************************************************)
EXTENDS Gate, TLAPS, FiniteSetTheorems

-----------------------------------------------------------------------------
(* The inductive invariant.                                                *)

\* A session's end is at most both lifetimes after the signature it was given
\* for, which was made over a challenge of the same secret, after its issue.
SessionsInv ==
    /\ IsFiniteSet(tokens)
    /\ \A t \in tokens :
         /\ t.i <= now
         /\ t.e > 0 => \E s \in signatures :
                           /\ s.by = t.a /\ s.over.sealed = t.sealed
                           /\ t.e <= s.at + ChallengeTtl + SessionTtl
    /\ \A s \in signatures : s.over.i <= s.at

InHand  == {"submit", "reread", "mark", "credit"}
Settling == {"reread", "mark", "credit"}

\* What a request holds where it is.
CallInv(c) ==
    /\ c.at \in InHand => c.payment \in Payments /\ c.account = Nobody
    /\ c.at \notin InHand => c.payment = NoPayment
    /\ c.at \in Settling => c.payment \in taken
    /\ c.at = "authorize" => c.account \in Addresses

\* The accounts of runs, and of requests on their way to one.
Proved(a) == \/ \E s \in signatures : s.by = a /\ s.over.sealed = secret
             \/ \E p \in taken : p.by = a

PayersInv ==
    /\ \A a \in runs \ {Nobody} : Proved(a)
    /\ \A h \in Handlers : calls[h].account # Nobody => Proved(calls[h].account)

\* What closed a quote: its time, an invoice poll, or a payment that was
\* credited, is about to be, or was cut off there.
StatusInv ==
    /\ \A q \in Quotes : status[q] = "expired" => q \in lapsed
    /\ \A p \in taken : status[p.of] # "none"
    /\ \A h \in Handlers :
         calls[h].at \in InHand => status[calls[h].payment.of] # "none"

Closed(q) ==
    \/ q \in polled
    \/ \E p \in taken :
         /\ p.of = q
         /\ \/ p \in credited \/ p \in lost
            \/ \E h \in Handlers : calls[h].at = "credit" /\ calls[h].payment = p

ClosedInv == \A q \in Quotes : status[q] = "paid" => Closed(q)

GateInv ==
    /\ GateTypeOK
    /\ SessionsInv
    /\ \A h \in Handlers : CallInv(calls[h])
    /\ PayersInv
    /\ StatusInv
    /\ ClosedInv
    /\ SettledIsCredited

-----------------------------------------------------------------------------
(* The requests.                                                           *)

\* What a coroutine holds, and what becomes of it.
LEMMA Fields ==
    ASSUME NEW c \in Calls
    PROVE  /\ c.at \in Places \cup {"idle"}
           /\ c.account \in Addresses \cup {Nobody}
           /\ c.payment \in Payments \cup {NoPayment}
           /\ \A place \in Places : c.at # "idle" =>
                /\ [c EXCEPT !.at = place] \in Calls
                /\ [c EXCEPT !.at = place].at = place
                /\ [c EXCEPT !.at = place].account = c.account
                /\ [c EXCEPT !.at = place].payment = c.payment
BY DEF Calls, Idle

\* The coroutines that start afresh, refused, authorised or with a payment.
LEMMA Fresh ==
    /\ Idle \in Calls /\ Idle.at = "idle"
    /\ Idle.account = Nobody /\ Idle.payment = NoPayment
    /\ LET d == [Idle EXCEPT !.at = "refuse"]
       IN  d \in Calls /\ d.at = "refuse" /\ d.account = Nobody
           /\ d.payment = NoPayment
    /\ \A a \in Addresses :
         LET d == [Idle EXCEPT !.at = "authorize", !.account = a]
         IN  d \in Calls /\ d.at = "authorize" /\ d.account = a
             /\ d.payment = NoPayment
    /\ \A p \in Payments :
         LET d == [Idle EXCEPT !.at = "submit", !.payment = p]
         IN  d \in Calls /\ d.at = "submit" /\ d.account = Nobody
             /\ d.payment = p
BY DEF Calls, Idle, Places

\* No payment is no payment.
LEMMA NoPaymentIsNone == NoPayment \notin Payments
<1>1. "by" \notin DOMAIN NoPayment
  BY DEF NoPayment
<1>2. \A p \in Payments : "by" \in DOMAIN p
  BY DEF Payments
<1> QED
  BY <1>1, <1>2

\* A step of one request that leaves the books alone.  What it had settled
\* has to be accounted for when it lets go of it.
LEMMA CallStep ==
    ASSUME GateInv, NEW h \in Handlers, NEW d \in Calls,
           calls' = [calls EXCEPT ![h] = d],
           UNCHANGED <<vars, books, history>>,
           runs' \subseteq Addresses, \A a \in runs' \ {Nobody} : Proved(a),
           CallInv(d), d.account # Nobody => Proved(d.account),
           d.at \in InHand => status[d.payment.of] # "none",
           calls[h].at # "credit",
           calls[h].at \in Settling =>
             \/ d.at \in Settling /\ d.payment = calls[h].payment
             \/ calls[h].payment \in lost \cup credited
             \/ \E g \in Handlers \ {h} :
                  calls[g].payment = calls[h].payment /\ calls[g].at = "credit"
             \/ calls[h].payment.of \in lapsed \cup polled
             \/ \E r \in taken \ {calls[h].payment} : r.of = calls[h].payment.of
    PROVE  GateInv'
<1>a. /\ GateTypeOK /\ SessionsInv /\ PayersInv /\ StatusInv /\ ClosedInv
      /\ SettledIsCredited /\ \A g \in Handlers : CallInv(calls[g])
  BY DEF GateInv
<1>b. /\ UNCHANGED <<now, secret, tokens, signatures>>
      /\ UNCHANGED <<status, quoted, lapsed, taken, credited, polled, lost>>
  BY DEF vars, books, history
<1>c. /\ calls' \in [Handlers -> Calls] /\ calls'[h] = d
      /\ \A g \in Handlers \ {h} : calls'[g] = calls[g]
  BY <1>a DEF GateTypeOK
<1>1. GateTypeOK'
  BY <1>a, <1>b, <1>c DEF GateTypeOK, TypeOK
<1>2. SessionsInv'
  BY <1>a, <1>b DEF SessionsInv
<1>3. \A g \in Handlers : CallInv(calls[g])'
  BY <1>a, <1>b, <1>c DEF CallInv
<1>4. PayersInv'
  BY <1>a, <1>b, <1>c DEF PayersInv, Proved
<1>5. StatusInv'
  BY <1>a, <1>b, <1>c DEF StatusInv
<1>6. ClosedInv'
  BY <1>a, <1>b, <1>c DEF ClosedInv, Closed
<1>7. SettledIsCredited'
  <2> SUFFICES ASSUME NEW p \in taken \ lost, p \notin credited,
                      p.of \notin lapsed \cup polled,
                      \A r \in taken \ {p} : r.of # p.of
               PROVE  \E g \in Handlers : /\ calls'[g].payment = p
                                         /\ calls'[g].at \in Settling
    BY <1>b DEF SettledIsCredited, Settling
  <2>1. PICK g \in Handlers : calls[g].payment = p /\ calls[g].at \in Settling
    BY <1>a DEF SettledIsCredited, Settling
  <2>2. CASE g # h
    BY <1>c, <2>1, <2>2
  <2>3. CASE g = h
    BY <1>c, <2>1, <2>3 DEF Settling
  <2> QED
    BY <2>2, <2>3
<1> QED
  BY <1>1, <1>2, <1>3, <1>4, <1>5, <1>6, <1>7 DEF GateInv

-----------------------------------------------------------------------------
(* Signing in.                                                             *)

\* The claims that are sealed.
LEMMA Claims ==
    ASSUME TypeOK, IsFiniteSet(tokens), NEW a \in Addresses
    PROVE  /\ Cardinality({t \in tokens : t.d = Audience}) < MaxChallenges
                => challenged(a) \in Challenges
           /\ challenged(a).i = now /\ challenged(a).e = 0
           /\ minted(a) \in Sessions
           /\ minted(a).a = a /\ minted(a).i = 0 /\ minted(a).e = now + SessionTtl
           /\ minted(a).sealed = secret
<1>1. Cardinality({t \in tokens : t.d = Audience}) \in Nat
  BY FS_Subset, FS_CardinalityType
<1>2. /\ now \in Nat /\ secret \in 1..MaxSecrets /\ SessionTtl \in Nat
      /\ MaxChallenges \in Nat
  BY IdentityAssumption DEF TypeOK
<1> QED
  BY <1>1, <1>2 DEF challenged, minted, Challenges, Sessions

\* A step of the identity service, a wallet or the clock: whoever was proved
\* to hold a key stays proved.
LEMMA SignInStep == GateInv /\ SignIn => GateInv'
<1> SUFFICES ASSUME GateInv, SignIn
             PROVE  GateInv'
  OBVIOUS
<1>a. /\ GateTypeOK /\ SessionsInv /\ PayersInv /\ StatusInv /\ ClosedInv
      /\ SettledIsCredited /\ \A g \in Handlers : CallInv(calls[g])
      /\ TypeOK
  BY DEF GateInv, GateTypeOK
<1>b. /\ UNCHANGED <<status, quoted, lapsed, taken, credited, calls, runs, polled, lost>>
  BY DEF SignIn, books, history
<1>n. now \in Nat /\ ChallengeTtl \in Nat /\ SessionTtl \in Nat
  BY <1>a, IdentityAssumption DEF TypeOK
<1>t. /\ \A t \in tokens : t \in Challenges \cup Sessions
      /\ \A t \in tokens : t.i \in Nat /\ t.e \in Nat /\ t.a \in Addresses
      /\ \A s \in signatures : s.at \in Nat /\ s.over.i \in Nat
  BY <1>a DEF TypeOK, Challenges, Sessions, Signatures
<1>1. CASE \E a \in Addresses : IssueChallenge(a)
  <2>1. PICK a \in Addresses : IssueChallenge(a)
    BY <1>1
  <2>2. /\ tokens' = tokens \cup {challenged(a)}
        /\ UNCHANGED <<now, secret, signatures>>
        /\ Cardinality({t \in tokens : t.d = Audience}) < MaxChallenges
    BY <2>1 DEF IssueChallenge
  <2>3. /\ challenged(a) \in Challenges
        /\ challenged(a).i = now /\ challenged(a).e = 0
    BY <1>a, <2>2, Claims DEF SessionsInv
  <2> HIDE DEF challenged
  <2>4. IsFiniteSet(tokens')
    BY <1>a, <2>2, FS_AddElement DEF SessionsInv
  <2>5. TypeOK'
    BY <1>a, <2>2, <2>3 DEF TypeOK
  <2>6. SessionsInv'
    BY <1>a, <1>n, <2>2, <2>3, <2>4 DEF SessionsInv
  <2> QED
    BY <1>a, <1>b, <2>2, <2>5, <2>6
       DEF GateInv, GateTypeOK, CallInv, PayersInv, Proved, StatusInv, ClosedInv,
           Closed, SettledIsCredited
<1>2. CASE \E b \in Addresses, t \in tokens : Sign(b, t)
  <2>1. PICK b \in Addresses, t \in tokens : Sign(b, t)
    BY <1>2
  <2> DEFINE s == [by |-> b, over |-> t, at |-> now]
  <2>2. /\ t.d = Audience /\ signatures' = signatures \cup {s}
        /\ UNCHANGED <<now, secret, tokens>>
    BY <2>1 DEF Sign
  <2>3. t \in Challenges
    BY <1>t, <2>2 DEF Sessions, Audience, NoAudience
  <2>4. s \in Signatures /\ s.over.i <= s.at
    BY <1>a, <1>n, <2>3 DEF Signatures, SessionsInv
  <2> HIDE DEF s
  <2>5. TypeOK'
    BY <1>a, <2>2, <2>4 DEF TypeOK
  <2>6. SessionsInv'
    BY <1>a, <2>2, <2>4 DEF SessionsInv
  <2>7. PayersInv'
    BY <1>a, <1>b, <2>2 DEF PayersInv, Proved
  <2> QED
    BY <1>a, <1>b, <2>2, <2>5, <2>6, <2>7
       DEF GateInv, GateTypeOK, CallInv, StatusInv, ClosedInv, Closed,
           SettledIsCredited
<1>3. CASE \E t \in tokens, s \in signatures : Verify(t, s)
  <2>1. PICK t \in tokens, s \in signatures : Verify(t, s)
    BY <1>3
  <2> DEFINE m == minted(t.a)
  <2>2. /\ t.sealed = secret /\ ~(now - t.i > ChallengeTtl)
        /\ s.by = t.a /\ s.over = t
        /\ tokens' = tokens \cup {m}
        /\ UNCHANGED <<now, secret, signatures>>
    BY <2>1 DEF Verify, expired, signed
  <2>3. /\ m \in Sessions /\ m.a = t.a /\ m.i = 0
        /\ m.e = now + SessionTtl /\ m.sealed = secret
    BY <1>a, <1>t, Claims DEF SessionsInv
  <2> HIDE DEF m
  <2>4. m.e <= s.at + ChallengeTtl + SessionTtl
    <3>1. t.i <= s.at
      BY <1>a, <2>2 DEF SessionsInv
    <3>2. now - t.i <= ChallengeTtl
      BY <1>n, <1>t, <2>2
    <3>3. t.i \in Nat /\ s.at \in Nat
      BY <1>t
    <3> QED
      BY <1>n, <2>3, <3>1, <3>2, <3>3
  <2>5. IsFiniteSet(tokens')
    BY <1>a, <2>2, FS_AddElement DEF SessionsInv
  <2>6. TypeOK'
    BY <1>a, <2>2, <2>3 DEF TypeOK
  <2>7. SessionsInv'
    BY <1>a, <1>n, <2>2, <2>3, <2>4, <2>5 DEF SessionsInv
  <2> QED
    BY <1>a, <1>b, <2>2, <2>6, <2>7
       DEF GateInv, GateTypeOK, CallInv, PayersInv, Proved, StatusInv, ClosedInv,
           Closed, SettledIsCredited
<1>4. CASE Tick
  <2>1. now' = now + 1 /\ UNCHANGED <<secret, tokens, signatures>>
    BY <1>4 DEF Tick
  <2>2. TypeOK'
    BY <1>a, <2>1 DEF TypeOK
  <2>3. \A t \in tokens : t.i <= now'
    BY <1>a, <1>n, <1>t, <2>1 DEF SessionsInv
  <2>4. SessionsInv'
    BY <1>a, <2>1, <2>3 DEF SessionsInv
  <2> QED
    BY <1>a, <1>b, <2>1, <2>2, <2>4
       DEF GateInv, GateTypeOK, CallInv, PayersInv, Proved, StatusInv, ClosedInv,
           Closed, SettledIsCredited
<1> QED
  BY <1>1, <1>2, <1>3, <1>4 DEF SignIn

-----------------------------------------------------------------------------
(* Quotes and payments.                                                    *)

\* Every step preserves the invariant.
LEMMA GateStep == GateInv /\ [GateNext]_gateVars => GateInv'
<1> SUFFICES ASSUME GateInv, [GateNext]_gateVars
             PROVE  GateInv'
  OBVIOUS
<1> USE DEF InHand, Settling
<1>a. /\ GateTypeOK /\ SessionsInv /\ PayersInv /\ StatusInv /\ ClosedInv
      /\ SettledIsCredited /\ \A g \in Handlers : CallInv(calls[g])
      /\ TypeOK
  BY DEF GateInv, GateTypeOK
<1>c. /\ calls \in [Handlers -> Calls]
      /\ \A g \in Handlers : calls[g] \in Calls
  BY <1>a DEF GateTypeOK
<1>i. /\ Idle \in Calls /\ Idle.at = "idle"
      /\ Idle.account = Nobody /\ Idle.payment = NoPayment
  BY Fresh
\* A step that leaves the identity service alone keeps the sessions.
<1>v. ASSUME UNCHANGED vars
      PROVE  TypeOK' /\ SessionsInv'
             /\ UNCHANGED <<now, secret, tokens, signatures>>
  BY <1>a, <1>v DEF vars, TypeOK, SessionsInv
\* A quote is written, or its time passes.
<1>1. ASSUME NEW q \in Quotes, NEW account \in Addresses \cup {Nobody},
             requirements(q, account), UNCHANGED <<vars, calls, runs, history>>
      PROVE  GateInv'
  <2>1. /\ status[q] = "none" /\ status' = [status EXCEPT ![q] = "pending"]
        /\ quoted' = [quoted EXCEPT ![q] = account]
        /\ UNCHANGED <<lapsed, taken, credited, calls, runs, polled, lost>>
    BY <1>1 DEF requirements, history
  <2>2. status' \in [Quotes -> {"none", "pending", "paid", "expired"}]
        /\ \A r \in Quotes \ {q} : status'[r] = status[r]
        /\ status'[q] = "pending"
    BY <1>a, <2>1 DEF GateTypeOK
  <2>3. GateTypeOK'
    BY <1>a, <1>v, <1>1, <2>1, <2>2 DEF GateTypeOK
  <2>4. \A g \in Handlers : CallInv(calls[g])'
    BY <1>a, <2>1 DEF CallInv
  <2>5. PayersInv'
    BY <1>a, <1>v, <1>1, <2>1 DEF PayersInv, Proved
  <2>6. StatusInv'
    <3>1. \A r \in Quotes : status'[r] = "expired" => r \in lapsed'
      BY <1>a, <2>1, <2>2 DEF StatusInv
    <3>2. \A p \in taken : p.of \in Quotes
      BY <1>a DEF GateTypeOK, Payments
    <3>3. \A g \in Handlers : calls[g].at \in InHand => calls[g].payment.of \in Quotes
      BY <1>a DEF CallInv, Payments
    <3> QED
      BY <1>a, <2>1, <2>2, <3>1, <3>2, <3>3 DEF StatusInv
  <2>7. ClosedInv'
    BY <1>a, <2>1, <2>2 DEF ClosedInv, Closed
  <2>8. SettledIsCredited'
    BY <1>a, <2>1 DEF SettledIsCredited
  <2> QED
    BY <1>v, <1>1, <2>3, <2>4, <2>5, <2>6, <2>7, <2>8 DEF GateInv
<1>2. ASSUME NEW q \in Quotes, Lapse(q)
      PROVE  GateInv'
  <2>1. /\ lapsed' = lapsed \cup {q} /\ UNCHANGED vars
        /\ UNCHANGED <<status, quoted, taken, credited, calls, runs, polled, lost>>
    BY <1>2 DEF Lapse, history
  <2>2. GateTypeOK'
    BY <1>a, <1>v, <2>1 DEF GateTypeOK
  <2>3. PayersInv'
    BY <1>a, <1>v, <2>1 DEF PayersInv, Proved
  <2> QED
    BY <1>a, <1>v, <2>1, <2>2, <2>3
       DEF GateInv, CallInv, StatusInv, ClosedInv, Closed, SettledIsCredited
<1>3. ASSUME NEW q \in Quotes, Poll(q)
      PROVE  GateInv'
  <2>1. /\ UNCHANGED vars
        /\ UNCHANGED <<quoted, lapsed, taken, credited, calls, runs, lost>>
        /\ status[q] # "none"
        /\ \/ /\ status' = [status EXCEPT ![q] = "paid"]
              /\ polled' = polled \cup {q}
           \/ /\ status[q] = "expired" \/ q \in lapsed
              /\ status' = [status EXCEPT ![q] = "expired"] /\ polled' = polled
    BY <1>3 DEF Poll
  <2>2. /\ \A r \in Quotes \ {q} : status'[r] = status[r]
        /\ \/ status'[q] = "paid" /\ q \in polled'
           \/ status'[q] = "expired" /\ q \in lapsed
        /\ polled \subseteq polled' /\ polled' \subseteq Quotes
        /\ status' \in [Quotes -> {"none", "pending", "paid", "expired"}]
    BY <1>a, <2>1 DEF GateTypeOK, StatusInv
  <2>3. GateTypeOK'
    BY <1>a, <1>v, <2>1, <2>2 DEF GateTypeOK
  <2>4. \A g \in Handlers : CallInv(calls[g])'
    BY <1>a, <2>1 DEF CallInv
  <2>5. PayersInv'
    BY <1>a, <1>v, <2>1 DEF PayersInv, Proved
  <2>6. StatusInv'
    <3>1. \A r \in Quotes : status'[r] = "expired" => r \in lapsed'
      BY <1>a, <2>1, <2>2 DEF StatusInv
    <3>2. \A p \in taken : p.of \in Quotes
      BY <1>a DEF GateTypeOK, Payments
    <3>3. \A g \in Handlers : calls[g].at \in InHand => calls[g].payment.of \in Quotes
      BY <1>a DEF CallInv, Payments
    <3> QED
      BY <1>a, <2>1, <2>2, <3>1, <3>2, <3>3 DEF StatusInv
  <2>7. ClosedInv'
    BY <1>a, <2>1, <2>2 DEF ClosedInv, Closed
  <2>8. SettledIsCredited'
    BY <1>a, <2>1, <2>2 DEF SettledIsCredited
  <2> QED
    BY <1>v, <2>1, <2>3, <2>4, <2>5, <2>6, <2>7, <2>8 DEF GateInv
\* A request that learns who pays, is refused, or presents a payment.
<1>4. ASSUME NEW h \in Handlers, NEW t \in tokens, Session(h, t)
      PROVE  GateInv'
  <2> DEFINE d == [Idle EXCEPT !.at = "authorize", !.account = t.a]
  <2>1. /\ calls[h].at = "idle" /\ account_of(t)
        /\ calls' = [calls EXCEPT ![h] = d]
        /\ UNCHANGED <<vars, books, runs, history>>
    BY <1>4 DEF Session
  <2>2. t.a \in Addresses
    BY <1>a DEF TypeOK, Challenges, Sessions
  <2>3. /\ d \in Calls /\ d.at = "authorize" /\ d.account = t.a
        /\ d.payment = NoPayment
    BY <2>2, Fresh
  <2>4. Proved(t.a)
    <3>1. t.sealed = secret /\ t.e > 0
      BY <1>a, <2>1 DEF account_of, TypeOK, Challenges, Sessions
    <3> QED
      BY <1>a, <3>1 DEF SessionsInv, Proved
  <2> HIDE DEF d
  <2>5. CallInv(d)
    BY <2>2, <2>3 DEF CallInv
  <2>6. runs' \subseteq Addresses /\ \A a \in runs' \ {Nobody} : Proved(a)
    BY <1>a, <2>1 DEF GateTypeOK, PayersInv
  <2> QED
    BY <2>1, <2>3, <2>4, <2>5, <2>6, CallStep
<1>5. ASSUME NEW h \in Handlers, NEW p \in Payments, Redeem(h, p)
      PROVE  GateInv'
  <2> DEFINE d == [Idle EXCEPT !.at = "submit", !.payment = p]
  <2>1. /\ calls[h].at = "idle" /\ status[p.of] = "pending"
        /\ calls' = [calls EXCEPT ![h] = d]
        /\ UNCHANGED <<vars, books, runs, history>>
    BY <1>5 DEF Redeem, is_open
  <2>2. /\ d \in Calls /\ d.at = "submit" /\ d.account = Nobody
        /\ d.payment = p
    BY Fresh
  <2> HIDE DEF d
  <2>3. CallInv(d)
    BY <2>2 DEF CallInv
  <2>4. runs' \subseteq Addresses /\ \A a \in runs' \ {Nobody} : Proved(a)
    BY <1>a, <2>1 DEF GateTypeOK, PayersInv
  <2> QED
    BY <2>1, <2>2, <2>3, <2>4, CallStep
<1>6. ASSUME NEW h \in Handlers, SubmitFails(h)
      PROVE  GateInv'
  <2> DEFINE d == [Idle EXCEPT !.at = "refuse"]
  <2>1. /\ calls[h].at = "submit" /\ calls' = [calls EXCEPT ![h] = d]
        /\ UNCHANGED <<vars, books, runs, history>>
    BY <1>6 DEF SubmitFails, Turned
  <2>2. /\ d \in Calls /\ d.at = "refuse" /\ d.account = Nobody
        /\ d.payment = NoPayment
    BY Fresh
  <2> HIDE DEF d
  <2>3. CallInv(d)
    BY <2>2 DEF CallInv
  <2>4. runs' \subseteq Addresses /\ \A a \in runs' \ {Nobody} : Proved(a)
    BY <1>a, <2>1 DEF GateTypeOK, PayersInv
  <2> QED
    BY <2>1, <2>2, <2>3, <2>4, CallStep
<1>7. ASSUME NEW h \in Handlers, Reread(h)
      PROVE  GateInv'
  <2> DEFINE c == calls[h]
             p == c.payment
  <2>1. c.at = "reread" /\ UNCHANGED <<vars, books, runs, history>>
    BY <1>7 DEF Reread
  <2>2. /\ c \in Calls /\ p \in Payments /\ p \in taken /\ c.account = Nobody
        /\ status[p.of] # "none" /\ p.of \in Quotes
    BY <1>a, <1>c, <2>1 DEF CallInv, StatusInv, Payments
  <2>3. runs' \subseteq Addresses /\ \A a \in runs' \ {Nobody} : Proved(a)
    BY <1>a, <2>1 DEF GateTypeOK, PayersInv
  <2>4. CASE is_open(p.of)
    <3> DEFINE d == [c EXCEPT !.at = "mark"]
    <3>1. calls' = [calls EXCEPT ![h] = d]
      BY <1>7, <2>4 DEF Reread, Moves
    <3>2. d \in Calls /\ d.at = "mark" /\ d.account = Nobody /\ d.payment = p
      BY <2>1, <2>2, Fields DEF Places
    <3> HIDE DEF d
    <3>3. CallInv(d)
      BY <2>2, <3>2 DEF CallInv
    <3> QED
      BY <2>1, <2>2, <2>3, <3>1, <3>2, <3>3, CallStep
  <2>5. CASE ~is_open(p.of)
    <3> DEFINE d == [Idle EXCEPT !.at = "authorize", !.account = p.by]
    <3>1. calls' = [calls EXCEPT ![h] = d]
      BY <1>7, <2>5 DEF Reread, Paid, payer
    <3>2. p.by \in Addresses /\ Proved(p.by)
      BY <2>2 DEF Payments, Proved
    <3>3. d \in Calls /\ d.at = "authorize" /\ d.account = p.by /\ d.payment = NoPayment
      BY <3>2, Fresh
    <3> HIDE DEF d
    <3>4. CallInv(d)
      BY <3>2, <3>3 DEF CallInv
    <3>5. \/ p \in lost \cup credited
          \/ \E g \in Handlers \ {h} : calls[g].payment = p /\ calls[g].at = "credit"
          \/ p.of \in lapsed \cup polled
          \/ \E r \in taken \ {p} : r.of = p.of
      <4>1. CASE p.of \in lapsed
        BY <4>1
      <4>2. CASE p.of \notin lapsed
        <5>1. status[p.of] = "paid"
          BY <1>a, <2>2, <2>5, <4>2 DEF GateTypeOK, StatusInv, is_open
        <5>2. Closed(p.of)
          BY <1>a, <2>2, <5>1 DEF ClosedInv
        <5> QED
          BY <2>1, <5>2 DEF Closed
      <4> QED
        BY <4>1, <4>2
    <3> QED
      BY <2>1, <2>3, <3>1, <3>2, <3>3, <3>4, <3>5, CallStep
  <2> QED
    BY <2>4, <2>5
<1>8. ASSUME NEW h \in Handlers, Start(h)
      PROVE  GateInv'
  <2>1. /\ calls[h].at = "authorize" /\ calls' = [calls EXCEPT ![h] = Idle]
        /\ runs' \subseteq runs \cup {calls[h].account}
        /\ UNCHANGED <<vars, books, history>>
    BY <1>8 DEF Start, End
  <2>2. calls[h].account \in Addresses
    BY <1>a, <2>1 DEF CallInv
  <2>3. calls[h].account # Nobody => Proved(calls[h].account)
    BY <1>a DEF PayersInv
  <2>4. CallInv(Idle)
    BY Fresh DEF CallInv
  <2>5. runs' \subseteq Addresses /\ \A a \in runs' \ {Nobody} : Proved(a)
    BY <1>a, <2>1, <2>2, <2>3 DEF GateTypeOK, PayersInv
  <2> QED
    BY <2>1, <2>4, <2>5, Fresh, CallStep
<1>9. ASSUME NEW h \in Handlers, Refuse(h)
      PROVE  GateInv'
  <2>1. /\ calls[h].at \in {"idle", "refuse", "authorize"}
        /\ calls' = [calls EXCEPT ![h] = Idle]
        /\ UNCHANGED <<vars, runs, history>>
        /\ UNCHANGED <<lapsed, taken, credited>>
        /\ \/ UNCHANGED <<status, quoted>>
           \/ \E q \in Quotes : requirements(q, calls[h].account)
    BY <1>9 DEF Refuse, End, books, requirements
  <2>2. CallInv(Idle)
    BY Fresh DEF CallInv
  <2>3. runs' \subseteq Addresses /\ \A a \in runs' \ {Nobody} : Proved(a)
    BY <1>a, <2>1 DEF GateTypeOK, PayersInv
  <2>4. CASE UNCHANGED <<status, quoted>>
    BY <2>1, <2>2, <2>3, <2>4, Fresh, CallStep DEF books
  <2>5. ASSUME NEW q \in Quotes, requirements(q, calls[h].account)
        PROVE  GateInv'
    <3>1. /\ calls' \in [Handlers -> Calls] /\ calls'[h] = Idle
          /\ \A g \in Handlers \ {h} : calls'[g] = calls[g]
      BY <1>c, <2>1, Fresh
    <3>2. calls[h].account \in Addresses \cup {Nobody}
      BY <1>c, Fields
    <3>3. /\ status[q] = "none" /\ status' = [status EXCEPT ![q] = "pending"]
          /\ quoted' = [quoted EXCEPT ![q] = calls[h].account]
          /\ UNCHANGED <<lapsed, taken, credited, runs, polled, lost>>
      BY <2>1, <2>5 DEF requirements, history
    <3>4. /\ status' \in [Quotes -> {"none", "pending", "paid", "expired"}]
          /\ \A r \in Quotes \ {q} : status'[r] = status[r]
          /\ status'[q] = "pending"
      BY <1>a, <3>3 DEF GateTypeOK
    <3>5. GateTypeOK'
      BY <1>a, <1>v, <2>1, <3>1, <3>2, <3>3, <3>4 DEF GateTypeOK
    <3>6. \A g \in Handlers : CallInv(calls[g])'
      BY <1>a, <2>2, <3>1, <3>3 DEF CallInv
    <3>7. PayersInv'
      BY <1>a, <1>i, <1>v, <2>1, <3>1, <3>3 DEF PayersInv, Proved
    <3>8. StatusInv'
      <4>1. \A r \in Quotes : status'[r] = "expired" => r \in lapsed'
        BY <1>a, <3>3, <3>4 DEF StatusInv
      <4>2. \A p \in taken : p.of \in Quotes
        BY <1>a DEF GateTypeOK, Payments
      <4>3. \A g \in Handlers :
              calls[g].at \in InHand => calls[g].payment.of \in Quotes
        BY <1>a DEF CallInv, Payments
      <4> QED
        BY <1>a, <1>i, <3>1, <3>3, <3>4, <4>1, <4>2, <4>3 DEF StatusInv
    <3>9. ClosedInv'
      BY <1>a, <2>1, <3>1, <3>3, <3>4 DEF ClosedInv, Closed
    <3>10. SettledIsCredited'
      BY <1>a, <2>1, <3>1, <3>3 DEF SettledIsCredited
    <3> QED
      BY <1>v, <2>1, <3>5, <3>6, <3>7, <3>8, <3>9, <3>10 DEF GateInv
  <2> QED
    BY <2>1, <2>4, <2>5
\* The ledger takes a payment; what the gate does not hear is lost.
<1>10. ASSUME NEW h \in Handlers, Submit(h)
       PROVE  GateInv'
  <2> DEFINE c == calls[h]
  <2>0. PICK p \in Payments : p = c.payment
    BY <1>a, <1>10 DEF Submit, CallInv
  <2>1. /\ c.at = "submit" /\ taken' = taken \cup {p}
        /\ UNCHANGED vars
        /\ UNCHANGED <<status, quoted, lapsed, credited, runs, polled>>
    BY <1>10, <2>0 DEF Submit
  <2>2. \E d \in Calls :
          /\ calls' = [calls EXCEPT ![h] = d] /\ d.account = Nobody
          /\ \/ /\ d.at = "reread" /\ d.payment = p
                /\ \/ lost' = lost
                   \/ lost' = lost \ {p} /\ status[p.of] = "pending"
             \/ d.at = "refuse" /\ d.payment = NoPayment /\ lost' = lost \cup {p}
    <3>1. CASE Moves(h, "reread") /\ lost' = IF is_open(p.of) THEN lost \ {p} ELSE lost
      <4> DEFINE d == [c EXCEPT !.at = "reread"]
      <4>1. /\ d \in Calls /\ d.at = "reread" /\ d.account = Nobody
            /\ d.payment = p
        <5>1. c \in Calls /\ c.at # "idle" /\ c.account = Nobody
          BY <1>a, <1>c, <2>1 DEF CallInv
        <5>2. "reread" \in Places
          BY DEF Places
        <5>3. /\ d \in Calls /\ d.at = "reread" /\ d.account = c.account
              /\ d.payment = c.payment
          BY <5>1, <5>2, Fields
        <5> QED
          BY <2>0, <5>1, <5>3
      <4>2. calls' = [calls EXCEPT ![h] = d]
        BY <3>1 DEF Moves
      <4> HIDE DEF d
      <4> QED
        BY <3>1, <4>1, <4>2 DEF is_open
    <3>2. CASE Turned(h) /\ lost' = lost \cup {p}
      BY <3>2, Fresh DEF Turned
    <3> QED
      BY <1>10, <2>0, <3>1, <3>2 DEF Submit
  <2>3. PICK d \in Calls :
          /\ calls' = [calls EXCEPT ![h] = d] /\ d.account = Nobody
          /\ \/ /\ d.at = "reread" /\ d.payment = p
                /\ \/ lost' = lost
                   \/ lost' = lost \ {p} /\ status[p.of] = "pending"
             \/ d.at = "refuse" /\ d.payment = NoPayment /\ lost' = lost \cup {p}
    BY <2>2
  <2>4. /\ calls' \in [Handlers -> Calls] /\ calls'[h] = d
        /\ \A g \in Handlers \ {h} : calls'[g] = calls[g]
    BY <1>c, <2>3
  <2>5. GateTypeOK'
    BY <1>a, <1>v, <2>1, <2>3, <2>4 DEF GateTypeOK
  <2>6. \A g \in Handlers : CallInv(calls[g])'
    BY <1>a, <2>1, <2>3, <2>4 DEF CallInv
  <2>7. PayersInv'
    BY <1>a, <1>v, <2>1, <2>3, <2>4 DEF PayersInv, Proved
  <2>8. StatusInv'
    BY <1>a, <2>0, <2>1, <2>3, <2>4 DEF StatusInv
  <2>9. ClosedInv'
    <3> SUFFICES ASSUME NEW q \in Quotes, status[q] = "paid", q \notin polled
                 PROVE  \E r \in taken' :
                          /\ r.of = q
                          /\ \/ r \in credited \/ r \in lost'
                             \/ \E g \in Handlers : /\ calls'[g].at = "credit"
                                                    /\ calls'[g].payment = r
      BY <2>1 DEF ClosedInv, Closed
    <3>1. PICK r \in taken :
            /\ r.of = q
            /\ \/ r \in credited \/ r \in lost
               \/ \E g \in Handlers : calls[g].at = "credit" /\ calls[g].payment = r
      BY <1>a DEF ClosedInv, Closed
    <3>2. r \in lost => r \in lost'
      BY <2>3, <3>1
    <3> QED
      BY <2>1, <2>4, <3>1, <3>2
  <2>10. SettledIsCredited'
    <3> SUFFICES ASSUME NEW r \in taken', r \notin lost', r \notin credited,
                        r.of \notin lapsed \cup polled,
                        \A u \in taken' \ {r} : u.of # r.of
                 PROVE  \E g \in Handlers :
                            calls'[g].payment = r /\ calls'[g].at \in Settling
      BY <2>1 DEF SettledIsCredited
    <3>1. CASE r = p
      BY <2>3, <2>4, <3>1
    <3>2. CASE r # p
      <4>1. r \in taken \ lost /\ \A u \in taken \ {r} : u.of # r.of
        BY <2>1, <2>3, <3>2
      <4>2. PICK g \in Handlers : calls[g].payment = r /\ calls[g].at \in Settling
        BY <1>a, <4>1 DEF SettledIsCredited
      <4> QED
        BY <2>1, <2>4, <4>2
    <3> QED
      BY <3>1, <3>2
  <2> QED
    BY <1>v, <2>1, <2>5, <2>6, <2>7, <2>8, <2>9, <2>10 DEF GateInv
<1>11. ASSUME NEW h \in Handlers, Mark(h)
       PROVE  GateInv'
  <2> DEFINE c == calls[h]
             d == [c EXCEPT !.at = "credit"]
  <2>0. PICK p \in Payments : p = c.payment
    BY <1>a, <1>11 DEF Mark, CallInv
  <2>1. /\ c.at = "mark" /\ status' = [status EXCEPT ![p.of] = "paid"]
        /\ calls' = [calls EXCEPT ![h] = d]
        /\ UNCHANGED vars
        /\ UNCHANGED <<quoted, lapsed, taken, credited, runs, polled, lost>>
    BY <1>11, <2>0 DEF Mark, Moves, history
  <2>2. d \in Calls /\ d.at = "credit" /\ d.account = Nobody /\ d.payment = p
    <3>1. c \in Calls /\ c.at # "idle" /\ c.account = Nobody
      BY <1>a, <1>c, <2>1 DEF CallInv
    <3>2. "credit" \in Places
      BY DEF Places
    <3>3. /\ d \in Calls /\ d.at = "credit" /\ d.account = c.account
          /\ d.payment = c.payment
      BY <3>1, <3>2, Fields
    <3> QED
      BY <2>0, <3>1, <3>3
  <2> HIDE DEF d
  <2>3. /\ calls' \in [Handlers -> Calls] /\ calls'[h] = d
        /\ \A g \in Handlers \ {h} : calls'[g] = calls[g]
    BY <1>c, <2>1, <2>2
  <2>4. /\ p \in taken /\ p.of \in Quotes
        /\ status' \in [Quotes -> {"none", "pending", "paid", "expired"}]
        /\ status'[p.of] = "paid"
        /\ \A q \in Quotes \ {p.of} : status'[q] = status[q]
    BY <1>a, <2>0, <2>1 DEF CallInv, Payments, GateTypeOK
  <2>5. GateTypeOK'
    BY <1>a, <1>v, <2>1, <2>3, <2>4 DEF GateTypeOK
  <2>6. \A g \in Handlers : CallInv(calls[g])'
    BY <1>a, <2>1, <2>2, <2>3, <2>4 DEF CallInv
  <2>7. PayersInv'
    BY <1>a, <1>v, <2>1, <2>2, <2>3 DEF PayersInv, Proved
  <2>8. StatusInv'
    <3>1. \A r \in taken : r.of \in Quotes
      BY <1>a DEF GateTypeOK, Payments
    <3>2. \A g \in Handlers : calls[g].at \in InHand => calls[g].payment.of \in Quotes
      BY <1>a DEF CallInv, Payments
    <3> QED
      BY <1>a, <2>1, <2>2, <2>3, <2>4, <3>1, <3>2 DEF StatusInv
  <2>9. ClosedInv'
    BY <1>a, <2>1, <2>2, <2>3, <2>4 DEF ClosedInv, Closed
  <2>10. SettledIsCredited'
    BY <1>a, <2>0, <2>1, <2>2, <2>3 DEF SettledIsCredited
  <2> QED
    BY <1>v, <2>1, <2>5, <2>6, <2>7, <2>8, <2>9, <2>10 DEF GateInv
<1>12. ASSUME NEW h \in Handlers, Credit(h)
       PROVE  GateInv'
  <2> DEFINE c == calls[h]
  <2>0. PICK p \in Payments : p = c.payment
    BY <1>a, <1>12 DEF Credit, CallInv
  <2> DEFINE d == [Idle EXCEPT !.at = "authorize", !.account = p.by]
  <2>1. /\ c.at = "credit" /\ credited' = credited \cup {p}
        /\ calls' = [calls EXCEPT ![h] = d]
        /\ UNCHANGED vars
        /\ UNCHANGED <<status, quoted, lapsed, taken, runs, polled, lost>>
    BY <1>12, <2>0 DEF Credit, Paid, payer, history
  <2>2. p \in taken /\ p.by \in Addresses
    BY <1>a, <2>0, <2>1 DEF CallInv, Payments
  <2>3. /\ d \in Calls /\ d.at = "authorize" /\ d.account = p.by
        /\ d.payment = NoPayment
    BY <2>2, Fresh
  <2> HIDE DEF d
  <2>4. /\ calls' \in [Handlers -> Calls] /\ calls'[h] = d
        /\ \A g \in Handlers \ {h} : calls'[g] = calls[g]
    BY <1>c, <2>1, <2>3
  <2>5. GateTypeOK'
    BY <1>a, <1>v, <2>1, <2>2, <2>4 DEF GateTypeOK
  <2>6. \A g \in Handlers : CallInv(calls[g])'
    BY <1>a, <2>1, <2>2, <2>3, <2>4 DEF CallInv
  <2>7. PayersInv'
    BY <1>a, <1>v, <2>1, <2>2, <2>3, <2>4 DEF PayersInv, Proved
  <2>8. StatusInv'
    BY <1>a, <2>1, <2>3, <2>4 DEF StatusInv
  <2>9. ClosedInv'
    BY <1>a, <2>0, <2>1, <2>4 DEF ClosedInv, Closed
  <2>10. SettledIsCredited'
    BY <1>a, <2>0, <2>1, <2>4 DEF SettledIsCredited
  <2> QED
    BY <1>v, <2>1, <2>5, <2>6, <2>7, <2>8, <2>9, <2>10 DEF GateInv
\* Requests that are cut off lose what they hold.
<1>13. ASSUME NEW h \in Handlers, Die(h)
       PROVE  GateInv'
  <2>1. /\ calls' = [calls EXCEPT ![h] = Idle]
        /\ lost' = lost \cup ({calls[h].payment} \ {NoPayment})
        /\ UNCHANGED vars
        /\ UNCHANGED <<status, quoted, lapsed, taken, credited, runs, polled>>
    BY <1>13 DEF Die, End, books
  <2>2. /\ calls' \in [Handlers -> Calls] /\ calls'[h] = Idle
        /\ \A g \in Handlers \ {h} : calls'[g] = calls[g]
    BY <1>c, <2>1, Fresh
  <2>3. lost' \subseteq Payments
    BY <1>a, <1>c, <2>1, Fields DEF GateTypeOK
  <2>4. calls[h].at \in InHand => calls[h].payment \in lost'
    BY <1>a, <2>1, NoPaymentIsNone DEF CallInv
  <2>5. GateTypeOK'
    BY <1>a, <1>v, <2>1, <2>2, <2>3 DEF GateTypeOK
  <2>6. \A g \in Handlers : CallInv(calls[g])'
    BY <1>a, <2>1, <2>2, Fresh DEF CallInv
  <2>7. PayersInv'
    BY <1>a, <1>i, <1>v, <2>1, <2>2 DEF PayersInv, Proved
  <2>8. StatusInv'
    BY <1>a, <2>1, <2>2, Fresh DEF StatusInv
  <2>9. ClosedInv'
    BY <1>a, <2>1, <2>2, <2>4 DEF ClosedInv, Closed
  <2>10. SettledIsCredited'
    BY <1>a, <2>1, <2>2, <2>4 DEF SettledIsCredited
  <2> QED
    BY <1>v, <2>1, <2>5, <2>6, <2>7, <2>8, <2>9, <2>10 DEF GateInv
<1>14. CASE Restart
  <2>1. /\ secret < MaxSecrets /\ secret' = secret + 1
        /\ UNCHANGED <<now, tokens, signatures>>
        /\ calls' = [g \in Handlers |-> Idle] /\ runs' = {}
        /\ lost' = lost \cup ({calls[g].payment : g \in Handlers} \ {NoPayment})
        /\ UNCHANGED <<status, quoted, lapsed, taken, credited, polled>>
    BY <1>14 DEF Restart, Rotate, books
  <2>2. \A g \in Handlers : calls'[g] = Idle
    BY <2>1
  <2>3. lost' \subseteq Payments /\ lost \subseteq lost'
    BY <1>a, <1>c, <2>1, Fields DEF GateTypeOK
  <2>4. \A g \in Handlers : calls[g].at \in InHand => calls[g].payment \in lost'
    BY <1>a, <2>1, NoPaymentIsNone DEF CallInv
  <2>5. TypeOK' /\ SessionsInv'
    BY <1>a, <2>1, IdentityAssumption DEF TypeOK, SessionsInv
  <2>6. GateTypeOK'
    BY <1>a, <2>1, <2>3, <2>5, Fresh DEF GateTypeOK
  <2>7. \A g \in Handlers : CallInv(calls[g])'
    BY <2>2, Fresh DEF CallInv
  <2>8. PayersInv'
    BY <2>1, <2>2, Fresh DEF PayersInv
  <2>9. StatusInv'
    BY <1>a, <2>1, <2>2, Fresh DEF StatusInv
  <2>10. ClosedInv'
    BY <1>a, <2>1, <2>3, <2>4 DEF ClosedInv, Closed
  <2>11. SettledIsCredited'
    BY <1>a, <2>1, <2>3, <2>4 DEF SettledIsCredited
  <2> QED
    BY <2>5, <2>6, <2>7, <2>8, <2>9, <2>10, <2>11 DEF GateInv
<1>15. CASE UNCHANGED gateVars
  BY <1>a, <1>15
     DEF gateVars, vars, books, history, GateInv, GateTypeOK, TypeOK, SessionsInv,
         CallInv, PayersInv, Proved, StatusInv, ClosedInv, Closed,
         SettledIsCredited
<1>16. ASSUME NEW q \in Quotes, NEW account \in Addresses \cup {Nobody},
              Quote(q, account)
       PROVE  GateInv'
  BY <1>1, <1>16 DEF Quote
<1> QED
  BY <1>2, <1>3, <1>4, <1>5, <1>6, <1>7, <1>8, <1>9, <1>10, <1>11, <1>12, <1>13,
     <1>14, <1>15, <1>16, SignInStep
     DEF GateNext

\* The initial states satisfy it.
LEMMA GateBegin == GateInit => GateInv
<1> SUFFICES ASSUME GateInit
             PROVE  GateInv
  OBVIOUS
<1>1. /\ now = ChallengeTtl + 1 /\ secret = 1 /\ tokens = {} /\ signatures = {}
      /\ taken = {} /\ runs = {} /\ lapsed = {} /\ credited = {} /\ polled = {}
      /\ lost = {}
      /\ \A q \in Quotes : status[q] = "none"
      /\ calls \in [Handlers -> Calls] /\ \A h \in Handlers : calls[h] = Idle
  BY Fresh DEF GateInit, Init
<1>2. TypeOK /\ SessionsInv
  BY <1>1, IdentityAssumption, FS_EmptySet DEF TypeOK, SessionsInv
<1>3. GateTypeOK
  BY <1>1, <1>2 DEF GateTypeOK, GateInit
<1> QED
  BY <1>1, <1>2, <1>3, Fresh
     DEF GateInv, CallInv, PayersInv, StatusInv, ClosedInv, SettledIsCredited,
         InHand, Settling

\* The state is well-formed, a token that opens a session names an account
\* whose own key signed a challenge under the secret in use less than both
\* lifetimes ago, and a run or a request on its way to one is on such an
\* account or on that of a key that signed a payment the ledger took.
THEOREM Payers == GateSpec => [](GateTypeOK /\ PayerProved)
<1>1. GateInv => GateTypeOK /\ PayerProved
  <2> SUFFICES ASSUME GateInv
               PROVE  GateTypeOK /\ PayerProved
    OBVIOUS
  <2>1. GateTypeOK /\ TypeOK /\ SessionsInv /\ PayersInv
    BY DEF GateInv, GateTypeOK
  <2>2. AccountProved
    <3> SUFFICES ASSUME NEW t \in tokens, account_of(t)
                 PROVE  \E s \in signatures :
                          /\ s.by = t.a /\ s.over.sealed = secret
                          /\ now < s.at + ChallengeTtl + SessionTtl
      BY DEF AccountProved
    <3>1. t.sealed = secret /\ t.e > now /\ t.e \in Nat /\ now \in Nat
      BY <2>1 DEF account_of, TypeOK, Challenges, Sessions
    <3>2. PICK s \in signatures :
            /\ s.by = t.a /\ s.over.sealed = t.sealed
            /\ t.e <= s.at + ChallengeTtl + SessionTtl
      BY <2>1, <3>1 DEF SessionsInv
    <3>3. s.at \in Nat
      BY <2>1 DEF TypeOK, Signatures
    <3>4. now < s.at + ChallengeTtl + SessionTtl
      BY <3>1, <3>2, <3>3, IdentityAssumption
    <3> QED
      BY <3>1, <3>2, <3>4
  <2> QED
    BY <2>1, <2>2 DEF PayerProved, PayersInv, Proved
<1> QED
  BY <1>1, GateBegin, GateStep, PTL DEF GateSpec

\* A payment the gate was told the ledger had taken is credited to its payer,
\* unless its quote lapsed, was closed by a poll or by another payment, or the
\* request was cut off.
THEOREM Credited == GateSpec => []SettledIsCredited
<1>1. GateInv => SettledIsCredited
  BY DEF GateInv
<1> QED
  BY <1>1, GateBegin, GateStep, PTL DEF GateSpec

=============================================================================
