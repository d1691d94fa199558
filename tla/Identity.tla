------------------------------ MODULE Identity ------------------------------
(***************************************************************************)
(* IdentityService of src/gateway/application/identity_service.py: sealed   *)
(* challenges, wallets that sign them, and session tokens, none of which    *)
(* the gateway stores.  What has been issued is out there for good, so the  *)
(* model keeps every token, and any of them may be presented to verify or   *)
(* to account_of at any later time.                                         *)
(*                                                                          *)
(* Both kinds of token are sealed with one secret.  A token is its claims;  *)
(* a claim that a kind of token does not carry reads as the default of      *)
(* claims.get(...) or ...  The HMAC and the wallet's ed25519 are taken to   *)
(* do their work: a token is what some secret sealed, a signature what a    *)
(* key signed.  The wallet and the clock are external.  Gate composes these *)
(* steps with the requests that present the tokens.                         *)
(***************************************************************************)
EXTENDS Integers, FiniteSets

CONSTANTS Addresses,
          ChallengeTtl,    \* CHALLENGE_TTL_S
          SessionTtl,      \* session_ttl_s
          Horizon,         \* bound on the clock
          MaxChallenges,   \* bound on challenges issued
          MaxSecrets       \* bound on the secrets the deployment goes through

ASSUME IdentityAssumption ==
    /\ ChallengeTtl \in Nat \ {0} /\ SessionTtl \in Nat \ {0}
    /\ Horizon \in Nat /\ MaxChallenges \in Nat /\ MaxSecrets \in Nat \ {0}

VARIABLES now,         \* int(time.time())
          secret,      \* the secret in use; rotating it restarts the gateway
          tokens,      \* every token ever sealed
          signatures   \* every signature a wallet ever made, and when

vars == <<now, secret, tokens, signatures>>

NoAudience == ""
Audience   == "codezard"

\* a: address, n: nonce, i: issued_at, d: audience, e: expires_at, and the secret that sealed
\* them.  A session reads as a challenge for nobody, a challenge as a session long over.
Challenges ==
    [a : Addresses, n : 1..MaxChallenges, i : Nat, d : {Audience}, e : {0}, sealed : 1..MaxSecrets]
Sessions ==
    [a : Addresses, n : {0}, i : {0}, d : {NoAudience}, e : Nat, sealed : 1..MaxSecrets]

\* A signature by a key, over a challenge's message.
Signatures == [by : Addresses, over : Challenges, at : Nat]

TypeOK ==
    /\ now \in Nat /\ secret \in 1..MaxSecrets
    /\ tokens \subseteq Challenges \cup Sessions
    /\ signatures \subseteq Signatures

\* The clock counts from 1970: an issued_at of zero is long past.
Init ==
    /\ now = ChallengeTtl + 1 /\ secret = 1
    /\ tokens = {} /\ signatures = {}

-----------------------------------------------------------------------------
(* Mutants. *)

\* account_of, reading a missing expiry as none
AcceptsNoExpiry(t) == t.sealed = secret /\ (t.e > now \/ t.e = 0)

\* account_of, a session still good in the second it ends
AcceptsAtExpiry(t) == t.sealed = secret /\ t.e >= now

\* Challenge.expired, a second too late
ExpiresLate(t) == now - t.i > ChallengeTtl + 1

-----------------------------------------------------------------------------

\* The claims of a challenge; its nonce is one nobody has seen.
challenged(a) ==
    [a |-> a, n |-> Cardinality({t \in tokens : t.d = Audience}) + 1, i |-> now,
     d |-> Audience, e |-> 0, sealed |-> secret]

\* The claims of a session.
minted(a) ==
    [a |-> a, n |-> 0, i |-> 0, d |-> NoAudience, e |-> now + SessionTtl, sealed |-> secret]

\* Challenge.expired
expired(t) == now - t.i > ChallengeTtl

\* _open and what account_of asks of the claims
account_of(t) == t.sealed = secret /\ t.e > now

\* IdentityService.challenge
IssueChallenge(a) ==
    /\ Cardinality({t \in tokens : t.d = Audience}) < MaxChallenges
    /\ tokens' = tokens \cup {challenged(a)}
    /\ UNCHANGED <<now, secret, signatures>>

\* Somebody's wallet signs what it is shown, whoever it names.  A second signature of one
\* message by one key is the first again (ed25519), so only the first counts.
Sign(b, t) ==
    /\ t.d = Audience
    /\ \A s \in signatures : ~(s.by = b /\ s.over = t)
    /\ signatures' = signatures \cup {[by |-> b, over |-> t, at |-> now]}
    /\ UNCHANGED <<now, secret, tokens>>

\* StellarSignatures.verify: the challenge's own account signed the challenge's message.
signed(t, s) == s.by = t.a /\ s.over = t

\* IdentityService.verify: the address comes out of the challenge.
Verify(t, s) ==
    /\ t.sealed = secret
    /\ t.d = Audience
    /\ ~expired(t)
    /\ signed(t, s)
    /\ tokens' = tokens \cup {minted(t.a)}
    /\ UNCHANGED <<now, secret, signatures>>

\* "revocation is rotating the secret"
Rotate ==
    /\ secret < MaxSecrets
    /\ secret' = secret + 1
    /\ UNCHANGED <<now, tokens, signatures>>

Tick ==
    /\ now < Horizon
    /\ now' = now + 1
    /\ UNCHANGED <<secret, tokens, signatures>>

-----------------------------------------------------------------------------
(* What Gate's property rests on. *)

\* A token that account_of accepts, of whichever kind and presented by whomever, names an
\* account whose own key signed a challenge sealed with the secret now in use, less than
\* the two lifetimes together ago: a challenge is no session, a signature signs in nobody
\* but its maker, and rotating the secret ends every session and every sign-in under way.
AccountProved ==
    \A t \in tokens : account_of(t) =>
        \E s \in signatures : /\ s.by = t.a
                              /\ s.over.sealed = secret
                              /\ now < s.at + ChallengeTtl + SessionTtl

=============================================================================
