----------------------------- MODULE MCBilling -----------------------------
(* Billing for TLC: the requests of an account are interchangeable.          *)
EXTENDS Billing, TLC

Interchangeable == Permutations(Handlers)

=============================================================================
