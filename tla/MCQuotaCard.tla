---------------------------- MODULE MCQuotaCard ----------------------------
(* One account with two resets, two reset requests at once (one may run on   *)
(* after its card was left), and at most two confirmations.                  *)
EXTENDS QuotaCard
=============================================================================
