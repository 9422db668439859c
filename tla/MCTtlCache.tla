---------------------------- MODULE MCTtlCache ----------------------------
(* One key, as keys share no state, and three callers: a leader that an    *)
(* invalidation detached, its successor, and a waiter of either.           *)
EXTENDS TtlCacheProofs
===========================================================================
