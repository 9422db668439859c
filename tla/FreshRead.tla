----------------------------- MODULE FreshRead -----------------------------
(***************************************************************************)
(* What a cache in front of a changing upstream promises its callers,      *)
(* whatever it does inside: a call for key k ends with a version upstream  *)
(* really had, no older than the last invalidation of k that precedes the  *)
(* call, or it ends without a value.  No store, no future, no clock here.  *)
(***************************************************************************)
EXTENDS Naturals

CONSTANTS Callers, Keys

VARIABLES
    upstream,   \* upstream[k]: the version the upstream holds now
    floor,      \* floor[k]: the version it held when k was last invalidated
    asked,      \* asked[c]: <<>> or <<k, n>>, a call for k that must see n or later
    got         \* got[c]: <<>>, or <<v>> when c's last call returned version v

vars == <<upstream, floor, asked, got>>

Init ==
    /\ upstream = [k \in Keys |-> 0]
    /\ floor = [k \in Keys |-> 0]
    /\ asked = [c \in Callers |-> <<>>]
    /\ got = [c \in Callers |-> <<>>]

Begin(c) ==
    /\ asked[c] = <<>>
    /\ \E k \in Keys : asked' = [asked EXCEPT ![c] = <<k, floor[k]>>]
    /\ got' = [got EXCEPT ![c] = <<>>]
    /\ UNCHANGED <<upstream, floor>>

\* A hit begins and ends in one step.
Immediate(c) ==
    /\ asked[c] = <<>>
    /\ \E k \in Keys : \E v \in floor[k] .. upstream[k] : got' = [got EXCEPT ![c] = <<v>>]
    /\ UNCHANGED <<upstream, floor, asked>>

Return(c) ==
    /\ asked[c] # <<>>
    /\ \E v \in asked[c][2] .. upstream[asked[c][1]] : got' = [got EXCEPT ![c] = <<v>>]
    /\ asked' = [asked EXCEPT ![c] = <<>>]
    /\ UNCHANGED <<upstream, floor>>

\* The fetch failed, or the call was cancelled.
Raise(c) ==
    /\ asked' = [asked EXCEPT ![c] = <<>>]
    /\ got' = [got EXCEPT ![c] = <<>>]
    /\ UNCHANGED <<upstream, floor>>

Change(k) ==
    /\ upstream' = [upstream EXCEPT ![k] = @ + 1]
    /\ UNCHANGED <<floor, asked, got>>

Invalidate(k) ==
    /\ floor' = [floor EXCEPT ![k] = upstream[k]]
    /\ UNCHANGED <<upstream, asked, got>>

Next ==
    \/ \E c \in Callers : Begin(c) \/ Immediate(c) \/ Return(c) \/ Raise(c)
    \/ \E k \in Keys : Change(k) \/ Invalidate(k)

Spec == Init /\ [][Next]_vars

\* Every call that waits ends.
LiveSpec == Spec /\ \A c \in Callers : WF_vars(asked[c] # <<>> /\ (Return(c) \/ Raise(c)))
=============================================================================
