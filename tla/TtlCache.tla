------------------------------ MODULE TtlCache ------------------------------
(***************************************************************************)
(* quota/cache.py: the asyncio TTL cache with in-flight deduplication.     *)
(*                                                                         *)
(* One event loop runs every caller, and no critical section awaits, so    *)
(* the lock is never contended: each stretch of get_or_fetch between two   *)
(* awaits is one action.  A future is named by the caller that created it  *)
(* (its leader): the leader resolves it in the step in which it ends, and  *)
(* that step hands the outcome to every waiter, so a name is never reused  *)
(* while somebody still waits on it.                                       *)
(*                                                                         *)
(* The dicts _store and _in_flight map a key to a set of at most one       *)
(* element; the empty set is "no such key".                                *)
(***************************************************************************)
EXTENDS Naturals

CONSTANTS
    Callers,    \* the coroutines that may call get_or_fetch
    Keys,
    Ttls,       \* what ttl(value) may return
    MayCancel,  \* whether the tasks running the callers may be cancelled
    MaxClock,   \* bounds: clock ticks,
    MaxVersion, \*   changes of what the upstream holds for a key,
    MaxGen      \*   calls of invalidate for a key

ASSUME TtlsAssumption == Ttls \subseteq Nat /\ Ttls # {}
ASSUME BoundsAssumption == MaxClock \in Nat /\ MaxVersion \in Nat /\ MaxGen \in Nat
ASSUME CancelAssumption == MayCancel \in BOOLEAN

VARIABLES
    store,      \* store[k]: the cached entry, [val, staleAt]
    inFlight,   \* inFlight[k]: the leader whose future _in_flight holds
    generation, \* generation[k]: how often k was invalidated
    clock,
    call,       \* call[c]: the get_or_fetch coroutine of c
    upstream,   \* what a fetch of k reads: the version the upstream holds
    floor       \* ghost: that version when k was last invalidated

cacheVars == <<store, inFlight, generation, clock, call>>
vars == <<store, inFlight, generation, clock, call, upstream, floor>>

\* What a fetch yields: the upstream's version, and ttl(value).
Value == [ver : Nat, ttl : Nat]
NoValue == [ver |-> 0, ttl |-> 0]
Entry == [val : Value, staleAt : Nat]

(* Where a call stands:
     idle       never called
     fetching   the leader awaits fetch(), whose outcome is not known
     answered   ... and the upstream has produced val, not yet delivered
     waiting    awaits the future of leader fut
     woken      that future has val, the waiter has not run yet
     rejected   that future has an exception, the waiter has not run yet
     returned, raised, cancelled   how the last call ended
     misfired   the last call fetched val, then raised InvalidStateError   *)
Ended == {"idle", "returned", "raised", "cancelled", "misfired"}
Leading == {"fetching", "answered"}
Stage == Ended \cup Leading \cup {"waiting", "woken", "rejected"}

Call == [at : Stage,
         key : Keys,
         gen : Nat,         \* the generation read under the lock
         fut : Callers,     \* whose future it awaits, or resolves
         live : BOOLEAN,    \* a leader's future is not cancelled
         val : Value,
         need : Nat]        \* ghost: floor[key] when the call began

Init ==
    /\ store = [k \in Keys |-> {}]
    /\ inFlight = [k \in Keys |-> {}]
    /\ generation = [k \in Keys |-> 0]
    /\ clock = 0
    /\ \E k \in Keys :
         call = [c \in Callers |-> [at |-> "idle", key |-> k, gen |-> 0, fut |-> c,
                                   live |-> TRUE, val |-> NoValue, need |-> 0]]
    /\ upstream = [k \in Keys |-> 0]
    /\ floor = [k \in Keys |-> 0]

Started(c, k, stage, leader, val) ==
    [at |-> stage, key |-> k, gen |-> generation[k], fut |-> leader,
     live |-> TRUE, val |-> val, need |-> floor[k]]

\* The record of c's call once it has ended: of its locals only what it
\* returned is left.
Over(c, stage) ==
    [at |-> stage, key |-> call[c].key, gen |-> 0, fut |-> c, live |-> TRUE,
     val |-> IF stage = "returned" THEN call[c].val ELSE NoValue,
     need |-> IF stage = "returned" THEN call[c].need ELSE 0]

Fresh(e) == e.staleAt > clock

\* The entry is returned without leaving the lock.
Hit(c, k) ==
    /\ call[c].at \in Ended
    /\ \E e \in store[k] :
         /\ Fresh(e)
         /\ call' = [call EXCEPT ![c] = Started(c, k, "returned", c, e.val)]
    /\ UNCHANGED <<store, inFlight, generation, clock, upstream, floor>>

Missed(c, k) == call[c].at \in Ended /\ \A e \in store[k] : ~Fresh(e)

\* Awaiting a future somebody cancelled raises CancelledError.
Join(c, k) ==
    /\ Missed(c, k)
    /\ \E l \in inFlight[k] :
         call' = [call EXCEPT ![c] =
                    Started(c, k, IF call[l].live THEN "waiting" ELSE "rejected", l, NoValue)]
    /\ UNCHANGED <<store, inFlight, generation, clock, upstream, floor>>

Lead(c, k) ==
    /\ Missed(c, k)
    /\ inFlight[k] = {}
    /\ inFlight' = [inFlight EXCEPT ![k] = {c}]
    /\ call' = [call EXCEPT ![c] = Started(c, k, "fetching", c, NoValue)]
    /\ UNCHANGED <<store, generation, clock, upstream, floor>>

\* fetch() has what it needs to return: version ver, fresh for ttl.
Reply(c, ver, ttl) ==
    /\ call[c].at = "fetching"
    /\ call' = [call EXCEPT ![c] =
                  [@ EXCEPT !.at = "answered", !.val = [ver |-> ver, ttl |-> ttl]]]
    /\ UNCHANGED <<store, inFlight, generation, clock, upstream, floor>>

\* The upstream evaluates the request of a leader; the answer travels back.
Answer(c, ttl) == Reply(c, upstream[call[c].key], ttl)

\* Faulty: whatever _in_flight holds is removed; nothing is.
PopAny(c) == [inFlight EXCEPT ![call[c].key] = {}]
\* `is fut`: only its own registration is removed, not a successor's.
PopOwn(c) == [inFlight EXCEPT ![call[c].key] = @ \ {c}]

\* Faulty: the generation is not compared.
StoreAlways(c) == TRUE

\* Nobody invalidated the key since the leader read its generation.
MayStore(c) == generation[call[c].key] = call[c].gen

\* Faulty: an invalidated leader resolves nobody.
WaitsAttached(w, c) ==
    call[w].at = "waiting" /\ call[w].fut = c /\ c \in inFlight[call[c].key]

Waits(w, c) == call[w].at = "waiting" /\ call[w].fut = c

\* The leader ends in stage `own`; whoever awaits its future is scheduled.
Settle(c, own, others, val) ==
    call' = [w \in Callers |->
               IF w = c THEN Over(c, own)
               ELSE IF Waits(w, c) THEN [call[w] EXCEPT !.at = others, !.val = val]
               ELSE call[w]]

EntryOf(c) == [val |-> call[c].val, staleAt |-> clock + call[c].val.ttl]

\* fetch() returned.  set_result on a cancelled future raises.
Finish(c) ==
    /\ call[c].at = "answered"
    /\ store' = IF MayStore(c) THEN [store EXCEPT ![call[c].key] = {EntryOf(c)}] ELSE store
    /\ inFlight' = PopOwn(c)
    /\ Settle(c, IF call[c].live THEN "returned" ELSE "misfired", "woken", call[c].val)
    /\ UNCHANGED <<generation, clock, upstream, floor>>

\* fetch() raised, or the leader was cancelled in it.
Abort(c, own) ==
    /\ inFlight' = PopOwn(c)
    /\ Settle(c, own, "rejected", NoValue)
    /\ UNCHANGED <<store, generation, clock, upstream, floor>>

\* The request or its answer is lost, or the answer makes no sense.
Fail(c) == call[c].at \in Leading /\ Abort(c, "raised")

CancelLeader(c) == MayCancel /\ call[c].at \in Leading /\ Abort(c, "cancelled")

\* A waiter's turn on the loop.
Wake(c) ==
    /\ \/ /\ call[c].at = "woken"
          /\ call' = [call EXCEPT ![c] = Over(c, "returned")]
       \/ /\ call[c].at = "rejected"
          /\ call' = [call EXCEPT ![c] = Over(c, "raised")]
    /\ UNCHANGED <<store, inFlight, generation, clock, upstream, floor>>

\* Cancelling a task cancels the future it awaits, which here is shared:
\* every other waiter is scheduled with CancelledError.
CancelWaiter(c) ==
    /\ MayCancel
    /\ call[c].at = "waiting"
    /\ call' = [w \in Callers |->
                  IF w = c THEN Over(c, "cancelled")
                  ELSE IF Waits(w, call[c].fut) THEN [call[w] EXCEPT !.at = "rejected"]
                  ELSE IF w = call[c].fut THEN [call[w] EXCEPT !.live = FALSE]
                  ELSE call[w]]
    /\ UNCHANGED <<store, inFlight, generation, clock, upstream, floor>>

\* A waiter cancelled after its future was resolved.
CancelWoken(c) ==
    /\ MayCancel
    /\ call[c].at \in {"woken", "rejected"}
    /\ call' = [call EXCEPT ![c] = Over(c, "cancelled")]
    /\ UNCHANGED <<store, inFlight, generation, clock, upstream, floor>>

\* Faulty: a fetch in flight is left for later callers to join.
Forget(k) ==
    /\ generation[k] < MaxGen
    /\ store' = [store EXCEPT ![k] = {}]
    /\ generation' = [generation EXCEPT ![k] = @ + 1]
    /\ floor' = [floor EXCEPT ![k] = upstream[k]]
    /\ UNCHANGED <<inFlight, clock, call, upstream>>

Invalidate(k) ==
    /\ generation[k] < MaxGen
    /\ store' = [store EXCEPT ![k] = {}]
    /\ inFlight' = [inFlight EXCEPT ![k] = {}]
    /\ generation' = [generation EXCEPT ![k] = @ + 1]
    /\ floor' = [floor EXCEPT ![k] = upstream[k]]
    /\ UNCHANGED <<clock, call, upstream>>

\* What the upstream holds changes: requests are served, a reset is spent.
Change(k) ==
    /\ upstream[k] < MaxVersion
    /\ upstream' = [upstream EXCEPT ![k] = @ + 1]
    /\ UNCHANGED <<store, inFlight, generation, clock, call, floor>>

Tick ==
    /\ clock < MaxClock
    /\ clock' = clock + 1
    /\ UNCHANGED <<store, inFlight, generation, call, upstream, floor>>

Step(c) ==
    \/ \E k \in Keys : Hit(c, k) \/ Join(c, k) \/ Lead(c, k)
    \/ \E ttl \in Ttls : Answer(c, ttl)
    \/ Finish(c) \/ Fail(c) \/ Wake(c)
    \/ CancelLeader(c) \/ CancelWaiter(c) \/ CancelWoken(c)

Next ==
    \/ \E c \in Callers : Step(c)
    \/ \E k \in Keys : Invalidate(k) \/ Change(k)
    \/ Tick

Spec == Init /\ [][Next]_vars

\* The loop runs whatever is ready, and the HTTP client's timeout ends a fetch
\* the upstream leaves unanswered.
Outcome(c) == (\E ttl \in Ttls : Answer(c, ttl)) \/ Fail(c)
Fairness == \A c \in Callers : WF_vars(Outcome(c)) /\ WF_vars(Finish(c)) /\ WF_vars(Wake(c))
FairSpec == Spec /\ Fairness
-----------------------------------------------------------------------------
TypeOK ==
    /\ store \in [Keys -> SUBSET Entry]
    /\ inFlight \in [Keys -> SUBSET Callers]
    /\ generation \in [Keys -> Nat]
    /\ clock \in Nat
    /\ call \in [Callers -> Call]
    /\ upstream \in [Keys -> Nat]
    /\ floor \in [Keys -> Nat]

\* README, "Manual resets": no call that begins after an invalidation gets a
\* value fetched before it, whether it hits, joins or leads, and whichever
\* older fetch finishes in between.
NoStaleRead == \A c \in Callers : call[c].at = "returned" => call[c].val.ver >= call[c].need

\* Two fetches of one key run at once only when an invalidation separates the
\* calls that started them: within a generation a key has a single leader.
SingleFlight ==
    \A c, d \in Callers :
        /\ call[c].at \in Leading
        /\ call[d].at \in Leading
        /\ call[c].key = call[d].key
        /\ call[c].gen = call[d].gen
        => c = d

\* The future a waiter awaits has a leader still at work that will resolve it,
\* even when an invalidation has taken it out of _in_flight.
NoOrphanedWaiter ==
    \A w \in Callers : call[w].at = "waiting" =>
        LET l == call[w].fut IN
            /\ call[l].at \in Leading
            /\ call[l].key = call[w].key
            /\ call[l].live

\* Once every fetch of a key has ended, by value, exception or cancellation,
\* nothing of it is left in _in_flight for a later call to join for ever.
NoDeadFlight ==
    \A k \in Keys : \A c \in inFlight[k] : call[c].at \in Leading /\ call[c].key = k

\* A fetch overtaken by an invalidation never replaces what was fetched after
\* it: while a key stays cached its version only grows.
CachedVersionGrows ==
    [][\A k \in Keys : \A e \in store[k] : \A f \in store'[k] : f.val.ver >= e.val.ver]_vars

Promise ==
    INSTANCE FreshRead WITH
        asked <- [c \in Callers |->
                    IF call[c].at \in Ended THEN <<>> ELSE <<call[c].key, call[c].need>>],
        got <- [c \in Callers |->
                  IF call[c].at = "returned" THEN <<call[c].val.ver>> ELSE <<>>]

\* The cache keeps the promise of FreshRead: no call returns what is older than
\* the last invalidation before it, and every call ends, also when its leader
\* fails, is cancelled or is overtaken by an invalidation.
KeepsPromise == Promise!LiveSpec
=============================================================================
