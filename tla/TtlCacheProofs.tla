--------------------------- MODULE TtlCacheProofs ---------------------------
(***************************************************************************)
(* What TLAPS proves of the TTL cache, for any number of callers and keys, *)
(* any ttl function and any bounds.                                        *)
(***************************************************************************)
EXTENDS TtlCache, TLAPS

USE DEF Ended, Leading, Stage
-----------------------------------------------------------------------------
\* The record a finished call leaves behind, field by field.
LEMMA OverFields ==
  ASSUME TypeOK, NEW c \in Callers, NEW stage \in Stage
  PROVE  /\ Over(c, stage) \in Call
         /\ Over(c, stage).at = stage
         /\ Over(c, stage).key = call[c].key
         /\ stage = "returned" => /\ Over(c, stage).val = call[c].val
                                  /\ Over(c, stage).need = call[c].need
         /\ stage # "returned" => /\ Over(c, stage).val = NoValue
                                  /\ Over(c, stage).need = 0
  BY DEF TypeOK, Over, Call, Value, NoValue

\* What a leader's last step does to each call, field by field: its own ends,
\* those awaiting its future are scheduled with the outcome, the others are
\* left alone.
Settled(c, own, others, val) ==
  \A w \in Callers :
    /\ call'[w].key = call[w].key
    /\ call'[w].at \in Leading \cup {"waiting"} =>
         w # c /\ ~Waits(w, c) /\ call'[w] = call[w]
    /\ w # c /\ ~Waits(w, c) => call'[w] = call[w]
    /\ w # c /\ call[w].at \in Leading => call'[w] = call[w]
    /\ w # c /\ Waits(w, c) => /\ call'[w].at = others
                               /\ call'[w].val = val
                               /\ call'[w].need = call[w].need
    /\ w = c => /\ call'[w].at = own
                /\ own = "returned" => /\ call'[w].val = call[w].val
                                       /\ call'[w].need = call[w].need
                /\ own # "returned" => /\ call'[w].val = NoValue
                                       /\ call'[w].need = 0

LEMMA SettleEffect ==
  ASSUME TypeOK, NEW c \in Callers, NEW own \in Ended, NEW others \in {"woken", "rejected"},
         NEW val \in Value, Settle(c, own, others, val)
  PROVE  call' \in [Callers -> Call] /\ Settled(c, own, others, val)
<1> DEFINE Scheduled(w) == [call[w] EXCEPT !.at = others, !.val = val]
           After(w) == IF w = c THEN Over(c, own)
                       ELSE IF Waits(w, c) THEN Scheduled(w) ELSE call[w]
<1>1. call' = [w \in Callers |-> After(w)]
  BY DEF Settle
<1>2. ASSUME NEW w \in Callers
      PROVE  /\ Scheduled(w) \in Call
             /\ Scheduled(w).key = call[w].key
             /\ Scheduled(w).at = others
             /\ Scheduled(w).val = val
             /\ Scheduled(w).need = call[w].need
  <2>1. call[w] \in Call
    BY DEF TypeOK
  <2> QED
    BY <2>1 DEF Call
<1>3. own \in Stage
  OBVIOUS
<1>4. /\ Over(c, own) \in Call
      /\ Over(c, own).key = call[c].key
      /\ Over(c, own).at = own
      /\ own = "returned" => /\ Over(c, own).val = call[c].val
                             /\ Over(c, own).need = call[c].need
      /\ own # "returned" => Over(c, own).val = NoValue /\ Over(c, own).need = 0
  BY <1>3, OverFields
<1> HIDE DEF Scheduled
<1>5. \A w \in Callers : After(w) \in Call
  BY <1>2, <1>4 DEF TypeOK
<1>6. \A w \in Callers : call'[w] = After(w)
  BY <1>1
<1>7. call' \in [Callers -> Call]
  <2> HIDE DEF After
  <2> QED
    BY <1>1, <1>5
<1>8. \A w \in Callers : call[w].at \in Leading => ~Waits(w, c)
  BY DEF Waits
<1> QED
  BY <1>2, <1>4, <1>6, <1>7, <1>8 DEF Settled

\* What cancelling one waiter does: it ends, the others on its future are
\* scheduled with CancelledError, and the leader's future is dead.
Detached(c) ==
  \A w \in Callers :
    /\ call'[w].key = call[w].key
    /\ call'[w].at \in Leading =>
         /\ call'[w].at = call[w].at
         /\ call'[w].gen = call[w].gen
         /\ call'[w].val = call[w].val
         /\ call'[w].need = call[w].need
         /\ w # call[c].fut => call'[w] = call[w]
    /\ call[w].at \in Leading =>
         call'[w].at = call[w].at /\ call'[w].need = call[w].need
    /\ call'[w].at = "waiting" /\ w # call[c].fut =>
         call'[w] = call[w] /\ ~Waits(w, call[c].fut)
    /\ call'[w].at \in {"woken", "returned"} =>
         /\ call'[w].at = call[w].at
         /\ call'[w].val = call[w].val
         /\ call'[w].need = call[w].need
    /\ call'[w].need \in {call[w].need, 0}
    /\ call'[w].val \in {call[w].val, NoValue}

LEMMA CancelEffect ==
  ASSUME TypeOK, NEW c \in Callers, CancelWaiter(c)
  PROVE  call' \in [Callers -> Call] /\ Detached(c)
<1> DEFINE Rejected(w) == [call[w] EXCEPT !.at = "rejected"]
           Dead(w) == [call[w] EXCEPT !.live = FALSE]
           After(w) == IF w = c THEN Over(c, "cancelled")
                       ELSE IF Waits(w, call[c].fut) THEN Rejected(w)
                       ELSE IF w = call[c].fut THEN Dead(w) ELSE call[w]
<1>1. call' = [w \in Callers |-> After(w)]
  BY DEF CancelWaiter
<1>2. ASSUME NEW w \in Callers
      PROVE  /\ Rejected(w) \in Call
             /\ Rejected(w).key = call[w].key
             /\ Rejected(w).at = "rejected"
             /\ Rejected(w).val = call[w].val
             /\ Rejected(w).need = call[w].need
  <2>1. call[w] \in Call
    BY DEF TypeOK
  <2> QED
    BY <2>1 DEF Call
<1>3. ASSUME NEW w \in Callers
      PROVE  /\ Dead(w) \in Call
             /\ Dead(w).key = call[w].key
             /\ Dead(w).at = call[w].at
             /\ Dead(w).gen = call[w].gen
             /\ Dead(w).val = call[w].val
             /\ Dead(w).need = call[w].need
  <2>1. call[w] \in Call
    BY DEF TypeOK
  <2> QED
    BY <2>1 DEF Call
<1>4. /\ Over(c, "cancelled") \in Call
      /\ Over(c, "cancelled").key = call[c].key
      /\ Over(c, "cancelled").at = "cancelled"
      /\ Over(c, "cancelled").val = NoValue
      /\ Over(c, "cancelled").need = 0
  BY OverFields
<1> HIDE DEF Rejected, Dead
<1>5. \A w \in Callers : After(w) \in Call
  BY <1>2, <1>3, <1>4 DEF TypeOK
<1>6. \A w \in Callers : call'[w] = After(w)
  BY <1>1
<1>7. call' \in [Callers -> Call]
  <2> HIDE DEF After
  <2> QED
    BY <1>1, <1>5
<1>8. call[c].at = "waiting"
  BY DEF CancelWaiter
<1>9. \A w \in Callers : call[w].at \in Leading => ~Waits(w, call[c].fut)
  BY DEF Waits
<1> QED
  BY <1>2, <1>3, <1>4, <1>6, <1>7, <1>8, <1>9 DEF Detached

\* No action breaks the type invariant.
LEMMA TypeStep == TypeOK /\ [Next]_vars => TypeOK'
<1> SUFFICES ASSUME TypeOK, [Next]_vars PROVE TypeOK'
  OBVIOUS
<1> USE TtlsAssumption
<1>1. ASSUME NEW c \in Callers, NEW k \in Keys, Hit(c, k) PROVE TypeOK'
  BY <1>1, OverFields DEF Hit, Started, TypeOK, Call, Entry
<1>2. ASSUME NEW c \in Callers, NEW k \in Keys, Join(c, k) PROVE TypeOK'
  BY <1>2 DEF Join, Missed, Started, TypeOK, Call, Value, NoValue
<1>3. ASSUME NEW c \in Callers, NEW k \in Keys, Lead(c, k) PROVE TypeOK'
  BY <1>3 DEF Lead, Missed, Started, TypeOK, Call, Value, NoValue
<1>4. ASSUME NEW c \in Callers, NEW ttl \in Ttls, Answer(c, ttl) PROVE TypeOK'
  BY <1>4 DEF Answer, Reply, TypeOK, Call, Value
<1>5. ASSUME NEW c \in Callers, Finish(c) PROVE TypeOK'
  <2>1. EntryOf(c) \in Entry /\ call[c].val \in Value
    BY DEF EntryOf, TypeOK, Call, Value, Entry
  <2>2. call' \in [Callers -> Call]
    BY <1>5, <2>1, SettleEffect DEF Finish
  <2> QED
    BY <1>5, <2>1, <2>2 DEF Finish, PopOwn, TypeOK, Call
<1>6. ASSUME NEW c \in Callers, Fail(c) \/ CancelLeader(c) PROVE TypeOK'
  <2>1. call' \in [Callers -> Call]
    BY <1>6, SettleEffect DEF Fail, CancelLeader, Abort, Value, NoValue
  <2> QED
    BY <1>6, <2>1 DEF Fail, CancelLeader, Abort, PopOwn, TypeOK, Call
<1>7. ASSUME NEW c \in Callers, Wake(c) \/ CancelWoken(c) PROVE TypeOK'
  BY <1>7, OverFields DEF Wake, CancelWoken, TypeOK
<1>8. ASSUME NEW c \in Callers, CancelWaiter(c) PROVE TypeOK'
  BY <1>8, CancelEffect DEF CancelWaiter, TypeOK
<1>9. ASSUME NEW k \in Keys, Invalidate(k) \/ Change(k) PROVE TypeOK'
  BY <1>9 DEF Invalidate, Change, TypeOK
<1>10. CASE Tick
  BY <1>10 DEF Tick, TypeOK
<1>11. CASE UNCHANGED vars
  BY <1>11 DEF vars, TypeOK
<1> QED
  BY <1>1, <1>2, <1>3, <1>4, <1>5, <1>6, <1>7, <1>8, <1>9, <1>10, <1>11 DEF Next, Step

\* The records of the calls keep their fields' types through every action.
THEOREM TypeCorrect == Spec => []TypeOK
<1>1. Init => TypeOK
  BY DEF Init, TypeOK, Call, Value, NoValue
<1> QED
  BY <1>1, TypeStep, PTL DEF Spec
-----------------------------------------------------------------------------
\* _in_flight holds at most one leader per key, of the current generation.
FlightInv ==
    \A k \in Keys : \A c \in inFlight[k] :
        /\ call[c].at \in Leading
        /\ call[c].key = k
        /\ call[c].gen = generation[k]
        /\ \A d \in inFlight[k] : c = d

\* A leader of the current generation is still registered, and the key was not
\* invalidated since it began.
LeaderInv ==
    \A c \in Callers : call[c].at \in Leading =>
        /\ call[c].gen <= generation[call[c].key]
        /\ call[c].gen = generation[call[c].key] =>
             /\ c \in inFlight[call[c].key]
             /\ call[c].need = floor[call[c].key]

\* A waiter and its leader began in the same generation.
WaiterInv ==
    \A w \in Callers : call[w].at = "waiting" =>
        /\ call[call[w].fut].at \in Leading
        /\ call[call[w].fut].key = call[w].key
        /\ call[call[w].fut].live
        /\ call[call[w].fut].need = call[w].need

\* Versions: floor and what callers hold are the upstream's past, and a value
\* on its way to a caller satisfies what that caller needs.
VersionInv ==
    /\ \A k \in Keys : floor[k] <= upstream[k]
    /\ \A c \in Callers :
         /\ call[c].need <= floor[call[c].key]
         /\ call[c].val.ver <= upstream[call[c].key]
         /\ call[c].at \in {"answered", "woken", "returned"} => call[c].need <= call[c].val.ver

\* A key has one entry, whose version is of this generation and no newer than the answer the
\* registered leader is about to store over it.
StoreInv ==
    /\ \A k \in Keys : \A e \in store[k] :
         /\ floor[k] <= e.val.ver
         /\ e.val.ver <= upstream[k]
         /\ \A f \in store[k] : e = f
    /\ \A c \in Callers : call[c].at = "answered" /\ MayStore(c) =>
         \A e \in store[call[c].key] : e.val.ver <= call[c].val.ver

Inv == /\ TypeOK
       /\ FlightInv
       /\ LeaderInv
       /\ SingleFlight
       /\ WaiterInv
       /\ VersionInv
       /\ StoreInv

\* Every action preserves the invariant.
LEMMA InvStep == Inv /\ [Next]_vars => Inv'
<1> SUFFICES ASSUME Inv, [Next]_vars PROVE Inv'
  OBVIOUS
<1>0. TypeOK'
  BY TypeStep DEF Inv
<1>1. ASSUME NEW c \in Callers, NEW k \in Keys, Hit(c, k) PROVE Inv'
  <2>1. FlightInv'
    BY <1>1, <1>0 DEF Inv, TypeOK, Call, Value, Entry, Hit, Started, FlightInv
  <2>2. LeaderInv'
    BY <1>1, <1>0 DEF Inv, TypeOK, Call, Value, Entry, Hit, Started, LeaderInv, FlightInv
  <2>3. SingleFlight'
    BY <1>1, <1>0 DEF Inv, TypeOK, Call, Value, Entry, Hit, Started, SingleFlight, LeaderInv, FlightInv
  <2>4. WaiterInv'
    BY <1>1, <1>0 DEF Inv, TypeOK, Call, Value, Entry, Hit, Started, WaiterInv, LeaderInv, FlightInv
  <2>5. VersionInv'
    BY <1>1, <1>0 DEF Inv, TypeOK, Call, Value, Entry, Hit, Started, VersionInv, StoreInv, WaiterInv
  <2>6. StoreInv'
    BY <1>1, <1>0 DEF Inv, TypeOK, Call, Value, Entry, Hit, Started, StoreInv, VersionInv, MayStore, LeaderInv, FlightInv
  <2> QED
    BY <1>0, <2>1, <2>2, <2>3, <2>4, <2>5, <2>6 DEF Inv
<1>2. ASSUME NEW c \in Callers, NEW k \in Keys, Join(c, k) PROVE Inv'
  <2>1. FlightInv'
    BY <1>2, <1>0 DEF Inv, TypeOK, Call, Value, Entry, Join, Missed, Started, NoValue, FlightInv
  <2>2. LeaderInv'
    BY <1>2, <1>0 DEF Inv, TypeOK, Call, Value, Entry, Join, Missed, Started, NoValue, LeaderInv, FlightInv
  <2>3. SingleFlight'
    BY <1>2, <1>0 DEF Inv, TypeOK, Call, Value, Entry, Join, Missed, Started, NoValue, SingleFlight, LeaderInv, FlightInv
  <2>4. WaiterInv'
    BY <1>2, <1>0 DEF Inv, TypeOK, Call, Value, Entry, Join, Missed, Started, NoValue, WaiterInv, LeaderInv, FlightInv
  <2>5. VersionInv'
    BY <1>2, <1>0 DEF Inv, TypeOK, Call, Value, Entry, Join, Missed, Started, NoValue, VersionInv, StoreInv, WaiterInv
  <2>6. StoreInv'
    BY <1>2, <1>0 DEF Inv, TypeOK, Call, Value, Entry, Join, Missed, Started, NoValue, StoreInv, VersionInv, MayStore, LeaderInv, FlightInv
  <2> QED
    BY <1>0, <2>1, <2>2, <2>3, <2>4, <2>5, <2>6 DEF Inv
<1>3. ASSUME NEW c \in Callers, NEW k \in Keys, Lead(c, k) PROVE Inv'
  <2>1. FlightInv'
    BY <1>3, <1>0 DEF Inv, TypeOK, Call, Value, Entry, Lead, Missed, Started, NoValue, FlightInv
  <2>2. LeaderInv'
    BY <1>3, <1>0 DEF Inv, TypeOK, Call, Value, Entry, Lead, Missed, Started, NoValue, LeaderInv, FlightInv
  <2>3. SingleFlight'
    BY <1>3, <1>0 DEF Inv, TypeOK, Call, Value, Entry, Lead, Missed, Started, NoValue, SingleFlight, LeaderInv, FlightInv
  <2>4. WaiterInv'
    BY <1>3, <1>0 DEF Inv, TypeOK, Call, Value, Entry, Lead, Missed, Started, NoValue, WaiterInv, LeaderInv, FlightInv
  <2>5. VersionInv'
    BY <1>3, <1>0 DEF Inv, TypeOK, Call, Value, Entry, Lead, Missed, Started, NoValue, VersionInv, StoreInv, WaiterInv
  <2>6. StoreInv'
    BY <1>3, <1>0 DEF Inv, TypeOK, Call, Value, Entry, Lead, Missed, Started, NoValue, StoreInv, VersionInv, MayStore, LeaderInv, FlightInv
  <2> QED
    BY <1>0, <2>1, <2>2, <2>3, <2>4, <2>5, <2>6 DEF Inv
<1>4. ASSUME NEW c \in Callers, NEW ttl \in Ttls, Answer(c, ttl) PROVE Inv'
  <2>1. FlightInv'
    BY <1>4, <1>0 DEF Inv, TypeOK, Call, Value, Entry, Answer, Reply, FlightInv
  <2>2. LeaderInv'
    BY <1>4, <1>0 DEF Inv, TypeOK, Call, Value, Entry, Answer, Reply, LeaderInv, FlightInv
  <2>3. SingleFlight'
    BY <1>4, <1>0 DEF Inv, TypeOK, Call, Value, Entry, Answer, Reply, SingleFlight, LeaderInv, FlightInv
  <2>4. WaiterInv'
    BY <1>4, <1>0 DEF Inv, TypeOK, Call, Value, Entry, Answer, Reply, WaiterInv, LeaderInv, FlightInv
  <2>5. VersionInv'
    BY <1>4, <1>0 DEF Inv, TypeOK, Call, Value, Entry, Answer, Reply, VersionInv, StoreInv, WaiterInv
  <2>6. StoreInv'
    BY <1>4, <1>0 DEF Inv, TypeOK, Call, Value, Entry, Answer, Reply, StoreInv, VersionInv, MayStore, LeaderInv, FlightInv
  <2> QED
    BY <1>0, <2>1, <2>2, <2>3, <2>4, <2>5, <2>6 DEF Inv
<1>5. ASSUME NEW c \in Callers, Finish(c) PROVE Inv'
  <2>0. \E own \in {"returned", "misfired"} : Settle(c, own, "woken", call[c].val)
    BY <1>5 DEF Finish
  <2>a. PICK own \in {"returned", "misfired"} : Settle(c, own, "woken", call[c].val)
    BY <2>0
  <2>b. call[c].val \in Value
    BY DEF Inv, TypeOK, Call
  <2>c. Settled(c, own, "woken", call[c].val)
    BY <2>a, <2>b, SettleEffect DEF Inv
  <2>d. call[c].at = "answered"
    BY <1>5 DEF Finish
  <2>e. inFlight' = PopOwn(c) /\ UNCHANGED <<generation, clock, upstream, floor>>
    BY <1>5 DEF Finish
  <2>f. store' = IF MayStore(c) THEN [store EXCEPT ![call[c].key] = {EntryOf(c)}] ELSE store
    BY <1>5 DEF Finish
  <2>1. FlightInv'
    BY <1>0, <2>c, <2>d, <2>e DEF Inv, TypeOK, Call, Value, Entry, Settled, PopOwn, MayStore, EntryOf, Waits, NoValue, FlightInv
  <2>2. LeaderInv'
    BY <1>0, <2>c, <2>d, <2>e DEF Inv, TypeOK, Call, Value, Entry, Settled, PopOwn, MayStore, EntryOf, Waits, NoValue, LeaderInv, FlightInv
  <2>3. SingleFlight'
    BY <1>0, <2>c, <2>d, <2>e DEF Inv, TypeOK, Call, Value, Entry, Settled, PopOwn, MayStore, EntryOf, Waits, NoValue, SingleFlight
  <2>4. WaiterInv'
    <3> SUFFICES ASSUME NEW w \in Callers, call'[w].at = "waiting"
                 PROVE  /\ call'[call'[w].fut].at \in Leading
                        /\ call'[call'[w].fut].key = call'[w].key
                        /\ call'[call'[w].fut].live
                        /\ call'[call'[w].fut].need = call'[w].need
      BY DEF WaiterInv
    <3>1. call'[w] = call[w] /\ ~Waits(w, c)
      BY <2>c DEF Settled
    <3>2. PICK l \in Callers : l = call[w].fut
      BY DEF Inv, TypeOK, Call
    <3>3. /\ l # c
          /\ call[l].at \in Leading
          /\ call[l].key = call[w].key
          /\ call[l].live
          /\ call[l].need = call[w].need
      BY <3>1, <3>2 DEF Waits, Inv, WaiterInv
    <3>4. call'[l] = call[l]
      BY <2>c, <3>3 DEF Settled
    <3> QED
      BY <3>1, <3>2, <3>3, <3>4
  <2>5. VersionInv'
    <3>1. \A k \in Keys : floor'[k] <= upstream'[k]
      BY <2>e DEF Inv, VersionInv
    <3>2. ASSUME NEW w \in Callers
          PROVE  /\ call'[w].need <= floor[call[w].key]
                 /\ call'[w].val.ver <= upstream[call[w].key]
                 /\ call'[w].at \in {"answered", "woken", "returned"} =>
                      call'[w].need <= call'[w].val.ver
      <4>0. /\ call[w] \in Call
            /\ call[w].need <= floor[call[w].key]
            /\ call[w].val.ver <= upstream[call[w].key]
            /\ call[w].at \in {"answered", "woken", "returned"} => call[w].need <= call[w].val.ver
            /\ floor[call[w].key] \in Nat
            /\ upstream[call[w].key] \in Nat
        BY DEF Inv, VersionInv, TypeOK, Call
      <4>1. CASE w = c
        BY <2>c, <2>d, <4>0, <4>1 DEF Settled, NoValue
      <4>2. CASE w # c /\ Waits(w, c)
        <5>1. /\ call[c].key = call[w].key
              /\ call[c].need = call[w].need
              /\ call[c].need <= call[c].val.ver
              /\ call[c].val.ver <= upstream[call[c].key]
          BY <2>d, <4>2 DEF Waits, Inv, WaiterInv, VersionInv
        <5> QED
          BY <2>c, <4>0, <4>2, <5>1 DEF Settled
      <4>3. CASE w # c /\ ~Waits(w, c)
        BY <2>c, <4>0, <4>3 DEF Settled
      <4> QED
        BY <4>1, <4>2, <4>3
    <3> QED
      BY <2>c, <2>e, <3>1, <3>2 DEF VersionInv, Settled
  <2>6. StoreInv'
    <3>1. ASSUME NEW k \in Keys, NEW e \in store'[k]
          PROVE  /\ floor[k] <= e.val.ver
                 /\ e.val.ver <= upstream[k]
                 /\ \A f \in store'[k] : e = f
      <4>1. CASE MayStore(c) /\ k = call[c].key
        <5>1. e.val = call[c].val /\ \A f \in store'[k] : e = f
          BY <2>f, <4>1 DEF EntryOf, Inv, TypeOK
        <5>2. /\ call[c].need = floor[k]
              /\ call[c].need <= call[c].val.ver
              /\ call[c].val.ver <= upstream[k]
          BY <2>d, <4>1 DEF MayStore, Inv, LeaderInv, VersionInv
        <5> QED
          BY <5>1, <5>2
      <4>2. CASE ~(MayStore(c) /\ k = call[c].key)
        <5>1. store'[k] = store[k]
          BY <2>f, <4>2 DEF Inv, TypeOK
        <5> QED
          BY <5>1 DEF Inv, StoreInv
      <4> QED
        BY <4>1, <4>2
    <3>2. ASSUME NEW d \in Callers, call'[d].at = "answered", MayStore(d)',
                 NEW e \in store'[call'[d].key]
          PROVE  e.val.ver <= call'[d].val.ver
      <4>1. d # c /\ call'[d] = call[d] /\ call[d].at = "answered" /\ MayStore(d)
        BY <2>c, <2>e, <3>2 DEF Settled, MayStore
      <4>2. call[d].key \in Keys /\ call[c].key \in Keys
        BY DEF Inv, TypeOK, Call
      <4>3. d \in inFlight[call[d].key]
        BY <4>1 DEF MayStore, Inv, LeaderInv
      <4>4. MayStore(c) => c \in inFlight[call[c].key]
        BY <2>d DEF MayStore, Inv, LeaderInv
      <4>5. ~(MayStore(c) /\ call[c].key = call[d].key)
        BY <4>1, <4>2, <4>3, <4>4 DEF Inv, FlightInv
      <4>6. store'[call[d].key] = store[call[d].key]
        BY <2>f, <4>2, <4>5 DEF Inv, TypeOK
      <4> QED
        BY <3>2, <4>1, <4>6 DEF Inv, StoreInv
    <3> QED
      BY <2>e, <3>1, <3>2 DEF StoreInv
  <2> QED
    BY <1>0, <2>1, <2>2, <2>3, <2>4, <2>5, <2>6 DEF Inv
<1>6. ASSUME NEW c \in Callers, Fail(c) \/ CancelLeader(c) PROVE Inv'
  <2>a. PICK own \in {"raised", "cancelled"} : Settle(c, own, "rejected", NoValue)
    BY <1>6 DEF Fail, CancelLeader, Abort
  <2>b. NoValue \in Value
    BY DEF NoValue, Value
  <2>c. Settled(c, own, "rejected", NoValue)
    BY <2>a, <2>b, SettleEffect DEF Inv
  <2>d. call[c].at \in Leading
    BY <1>6 DEF Fail, CancelLeader
  <2>e. inFlight' = PopOwn(c) /\ UNCHANGED <<store, generation, clock, upstream, floor>>
    BY <1>6 DEF Fail, CancelLeader, Abort
  <2>1. FlightInv'
    BY <1>0, <2>a, <2>c, <2>d, <2>e DEF Inv, TypeOK, Call, Value, Entry, Settled, PopOwn, MayStore, Waits, NoValue, FlightInv
  <2>2. LeaderInv'
    BY <1>0, <2>a, <2>c, <2>d, <2>e DEF Inv, TypeOK, Call, Value, Entry, Settled, PopOwn, MayStore, Waits, NoValue, LeaderInv, FlightInv
  <2>3. SingleFlight'
    BY <1>0, <2>a, <2>c, <2>d, <2>e DEF Inv, TypeOK, Call, Value, Entry, Settled, PopOwn, MayStore, Waits, NoValue, SingleFlight
  <2>4. WaiterInv'
    <3> SUFFICES ASSUME NEW w \in Callers, call'[w].at = "waiting"
                 PROVE  /\ call'[call'[w].fut].at \in Leading
                        /\ call'[call'[w].fut].key = call'[w].key
                        /\ call'[call'[w].fut].live
                        /\ call'[call'[w].fut].need = call'[w].need
      BY DEF WaiterInv
    <3>1. call'[w] = call[w] /\ ~Waits(w, c)
      BY <2>c DEF Settled
    <3>2. PICK l \in Callers : l = call[w].fut
      BY DEF Inv, TypeOK, Call
    <3>3. /\ l # c
          /\ call[l].at \in Leading
          /\ call[l].key = call[w].key
          /\ call[l].live
          /\ call[l].need = call[w].need
      BY <3>1, <3>2 DEF Waits, Inv, WaiterInv
    <3>4. call'[l] = call[l]
      BY <2>c, <3>3 DEF Settled
    <3> QED
      BY <3>1, <3>2, <3>3, <3>4
  <2>5. VersionInv'
    <3>1. \A k \in Keys : floor'[k] <= upstream'[k]
      BY <2>e DEF Inv, VersionInv
    <3>2. ASSUME NEW w \in Callers
          PROVE  /\ call'[w].need <= floor[call[w].key]
                 /\ call'[w].val.ver <= upstream[call[w].key]
                 /\ call'[w].at \in {"answered", "woken", "returned"} =>
                      call'[w].need <= call'[w].val.ver
      <4>0. /\ call[w] \in Call
            /\ call[w].need <= floor[call[w].key]
            /\ call[w].val.ver <= upstream[call[w].key]
            /\ call[w].at \in {"answered", "woken", "returned"} => call[w].need <= call[w].val.ver
            /\ floor[call[w].key] \in Nat
            /\ upstream[call[w].key] \in Nat
        BY DEF Inv, VersionInv, TypeOK, Call
      <4>1. CASE w = c
        BY <2>a, <2>c, <4>0, <4>1 DEF Settled, NoValue
      <4>2. CASE w # c /\ Waits(w, c)
        BY <2>c, <4>0, <4>2 DEF Settled, NoValue
      <4>3. CASE w # c /\ ~Waits(w, c)
        BY <2>c, <4>0, <4>3 DEF Settled
      <4> QED
        BY <4>1, <4>2, <4>3
    <3> QED
      BY <2>c, <2>e, <3>1, <3>2 DEF VersionInv, Settled
  <2>6. StoreInv'
    BY <1>0, <2>a, <2>c, <2>d, <2>e DEF Inv, TypeOK, Call, Value, Entry, Settled, PopOwn, MayStore, Waits, NoValue, StoreInv, VersionInv, LeaderInv, FlightInv
  <2> QED
    BY <1>0, <2>1, <2>2, <2>3, <2>4, <2>5, <2>6 DEF Inv
<1>7. ASSUME NEW c \in Callers, Wake(c) \/ CancelWoken(c) PROVE Inv'
  <2>a. PICK stage \in {"returned", "raised", "cancelled"} :
          /\ call' = [call EXCEPT ![c] = Over(c, stage)]
          /\ stage = "returned" => call[c].at = "woken"
    BY <1>7 DEF Wake, CancelWoken
  <2>c. /\ call'[c].at = stage
        /\ call'[c].key = call[c].key
        /\ stage = "returned" => call'[c].val = call[c].val /\ call'[c].need = call[c].need
        /\ stage # "returned" => call'[c].val = NoValue /\ call'[c].need = 0
        /\ \A w \in Callers \ {c} : call'[w] = call[w]
    BY <2>a, OverFields DEF Inv, TypeOK
  <2>d. call[c].at \in {"woken", "rejected"}
    BY <1>7 DEF Wake, CancelWoken
  <2>e. UNCHANGED <<store, inFlight, generation, clock, upstream, floor>>
    BY <1>7 DEF Wake, CancelWoken
  <2>1. FlightInv'
    BY <1>0, <2>a, <2>c, <2>d, <2>e DEF Inv, TypeOK, Call, Value, Entry, MayStore, NoValue, FlightInv
  <2>2. LeaderInv'
    BY <1>0, <2>a, <2>c, <2>d, <2>e DEF Inv, TypeOK, Call, Value, Entry, MayStore, NoValue, LeaderInv, FlightInv
  <2>3. SingleFlight'
    BY <1>0, <2>a, <2>c, <2>d, <2>e DEF Inv, TypeOK, Call, Value, Entry, MayStore, NoValue, SingleFlight
  <2>4. WaiterInv'
    BY <1>0, <2>a, <2>c, <2>d, <2>e DEF Inv, TypeOK, Call, Value, Entry, MayStore, NoValue, WaiterInv
  <2>5. VersionInv'
    BY <1>0, <2>a, <2>c, <2>d, <2>e DEF Inv, TypeOK, Call, Value, Entry, MayStore, NoValue, VersionInv, WaiterInv
  <2>6. StoreInv'
    BY <1>0, <2>a, <2>c, <2>d, <2>e DEF Inv, TypeOK, Call, Value, Entry, MayStore, NoValue, StoreInv, VersionInv, LeaderInv, FlightInv
  <2> QED
    BY <1>0, <2>1, <2>2, <2>3, <2>4, <2>5, <2>6 DEF Inv
<1>8. ASSUME NEW c \in Callers, CancelWaiter(c) PROVE Inv'
  <2>c. Detached(c) /\ call[c].at = "waiting"
    BY <1>8, CancelEffect DEF Inv, CancelWaiter
  <2>e. UNCHANGED <<store, inFlight, generation, clock, upstream, floor>>
    BY <1>8 DEF CancelWaiter
  <2>1. FlightInv'
    BY <1>0, <2>c, <2>e DEF Inv, TypeOK, Call, Value, Entry, Detached, MayStore, Waits, NoValue, FlightInv
  <2>2. LeaderInv'
    BY <1>0, <2>c, <2>e DEF Inv, TypeOK, Call, Value, Entry, Detached, MayStore, Waits, NoValue, LeaderInv, FlightInv
  <2>3. SingleFlight'
    BY <1>0, <2>c, <2>e DEF Inv, TypeOK, Call, Value, Entry, Detached, MayStore, Waits, NoValue, SingleFlight
  <2>4. WaiterInv'
    <3> SUFFICES ASSUME NEW w \in Callers, call'[w].at = "waiting"
                 PROVE  /\ call'[call'[w].fut].at \in Leading
                        /\ call'[call'[w].fut].key = call'[w].key
                        /\ call'[call'[w].fut].live
                        /\ call'[call'[w].fut].need = call'[w].need
      BY DEF WaiterInv
    <3>1. call[call[c].fut].at \in Leading /\ call[c].fut \in Callers
      BY <2>c DEF Inv, WaiterInv, TypeOK, Call
    <3>2. call'[w] = call[w] /\ ~Waits(w, call[c].fut)
      BY <2>c, <3>1 DEF Detached
    <3>3. PICK l \in Callers : l = call[w].fut
      BY DEF Inv, TypeOK, Call
    <3>4. /\ l # call[c].fut
          /\ call[l].at \in Leading
          /\ call[l].key = call[w].key
          /\ call[l].live
          /\ call[l].need = call[w].need
      BY <3>2, <3>3 DEF Waits, Inv, WaiterInv
    <3>5. call'[l] = call[l]
      BY <2>c, <3>4 DEF Detached
    <3> QED
      BY <3>2, <3>3, <3>4, <3>5
  <2>5. VersionInv'
    <3>1. \A k \in Keys : floor'[k] <= upstream'[k]
      BY <2>e DEF Inv, VersionInv
    <3>2. ASSUME NEW w \in Callers
          PROVE  /\ call'[w].need <= floor[call[w].key]
                 /\ call'[w].val.ver <= upstream[call[w].key]
                 /\ call'[w].at \in {"answered", "woken", "returned"} =>
                      call'[w].need <= call'[w].val.ver
      <4>0. /\ call[w] \in Call
            /\ call[w].need <= floor[call[w].key]
            /\ call[w].val.ver <= upstream[call[w].key]
            /\ call[w].at \in {"answered", "woken", "returned"} => call[w].need <= call[w].val.ver
            /\ floor[call[w].key] \in Nat
            /\ upstream[call[w].key] \in Nat
        BY DEF Inv, VersionInv, TypeOK, Call
      <4> QED
        BY <2>c, <4>0 DEF Detached, NoValue, Call, Value
    <3> QED
      BY <2>c, <2>e, <3>1, <3>2 DEF VersionInv, Detached
  <2>6. StoreInv'
    <3>1. \A d \in Callers : call'[d].at = "answered" /\ MayStore(d)' =>
            /\ call[d].at = "answered" /\ MayStore(d)
            /\ call'[d].key = call[d].key /\ call'[d].val = call[d].val
      BY <2>c, <2>e DEF Detached, MayStore
    <3> QED
      BY <2>e, <3>1 DEF Inv, StoreInv
  <2> QED
    BY <1>0, <2>1, <2>2, <2>3, <2>4, <2>5, <2>6 DEF Inv
<1>9. ASSUME NEW k \in Keys, Invalidate(k) PROVE Inv'
  <2>1. FlightInv'
    BY <1>9, <1>0 DEF Inv, TypeOK, Call, Value, Entry, Invalidate, FlightInv
  <2>2. LeaderInv'
    BY <1>9, <1>0 DEF Inv, TypeOK, Call, Value, Entry, Invalidate, LeaderInv, FlightInv
  <2>3. SingleFlight'
    BY <1>9, <1>0 DEF Inv, TypeOK, Call, Value, Entry, Invalidate, SingleFlight, LeaderInv, FlightInv
  <2>4. WaiterInv'
    BY <1>9, <1>0 DEF Inv, TypeOK, Call, Value, Entry, Invalidate, WaiterInv, LeaderInv, FlightInv
  <2>5. VersionInv'
    BY <1>9, <1>0 DEF Inv, TypeOK, Call, Value, Entry, Invalidate, VersionInv, StoreInv, WaiterInv
  <2>6. StoreInv'
    BY <1>9, <1>0 DEF Inv, TypeOK, Call, Value, Entry, Invalidate, StoreInv, VersionInv, MayStore, LeaderInv, FlightInv
  <2> QED
    BY <1>0, <2>1, <2>2, <2>3, <2>4, <2>5, <2>6 DEF Inv
<1>10. ASSUME NEW k \in Keys, Change(k) PROVE Inv'
  <2>1. FlightInv'
    BY <1>10, <1>0 DEF Inv, TypeOK, Call, Value, Entry, Change, FlightInv
  <2>2. LeaderInv'
    BY <1>10, <1>0 DEF Inv, TypeOK, Call, Value, Entry, Change, LeaderInv, FlightInv
  <2>3. SingleFlight'
    BY <1>10, <1>0 DEF Inv, TypeOK, Call, Value, Entry, Change, SingleFlight, LeaderInv, FlightInv
  <2>4. WaiterInv'
    BY <1>10, <1>0 DEF Inv, TypeOK, Call, Value, Entry, Change, WaiterInv, LeaderInv, FlightInv
  <2>5. VersionInv'
    BY <1>10, <1>0 DEF Inv, TypeOK, Call, Value, Entry, Change, VersionInv, StoreInv, WaiterInv
  <2>6. StoreInv'
    BY <1>10, <1>0 DEF Inv, TypeOK, Call, Value, Entry, Change, StoreInv, VersionInv, MayStore, LeaderInv, FlightInv
  <2> QED
    BY <1>0, <2>1, <2>2, <2>3, <2>4, <2>5, <2>6 DEF Inv
<1>11. ASSUME Tick PROVE Inv'
  <2>1. FlightInv'
    BY <1>11, <1>0 DEF Inv, TypeOK, Call, Value, Entry, Tick, FlightInv
  <2>2. LeaderInv'
    BY <1>11, <1>0 DEF Inv, TypeOK, Call, Value, Entry, Tick, LeaderInv, FlightInv
  <2>3. SingleFlight'
    BY <1>11, <1>0 DEF Inv, TypeOK, Call, Value, Entry, Tick, SingleFlight, LeaderInv, FlightInv
  <2>4. WaiterInv'
    BY <1>11, <1>0 DEF Inv, TypeOK, Call, Value, Entry, Tick, WaiterInv, LeaderInv, FlightInv
  <2>5. VersionInv'
    BY <1>11, <1>0 DEF Inv, TypeOK, Call, Value, Entry, Tick, VersionInv, StoreInv, WaiterInv
  <2>6. StoreInv'
    BY <1>11, <1>0 DEF Inv, TypeOK, Call, Value, Entry, Tick, StoreInv, VersionInv, MayStore, LeaderInv, FlightInv
  <2> QED
    BY <1>0, <2>1, <2>2, <2>3, <2>4, <2>5, <2>6 DEF Inv
<1>12. ASSUME UNCHANGED vars PROVE Inv'
  <2>1. FlightInv'
    BY <1>12, <1>0 DEF Inv, TypeOK, Call, Value, Entry, vars, FlightInv
  <2>2. LeaderInv'
    BY <1>12, <1>0 DEF Inv, TypeOK, Call, Value, Entry, vars, LeaderInv, FlightInv
  <2>3. SingleFlight'
    BY <1>12, <1>0 DEF Inv, TypeOK, Call, Value, Entry, vars, SingleFlight, LeaderInv, FlightInv
  <2>4. WaiterInv'
    BY <1>12, <1>0 DEF Inv, TypeOK, Call, Value, Entry, vars, WaiterInv, LeaderInv, FlightInv
  <2>5. VersionInv'
    BY <1>12, <1>0 DEF Inv, TypeOK, Call, Value, Entry, vars, VersionInv, StoreInv, WaiterInv
  <2>6. StoreInv'
    BY <1>12, <1>0 DEF Inv, TypeOK, Call, Value, Entry, vars, StoreInv, VersionInv, MayStore, LeaderInv, FlightInv
  <2> QED
    BY <1>0, <2>1, <2>2, <2>3, <2>4, <2>5, <2>6 DEF Inv
<1> QED
  BY <1>1, <1>2, <1>3, <1>4, <1>5, <1>6, <1>7, <1>8, <1>9, <1>10, <1>11, <1>12 DEF Next, Step

\* The invariant holds of every reachable state.
LEMMA Invariance == Spec => []Inv
<1>1. Init => Inv
  <2> SUFFICES ASSUME Init PROVE Inv
    OBVIOUS
  <2>1. TypeOK
    BY DEF Init, TypeOK, Call, Value, NoValue
  <2>2. FlightInv /\ LeaderInv /\ SingleFlight /\ WaiterInv /\ StoreInv
    BY DEF Init, FlightInv, LeaderInv, SingleFlight, WaiterInv, StoreInv
  <2>3. VersionInv
    BY DEF Init, VersionInv, NoValue
  <2> QED
    BY <2>1, <2>2, <2>3 DEF Inv
<1> QED
  BY <1>1, InvStep, PTL DEF Spec
-----------------------------------------------------------------------------
\* No call that begins after an invalidation returns a value fetched before it.
THEOREM NoStaleReadHolds == Spec => []NoStaleRead
<1>1. Inv => NoStaleRead
  BY DEF Inv, TypeOK, Call, Value, VersionInv, NoStaleRead
<1> QED
  BY <1>1, Invariance, PTL

\* Within a generation a key has one leader.
THEOREM SingleFlightHolds == Spec => []SingleFlight
<1>1. Inv => SingleFlight
  BY DEF Inv
<1> QED
  BY <1>1, Invariance, PTL

\* Whoever waits, waits on a leader at work whose future is alive.
THEOREM NoOrphanedWaiterHolds == Spec => []NoOrphanedWaiter
<1>1. Inv => NoOrphanedWaiter
  BY DEF Inv, WaiterInv, NoOrphanedWaiter
<1> QED
  BY <1>1, Invariance, PTL

\* _in_flight never holds the future of a fetch that has ended.
THEOREM NoDeadFlightHolds == Spec => []NoDeadFlight
<1>1. Inv => NoDeadFlight
  BY DEF Inv, FlightInv, NoDeadFlight
<1> QED
  BY <1>1, Invariance, PTL

\* While a key stays cached its version only grows.
THEOREM CachedVersionGrowsHolds == Spec => CachedVersionGrows
<1> DEFINE Grows == \A k \in Keys : \A e \in store[k] : \A f \in store'[k] : f.val.ver >= e.val.ver
<1>1. ASSUME Inv, [Next]_vars PROVE Grows
  <2> SUFFICES ASSUME NEW k \in Keys, NEW e \in store[k], NEW f \in store'[k]
               PROVE  f.val.ver >= e.val.ver
    OBVIOUS
  <2>0. e \in Entry
    BY <1>1 DEF Inv, TypeOK
  <2>1. CASE store'[k] \subseteq store[k]
    <3>1. e = f
      BY <1>1, <2>1 DEF Inv, StoreInv
    <3> QED
      BY <2>0, <3>1 DEF Entry, Value
  <2>2. ASSUME NEW c \in Callers, Finish(c) PROVE f.val.ver >= e.val.ver
    <3>1. CASE MayStore(c) /\ k = call[c].key
      <4>1. f.val = call[c].val
        BY <1>1, <2>2, <3>1 DEF Finish, EntryOf, Inv, TypeOK
      <4>2. e.val.ver <= call[c].val.ver
        BY <1>1, <2>2, <3>1 DEF Finish, Inv, StoreInv
      <4> QED
        BY <1>1, <2>0, <4>1, <4>2 DEF Inv, TypeOK, Call, Entry, Value
    <3>2. CASE ~(MayStore(c) /\ k = call[c].key)
      <4>1. store'[k] = store[k]
        BY <1>1, <2>2, <3>2 DEF Finish, Inv, TypeOK
      <4> QED
        BY <2>1, <4>1
    <3> QED
      BY <3>1, <3>2
  <2>3. CASE \A c \in Callers : ~Finish(c)
    <3>1. store'[k] \subseteq store[k]
      BY <1>1, <2>3 DEF Next, Step, Hit, Join, Lead, Answer, Reply, Fail, CancelLeader, Abort, Wake,
                        CancelWaiter, CancelWoken, Invalidate, Change, Tick, vars, Inv, TypeOK
    <3> QED
      BY <2>1, <3>1
  <2> QED
    BY <2>2, <2>3
<1> QED
  BY <1>1, Invariance, PTL DEF CachedVersionGrows, Spec
-----------------------------------------------------------------------------
(* The refinement.  Asked and Got are what FreshRead sees of the calls.  A
   step either shows nothing of any call, or something of one call.          *)
Asked == [c \in Callers |->
            IF call[c].at \in Ended THEN <<>> ELSE <<call[c].key, call[c].need>>]
Got == [c \in Callers |-> IF call[c].at = "returned" THEN <<call[c].val.ver>> ELSE <<>>]

Unseen(w) ==
    /\ call'[w].at \in Ended <=> call[w].at \in Ended
    /\ call[w].at \notin Ended => call'[w].key = call[w].key /\ call'[w].need = call[w].need
    /\ call'[w].at = "returned" <=> call[w].at = "returned"
    /\ call[w].at = "returned" => call'[w].val.ver = call[w].val.ver

\* What the other calls show is unchanged: the step is c's alone.
LEMMA OneCallSeen ==
  ASSUME NEW c \in Callers, \A w \in Callers \ {c} : Unseen(w)
  PROVE  /\ Asked' = [Asked EXCEPT ![c] = Asked'[c]]
         /\ Got' = [Got EXCEPT ![c] = Got'[c]]
<1>1. \A w \in Callers \ {c} : Asked'[w] = Asked[w] /\ Got'[w] = Got[w]
  BY DEF Asked, Got, Unseen
<1>2. Asked = [w \in Callers |-> Asked[w]] /\ Asked' = [w \in Callers |-> Asked'[w]]
  BY DEF Asked
<1>3. Got = [w \in Callers |-> Got[w]] /\ Got' = [w \in Callers |-> Got'[w]]
  BY DEF Got
<1> QED
  BY <1>1, <1>2, <1>3

\* A step that shows nothing of any call.
LEMMA NoCallSeen ==
  ASSUME \A w \in Callers : Unseen(w)
  PROVE  Asked' = Asked /\ Got' = Got
<1>1. \A w \in Callers : Asked'[w] = Asked[w] /\ Got'[w] = Got[w]
  BY DEF Asked, Got, Unseen
<1>2. Asked = [w \in Callers |-> Asked[w]] /\ Asked' = [w \in Callers |-> Asked'[w]]
  BY DEF Asked
<1>3. Got = [w \in Callers |-> Got[w]] /\ Got' = [w \in Callers |-> Got'[w]]
  BY DEF Got
<1> QED
  BY <1>1, <1>2, <1>3

\* A call that begins and is not answered at once.
LEMMA BeginSeen ==
  ASSUME NEW c \in Callers, NEW k \in Keys, \A w \in Callers \ {c} : Unseen(w),
         call[c].at \in Ended, call'[c].at \notin Ended,
         call'[c].key = k, call'[c].need = floor[k], UNCHANGED <<upstream, floor>>
  PROVE  Promise!Begin(c)
<1>1. Asked[c] = <<>> /\ Asked'[c] = <<k, floor[k]>> /\ Got'[c] = <<>>
  BY DEF Asked, Got
<1> QED
  BY <1>1, OneCallSeen DEF Promise!Begin, Asked, Got

\* A call answered in the step in which it begins.
LEMMA ImmediateSeen ==
  ASSUME NEW c \in Callers, NEW k \in Keys, \A w \in Callers \ {c} : Unseen(w),
         call[c].at \in Ended, call'[c].at = "returned",
         call'[c].val.ver \in floor[k] .. upstream[k], UNCHANGED <<upstream, floor>>
  PROVE  Promise!Immediate(c)
<1>1. Asked[c] = <<>> /\ Asked'[c] = <<>> /\ Got'[c] = <<call'[c].val.ver>>
  BY DEF Asked, Got
<1>2. Asked' = Asked
  BY <1>1, OneCallSeen DEF Asked
<1> QED
  BY <1>1, <1>2, OneCallSeen DEF Promise!Immediate, Asked, Got

\* A call that was waiting ends with a value.
LEMMA ReturnSeen ==
  ASSUME NEW c \in Callers, \A w \in Callers \ {c} : Unseen(w),
         call[c].at \notin Ended, call'[c].at = "returned",
         call'[c].val.ver \in call[c].need .. upstream[call[c].key],
         UNCHANGED <<upstream, floor>>
  PROVE  Promise!Return(c)
<1>1. /\ Asked[c] = <<call[c].key, call[c].need>>
      /\ Asked'[c] = <<>>
      /\ Got'[c] = <<call'[c].val.ver>>
  BY DEF Asked, Got
<1>2. Asked[c] # <<>> /\ Asked[c][1] = call[c].key /\ Asked[c][2] = call[c].need
  BY <1>1
<1> QED
  BY <1>1, <1>2, OneCallSeen DEF Promise!Return, Asked, Got

\* A call that ends without one.
LEMMA RaiseSeen ==
  ASSUME NEW c \in Callers, \A w \in Callers \ {c} : Unseen(w),
         call'[c].at \in Ended, call'[c].at # "returned", UNCHANGED <<upstream, floor>>
  PROVE  Promise!Raise(c)
<1>1. Asked'[c] = <<>> /\ Got'[c] = <<>>
  BY DEF Asked, Got
<1> QED
  BY <1>1, OneCallSeen DEF Promise!Raise, Asked, Got

\* Every step of the cache is a step of FreshRead, or shows nothing.
LEMMA PromiseStep == Inv /\ [Next]_vars => [Promise!Next]_(Promise!vars)
<1> SUFFICES ASSUME Inv, [Next]_vars PROVE [Promise!Next]_(Promise!vars)
  OBVIOUS
<1>0. TypeOK
  BY DEF Inv
<1>t. \A w \in Callers : call[w] \in Call
  BY <1>0 DEF TypeOK
<1>s. ASSUME \A w \in Callers : Unseen(w), UNCHANGED <<upstream, floor>> PROVE UNCHANGED Promise!vars
  BY <1>s, NoCallSeen DEF Promise!vars, Asked, Got
<1>1. ASSUME NEW c \in Callers, NEW k \in Keys, Hit(c, k) PROVE Promise!Immediate(c)
  <2>1. PICK e \in store[k] : call' = [call EXCEPT ![c] = Started(c, k, "returned", c, e.val)]
    BY <1>1 DEF Hit
  <2>2. /\ \A w \in Callers \ {c} : Unseen(w)
        /\ call'[c].at = "returned"
        /\ call'[c].val = e.val
    BY <1>0, <2>1 DEF Unseen, Started, TypeOK
  <2>3. e \in Entry /\ floor[k] \in Nat /\ upstream[k] \in Nat
    BY <1>0 DEF TypeOK
  <2>4. e.val.ver \in floor[k] .. upstream[k]
    BY <2>3 DEF Inv, StoreInv, Entry, Value
  <2> QED
    BY <1>1, <2>2, <2>4, ImmediateSeen DEF Hit
<1>2. ASSUME NEW c \in Callers, NEW k \in Keys, Join(c, k) \/ Lead(c, k) PROVE Promise!Begin(c)
  <2>1. PICK stage \in {"waiting", "rejected", "fetching"}, l \in Callers :
          call' = [call EXCEPT ![c] = Started(c, k, stage, l, NoValue)]
    BY <1>0, <1>2 DEF Join, Lead, TypeOK
  <2>2. /\ \A w \in Callers \ {c} : Unseen(w)
        /\ call'[c].at = stage /\ call'[c].key = k /\ call'[c].need = floor[k]
    BY <1>0, <2>1 DEF Unseen, Started, TypeOK
  <2> QED
    BY <1>2, <2>2, BeginSeen DEF Join, Lead, Missed
<1>3. ASSUME NEW c \in Callers, NEW ttl \in Ttls, Answer(c, ttl) PROVE UNCHANGED Promise!vars
  <2>1. \A w \in Callers : Unseen(w)
    BY <1>t, <1>0, <1>3 DEF Answer, Reply, Unseen, TypeOK, Call
  <2> QED
    BY <1>3, <1>s, <2>1 DEF Answer, Reply
<1>4. ASSUME NEW c \in Callers, Finish(c) PROVE Promise!Return(c) \/ Promise!Raise(c)
  <2>1. PICK own \in {"returned", "misfired"} : Settle(c, own, "woken", call[c].val)
    BY <1>4 DEF Finish
  <2>2. call[c].at = "answered" /\ UNCHANGED <<upstream, floor>>
    BY <1>4 DEF Finish
  <2>3. call[c].val \in Value
    BY <1>t DEF Call
  <2>4. Settled(c, own, "woken", call[c].val)
    BY <1>0, <2>1, <2>3, SettleEffect
  <2>5. \A w \in Callers \ {c} : Unseen(w)
    BY <2>4 DEF Settled, Unseen, Waits
  <2>6. CASE own = "misfired"
    BY <2>2, <2>4, <2>5, <2>6, RaiseSeen DEF Settled
  <2>7. CASE own = "returned"
    <3>1. call'[c].at = "returned" /\ call'[c].val = call[c].val
      BY <2>4, <2>7 DEF Settled
    <3>2. call[c].val.ver \in call[c].need .. upstream[call[c].key]
      BY <1>t, <1>0, <2>2 DEF Inv, VersionInv, TypeOK, Call, Value
    <3> QED
      BY <2>2, <2>5, <3>1, <3>2, ReturnSeen
  <2> QED
    BY <2>6, <2>7
<1>5. ASSUME NEW c \in Callers, Fail(c) \/ CancelLeader(c) PROVE Promise!Raise(c)
  <2>1. PICK own \in {"raised", "cancelled"} : Settle(c, own, "rejected", NoValue)
    BY <1>5 DEF Fail, CancelLeader, Abort
  <2>2. UNCHANGED <<upstream, floor>>
    BY <1>5 DEF Fail, CancelLeader, Abort
  <2>3. NoValue \in Value
    BY DEF NoValue, Value
  <2>4. Settled(c, own, "rejected", NoValue)
    BY <1>0, <2>1, <2>3, SettleEffect
  <2>5. \A w \in Callers \ {c} : Unseen(w)
    BY <2>4 DEF Settled, Unseen, Waits
  <2> QED
    BY <2>2, <2>4, <2>5, RaiseSeen DEF Settled
<1>6. ASSUME NEW c \in Callers, Wake(c) \/ CancelWoken(c)
      PROVE  Promise!Return(c) \/ Promise!Raise(c)
  <2>1. PICK stage \in {"returned", "raised", "cancelled"} :
          /\ call' = [call EXCEPT ![c] = Over(c, stage)]
          /\ stage = "returned" => call[c].at = "woken"
    BY <1>6 DEF Wake, CancelWoken
  <2>2. UNCHANGED <<upstream, floor>>
    BY <1>6 DEF Wake, CancelWoken
  <2>3. /\ call'[c].at = stage
        /\ stage = "returned" => call'[c].val = call[c].val
        /\ \A w \in Callers \ {c} : call'[w] = call[w]
    BY <1>0, <2>1, OverFields DEF TypeOK
  <2>4. \A w \in Callers \ {c} : Unseen(w)
    BY <2>3 DEF Unseen
  <2>5. CASE stage # "returned"
    BY <2>2, <2>3, <2>4, <2>5, RaiseSeen
  <2>6. CASE stage = "returned"
    <3>1. call[c].val.ver \in call[c].need .. upstream[call[c].key]
      BY <1>t, <1>0, <2>1, <2>6 DEF Inv, VersionInv, TypeOK, Call, Value
    <3> QED
      BY <2>1, <2>2, <2>3, <2>4, <2>6, <3>1, ReturnSeen
  <2> QED
    BY <2>5, <2>6
<1>7. ASSUME NEW c \in Callers, CancelWaiter(c) PROVE Promise!Raise(c)
  <2> DEFINE l == call[c].fut
  <2>1. call' = [w \in Callers |->
                   IF w = c THEN Over(c, "cancelled")
                   ELSE IF Waits(w, l) THEN [call[w] EXCEPT !.at = "rejected"]
                   ELSE IF w = l THEN [call[w] EXCEPT !.live = FALSE]
                   ELSE call[w]]
    BY <1>7 DEF CancelWaiter
  <2>2. call'[c].at = "cancelled"
    BY <1>0, <2>1, OverFields
  <2>3. ASSUME NEW w \in Callers \ {c} PROVE Unseen(w)
    <3>1. call[w] \in Call
      BY <1>t
    <3>2. CASE Waits(w, l)
      <4>1. call'[w] = [call[w] EXCEPT !.at = "rejected"]
        BY <2>1, <3>2
      <4> QED
        BY <3>1, <3>2, <4>1 DEF Unseen, Waits, Call
    <3>3. CASE ~Waits(w, l) /\ w = l
      <4>1. call'[w] = [call[w] EXCEPT !.live = FALSE]
        BY <2>1, <3>3
      <4> QED
        BY <3>1, <4>1 DEF Unseen, Call
    <3>4. CASE ~Waits(w, l) /\ w # l
      <4>1. call'[w] = call[w]
        BY <2>1, <3>4
      <4> QED
        BY <4>1 DEF Unseen
    <3> QED
      BY <3>2, <3>3, <3>4
  <2> QED
    BY <1>7, <2>2, <2>3, RaiseSeen DEF CancelWaiter
<1>8. ASSUME NEW k \in Keys, Invalidate(k) PROVE Promise!Invalidate(k)
  <2>1. \A w \in Callers : Unseen(w)
    BY <1>8 DEF Invalidate, Unseen
  <2>2. Asked' = Asked /\ Got' = Got
    BY <2>1, NoCallSeen
  <2> QED
    BY <1>8, <2>2 DEF Invalidate, Promise!Invalidate, Asked, Got
<1>9. ASSUME NEW k \in Keys, Change(k) PROVE Promise!Change(k)
  <2>1. \A w \in Callers : Unseen(w)
    BY <1>9 DEF Change, Unseen
  <2>2. Asked' = Asked /\ Got' = Got
    BY <2>1, NoCallSeen
  <2> QED
    BY <1>9, <2>2 DEF Change, Promise!Change, Asked, Got
<1>10. ASSUME Tick \/ UNCHANGED vars PROVE UNCHANGED Promise!vars
  <2>1. (\A w \in Callers : Unseen(w)) /\ UNCHANGED <<upstream, floor>>
    BY <1>10 DEF Tick, vars, Unseen
  <2> QED
    BY <1>s, <2>1
<1> QED
  BY <1>1, <1>2, <1>3, <1>4, <1>5, <1>6, <1>7, <1>8, <1>9, <1>10 DEF Next, Step, Promise!Next

\* README, "Manual resets": get_or_fetch is a read through to the upstream that
\* is no older than the last invalidation: every behaviour of the cache is one
\* of FreshRead, liveness apart.
THEOREM PromiseIsKept == Spec => Promise!Spec
<1>1. Init => Promise!Init
  <2> SUFFICES ASSUME Init PROVE Promise!Init
    OBVIOUS
  <2> DEFINE Idle(c, k) == [at |-> "idle", key |-> k, gen |-> 0, fut |-> c, live |-> TRUE,
                            val |-> NoValue, need |-> 0]
  <2>0. PICK k \in Keys : call = [c \in Callers |-> Idle(c, k)]
    BY DEF Init
  <2>1. \A c \in Callers : call[c].at = "idle"
    <3>1. \A c \in Callers : Idle(c, k).at = "idle"
      OBVIOUS
    <3> HIDE DEF Idle
    <3> QED
      BY <2>0, <3>1
  <2> QED
    BY <2>1 DEF Init, Promise!Init
<1> QED
  BY <1>1, PromiseStep, Invariance, PTL DEF Spec, Promise!Spec
=============================================================================
