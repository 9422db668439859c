------------------------- MODULE QuotaServiceProofs -------------------------
(***************************************************************************)
(* The quota service, for any number of requests and accounts.  It uses    *)
(* its two caches as TtlCache allows, so what is proved of the cache holds *)
(* of both; what the service adds is how a request, its call of the quota  *)
(* cache and the reset confirmed last belong together.                     *)
(***************************************************************************)
EXTENDS QuotaService, TtlCacheProofs

\* The call of c as the cache sees it: once the usage call has read a version,
\* the value on its way is fixed, although the credits call still runs.
Called ==
    [c \in Callers |->
        IF seen[c] = {} THEN call[c]
        ELSE [call[c] EXCEPT !.at = "answered",
                             !.val = [ver |-> CHOOSE v \in seen[c] : TRUE, ttl |-> SuccessTtl]]]

Quotas == INSTANCE TtlCacheProofs WITH call <- Called

AuthFiles == INSTANCE TtlCacheProofs WITH
                 Keys <- {Files}, Ttls <- {SuccessTtl}, MayCancel <- FALSE,
                 MaxVersion <- MaxListings, MaxGen <- 0,
                 store <- aStore, inFlight <- aInFlight, generation <- aGeneration,
                 call <- aCall, upstream <- aUpstream, floor <- aFloor

USE TtlsAssumption, BoundsAssumption, CancelAssumption, ServiceAssumption
USE DEF Ended, Leading, Stage

-----------------------------------------------------------------------------
(* The invariant.                                                          *)

\* A version seen belongs to a fetch whose credits call runs.
SeenInv == \A c \in Callers : seen[c] # {} =>
              call[c].at = "fetching" /\ \E v \in Nat : seen[c] = {v}

\* No future is cancelled.
LiveInv == \A c \in Callers : call[c].live

\* A request awaits the call its stage names, and that call needs at least
\* what was confirmed when the request began.
RequestInv(c) ==
    /\ aCall[c].at \notin Ended => task[c].at = "listing"
    /\ call[c].at \notin Ended => task[c].at = "quota"
    /\ task[c].at = "listing" => task[c].since <= confirmed[task[c].key]
    /\ task[c].at = "quota" => task[c].op = "get" /\ call[c].need >= task[c].since
    /\ task[c].at = "200" => call[c].at = "returned" /\ call[c].need >= task[c].since

\* What was confirmed last is what the quota cache was last invalidated for.
ConfirmedInv == \A k \in Keys : confirmed[k] = floor[k]

\* What the vendor spent for a request.
PaidInv(c) ==
    /\ task[c].paid <= 1
    /\ task[c].at \in {"spent", "204"} => task[c].paid = 1
    /\ task[c].at \notin {"spent", "204", "502"} => task[c].paid = 0

ServiceInv ==
    /\ ServiceTypeOK
    /\ Quotas!Inv
    /\ SeenInv
    /\ LiveInv
    /\ ConfirmedInv
    /\ \A c \in Callers : RequestInv(c) /\ PaidInv(c)

-----------------------------------------------------------------------------
(* The caches.                                                             *)

\* A caller w whose call no other caller's step ends or begins.
Undisturbed(w) ==
    \/ call'[w] = call[w]
    \/ /\ call[w].at = "waiting" /\ call'[w].at \in {"woken", "rejected"}
       /\ call'[w].need = call[w].need /\ call'[w].live = call[w].live

LEMMA SettleIsLocal ==
    ASSUME TypeOK, NEW c \in Callers, NEW own \in Ended, NEW others \in {"woken", "rejected"},
           NEW val \in Value, Settle(c, own, others, val)
    PROVE  /\ \A w \in Callers \ {c} : Undisturbed(w)
           /\ call'[c] = Over(c, own)
<1>1. ASSUME NEW w \in Callers PROVE call[w] \in Call
  BY DEF TypeOK
<1>2. ASSUME NEW w \in Callers \ {c}, Waits(w, c) PROVE Undisturbed(w)
  <2>1. call'[w] = [call[w] EXCEPT !.at = others, !.val = val]
    BY <1>2 DEF Settle
  <2> QED  BY <1>1, <1>2, <2>1 DEF Undisturbed, Waits, Call
<1>3. ASSUME NEW w \in Callers \ {c}, ~Waits(w, c) PROVE Undisturbed(w)
  BY <1>3 DEF Settle, Undisturbed
<1> QED  BY <1>2, <1>3 DEF Settle

\* Every step of a caller c of the quota cache that the service makes.
Uses(c) ==
    \/ \E k \in Keys : Hit(c, k) \/ Join(c, k) \/ Lead(c, k)
    \/ \E v \in Nat, ttl \in Ttls : Reply(c, v, ttl)
    \/ Finish(c) \/ Fail(c) \/ Wake(c)

LEMMA UseIsLocal ==
    ASSUME TypeOK, NEW c \in Callers, Uses(c)
    PROVE  /\ TypeOK'
           /\ \A w \in Callers \ {c} : Undisturbed(w)
           /\ UNCHANGED <<upstream, floor, generation, clock>>
<1>1. CASE \E k \in Keys : Hit(c, k) \/ Join(c, k) \/ Lead(c, k)
  <2>1. [Next]_vars
    BY <1>1 DEF Next, Step
  <2>2. TypeOK'
    BY <2>1, TypeStep
  <2> QED  BY <1>1, <2>2 DEF Hit, Join, Lead, Undisturbed, TypeOK
<1>2. ASSUME NEW v \in Nat, NEW ttl \in Ttls, Reply(c, v, ttl)
      PROVE  TypeOK' /\ (\A w \in Callers \ {c} : Undisturbed(w))
             /\ UNCHANGED <<upstream, floor, generation, clock>>
  <2>1. call[c] \in Call /\ [ver |-> v, ttl |-> ttl] \in Value
    BY DEF TypeOK, Value
  <2>2. [call[c] EXCEPT !.at = "answered", !.val = [ver |-> v, ttl |-> ttl]] \in Call
    BY <2>1 DEF Call
  <2>3. call' \in [Callers -> Call]
    BY <1>2, <2>2 DEF Reply, TypeOK
  <2> QED  BY <1>2, <2>3 DEF Reply, TypeOK, Undisturbed
<1>3. CASE Finish(c) \/ Fail(c)
  <2>1. [Next]_vars
    BY <1>3 DEF Next, Step
  <2>2. TypeOK'
    BY <2>1, TypeStep
  <2>3. call[c].val \in Value /\ NoValue \in Value
    BY DEF TypeOK, Call, NoValue, Value
  <2>4. \A w \in Callers \ {c} : Undisturbed(w)
    BY <1>3, <2>3, SettleIsLocal DEF Finish, Fail, Abort
  <2> QED  BY <1>3, <2>2, <2>4 DEF Finish, Fail, Abort
<1>4. CASE Wake(c)
  <2>1. [Next]_vars
    BY <1>4 DEF Next, Step
  <2>2. TypeOK'
    BY <2>1, TypeStep
  <2> QED  BY <1>4, <2>2 DEF Wake, Undisturbed, TypeOK
<1> QED  BY <1>1, <1>2, <1>3, <1>4 DEF Uses

\* No call of the auth-file cache but c's begins.
ListsKept(c) == \A w \in Callers \ {c} : aCall'[w].at \notin Ended => aCall[w].at \notin Ended

\* The steps the service makes on the auth-file cache.
ListEnds(c) == Auth!Hit(c, Files) \/ Auth!Finish(c) \/ Auth!Fail(c) \/ Auth!Wake(c)
ListGoesOn(c) == Auth!Join(c, Files) \/ Auth!Lead(c, Files) \/ Auth!Answer(c, SuccessTtl)

LEMMA AuthTypes == Auth!TypeOK <=> AuthFiles!TypeOK
  BY DEF Auth!TypeOK, AuthFiles!TypeOK, Auth!Entry, AuthFiles!Entry, Auth!Call, AuthFiles!Call,
         Auth!Value, AuthFiles!Value, Auth!Stage, AuthFiles!Stage, Auth!Ended, AuthFiles!Ended,
         Auth!Leading, AuthFiles!Leading

\* What the service does with the auth-file cache are steps of TtlCache.
LEMMA ListSteps ==
    ASSUME NEW c \in Callers, ListEnds(c) \/ ListGoesOn(c) \/ Auth!Change(Files) \/ Auth!Tick
    PROVE  [AuthFiles!Next]_AuthFiles!vars
<1>1. AuthFiles!Step(c) \/ AuthFiles!Change(Files) \/ AuthFiles!Tick
  <2>1. CASE Auth!Finish(c)
    BY <2>1 DEF Auth!Finish, AuthFiles!Finish, Auth!MayStore, AuthFiles!MayStore, Auth!PopOwn,
       AuthFiles!PopOwn, Auth!Settle, AuthFiles!Settle, Auth!EntryOf, AuthFiles!EntryOf, Auth!Over,
       AuthFiles!Over, Auth!Waits, AuthFiles!Waits, Auth!NoValue, AuthFiles!NoValue, AuthFiles!Step
  <2>2. CASE Auth!Fail(c)
    BY <2>2 DEF Auth!Fail, AuthFiles!Fail, Auth!Abort, AuthFiles!Abort, Auth!PopOwn,
       AuthFiles!PopOwn, Auth!Settle, AuthFiles!Settle, Auth!Over, AuthFiles!Over, Auth!Waits,
       AuthFiles!Waits, Auth!NoValue, AuthFiles!NoValue, Auth!Leading, AuthFiles!Leading,
       AuthFiles!Step
  <2>3. CASE Auth!Wake(c)
    BY <2>3 DEF Auth!Wake, AuthFiles!Wake, Auth!Over, AuthFiles!Over, Auth!NoValue,
       AuthFiles!NoValue, AuthFiles!Step
  <2>4. CASE Auth!Hit(c, Files)
    BY <2>4 DEF Auth!Hit, AuthFiles!Hit, Auth!Started, AuthFiles!Started, Auth!Fresh,
       AuthFiles!Fresh, Auth!Ended, AuthFiles!Ended, AuthFiles!Step
  <2>5. CASE Auth!Join(c, Files) \/ Auth!Lead(c, Files)
    BY <2>5 DEF Auth!Join, AuthFiles!Join, Auth!Lead, AuthFiles!Lead, Auth!Missed,
       AuthFiles!Missed, Auth!Started, AuthFiles!Started, Auth!Fresh, AuthFiles!Fresh, Auth!Ended,
       AuthFiles!Ended, Auth!NoValue, AuthFiles!NoValue, AuthFiles!Step
  <2>6. CASE Auth!Answer(c, SuccessTtl)
    BY <2>6 DEF Auth!Answer, AuthFiles!Answer, Auth!Reply, AuthFiles!Reply, AuthFiles!Step
  <2>7. CASE Auth!Change(Files) \/ Auth!Tick
    BY <2>7 DEF Auth!Change, AuthFiles!Change, Auth!Tick, AuthFiles!Tick
  <2> QED  BY <2>1, <2>2, <2>3, <2>4, <2>5, <2>6, <2>7 DEF ListEnds, ListGoesOn
<1> QED  BY <1>1 DEF AuthFiles!Next

LEMMA ListStepTypes ==
    ASSUME Auth!TypeOK, NEW c \in Callers,
           ListEnds(c) \/ ListGoesOn(c) \/ Auth!Change(Files) \/ Auth!Tick
    PROVE  Auth!TypeOK'
<1>1. AuthFiles!TypeOK'
  BY ListSteps, AuthTypes, AuthFiles!TypeStep
<1> QED  BY <1>1, AuthTypes, PTL

LEMMA ListIsLocal ==
    ASSUME Auth!TypeOK, NEW c \in Callers, ListEnds(c) \/ ListGoesOn(c)
    PROVE  ListsKept(c) /\ (ListEnds(c) => aCall'[c].at \in Ended)
<1>1. aCall \in [Callers -> Auth!Call]
  BY DEF Auth!TypeOK
<1>2. ASSUME Auth!Hit(c, Files) \/ Auth!Wake(c) \/ ListGoesOn(c) PROVE ListsKept(c)
  <2>1. \A w \in Callers \ {c} : aCall'[w] = aCall[w]
    <3>1. CASE Auth!Hit(c, Files)             BY <1>1, <3>1 DEF Auth!Hit
    <3>2. CASE Auth!Wake(c)                   BY <1>1, <3>2 DEF Auth!Wake
    <3>3. CASE Auth!Join(c, Files)            BY <1>1, <3>3 DEF Auth!Join
    <3>4. CASE Auth!Lead(c, Files)            BY <1>1, <3>4 DEF Auth!Lead
    <3>5. CASE Auth!Answer(c, SuccessTtl)     BY <1>1, <3>5 DEF Auth!Answer, Auth!Reply
    <3> QED  BY <1>2, <3>1, <3>2, <3>3, <3>4, <3>5 DEF ListGoesOn
  <2> QED  BY <2>1 DEF ListsKept
<1>3. ASSUME Auth!Finish(c) \/ Auth!Fail(c) PROVE ListsKept(c)
  <2>1. PICK own, others, val : Auth!Settle(c, own, others, val)
    BY <1>3 DEF Auth!Finish, Auth!Fail, Auth!Abort
  <2>2. ASSUME NEW w \in Callers \ {c}, Auth!Waits(w, c) PROVE aCall[w].at \notin Ended
    BY <2>2 DEF Auth!Waits
  <2>3. ASSUME NEW w \in Callers \ {c}, ~Auth!Waits(w, c) PROVE aCall'[w] = aCall[w]
    BY <2>1, <2>3 DEF Auth!Settle, Auth!Waits
  <2> QED  BY <2>2, <2>3 DEF ListsKept
<1>4. ASSUME ListEnds(c) PROVE aCall'[c].at \in Ended
  <2>1. CASE Auth!Hit(c, Files)  BY <1>1, <2>1 DEF Auth!Hit, Auth!Started
  <2>2. CASE Auth!Finish(c)      BY <1>1, <2>2 DEF Auth!Finish, Auth!Settle, Auth!Over
  <2>3. CASE Auth!Fail(c)        BY <1>1, <2>3 DEF Auth!Fail, Auth!Abort, Auth!Settle, Auth!Over
  <2>4. CASE Auth!Wake(c)        BY <1>1, <2>4 DEF Auth!Wake, Auth!Over
  <2> QED  BY <1>4, <2>1, <2>2, <2>3, <2>4 DEF ListEnds
<1> QED  BY <1>2, <1>3, <1>4 DEF ListEnds
-----------------------------------------------------------------------------
(* The service uses the quota cache as TtlCache allows.                    *)

LEMMA CalledValues ==
    /\ Called \in [Callers -> {Called[c] : c \in Callers}]
    /\ \A c \in Callers : seen[c] = {} => Called[c] = call[c]
    /\ \A c \in Callers : seen[c] # {} =>
          Called[c] = [call[c] EXCEPT !.at = "answered",
                         !.val = [ver |-> CHOOSE v \in seen[c] : TRUE, ttl |-> SuccessTtl]]
  BY DEF Called

LEMMA CalledFields ==
    ASSUME TypeOK, SeenInv, NEW c \in Callers
    PROVE  /\ Called[c].key = call[c].key /\ Called[c].fut = call[c].fut
           /\ Called[c].live = call[c].live /\ Called[c].need = call[c].need
           /\ Called[c].gen = call[c].gen
           /\ Called[c].at = (IF seen[c] = {} THEN call[c].at ELSE "answered")
           /\ seen[c] # {} => call[c].at = "fetching"
<1>1. call[c] \in Call
  BY DEF TypeOK
<1>2. CASE seen[c] = {}
  <2>1. Called[c] = call[c]
    BY <1>2, CalledValues
  <2> QED  BY <1>2, <2>1
<1>3. CASE seen[c] # {}
  <2> DEFINE answer == [ver |-> CHOOSE v \in seen[c] : TRUE, ttl |-> SuccessTtl]
  <2>1. Called[c] = [call[c] EXCEPT !.at = "answered", !.val = answer]
    BY <1>3, CalledValues
  <2> HIDE DEF answer
  <2>2. call[c].at = "fetching"
    BY <1>3 DEF SeenInv
  <2> QED  BY <1>1, <1>3, <2>1, <2>2 DEF Call
<1> QED  BY <1>2, <1>3

\* Between two steps of its cache the service leaves what the cache sees alone.
LEMMA CalledKept ==
    ASSUME UNCHANGED <<call, seen>>
    PROVE  Called' = Called
  BY DEF Called

LEMMA CalledAlike ==
    ASSUME NEW w \in Callers, call'[w] = call[w], seen'[w] = seen[w]
    PROVE  Called'[w] = Called[w]
<1>1. CASE seen[w] = {}
  BY <1>1 DEF Called
<1>2. CASE seen[w] # {}
  BY <1>2 DEF Called
<1> QED  BY <1>1, <1>2

LEMMA EntersQuota ==
    ASSUME TypeOK, SeenInv, NEW c \in Callers, NEW k \in Keys, UNCHANGED seen,
           Hit(c, k) \/ Join(c, k) \/ Lead(c, k)
    PROVE  Quotas!Step(c)
<1>1. seen[c] = {} /\ Called[c] = call[c] /\ call[c].at \in Ended
  BY CalledValues DEF SeenInv, Hit, Join, Lead, Missed
<1>2. ASSUME NEW r, call' = [call EXCEPT ![c] = r]
      PROVE  Called' = [Called EXCEPT ![c] = r]
  <2>1. call'[c] = r /\ \A w \in Callers \ {c} : call'[w] = call[w]
    BY <1>2 DEF TypeOK
  <2> QED  BY <1>1, <2>1 DEF Called
<1>3. CASE Hit(c, k)
  <2>1. PICK e \in store[k] : Fresh(e) /\ call' = [call EXCEPT ![c] = Started(c, k, "returned", c, e.val)]
    BY <1>3 DEF Hit
  <2>2. Called' = [Called EXCEPT ![c] = Started(c, k, "returned", c, e.val)]
    BY <2>1, <1>2
  <2> QED  BY <1>1, <1>3, <2>1, <2>2 DEF Hit, Quotas!Step, Quotas!Hit, Started, Quotas!Started, Fresh, Quotas!Fresh,
              Quotas!Ended
<1>4. CASE Join(c, k)
  <2>1. PICK l \in inFlight[k] :
          call' = [call EXCEPT ![c] =
                    Started(c, k, IF call[l].live THEN "waiting" ELSE "rejected", l, NoValue)]
    BY <1>4 DEF Join
  <2>2. Called[l].live = call[l].live
    BY <2>1, CalledFields DEF TypeOK
  <2>3. Called' = [Called EXCEPT ![c] =
                    Started(c, k, IF Called[l].live THEN "waiting" ELSE "rejected", l, NoValue)]
    BY <2>1, <2>2, <1>2
  <2> QED  BY <1>1, <1>4, <2>1, <2>3 DEF Join, Missed, Quotas!Step, Quotas!Join, Quotas!Missed, Started, Quotas!Started,
              Fresh, Quotas!Fresh, Quotas!Ended, NoValue, Quotas!NoValue
<1>5. CASE Lead(c, k)
  <2>1. Called' = [Called EXCEPT ![c] = Started(c, k, "fetching", c, NoValue)]
    BY <1>5, <1>2 DEF Lead
  <2> QED  BY <1>1, <1>5, <2>1 DEF Lead, Missed, Quotas!Step, Quotas!Lead, Quotas!Missed, Started, Quotas!Started,
              Fresh, Quotas!Fresh, Quotas!Ended, NoValue, Quotas!NoValue
<1> QED  BY <1>3, <1>4, <1>5
\* The usage call ends: for the cache the value is known, whether or not the
\* credits call is still to be made.
LEMMA UsageAnswers ==
    ASSUME TypeOK, SeenInv, seen \in [Callers -> SUBSET Nat], NEW c \in Callers, UsageAnswered(c)
    PROVE  Quotas!Step(c)
<1> DEFINE k == call[c].key
<1>1. call[c] \in Call /\ k \in Keys /\ upstream[k] \in Nat /\ seen[c] = {} /\ call[c].at = "fetching"
  BY DEF TypeOK, Call, UsageAnswered
<1>2. Called[c] = call[c]
  BY <1>1, CalledValues
<1>3. ASSUME NEW ttl \in Ttls, Reply(c, upstream[k], ttl), UNCHANGED seen
      PROVE  Quotas!Answer(c, ttl)
  <2>1. call' = [call EXCEPT ![c] = [@ EXCEPT !.at = "answered", !.val = [ver |-> upstream[k], ttl |-> ttl]]]
    BY <1>3 DEF Reply
  <2>2. Called' = [Called EXCEPT ![c] = [@ EXCEPT !.at = "answered", !.val = [ver |-> upstream[k], ttl |-> ttl]]]
    BY <2>1, <1>1, <1>3 DEF Called, TypeOK
  <2> QED  BY <1>1, <1>2, <1>3, <2>2 DEF Reply, Quotas!Answer, Quotas!Reply
<1>4. ASSUME k \in Resettable, seen' = [seen EXCEPT ![c] = {upstream[k]}],
             UNCHANGED <<store, inFlight, generation, clock, call, upstream, floor>>,
             DOMAIN seen = Callers
      PROVE  Quotas!Answer(c, SuccessTtl)
  <2>1. (CHOOSE v \in {upstream[k]} : TRUE) = upstream[k]
    OBVIOUS
  <2>2. seen'[c] = {upstream[k]} /\ \A w \in Callers \ {c} : seen'[w] = seen[w]
    BY <1>4
  <2>3. Called'[c] = [call[c] EXCEPT !.at = "answered", !.val = [ver |-> upstream[k], ttl |-> SuccessTtl]]
    <3>1. Called'[c] = [call'[c] EXCEPT !.at = "answered",
                          !.val = [ver |-> CHOOSE v \in seen'[c] : TRUE, ttl |-> SuccessTtl]]
      BY <2>2 DEF Called
    <3> QED  BY <3>1, <2>1, <2>2, <1>4
  <2>4. \A w \in Callers \ {c} : Called'[w] = Called[w]
    BY <2>2, <1>4, CalledAlike
  <2>5. Called' = [w \in Callers |-> Called'[w]] /\ Called = [w \in Callers |-> Called[w]]
    BY DEF Called
  <2>6. Called' = [Called EXCEPT ![c] = [@ EXCEPT !.at = "answered",
                                                  !.val = [ver |-> upstream[k], ttl |-> SuccessTtl]]]
    BY <2>3, <2>4, <2>5, <1>2
  <2> QED  BY <1>1, <1>2, <1>4, <2>6 DEF Quotas!Answer, Quotas!Reply
<1> QED  BY <1>3, <1>4 DEF UsageAnswered, Quotas!Step
\* The credits call ends: the cache sees nothing.
LEMMA CreditsAnswer ==
    ASSUME TypeOK, SeenInv, seen \in [Callers -> SUBSET Nat], NEW c \in Callers, CreditsAnswered(c)
    PROVE  UNCHANGED Quotas!vars
<1>1. PICK v \in Nat : seen[c] = {v} /\ Reply(c, v, SuccessTtl)
  BY DEF CreditsAnswered, SeenInv
<1>2. (CHOOSE x \in {v} : TRUE) = v
  OBVIOUS
<1>3. /\ seen'[c] = {} /\ \A w \in Callers \ {c} : seen'[w] = seen[w]
      /\ call'[c] = [call[c] EXCEPT !.at = "answered", !.val = [ver |-> v, ttl |-> SuccessTtl]]
      /\ \A w \in Callers \ {c} : call'[w] = call[w]
  BY <1>1 DEF CreditsAnswered, Reply, TypeOK
<1>4. Called'[c] = [call[c] EXCEPT !.at = "answered", !.val = [ver |-> v, ttl |-> SuccessTtl]]
  BY <1>3 DEF Called
<1>5. Called[c] = [call[c] EXCEPT !.at = "answered", !.val = [ver |-> v, ttl |-> SuccessTtl]]
  <2>1. seen[c] # {}
    BY <1>1
  <2>2. Called[c] = [call[c] EXCEPT !.at = "answered",
                       !.val = [ver |-> CHOOSE x \in seen[c] : TRUE, ttl |-> SuccessTtl]]
    BY <2>1, CalledValues
  <2> QED  BY <2>2, <1>1, <1>2
<1>6. \A w \in Callers \ {c} : Called'[w] = Called[w]
  BY <1>3, CalledAlike
<1>7. Called' = [w \in Callers |-> Called'[w]] /\ Called = [w \in Callers |-> Called[w]]
  BY DEF Called
<1>8. Called' = Called
  BY <1>4, <1>5, <1>6, <1>7
<1> QED  BY <1>1, <1>8 DEF Reply, Quotas!vars

\* A leader ends, with a value or an error; a waiter has its turn.
LEMMA QuotaEnds ==
    ASSUME TypeOK, SeenInv, seen \in [Callers -> SUBSET Nat], NEW c \in Callers,
           seen' = [seen EXCEPT ![c] = {}], seen[c] # {} => Fail(c),
           Finish(c) \/ Fail(c) \/ Wake(c)
    PROVE  Quotas!Step(c)
<1>1. /\ Called[c].key = call[c].key /\ Called[c].gen = call[c].gen
      /\ Called[c].live = call[c].live /\ Called[c].need = call[c].need
      /\ \A w \in Callers : Waits(w, c) <=> Quotas!Waits(w, c)
  <2>1. \A w \in Callers : Waits(w, c) <=> Quotas!Waits(w, c)
    BY CalledFields DEF Waits, Quotas!Waits
  <2> QED  BY <2>1, CalledFields
<1>2. Quotas!Over(c, "raised") = Over(c, "raised")
  BY <1>1 DEF Over, Quotas!Over, NoValue, Quotas!NoValue
<1>3. seen'[c] = {} /\ \A w \in Callers \ {c} : seen'[w] = seen[w]
  OBVIOUS
<1>4. ASSUME NEW own \in Ended, NEW others \in {"woken", "rejected"}, NEW val \in Value,
             Settle(c, own, others, val), Quotas!Over(c, own) = Over(c, own)
      PROVE  Quotas!Settle(c, own, others, val)
  <2>1. Called'[c] = Over(c, own)
    BY <1>3, <1>4 DEF Called, Settle
  <2>2. ASSUME NEW w \in Callers \ {c}, Waits(w, c)
        PROVE  Called'[w] = [Called[w] EXCEPT !.at = others, !.val = val]
    <3>1. seen[w] = {}
      BY <2>2 DEF SeenInv, Waits
    <3>2. call'[w] = [call[w] EXCEPT !.at = others, !.val = val]
      BY <1>4, <2>2 DEF Settle
    <3> QED  BY <3>1, <3>2, <1>3 DEF Called
  <2>3. ASSUME NEW w \in Callers \ {c}, ~Waits(w, c)
        PROVE  Called'[w] = Called[w]
    <3>1. call'[w] = call[w]
      BY <1>4, <2>3 DEF Settle
    <3> QED  BY <3>1, <1>3 DEF Called
  <2>4. Called' = [w \in Callers |-> Called'[w]]
    BY DEF Called
  <2> QED  BY <2>1, <2>2, <2>3, <2>4, <1>1, <1>4 DEF Quotas!Settle
<1>5. CASE Fail(c)
  <2>1. Settle(c, "raised", "rejected", NoValue) /\ NoValue \in Value /\ NoValue = Quotas!NoValue
    BY <1>5 DEF Fail, Abort, NoValue, Quotas!NoValue, Value
  <2>2. Quotas!Settle(c, "raised", "rejected", NoValue)
    BY <2>1, <1>2, <1>4
  <2>3. Called[c].at \in Leading
    BY <1>5, CalledFields DEF Fail
  <2>4. Quotas!PopOwn(c) = PopOwn(c)
    BY <1>1 DEF PopOwn, Quotas!PopOwn
  <2> QED  BY <1>5, <2>1, <2>2, <2>3, <2>4 DEF Fail, Abort, Quotas!Step, Quotas!Fail, Quotas!Abort, Quotas!Leading
<1>6. CASE Finish(c) /\ seen[c] = {}
  <2>1. Called[c] = call[c] /\ call[c].val \in Value
    BY <1>6, CalledValues DEF TypeOK, Call
  <2>2. /\ Quotas!PopOwn(c) = PopOwn(c) /\ Quotas!EntryOf(c) = EntryOf(c)
        /\ Quotas!MayStore(c) = MayStore(c)
        /\ \A own \in Ended : Quotas!Over(c, own) = Over(c, own)
    BY <2>1 DEF PopOwn, Quotas!PopOwn, EntryOf, Quotas!EntryOf, MayStore, Quotas!MayStore,
       Over, Quotas!Over, NoValue, Quotas!NoValue
  <2>3. Quotas!Settle(c, IF call[c].live THEN "returned" ELSE "misfired", "woken", call[c].val)
    BY <1>4, <1>6, <2>1, <2>2 DEF Finish
  <2> QED  BY <1>6, <2>1, <2>2, <2>3 DEF Finish, Quotas!Step, Quotas!Finish
<1>7. CASE Wake(c) /\ seen[c] = {}
  <2>1. Called[c] = call[c]
    BY <1>7, CalledValues
  <2>2. \A own \in Ended : Quotas!Over(c, own) = Over(c, own)
    BY <2>1 DEF Over, Quotas!Over, NoValue, Quotas!NoValue
  <2>3. ASSUME NEW own \in Ended, call' = [call EXCEPT ![c] = Over(c, own)]
        PROVE  Called' = [Called EXCEPT ![c] = Quotas!Over(c, own)]
    <3>1. call'[c] = Over(c, own) /\ \A w \in Callers \ {c} : call'[w] = call[w]
      BY <2>3 DEF TypeOK
    <3>2. Called'[c] = Over(c, own) /\ \A w \in Callers \ {c} : Called'[w] = Called[w]
      BY <1>3, <3>1 DEF Called
    <3>3. Called' = [w \in Callers |-> Called'[w]] /\ Called = [w \in Callers |-> Called[w]]
      BY DEF Called
    <3> QED  BY <2>2, <3>2, <3>3
  <2> QED  BY <1>7, <2>1, <2>3 DEF Wake, Quotas!Step, Quotas!Wake
<1> QED  BY <1>5, <1>6, <1>7
LEMMA UpstreamSteps ==
    ASSUME NEW k \in Keys, UNCHANGED seen, Change(k) \/ Invalidate(k) \/ Tick
    PROVE  Quotas!Next
<1>1. Called' = Called
  BY CalledKept DEF Change, Invalidate, Tick
<1>2. CASE Change(k)      BY <1>1, <1>2 DEF Change, Quotas!Change, Quotas!Next
<1>3. CASE Invalidate(k)  BY <1>1, <1>3 DEF Invalidate, Quotas!Invalidate, Quotas!Next
<1>4. CASE Tick           BY <1>1, <1>4 DEF Tick, Quotas!Tick, Quotas!Next
<1> QED  BY <1>2, <1>3, <1>4

-----------------------------------------------------------------------------
(* One request's step preserves the invariant of all.                      *)

\* The others' requests are what they were, whatever c's step confirmed.
LEMMA Assemble ==
    ASSUME ServiceInv, NEW c \in Callers, NEW t \in Task,
           task' = [task EXCEPT ![c] = t],
           Auth!TypeOK', ListsKept(c),
           TypeOK', \A w \in Callers \ {c} : Undisturbed(w),
           [Quotas!Next]_Quotas!vars,
           seen' \in [Callers -> SUBSET Nat], \A w \in Callers \ {c} : seen'[w] = seen[w],
           seen'[c] # {} => call'[c].at = "fetching" /\ \E v \in Nat : seen'[c] = {v},
           call'[c].live,
           credits' \in [Keys -> 0 .. Credits],
           confirmed' \in [Keys -> Nat], ConfirmedInv', \A k \in Keys : confirmed[k] <= confirmed'[k],
           RequestInv(c)', PaidInv(c)'
    PROVE  ServiceInv' /\ [Quotas!Next]_Quotas!vars
<1>1. ServiceTypeOK /\ TypeOK /\ SeenInv /\ LiveInv /\ Quotas!Inv /\ task \in [Callers -> Task]
  BY DEF ServiceInv, ServiceTypeOK
<1>2. task'[c] = t /\ (\A w \in Callers \ {c} : task'[w] = task[w]) /\ task' \in [Callers -> Task]
  BY <1>1
<1>3. ServiceTypeOK'
  BY <1>2 DEF ServiceTypeOK
<1>4. Quotas!Inv'
  BY <1>1, Quotas!InvStep
<1>6. SeenInv'
  <2>1. ASSUME NEW w \in Callers \ {c}, seen'[w] # {}
        PROVE  call'[w].at = "fetching" /\ \E v \in Nat : seen'[w] = {v}
    BY <1>1, <2>1 DEF SeenInv, Undisturbed
  <2> QED  BY <2>1 DEF SeenInv
<1>7. LiveInv'
  BY <1>1 DEF LiveInv, Undisturbed
<1>8. ASSUME NEW w \in Callers \ {c} PROVE RequestInv(w)' /\ PaidInv(w)'
  <2>1. RequestInv(w) /\ PaidInv(w) /\ task'[w] = task[w] /\ task[w] \in Task
    BY <1>1, <1>2 DEF ServiceInv
  <2>2. task[w].key \in Keys /\ task[w].since \in Nat
    BY <2>1 DEF Task
  <2>3. aCall'[w].at \notin Ended => aCall[w].at \notin Ended
    BY DEF ListsKept
  <2>4. /\ call'[w].at \notin Ended => call[w].at \notin Ended
        /\ call[w].at = "returned" => call'[w] = call[w]
        /\ call'[w].need = call[w].need
    BY DEF Undisturbed
  <2>5. task[w].since <= confirmed[task[w].key] => task[w].since <= confirmed'[task[w].key]
    BY <2>2, <1>1 DEF ServiceTypeOK
  <2>6. RequestInv(w)'
    BY <2>1, <2>3, <2>4, <2>5 DEF RequestInv
  <2>7. PaidInv(w)'
    BY <2>1 DEF PaidInv
  <2> QED  BY <2>6, <2>7
<1> QED  BY <1>3, <1>4, <1>6, <1>7, <1>8 DEF ServiceInv

\* The same when neither the quota cache nor the vendor takes part.
LEMMA AssembleQuiet ==
    ASSUME ServiceInv, NEW c \in Callers, NEW t \in Task,
           task' = [task EXCEPT ![c] = t],
           Auth!TypeOK', ListsKept(c),
           UNCHANGED <<quotaVars, clock, vendorVars>>,
           RequestInv(c)', PaidInv(c)'
    PROVE  ServiceInv' /\ [Quotas!Next]_Quotas!vars
<1>1. TypeOK' /\ ConfirmedInv'
  BY DEF ServiceInv, ServiceTypeOK, TypeOK, quotaVars, vendorVars, ConfirmedInv
<1>2. UNCHANGED Quotas!vars
  BY CalledKept DEF quotaVars, Quotas!vars
<1>3. /\ \A w \in Callers \ {c} : Undisturbed(w) /\ seen'[w] = seen[w]
      /\ seen'[c] # {} => call'[c].at = "fetching" /\ \E v \in Nat : seen'[c] = {v}
      /\ call'[c].live
  BY DEF quotaVars, Undisturbed, ServiceInv, SeenInv, LiveInv
<1>4. /\ seen' \in [Callers -> SUBSET Nat] /\ credits' \in [Keys -> 0 .. Credits]
      /\ confirmed' \in [Keys -> Nat] /\ \A k \in Keys : confirmed[k] <= confirmed'[k]
  BY DEF quotaVars, vendorVars, ServiceInv, ServiceTypeOK
<1> QED  BY <1>1, <1>2, <1>3, <1>4, Assemble
\* The same when c uses the quota cache and no reset is confirmed.
LEMMA AssembleUse ==
    ASSUME ServiceInv, NEW c \in Callers, NEW t \in Task,
           task' = [task EXCEPT ![c] = t],
           Auth!TypeOK', ListsKept(c),
           Uses(c), UNCHANGED vendorVars,
           [Quotas!Next]_Quotas!vars,
           seen' \in [Callers -> SUBSET Nat], \A w \in Callers \ {c} : seen'[w] = seen[w],
           seen'[c] # {} => call'[c].at = "fetching" /\ \E v \in Nat : seen'[c] = {v},
           call'[c].live,
           RequestInv(c)', PaidInv(c)'
    PROVE  ServiceInv' /\ [Quotas!Next]_Quotas!vars
<1>1. TypeOK /\ ServiceTypeOK
  BY DEF ServiceInv, ServiceTypeOK
<1>2. TypeOK' /\ (\A w \in Callers \ {c} : Undisturbed(w)) /\ floor' = floor
  BY <1>1, UseIsLocal
<1>3. ConfirmedInv'
  BY <1>2 DEF ServiceInv, ConfirmedInv, vendorVars
<1>4. /\ credits' \in [Keys -> 0 .. Credits] /\ confirmed' \in [Keys -> Nat]
      /\ \A k \in Keys : confirmed[k] <= confirmed'[k]
  BY <1>1 DEF vendorVars, ServiceTypeOK
<1> QED  BY <1>2, <1>3, <1>4, Assemble

\* c's request t has the account list: it is refused, enters the quota cache,
\* or its reset goes out.
LEMMA ResolvedKeeps ==
    ASSUME ServiceInv, NEW c \in Callers, NEW t \in Task, NEW v, Resolved(c, t, v),
           t.paid = 0, t.since <= confirmed[t.key], call[c].at \in Ended,
           Auth!TypeOK', ListsKept(c), aCall'[c].at \in Ended, UNCHANGED clock
    PROVE  ServiceInv' /\ [Quotas!Next]_Quotas!vars
<1>1. /\ TypeOK /\ SeenInv /\ LiveInv /\ task \in [Callers -> Task] /\ t.key \in Keys
      /\ seen \in [Callers -> SUBSET Nat] /\ ConfirmedInv /\ confirmed \in [Keys -> Nat]
  BY DEF ServiceInv, ServiceTypeOK, Task
<1>2. ASSUME NEW stage \in Over200 \cup {"quota", "resetting"}
      PROVE  [t EXCEPT !.at = stage] \in Task
  BY DEF Task
<1>3. ASSUME NEW stage \in {"404", "405", "resetting"},
             task' = [task EXCEPT ![c] = [t EXCEPT !.at = stage]],
             UNCHANGED <<store, inFlight, generation, call, upstream, floor, seen, vendorVars>>
      PROVE  ServiceInv' /\ [Quotas!Next]_Quotas!vars
  <2> DEFINE after == [t EXCEPT !.at = stage]
  <2>1. after \in Task /\ after.at = stage /\ after.paid = 0
    BY <1>2, <1>3 DEF Task, Over200
  <2>2. task'[c] = after
    BY <1>1, <1>3
  <2> HIDE DEF after
  <2>3. RequestInv(c)' /\ PaidInv(c)'
    BY <1>3, <2>1, <2>2 DEF RequestInv, PaidInv
  <2>4. UNCHANGED <<quotaVars, clock, vendorVars>>
    BY <1>3 DEF quotaVars, vendorVars
  <2> QED  BY <1>3, <2>1, <2>3, <2>4, AssembleQuiet DEF after
<1>4. ASSUME t.op = "get", EnterQuota(c, t), UNCHANGED <<seen, vendorVars>>
      PROVE  ServiceInv' /\ [Quotas!Next]_Quotas!vars
  <2>1. PICK stage \in {"200", "quota"} :
          /\ task' = [task EXCEPT ![c] = [t EXCEPT !.at = stage]]
          /\ IF stage = "200" THEN Hit(c, t.key) ELSE Join(c, t.key) \/ Lead(c, t.key)
    BY <1>4 DEF EnterQuota
  <2> DEFINE after == [t EXCEPT !.at = stage]
  <2>2. /\ after \in Task /\ after.at = stage /\ after.paid = 0 /\ after.op = "get"
        /\ after.since = t.since /\ after.key = t.key
    BY <1>2, <1>4, <2>1 DEF Task, Over200
  <2>3. task'[c] = after
    BY <1>1, <2>1
  <2>4. /\ call'[c].live /\ call'[c].need = floor[t.key]
        /\ stage = "200" => call'[c].at = "returned"
        /\ seen[c] = {}
    <3>1. seen[c] = {}
      BY <1>1 DEF SeenInv
    <3> QED  BY <1>1, <2>1, <3>1 DEF Hit, Join, Lead, Started, TypeOK
  <2>5. Uses(c) /\ Quotas!Next
    <3>1. Quotas!Step(c)
      BY <1>1, <1>4, <2>1, EntersQuota
    <3> QED  BY <1>1, <2>1, <3>1 DEF Uses, Quotas!Next
  <2> HIDE DEF after
  <2>6. RequestInv(c)'
    <3>1. floor[t.key] = confirmed[t.key] /\ confirmed[t.key] \in Nat /\ t.since \in Nat
      BY <1>1 DEF ConfirmedInv, Task
    <3> QED  BY <2>1, <2>2, <2>3, <2>4, <3>1 DEF RequestInv
  <2>7. PaidInv(c)'
    BY <2>2, <2>3, <2>1 DEF PaidInv
  <2>8. /\ seen' \in [Callers -> SUBSET Nat] /\ \A w \in Callers \ {c} : seen'[w] = seen[w]
        /\ seen'[c] # {} => call'[c].at = "fetching" /\ \E x \in Nat : seen'[c] = {x}
    BY <1>1, <1>4, <2>4
  <2>9. task' = [task EXCEPT ![c] = after]
    BY <2>1 DEF after
  <2> QED  BY <1>4, <2>2, <2>4, <2>5, <2>6, <2>7, <2>8, <2>9, AssembleUse
<1> QED  BY <1>3, <1>4 DEF Resolved, EnterReset
\* What every step may use of the invariant.
LEMMA Known ==
    ASSUME ServiceInv, NEW c \in Callers
    PROVE  /\ TypeOK /\ Auth!TypeOK /\ SeenInv /\ LiveInv /\ ConfirmedInv
           /\ task \in [Callers -> Task] /\ task[c] \in Task
           /\ seen \in [Callers -> SUBSET Nat] /\ confirmed \in [Keys -> Nat]
           /\ credits \in [Keys -> 0 .. Credits]
           /\ RequestInv(c) /\ PaidInv(c)
  BY DEF ServiceInv, ServiceTypeOK

LEMMA BeginKeeps ==
    ASSUME ServiceInv, NEW c \in Callers, NEW k \in Keys, NEW op \in {"get", "reset"}, Begin(c, op, k)
    PROVE  ServiceInv' /\ [Quotas!Next]_Quotas!vars
<1> DEFINE t == [op |-> op, key |-> k, at |-> "listing", paid |-> 0, since |-> confirmed[k]]
<1>1. /\ t \in Task /\ t.paid = 0 /\ t.since = confirmed[t.key] /\ t.at = "listing"
      /\ t.since <= confirmed[t.key]
  BY Known DEF Task
<1>2. call[c].at \in Ended
  BY Known DEF Begin, RequestInv, Over200
<1>3. \/ Auth!Hit(c, Files) /\ Resolved(c, t, aCall'[c].val.ver)
      \/ /\ Auth!Join(c, Files) \/ Auth!Lead(c, Files)
         /\ task' = [task EXCEPT ![c] = t]
         /\ UNCHANGED <<quotaVars, vendorVars>>
  BY DEF Begin
<1> HIDE DEF t
<1>4. CASE Auth!Hit(c, Files) /\ Resolved(c, t, aCall'[c].val.ver)
  <2>1. Auth!TypeOK' /\ ListsKept(c) /\ aCall'[c].at \in Ended
    BY <1>4, Known, ListStepTypes, ListIsLocal DEF ListEnds
  <2>2. UNCHANGED clock
    BY <1>4 DEF Auth!Hit
  <2> QED  BY <1>1, <1>2, <1>4, <2>1, <2>2, ResolvedKeeps
<1>5. CASE /\ Auth!Join(c, Files) \/ Auth!Lead(c, Files)
           /\ task' = [task EXCEPT ![c] = t]
           /\ UNCHANGED <<quotaVars, vendorVars>>
  <2>1. Auth!TypeOK' /\ ListsKept(c)
    BY <1>5, Known, ListStepTypes, ListIsLocal DEF ListGoesOn
  <2>2. UNCHANGED <<quotaVars, clock, vendorVars>>
    BY <1>5 DEF Auth!Join, Auth!Lead
  <2>3. task'[c] = t
    BY <1>5, Known
  <2>4. call'[c] = call[c] /\ confirmed' = confirmed
    BY <2>2 DEF quotaVars, vendorVars
  <2>5. RequestInv(c)'
    BY <1>1, <1>2, <2>3, <2>4, Known DEF RequestInv
  <2>6. PaidInv(c)'
    BY <1>1, <2>3 DEF PaidInv
  <2> QED  BY <1>1, <1>5, <2>1, <2>2, <2>5, <2>6, AssembleQuiet
<1> QED  BY <1>3, <1>4, <1>5

LEMMA ListKeeps ==
    ASSUME ServiceInv, NEW c \in Callers, ListAnswered(c) \/ ListArrives(c) \/ ListFails(c)
    PROVE  ServiceInv' /\ [Quotas!Next]_Quotas!vars
<1>1. task[c].at = "listing" /\ call[c].at \in Ended /\ task[c].paid = 0
      /\ task[c].since <= confirmed[task[c].key]
  <2>1. aCall[c].at \notin Ended
    BY DEF ListAnswered, ListArrives, ListFails, Auth!Answer, Auth!Reply, Auth!Finish, Auth!Wake,
           Auth!Fail, Auth!Leading
  <2> QED  BY <2>1, Known DEF RequestInv, PaidInv
<1>2. CASE ListAnswered(c)
  <2>1. Auth!TypeOK' /\ ListsKept(c)
    BY <1>2, Known, ListStepTypes, ListIsLocal DEF ListAnswered, ListGoesOn
  <2>2. UNCHANGED <<quotaVars, clock, vendorVars, task>>
    BY <1>2 DEF ListAnswered, Auth!Answer, Auth!Reply
  <2>3. task' = [task EXCEPT ![c] = task[c]]
    BY <2>2, Known
  <2>4. call'[c] = call[c] /\ confirmed' = confirmed /\ task'[c] = task[c]
    BY <2>2 DEF quotaVars, vendorVars
  <2>5. RequestInv(c)'
    BY <1>1, <2>4, Known DEF RequestInv
  <2>6. PaidInv(c)'
    BY <2>4, Known DEF PaidInv
  <2>7. task[c] \in Task
    BY Known
  <2> QED  BY <2>1, <2>2, <2>3, <2>5, <2>6, <2>7, AssembleQuiet
<1>3. CASE ListArrives(c)
  <2>1. ListEnds(c) /\ UNCHANGED clock /\ Resolved(c, task[c], aCall[c].val.ver)
    BY <1>3 DEF ListArrives, ListEnds, Auth!Finish, Auth!Wake
  <2>2. Auth!TypeOK' /\ ListsKept(c) /\ aCall'[c].at \in Ended
    BY <2>1, Known, ListStepTypes, ListIsLocal
  <2>3. task[c] \in Task
    BY Known
  <2> QED  BY <1>1, <2>1, <2>2, <2>3, ResolvedKeeps
<1>4. CASE ListFails(c)
  <2>1. ListEnds(c) /\ UNCHANGED clock /\ Unresolved(c)
    BY <1>4 DEF ListFails, ListEnds, Auth!Fail, Auth!Abort, Auth!Wake
  <2>2. Auth!TypeOK' /\ ListsKept(c) /\ aCall'[c].at \in Ended
    BY <2>1, Known, ListStepTypes, ListIsLocal
  <2> DEFINE t == [task[c] EXCEPT !.at = "502"]
  <2>3. t \in Task /\ t.at = "502" /\ t.paid = 0
    BY <1>1, Known DEF Task, Over200
  <2>4. task' = [task EXCEPT ![c] = t] /\ task'[c] = t
    BY <2>1, Known DEF Unresolved
  <2> HIDE DEF t
  <2>5. UNCHANGED <<quotaVars, clock, vendorVars>> /\ call'[c] = call[c]
    BY <2>1 DEF Unresolved, quotaVars
  <2>6. RequestInv(c)' /\ PaidInv(c)'
    BY <1>1, <2>2, <2>3, <2>4, <2>5 DEF RequestInv, PaidInv
  <2> QED  BY <2>2, <2>3, <2>4, <2>5, <2>6, AssembleQuiet
<1> QED  BY <1>2, <1>3, <1>4
LEMMA AuthKept ==
    ASSUME Auth!TypeOK, UNCHANGED authVars, clock' \in Nat, NEW c \in Callers
    PROVE  Auth!TypeOK' /\ ListsKept(c) /\ aCall' = aCall
<1>1. Auth!TypeOK'
  BY DEF authVars, Auth!TypeOK
<1> QED  BY <1>1 DEF authVars, ListsKept

LEMMA FetchKeeps ==
    ASSUME ServiceInv, NEW c \in Callers, UsageAnswered(c) \/ CreditsAnswered(c)
    PROVE  ServiceInv' /\ [Quotas!Next]_Quotas!vars
<1> DEFINE k == call[c].key
<1>1. UNCHANGED <<authVars, vendorVars, task, clock>> /\ clock \in Nat
  BY Known DEF UsageAnswered, CreditsAnswered, Reply, TypeOK
<1>2. /\ Auth!TypeOK' /\ ListsKept(c) /\ aCall' = aCall
      /\ task' = [task EXCEPT ![c] = task[c]] /\ task[c] \in Task /\ task'[c] = task[c]
      /\ confirmed' = confirmed
  BY <1>1, Known, AuthKept DEF vendorVars
<1>3. /\ call[c].at = "fetching" /\ task[c].at = "quota" /\ call[c] \in Call /\ call[c].live
      /\ k \in Keys /\ upstream[k] \in Nat
  <2>1. call[c].at = "fetching"
    BY DEF UsageAnswered, CreditsAnswered, Reply
  <2> QED  BY <2>1, Known DEF TypeOK, LiveInv, RequestInv, Call
<1>4. PaidInv(c)'
  BY <1>2, Known DEF PaidInv
<1>5. ASSUME NEW v \in Nat, NEW ttl \in Ttls, Reply(c, v, ttl)
      PROVE  Uses(c) /\ call'[c].live /\ RequestInv(c)'
  <2>1. /\ call'[c].at = "answered" /\ call'[c].need = call[c].need /\ call'[c].live = call[c].live
    BY <1>3, <1>5, Known DEF Reply, TypeOK, Call
  <2>2. RequestInv(c)'
    BY <1>2, <1>3, <2>1, Known DEF RequestInv
  <2> QED  BY <1>3, <1>5, <2>1, <2>2 DEF Uses
<1> HIDE DEF k
<1>6. CASE CreditsAnswered(c)
  <2>1. PICK v \in Nat : Reply(c, v, SuccessTtl)
    BY <1>6, Known DEF CreditsAnswered
  <2>2. seen' = [seen EXCEPT ![c] = {}]
    BY <1>6 DEF CreditsAnswered
  <2>3. [Quotas!Next]_Quotas!vars
    BY <1>6, Known, CreditsAnswer
  <2>4. Uses(c) /\ call'[c].live /\ RequestInv(c)'
    BY <1>5, <2>1
  <2>5. seen' \in [Callers -> SUBSET Nat] /\ seen'[c] = {} /\ \A w \in Callers \ {c} : seen'[w] = seen[w]
    BY <2>2, Known
  <2> QED  BY <1>1, <1>2, <1>4, <2>3, <2>4, <2>5, AssembleUse
<1>7. CASE UsageAnswered(c)
  <2>1. Quotas!Next
    BY <1>7, Known, UsageAnswers DEF Quotas!Next
  <2>2. CASE UNCHANGED seen /\ \E ttl \in Ttls : Reply(c, upstream[k], ttl)
    <3>1. Uses(c) /\ call'[c].live /\ RequestInv(c)'
      BY <1>3, <1>5, <2>2
    <3>2. seen' \in [Callers -> SUBSET Nat] /\ seen'[c] = {} /\ \A w \in Callers \ {c} : seen'[w] = seen[w]
      BY <1>7, <2>2, Known DEF UsageAnswered
    <3> QED  BY <1>1, <1>2, <1>4, <2>1, <3>1, <3>2, AssembleUse
  <2>3. CASE /\ seen' = [seen EXCEPT ![c] = {upstream[k]}]
             /\ UNCHANGED <<store, inFlight, generation, clock, call, upstream, floor>>
    <3>1. TypeOK' /\ ConfirmedInv'
      BY <1>1, <2>3, Known DEF TypeOK, ConfirmedInv, vendorVars
    <3>2. /\ \A w \in Callers \ {c} : Undisturbed(w) /\ seen'[w] = seen[w]
          /\ seen'[c] = {upstream[k]} /\ seen' \in [Callers -> SUBSET Nat]
          /\ call'[c] = call[c]
      BY <1>3, <2>3, Known DEF Undisturbed
    <3>3. seen'[c] # {} => call'[c].at = "fetching" /\ \E v \in Nat : seen'[c] = {v}
      BY <1>3, <3>2
    <3>4. /\ credits' \in [Keys -> 0 .. Credits] /\ confirmed' \in [Keys -> Nat]
          /\ \A x \in Keys : confirmed[x] <= confirmed'[x]
      BY <1>1, Known DEF vendorVars
    <3>5. RequestInv(c)' /\ call'[c].live
      BY <1>2, <1>3, <3>2, Known DEF RequestInv
    <3> QED  BY <1>2, <1>4, <2>1, <3>1, <3>2, <3>3, <3>4, <3>5, Assemble
  <2> QED  BY <1>7, <2>2, <2>3 DEF UsageAnswered, k
<1> QED  BY <1>6, <1>7

LEMMA QuotaEndKeeps ==
    ASSUME ServiceInv, NEW c \in Callers, QuotaArrives(c) \/ QuotaRaises(c)
    PROVE  ServiceInv' /\ [Quotas!Next]_Quotas!vars
<1> DEFINE stage == task'[c].at
           t == [task[c] EXCEPT !.at = stage]
<1>1. /\ Auth!TypeOK' /\ ListsKept(c) /\ aCall' = aCall /\ confirmed' = confirmed
      /\ UNCHANGED vendorVars
  <2>1. UNCHANGED <<authVars, vendorVars, clock>> /\ clock \in Nat
    BY Known DEF QuotaArrives, QuotaRaises, Finish, Wake, Fail, Abort, TypeOK
  <2> QED  BY <2>1, Known, AuthKept DEF vendorVars
<1>2. call[c].at \notin Ended /\ call[c].live /\ call[c] \in Call
  BY Known DEF QuotaArrives, QuotaRaises, Finish, Wake, LiveInv, TypeOK
<1>3. /\ task[c].at = "quota" /\ task[c].op = "get" /\ task[c].paid = 0
      /\ call[c].need >= task[c].since /\ aCall[c].at \in Ended
  BY <1>2, Known DEF RequestInv, PaidInv
<1>4. /\ stage \in {"200", "500"} /\ task' = [task EXCEPT ![c] = t] /\ t \in Task
      /\ QuotaArrives(c) => stage = "200"
      /\ QuotaRaises(c) => stage = "500"
  <2>1. ASSUME NEW s \in {"200", "500"}, task' = [task EXCEPT ![c].at = s]
        PROVE  task'[c].at = s /\ task' = [task EXCEPT ![c] = t] /\ t \in Task
    BY <2>1, Known DEF Task, Over200
  <2> QED  BY <2>1 DEF QuotaArrives, QuotaRaises
<1>5. t.at = stage /\ t.paid = 0 /\ t.op = "get" /\ t.since = task[c].since /\ task'[c] = t
  BY <1>3, <1>4, Known DEF Task
<1> HIDE DEF t, stage
<1>6. seen' = [seen EXCEPT ![c] = {}] /\ (seen[c] # {} => Fail(c))
      /\ (Finish(c) \/ Fail(c) \/ Wake(c)) /\ (QuotaArrives(c) => seen[c] = {})
  <2>1. CASE QuotaArrives(c)
    <3>1. seen[c] = {}
      BY <2>1, Known DEF QuotaArrives, Finish, Wake, SeenInv
    <3> QED  BY <2>1, <3>1, Known DEF QuotaArrives
  <2>2. CASE QuotaRaises(c) /\ ~QuotaArrives(c)
    BY <2>2, Known DEF QuotaRaises, SeenInv
  <2> QED  BY <2>1, <2>2
<1>7. Uses(c) /\ Quotas!Next
  BY <1>6, Known, QuotaEnds DEF Uses, Quotas!Next
<1>8. /\ seen' \in [Callers -> SUBSET Nat] /\ seen'[c] = {}
      /\ \A w \in Callers \ {c} : seen'[w] = seen[w]
  BY <1>6, Known
<1>9. /\ call'[c].at \in Ended /\ call'[c].live
      /\ QuotaArrives(c) => call'[c].at = "returned" /\ call'[c].need = call[c].need
  <2>1. CASE QuotaArrives(c)
    <3>1. call'[c] = Over(c, "returned")
      BY <1>2, <2>1, Known DEF QuotaArrives, Finish, Wake, Settle, TypeOK
    <3> QED  BY <3>1 DEF Over
  <2>2. CASE QuotaRaises(c) /\ ~QuotaArrives(c)
    <3>1. call'[c] = Over(c, "raised")
      BY <1>2, <2>2, Known DEF QuotaRaises, Fail, Abort, Wake, Settle, TypeOK
    <3> QED  BY <2>2, <3>1 DEF Over
  <2> QED  BY <2>1, <2>2
<1>10. RequestInv(c)'
  BY <1>1, <1>3, <1>4, <1>5, <1>9 DEF RequestInv
<1>11. PaidInv(c)'
  BY <1>4, <1>5 DEF PaidInv
<1> QED  BY <1>1, <1>4, <1>7, <1>8, <1>9, <1>10, <1>11, AssembleUse
LEMMA StageAfter ==
    ASSUME NEW r \in Task, NEW stage \in {"refused", "204", "502"}
    PROVE  /\ [r EXCEPT !.at = stage] \in Task
           /\ [r EXCEPT !.at = stage].at = stage /\ [r EXCEPT !.at = stage].paid = r.paid
  BY DEF Task, Over200

LEMMA SpentAfter ==
    ASSUME NEW r \in Task, r.paid = 0
    PROVE  /\ [r EXCEPT !.at = "spent", !.paid = @ + 1] \in Task
           /\ [r EXCEPT !.at = "spent", !.paid = @ + 1].at = "spent"
           /\ [r EXCEPT !.at = "spent", !.paid = @ + 1].paid = 1
<1>1. r.paid + 1 = 1 /\ 1 \in Nat
  OBVIOUS
<1>2. [r EXCEPT !.at = "spent", !.paid = @ + 1] = [r EXCEPT !.at = "spent", !.paid = 1]
  BY <1>1
<1>3. [r EXCEPT !.at = "spent", !.paid = 1] \in Task
  BY <1>1 DEF Task
<1>4. /\ [r EXCEPT !.at = "spent", !.paid = 1].at = "spent"
      /\ [r EXCEPT !.at = "spent", !.paid = 1].paid = 1
  BY DEF Task
<1> QED  BY <1>2, <1>3, <1>4

LEMMA ResetKeeps ==
    ASSUME ServiceInv, NEW c \in Callers, Spend(c) \/ ResetAccepted(c) \/ ResetFails(c)
    PROVE  ServiceInv' /\ [Quotas!Next]_Quotas!vars
<1> DEFINE k == task[c].key
<1>1. /\ task[c].at \in {"resetting", "spent", "refused"} /\ task[c] \in Task /\ k \in Keys
      /\ task[c].paid \in 0 .. 1 /\ (task[c].at # "spent" => task[c].paid = 0)
      /\ task[c].at = "spent" => task[c].paid = 1
  BY Known DEF Spend, ResetAccepted, ResetFails, PaidInv, Task
<1>2. call[c].at \in Ended /\ aCall[c].at \in Ended
  BY <1>1, Known DEF RequestInv
<1>3. /\ UNCHANGED <<authVars, call, seen, clock>>
      /\ Auth!TypeOK' /\ ListsKept(c) /\ aCall' = aCall
  <2>1. UNCHANGED <<authVars, call, seen, clock>> /\ clock \in Nat
    BY Known DEF Spend, ResetAccepted, ResetFails, Change, Invalidate, quotaVars, TypeOK
  <2> QED  BY <2>1, Known, AuthKept
<1>4. \A w \in Callers \ {c} : Undisturbed(w) /\ seen'[w] = seen[w]
  BY <1>3 DEF Undisturbed
<1>5. /\ seen' \in [Callers -> SUBSET Nat] /\ call'[c].live
      /\ seen'[c] # {} => call'[c].at = "fetching" /\ \E v \in Nat : seen'[c] = {v}
  BY <1>3, Known DEF SeenInv, LiveInv
<1>6. ASSUME NEW stage \in {"refused", "204", "502"}, task' = [task EXCEPT ![c].at = stage]
      PROVE  /\ task' = [task EXCEPT ![c] = task'[c]] /\ task'[c] \in Task
             /\ task'[c].at = stage /\ task'[c].paid = task[c].paid
  <2>1. task'[c] = [task[c] EXCEPT !.at = stage] /\ task' = [task EXCEPT ![c] = task'[c]]
    BY <1>6, Known
  <2>2. task[c] \in Task
    BY Known
  <2>3. /\ [task[c] EXCEPT !.at = stage] \in Task
        /\ [task[c] EXCEPT !.at = stage].at = stage /\ [task[c] EXCEPT !.at = stage].paid = task[c].paid
    BY <2>2, StageAfter
  <2> HIDE DEF k
  <2> QED  BY <2>1, <2>3
<1>7. /\ task' = [task EXCEPT ![c] = task'[c]] /\ task'[c] \in Task
      /\ task'[c].at \in {"spent", "refused", "204", "502"} /\ task'[c].paid \in 0 .. 1
      /\ task'[c].at \in {"spent", "204"} => task'[c].paid = 1
      /\ task'[c].at = "refused" => task'[c].paid = 0
  <2>1. CASE Spend(c) /\ credits[k] > 0
    <3>1. task' = [task EXCEPT ![c].at = "spent", ![c].paid = @ + 1] /\ task[c].paid = 0
      BY <2>1, <1>1 DEF Spend
    <3>2. /\ task'[c] = [task[c] EXCEPT !.at = "spent", !.paid = @ + 1]
          /\ task' = [task EXCEPT ![c] = task'[c]]
      BY <3>1, Known
    <3>3. task'[c] \in Task /\ task'[c].at = "spent" /\ task'[c].paid = 1
      BY <3>1, <3>2, Known, SpentAfter
    <3> QED  BY <3>2, <3>3
  <2>2. CASE Spend(c) /\ ~(credits[k] > 0)
    <3>1. task' = [task EXCEPT ![c].at = "refused"] /\ task[c].paid = 0
      BY <2>2, <1>1 DEF Spend
    <3> QED  BY <3>1, <1>6
  <2>3. CASE ResetAccepted(c)
    <3>1. task' = [task EXCEPT ![c].at = "204"] /\ task[c].paid = 1
      BY <2>3, <1>1 DEF ResetAccepted
    <3> QED  BY <3>1, <1>6
  <2>4. CASE ResetFails(c)
    <3>1. task' = [task EXCEPT ![c].at = "502"]
      BY <2>4 DEF ResetFails
    <3>2. task[c].paid \in 0 .. 1
      BY <1>1
    <3> QED  BY <3>1, <3>2, <1>6
  <2> QED  BY <2>1, <2>2, <2>3, <2>4
<1>8. RequestInv(c)' /\ PaidInv(c)'
  <2>1. call'[c] = call[c] /\ aCall'[c] = aCall[c]
    BY <1>3
  <2>2. RequestInv(c)'
    BY <1>2, <1>7, <2>1 DEF RequestInv
  <2> QED  BY <1>7, <2>2 DEF PaidInv
<1>9. CASE UNCHANGED <<quotaVars, vendorVars, clock>>
  BY <1>3, <1>7, <1>8, <1>9, AssembleQuiet
<1>10. CASE Spend(c) /\ credits[k] > 0
  <2>1. Change(k) /\ credits' = [credits EXCEPT ![k] = @ - 1] /\ UNCHANGED confirmed
    BY <1>10 DEF Spend
  <2>2. TypeOK' /\ Quotas!Next
    BY <1>1, <1>3, <2>1, Known, UpstreamSteps, TypeStep DEF Next
  <2>3. credits' \in [Keys -> 0 .. Credits]
    <3>1. credits[k] - 1 \in 0 .. Credits
      BY <1>1, <1>10, Known
    <3> QED  BY <2>1, <3>1, Known
  <2>4. /\ confirmed' \in [Keys -> Nat] /\ ConfirmedInv' /\ \A x \in Keys : confirmed[x] <= confirmed'[x]
    BY <2>1, Known DEF Change, ConfirmedInv
  <2> QED  BY <1>3, <1>4, <1>5, <1>7, <1>8, <2>2, <2>3, <2>4, Assemble
<1>11. CASE ResetAccepted(c)
  <2>1. Invalidate(k) /\ confirmed' = [confirmed EXCEPT ![k] = upstream[k]] /\ UNCHANGED credits
    BY <1>11 DEF ResetAccepted
  <2>2. TypeOK' /\ Quotas!Next
    BY <1>1, <1>3, <2>1, Known, UpstreamSteps, TypeStep DEF Next
  <2>3. upstream[k] \in Nat /\ confirmed[k] <= upstream[k]
    BY <1>1, Known DEF ServiceInv, TypeOK, ConfirmedInv, Quotas!Inv, Quotas!VersionInv
  <2>4. confirmed' \in [Keys -> Nat] /\ \A x \in Keys : confirmed[x] <= confirmed'[x]
    BY <1>1, <2>1, <2>3, Known
  <2>5. ConfirmedInv'
    BY <1>1, <2>1, Known DEF Invalidate, ConfirmedInv, TypeOK
  <2>6. credits' \in [Keys -> 0 .. Credits]
    BY <2>1, Known
  <2> QED  BY <1>3, <1>4, <1>5, <1>7, <1>8, <2>2, <2>4, <2>5, <2>6, Assemble
<1>12. \/ UNCHANGED <<quotaVars, vendorVars, clock>>
       \/ Spend(c) /\ credits[k] > 0
       \/ ResetAccepted(c)
  BY DEF Spend, ResetFails, quotaVars, vendorVars
<1> QED  BY <1>9, <1>10, <1>11, <1>12
-----------------------------------------------------------------------------
(* The invariant holds.                                                    *)

\* Use of an account, changes of the auth files and time touch no request.
LEMMA EnvironmentKeeps ==
    ASSUME ServiceInv, (\E k \in Keys : Use(k)) \/ FilesChange \/ Passing
    PROVE  ServiceInv' /\ [Quotas!Next]_Quotas!vars
<1>0. /\ TypeOK /\ Auth!TypeOK /\ ServiceTypeOK
      /\ UNCHANGED <<task, seen, call, floor, aCall, credits, confirmed>>
      /\ Auth!TypeOK'
  <2>1. TypeOK /\ Auth!TypeOK /\ ServiceTypeOK
    BY DEF ServiceInv, ServiceTypeOK
  <2>2. UNCHANGED <<task, seen, call, floor, aCall, credits, confirmed>>
    BY DEF Use, FilesChange, Passing, Change, Tick, Auth!Change, quotaVars, vendorVars, authVars
  <2>3. CASE FilesChange
    <3>1. clock' = clock /\ Auth!Change(Files)
      BY <2>3 DEF FilesChange, Auth!Change
    <3>2. aUpstream' \in [{Files} -> Nat]
      BY <2>1, <3>1 DEF Auth!Change, Auth!TypeOK
    <3> QED  BY <2>1, <2>2, <3>1, <3>2 DEF Auth!Change, Auth!TypeOK
  <2>4. CASE ~FilesChange
    <3>1. UNCHANGED authVars /\ clock' \in Nat
      <4>1. ASSUME NEW k \in Keys, Use(k) PROVE UNCHANGED authVars /\ clock' \in Nat
        BY <2>1, <4>1 DEF Use, Change, TypeOK
      <4>2. ASSUME Passing PROVE UNCHANGED authVars /\ clock' \in Nat
        BY <2>1, <4>2 DEF Passing, Tick, TypeOK
      <4> QED  BY <2>4, <4>1, <4>2
    <3> QED  BY <2>1, <2>2, <3>1 DEF Auth!TypeOK, authVars
  <2> QED  BY <2>1, <2>2, <2>3, <2>4
<1>1. TypeOK' /\ [Quotas!Next]_Quotas!vars
  <2>1. ASSUME NEW k \in Keys, Use(k) PROVE TypeOK' /\ Quotas!Next
    BY <1>0, <2>1, UpstreamSteps, TypeStep DEF Use, Next
  <2>2. CASE FilesChange
    <3>1. UNCHANGED vars /\ UNCHANGED Quotas!vars
      BY <2>2, CalledKept DEF FilesChange, quotaVars, Auth!Change, vars, Quotas!vars
    <3> QED  BY <1>0, <3>1, TypeStep
  <2>3. CASE Passing
    <3>1. Tick /\ Called' = Called
      BY <2>3, CalledKept DEF Passing, Tick
    <3>2. Quotas!Tick
      BY <3>1 DEF Tick, Quotas!Tick
    <3> QED  BY <1>0, <3>1, <3>2, TypeStep DEF Next, Quotas!Next
  <2> QED  BY <2>1, <2>2, <2>3
<1>2. Quotas!Inv'
  BY <1>1, Quotas!InvStep DEF ServiceInv
<1>3. ServiceTypeOK' /\ SeenInv' /\ LiveInv' /\ ConfirmedInv'
  BY <1>0, <1>1 DEF ServiceInv, ServiceTypeOK, SeenInv, LiveInv, ConfirmedInv
<1>4. ASSUME NEW c \in Callers PROVE RequestInv(c)' /\ PaidInv(c)'
  BY <1>0 DEF ServiceInv, RequestInv, PaidInv
<1> QED  BY <1>1, <1>2, <1>3, <1>4 DEF ServiceInv

LEMMA InitHolds == ServiceInit => ServiceInv
<1> SUFFICES ASSUME ServiceInit PROVE ServiceInv
  OBVIOUS
<1>1. Init /\ Auth!Init
  BY DEF ServiceInit
<1>2. TypeOK
  BY <1>1 DEF Init, TypeOK, Call, Value, NoValue
<1>3. Auth!TypeOK
  BY <1>1 DEF Auth!Init, Auth!TypeOK, Auth!Call, Auth!Value, Auth!NoValue, Auth!Stage, Auth!Ended,
     Auth!Leading
<1>4. ServiceTypeOK
  <2>1. PICK k \in Keys :
          task = [c \in Callers |->
                    [op |-> "get", key |-> k, at |-> "none", paid |-> 0, since |-> 0]]
    BY DEF ServiceInit
  <2>2. task \in [Callers -> Task]
    BY <2>1 DEF Task, Over200
  <2>3. credits \in [Keys -> 0 .. Credits]
    BY DEF ServiceInit
  <2> QED  BY <1>2, <1>3, <2>2, <2>3 DEF ServiceInit, ServiceTypeOK
<1>5. SeenInv /\ LiveInv /\ ConfirmedInv
  BY <1>1 DEF ServiceInit, Init, SeenInv, LiveInv, ConfirmedInv
<1>6. Quotas!Inv
  <2>1. \A c \in Callers : Called[c] = call[c]
    BY CalledValues DEF ServiceInit
  <2>2. Called = call
    BY <2>1, <1>1 DEF Called, Init
  <2>3. Inv
    <3>1. FlightInv /\ LeaderInv /\ SingleFlight /\ WaiterInv /\ StoreInv
      BY <1>1 DEF Init, FlightInv, LeaderInv, SingleFlight, WaiterInv, StoreInv
    <3>2. VersionInv
      BY <1>1 DEF Init, VersionInv, NoValue
    <3> QED  BY <1>2, <3>1, <3>2 DEF Inv
  <2>4. Quotas!TypeOK /\ Quotas!SingleFlight
    BY <2>2, <2>3 DEF Inv, TypeOK, Quotas!TypeOK, Entry, Quotas!Entry, Call, Quotas!Call, Value,
       Quotas!Value, Quotas!Stage, Quotas!Ended, Quotas!Leading, SingleFlight, Quotas!SingleFlight
  <2>5. Quotas!FlightInv /\ Quotas!LeaderInv /\ Quotas!WaiterInv
    BY <2>2, <2>3 DEF Inv, FlightInv, Quotas!FlightInv, LeaderInv, Quotas!LeaderInv, WaiterInv,
       Quotas!WaiterInv, Quotas!Leading
  <2>6. Quotas!VersionInv /\ Quotas!StoreInv
    BY <2>2, <2>3 DEF Inv, VersionInv, Quotas!VersionInv, StoreInv, Quotas!StoreInv, MayStore,
       Quotas!MayStore
  <2> QED  BY <2>4, <2>5, <2>6 DEF Quotas!Inv
<1>7. ASSUME NEW c \in Callers PROVE RequestInv(c) /\ PaidInv(c)
  BY <1>1 DEF ServiceInit, Init, Auth!Init, RequestInv, PaidInv
<1> QED  BY <1>4, <1>5, <1>6, <1>7 DEF ServiceInv

\* Each step of the service keeps the invariant, and is a step of its quota
\* cache, the two calls of one fetch seen as one, or leaves the cache as it is.
LEMMA ServiceStep ==
    ASSUME ServiceInv, [ServiceNext]_serviceVars
    PROVE  ServiceInv' /\ [Quotas!Next]_Quotas!vars
<1>1. ASSUME NEW c \in Callers, Handle(c) PROVE ServiceInv' /\ [Quotas!Next]_Quotas!vars
  BY <1>1, ListKeeps, FetchKeeps, QuotaEndKeeps, ResetKeeps DEF Handle
<1>2. ASSUME NEW c \in Callers, NEW k \in Keys, NEW op \in {"get", "reset"}, Begin(c, op, k)
      PROVE  ServiceInv' /\ [Quotas!Next]_Quotas!vars
  BY <1>2, BeginKeeps
<1>3. CASE (\E k \in Keys : Use(k)) \/ FilesChange \/ Passing
  BY <1>3, EnvironmentKeeps
<1>4. CASE UNCHANGED serviceVars
  <2>1. UNCHANGED <<store, inFlight, generation, clock, call, upstream, floor, seen>>
        /\ UNCHANGED authVars /\ UNCHANGED <<credits, confirmed, task>>
    BY <1>4 DEF serviceVars, quotaVars, vendorVars
  <2>2. Called' = Called
    BY <2>1, CalledKept
  <2>3. UNCHANGED vars /\ UNCHANGED Quotas!vars
    BY <2>1, <2>2 DEF vars, Quotas!vars
  <2>4. TypeOK' /\ Quotas!Inv'
    BY <2>3, TypeStep, Quotas!InvStep DEF ServiceInv, ServiceTypeOK
  <2>5. Auth!TypeOK'
    BY <2>1 DEF ServiceInv, ServiceTypeOK, Auth!TypeOK, authVars
  <2>6. ServiceTypeOK' /\ SeenInv' /\ LiveInv' /\ ConfirmedInv'
    BY <2>1, <2>4, <2>5 DEF ServiceInv, ServiceTypeOK, SeenInv, LiveInv, ConfirmedInv
  <2>7. ASSUME NEW c \in Callers PROVE RequestInv(c)' /\ PaidInv(c)'
    BY <2>1 DEF ServiceInv, RequestInv, PaidInv, authVars
  <2> QED  BY <2>3, <2>4, <2>6, <2>7 DEF ServiceInv
<1> QED  BY <1>1, <1>2, <1>3, <1>4 DEF ServiceNext

\* Requests, both caches and the vendor fit together in every reachable state.
THEOREM ServiceInvariance == ServiceSpec => []ServiceInv
<1>1. ServiceInv /\ [ServiceNext]_serviceVars => ServiceInv'
  BY ServiceStep
<1> QED  BY <1>1, InitHolds, PTL DEF ServiceSpec

\* What the requests, the caches and the vendor hold has its type.
THEOREM ServiceTypeCorrect == ServiceSpec => []ServiceTypeOK
<1>1. ServiceInv => ServiceTypeOK
  BY DEF ServiceInv
<1> QED  BY <1>1, ServiceInvariance, PTL

\* No request has begun, and nothing is cached.
LEMMA CacheStarts == ServiceInit => Quotas!Init
<1> SUFFICES ASSUME ServiceInit PROVE Quotas!Init
  OBVIOUS
<1>1. Init /\ \A c \in Callers : Called[c] = call[c]
  BY CalledValues DEF ServiceInit
<1>2. Called = call
  BY <1>1 DEF Called, Init
<1> QED  BY <1>1, <1>2 DEF Init, Quotas!Init, NoValue, Quotas!NoValue

\* The service uses its quota cache as the cache is specified (service.py), two-call
\* fetches included: every behaviour of the service is one of TtlCache.
THEOREM QuotaCacheRefines == ServiceSpec => Quotas!Spec
<1>1. ServiceInv /\ [ServiceNext]_serviceVars => [Quotas!Next]_Quotas!vars
  BY ServiceStep
<1> QED  BY <1>1, CacheStarts, ServiceInvariance, PTL DEF ServiceSpec, Quotas!Spec

\* So it is one of FreshRead too: what a request of a quota gets (README, "Manual resets") is
\* what the vendor had at some time since the last reset confirmed before it.
THEOREM ServiceKeepsPromise == ServiceSpec => Quotas!Promise!Spec
  BY QuotaCacheRefines, Quotas!PromiseIsKept, PTL

\* Each step of the service is a step of the auth-file cache, or leaves it as it is.
LEMMA AuthFilesStep ==
    ASSUME ServiceInv, [ServiceNext]_serviceVars
    PROVE  [AuthFiles!Next]_AuthFiles!vars
<1>1. ASSUME UNCHANGED authVars, clock' = clock PROVE UNCHANGED AuthFiles!vars
  BY <1>1 DEF authVars, AuthFiles!vars
<1>2. ASSUME NEW c \in Callers, ListEnds(c) \/ ListGoesOn(c) PROVE [AuthFiles!Next]_AuthFiles!vars
  BY <1>2, ListSteps
<1>3. ASSUME NEW c \in Callers, Handle(c) PROVE [AuthFiles!Next]_AuthFiles!vars
  <2>1. CASE ListAnswered(c) \/ ListArrives(c) \/ ListFails(c)
    BY <1>2, <2>1 DEF ListAnswered, ListArrives, ListFails, ListEnds, ListGoesOn
  <2>2. CASE UsageAnswered(c) \/ CreditsAnswered(c)
    BY <1>1, <2>2 DEF UsageAnswered, CreditsAnswered, Reply
  <2>3. CASE QuotaArrives(c) \/ QuotaRaises(c)
    BY <1>1, <2>3 DEF QuotaArrives, QuotaRaises, Finish, Wake, Fail, Abort
  <2>4. CASE Spend(c) \/ ResetAccepted(c) \/ ResetFails(c)
    BY <1>1, <2>4 DEF Spend, ResetAccepted, ResetFails, Change, Invalidate
  <2> QED  BY <1>3, <2>1, <2>2, <2>3, <2>4 DEF Handle
<1>4. ASSUME NEW c \in Callers, NEW k \in Keys, NEW op \in {"get", "reset"}, Begin(c, op, k)
      PROVE  [AuthFiles!Next]_AuthFiles!vars
  BY <1>2, <1>4 DEF Begin, ListEnds, ListGoesOn
<1>5. CASE \E k \in Keys : Use(k)
  BY <1>1, <1>5 DEF Use, Change
<1>6. CASE FilesChange
  BY <1>6 DEF FilesChange, Auth!Change, AuthFiles!Change, AuthFiles!Next
<1>7. CASE Passing
  BY <1>7 DEF Passing, Tick, authVars, AuthFiles!Tick, AuthFiles!Next
<1>8. CASE UNCHANGED serviceVars
  BY <1>1, <1>8 DEF serviceVars
<1> QED  BY <1>3, <1>4, <1>5, <1>6, <1>7, <1>8 DEF ServiceNext

\* The service uses its auth-file cache (_list_auth_files) as the cache is
\* specified too, though it never invalidates it: what is proved of a cache holds of both.
THEOREM AuthFilesRefine == ServiceSpec => AuthFiles!Spec
<1>1. ServiceInit => AuthFiles!Init
  BY DEF ServiceInit, Auth!Init, AuthFiles!Init, Auth!NoValue, AuthFiles!NoValue
<1>2. ServiceInv /\ [ServiceNext]_serviceVars => [AuthFiles!Next]_AuthFiles!vars
  BY AuthFilesStep
<1> QED  BY <1>1, <1>2, ServiceInvariance, PTL DEF ServiceSpec, AuthFiles!Spec

\* So no call of the quota cache returns what is older than the invalidation before it,
\* and a generation of an account has one fetch.
THEOREM QuotaCacheUsedAsSpecified == ServiceSpec => []Quotas!NoStaleRead /\ []Quotas!SingleFlight
  BY QuotaCacheRefines, Quotas!NoStaleReadHolds, Quotas!SingleFlightHolds, PTL

\* A quota asked for after a confirmed reset was read after it (README, "Manual
\* resets"), whichever request fetched it and however long its two calls took.
THEOREM ResetIsVisibleHolds == ServiceSpec => []ResetIsVisible
<1>1. ServiceInv => ResetIsVisible
  <2> SUFFICES ASSUME ServiceInv, NEW c \in Callers, task[c].op = "get", task[c].at = "200"
               PROVE  call[c].val.ver >= task[c].since
    BY DEF ResetIsVisible
  <2>1. call[c].at = "returned" /\ call[c].need >= task[c].since /\ seen[c] = {}
    BY Known DEF RequestInv, SeenInv
  <2>2. Called[c] = call[c]
    BY <2>1, CalledValues
  <2>3. call[c].need <= call[c].val.ver
    BY <2>1, <2>2 DEF ServiceInv, Quotas!Inv, Quotas!VersionInv
  <2>4. call[c].need \in Nat /\ call[c].val.ver \in Nat /\ task[c].since \in Nat
    BY Known DEF TypeOK, Call, Value, Task
  <2> QED  BY <2>1, <2>3, <2>4
<1> QED  BY <1>1, ServiceInvariance, PTL

\* A request spends at most one reset, exactly one when it answers 204.
THEOREM ResetSpendsOnceHolds == ServiceSpec => []ResetSpendsOnce
<1>1. ServiceInv => ResetSpendsOnce
  BY DEF ServiceInv, PaidInv, ResetSpendsOnce
<1> QED  BY <1>1, ServiceInvariance, PTL


\* No step of a request touches another one.
LEMMA TaskIsOwn ==
    ASSUME task \in [Callers -> Task], NEW d \in Callers, NEW c \in Callers \ {d},
           \/ Handle(d)
           \/ \E k \in Keys, op \in {"get", "reset"} : Begin(d, op, k)
    PROVE  task'[c] = task[c]
<1>1. ASSUME NEW t, NEW v, Resolved(d, t, v) PROVE task'[c] = task[c]
  BY <1>1 DEF Resolved, EnterQuota, EnterReset
<1>2. ASSUME Unresolved(d) PROVE task'[c] = task[c]
  BY <1>2 DEF Unresolved
<1>3. ASSUME NEW k \in Keys, NEW op \in {"get", "reset"}, Begin(d, op, k) PROVE task'[c] = task[c]
  <2> DEFINE t == [op |-> op, key |-> k, at |-> "listing", paid |-> 0, since |-> confirmed[k]]
  <2>1. \/ Resolved(d, t, aCall'[d].val.ver)
        \/ task' = [task EXCEPT ![d] = t]
    BY <1>3 DEF Begin
  <2> QED  BY <2>1, <1>1
<1>4. ASSUME ListAnswered(d) \/ ListArrives(d) \/ ListFails(d) PROVE task'[c] = task[c]
  BY <1>4, <1>1, <1>2 DEF ListAnswered, ListArrives, ListFails
<1>5. ASSUME UsageAnswered(d) \/ CreditsAnswered(d) \/ QuotaArrives(d) \/ QuotaRaises(d)
      PROVE  task'[c] = task[c]
  BY <1>5 DEF UsageAnswered, CreditsAnswered, QuotaArrives, QuotaRaises
<1>6. ASSUME Spend(d) \/ ResetAccepted(d) \/ ResetFails(d) PROVE task'[c] = task[c]
  BY <1>6 DEF Spend, ResetAccepted, ResetFails
<1> QED  BY <1>3, <1>4, <1>5, <1>6 DEF Handle

\* A request that ends with 404, 405 or 502 leaves the quota cache alone.
LEMMA FailureKeepsCache ==
    ASSUME task \in [Callers -> Task], NEW c \in Callers,
           \/ Handle(c)
           \/ \E k \in Keys, op \in {"get", "reset"} : Begin(c, op, k),
           confirmed \in [Keys -> Nat],
           task'[c].at \in {"404", "405", "502"}, task'[c].at # task[c].at
    PROVE  UNCHANGED <<store, inFlight, generation>>
<1>1. ASSUME NEW t \in Task, NEW v, Resolved(c, t, v) PROVE UNCHANGED <<store, inFlight, generation>>
  <2>1. ASSUME EnterQuota(c, t) PROVE FALSE
    <3>1. task'[c].at \in {"200", "quota"}
      BY <2>1 DEF EnterQuota, Task
    <3> QED  BY <3>1
  <2> QED  BY <1>1, <2>1 DEF Resolved, EnterReset
<1>2. ASSUME Unresolved(c) PROVE UNCHANGED <<store, inFlight, generation>>
  BY <1>2 DEF Unresolved, quotaVars
<1>3. ASSUME NEW k \in Keys, NEW op \in {"get", "reset"}, Begin(c, op, k)
      PROVE  UNCHANGED <<store, inFlight, generation>>
  <2> DEFINE t == [op |-> op, key |-> k, at |-> "listing", paid |-> 0, since |-> confirmed[k]]
  <2>1. t \in Task
    BY <1>3 DEF Task, Over200
  <2>2. Resolved(c, t, aCall'[c].val.ver) \/ UNCHANGED quotaVars
    BY <1>3 DEF Begin
  <2> HIDE DEF t
  <2> QED  BY <1>1, <2>1, <2>2 DEF quotaVars
<1>4. ASSUME ListAnswered(c) \/ ListArrives(c) \/ ListFails(c)
      PROVE  UNCHANGED <<store, inFlight, generation>>
  BY <1>4, <1>1, <1>2 DEF ListAnswered, ListArrives, ListFails, quotaVars
<1>5. ASSUME UsageAnswered(c) \/ CreditsAnswered(c) PROVE FALSE
  BY <1>5 DEF UsageAnswered, CreditsAnswered
<1>6. ASSUME QuotaArrives(c) \/ QuotaRaises(c) PROVE FALSE
  <2>1. task'[c].at \in {"200", "500"}
    BY <1>6 DEF QuotaArrives, QuotaRaises, Task
  <2> QED  BY <2>1
<1>7. ASSUME Spend(c) \/ ResetAccepted(c) PROVE FALSE
  <2>1. task'[c].at \in {"spent", "refused", "204"}
    BY <1>7 DEF Spend, ResetAccepted, Task
  <2> QED  BY <2>1
<1>8. ASSUME ResetFails(c) PROVE UNCHANGED <<store, inFlight, generation>>
  BY <1>8 DEF ResetFails, quotaVars
<1> QED  BY <1>3, <1>4, <1>5, <1>6, <1>7, <1>8 DEF Handle

\* A reset that fails leaves the quota cache as it is (README, "Manual resets").
THEOREM FailedResetKeepsCacheHolds == ServiceSpec => FailedResetKeepsCache
<1> DEFINE Kept == \A c \in Callers :
          task[c].op = "reset" /\ task'[c].at \in {"404", "405", "502"} /\ task[c].at # task'[c].at
          => UNCHANGED <<store, inFlight, generation>>
<1>1. ServiceInv /\ [ServiceNext]_serviceVars => [Kept]_serviceVars
  <2> SUFFICES ASSUME ServiceInv, ServiceNext, NEW c \in Callers,
                      task'[c].at \in {"404", "405", "502"}, task'[c].at # task[c].at
               PROVE  UNCHANGED <<store, inFlight, generation>>
    OBVIOUS
  <2>1. task \in [Callers -> Task] /\ confirmed \in [Keys -> Nat]
    BY DEF ServiceInv, ServiceTypeOK
  <2>2. ASSUME NEW d \in Callers,
               \/ Handle(d)
               \/ \E k \in Keys, op \in {"get", "reset"} : Begin(d, op, k)
        PROVE  UNCHANGED <<store, inFlight, generation>>
    BY <2>1, <2>2, TaskIsOwn, FailureKeepsCache
  <2>3. CASE (\E k \in Keys : Use(k)) \/ FilesChange \/ Passing
    BY <2>3 DEF Use, FilesChange, Passing
  <2> QED  BY <2>2, <2>3 DEF ServiceNext
<1> QED  BY <1>1, ServiceInvariance, PTL DEF ServiceSpec, FailedResetKeepsCache
=============================================================================
