---------------------------- MODULE QuotaService ----------------------------
(***************************************************************************)
(* quota/service.py: QuotaService over its two TTL caches.  The quota      *)
(* cache is the TtlCache this module extends, one key per account; the     *)
(* auth-file list is cached in a second one, Auth, under a single key.     *)
(* A request (a caller) gets the quota of an account or resets it.  What   *)
(* runs between two awaits is one action, so a hit in the auth-file cache  *)
(* goes on into the quota cache, or into the reset, in the same step.      *)
(*                                                                         *)
(* The upstream of the quota cache is the vendor: upstream[k] counts the   *)
(* changes of account k, by use or by a reset.                             *)
(***************************************************************************)
EXTENDS TtlCache

CONSTANTS
    Listed(_),      \* the accounts that version v of the auth-file list names
    Resettable,     \* the accounts whose provider has manual resets
    SuccessTtl,
    ErrorTtl,
    Credits,        \* bound: manual resets an account starts with
    MaxListings     \* bound: changes of the auth-file list

ASSUME ServiceAssumption ==
    /\ Resettable \subseteq Keys
    /\ SuccessTtl \in Ttls /\ ErrorTtl \in Ttls
    /\ Credits \in Nat /\ MaxListings \in Nat

VARIABLES
    aStore, aInFlight, aGeneration, aCall, aUpstream, aFloor, \* the auth-file cache
    task,       \* task[c]: the request of c
    seen,       \* seen[c]: {v} once its usage call read v and its credits call runs
    credits,    \* the vendor's count of unspent resets
    confirmed   \* ghost: the version the last reset answered 204 produced

Files == "auth-files"

Auth == INSTANCE TtlCache WITH
            Keys <- {Files}, Ttls <- {SuccessTtl}, MayCancel <- FALSE,
            MaxVersion <- MaxListings, MaxGen <- 0,
            store <- aStore, inFlight <- aInFlight, generation <- aGeneration,
            call <- aCall, upstream <- aUpstream, floor <- aFloor

quotaVars == <<store, inFlight, generation, call, upstream, floor, seen>>
authVars == <<aStore, aInFlight, aGeneration, aCall, aUpstream, aFloor>>
vendorVars == <<credits, confirmed>>
serviceVars == <<quotaVars, authVars, vendorVars, clock, task>>

(* Where a request stands:
     listing    awaits the auth-file list
     quota      awaits the quota cache
     resetting  the reset is on its way to the vendor
     spent      the vendor accepted it, refused  the vendor did not;
                either answer is on its way back
     an HTTP status: the request is over                                   *)
Over200 == {"none", "200", "204", "404", "405", "500", "502"}
Task == [op : {"get", "reset"},
         key : Keys,
         at : Over200 \cup {"listing", "quota", "resetting", "spent", "refused"},
         paid : Nat,      \* ghost: resets the vendor spent for this request
         since : Nat]     \* ghost: confirmed[key] when the request began

ServiceInit ==
    /\ Init
    /\ Auth!Init
    /\ \E k \in Keys :
         task = [c \in Callers |->
                   [op |-> "get", key |-> k, at |-> "none", paid |-> 0, since |-> 0]]
    /\ seen = [c \in Callers |-> {}]
    /\ credits = [k \in Keys |-> IF k \in Resettable THEN Credits ELSE 0]
    /\ confirmed = [k \in Keys |-> 0]

\* get_quota after the account is resolved: a cached envelope ends the request.
EnterQuota(c, t) ==
    \/ Hit(c, t.key) /\ task' = [task EXCEPT ![c] = [t EXCEPT !.at = "200"]]
    \/ /\ Join(c, t.key) \/ Lead(c, t.key)
       /\ task' = [task EXCEPT ![c] = [t EXCEPT !.at = "quota"]]

\* reset_quota after the account is resolved: the provider has no resets, or
\* the request goes out.
EnterReset(c, t) ==
    /\ task' = [task EXCEPT ![c] =
                  [t EXCEPT !.at = IF t.key \in Resettable THEN "resetting" ELSE "405"]]
    /\ UNCHANGED <<store, inFlight, generation, call, upstream, floor>>

\* The request t of c has version v of the list.
Resolved(c, t, v) ==
    /\ \/ /\ t.key \notin Listed(v)
          /\ task' = [task EXCEPT ![c] = [t EXCEPT !.at = "404"]]
          /\ UNCHANGED <<store, inFlight, generation, call, upstream, floor>>
       \/ t.key \in Listed(v) /\ t.op = "get" /\ EnterQuota(c, t)
       \/ t.key \in Listed(v) /\ t.op = "reset" /\ EnterReset(c, t)
    /\ UNCHANGED <<seen, vendorVars>>

\* The account list could not be read.
Unresolved(c) ==
    /\ task' = [task EXCEPT ![c].at = "502"]
    /\ UNCHANGED <<quotaVars, vendorVars>>

Begin(c, op, k) ==
    /\ task[c].at \in Over200
    /\ LET t == [op |-> op, key |-> k, at |-> "listing", paid |-> 0, since |-> confirmed[k]]
       IN  \/ Auth!Hit(c, Files) /\ Resolved(c, t, aCall'[c].val.ver)
           \/ /\ Auth!Join(c, Files) \/ Auth!Lead(c, Files)
              /\ task' = [task EXCEPT ![c] = t]
              /\ UNCHANGED <<quotaVars, vendorVars>>

ListAnswered(c) == Auth!Answer(c, SuccessTtl) /\ UNCHANGED <<quotaVars, vendorVars, task>>

ListArrives(c) ==
    \/ Auth!Finish(c) /\ Resolved(c, task[c], aCall[c].val.ver)
    \/ aCall[c].at = "woken" /\ Auth!Wake(c) /\ Resolved(c, task[c], aCall[c].val.ver)

\* The list cannot be read, which is not cached: 502.
ListFails(c) ==
    \/ Auth!Fail(c) /\ Unresolved(c)
    \/ aCall[c].at = "rejected" /\ Auth!Wake(c) /\ Unresolved(c)

\* What a provider makes of a window's reset_at: datetime.fromtimestamp refuses
\* a time after the year 9999 with an error that is no QuotaSchemaError.
ParsedWindow(resetAt) ==
    CASE resetAt = "instant" -> "quota"
      [] resetAt = "not a number" -> "schema"
      [] resetAt = "after 9999" -> "raises"
ResetAts == {"instant", "not a number", "after 9999"}

\* What sorting the credits' expiries does: instants with and without a zone
\* do not compare.
SortedCredits(zones) == IF zones = {"aware", "naive"} THEN "raises" ELSE "credits"

\* _fetch_quota has the vendor's usage: an error envelope, a quota, or a quota
\* whose reset credits are still to be fetched.
UsageAnswered(c) ==
    /\ seen[c] = {}
    /\ call[c].at = "fetching"
    /\ LET k == call[c].key IN
         \/ Reply(c, upstream[k], ErrorTtl) /\ UNCHANGED seen  \* no 200, or "schema"
         \/ k \notin Resettable /\ Reply(c, upstream[k], SuccessTtl) /\ UNCHANGED seen
         \/ /\ k \in Resettable
            /\ seen' = [seen EXCEPT ![c] = {upstream[k]}]
            /\ UNCHANGED <<store, inFlight, generation, clock, call, upstream, floor>>
    /\ UNCHANGED <<authVars, vendorVars, task>>

\* The credits call ended, well or not: the envelope is a success either way.
CreditsAnswered(c) ==
    /\ \E v \in seen[c] : Reply(c, v, SuccessTtl)
    /\ seen' = [seen EXCEPT ![c] = {}]
    /\ UNCHANGED <<authVars, vendorVars, task>>

QuotaArrives(c) ==
    /\ Finish(c) \/ (call[c].at = "woken" /\ Wake(c))
    /\ task' = [task EXCEPT ![c].at = "200"]
    /\ UNCHANGED <<authVars, vendorVars, seen>>

\* Faulty: only the request that fetched is told.
QuotaRaisesAlone(c) ==
    /\ call[c].at = "fetching"
    /\ Fail(c)
    /\ task' = [task EXCEPT ![c].at = "500"]
    /\ seen' = [seen EXCEPT ![c] = {}]
    /\ UNCHANGED <<authVars, vendorVars>>

\* A parser raises what _fetch_quota does not catch: so does every waiter.
QuotaRaises(c) ==
    /\ \/ /\ call[c].at = "fetching"
          /\ IF seen[c] = {} THEN \E r \in ResetAts : ParsedWindow(r) = "raises"
             ELSE \E zones \in SUBSET {"aware", "naive"} : SortedCredits(zones) = "raises"
          /\ Fail(c)
       \/ call[c].at = "rejected" /\ Wake(c)
    /\ task' = [task EXCEPT ![c].at = "500"]
    /\ seen' = [seen EXCEPT ![c] = {}]
    /\ UNCHANGED <<authVars, vendorVars>>

\* The vendor evaluates the reset.
Spend(c) ==
    LET k == task[c].key IN
    /\ task[c].at = "resetting"
    /\ IF credits[k] > 0
         THEN /\ credits' = [credits EXCEPT ![k] = @ - 1]
              /\ Change(k)
              /\ task' = [task EXCEPT ![c].at = "spent", ![c].paid = @ + 1]
         ELSE /\ task' = [task EXCEPT ![c].at = "refused"]
              /\ UNCHANGED <<credits, store, inFlight, generation, clock, call, upstream, floor>>
    /\ UNCHANGED <<authVars, seen, confirmed>>

\* Faulty: only the entry goes; fetches in flight are still joined and stored.
AcceptedForgetsEntry(c) ==
    /\ task[c].at = "spent"
    /\ store' = [store EXCEPT ![task[c].key] = {}]
    /\ task' = [task EXCEPT ![c].at = "204"]
    /\ confirmed' = [confirmed EXCEPT ![task[c].key] = upstream[task[c].key]]
    /\ UNCHANGED <<inFlight, generation, call, upstream, floor, clock, authVars, seen, credits>>

\* Faulty: any status is taken for acceptance.
AcceptedAnyStatus(c) ==
    /\ task[c].at \in {"spent", "refused"}
    /\ Invalidate(task[c].key)
    /\ task' = [task EXCEPT ![c].at = "204"]
    /\ confirmed' = [confirmed EXCEPT ![task[c].key] = upstream[task[c].key]]
    /\ UNCHANGED <<authVars, seen, credits>>

\* A 2xx answer: the quota cache forgets the account.
ResetAccepted(c) ==
    /\ task[c].at = "spent"
    /\ Invalidate(task[c].key)
    /\ task' = [task EXCEPT ![c].at = "204"]
    /\ confirmed' = [confirmed EXCEPT ![task[c].key] = upstream[task[c].key]]
    /\ UNCHANGED <<authVars, seen, credits>>

\* Faulty: the cache forgets the account whatever the answer was.
ResetFailsAndForgets(c) ==
    /\ task[c].at \in {"resetting", "spent", "refused"}
    /\ task' = [task EXCEPT ![c].at = "502"]
    /\ Invalidate(task[c].key)
    /\ UNCHANGED <<authVars, vendorVars, seen>>

\* Another status, or no answer: QuotaUpstreamError, and the cache is left alone.
ResetFails(c) ==
    /\ task[c].at \in {"resetting", "spent", "refused"}
    /\ task' = [task EXCEPT ![c].at = "502"]
    /\ UNCHANGED <<authVars, quotaVars, vendorVars, clock>>

\* The account is used; an auth file is added or removed; time passes.
Use(k) ==
    /\ upstream[k] + credits[k] < MaxVersion
    /\ Change(k)
    /\ UNCHANGED <<authVars, vendorVars, task, seen>>

FilesChange == Auth!Change(Files) /\ UNCHANGED <<quotaVars, vendorVars, task>>

Passing == Tick /\ UNCHANGED <<authVars, vendorVars, task, seen>>

Handle(c) ==
    \/ ListAnswered(c) \/ ListArrives(c) \/ ListFails(c)
    \/ UsageAnswered(c) \/ CreditsAnswered(c) \/ QuotaArrives(c) \/ QuotaRaises(c)
    \/ Spend(c) \/ ResetAccepted(c) \/ ResetFails(c)

ServiceNext ==
    \/ \E c \in Callers : Handle(c)
    \/ \E c \in Callers, k \in Keys, op \in {"get", "reset"} : Begin(c, op, k)
    \/ \E k \in Keys : Use(k)
    \/ FilesChange
    \/ Passing

ServiceSpec == ServiceInit /\ [][ServiceNext]_serviceVars

\* Whatever a request awaits ends: an answer, or the HTTP client's timeout.
ServiceFairSpec == ServiceSpec /\ \A c \in Callers : WF_serviceVars(Handle(c))
-----------------------------------------------------------------------------
ServiceTypeOK ==
    /\ TypeOK
    /\ Auth!TypeOK
    /\ task \in [Callers -> Task]
    /\ seen \in [Callers -> SUBSET Nat]
    /\ credits \in [Keys -> 0 .. Credits]
    /\ confirmed \in [Keys -> Nat]

\* README: "A successful reset invalidates both successful and error quota cache
\* entries, including older in-flight fetches, so the following quota read goes
\* upstream": a quota requested after the 204 was read after the reset, by
\* whichever request fetched it, through both of the vendor's endpoints.
ResetIsVisible ==
    \A c \in Callers : task[c].op = "get" /\ task[c].at = "200" => call[c].val.ver >= task[c].since

\* README: "A failed reset preserves the last cached quota", and the fetches
\* in flight keep their callers.
FailedResetKeepsCache ==
    [][\A c \in Callers :
          task[c].op = "reset" /\ task'[c].at \in {"404", "405", "502"} /\ task[c].at # task'[c].at
          => UNCHANGED <<store, inFlight, generation>>]_serviceVars

\* A reset spends at most one credit, spent one when it answers 204, and none
\* when it answers 404 or 405.  (With 502 it may have spent one.)
ResetSpendsOnce ==
    \A c \in Callers :
        /\ task[c].paid <= 1
        /\ task[c].at = "204" => task[c].paid = 1
        /\ task[c].at \in {"404", "405"} => task[c].paid = 0

\* Every request is answered: neither of the two caches, nor one after the
\* other, keeps it for ever.
EveryRequestEnds == \A c \in Callers : (task[c].at \notin Over200) ~> (task[c].at \in Over200)
=============================================================================
