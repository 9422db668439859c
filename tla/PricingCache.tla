---------------------------- MODULE PricingCache ----------------------------
(***************************************************************************)
(* pricing.py's fetch_pricing and main.py's lifespan and _refresh_loop:    *)
(* servers that download the price map when they start and every Ttl after *)
(* that, through a cache file they share.                                  *)
(*                                                                         *)
(* The upstream changes all the time, so a price map is represented by the *)
(* time at which it was downloaded; {t} is that map, {} the empty dict.    *)
(***************************************************************************)
EXTENDS Integers

CONSTANTS
    Servers,    \* processes with the same pricing_cache path
    Ttl,        \* pricing_ttl_seconds
    Latency,    \* bound: ticks from the start of fetch_pricing to its end
    MaxClock    \* bound: clock ticks

ASSUME TtlAssumption == Ttl \in Nat \ {0}
ASSUME LatencyAssumption == Latency \in Nat
ASSUME MaxClockAssumption == MaxClock \in Nat

VARIABLES
    clock,
    file,       \* the cache file: {} or {[map, mtime]}
    server,
    failure     \* ghost: {t} for the time of the last failed download

vars == <<clock, file, server, failure>>

(* Where a server's call of fetch_pricing stands:
     checking     about to look at the file's age
     loading      about to read the file
     downloading  the request is on its way
     writing      map is downloaded, mkstemp is next
     replacing    the temporary file is written, os.replace is next
   or, between two calls, asleep until `wake`; down is no process.         *)
Fetching == {"checking", "loading", "downloading", "writing", "replacing"}

Server == [at : Fetching \cup {"asleep", "down"},
           up : BOOLEAN,        \* it serves requests: start-up is over
           pricing : SUBSET Nat,  \* app.state.pricing
           map : Nat,           \* the raw map about to be written
           mtime : Nat,         \* of the temporary file
           wake : Nat,
           began : Nat]         \* when fetch_pricing was called: its `now`

Down == [at |-> "down", up |-> FALSE, pricing |-> {}, map |-> 0, mtime |-> 0, wake |-> 0, began |-> 0]

Init ==
    /\ clock = 0
    /\ file = {}
    /\ server = [s \in Servers |-> Down]
    /\ failure = {}

\* lifespan: the first fetch blocks the start-up.
Start(s) ==
    /\ server[s].at = "down"
    /\ server' = [server EXCEPT ![s] = [Down EXCEPT !.at = "checking", !.began = clock]]
    /\ UNCHANGED <<clock, file, failure>>

\* _refresh_loop's sleep is over.
Wake(s) ==
    /\ server[s].at = "asleep"
    /\ clock >= server[s].wake
    /\ server' = [server EXCEPT ![s].at = "checking", ![s].began = clock]
    /\ UNCHANGED <<clock, file, failure>>

\* Its age is that at the beginning of the call.
FreshFile(s) == \E f \in file : server[s].began - f.mtime < Ttl

Check(s) ==
    /\ server[s].at = "checking"
    /\ server' = [server EXCEPT ![s].at = IF FreshFile(s) THEN "loading" ELSE "downloading"]
    /\ UNCHANGED <<clock, file, failure>>

\* fetch_pricing returns map: it is served, and the loop sleeps.
Delivered(s, map) ==
    [server EXCEPT ![s] = [Down EXCEPT !.at = "asleep", !.up = TRUE, !.pricing = map,
                                       !.wake = clock + Ttl]]

Load(s) ==
    /\ server[s].at = "loading"
    /\ server' = Delivered(s, {f.map : f \in file})
    /\ UNCHANGED <<clock, file, failure>>

Downloaded(s) ==
    /\ server[s].at = "downloading"
    /\ server' = [server EXCEPT ![s].at = "writing", ![s].map = clock]
    /\ UNCHANGED <<clock, file, failure>>

\* Faulty: a failed download is tried again at once.
DownloadFailsRetry(s) ==
    /\ server[s].at = "downloading"
    /\ server' = [server EXCEPT ![s].at = "checking"]
    /\ failure' = {clock}
    /\ UNCHANGED <<clock, file>>

\* An HTTP error, no answer, or a body without a usable entry: an old cache
\* file is better than nothing.
DownloadFails(s) ==
    /\ server[s].at = "downloading"
    /\ server' = IF file # {} THEN [server EXCEPT ![s].at = "loading"] ELSE Delivered(s, {})
    /\ failure' = {clock}
    /\ UNCHANGED <<clock, file>>

WriteTemporary(s) ==
    /\ server[s].at = "writing"
    /\ server' = [server EXCEPT ![s].at = "replacing", ![s].mtime = clock]
    /\ UNCHANGED <<clock, file, failure>>

\* os.replace is atomic, and the temporary file's mtime stays.
Replace(s) ==
    /\ server[s].at = "replacing"
    /\ file' = {[map |-> server[s].map, mtime |-> server[s].mtime]}
    /\ server' = Delivered(s, {server[s].map})
    /\ UNCHANGED <<clock, failure>>

\* Faulty: as when the download fails, the old cache file is served.
WriteFailsServingFile(s) ==
    /\ server[s].at \in {"writing", "replacing"}
    /\ server' = IF file # {} THEN [server EXCEPT ![s].at = "loading"] ELSE Delivered(s, {})
    /\ UNCHANGED <<clock, file, failure>>

\* The directory is not writable or the disk is full: logged, the map is served.
WriteFails(s) ==
    /\ server[s].at \in {"writing", "replacing"}
    /\ server' = Delivered(s, {server[s].map})
    /\ UNCHANGED <<clock, file, failure>>

\* The process ends, at any moment; a temporary file may stay behind.
Stop(s) ==
    /\ server[s].at # "down"
    /\ server' = [server EXCEPT ![s] = Down]
    /\ UNCHANGED <<clock, file, failure>>

\* A sleeper wakes when it is due, a call ends within Latency.
Due(s) ==
    \/ server[s].at = "asleep" /\ clock >= server[s].wake
    \/ server[s].at \in Fetching /\ clock >= server[s].began + Latency

Tick ==
    /\ clock < MaxClock
    /\ \A s \in Servers : ~ Due(s)
    /\ clock' = clock + 1
    /\ UNCHANGED <<file, server, failure>>

Fetch(s) ==
    \/ Wake(s) \/ Check(s) \/ Load(s) \/ Downloaded(s) \/ DownloadFails(s)
    \/ WriteTemporary(s) \/ Replace(s) \/ WriteFails(s)

Next ==
    \/ \E s \in Servers : Start(s) \/ Fetch(s) \/ Stop(s)
    \/ Tick

Spec == Init /\ [][Next]_vars

\* fetch_pricing goes on, and the HTTP client's timeout ends its download.
FairSpec == Spec /\ \A s \in Servers : WF_vars(Fetch(s))
-----------------------------------------------------------------------------
TypeOK ==
    /\ clock \in 0 .. MaxClock
    /\ \A f \in file : f.map \in Nat /\ f.mtime \in Nat
    /\ server \in [Servers -> Server]
    /\ failure \subseteq 0 .. MaxClock

\* The prices served are at most two TTLs old, plus the time of the calls that
\* fetched them, unless a download failed since they were downloaded: a server
\* that loads another's file just before it expires still refreshes, and one that
\* cannot write the file serves what it downloaded, not what is there.
PricesAreRecent ==
    \A s \in Servers : \A t \in server[s].pricing :
        \/ clock - t < 2 * Ttl + 3 * Latency
        \/ \E u \in failure : u >= t

\* A server loses its prices only if there is no cache file: a failed download
\* falls back to the file, which no server's write ever leaves missing or half
\* written, whenever it is stopped.
PricesAreKept ==
    [][\A s \in Servers :
          server[s].pricing # {} /\ server'[s].up /\ server'[s].pricing = {} => file = {}]_vars
FileIsKept == [][file # {} => file' # {}]_vars

\* Every call of fetch_pricing ends, and the server is up then: whatever downloads
\* and writes fail, at start-up and after, only stopping the server prevents it.
EveryFetchEnds ==
    \A s \in Servers :
        server[s].at \in Fetching ~> server[s].at = "down" \/ (server[s].at = "asleep" /\ server[s].up)
=============================================================================
