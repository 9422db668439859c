--------------------------- MODULE MCUsageServer ---------------------------
(* What a server answers and what it costs (MCUsageRead), and two servers   *)
(* with one cache file of prices.  A TTL is two ticks and a call takes up   *)
(* to one; the clock goes to the age that PricesAreRecent excludes. The    *)
(* cache moves only while the answers are where they begin, and back.       *)
EXTENDS MCUsageRead, PricingCache

ASSUME ClockIsLongEnough == MaxClock >= 2 * Ttl + 3 * Latency

PricingAtRest == clock = 0 /\ file = {} /\ failure = {} /\ \A s \in Servers : server[s] = Down

MCServerInit == MCInit /\ Init
MCServerNext ==
    \/ PricingAtRest /\ MCNext /\ UNCHANGED vars
    \/ AnswerAtRest /\ SumsAtRest /\ Next /\ UNCHANGED <<readVars, sumsVars>>
MCServerSpec == /\ MCServerInit /\ [][MCServerNext]_<<readVars, sumsVars, vars>>
                /\ \A s \in Servers : WF_vars(Fetch(s))
============================================================================
