# Verification of cliproxyapi-usage

TLA+ specifications of the collector, the server and the frontend of this
repository, TLC configurations that model-check them, and TLAPS proofs.
Paths below are relative to the repository; `server/` is
`src/cliproxy_usage_server/`, `collect/` is `src/cliproxy_usage_collect/`,
`frontend/` is `frontend/src/`.

```
tlasany TtlCache.tla                              parse
tlc -workers 2 -config TtlCache.cfg MCTtlCache    check a run
tlapm TtlCacheProofs.tla                          check the proofs of a module
```

`PROJECT.json` lists the components, the runs, the hazards each property is for,
the source lines each definition translates, and the theorems.

## 1. The system

CLIProxyAPI (external) proxies model requests and keeps a queue of usage
records. The **collector**, started by cron, pops one batch off that queue and
stores it in SQLite. The **server** (FastAPI, one event loop, sync routes on a
thread pool) answers queries over that database, prices them with a price map
it downloads, and asks CLIProxyAPI's management API for account quotas. The
**frontend** (React, TanStack Query) has two pages: usage and limits.

```
 CLIProxyAPI --queue--> collector --INSERT--> SQLite <--SELECT-- usage routes <-- usage page
     ^                                                              ^ prices
     |                                    LiteLLM --> pricing cache-+
     +--------- management api_call --- quota service <-- quota routes <-- limits page
```

| Component | State it keeps | Operations | What is hard | What makes it correct |
|---|---|---|---|---|
| TTL cache `server/quota/cache.py` | `_store`, `_in_flight`, `_generations` | `get_or_fetch`, `invalidate` | callers interleave at each await; the leader fails, is cancelled, or is overtaken by an invalidation; shared futures are cancelled by a waiter | no value older than the last invalidation is returned; one leader per key and generation; no waiter is left behind |
| Quota service `server/quota/service.py`, `routes/quota.py` | two TTL caches | `get_quota`, `reset_quota`, `list_accounts` | a reset between the two calls of a fetch; lost answers; a stale account list | a confirmed reset is visible to the next read; a failed one leaves the cache alone; every request is answered |
| Quota client and providers `server/quota/client.py`, `providers/` | none | one `api_call` each, parsers | partial failure of the credits call, parser errors nobody catches | failures become error envelopes |
| Collector `collect/cli.py`, `queue_client.py`, `parser.py`, `db.py` | table `requests` | one run: pop, parse, insert, commit, exit code | the pop is destructive; runs overlap, are killed, lose answers | exit 0 means stored; a batch is all or nothing; one row per timestamp; what is popped is stored or reported |
| Usage aggregation `server/aggregate.py`, `db.py`, `routes/usage.py` | none (one read-only connection per request) | summary, breakdown, options | several SELECTs with no transaction around them, while the collector commits | an answer counts what was there; windows meet; buckets hold what the totals count |
| Pricing cache `server/pricing.py`, `main.py` | `app.state.pricing`, the cache file | `fetch_pricing`, `_refresh_loop`, start-up | failed downloads and writes; several processes and one file; a crash between temporary file and rename | prices are recent; they are not lost while a cache file exists; start-up ends |
| Cost plans, model resolution `server/pricing.py` | none | `cost_plan`, `resolve`, `rollup` | per-request thresholds applied to sums | SQL sums priced = requests priced one by one |
| Redaction `server/redact.py` | none | `redact_key`, `model_key` | two raw keys shown alike | filtering by a shown key selects all of its raw keys |
| Limits page `frontend/pages/QuotaPage.tsx`, `QuotaCard.tsx`, `hooks/useQuotaQueries.ts`, `utils/quota.ts` | the cards' queries, confirmations and mutations | visit, refresh, request, confirm, cancel a reset | refetches replace or join each other; a confirmation or a mutation outlives the response it was for, or its card | no reset without the confirmation shown; what is shown after a reset was read after it |
| View state `frontend/utils/usage/viewState.ts`, `range.ts`, `hooks/useUsageViewState.ts` | URL, localStorage | parse, serialise, restore, update | unreadable bookmarks; an empty URL is replaced by the page itself | a view survives its round trip; the page settles |
| Window `useUsageWindow` in `hooks/useUsageQueries.ts` | an entry per range, with its observer | render, commit, clean up, refresh | renderings that never commit; clean-up by microtasks | a shown range keeps its window; a new one gets a fresh one |
| Usage page `frontend/pages/UsagePage.tsx`, `DetailDrawer.tsx`, `useUsage` | the query cache | pick, switch tabs, open, refresh | placeholders, aborts, failures, hidden responses that were invalidated | what is not dimmed is current |
| Breakdowns `frontend/utils/usage/share.ts`, `richRows.ts`, `heatmap.ts`, `stack.ts` and their components | metric, sorting | fold, rank, group | each view folds the same rows its own way; options come with another response | the views agree; nothing is lost in a fold |
| Range picker `frontend/components/usage/FilterBar.tsx` | popover, inputs, anchor | open, type, click days, apply | days are kept as minutes and read back as days | the days picked are the days shown |

How they interact. The collector and the server share only the database file
(`Commit` of `UsageRead` is `Commit` of `Collector`). The quota routes call the
service, which calls its two caches and through them the client. Several server
processes share only the price file. The limits page sees of the server what
`QuotaService` proves: an answer that contains every reset confirmed when the
request came (`ResetIsVisible`), and resets that are spent, refused, or spent
without an answer. On the usage page the URL gives the view, the view its
window, the window and filters the keys of the panels' queries, and a response
the rows of the breakdowns.

## 2. Modules, and how they correspond to the code

| Module | Models | State and actions |
|---|---|---|
| `FreshRead` | what a cache in front of a changing upstream promises | abstract: no store, no future, no clock |
| `TtlCache` | `cache.py` | `store`, `inFlight`, `generation` are the three dicts; `call[c]` is the coroutine of a caller. `Hit`/`Join`/`Lead` are the three ways out of the first locked section, `Answer` the upstream evaluating the fetch, `Finish`/`Fail`/`CancelLeader` the leader's second section by value, exception and cancellation, `Wake`/`CancelWaiter`/`CancelWoken` a waiter's turn and its cancellation, `Invalidate` `invalidate` |
| `QuotaService` | `service.py`, `routes/quota.py`, outcomes of `client.py` and the providers | extends `TtlCache` as the quota cache and instantiates it again as the auth-file cache; `task[c]` is the HTTP request of a caller. `Begin` is the request up to its first await; `List...` are the ends of the account list; `UsageAnswered`, `CreditsAnswered` the two calls of a fetch; `Spend`, `ResetAccepted`, `ResetFails` a reset |
| `Collector` | `collect/` | `queue` is upstream, `rows` the committed rows, `writer` SQLite's lock, `run[p]` a process. One action per step of `main`, in order: start, ask, served, parse, each inserted row, commit, exit; failures and `Kill` between any two |
| `UsageRead` | `aggregate.py`, first bucket and slice index of `server/db.py`, `routes/usage.py` | `req` is one request; one action per SELECT (`ResolveFilter`, `ReadAxis`, `ReadModels`, `ReadCells`, `ReadPrevious`) with what is computed from it; `Commit` between any two. An answer is represented by the set of rows its sums range over |
| `UsageSums` | `cost_plan`, `price` and the cost columns of `_fetch_cells`; `CostValue` and the cost series; granularity, coarsening, bucket edges and slice index of `server/db.py` | operators on the requests of a slice, a price map and a window. A zone is an initial offset and the changes of it, read as `zoneinfo` reads it: `Nth` is the bucket after so many steps of `_next_bucket`. `recorded` are the collector's rows, `prices` the server's map, `question` a request's window, zone and granularity; `Record`, `Reprice` and `Ask` replace one of them, and the numbers are functions of all three |
| `PricingCache` | `fetch_pricing`, `_refresh_loop`, `lifespan` | `file` is the cache file with its mtime, `server[s]` a process: where its call of `fetch_pricing` stands and `app.state.pricing`. A price map is represented by the time of its download |
| `QuotaCard` | the limits page | per account its query (`shows`, `revision`, `updatedAt`, `failed`, `fetch`), its confirmation and the mutation its card watches (`mine`); per reset request where it stands (`run`). Clicks, answers and the steps of a mutation are actions; `Visit`, `Leave` and a new account list mount and unmount cards. `spent` and `confirmed` are the server's |
| `ViewState` | `viewState.ts`, the validity of ranges | operators: `Parse`, `Serialize`, `LoadView`, `Saved` on a query string, a record of parameters that may be absent or unreadable |
| `UsageWindow` | `useUsageViewState`, `useUsageWindow`, the pages' route | extends `ViewState`. A new URL is rendered (`Render`), possibly again after an interruption, and committed (`Commit`, with both effects); `CleanUp` is the microtask, `Collect` the query cache's garbage collection; the rest are clicks |
| `UsagePanels` | the panels of `UsagePage.tsx` and `DetailDrawer.tsx`, `useUsage`, `refresh` | the query cache per key (`data`, `failed`, `invalid`, `fetching`), what a panel last had data of (`last`), and what the user chose. That the server reads a response some time before it arrives is kept in `seen` and in requests Refresh `joined`, by which nothing is decided. What each panel shows is derived (`Shown`, `Visible`, `Busy`); every choice runs `Observe`, what its observers then ask for and abort |
| `Breakdown` | `share.ts`, `richRows.ts`, `heatmap.ts`, `stack.ts`, their components | the pure functions over a response's rows, which are arrangements of their indexes in an order (`Arranged`, `StableSort`, `Filtered`, `Distinct`, `Flattened`); the actions change the response, the options, the metric and the sorting |
| `RangePicker` | the picker of `FilterBar.tsx`, the calendar arithmetic of `range.ts` | one action per click or input; ticks, minutes and days |
| `...Proofs` | proofs about the module of that name; `UsageServerProofs` holds those about `UsageRead`, `UsageSums` and `PricingCache`, `UsagePageProofs` those about `UsagePanels`, `RangePicker` and `Breakdown` | see 4 |
| `FoldLemmas` | none: lemmas about folds, sums over sets and induction | instantiated with the operator a fold uses |
| `MC...` | the small instances TLC checks | values of the constants. `MCUsageRead` holds `UsageRead` and `UsageSums`, which share no state, and `MCUsageServer` adds `PricingCache`: one moves while the others rest; `MCBreakdown` does so for `Breakdown` and `RangePicker` |

Atomicity. Everything between two awaits of the event loop is one action
(`cache.py` never awaits inside its lock, so the lock is never contended). In
the collector and the aggregation each SQL statement is one action, which is
what SQLite guarantees; in `PricingCache` the file operations are. In the
browser a click, a response and a microtask are one action each, with the
effects they run; a rendering and its commit are two, because React may drop
the rendering in between.

Definitions marked "Faulty", or placed before a definition and described by
what they do wrong, are not part of any behaviour: each is the form a plausible
mistake would give the definition that follows it, and shows that a property
notices the mistake.

## 3. Runs

| Run | Question | Bounds |
|---|---|---|
| `ttl_cache` | Does the cache, with cancellation, failure and invalidation at every await, keep its promise (`KeepsPromise`: it refines `FreshRead`, liveness included)? | 3 callers, 1 key, 1 invalidation, 1 upstream change, 1 tick |
| `quota_service` | Are resets visible and spent once, failures harmless, requests answered? | 2 requests, 2 accounts (one with manual resets and one credit), 1 change of each account and of the list |
| `collector` | Does exit 0 mean stored, is a batch atomic, is a run's count its own, is what was popped stored or reported in the end (`PopIsSettled`), with two overlapping runs? | 4 records (one malformed, two of one timestamp), 3 published, batches of 2, 2 processes |
| `usage_server` | What does an answer count when the collector commits between its SELECTs? Do sums cost what their requests cost one by one (`CostsArePerRequest`), and does a slice fall into the bucket of its local time (`AxisIsLocal`)? How old may prices get, and does each call for them end? | 5 rows in every position relative to the window, 3 keys of which two look alike, 7 queries; requests below, at and above two price thresholds, 7 price maps, 14 zones, windows up to 78 ticks, 4 granularities, 4 buckets at most; 2 servers, TTL 2, latency 1, clock 7 |
| `usage_read_key_error` (violation) | Is concurrent writing no hazard (`server/db.py:41-42`)? A model first seen between two SELECTs is a 500. | the rows and queries of `usage_server` |
| `quota_card` | Is a reset posted only against the response confirmed, one at a time, and followed by a response read after it? Do loads and resets end? | 1 account with 2 resets, 2 reset requests at once, 2 confirmations |
| `quota_card_credit` (violation) | Is the first credit of a card the one a reset spends (`QuotaCard.tsx:114`)? Not after a reset whose answer was lost: only a success refetches. | same |
| `usage_window` | Does the range on the screen keep a fresh window, do URL and localStorage bring the view back, does the page stop rewriting its URL? | 2 presets and 1 custom range, 1 choice, 1 entity, 4 bookmarks, `gcTime` 1, clock 2 |
| `usage_panels` | Is what is undimmed the panel's own and arrived since the last Refresh, is what was seen not asked again and what is unseen aborted, and does the page settle? | a fixed and a rolling scope, 2 tabs, the drawer, 1 failure, 1 request that Refresh finds already read |
| `usage_panels_refresh` (violation) | Does Refresh of an unchanged window fetch every request again (`docs/tanstack-query-migration.md:27`)? It joins one that is under way, though the server may have read it before. | same |
| `usage_panels_dimmed` (violation) | Is previous data always dimmed (`docs/tanstack-query-migration.md:35`)? The note "No usage in this window." is not. | same |
| `breakdown` | Do bar, table, heatmap and chart layers fold the same rows without loss, and does the picker show the days clicked? | 2 people, 4 models, 2 buckets, cells of 0 to 2, 2 columns before the fold; 3 days of 2 minutes |

Why the bounds are enough.

* Cache: keys share no state, so one key suffices for the cache alone. Three
  callers give a leader detached by an invalidation, its successor, and a waiter
  on either; one tick makes an entry stale; the proofs cover every other size.
* Quota service: a fetch overtaken by a reset needs one request for each; the
  third role (a waiter of either) is a cache property and is checked there.
  Cancellation is off (`MayCancel = FALSE`): the routes' tasks are not cancelled
  by the server while it runs, and the cache run covers the effects.
* Collector: two processes contend for the lock; three publications with batches
  of two give a full and a partial batch and a repeated record.
* Usage: one request stands for all, since requests share nothing. The rows
  lie before the previous period, in it, inside the window and in both of its
  boundary seconds; time is counted in half seconds so that fractions matter.
* Sums: two requests of one slice, person and model lie on either side of a threshold, at
  it, and together above it; the maps have each shape of an entry (OpenAI or not, one tier,
  both, none, parts of a tier missing, a tier published by its cache creation rate alone). A
  slice has two ticks, an hour two slices, a day three hours, a week two days, so clock
  changes move, skip and repeat hours and midnights; windows begin and end inside slices,
  and need fewer, exactly and more than the maximum of buckets. The zones stand still,
  change forward to, at and after a midnight and back from it, twice, by less than an hour,
  back across a midnight, and over a whole day. `AxisIsLocal` speaks of the axes that are
  `Regular`: the changes a window meets lead from full hour to full hour, or for days and
  weeks from and to a time of one day or week, and buckets begin with a slice. Each clause
  about the changes is needed: without it TLC finds an axis that does not follow the zone,
  which is what the code does there.
* Prices: one may be served for two TTLs and three latencies, and the clock
  goes up to that (`MCUsageServer` assumes it).
* Limits page: cards share nothing but the list. A second reset request is one
  posted from a card that was left; its twin comes from the card of the next
  visit. The safety properties are proved for every size.
* Usage window: a rendering that is dropped, one that replaces it and the range
  left make three ranges; clock 2 lets an entry outlive `gcTime`.
* Panels: scopes of two windows and the two tabs make every pair of keys a panel
  can hold: its own and its placeholder. The panels of people ask like the summary.
* Breakdown: with three people or columns the fold of the rest would only get
  longer; four models over two columns leave two to fold, of two families.

Fairness. The cache's and the service's steps are weakly fair: the event loop runs what is
ready and `httpx`'s timeout ends every call (`client.py`). Callers need not call, upstreams
need not change. A collector process that runs goes on; `queue_client.py`'s timeout and
SQLite's busy timeout end its waits. Neither that cron starts runs nor that the queue is
served is assumed: `PopIsSettled` speaks of what was popped. `UsageRead` has no liveness
property: its request never waits except for SQLite, whose timeout is `Locked`.
`fetch_pricing` is weakly fair by its client's 10 s timeout (which is per read: an upstream
that sends its body byte by byte for ever is excluded, as it is by `Latency`); that a server
is started is not assumed. In the browser, requests are answered or fail (of the usage
page's, some one while there are any), what arrived is delivered, and React ends what it
renders and runs its microtasks; the user may never do anything, and `PageSettles` and
`PanelsSettle` speak only of behaviours in which the user pauses for good.

Deadlock is checked in every run.

What the violations say. `usage_read_key_error` is a defect: a model first
committed between two SELECTs of `_fetch_cells` ends the request in a `KeyError`.
The other three are places where the page says more than it knows, until a
refetch or a response comes. Seven further disagreements were met while
modelling and have no run: after an invalidation two fetches of one key run at
once (`cache.py:47-48`, harmless, and why leaders compare generations); a leader
that fetched a value fails with `InvalidStateError` when a cancelled waiter cancelled
the shared future (`cache.py:43`); two parser errors of the providers end a
quota request in a 500 instead of an envelope (`service.py:3-4`); a batch whose
pop failed cannot be retried (`README.md:3`); a restarted server loads a fresh
cache file instead of new prices (`README.md:129`); where the buckets'
axis is not regular, it leaves the zone's clock, though buckets are to follow the zone,
DST included (`server/db.py:3-6`): after a change by half an hour (Australia/Lord_Howe today) the
hour buckets begin at half past, since `_next_bucket` adds an hour to the last of them
(`server/db.py:71-74`), and around a change across a midnight (St. John's until 2011, at
one past) or over a whole day (Samoa in 2011) a slice may be in the day bucket after its own,
or a day of no length be in the axis; and the series of an all-time
request misses a row older than its axis that was committed meanwhile
(`aggregate.py:6-8`).

## 4. Proofs

Each module holds the argument for every value of its module's constants; TLC
has checked each invariant named here on the run's instance as well.

`TtlCacheProofs`: for any callers, keys, TTLs and bounds. The properties are not
inductive alone: `NoStaleRead` depends on what is stored, which depends on which
leader may store, which depends on generations. `Inv` adds that

* (`FlightInv`, `LeaderInv`) a registered future belongs to a leader at work on
  that key in the key's current generation, and a leader of the current
  generation is registered and needs what the last invalidation left;
* (`WaiterInv`) a waiter awaits a leader at work on its key, not cancelled, that
  needs the same version: both began in one generation;
* (`VersionInv`, `StoreInv`) what callers and the store hold is the upstream's
  past; a value on its way satisfies its caller's need; a stored one is no older
  than the last invalidation and no newer than what the registered leader is
  about to store over it.

`Init => Inv`, then `InvStep` with one step per action, then each property from
`Inv` alone; `CachedVersionGrows` is the action property read off `Finish`.

`PromiseIsKept` is the safety part of the refinement, `Spec => Promise!Spec`. To
`FreshRead` a step of the cache either shows nothing of any call, or one call's
beginning, return or failure, or a hit, which begins and returns at once
(`NoCallSeen`, `OneCallSeen` and the lemmas named for each of these); `Inv` gives what
`FreshRead` demands of a returned value, that it was the upstream's at some time since
the last invalidation before the call.

`QuotaServiceProofs`: for any accounts, lists of them, requests and credits. The service's
fetch makes two calls where `TtlCache`'s makes one: `Called` is a caller's call as the cache
sees it, answered as soon as the usage call has read a version although the credits call
still runs. Under this mapping each step of the service is a step of the cache or leaves it
alone (`ServiceStep`), so every behaviour of the service is one of `TtlCache`
(`QuotaCacheRefines`), and, by `PromiseIsKept`, one of `FreshRead` (`ServiceKeepsPromise`);
`Inv` of the cache holds of it with the rest (`Quotas!Inv`). `AuthFilesRefine` says the same
of the second cache. No run checks these three; `quota_service` checks the properties that
follow from them. What the service adds is `RequestInv` (the call a request's stage awaits
needs at least what was confirmed when the request began), `ConfirmedInv` (what was
confirmed last is what the cache was invalidated for last), `PaidInv` (what the vendor spent
for a request at each of its stages), that a version only the usage call has read belongs to
a call whose credits call still runs (`SeenInv`), and that nothing is cancelled (`LiveInv`).
`ResetIsVisible` is then `need <= version` of the cache and `since <= need` of the request.
`FailedResetKeepsCache` is read off each action.

`CollectorProofs`: for any number of overlapping runs, records, timestamps and
batch sizes. That exit 0 means stored depends on what is left to insert
(`PendingInv`: what a run fetched is stored, inserted or still to be inserted); that
a commit meets no duplicate depends on who has inserted (`StagedInv`: what is
inserted and not committed is under the lock, of the run's batch, and no duplicate
of a row); the count is that of the rows inserted (`CountInv`); rows are finite and
have timestamps of their own (`RowsInv`). From them follow `SuccessMeansStored`,
`BatchIsAtomic`, `CountIsNewRows`, and that rows are unique and writers alone
(`RowsAreUnique`).

`UsageServerProofs` on `UsageRead`: for any rows, columns' values, redaction and queries, and any
lengths of second, slice and bucket that divide each other. `ReadInv` says, for
each stage, what the SELECTs made so far established and no later commit undoes:
every resolved filter value shows as a key asked for, and those of the rows there
when the request began are among them (`FiltersInv`); the first bucket is not
after any of these rows (`AxisInv`); their models are known, and a `KeyError`
means that the database changed (`ModelsInv`); the rows summed lie between those
wanted at the start and those wanted now (`CellsInv`).
The arithmetic of truncation is in `DivisionBounds`,
`DivisionKeeps` and `SlicesFollowSeconds`: a row whose second is inside the window
is in a slice inside the axis. From `ReadInv` follow `CountsWhatWasThere`,
`PeriodsMeet`, `BucketsHoldWhatWasThere` and `OnlyCommitsBreakIt`.

`UsageServerProofs` on `PricingCache`: for any servers, TTL, latency and clock bound. How old
prices are depends on when each server will next call, on what a call holds at
each of its stages, and on the file they share. `PricingInv` says that the map in
the file is no older than its mtime by more than a call (`FileInv`), that calls end
and sleepers wake in time (`TimeInv`), that a call writes what it downloaded itself
and loads only a file that was fresh, was replaced since, or is all there is after
a failed download (`CallInv`), and bounds the age of served prices at the server's next
call (`PriceInv`). `PricesAreRecent` adds one call to that, and TLC finds the bound
reached: two TTLs and three calls less one tick; `PricesAreKept` and
`FileIsKept` are read off each action.

`UsageServerProofs` on `UsageSums`, the axis: for any windows, for zones with any number of
changes of any size, and for any lengths of slice, hour, day and week that nest. Of a zone,
`ZonesAssumption` asks that its offsets be at most a day and that its changes be far enough
apart for no local time to come three times; the transitions of every zone of the tz
database satisfy it. `AxisIsLocal` is about axes that are `Regular` (see 3). Two readings of
a zone are compared: the changes passed by an instant, and those passed by a local time.
Both are prefixes of the zone's changes, so that one contains the other, and the first
change they differ in skips or repeats the local time (`Divergence`). Hence a midnight no
change skips or repeats in its midst has come just when the clock has reached it
(`MidnightComes`), and the clock is then less than a day or week past it (`MidnightLasts`);
hours begin full hours apart (`HourStarts`, `HoursApart`). So the bucket of an instant is
the n-th one of the axis, for some n, which begins no later than the instant and the next
after it (`BucketsCount`), and it begins with a slice (`BucketsAreSlices`). A slice then
falls into the bucket of its local time (`SliceFallsInto`), every bucket meets the window
(`AxisIsFilled`), and a unit is coarsened only when it takes more than `MaxBuckets`
(`TooMany`, `UnitFits`).

`UsageServerProofs` on `UsageSums`, the costs: for any usages, price maps and thresholds.
The price of a slice's sums is the sum of its requests' prices by induction on the requests
(`SliceCost`): what bills at the base rates is told apart request by request, before it is
summed, and each of the three terms of a price (`PriceIsThreeTerms`) is linear in the two
sums. The cells of an answer split what it asks for by slice, person and model (`CellsAre`),
so a second induction, over cells, gives the cost of everything, of a bucket, a person and a
model (`CellsCost`, `SameSeries`; of buckets where the axis is regular), and
`CostsArePerRequest`, where missing prices are missing on both sides. No relation of the
rates is assumed: the tiers may be higher or lower than the base.

`QuotaCardProofs`: for any accounts, reset requests, resets and clicks.
`RequestsHaveCards` is inductive with the types. `OneResetAtATime` follows from
`WatchInv`: a reset under way on its visit is the one its card watches, as the
buttons are disabled until it ends. `SettledIsFresh` needs that a watched run has not
ended unseen and its card is there (`MineInv`), and that what a run has spent bounds from
below the request it settles with (`FreshInv`): that request was made, or replaced the one
under way, when the confirmation arrived. `ConfirmedIsShown` needs that a
confirmation was opened before the next response (`OpenInv`).

`UsagePageProofs` on `UsagePanels`: for any scopes, tabs, entities and number of failures.
`ObservedInv` says that a key a panel on the page observes is being fetched, or failed, or
its data is there and valid; each choice of the user keeps it, since `Observe` asks for
what newly observed keys lack. `SeenInv` says that valid data arrived since the last Refresh of
its window: Refresh marks what is at hand in the window as read before, but also as invalid,
and only an answer makes it valid again. A panel that is neither dimmed nor failed then
shows its own data, and that arrived since: `UndimmedIsCurrent`. It may have been read before the
click, by a request that Refresh joined, which is what `usage_panels_refresh` shows.
`NothingRunsUnseen` is inductive with these, and `SeenIsNotAskedAgain` is read off each action.

`UsagePageProofs` on `RangePicker`: for any lengths of minute and day that nest. A range goes
from the calendar into minutes and back; `DaysAreRead` says which days it comes back as,
and the exception in the first minute of a day. `PickerInv` adds that a first click was on
a day up to that of opening, and that the inputs show the days picked. From these
follows `PicksAreShown`.

`UsagePageProofs` on `Breakdown`: for any responses, options and families. A list the views
show is some indexes of the rows in an order, and an order has exactly one arrangement
(`OrderingIsArranged`): keeping some, or sorting by what has ties, leads from one order to
another (`Rearranged`), and what is true of the list follows from the order.

* `MissingSortsLow`: the comparison of rows is total up to ties and transitive
  (`BelowIsWeak`, `PrecedesIsWeak`), with missing and new values at its ends.
* `LayersAddUp`: a total depends only on which indexes are picked, not on where
  they stand (`TotalOfPicks`); the layers pick each row once (`LayersInBucket`).
* `ViewsAgree`: bar, table and heatmap filter, sort and fold in different orders, yet
  arrange the same values in one order (`EntitiesAreShown`, `TableByValue`,
  `HeadsAreShown`), which is unique.
* `HeatmapIsWhole`: cells are split by rows and by columns (`RowAddsUp`, `ColumnsSplit`),
  folding past `MaxColumns` keeps the sum (`PartsAddUp`), and grouping by family permutes what
  is left (`GroupsPick`). Every row has a notable cell by the pigeonhole principle
  (`OneIsNotable`): a row of at most ten columns has one with a tenth of it. This is where
  `MaxColumns <= 9` is needed (`HEATMAP_MAX_COLUMNS` is 9).

`ResponsesAssumption` is what the server's aggregation gives: rows have unique keys, their
counts and costs are natural numbers or, of costs, missing, the mix of a row adds up to it,
and all trends have the same buckets.

`UsageWindowProofs`: for any presets, custom ranges, bookmarks and `gcTime`. `Parse` only
returns ranges that resolve, and a range survives `Serialize` and `LoadView` whatever else the
view holds (`ParsedRange`, `RangeSurvives`), hence `ShownRangeResolves`. `EntryInv` says that
the range on the screen has its entry, and that an entry without an observer is about to
be cleaned up or expires in time; `MoveInv`, that while a clean-up is queued the range to
be rendered is the one on the screen. From these follow `WindowIsFresh` and `WindowIsKept`.

`RoundTrip` says that any view survives `Serialize` and `Parse`. Reading a filter keeps what
is neither empty nor there already, one value at a time, so that it reads back what was
written, and that clicks only make filters that can be (`ReadsFiltersBack`, `RemovalKeeps`),
are inductions over a fold; `Written` has the rest of the query string. `ViewInv` says that
what is saved is the view committed last, what is committed was read from the URL, and the
URL still holds what was asked for; `AskedIsShown` and `ReturnRestores` follow from it and
the round trip (`Restored`).

`FoldLemmas` has what these need of recursion: that a fold exists and what each step of it
does (`FoldLeftSteps`), that a sum over a set gains an element's number with the element
(`SumStep`) and is the sum of its parts (`SumOfUnion`), and induction. The library's induction
theorems take an operator as a parameter, which the provers cannot instantiate; `Induction`
and `SetInduction` take a set in place of a predicate (the numbers, or the parts of the set,
for which it holds) and follow from the well-foundedness of the order of numbers. A fold
is instantiated through the module's constant, `Step`. The `SelectSeq` of the library is
opaque to the provers, so `Breakdown` states its filters as arrangements.

Assumptions: those named in the modules (`TtlsAssumption`, `WidthsAssumption`,
`AsksAssumption`, ...), which every run evaluates. `AsksAssumption` restates
`_resolve_window`'s checks.

Type correctness is proved for every module with state, and every safety property that a
passing run checks is stated by a theorem.

Only model-checked: every liveness property and the liveness of the refinement (fairness and
ENABLED are beyond the prover), and the properties of the four violations
(`SpendsTheShownCredit`, `RefreshReadsAgain`, `EarlierIsDimmed`, `AnswersDespiteCommits`),
which are each a single counterexample.

## 5. Not modelled

Configuration, app factory, SPA serving, formatting, styling and rendering: no
state, or none after start-up. JSON shapes of providers are abstracted to their
outcomes. `list_accounts` only filters the cached list. A cache file edited by
hand or made unreadable is not an input of `PricingCache`: the server only writes
maps with a usable entry. A read-only connection to a database with a hot journal
(a collector killed inside its commit) is not modelled; the journal's recovery is
SQLite's, and `Collector` shows it as the rollback it is.

Arithmetic of the server that has no state: the match order of model names,
redaction, ranking and mix of a breakdown. `UsageSums` takes a zone's
offsets from its input, and counts in ticks. Rates are exact
there; floating-point rounding of costs is left out.

In the frontend:

* `QuotaCard`: a click on Confirm comes at least a millisecond after the response it
  is made against (two responses within one millisecond would have one
  `dataUpdatedAt`). React's development-only double effects, and queries paused while the
  browser is offline, are left out.
* `UsageWindow`: another tab writing `localStorage` while this one runs. A click
  made before the rendering of an earlier one changes the view still on the screen, as in the
  code, so of two such clicks the second wins: `AskedIsShown` speaks of the last.
* `UsagePanels`: the request for the filters' options, which has no window; the
  drawer's three requests are one. A request that failed while hidden is not
  asked for again until its key changes, as in the code. The drawer's share of
  the total may mix the entity's window with the summary's, the second half of
  `EarlierIsDimmed`.
* `Breakdown`: latency and last use (sorted like tokens), mix bars, peaks of the
  trend, hovering. The sorting survives a change of tab when the other tab's data is
  at hand, and is reset when it is not; both are behaviours of the model.
* `RangePicker`: days are of one length, month presets are left out. In the first
  minute of a day a range through today ends at midnight and is shown as ending
  yesterday; `PicksAreShown` names this exception.

## 6. Plan

Done: `TtlCache` with `FreshRead`; `QuotaService` on top of it; `Collector`; `UsageRead`;
`PricingCache`; `QuotaCard`; `UsageWindow` on top of `ViewState`; `UsagePanels`; `UsageSums`;
`Breakdown`; `RangePicker`. Each has proofs of its types and of its safety properties.

What would come next, in this order:

1. `UsagePanels` composed with `UsageWindow`: the window of the one is the key of the
   other, which is an abstract scope now.
2. `Resolve` and `Redact` (operators): the match order of model names against a reference,
   and that filtering by a shown key selects all of its raw keys; `UsageRead` takes
   redaction as a constant.
