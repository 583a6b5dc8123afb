# Verification of native-llm-gateway

The repository is an HTTP gateway in front of several LLM vendors: a client sends
an OpenAI- or Anthropic-shaped request with a gateway key, the gateway chooses a
vendor and one of the vendor's upstream keys, forwards the request and, when that
fails, tries again with another key, another vendor or another billing tier. What
makes it hard is not the forwarding but the state it keeps about the upstream
keys, which every request, two background workers and the administrator change
concurrently, and the decision when to go on and when to give up.

This directory holds TLA+ modules that model that core, TLC configurations that
check them, and TLAPS proofs. Paths below are relative to `src/backend/internal`.

## 1. Inventory

| Component | State | Operations | Meets |
|---|---|---|---|
| circuit breaker `circuit/breaker.go` | `state`, failure times, `inFlight`, successes, `openedAt` | `Allow`, `RecordSuccess`, `RecordFailure` | one per upstream key, called by the pool |
| key pool `keypool/` | per key: status, `CoolingUntil`, `CoolingCount`, balance, breaker | `Acquire*`, `ReportSuccess`, `ReportRateLimit`, `ReportError`, `ReportQuotaExceeded`, `RestoreQuota`, `ResetCooling`, `MutateKey` | requests, quota checker, administrator |
| quota checker `quotacheck/` | heap of scheduled probes, zero streaks, worker contexts | poll, probe, callback, `Start`, `Stop`, `CheckQuota` | the pool, the vendors' balance endpoints |
| balancers, probers `provider/*/balancer.go`, `quotacheck/*prober.go` | none | one HTTP query each | quota checker |
| proxy engine `proxy/` | per request: candidate, tier, evidence, last error; stream slots | probe of the first candidate, candidate loop, key change, streaming | router, pool, provider adapters, the client |
| router `router/`, `policy/` | aliases, catch-all rule, strategy, route order, the pools it sees | `Route`, `Next`, `buildKeyCandidates`, `ResolveAlias` | proxy, provider manager, pools |
| provider manager, registry, relay stations `provider/` | instances, names and vendors, models, prices, face rows | `Get`, reload, loader, model sync | router, server, database |
| protocol adapters `provider/*_compatible`, `google` | none but a reader goroutine per stream | `SendRequest`, `SendStreamRequest` | proxy, pool (they report for themselves) |
| server `server/server.go` | the current configuration's pools and managers | start, reload, shutdown, snapshot | everything |
| usage collector `usage/`, access log `accesslog/` | buffered channel, batch | record, flush, drain | proxy, database |
| active requests `inflight/`, metrics `metrics/` | table of requests, counters | start, set, finish | proxy, admin API |
| gateway key authentication `auth/` | keys, rate windows | authenticate, `CheckAllowed`, reload | proxy |
| admin sessions `adminauth/` | sessions | login, logout | admin API |
| configuration, database, admin API, fingerprint, frontend | files, tables | CRUD, parsing, rewriting | server |

How they interact. A request is authenticated, gets a sequence of *candidates*
from the router (provider × billing tier, `token_plan` before `api` before
`free`), and walks it. For each candidate it acquires a key from the provider's
pool (one critical section of `p.mu`, in which every usable key's breaker is
asked), sends, and reports the outcome to the pool (another critical section,
possibly minutes later; the report carries no reference to the acquire). A
quota report makes the pool call the quota checker *after* it has unlocked. The
quota checker's poll reads balances and writes them into the pool in several
critical sections per key; its probe asks about keys scheduled by the callback.
A reload stops and starts these workers.

Hard behaviour, and what makes each component correct:

* **breaker** – reports of calls admitted in another state; trial slots that must
  be neither exceeded nor lost; the edge of the sliding window. Correct: opens at
  the threshold and not before, never more trials than configured, HALF_OPEN ends.
* **pool** – several requests hold the same key and report in any order; lazily
  lifted cool-downs; breaker slots taken for keys that are not returned. Correct:
  a cool-down is honoured, a key is out only for a reason that stands, priority
  is respected, every key comes back.
* **quota checker** – decisions on balances read some critical sections ago;
  transient zeros; a mark between a restore and its clean-up; off and on again.
  Correct: it changes keys only as the pool allows, takes a key out on two reads,
  and brings back every key that has quota.
* **proxy engine** – three nested layers of retry; evidence gathered in one
  branch and needed in another; the client leaving at any point. Correct: no
  tier is left without evidence, the upstream load of one request is bounded,
  every request gets exactly one answer.
* **router** – three rules that filter by different lists, names that an alias and a
  default model have replaced. Correct: a dearer tier never comes up before a
  cheaper one, a bound key stays with its vendors, a station is chosen by one name.
* **adapters and streams** – two goroutines and a channel, four timers, a client
  that may leave at any point, and a status that is out before the body. Correct: a
  cut stream is told, a call is reported once and only for what the upstream did, no
  other candidate is asked after the first byte, every stream ends.
* **collector, access log** – full buffers, retries after a lost answer, a shutdown
  racing a record. Correct: nothing accepted is lost or written twice, and no body
  file outlives its row.
* **manager, stations, pools, admin API** – handlers that write rows and rebuild what
  the gateway runs on, with nothing that keeps two of them apart and an error return
  after each statement. Correct: what a handler did undisturbed is what is served.
* **server** – the order of the shutdown; replacing pools under running requests.

## 2. Modules

| Module | Models | State and actions |
|---|---|---|
| `Breaker` | `circuit/breaker.go` as operators on a record | `Allow`, `RecordSuccess`, `RecordFailure`, `Elapse` (time) |
| `CircuitBreaker` | one breaker under concurrent callers | `AdmitSteady`/`AdmitTrial` (Allow), `Succeed`, `Fail`, `Tick` |
| `KeyPool` | the pool with its keys' breakers, under requests | `AcquireFromTier`, `ReportSuccess`, `ReportRateLimit`, `ReportFailure`, `ReportAuth`, `ReportQuota`; `CheckQuota` stands for whatever the quota checker may do |
| `QuotaCheck` | the same pool with the real poll, probe, callback and administrator | one action per stretch between two locks: `PollBegin … PollReset`, `ProbeDue … ProbeRemove`, `Callback`, `AdminMarks`, `Stop`, `Start` |
| `Failover` | one request through the candidate loop of `proxy.go` | `NextCandidate`, `Skip`, `SendStarts`, `SendSucceeds`, `SendFails`, `Swap`, `Ask`, …; the client and the budget as environment |
| `Router` | `router.go`, `policy.go` as operators without state | from a configuration, a query and a key's options to the set of candidate sequences the iterator may walk: `AutoPlans`, `DirectPlans`, `RulePlans`, `BuildCandidates` |
| `Gateway` | `handle` from the routing on | EXTENDS `Failover` and `Router`: the route is computed, the first candidate probed and compared with the key's binding (`Probe…`), then the loop of `Failover` (`LoopStep`) |
| `Ledger`, `Traced` | what a writer of records promises, and the bookkeeping of a record | `Ledger`: a record is accepted or refused, then written, given up or lost, once |
| `UsageCollector` | `usage/collector.go` | `RecordUsage`, `Collect`, `FlushTick`, `UsageInserted`, `UsageInsertFails`, `UsageGivesUp`, `WorkerLeaves`, `StopUsage` |
| `AccessLog` | `accesslog/`: recorder, buffer, body files, retention | `PushChecks`, `PushSends`, `LogTakes`, `DrainTakes`, `InsertsOne`, `FlushEnds`, `CloseLog`, `RetentionLists`, … |
| `Records` | both under requests and `Server.Run`'s shutdown | `Open`, `Account`, `Logged`, `Signal`, `Drained`, `UsageStopped`, `LogStopped` |
| `Providers` | registry and manager: names, vendors, instances, metadata | `RegisterRelay`, `UnregisterRelay`, `AddProvider`, `RemoveProvider`, `ReloadPricing` |
| `Catalog` | models, prices and face rows, in the database and in the manager | `UpsertModels`, `ReplaceFaceModels`, `SavePricing`, `DeleteOrphans`, `InstallModels` |
| `Pools` | the keys' rows and the four copies of the map of pools | `BuildOnePool`, `SwapServer`, `SwapRouter`, `SwapQuota`, `NewInstance` |
| `Admin` | the admin API's handlers on these three | one action per statement or critical section: `CreateKey`, `ReloadPool`, `ReloadStations`, `DeleteStation`, `SyncModels`, `Prune`, `ConfigReload`, … |
| `Upstream` | the adapters: a call, its reader goroutine and its channel | `OpenAISends`, `AnthropicOpens`, `GoogleReads`, `RawReads`, … |
| `Stream` | `handle`, the attempts and `doStream` with their timers; slots; the active registry | EXTENDS `Upstream`: `Enter`, `Open`, `SlotStep`, `Commit`, `Forward`, `ForwardBreaks`, `Finish`, … |
| `MC…` | instances for TLC | constants, symmetry, views |
| `…Proofs` | theorems | see section 5 |

### How they compose

`Breaker` is shared by `CircuitBreaker` and `KeyPool`. Three abstract specifications
are implemented by detailed ones:

* `KeyPool!Spec` by `QuotaCheck`, which EXTENDS `KeyPool` and composes its actions
  with its own; the mapping is the identity on the pool's variables: every step of the
  workers is a `CheckQuota` step or a stutter.
* `Failover!Spec` by `Gateway`: the state before the loop is mapped to the loop's
  initial state, so that routing and probe are stutters. `Failover` takes any route
  that lists one tier after the other (`FailoverConfig`); the run `gateway` gives it
  the routes that `Router` computes, so that TLC evaluates the assumption on them, and
  `RouterOffersByTier` shows it of every route the router can build.
* `Ledger!Spec` by `UsageCollector` and by `AccessLog` (`INSTANCE Ledger WITH` the
  state of each record computed from channel, batch and table): whatever the order
  of flushes, failures and the end of the process, a record that was accepted is
  written once, or given up by the rule the code states, and is never dropped
  otherwise.

`Records` composes the two writers with the shutdown, `Admin` the three parts it
changes, `Stream` the proxy with the adapters.

### Abstractions

* **Time** is relative. A breaker keeps the *ages* of its failures and a key the
  *ticks* left of its cool-down; ages saturate where the code no longer tells them
  apart. A tick may come at any moment, so every interleaving of durations is
  covered, and there is no absolute clock to bound. Timers of `Stream` may fire at
  any time they are armed.
* **`coolingCount`** saturates at 3, the only value it is compared with.
* **Balances.** `Remaining` is abstracted to whether it is at most one per cent
  (`low`), `LastPolledAt` to whether it is set (`polled`): what
  `IsPolledAndExhausted` reads. A vendor's answer is a pair of HasQuota and low.
* **`Strategy = "any"`** stands for round-robin, least-used and random: any key of
  the bucket may be chosen.
* **The status LIMITED** is declared and never assigned; it is left out.
* **The probe's back-off** is left open: a scheduled item may be due at any time.
* **Start after Stop** waits until the old workers have wound up. In the code they
  may overlap by the length of one HTTP call that fails at once on the cancelled
  context; the first round of the new ones comes a second or an interval later.
* **Keys in `Failover`**: whether a candidate has a key, and whether another key is to
  be had, are choices; the pool that makes them is `KeyPool`.
* **Errors** are classes: what the code's branches tell apart. An upstream may
  answer anything at any time.
* **The response written although the candidate failed** (2012) is left out of
  `Failover`: `doRequest` reports failure only before it writes. `Stream` has it.
* **Randomness** of the router (the order in which a Go map is walked, the weighted
  choice) is a set of plans, any of which may be taken.
* **Sorting and filtering** in `Router` are written by rank (the place of an element is
  the number of those before it): they give what the code's stable sorts and loops
  give, and what they give can be counted and so proved.
* **Names.** No name belongs to two vendors, and a vendor's name is no other vendor's
  face (`ProvidersAssumption`). The code keeps the names of stations unique among
  stations (a unique column) and does not compare them with those of the configured
  vendors (admin.go:1321); a station of such a name is outside the model.
* **Database failures**: `Records` lets the statements of one table fail in a behaviour,
  each before or after it took effect; `Admin` bounds their number (`MaxFailures`).
* **Handlers of `Admin`** start in any order and overlap freely, except `Last`, which
  starts when the others have ended: it is the reload an administrator does then.
* **Stream chunks** are counted up to `Chunks`; one of them may carry the usage.

Definitions marked *slip* are plausible mistakes. No specification uses them;
replacing a definition by its slip must break the property it is listed with
(`mutants` in PROJECT.json), which shows that the property depends on the code.

## 3. Runs

Passing runs:

| Run | Instance | Shows |
|---|---|---|
| `breaker` | 3 callers, threshold 3, window 3, timeout 2, 2 slots | `ClosedBelowThreshold`, `OpensAtThreshold`: exactly the failures in the window count; `TrialsWithinSlots`, `TrialRate`: late reports never let more trials through; `HalfOpenDecides`: HALF_OPEN is left unless slots were lost (section 4) |
| `pool` | 2 requests that may send again, 2 keys with breakers, every cause to be out, Retry-After longer and shorter than the default | `HighestPriority`: never refused, or given a worse key, without a cause that stands; `CoolDownHonoured`: no order of reports hands a key out during its rest |
| `quota` | 1 key, all workers, administrator, a request that may send again, every interleaving | `Spec`: implements `KeyPool`; `TwoReads`: the poll takes a key out only when the last two balances that poll or probe read of it had no quota, but for the zeros a streak kept over a probe's restore (section 4) |
| `quota_back` | the same, with fairness | `QuotaReturns`, `BalanceReturns`: a key whose quota is back is restored and its stale balance replaced; `CooledKeyReturns`: a rest that a request has renewed by sending again ends and the key is used again |
| `gateway` | 5 faces (one vendor with two, one synced and one unsynced station), 4 configurations, 5 gateway keys, 4 requests, max_retry 0 and 1 | `NoDowngrade`, `SendsBounded`, `AnsweredOnce`, `GatewayAnswered` on the routes the router builds; `AutoBound`: the automatic chain keeps to the key's vendors; `CheapestFirst`: no dearer tier before a cheaper one; `SameRelays`: the two places that build candidates choose stations by one name |
| `records` | 2 requests, channels of 1, batches of 2, retention pages of 1 | `UsageKeepsLedger`, `LogKeepsLedger`: both writers implement `Ledger`; `BilledOnce`, `LoggedOnce`: nothing is written twice unless the answer of a statement was lost; `FilesFollowRows`: of a deleted row only a file is left whose removal failed, and no row within its retention loses its file; `DrainedEntriesLogged`: what a drained request logged is stored; `StopsAfterSignal`: the process ends |
| `admin` | a configured vendor with two faces, a station, a key each; 2 handlers of any kind, one failing statement, then a reload | `KeysServed`, `StationsFollow`, `ModelsFresh`: what a handler did undisturbed is what router, quota worker and adapters use; `VendorShared`: the faces of a vendor share one pool; `MetadataKept`, `PricesKept`: reload and sync do not destroy what others wrote |
| `stream` | one request over four routes through every adapter, a second stream with its own or the same trace id, 2 chunks, 1 slot | `SlotsPaired`, `CutsTold`, `CountedOnce`, `NoBlameForLeaving`, `NoSwitchAfterBytes`, `StreamEnds` |

Runs that find a disagreement between the code and what its documents say; the
quotations are in PROJECT.json:

| Run | Finds |
|---|---|
| `quota_lost` | A mark between the probe's `RestoreQuota` and its `removeKey` loses the schedule; without a balancer nobody asks about the key again. |
| `gateway_bound` | The explicit rules do not filter by the key's binding and only the first candidate is compared with it: a fail-over sends the request of a key bound to one vendor to another. |
| `records_lost` | The usage worker leaves at the signal, before the drain: the usage of a request answered during the drain goes to a channel that nobody reads. |
| `stream_usage` | An adapter's goroutine sends io.EOF before it sets the usage and `doStream` does not wait for the close: a stream forwarded whole may be billed nothing. |

### Why these bounds

A race of the breaker needs one call admitted before a change of state, one trial
and one more to compete for a slot: three callers. Threshold 3 in a window of 3
makes the window slide while failures enter and leave it. In `pool` two
keys are needed for priority, and for a slot taken from a key that is not returned; a
report touches its own key only. Two requests suffice: both may hold one key and report
late, each several times, and the one that has let go of it acquires again. The keys'
tier is `api`, where nothing looks at `CoolingCount`; the third 429 that takes a
token_plan key out is in the runs of `QuotaCheck`, and the proofs cover every tier.
The quota checker treats keys one by one and keeps one pair of worker states, so one
key sees every interleaving of a poll, a probe, a callback, a request and the
administrator. A request may send once more after a failure (`SameKeyRetries` = 1), so
that one call renews the rest it reported or takes the key out on its third 429. In
`quota_back` a view leaves the history of `TwoReads` out.

In `gateway` the faces are one of each kind the filters tell apart, two of one
vendor, with a pool of mixed tiers so that a vendor appears in two of them; the
configurations take each of the router's three rules and the empty one, and each policy
but the default twice. Routes reach five candidates over two tiers, which `max_retry` = 1 cuts
short. `SameKeyRetries` is 2 instead of 10: the loop's body does not look at the
count but to stop.

In `records` a channel of one and a batch of two make each request find the channel
full, half a batch and a full one; two entries suffice because the writers keep no
relation between more than a batch and what follows it. `admin` lets two handlers of
any kind meet, which is every pair of the eleven operations, and one statement fail
anywhere in them; the reload after them shows what can be repaired. The instance
with a station of two protocols (`Multi` in `MCAdmin`) was checked as well. In
`stream` the routes are one per adapter and one that changes from a builtin adapter
to a relay; two chunks give a first, a later and a missing one; one other stream
suffices to share an entry and one slot to be refused.

`CHECK_DEADLOCK FALSE` stands in the runs of `Gateway` only: an answered request is
over. All other systems run for ever, or state when they are done.

Views leave out history variables a run does not ask for, and in `pool` the count that no
key of its tier is compared by; symmetry is used in runs without liveness only (requests
and handlers, which no property tells apart).

### Fairness

* Time passes.
* `CircuitBreaker`, `KeyPool`: every call ends: the providers' HTTP client, the timeouts
  of streams and the client's own disconnection bound each one, and the handler
  reports it. Requests keep coming for every tier (an idle gateway owes nothing).
* `QuotaCheck`: the workers' goroutines run; callbacks, which run in the marking
  goroutine, return; of infinitely many queries about one key infinitely many are
  answered with what the upstream really grants (strong fairness: single answers
  may be wrong or lost for ever so often).
* `Gateway`: the handler's goroutine runs. No fairness for the client.
* `Records`: the goroutines of the requests, of both workers and of the shutdown run,
  and the drain has its time limit. A statement that was sent to the database returns,
  with an error or without: the code gives it no time limit (collector.go:165), so that
  a database that never answers holds up the shutdown. The signal need not come.
* `Stream`: the goroutines of the request and of its adapter run, and a timer that stays
  armed fires; among them is the HTTP client's own limit, on which a builtin adapter
  relies before its headers. No fairness for upstream or client.
* `Admin` has none: its properties are safety.

## 4. Disagreements met and not kept as runs

Each run answers one question and there are better uses for them than to list
every disagreement. These were confirmed with TLC on the same modules; where the
formula is still there its name is given.

* A trial that ends in an uncounted error (429, auth, quota, cancellation) never gives
  its slot back; when all slots are gone the breaker is HALF_OPEN for ever. Every
  acquire takes a trial slot of every usable key, whatever tier is asked for, so
  requests for another tier alone do this (breaker.go:110; `TrippedKeyReturns` of
  `KeyPool`). `HalfOpenDecides` therefore excepts `SlotsLost`.
* A 429 followed, on the same key, by quota_exceeded is not counted as evidence; the
  request fails although the next tier could serve it (`EvidenceStands` of `Failover`).
* `RecordSuccess` in HALF_OPEN counts successes of calls admitted while CLOSED: such
  a late success closes the breaker while the trials are still in flight
  (breaker.go:178; cross-cutting.md:165 speaks of the trials).
* The last report wins: a late 429 turns QUOTA_EXCEEDED into COOLING, after which the
  clock alone makes the key ACTIVE (pool.go:355; subsystems.md:85), and a 429 with
  a short Retry-After replaces the five minutes of an auth error (subsystems.md:98).
  `CoolDownHonoured` therefore speaks of the cool-down *last* reported.
* A success resets `CoolingCount` only in QUOTA_EXCEEDED, so the third 429 of a key
  that worked in between takes it out (pool.go:328; subsystems.md:92 says three in
  a row).
* A worker decides to restore a key in one critical section and restores it in a later
  one, whatever it is by then: a key put to rest in between is made ACTIVE during its
  rest (manager.go:723; `CoolingStands` of `QuotaCheck`), against manager.go:655.
* `RestoreQuota` by the probe leaves the poll's streak of zeros where it was, at two, so
  that the next single balance without quota takes the key out again (manager.go:363;
  `SingleZeroSpares` of `QuotaCheck`), against key.go:46, which says that the count is
  reset when quota is read, and :47, two in a row. `TwoReads` therefore excepts a balance
  with quota that the probe has read since the poll last did.
* `LastPolledAt` is written for every balance and `Remaining` for some: after a
  first balance without quota the default 0 counts as read, and the key is
  filtered out after a single zero (manager.go:673; key.go:65). With a vendor that
  answers HasQuota while the plan's amount is 0 (mimo/balancer.go:203) the key
  stays filtered out; `quota` is checked for vendors whose two answers agree.
* A candidate skipped by the key's model list overwrites the error of one that was
  really tried, and the client gets 403 (proxy.go:2165; 1534 says only when all
  candidates are excluded).
* After a 429 a non-retryable error of the other key does not stop the request
  (proxy.go:2282), and one met by the same key stops it even for a renamed model
  (2276), against the rule both other branches share (`candidateUnfitNotFatal`).
* Two streams with one client-chosen trace id share a slot entry: the later finds the
  buffer of the earlier, and a slot is lost until the process ends (proxy.go:2809;
  `SlotsReturned` of `Stream`). The list of active requests shares the entry too.
* Two reloads of the stations at once can load a face that the registry does not know,
  which no later reload removes (`ReloadRepairs` of `Admin`), or leave the endpoint of a
  face that is gone; and two handlers that change the order of routes can leave the
  router with the earlier (`OrderFollows`). `StationsFollow` excepts what such reloads
  left (`Leftovers`), `KeysServed` the faces the registry does not know.
* A sync whose transaction fails has already replaced the face's rows
  (modelsync.go:63): the face then offers models that have no row, and pruning, which
  deletes the rows no face offers, may leave the vendor without any
  (provider_model_store.go:238).
* Pruning counts the vendor's face rows and deletes in two statements without a
  transaction; a sync that empties the face rows in between makes it delete every model
  of the vendor (provider_model_store.go:240, 247; `PruneKeepsFallback` of `Admin`),
  against the comment at :235.
* The reload of the stations only logs a failed statement about a station's keys
  (loader.go:33, 183, 211) and goes on: the station is served with other keys than its
  column names until the next reload. `StationsFollow` excepts the keys of a reload in
  which such a statement failed (`"unsynced"`), and only the keys.
* Retention ignores the error of `os.Remove`, takes a path outside its directory for
  removed, and deletes the row all the same (retention.go:108–124): the file stays for
  good, because nothing but the row names it. `FilesFollowRows` excepts exactly these
  (`stuck`). An entry that is dropped from the full buffer, or given up, leaves its file
  behind likewise; the property speaks of deleted rows only.
* A stream whose body is cut off by the HTTP client's own time limit before its first
  chunk is taken for one whose request has ended: nothing is reported to the pool
  (proxy.go:851), although the same limit before the headers is
  (classify_transport.go:40 says that it still reports).

Read in the code while modelling; the modules follow the code:

* `entry.ErrorType` of a failed candidate is never reset, so a success after a
  fail-over is logged as a failure (proxy.go:1990). A stream that was complete is
  logged `client_disconnected` when its client leaves right after it.
* When a first byte is late the branch of the deadline blames the key although the
  client has left (proxy.go:835). A builtin stream that fails before its first chunk is
  reported as a success by the adapter and as an error by the proxy.
* Google's streams never report usage, and `ListModels` reports a success whatever
  happened (openai_compatible.go:578).
* A short alias with a target is resolved first and then falls into the catch-all rule,
  so that its target is lost (router.go:34); the direct rule leaves out stations that
  were never synced; a face that declares a model in two letter-cases is offered twice.
* Which of several candidates comes first may be random, and only the first is compared
  with the key's binding: the same request is refused with 403 or served, by chance.
* `deleteStation` repeated after a failure cleans nothing more, because the row is gone.
  The reload of gateway keys drops `DefaultModel` (authenticator.go:37) and `CheckTPM`
  is never called.

## 5. Proofs

For every value of the constants that satisfies the modules' ASSUMEs. Every safety
property that a passing run checks is stated by a theorem.

* `CircuitBreakerProofs` – `TypeCorrect`, `BelowThreshold`, `OpensOnlyAtThreshold`,
  `TrialRateHolds`, `SlotsHold`. `BreakerProofs` holds the lemmas on the operators:
  what pruning keeps, what `Allow` and the reports return. The inductive invariant
  says that while CLOSED the breaker's own failures *are* the history `recent`
  (so the count it compares is the count of the window); that while OPEN every trial
  remembered is as old as the OPEN state, and while HALF_OPEN all but the last
  `inFlight` of them are at least OpenTimeout old (`TrialHistory`); and that the
  callers on trial never outnumber the slots (`SlotInv`). Without these the bounds
  are not inductive, because the code counts slots and not trials.
* `KeyPoolProofs` – `TypeCorrect`, `CoolDownHolds`, `HighestPriorityHolds`, from
  `CauseInv`: a key's status agrees with what was last reported of it (rest left =
  `cooling` while COOLING, QUOTA_EXCEEDED only if spent, ACTIVE only if rested).
  Of the checker beside it: `CheckTypeCorrect`; `CheckedPoolIsPool`, the refinement: each
  of the checker's actions is a step `KeyPool` allows or leaves the pool alone,
  given that a worker in the middle of a key has one in hand (`Busy`). That it honours
  every cool-down is no theorem: a worker lifts a rest that was reported after it had
  decided (`CoolingStands`, which TLC refutes). `TwoReadsHolds`, from `StreakInv`: the streak the code keeps
  is never longer than the run of balances without quota that poll and probe really
  read, the balance in hand included as long as it has not been judged, unless the probe
  has read one with quota since the poll last did (`probed`), which the streak does not
  know of; then a single balance may take the key out (section 4).
* `FailoverProofs` – `FailoverTypes`, `NoDowngradeHolds`, `AnsweredOnceHolds`,
  `SendsBoundedHolds`. `FInv` ties the evidence in hand, and a quota error for which
  another key is being tried, to an upstream's answer in the current tier (`Proven`),
  and says which candidates cannot have been sent anything yet (`Unsent`): needed
  because a tier may also be left when it saw no failure, and that is harmless only if
  none of its candidates was sent anything. The proof rests on the router offering the
  candidates tier by tier (`FailoverConfig`). The bound on the sends is a sum over
  candidates of what the three nested loops may send, and the number sent so far alone
  is not inductive: `BoundsInv` adds how many sends each candidate passed has had
  (`Counted`), that the retries in hand are within their limits (`Within`), and that
  what was sent plus what the current place in the loops still allows never exceeds the
  bound (`Budget`).
* `GatewayProofs` – `GatewayImplementsLoop`: the gateway, from a configuration, a key and
  a request on, implements `Failover!Spec`; `GatewayNoDowngrade`,
  `GatewaySendsBounded` and `GatewayAnswersOnce` carry the loop's theorems over to it.
  The second part is about the router. A set in a strict total order becomes a sequence
  of all its elements and nothing else (`InOrderCovers`: the ranks are an injection into
  as many places as there are elements, hence onto), and the administrator's order, the
  ages and the names make such an order (`BeforeOrders`). So the automatic chain offers
  the faces that pass its filters, each of them (`AutoPlanFaces`), a rule those of its
  own that pass (`FilteredFaces`), and the candidates come tier by tier
  (`CandidatesByTier`, `RouterOffersByTier`). With the plan behind the offer as the
  invariant (`Carried`) these give `GatewayCheapestFirst`, `GatewayAutoBound` and
  `GatewaySameRelays`, for every registry, configuration, key and request.
* `RecordsProofs` – `UsageImplementsLedger` and `LogImplementsLedger`: both writers under
  requests and shutdown implement `Ledger!LedgerSpec`, for any capacities and batches;
  `RecordsBillOnce`, `RecordsLogOnce`, `RecordsFilesFollow` and `RecordsDrainLog` are the
  safety properties of the run `records`. `RecordsFilesFollow` holds with removals that
  fail: a file outlives its row only as one of those. The ledger's queue is the batch followed by
  the channel, and the first lemmas say what the workers' moves do to that
  concatenation. `UsageInv` and `LogInv` say that the queue has no entry twice, that
  nothing dropped is in it, and that a queued entry has a row only from a statement
  whose answer was lost; `Requested` ties this to the requests: who has not pushed yet
  is not in the log. Without it a second push of the same entry could double its row.
  `DrainInv` orders the shutdown: the buffer is told to stop only after the drain, so
  that its worker's last look at the channel comes when no request can send any more.
* `StreamProofs` – for any routes, any adapters' answers, any number of streams:
  `NoCutIsLoggedOk`, `OneSuccessPerAnswer`, `BytesSettleTheCandidate`,
  `LeavingBlamesNoKey`, `SlotsArePaired`, with `StreamTypes`. `RequestInv` is the
  invariant of one request: an adapter that has stopped left its last word in the channel unless the
  client has gone (`ChannelInv`: otherwise a bare close would be taken for an end); what
  went to the client agrees with its entry (`AnswerInv`); and until the answer is
  committed a success is counted exactly if the adapter says that it has reported it,
  from then on exactly once (`CountInv`). `SlotInv` counts the streams between the two
  statements that take a slot, and between the two that give it back. What
  `finalizeStream` claims of every stream, `SlotsReturned`, is proved for streams with
  a trace id of their own (`OwnTracesLoseNoSlot`) and false otherwise (section 4).
* `AdminProofs` – all properties of the run `admin`, for any number of handlers, faces,
  keys and models and any number of failing statements. `BaseInv` holds the types, what
  each handler has in hand at each of its places (`Fit`), that a handler alone is alone
  (`Solitude`), and `AdminKeepsMetadata`'s own invariant: configured faces are always
  loaded. On it rest
  - `AdminKeepsPrices`: the rows a sync holds between its read and its transaction have
    every price that was saved undisturbed (`SyncReads`);
  - `AdminModelsFresh`: what a handler that is alone has read is still what the tables
    hold (`ReadsFresh`);
  - `AdminVendorShared`: half-built maps are not uniform, so `MapFit` says for each
    place what is: of the vendor in hand every name is to be entered or has the pool
    built for it, of all other vendors the names agree;
  - `AdminStationsFollow`: a name registered but not loaded is in the hands of a handler
    (`Announced`), so a handler alone finds registry and manager equal, and `Relays`
    follows them through removal and registration; the rows of the keys it follows only
    as long as no statement about them has failed (`InStep`), key by key as the
    statements take effect;
  - `AdminKeysServed`: each name of a covered vendor leads to a pool just built, or is
    still to be entered (`Serving`).

The type invariants of `CircuitBreaker`, `KeyPool`, `QuotaCheck`, `Failover`, `Stream` and `Admin` are
theorems and no run spends time on them; those of the other modules stand in the modules
and were checked with TLC on the runs' instances. The strengthened invariants were
checked with TLC before they were proved, those of `Admin` on three larger instances by
simulation, `Carried` of `GatewayProofs` on part of the states of the run `gateway` only
(some 420 000, none violating it: evaluating it everywhere is too slow).

Only model-checked: liveness (`HalfOpenDecides`, `QuotaReturns`, `BalanceReturns`,
`CooledKeyReturns`, `GatewayAnswered`, `StopsAfterSignal`, `StreamEnds`), since
fairness and ENABLED are out of the prover's reach. No module declares a RECURSIVE
operator.

## 6. Plan

Done: keys (`Breaker` … `QuotaCheck`), requests (`Failover`, `Router`, `Gateway`), streams
(`Upstream`, `Stream`), records (`Ledger`, `UsageCollector`, `AccessLog`, `Records`),
administration (`Providers`, `Catalog`, `Pools`, `Admin`). What is left, in order:

1. An abstract specification of the pools that are served (one per vendor, replaced as a
   whole), which the handlers of `Admin` implement as long as reloads do not overlap.
2. `KeyState` – the snapshot of the keys' states written at shutdown and read at start
   (pool.go:660–720) under requests that still report.
3. `RateWindow` (auth), `Sessions` (adminauth: a row read and written whole by two
   handlers).
4. `ProbeBackoff` – the delay of a probe in 64 bits (manager.go:428).

## 7. Not modelled

Bodies and their translation between protocols (data), HTTP and TLS, queries for
display, parsing of configuration, metrics (counters for display), the request
fingerprint (a pure rewriting of JSON) and the frontend (a view of the admin API).
The RPM window of a gateway key, the administrators' sessions, the key-state snapshot
and the probe's back-off are in reach and listed in section 6. PROJECT.json says of each
component what of it is modelled.

## 8. Running

    tlc -workers 2 -config gateway.cfg MCGateway.tla
    tlapm KeyPoolProofs.tla

`runs` in PROJECT.json pairs every `.cfg` with its module; no run takes more than
four minutes.
