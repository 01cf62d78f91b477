# A verification of runpod-exporter

TLA+ models of `runpod-exporter`, the TLC configurations that check them, and
theorems about them that TLAPS proves. Paths below are those of the repository
under `src/`, without that prefix.

Run everything from this directory:

    tlc -workers 2 -config Runner.cfg MCRunner.tla
    tlapm RunnerProofs.tla

## 1. The system

The exporter polls the RunPod REST API on a timer, keeps what it finds in
Prometheus metric vecs, and serves them on `/metrics`. A scrape never calls the
API ("poll, cache, serve").

| Component | Source | State | Operations |
|---|---|---|---|
| Polling loops | `internal/collector/domain.go` | per domain: the loop's goroutine, its ticker, the current poll's context and monitor goroutine; the self-observability metrics | `Run`, `loop`, `poll`, the monitor |
| Process lifecycle | `cmd/runpod-exporter/main.go` | root context, HTTP server, `serveErr` channel, exit status | `main`, `run` |
| Domain polls | `internal/collector/{pod,serverless,catalog,billing,cluster,account,template,registry,network_volume}.go` | none of their own: they write the vecs | nine `Poll` methods |
| API client set-up and registry | `internal/collector/{client,http_error}.go` | the ordered list of domains | `NewClient`, `Build`, `httpError` |
| Configuration | `internal/config/config.go` | none | `Parse`, `parseDomains`, `parseInterval`, `parseLogLevel` |
| Metric descriptors | `internal/metrics/*.go` | the vecs (Prometheus client library) | declarations |
| Generated API client | `openapi/client_gen.go` | the server URL, the request editors | 53 operations: `New...Request`, `...WithResponse`, `Parse...HTTPResponse` |
| Dashboards, deployment, CI | `deploy/`, Docker and compose files | - | - |

How they interact. `main` parses the configuration, builds the client and, one for
each name, the domains, and only then starts anything. It cancels the root context
on SIGINT or SIGTERM. It starts `collector.Run` in a goroutine it never waits for,
and `ListenAndServe` in another, and selects between the server's error and the root
context. `Run` starts one `loop` per domain. A loop calls `poll`, which makes a
context with a deadline, starts a monitor goroutine that watches both that context
and the root one, calls the domain's `Poll` and then cancels and joins the monitor.
`Poll` asks the API through the generated client, whose requests carry the poll's
context, and writes the vecs, which HTTP handlers read at any time.

What is hard here, and what makes each part correct:

- **Loops and polls.** Four timers and signals race for each poll: its deadline,
  shutdown, the grace timer, and the return of `Poll`; a fifth, the ticker,
  races the root context in the loop's select. Correct means: a hung request
  cannot wedge its loop; no monitor outlives its poll; the join never waits for
  a timer; a poll is cancelled early only at shutdown and only after its whole
  grace; polls of a domain never overlap and are each booked once; polling goes
  on until shutdown and then ends.
- **Lifecycle.** A signal, a server failure and slow clients in any order.
  Correct means: the process ends once it is told to, and exit status 0 means an
  orderly end.
- **Cache.** Vecs are rewritten in place under the eyes of scrapes while the
  account changes. Correct means: a failed poll leaves the last good values;
  what has vanished goes with the next successful poll; a family never mixes two
  polls; data never goes backwards.
- **Start-up.** Sequential, but with many inputs: seven settings, each from a
  flag, a variable or a default. Correct means: nothing starts on a bad
  configuration; a flag wins over its variable; every name is polled, at the
  interval of its tier, and no ticker gets an interval below 5 s.
- **API calls.** Responses of any status and content, connections that break,
  requests that hang. Correct means: only a whole 200 of JSON is taken for an
  answer; a call ends when its context does; no body is left open; the client's
  requests go where the URL says, and polls never write.

The list of hazards, each at its line and with the properties that guard it, is
in `PROJECT.json`.

## 2. Modules

| Module | What it is |
|---|---|
| `Runner` | `domain.go`: loops, polls, monitors, timers; no clock |
| `PollCycle` | abstract specification: what `Run` promises for a domain |
| `RunnerCycle` | the refinement mapping from `Runner` to `PollCycle` |
| `RunnerTimed` | `Runner` with a clock: `pollTimeout`, `shutdownGrace`, intervals |
| `Exporter` | `main.go`'s `run` from its goroutines on, composed with `Runner` |
| `DomainPolls` | the nine domains as data: name, tier, calls, resets, gauges set |
| `MetricCache` | what a `Poll` does to its vecs, step by step, and what scrapes see |
| `Collector` | `Runner` composed with `MetricCache`: polls that are cut off at any step |
| `Config` | `Parse`, `Build` and the tiers, as operators |
| `Startup` | `main.go`'s `run` up to its select, and `Run`'s start of its loops |
| `ApiOperations` | the generated client as data: request and responses of 53 operations |
| `ApiCall` | abstract specification: what a `Poll` relies on for each call |
| `ApiClient` | one call, from its request to the parsed and checked response |
| `MC...` | instances for TLC |
| `RunnerProofs`, `RunnerTimedProofs`, `ExporterProofs`, `MetricCacheProofs`, `CollectorProofs`, `ConfigProofs`, `StartupProofs`, `ApiClientProofs` | theorems |

How they fit:

    Startup (Config, DomainPolls)   what is polled, how often
       |
    Exporter ---- Runner ---- RunnerTimed, RunnerCycle -> PollCycle
                    |
                 Collector
                    |
               MetricCache (DomainPolls)
                    .
                 ApiClient (ApiOperations) -> ApiCall   each call of a poll

`RunnerTimed`, `Exporter` and `Collector` extend `Runner` and conjoin their own
steps with its actions, so that all three are *by proof* implementations of it
and inherit its theorems.

### Runner

One action per step of a goroutine that another one can see. `pc[d]` is the
domain's goroutine:

| `pc[d]` | where |
|---|---|
| `start` | `loop` entered, nothing polled (`domain.go:64`) |
| `polling` | in `d.Poll(callCtx)` (103) |
| `joining` | at `<-monitorDone` (108) |
| `timing` | between the two gauges of a successful poll (117-118) |
| `select` | in `loop`'s select (67-74) |
| `stopped` | returned |

`callCtx[d]` is `live` until the first of its causes: `deadline` (the timeout of
line 82) or `canceled` (by `poll` after the call, or by the monitor).
`monitor[d]` is `watching` (first select), `grace` (second select), `closing`
(past the force-cancel) or `none` (`monitorDone` closed). `ticker[d]` is the
one-place channel of `time.Ticker`; a tick that finds it full is lost. Poll
numbers stand for the timestamps and durations that the gauges hold: two gauges
agree when they come from the same poll.

`Poll` returns success or an error at any moment, or hangs for as long as its
context lives. What it does meanwhile is in `Collector`.

### RunnerTimed

The same actions, with `age` (time since the poll began), `graceAge`, `tickIn`
and `sinceDone` (time since shutdown began). Every step but `Tick` is
instantaneous, and `Tick` waits until no goroutine is ready and no timer is due.
Only a `Poll` that waits for the API lets time pass. This assumes that the
runtime schedules what is ready well within a unit of time (a unit stands for
seconds). Without that assumption there are no bounds to state; everything that
does not need it is in `Runner`.

### Exporter

`mainPc` is where `run` is; `server` the goroutine of `ListenAndServe`;
`serveErr` its one-place channel; `conn[c]` a connection, `new`, `active` or
`idle`, as `net/http` tracks them. Of `net/http` (external) the model has what
`Shutdown` does: it closes idle connections, and new ones that stay silent,
polls again while some are left, gives up when its context does, and may
return, at its end, the error of closing the listeners. When `run` returns, the process ends: nothing takes a step any more, whatever the
collector's goroutines were doing. What comes before the goroutines is in
`Startup`.

### MetricCache and DomainPolls

Every `Poll` has the same shape: all API calls first, an error return as soon as
one fails, then the resets, then `WithLabelValues(...).Set(...)` series by
series. `DomainPolls` has the shape of each of the nine: how many list calls it
makes, which vecs it resets and in which order, and its *columns*, one per
`WithLabelValues(...).Set(...)` of the code, each with the loop it is in.
Special cases are data too: `serverless` makes one more call per endpoint
(`detailed`); a pod without a runtime and a GPU without data centers skip some
columns (`optional`; the fields of a runtime come or go together); `account` and
the registry's delegations are plain gauges, set without a reset. `MetricCache`
runs any of them: `poll` is chosen in the initial state, among the nine in the
run `metric_cache`.

The API is an account whose resources come and go and cease to report, with a
new `epoch` for every change, and changes may fall between any two calls of a
poll. The value of a series is the epoch of the answer it was set from, so that
a stale or mixed family shows. `WithLabelValues` and `Set` are two steps, as
they are two locked operations of the Prometheus library, and a gauge obtained
before a `Reset` is then no longer part of its vec. A scrape shows a family as
it is at some moment, so a property of `table` at every moment is one of every
scrape. Two assumptions are statements about the code that TLC evaluates: every
vec that is set for each resource is also reset, and a detail is only of a
resource (`WellFormed`); and no vec is written by two domains (`VecsApart`), so
that each domain can be taken alone.

### Collector

`Runner` and `MetricCache` for one domain. `inPoll` is `MetricCache`'s `pc`. A
loop's first poll or tick begins a poll of the cache; `PollReturns` of `Runner`
is the return of that poll, an error if a call failed and nil if all gauges are
set; the deadline and the monitor's forced cancel are `Runner`'s and fall
anywhere. `publishedBy` records which poll was the last to return nil.

`Runner` *assumes* that a `Poll` returns once its context is done. Here this is
derived: of calls the fairness says only that one ends once its context is done
(what `ApiCall` promises), and of the code only that it goes on when it has
nothing to wait for. `ImplementsRunner` is `Runner`'s fair specification.

### Config and Startup

A command line is `input`: for each setting the value of its flag, if given,
and of its variable, if set and not empty. Texts are what `Parse` finds in them:
a duration in milliseconds or none, a URL with or without scheme and host, a
list of names with or without blanks. `Passes` is each check and `Checks` their
order, since `Parse` returns the first error. `listen-addr` is not checked by
anyone and is left out.

`Startup` runs `run`: parse, client, domains, and then the two goroutines, one
of which creates a loop per domain, with the interval of its tier. Its constants
are `Choices`, the values each setting may be given, and `Together`, the sets of
settings that may be given at once; the assumptions about them
(`ChoicesAssumption`, `TogetherAssumption`) say only that values are of their
kind. What `Parse` does with a list of names is a recursive function (`Keep`).
`PolledAsAsked` does not use it: it compares what is polled with the list that
was given. A name that is the third of those that are not empty is the third
domain, and there are as many domains as such names. So a parser that drops
repeats, or reorders, or stops at an empty name violates it.

Two things `Parse` does that a reader might not expect are in the model: an
empty `--api-key` does not hide the variable (any other empty flag does), and
`all` counts only if it is the whole text: in `pod,all` or with a blank beside
it, it is an unknown name.

### ApiOperations, ApiClient and ApiCall

`ApiOperations` has one row for each operation of the generated client: method
and path, the parameters that are not of the path, whether it has a JSON body,
and which statuses its `Parse` decodes into which kind of field. The code of the
53 differs in nothing else; `ApiClient` is that common code, mapped to the lines
of `ListPods`. Which operations the collector uses (`PollOps`) follows from the
calls of the nine polls in `DomainPolls`.

`pc` goes from `building` over `sending` (`Do`) and `reading` (`io.ReadAll`) to
`checking` (the test of `JSON200` in `Poll`) and `returned`. A response is a
status, whether its content type says JSON, what its body is (a document of the
schema; JSON with none of its members; anything else, a page or a document that
is cut off) and what its `Retry-After` is. Decoding fails on a body that is not
JSON where JSON is expected, and on a `Retry-After` of a 429 that is no integer,
the one header bound to a type other than string. The context may end at any
moment; of `net/http` (external) the model has that `Do` and `ReadAll` then fail
and that nothing makes them fail before, for the `http.Client` has no timeout.

`Do` follows redirects, for no `CheckRedirect` is set: a 307 or 308 with the same
method and body, any other with a GET, and with the token if it is to the same
host. In the model a request may be redirected any number of times
(`Redirected`), to a place of which nothing is known. What comes back from there
is treated as any other response. So `UnderBase` speaks of the client's own
request only, `PollsOnlyRead` and `AnswerIsGenuine` of redirected ones too.

An id is one segment of a path, escaped. Ids that are empty, `.` or `..` are left
out: escaping keeps the dots and resolving the URL removes them, so that such a
request would go to another operation's path. The ids that polls send are those
that the API has just listed.

A base URL is a path, with or without a slash at its end. One that has a query
of its own is not modelled.

## 3. Runs

| Run | Shows | Properties |
|---|---|---|
| `runner` | two domains, every race of shutdown, deadline, grace, tick and return; every poll ends, polling goes on, `Run` ends and leaves nothing behind; and `Runner` implements `PollCycle`, fairness included | `TypeOK`, `MonitorWithinPoll`, `JoinNeedsNoTimer`, `ForcedOnlyByShutdown`, `RunLeavesNothing`, `PollsEnd`, `PollsForever`, `RunEnds`, `ImplementsPollCycle` |
| `runner_timed` | the durations, with one interval below and one above `pollTimeout` | `PollBounded`, `GraceBounded`, `NotCutShort`, `Cadence`, `StopsWithinGrace`, `TimedTypeOK` |
| `exporter` | exit status 0 means a signal and nothing left unanswered; the process ends, under hung polls and stalled clients | `ExporterTypeOK`, `CleanExit`, `ProcessEnds` |
| `metric_cache` | each of the nine polls: stale serve, vanished resources and data, no mix of two polls, nothing older, and no step back from one poll to the next | `CacheTypeOK`, `StaleServe`, `OneGeneration`, `NeverOlder`, `ServedForward` |
| `collector` | loop and poll together: whole vecs after every poll however it ended, the timestamp is that of the data served, and polls return as `Runner` assumes | `CollectorTypeOK`, `LastPollVisible`, `WholeOutsidePolls`, `TimestampOfServed`, `ImplementsRunner` |
| `startup` | from flags and variables to tickers | `StartTypeOK`, `TickersAboveFloor`, `FailsFast`, `FlagWins`, `PolledAsAsked`, `TierCadence` |
| `api_client` | a call of each operation against any response, redirects, broken connections and the end of its context | `ClientTypeOK`, `AnswerIsGenuine`, `NoBodyLeaked`, `UnderBase`, `PollsOnlyRead`, `ImplementsApiCall` |
| `late_tick`, `exit_grace`, `torn_scrape`, `domain_named_twice`, `status_lost` | one disagreement each between a document and the code (section 6) | |

A type invariant also says what is there at each place of a goroutine, where the
code relies on it: `TypeOK` that a loop has a ticker from its first select until
it stops, and an outcome once `Poll` has returned; `ExporterTypeOK` that `run`
drains only once it was told to stop; `CollectorTypeOK` that a `Poll` runs just
when its loop is in it; `ClientTypeOK` that the client's request has the token
and that a call fails just with an error.

`LastPollVisible` ties the success timestamp to the outcome of the last poll, and
after a success the duration too. Of the duration after a failure it says nothing,
for code and help text disagree there (section 5).

### Bounds, and why they are enough

- `MaxPolls` bounds the *counting* of polls and errors, not the polls: the
  counters stop at `MaxPolls` and the loops go on. Control never reads a
  counter, so even `MaxPolls = 1`, as in `runner`, has every control behaviour;
  `LastPollVisible` compares numbers, speaks only of those below the bound, and
  is run with 3, in `collector`.
- Two domains show every interaction there is between loops, which share the
  root context and `Run`'s wait group only. The theorems are for any set, and
  `DomainsApart` proves that one domain of many behaves as one alone, which is
  what `collector` and `exporter` have.
- `runner_timed` takes half of the grace as its unit: `PollTimeout = 3`,
  `Grace = 2`, intervals 2 and 4. The code has 15 s, 5 s and configured
  intervals of at least 5 s; what matters is that grace < timeout, and an
  interval on each side of the timeout, with one as short as the grace. Clocks
  stop at the first value past which no property reads. The theorems are for
  any positive values, with no relation between them.
- `exporter` and `exit_grace` have one domain and two connections: one may drain while the
  other is idle, new or stalled.
- `metric_cache` has the nine polls, two resources and two changes of the
  account: enough for a change before, between or after the calls of a poll, for
  a second poll over the first one's series, and for a resource that vanishes
  beside one that stays. Changes while no poll is asking are left out: nobody
  sees them.
- `collector` has the two shapes of a poll that makes more than one call (two
  list calls; a list call and one per resource), with one resource and one
  change of the account: `metric_cache` has the variety, this run the timing.
- `startup` gives at most two settings by flag, variable or both, and the key's
  variable besides: checks look at one setting each, and two settings show which
  error comes first. Values are good ones, bad ones, and those at the floor and
  one millisecond below it.
- `api_client` has all 53 operations, bases with and without path and slash,
  and nine statuses: of each set that the code tells apart at least one, for
  each operation, and a redirect without a `Location`.
- Symmetry is used in `metric_cache` only (resources), whose one temporal property
  (`ServedForward`) is an action property, checked step by step, and says the
  same of every resource.

### Fairness

Each conjunct is weak fairness except two.

- A goroutine that can run does, a timer that is armed fires, and `main` is
  scheduled: the Go runtime gives that.
- `Poll` may hang while its context lives. `Runner` has it return once the
  context is done (`PollAborts`, rather than `PollReturns`). This is not only
  assumed: `collector` derives it from calls that end when their context does
  and code that waits for nothing else, and `api_client` derives that, for each
  operation, from `net/http`'s ending requests and reads whose context is done.
- `SelectDone` is strongly fair. In a domain whose interval is short a tick may
  be ready each time the loop gets to its select after shutdown; Go chooses
  uniformly among ready cases, so the loop takes `ctx.Done()` in the end, with
  probability one. Weak fairness does not give `RunEnds`: TLC then finds the
  loop that polls for ever.
- `DrainTimesOut` is strongly fair: `Shutdown` alternates between looking at the
  connections and waiting, and its context's deadline is reached meanwhile.
- Nothing is assumed of signals, of the API or of clients. `Startup` has no
  liveness property: it is sequential and waits for nothing.

## 4. Theorems

All are for every value of the constants.

**`RunnerProofs`**, from `Spec == Init /\ [][Next]_vars` and
`MaxPolls \in Nat \ {0}`. The inductive invariant is
`RunnerInv == TypeOK /\ MonitorInv /\ GaugesFollowPolls`.

- `MonitorInv` ties the monitor's state to the goroutine's and to the context's:
  the three properties of the monitor are not inductive alone, since whether the
  join is prompt depends on who may have cancelled, and that on where the monitor
  is. From it: `MonitorNeverOutlivesPoll`, `JoinIsPrompt`, `OnlyShutdownForces`.
- `GaugesFollowPolls` says what the gauges hold in *every* state of the poll, for
  `LastPollVisible` speaks of one state only. From it: `GaugesTellLastPoll`.
- `TypeOK` is inductive as it is, its part on the places of a loop included:
  `TypeCorrect`.
- `ImplementsCycle`: `Spec => Cycle!Spec`, one step lemma per action of `Runner`
  that changes the abstract state, and one for those that do not.
- `NothingAfterRun` (`RunLeavesNothing`): `Run` waits for its loops only, not for
  monitors, tickers or deadlines. That none is left follows from `LeftInv` (a
  context lives, and a ticker runs, only while its loop can end it) together with
  `MonitorInv`.
- `DomainsApart`: for each domain `d`, `Spec => Alone(d)!Spec`, where `Alone(d)` is
  `Runner` with `d` for its only domain. A step of `d` is one of `Alone(d)`
  (`AloneOwn`), one of another domain changes nothing there (`AloneOther`), and
  `Run`'s return implies that it could return from `d` alone.

**`RunnerTimedProofs`**, from `TimesAssumption` (positive integers).

- `TimedImplementsRunner`: `TimedSpec => Spec`, so the above holds with time.
- `ClockInv` (of each poll: its age while its context lives, how shutdown, the
  grace timer and the monitor line up) gives `EveryPollIsBounded`,
  `GraceIsBounded`, `GraceIsGranted`. It needs `RunnerInv`.
- `TickerInv` (how much time is left on the ticker, by the state of the loop and
  of its channel) gives `CadenceIsKept` and `LongIntervalsStopInTime`.

**`ExporterProofs`**: `ExporterRunsRunner` (the collector inside the process
behaves as `Runner`: with it `Runner`'s theorems hold in `Exporter`),
`SuccessIsOrderly` (`CleanExit`) and `ExporterTypeCorrect`.

**`MetricCacheProofs`**, from `CacheAssumption` (well-formed polls), for any such
polls, resources and epochs. `CacheTypeCorrect` holds for any number of loops.

- `CacheInv`: while no loop updates the vecs are those of the last successful
  poll; of the loop that does (`Writing`), each series is what `Expected` says:
  still the old one, until its vec is reset; then absent, or blank while its
  gauge is held; then the new one. A loop that does not has nothing left to
  write (`Waiting`). `StaleServe` says nothing of an update, and so is not
  inductive.
- `SerialWritesSuffice`: for any number of loops, `CacheInv` holds as long as no
  two of them update at once (`OneWriter`), and then `StaleServe` and
  `OneGeneration` do. `domain_named_twice` shows that two loops may well; the
  theorem says that nothing else is wrong about them. With one loop (`OneLoop`)
  there is nothing to assume: `StaleIsServed`, `NeverMixed`.
- `EpochInv`: whatever a poll has been answered is of no earlier epoch than all
  the last successful poll found, and details are no older than lists. With
  `CacheInv` it gives `ShowsNothingOlder`, for one loop: of two, the one that
  asked first may write last, even if they take turns.
- `AskedInv`: while a poll updates, each of its list calls has been answered since
  it began. With `EpochInv` it gives `GoesForward` (`ServedForward`): the moment of
  the answers that are served only moves on.
- `PlainAlone`, `PlainThere`: a gauge that is never reset is the only one of its
  name and always there; without them a mix of two polls could not be excluded.

**`CollectorProofs`**, from one domain and `Runner`'s and `MetricCache`'s
assumptions.

- `CollectorRunsRunner`: the collector with its polls in detail is `Runner`, so
  that e.g. `GaugesTellLastPoll` holds of it.
- `TimestampIsOfServed`: `TimestampInv` says where `publishedBy` is between
  `Poll`'s return and the gauge that is set after the join.
- `CollectorRunsCache`: a step of the collector is also one of `MetricCache`
  (`CacheStep`), so that its theorems hold here too. `FamiliesStayWhole` has those
  that speak of single scrapes: under deadlines and shutdowns anywhere no family
  is mixed, nothing is older than what is served, and that goes forward.
- `VecsWholeOutsidePolls`: `StaleIsServed`, and that a `Poll` runs just when its
  loop says so (`InStep`).
- `CollectorTypeCorrect`, from all of these.

**`ConfigProofs`**: lemmas about lists of any length, on which `StartupProofs`
rests. `Keep` is recursive, and the library's induction theorems take a predicate
for a parameter, which no prover here can instantiate. `SetInduction` takes a set
of numbers instead; it follows from the subset ordering of finite sets being
well founded. `KeptExists` and `KeepIs` say that the recursion has a solution and
that `Keep` returns it, `KeepInduction` what holds of it, and from that `KeepType`,
`KeepAll` (when everything is kept) and `KeepPlaces`: what is kept has the length of
what is wanted, and each element that is wanted stands at its rank among those
(`RankStep`, `RankBounds`: ranks begin at 1, and grow by one at each wanted element).

**`StartupProofs`**, from `ChoicesAssumption` and `TogetherAssumption`: any values of
flags and variables, any number of them given, lists of any length.

- `ConfigInv` (past `Parse` the configuration is that of an input that passed
  every check, and nothing has started before) gives `StartsOnlyWhenGood`; with
  `LoopInv` (each loop has one of the two intervals) it gives `TickersNeverPanic`.
- `FlagAlwaysWins` compares two runs of `Parse` and rests on `SameValues`, that the
  variable of a given flag changes no value, and `SameOutcome`, that inputs with
  the same values meet the same end.
- `DomainsInv` says of each phase what `domains` and `loops` are. It rests on
  `AllImplemented` (the names `Parse` knows are those `Build` has a collector for;
  both lists are kept by hand), `BuildsAll`, `NamesKnown`, and `NamesAsAsked`, which
  gets from `NamesPlaced` that a list which passes its check is taken over name by
  name and place by place. From it: `AskedIsPolled`, `TiersKeepCadence` and, with the
  lemmas on `Keep`'s type, `StartTypeCorrect`.

**`ApiClientProofs`**, from `ClientAssumption` (bases are paths, statuses numbers
from 200 to 599).

- `RequestsAre`, `OperationsAre`, `PollsAsk` and `PolledAre` say what the table of 53
  operations and those of the nine polls have in common: a poll's are GETs with
  one typed field, that of a 200.
- `CallInv` ties the place of the call to its body, its field and its verdict:
  `AnswerIsGenuine` alone is not inductive, because what makes an answer genuine
  is decided in `Parse` and only looked at in `Poll`. From it:
  `OnlyGenuineAnswers`, `BodiesAreClosed` and `ClientImplementsCall`.
- `SentInv` (something has been sent where `Do` runs, under the base unless it was
  redirected, and a poll's is a GET without a body) is inductive together with
  `ClientTypeOK`: `SentIs` says what is sent, `RedirectIs` what a redirect makes of
  it. It gives `RequestsUnderBase` and `PollsNeverWrite`, and with `CallInv`
  `ClientTypeCorrect`.
- `RequestsUnderBase` rests on `ResolveUnderBase`, that nothing is replaced in a
base which ends in a slash, for any path of an operation.

Every invariant that a run checks is a theorem, and so are the action properties.
Only model-checked is what needs fairness, which is out of TLAPS's reach:
`PollsEnd`, `PollsForever`, `RunEnds`, `ProcessEnds`, and the fairness parts of
`ImplementsPollCycle`, `ImplementsRunner` and `ImplementsApiCall`, whose safety
parts are `ImplementsCycle`, `CollectorRunsRunner` and `ClientImplementsCall`.

## 5. What the checks say about the code

- `poll` is right about its monitor: no leak, no wait, no early or late cancel.
- A loop stops within one grace of shutdown **if its interval exceeds
  `pollTimeout`** (15 s). The configuration accepts 5 s. With an interval of at
  most 15 s a tick may wait in the channel after each poll, so that the loop may
  start more polls after shutdown, each with a grace of its own; only the
  uniform choice of select ends it. `StopsWithinGrace` is about the long intervals
  and tight: with the interval equal to `pollTimeout` TLC violates it. Of the
  short ones there is `RunEnds`, which has no bound in time, `Cadence`, and
  `late_tick` for the polls that begin late.
- Between polls the success timestamp tells whether the last poll succeeded. The
  duration gauge does not: after a failure it holds an earlier poll's
  (`domain.go:111-114` returns before line 118), so that of a domain whose polls
  time out it goes on showing a short one. This disagrees with its help text,
  "Wall-clock duration of the last poll" (`internal/metrics/self.go:23`), and with
  the plan's list of metrics, "last poll's wall time"
  (`plans/0001-v1-exporter.md:172`), while the plan's section on errors has it set on
  success (lines 195-196). It takes no interleaving to see, so it has no run of
  its own; `LastPollVisible` takes neither side.
- `main` reports success only for an orderly end. If the server fails and a
  signal comes, select may see the signal, and the process then exits 0: it was
  told to stop. A second signal during the drain has no effect (`stop` is
  deferred).
- With one loop per domain the cache keeps its promises between polls; during a
  poll's write phase scrapes can see it torn.
- What is wrong with a domain named twice is that its two loops write at the same
  time. A lock around the writes would restore `StaleServe` and `OneGeneration`
  (`SerialWritesSuffice`), though not the order of what is served.
- When `Run` returns nothing of it is left: no monitor, no ticker, no context
  whose deadline is still to come. No domain waits for another, or can tell that
  there is one.
- Wherever a deadline or a forced cancel meets a poll, the vecs are left whole:
  a poll looks at its context in its calls only, and these come first.
- A scrape between `WithLabelValues` and `Set` shows a new series at 0, an info
  metric's too; `torn_scrape` covers it.
- No truncated body, proxy page, problem or undocumented status is taken for an
  answer. JSON of another shape with status 200 is: it decodes into an empty
  list, and the poll then removes the domain's series. So is what a redirect leads
  to, if it is such a 200. The model has such a body
  (`"void"`) and the same outcome; no document says what should happen.
- Nothing below `Poll` bounds a request. The deadline of `domain.go:82` is all
  there is, and it is enough.
- A refused `Retry-After` or a broken problem document hides the status.
- `runpod_pod_up` is 1 for a `RUNNING` pod only (`pod.go:43-46`); its help text
  ("1 if the pod exists, 0 otherwise") reads otherwise. Values are not modelled,
  so no run shows it.

## 6. Findings

Each is a run that must fail, and quotes the line it refutes in `PROJECT.json`.

| Run | The code | What is said |
|---|---|---|
| `late_tick` | a tick may start a poll after shutdown (`domain.go:68`) | plan 0001, line 234: "stop accepting new ticks" |
| `exit_grace` | `main` does not wait for `Run` (`main.go:54`) | plan 0001, line 238: a running poll is left to finish |
| `torn_scrape` | vecs are reset and refilled in place (`pod.go:32`) | plan 0001, lines 69-71: the last good values keep being served until the next successful poll (said of failed polls; a scrape during the next one may find neither) |
| `domain_named_twice` | a domain named twice has two loops (`config.go:128`) | plan 0001, line 75: vanished resources disappear |
| `status_lost` | a decoding error comes without the response's status (`client_gen.go:21858`) | plan 0001, lines 202-204: an error includes the status code |

## 7. Not modelled

- **Metric descriptors** (`internal/metrics`): declarations without behaviour.
  The self-observability gauges are variables of `Runner`, the names of the
  rest are in `DomainPolls`.
- **The rest of the generated client**: schema types and their unions, the
  accessors of the response types (`Status`, `Body`, `ContentType`), and the
  text of query parameters. The collector uses the parsed 200s only. Ids that are
  empty, `.` or `..`.
- **The values of metrics**: which field of an answer a gauge gets. A value is
  the age of its data.
- **Lists inside a resource** have one element (a pod's GPUs, a GPU's data
  centers): their loops are inside one resource's.
- **Dashboards, deployment and CI files**: configuration of other programs.

## 8. Plan

Done, in this order: `Runner`, `PollCycle`/`RunnerCycle`, `RunnerProofs`,
`RunnerTimed` and its proofs, `Exporter` and its proofs, `MetricCache` and
`DomainPolls`, `ApiOperations`/`ApiClient`/`ApiCall` and their proofs,
`Config`/`Startup` and their proofs, `Collector`, `MetricCacheProofs`,
`CollectorProofs`, `ConfigProofs`.

To do:

1. `ApiClient` inside `MetricCache`: that a call of a `Poll` is answered or fails
   as `ApiCall` says is used in words, and could be a refinement.
2. `Collector` for several domains. `DomainsApart` says that their loops do not
   affect each other and `VecsApart` that their vecs do not; the composition of
   several whole domains is not a module, for its vecs would be a function of
   domains, and TLC cannot assign to one through an instance with a parameter.
