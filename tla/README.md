# N-SLMCRS: a verification development in TLA+

N-SLMCRS is a gateway in front of an LLM API that is paid for with many keys. A
Go process takes requests, calls several upstream keys at once and answers with
the first success; a Rust sidecar (`kernel-rs`) decides which keys may be called.
Around the dispatch the gateway keeps settings, keys, a model catalogue, a log,
backups and an Auto-Pilot that tunes it. This directory holds models of all parts
that decide or keep state, the configurations TLC checks them with, and proofs,
which TLAPS checks, that every safety property of them holds for all values of
their constants. Paths below are relative to `src/`.

## 1. The system

### Components, their state and operations

| component | state | operations |
|---|---|---|
| kernel control plane (`kernel-rs/src/{reserve,report,state,store}.rs`) | per key: breaker (`key_brk`), bucket, health window, in memory; table `key_breakers` of kernel.db | `POST /reserve` (promote expired keys, filter, select, pay), `POST /report` (count, open, close, calibrate, save), start-up |
| kernel strategy endpoint (`main.rs`, `strategy.rs`) | `active` strategy, table `meta`, `rr_counter` | `GET /strategy`, `PUT /strategy` |
| kernel pure endpoints (`compute.rs`) | none | `/verdict`, `/circuit-check`, `/weighted-score`, `/availability`, `/forecast` |
| scheduler (`internal/scheduler`) | configuration, strategy mirror, per-key in-flight counts | `DispatchCap`, `DispatchStream`: select, race, feed back; `UpdateConfig`, `SetStrategy` |
| rate limiting (`internal/ratelimit`) | token buckets, consecutive failures, health windows of a gateway without sidecar | `Allow`, `HasAdmission`, `Calibrate`, `Register`; `Record`, `ResetConsecutive` |
| in-flight gauge (`internal/inflight`) | one counter | `Inc`, `Dec` |
| kernel client (`internal/kernelctl`) | address, `failClosed` | one method per endpoint, `ok=false` if it got no answer |
| key store (`internal/data/keys.go`) | table `upstream_keys` | list, status update, add, import, disable, delete |
| model circuit (`internal/data/model_circuit.go`) | table `model_circuit` | record a failure, clear, reset, gate, hidden list |
| sweeper (`internal/modelhealth`) | `running` flag, configuration | `SweepAll`: probe every model, judge it, write its circuit |
| entry (`internal/entry`), protocols (`internal/protocol`) | none | one handler per protocol: read, normalise, look the model up, gate on its circuit, translate, dispatch, translate back |
| model catalogue (`internal/modelmeta`, `internal/data/models.go`) | table `models` | synchronise with the upstream's list, look a model up |
| prober (`internal/modelmeta/probe.go`) | tables `model_probes`, `model_probe_history` | sweep, test one model |
| Auto-Pilot (`internal/autopilot`) | mode, engine, overrides, engine memory, pending suggestions | tick: snapshot, decide, execute; approve, reject |
| agent (`internal/agent`) | one run's transcript | loop: ask the model, run its tools |
| administration (`internal/admin`) | table `settings` | settings, strategy, and the handlers of the other parts |
| logging (`internal/logging`, `internal/data/logs.go`) | channel, batch, timer, table `app_logs` | log, flush, close, prune, page |
| backup (`internal/backup`) | a directory | snapshot, rotate, delete |
| configuration and start-up (`internal/config`, `cmd/gateway`) | environment | load, validate, register keys, load overrides |
| hooks, metrics, upstream client, web interface | webhook configuration, counters | events, sums, HTTP exchange, pages |

### Interactions

A request runs in a goroutine of its own: entry asks the model's circuit, the
scheduler lists `upstream_keys` and asks the sidecar (`/reserve`) or selects by
itself, calls the keys, receives results one by one, feeds each into the model's
circuit, and at the end reports the batch (`/report`) or looks at its own failure
counts. The sidecar's answers carry the breakers that changed, which the gateway
echoes into `upstream_keys`. The sweeper and administrators write the same
circuits; Auto-Pilot and administrators change limits and rows while requests
run. There is no lock around a request, and no transaction around a read and the
write that depends on it.

Deployments differ in who decides: no sidecar (the gateway's own counts, buckets
and rows); a sidecar with `KERNEL_FAIL_CLOSED=0`, where an unanswered `/reserve`
makes the gateway select for itself (*fail-open*); and with `=1`, where it
refuses (*fail-closed*).

### What is hard

Interleavings of requests between listing, judging and writing a row; outcomes
that arrive after the breaker changed; restarts that keep rows and lose buckets;
row writes that fail silently; locks taken in two orders; two implementations of
one decision that must agree; a sidecar that answers one call and not the next.
`PROJECT.json` lists these hazards at the lines where they bite, each with the
properties that watch it or the reason why none does yet.

### What makes each part correct

- *Control plane*: no call on a cooling key; one trial per round; nobody pays
  for a call that is not made; disk follows memory; every open key gets a trial;
  no two handlers block each other.
- *Scheduler*: every request ends and gives back what it took; fail-closed means
  no call without a reservation; an expired row is put on trial.
- *Model circuit*: list and gate agree; both verdicts agree; permanence is lifted
  by an administrator only; other circuits serve again; one sweep at a time.
- *Settings*: what was set is what a restart brings back, if it can read it; no
  mixture of rows, patches and environments gives a configuration that cannot serve.
- *Auto-Pilot*: a suggestion is settled once; low success lowers the concurrency, and
  so does throttling close to capacity (neither always does).
- *Log*: a line that was taken in is written, once, in order, at the latest by
  `Close`; a reader of pages misses none.
- *Backups, probes, keys*: the newest snapshots survive overlapping rotations; a
  model's row is the newest probe of its history unless pings of it overlapped; a
  key's bucket has the rate of its key, or the default rate where no start gave it one.
- *Entry, catalogue, agent*: a refusal has a reason, a forwarded request had
  passed its gates, nothing of a conversation is lost in translation, and every
  tool call is answered.

## 2. The modules

| module | role |
|---|---|
| `Breaker` | abstract specification: what a per-key circuit breaker with a log promises |
| `Kernel` | the control plane: breakers, buckets, rows, `/reserve`, `/report`, restart, time |
| `KernelLocks` | the sidecar's locks: each handler as a program of lock, unlock and effect steps |
| `Dispatch` | the scheduler: requests in the three deployments, rows, counts, buckets, gauge |
| `ModelCircuit` | the row of one model and the parties that read and write it back |
| `Entry` (extends `Catalogue`) | a request through each handler, while catalogue and circuits change |
| `Console` | settings and strategy: environment, memory and rows, PUTs row by row, starts |
| `AutoPilot` | the loop, its modes, suggestions and their handlers |
| `Adaptive` | the engines' arithmetic, overrides against limits |
| `Agent` | the language model's loop and transcript |
| `Journal` | channel, drain goroutine, timer, `Close`, retention, paging |
| `Backups`, `Probes`, `Keyring` | snapshots and rotation; probes and their history; keys and buckets |
| `Listing` | lists in an order, and loops that take some elements of a list: used by five of the above |
| `MC...` | constants for TLC; `MCGateway` puts the components from `Entry` on side by side |
| `KernelProofs`, `KernelLocksProofs`, `DispatchProofs`, `ModelCircuitProofs` | theorems about the module of that name |
| `RecordsProofs` | theorems about `Journal`, `Probes`, `Backups` and `Keyring` |
| `SettingsProofs` | theorems about `Console`, `AutoPilot` and `Adaptive` |
| `GatewayProofs` | theorems about `Entry` and `Agent`, and about the composition `MCGateway` |
| `Lemmas` | lemmas the last five share: doublings, listings, thinned lists, finite sums |

`PROJECT.json` maps each definition to the lines it stands for. Definitions under
a comment that starts with "Mutant:" are not part of the model: each is a bug one
could plausibly write, and shows that a property can fail.

### Kernel

`brk`, `saved`, `cap`, `tok` are `key_brk`, table `key_breakers` and the buckets;
`lost` remembers keys whose last row write failed; `out` and `stray` count the
gateway's unsettled calls, reserved or made on its own. One action is one handler
run: it holds the store mutex from its first read of this state to its last
write, which `KernelLocks` justifies. The clock is read *before* the locks, so
`Reserve` takes a `lag`. Time is relative: a breaker holds the seconds its
cooling has left, and `Tick` is one second; `Past` stands for any time that no
delayed request can mistake for the future. Buckets are counted in 1/`Minute` of
a token, which makes the refill exact. Scores, in-flight counts and the rotation
only order viable candidates: any selection of the right size is possible.
`Save` lets any row write fail when `DiskFails`. Left out: the audit table
`sub_decisions`, health windows (they feed scores only), and the gateway's
numbers in the request (threshold, base cooling, rpm), which are constants.

`Breaker` has per key a phase, the phase a restart would load, and the number of
calls whose outcome is unknown. `ImplementsBreaker` maps `Kernel` to it. It is
more than a renaming: it says that a key goes from open to half open only in a
reservation that names it, from half open to active only on a success, that a
success never closes an open key, that no reservation hands out an open key,
and that a crash brings back the kept phase. That trials are handed out one at a
time is a promise about one step of this implementation, and is stated apart, as
`OneTrialPerRound`.

### KernelLocks

A handler is a sequence of `Take`, `Drop` and `Run` steps, translated from the
scopes of its guards. Locks behave as std's: a mutex, and a reader-writer lock
whose readers wait for waiting writers, so that a second `read` behind a writer
can block. The data is the smallest that can tell a bad interleaving: one bucket
and the order in which breakers and rows change. `Restart` kills all requests
under way. Deadlock is excluded twice: `SomeHandlerGoesOn` says of every state
that not all requests under way are blocked in `lock()`, and
`EveryRequestIsAnswered` says under fairness that each of them ends.

### Dispatch

One record per running request holds the locals of `DispatchCap` and
`DispatchStream` (`seen`: the listed rows; `keys`, `waiting`, `trial`, `won`,
`lost`, `granted`), and its `stage` is where it is between two accesses to shared
state. `row`, `consec`, `tokens` and `gauge` are `upstream_keys`,
`HealthTracker.consecutiveFail`, the buckets and the in-flight gauge. The sidecar
is an environment: it reserves any candidates, says of any of them that they
changed, or does not answer. `WritesMayFail` lets a row write be lost where the
code logs the error and goes on. `unpaid` and `failing` are history variables for
two properties.

### ModelCircuit

Requests, sweeps and resets are processes that read the row (`seen`), and later
write back what they made of it, or fail to. The gateway's verdict
(`applyVerdict`) and the sidecar's (`/verdict`) are both translated, doubling
loops included, and a sweep may use either. Counters stop at their threshold,
beyond which nothing depends on them; that no recorded cooling exceeds the limit of the
back-off or a request's own cooling (`Coolings`) is part of `TypeOK`. Rows of different
models do not interact.

### Entry and Catalogue

`Catalogue` has table `models`, synchronisations (`SyncOnce` of the ticker and of
administrators, which may overlap) and the set of models whose circuit refuses;
`ModelCircuit` says how a circuit gets there, here it may turn at any time. `Entry`
follows one request at a time, which is enough because requests do not write what
`Entry` reads. `at` is the handler's place between two statements. A text is a
sequence of blocks, a name a model, an alias or another string. The order look-up,
circuit, translation, dispatch and which handlers skip which of them are the
code's: `/v1/completions` asks neither, embeddings and ranking do not look up, and
where a struct cannot decode their body the model's name is empty (`CheckedModel`):
the circuit is not asked, and the body, which may name a model, is forwarded as it is.
`ForwardedModelsWereOpen` makes no promise to these requests.
`Body` stands for both conversions to OpenAI's form and for the normalisation of
chat bodies. `IsRequest` says what clients send: turns in the roles that their protocol
has (`RolesOf`). A client that invents roles gets them forwarded by `/v1/messages` as
they are; `ConversationSurvives` promises nothing to it. `seen` collects, as history, what held of the request's model in some
state while the handler ran: no promise is possible about one moment, since nothing
is locked. `RefusalsAreFounded` is relative to the lists the gateway *received*:
the client does not look at the HTTP status of `/models`, so that an error whose
body is JSON counts as an empty list and makes every model gone.

### Console

A field lives in the environment, in memory and, once changed, in a row.
The rows a handler still has to write are a function `put[a]` from fields to values,
written in the order `SavingOrder`. `PutSettings` and `PutStrategy` are the handlers up
to their first row, `WriteRow` and `WriteFails` the rest; `GatewayStarts` may come between any two rows, with any
environment. A start reads the rows one by one and takes a row that it cannot read for
one that is missing, so that `GatewayStarts` loads any part of the table. `SavedIsReloaded`
is about memory as long as the last start read everything (`faithful`);
`ConfigurationIsUsable` holds after any start.
Zero stands for what the code takes as missing or invalid.
`ConfigurationIsUsable` allows a zero threshold, cooling or timeout only where the
environment says so: `validate` looks at the concurrency alone. The settings of the
webhook are saved by their page but never loaded at a start.

### AutoPilot, Adaptive and Agent

`AutoPilot` has the loop (`tick`), the mode and its row, suggestions (numbered as
they are written) and handlers of administrators, each statement an action.
`contested` is the history of suggestions that two handlers had in hand or whose
row could not be deleted: the code executes those twice, and
`SuggestionsAreSettledOnce` says that these are all. `Adaptive` computes what the
three engines and the model's tools ask for, in thousandths, from snapshots with
the shape the controller takes them; the forecast's demand is an input. It has two ideas
of the concurrency in force, the controller's (`Current`, from the limits of the start)
and the scheduler's (`EffectiveConcurrency`, from those of the last `PUT /settings`).
That an override is within the limits in force is true by the clamp alone and not a
property here; what the difference does is `ThrottlingLowers` (section 3).
`Agent` is `LLMEngine.Decide` with a model behind it, whose failure drops the
actions noted so far.

### Journal, Backups, Probes, Keyring

`Journal` follows single lines: a writer passes the level check under the logger's
lock and sends later, without it, so that it may send to a logger that is closing
or closed. Lines lost at a full channel are legal; `wasted` is the history of
those whose batch failed or died with the process. Pages are a reader's who uses
the last row as the cursor, as `loadMore` does. (The console's page also fetches
its newest rows again every ten seconds and shows them above the older ones it has
loaded: rows between the two are then not shown.) A second `Close` would panic;
`main` calls it once. `Backups` has the directory, the calls of `BackupOnce` under
way and the lists their rotations work on. A `VACUUM INTO` that fails or that a crash
cuts off may leave its unfinished file, which counts in the rotation like any other;
`NewestAreKept` speaks of names and dates, not of what is in the files. `Probes` has
sweeps and tests with one ping each under way. The row is written when a ping ends, the
history is ordered by when it began (`ts`); `overtaken` is the history of pings during
which another of the same model began. Unless the row's ping was one of these it is the
newest of the detail page (`RowIsNewestUnlessOvertaken`). `Keyring` has the table with
its id counter and the registry of buckets, of which a bucket is its rate. A start that
cannot read the table logs that and serves all keys at the default rate; `registered`
is the history of keys whose own rate the last start did set.

## 3. The runs

| run | question | bounds |
|---|---|---|
| `kernel` | may this call be made, and what does it cost? | 2 keys, 2 presets, threshold 2, cooling 1 to 2 s, 2 calls per key, lag 1 s |
| `kernel_key` | one key in depth: state invariants, recovery, refinement | threshold 3, cooling 1 to 3 s, 4 calls, 6 failures, 2 ticks a minute, calls without reservation |
| `locks` | deadlock (in each state and under fairness), last token, order of rows | 2 `/reserve`, 1 `/report`, 1 PUT, 1 GET, 1 token |
| `dispatch` | gauge, fail-closed, bucket limits | 2 keys called at once, a plain and a streamed request, threshold 1, lost writes |
| `dispatch_live` | do requests end, do rows recover? | 1 key, 2 requests, threshold 2, fan-out 1, lost writes |
| `model_circuit` | flag, list against gate, verdicts, permanence, recovery | 1 request, 2 sweeps, 1 reset, 3 bad sweeps to permanent, cooling 2 to 3 s |
| `gateway` | the nine components around the dispatch | below |

Why these are enough. Keys interact in two ways only: the single trial of a round
and the size of a selection; two keys show both. Races in `Kernel` are between
outcomes of calls made in different phases of one key: with threshold 3 and four
calls out, a key can trip, be promoted and trip again while calls from before are
still out. The coolings are chosen so that doubling and the cap both happen, the
lag so that a delayed clock crosses an expiry. `guardian` and `balanced` are the
presets that differ in what `Kernel` reads (fan-out and headroom). In `locks`,
two reservations meet at the last token, and every pair of lock orders occurs;
PUT is there because it is the handler without one lock around it, GET because
its second `read` can wait behind a writer. In `dispatch` two requests are enough
for every read-write conflict on a row, and a stream and a plain request differ in
which steps they have. In `model_circuit` one process of a kind is enough for the
races of two kinds; two sweeps are needed for the flag. Every bound on a counter
(`MaxCalls`, `MaxConsec`, `MaxLag`) is a constant of its module and sits in a
guard. `CHECK_DEADLOCK FALSE` is said where the modelled part may come to rest:
bounded counters, or all requests answered (in `locks`, deadlock of the handlers
is what `SomeHandlerGoesOn` excludes).

The run `gateway`. Its components share no variables (what they have in common is
an environment's choice in each), so the state space of their composition would be
a product that shows nothing new. `MCGateway` therefore lets `Init` choose one of
them (`part`), and in that behaviour only this one moves: the reachable states are
the sum of the components' own, every property of a component is checked on all of
its behaviours, and a property of one part holds in the others' states because it
holds in the initial one. Fairness is the journal's own, while the journal runs.
Bounds: one writer of three lines against a channel of two and batches of two, so
that the channel overflows, a batch fills and a batch waits for the timer; two
backups under way, three seconds, retention one, so that rotations overlap within
one second and across two; two administrators, two environments, two partial
patches and two presets, of which one environment lacks a timeout and one patch is
only consistent with some configurations; two keys with rates of nothing, 0.4 %,
40 % and 100 %, two ticks and three sets of limits; two operators and one
suggestion, since suggestions do not interact; two models, two synchronisations and
nine requests, one to three for each protocol and shape of body; two chat models,
two probers, four pings; two key values in four ids, with imports that contain
invalid, repeated and present values; agents of three steps and up to two calls in
one. The code's capacities (1024, 100, 200, 6) only make these cases rarer.

Five runs end in a counterexample, because documents or comments of the
repository say what the code does not do. They are `findings` in `PROJECT.json`,
with the quotations:

- `kernel_trial`: a failed trial does not re-open its key, Threshold of them do;
- `adaptive_backoff`: the engine takes a percentage for a fraction and raises the
  concurrency when few requests succeed. The test of the engine passes because it
  builds its snapshots by hand; with `MeasuredAsFraction` in place of `Measured`,
  TLC finds no violation on the same instance;
- `dispatch_limit`: the fail-open path takes no tokens;
- `dispatch_timeout`: without a sidecar timeouts never open a key;
- `model_permanent`: a stale write lifts a permanent circuit.

None of them is a matter of fairness: all are invariants or action properties.

Three smaller disagreements are kept as configurations that end in a counterexample and
are not listed as runs:

- `MCKernelLocksPuts.cfg`: two concurrent `PUT /strategy` of the sidecar leave memory and
  table `meta` different. `ActiveStrategyIsPersisted` states what main.rs:119 promises; it
  takes two PUTs to refute (`TwoPutsKind`), and with the one PUT of `MCKernelLocks.cfg`
  it holds;
- `MCAdaptiveLimits.cfg`: after an administrator lowered the scheduler's default from 3
  to 1, the controller throttles from its own three to two, and so raises the concurrency
  close to capacity (`ThrottlingLowers`; forecast.go:117 and 128 say that it is lowered);
- `MCProbes.cfg`: a slow ping that ends after a later one leaves its older result in the
  row, which data/probes.go:16 calls the most recent (`RowIsMostRecent`).

### Fairness, and why the code justifies it

- `Kernel`: time passes; requests keep naming every key (the gateway sends all its
  enabled keys that are not cooling with each request); a call under way is
  reported or forgotten (each runs under the dispatch timeout). `OpenKeysGetATrial`
  also assumes that unreserved calls end for good: a gateway that keeps calling an
  open key on its own can keep it open, as TLC shows without that premise.
- `KernelLocks`: a thread that can run does run, and a lock that stays free is
  handed to the thread that waits for it. No strong fairness.
- `Dispatch`: goroutines run, calls end by their timeout, handlers close their
  streams. For recovery also strong fairness of listing the rows and of writing
  the promotion: each may fail any number of times, not every time.
- `ModelCircuit`: a request that read writes or gives up, comes to the last of its
  calls, and a sweep ends. That requests, sweeps or resets *start* is not assumed.
  `OpenModelsServeAgain` has premises on the sweeps (they stop) and on admission
  (through the gate): an open circuit can be re-opened by every sweep, and by
  playground requests, which do not ask the gate.
- `Journal`: the drain goroutine runs, its timer expires, and `select`, which draws
  among its ready cases at random, does not pass one over for ever. Nothing makes
  callers log, the process stop or anyone read.

## 4. What is proved

Every safety invariant and every action property that a passing run checks is a
theorem: it holds for all sets of keys, requests, models, administrators and so on,
and for all thresholds, sizes and bounds that satisfy the `...Assumption` of its
module. TLC's part is to have found out first that the formulas hold (it
checked each inductive invariant, on the constants of the module's run, before it was
proved; those of the gateway's nine components together, on the constants of `MCGateway.cfg` and with two writers of two lines and
two suggestions), and liveness. `PROJECT.json` lists the theorems one by one.

| module | inductive invariant | theorems about properties |
|---|---|---|
| `KernelProofs` | `IInv` | `TypeCorrect`, `ServingKeysHealthy`, `DiskCorrect`, `CoolingKept`, `CoolingKeysAreLeftAlone`, `TrialsAreSingle`, `UnselectedKeysKeepTokens`, `Implementation` (`Spec => Contract!BreakerSpec`) |
| `KernelLocksProofs` | `IInv` | `TypeCorrect`, `NoDeadlock`, `CallsArePaid`, `RowsInOrder` |
| `DispatchProofs` | `IInv` | `TypeCorrect`, `GaugeIsExact`, `OnlyGrantedCalls` |
| `ModelCircuitProofs` | `IInv` | `TypeCorrect`, `SweepsExclude`, `HiddenAsRefused`, `SameVerdict`, `LiftedKnowingly` |
| `RecordsProofs` | `JournalInv`, `ReaderInv`, `ProbesInv`, `BackupsInv`, `KeyringInv` | `JournalTypes`, `RowsInOrderOfCallers`, `CloseKeepsItsPromise`, `PagesAreComplete`, `RowsAreNewest`, `RotationKeepsNewest`, `KeysHaveTheirOwnBuckets` |
| `SettingsProofs` | `SavedInv`, `PilotInv`, `AdaptiveInv` | `ConfigurationStaysUsable`, `RestartsBringBack`, `SettledOnce` |
| `GatewayProofs` | `EntryInv`, `AgentInv`, `GatewayInv` | `RefusedForAReason`, `ForwardedIfOpen`, `ConversationsSurvive`, `TranscriptsAreWellFormed`, `GatewayIsItsParts`, `TypesCorrect`, `GatewayIsSafe` |

The type invariant of `KernelLocks` is only proved: no run repeats it. Only model-checked: the liveness properties `OpenKeysGetATrial`,
`EveryRequestIsAnswered`, `RequestsEnd`, `OpenRowsGetATrial`, `OpenModelsServeAgain`
and `TakenLinesAreWritten` (fairness and ENABLED are beyond this prover), and of course
the properties that do not hold.

All proofs have the same layout: lemmas about the operators, one lemma per action
(or group of actions) for the inductive invariant, under it one step per conjunct that
the action can disturb, then the theorems.

### The arguments

*Kernel.* `ServingKeysAreHealthy` is not inductive: a restart replaces memory
by the rows, so the rows must be healthy too, and they are because a row is only
written in the step in which the status changes, from the breaker that the step
produced. `PromisedCoolingKept` is not inductive either: `Fail` on an open key sets
a new cooling in memory and writes no row, so that the promise in the row must be
shown to be no longer than any cooling that can replace it. It is: a row is written
when the status changes, which for a trip is at the first failure that reaches the
threshold, so no row has more left than `Longest(0)`, and `CooldownBounds` says that
every later cooling is at least that. Both facts are `RowsAreSound`, and `IInv` is the
conjunction of `TypeOK`, `ServingKeysAreHealthy`, `RowsAreSound`, `DiskTracksMemory`
and `PromisedCoolingKept`. That a bucket never goes below zero rests on
`AdmissionLeavesAToken`: an admitted bucket has a whole token above its reserved floor,
and the floor is not negative because the headroom of every preset is at most 100.
The action properties follow from `IInv` and the definitions of `Passed` and
`Selections`; for `OnlyCallsArePaid`, `ReservationPays` and `ReportTightens` say who
can lower a bucket. For the refinement each action of `Kernel` is mapped to one of
`Breaker`, or to a stutter: `Reserve` to `Admit`, `Report` to `Learn`, `Bypass`,
`Forget` to their namesakes, `Restart` to `Crash`, and `Tick` to nothing.

*KernelLocks.* The programs are data, so a handler's guards are a function of its
place: `GuardsFollow` says that it holds `HeldAt(Program(r), pc[r])`, and `HeldAfter`
how one step changes that. With `WritersExclude` this gives mutual exclusion, and
`CriticalSections` says which effects run under which guard: `peek` and `consume`
under one hold of the buckets (`TokenIsThere`), `change` and `save` under one hold of
the store (`RowsPending`: at most one change is not on disk). `NoDeadlock` needs one
more fact about the programs, `TakesUnderTheStore`: a handler that takes a lock holds
nothing, or holds the store and not the lock it takes. If all requests under way were
blocked, then only the holder of the store could hold anything; the lock that this one
waits for is free, so it would be a reader behind a waiting writer, and that writer
can go on. The opposite orders of `/reserve` and `/report` do not matter, nor does the
number of requests.

*Dispatch.* The three invariants of the run are inductive together once the type
invariant bounds the failure counts (`0..MaxConsec`): it did not, and the domain of the
doublings in `Cooldown` was not known to be respected. The gauge is the cardinality of
the set of requests under way, which must be finite (`DispatchAssumption` says so).

*ModelCircuit.* That a hidden model is refused needs the flag to follow the state in
the table *and in every copy that may yet be written back* (`RowsAreSound`), which in
turn needs a request never to record a failure on a copy that was permanent
(`RecordsWhatMayTrip`). `SameVerdict` compares the two implementations for every row
and rate: `RoundsOfKernel` and `RoundsOfGo` give the doublings of the two loops,
`CoolingsAgree` shows that stopping at the limit and cutting off at the end come to the
same. The proof found an ambiguity of the model: a `CASE` of the sidecar's verdict had
two arms that both held for a permanent row, and TLC had silently taken the first; it
is an `IF` now, as the code is.

*Journal.* The lines of one goroutine are in order over the concatenation of table,
batch and channel (`InPipeline`), which TLC could have said of rows alone;
`OwedIsFollowed` follows what `Close` promised through the same places. The reader's
invariant is `ShownOrToCome`: what it should still see is older than the last row it
was shown. A page is a `Listed` set of rows, newest first.

*Backups.* `NewestAreKept` is about files that are gone; what keeps it is about files
about to go: each file in a rotation's list has been outlived by `Keep` newer ones
(`MayRemove`), and stays so because stamps only grow, although the list is stale.
*Probes*: a probe under way is in no history but its own model's (`OnItsWay`), and it
is newer than all that is in there, and than all others of the model under way, or it has been overtaken (`Ahead`).
*Keyring*: ids above the counter have neither row nor bucket.

*Console.* While requests come one by one, memory is what a start would make of the
table *with the rows that are still to be written* (`SavedInv`), if the last start read
all of it; `Reloading` also says
that an environment which cannot be used keeps all overrides out, because `UpdateConfig`
refuses every patch then. *AutoPilot*: a suggestion that nobody contested is in at most
one handler's hands, and has been carried out only if that handler is about to delete
it (`Settling`). *Adaptive*: the arithmetic of the three engines is total and their
overrides never exceed the maximum that the controller was given.

*Entry.* `Sound` says for each place of the handler what must have been seen of the
request's model to get there. *Agent*: `Answered` and `Told`, for a transcript that
grows by a whole answer with all its observations at once.

*The composition.* `GatewayIsItsParts`: a behaviour of `MCGateway` is one of each
component's specification, since a step of one leaves the others' variables alone.
With it each component's theorem is one about the composition, and `GatewayIsSafe` is
their conjunction. `Journal`'s theorems are stated for `JournalSteps`, its
specification without fairness, which is what the composition implies of it.

### What the prover needed of the models

A recursive function (a sum, a doubling) is a CHOOSE of a function that satisfies its
equation; that there is one is proved in `Lemmas` without induction over operators, by
taking a least counterexample (`LeastNat`, and the finite-set theorems of the library
for sums). `SetToSortSeq`, `SelectSeq` and `MapThenSumSet` have no definition a proof
can use; `Listing` and a recursive function replace them, with the lemmas
`ListedIsListing` (a list has each element once and in order), `ThinnedIsThinned`,
`ThinnedOfAll` and `SummedIsNumber`. The assumptions on constants say what the code
gives: a key's value and a model's name are not empty (the handlers trim and refuse
them), a key without a rate of its own has 0, batches and answers are lists, clients
send their protocol's roles.

## 5. What is not modelled, and why

- Candidate orderings and their scores: floats and random numbers. Any order is
  possible in the models, so that no property depends on one.
- Health windows: they feed scores and displays only.
- HTTP, SQL, web pages: no decisions. A failed exchange or statement is an outcome
  of the action that makes it. Of the conversions, what is kept of a conversation
  and of the model's name is in `Entry`; usage numbers, stop reasons, streaming
  events and tool definitions are text.
- Metrics and hooks: counters that nothing decides on, and webhooks that are sent
  once without retry, from a configuration that is read and written without
  synchronisation.
- Login, client credentials and channels: single statements on single rows. The
  limits stored with a credential (`rpm_limit`, `allowed_models`) are read by no
  code that admits a request, so there is no behaviour to model.
- Enrichment and classification of models: text processing for display.
- The forecast itself (Holt-Winters): floats; its result is an input of `Adaptive`.
- Parameters that change while a dispatch is under way: `Console` and `Adaptive`
  say which values they can have, `Dispatch` runs with constants; `Kernel` lets each
  reservation read any preset.
- Kernel and `upstream_keys` in one module: the echo of a breaker is an environment's
  choice in `Dispatch`. A row whose echo was lost is repaired by no code, so that the
  convergence one would like to state does not hold.

Observations made on the way, which no run states: the gateway suggests as a
replacement for a stale model one whose circuit may be open; the adaptive engine
lowers a key's weight and never raises it again; `loadPersisted` writes the mode
back through `SetMode` although its comment says it does not.

## 6. Plan

Done: all modules of section 2, and a theorem for each safety property. What is left:

1. Refinements: `KernelLocks` against a sidecar whose handlers are atomic (the order
   of the store's holders as the order of the steps), which is what `Kernel` assumes
   of it; `Journal` against an abstract queue, `Backups` against an abstract shelf.
2. Mutual exclusion as a property of its own for the windows and the breakers, whose
   contents `KernelLocks` does not model.
3. Pure algorithms: the Go breaker's doubling with the width of its integers, the
   rotation of round robin.

## 7. Running it

`tlc -config MCKernel.cfg MCKernel` and so on, one configuration per run;
`tlapm KernelProofs.tla` and so on for the proofs, each of which takes from one to some
minutes from nothing. Each run takes from a second to about three minutes with two
workers.
