# A specification of svcrt

svcrt is a set of small Go modules for building services: configuration,
logging, telemetry, HTTP servers and clients with middleware, resilience
policies, and a lifecycle that starts and stops the parts of a process in
dependency order. This directory holds TLA+ specifications of the parts that
keep state, run concurrently or decide what an operator is told, the configurations
that model-check them with TLC, and proofs about them checked with TLAPS. Paths are
relative to the root of the repository.

| module | what it is |
| --- | --- |
| `Supervision` | abstract: what a lifecycle promises the author of a component |
| `Lifecycle` | `lifecycle.Add`, `Run`, `Fatal`, their goroutines; implements `Supervision` |
| `LifecycleProofs` | theorems about `Lifecycle` |
| `Breaker` | the circuit breaker of `resilience` |
| `Client` | the chain of `kit.NewClient`: `Breaker` around a retry loop, a span and the transport |
| `ClientProofs` | theorems about `Breaker` and `Client`: the circuit, and the order of the layers |
| `Retry` | one call through `resilience.Retry` over `resilience.Timeout` |
| `RetryProofs` | theorems about `Retry` |
| `HTTPServer` | `httpserver.Server`: `Start`, `Shutdown`, `CloseListener` |
| `Health` | `httpserver.Health` and the gates that probes ask |
| `LogHandler` | `logging`'s handler: derived loggers over shared slices |
| `Response` | one request through `telemetry.Server`, `AccessLog` and `Recover` in any order, logging through `LogHandler` |
| `ResponseProofs` | theorems about `LogHandler` and `Response` |
| `Delivery` | the store, queue and worker of `examples/notifications` |
| `Notifications` | that example as it is wired: `Lifecycle`, `HTTPServer`, `Health` and `Delivery` composed |
| `NotificationsProofs` | theorems about `Notifications` and what it is composed of |
| `Consumer` | the consumer of `examples/worker`: `Start`, `Stop` and the goroutine |
| `Worker` | that example as it is wired: `Consumer` under the hooks of `Health` |
| `WorkerProofs` | theorems about `Worker`: `Health` and `Consumer` |
| `Orders` | `examples/orders` as it is wired: handlers of an `HTTPServer` over a `Store` |
| `OrdersProofs` | theorems about `Orders` and the `HTTPServer` it serves from |
| `Config` | `config.Load` from a `.env` file and the environment: plan, lookup, decoding, errors |
| `ConfigProofs` | theorems about `Config` |
| `MC*` | instances for TLC |

## Inventory

### lifecycle (`lifecycle/`)

*State*: the components with their resolved dependencies and construction
errors, the hooks, the first error given to `Fatal` and the channel it closes.
*Operations*: `Add`, `After`, `OnStarted`, `OnDrain`, `Run`, `Fatal`,
`SignalContext`. *Interactions*: `Run` is one goroutine that computes levels,
starts the components of a level concurrently, runs the started hooks, waits for
its context or for `Fatal`, runs the drain hooks, sleeps, and stops the levels in
reverse; the goroutines of `Start` and `Stop`, signals and callers of `Fatal`
interleave with it. *Hard*: a `Start` that fails while its siblings are in
flight; a cancellation or a `Fatal` at any moment; a `Stop` that outlives its
timeout. *Correct means*: a component runs only while what it comes after is up;
nothing is left running when `Run` returns, whatever failed; the hooks bracket
the service; every failure is in what `Run` returns; a cancellation, a failed
boot and a fatal error end it.

### resilience (`resilience/`)

*Breaker*. State: the circuit (closed, open or half-open), the count of
failures, the time it opened, whether the probe slot is taken. Each of `allow`,
`record` and `releaseProbe` is atomic; the round trip between them is not.
Hard: answers that arrive after the circuit moved on, probes that panic or
outlast the cooldown. Correct means: not closed implies a full count; the slot
is never held by nobody; a healthy upstream closes the circuit for good. The comment
of `Breaker` promises more, a whole cooldown and one probe at a time, which late
answers break.

*Retry*, with `Timeout`, `Backoff` and `retryAfter`. State: per call only, the
attempt, the result in hand, the open body and the context of each attempt, and
time. Hard: panics of callbacks with a response in hand and of the transport, cancellation during a
wait, a deadline that passes during a drain, durations that overflow. Correct
means: what is repeated may be repeated and is repeated whole; nothing leaks; the
caller keeps the best answer; a wait is bounded; a call ends.

### httpserver (`httpserver/`)

*Server*. State: the listener, the shut-down seal, `http.Server`'s own flag.
Operations: `Start` (which leaves a goroutine), `Shutdown`, `CloseListener`.
Hard: `Start` overlapping `Shutdown`, a socket that dies while `Shutdown` runs, a
`Shutdown` that expires. Correct means: a `Shutdown` that says so has drained;
a dead listener is reported and a stopped one is not; nothing listens after.

*Health*. State: three gates and the readiness checks, read by probes while the
hooks of a lifecycle write them. Correct means: not ready once drained; ready
only if each check that was registered passed.

*Middleware* (`AccessLog`, `Recover`, `Chain`). State: per request, the status
writer. Hard: panics after a partial answer, informational statuses, the order of
the stack. Correct means: what is logged is what the client received, and a
panic is answered when nothing was.

### telemetry, logging, config, contract, httpclient, kit, testkit

*telemetry* has the same status writer around a span and a histogram, rebinds the
request to the span's context, and has a client that makes a span of one round
trip. *logging* derives handlers that share a list of operations and replays them
per record; it is correct if no derived handler sees another's and the
correlation attributes stay at the top level. *config* decodes layered sources into a struct once, at
start: it reads a `.env` file, walks the type into bindings and optional blocks,
looks every key up, decodes and validates. Hard: types that refer to one another
in a cycle, keys made of concatenated prefixes that meet, optional blocks inside
one another with defaults, several things wrong at once. Correct means: the walk
ends; everything that is wrong is reported and nothing else; the struct is whole
or is not returned. *contract* holds types and a fold of typed
middleware. *httpclient* assembles an `http.Client`; *kit* composes breaker, retry
and telemetry around it in a fixed order: one request of the breaker is one call
of retry, and one span is one attempt. *testkit* serves tests.

### examples (`examples/`)

*notifications* accepts notifications over HTTP, records them and sends them on a
bounded channel to one worker that calls a provider. Hard: a full queue, a
provider that does not answer, a channel closed under a handler that outlived the
`Shutdown` of its server. Correct means: what was accepted is settled before the
process ends or the error says why not; the process ends on a signal.
*worker* runs a `Consumer`. State: the running flag, the cancel and the done
channel of the last loop, and the loops. Hard: a `Stop` that expires, a `Start`
and a `Stop` that overlap others, a goroutine that reads a field another `Start`
writes. Correct means: a `Stop` that says so has ended its loop, and `Stop` can
reach every loop. *orders* serves reads of a `Store` that is closed under them when
the server's `Shutdown` expires. Correct means: an order that is there is found by
every handler that was not given up on.

## How the models correspond to the code

**Lifecycle.** `pc` is the place of `Run`: `build` while `Add` is called,
`levels` the loop of `graph.go`, `starting`/`startWait` the loop over levels and
`wg.Wait` in `startLevel`, `startedHooks`, `select`, `drain`, `sleep`, and
`stopping`/`stopWait` the loop of `stopStarted` and its `wg.Wait`. `st[i]` is what
the goroutine of component `i` is doing. `cancelled` is the context of one level,
`expired[i]` the timeout of one `Stop`. `Start` and `Stop` are the caller's: they
return nil or an error at any moment, or never. `Fatal` is two steps, the store
of the error and the close of the channel. Errors are the pairs of a kind and a
component; their text is left out. `Foreign` stands for a `Ref` that `Add`
rejects.

**Supervision** has neither levels nor loops: any set of components whose
dependencies are up may be started, any set that nothing running needs may be
stopped. `ImplementsPromise` is the refinement, with `mode` and `state` as the
mapping.

**Breaker.** `AllowClosed`, `AllowCooledDown`, `AllowHalfOpen` and `Refuse` are
the branches of `allow`; `Return` is a round trip's end and `record`, `Panic` the
path on which `record` does not run, `ReleaseProbe` the deferred call. The clock
counts ticks, and a round trip may take any number of them: the breaker bounds none.

**Retry.** `sending`, `inFlight`, `deciding`, `draining` and `waiting` follow the
body of `do`. `Answer` ends `Timeout`'s round trip: an error cancels the
attempt's context, a response carries it in its body. `TransportPanics` is the way
out on which nothing cancels that context, since `Timeout` does not defer it;
`Expires` is its timer, or that of the call, which may fire at any moment. Durations have a width of
`2 * Half` ticks and wrap; an hour of `Retry-After` and an overflowing one differ.

**Client.** `Chain` is the argument of `httpclient.Chain` in `NewClient`, with the
transport at its end, and every action asks `Pos` where a layer is, so that a
different order is a different model. `Down` and `Up` are the calls of
`RoundTrip` and their returns, between the places where a goroutine can meet
another or turn round: the mutex of the breaker, the loop of Retry and the
transport. `Admitted`, `Rejected`, `Recorded`, `Released` and `Panicked` each hold
an action of `Breaker`. Of Retry's loop it keeps which attempts there are;
bodies, contexts and waits are in `Retry`.

**Response.** `Stack` is the argument of `httpserver.Chain`. `Enter` makes the
`statusWriter` of a layer; `WriteHeader` and `Write` pass every writer on the
stack; `Flush` goes down the `Unwrap` chain past all of them. `LeaveServer`,
`LeaveAccessLog`, `Recovers` and `PassesThrough` are the deferred calls, run from
the innermost out with or without a panic. `Instance` says which instance of the
request a layer holds, because `ServeMux` sets `Pattern` on the one it is handed.
`head`, `sent` and `received` are `net/http`'s: the status it has taken, whether
any of the response has left, and what the client gets.

**LogHandler.** A slice is an array, a length and a capacity; `append` writes in
place when there is room and `slices.Clip` takes the room away. With no
extractor, `Derive` calls `next` at once, as the code does. A line is the sequence of
attributes and groups, outermost first; `"ids"` stands for what the extractors
return. `Response` derives loggers from the one it logs with at any moment.

**HTTPServer.** `Start` is a check, a bind and the section that stores the
listener and spawns the goroutine; `Shutdown` is the section that seals and the
two halves of `http.Server.Shutdown`. `net/http` is external and modelled by what
the package relies on: `Serve` registers its listener unless shutdown has begun;
`Shutdown` closes registered listeners, then waits for requests.

**Health.** A probe is `Load`, `Copy`, one `RunCheck` for each check and `Reply`,
because `ServeHTTP` holds the lock only for the copy. `late` and `doomed` are
history variables of the properties.

**Consumer and Worker.** A loop, its context and its channel have the name of the
`Start` that made them. `StartLoop` is the section under the mutex; `LoopBegins`
is the moment at which the goroutine evaluates `c.done` for its `defer`, which it
does without the mutex: it may see the channel of any `Start` from its own on.
`LoopEnds` closes that channel, and a second close of one panics and ends the
process (`Crashed`). `Stop` is the section under the mutex (`StopClaims`), the
`cancel()` after it (`StopCancels`), and whichever of `done` and the context comes
first. In `Worker`, `Up` follows the `Start` of the queue, and `Stop` the drain or
a boot that failed; whoever holds the Consumer may call both again. `replaced` is a
history variable: the loops that had not ended when another was made. The probes are
those of `Health`.

**Orders.** The API is an `HTTPServer` with all its overlapping calls. `Open` comes
before any of its `Start`s; `Close` after one of its `Shutdown`s has returned, in
time or not, or all its `Start`s have failed, which is what `After(store)` and the
lifecycle make of it. `Decode`, `RejectLongID` or `GetOrder`, and `Respond` are the
handler; the load of the flag and the answer are two steps. A path with an empty
id has no route, so `RejectEmptyID` refuses nothing, and every error has a code, so
the 500 of `writeError` is never sent. The process goes on after `Close` in the
model, which only adds behaviours.

**Config.** A key is the sequence of its tags, so that prefixes meet as the strings
do; a value is "good" or "bad", what its decoder makes of it, with the source it
came from. `types` is the program that is loaded and `file` the `.env` file: both
are chosen in `Init` and stay. `frames` is the stack of calls of `walk`, and `active`
the walker's own stack of types, pushed and popped around each call; a field is
named by its index path. `Resolve` chooses the environment when the keys are known,
and decides the blocks. The operators under "What a load should say" are a second
definition of the whole, told from the types and the sources without a walk, an
order or a stack; the properties compare the two, and leave open what the code and
its comments dispute, which `config_documented` is about.

**Delivery and Notifications.** `Record` and `Send` are the two halves of
`submit`; the send blocks on a full channel and panics on a closed one. Each
action of `Notifications` is an action of one of the four modules, or a step of
`Lifecycle` joined with what the component's `Start`, `Stop` or hook does, as
`buildStack` wires it: the API's `OnServeError` is `Fatal`, the hooks are `Up`
and `Drain`. `main` returns when `Run` does and takes all goroutines with it. The
admin server shares nothing with the others; the safety run has it (`N = 4`), the
liveness runs leave it out (`N = 3`).

## What the runs check

| run | instance | what it shows |
| --- | --- | --- |
| `lifecycle` | every graph over up to 3 components, 1 hook of each kind | order, completeness, reports, termination and the refinement, with every failure at every moment |
| `fatal` | 2 components | *violated*: a `Fatal` during the boot is neither reported nor acted upon |
| `client` | 2 requests, threshold 2, cooldown 3, 2 attempts | the count, the slot, recovery, one question to the breaker and one span per attempt |
| `client_probes` | the same | *violated*: two probes are with the upstream at once |
| `orders` | 2 `Start`s, 2 `Shutdown`s, 2 requests over a store | draining, stored orders found, every dead listener reported and no other, nothing left listening |
| `worker` | 2 probes, 2 checks, 2 `Start`s and 2 `Stop`s of the consumer | a probe against hooks, registrations and dependencies that move under it; loops that end and are not orphaned |
| `notifications` | 3 requests, queue of 1, 4 components | accepted work, handlers and workers, readiness, with every failure |
| `notifications_live` | 3 requests, 3 components, deliveries that fail | the process ends after a signal or a dead listener; a handler blocked on the full queue is answered if the provider answers; the components keep the contract of `Start` and `Stop` |
| `retry` | 4 attempts, all kinds of request and answer, deadlines of 0, 2 and 9 ticks or none | safe repetition, no leaks, the best answer kept, bounded waits, an end |
| `response` | every stack of the 3 layers, every handler, 4 loggers | what is recorded against what is received, panics, correlation, derived loggers |
| `config` | 6066 programs of up to 3 struct types and 3 lines of `.env`, every environment | the walk advances and ends, what is wrong is reported, the struct is whole |
| `config_documented` | the same | *violated*: what is wrong inside a refused nested struct is not reported |

Why the bounds are enough. Three components give every graph shape that a level
can meet: a chain, a fork, a join, a component that skips a level, independent
ones. Of two callers of a client that call again and again, one is a straggler
admitted before the trip, for as long as it takes, while the other is a probe or is
refused; the invariants that `client` checks of the circuit are proved for any number. Four loggers are
the least with two derived from one that was itself derived and has room for a
call more. All the stacks of three layers are tried, empty and reversed ones
included. Two `Start`s and two `Shutdown`s of a server overlap in every order, and so
do two `Start`s and two `Stop`s of a consumer: one loop that a `Stop` gave up on, and
one that came after it. Two requests to `orders` are one that a `Shutdown` gave up
on and one that it did not. Three struct types nest one another to a depth of three
and close cycles of one, two and three; every two fields of the root, of every kind
that `walk` tells apart, meet with each kind in the type below, and two groups of
one type are used at two places. A queue of one
with three requests has one notification with the worker, one in the channel and
one handler blocked. In `Retry` a second is four ticks, a duration has seven bits
and the cap is eight ticks: 2 and 3 seconds are within and over the cap, 20 wraps
below zero and 33 to one second. `worker` and
`notifications`, which check invariants only, use the symmetry of probes, checks,
calls and requests; the runs with liveness use none.

The type invariants are in the modules beside the properties: `TypeOK`,
`ClientTypeOK`, `OrdersTypeOK`, `StackTypeOK` and `WorkerTypeOK` hold on the same
instances. No run repeats them, since nothing but a mistake in the model would break
one; most are proved (below).

Fairness. Each goroutine of the program proceeds (weak fairness of its steps)
and timers fire. A `Stop` returns once its context is done and a `Start` once its
level is cancelled or the context of `Run` is, which is the contract of
`StartFunc` and `StopFunc`; nothing makes a `Start` return otherwise. Requests,
signals, failures and the provider owe nothing; the one property about a
provider that answers has that as its hypothesis. `KeepsContract` shows that the
components of `examples/notifications` satisfy the part of the fairness that
`Lifecycle` assumes of the callbacks it is given (`Contract`). In `Retry` a round trip ends because `Timeout` bounds it. In `Client` each
goroutine goes on calling and each call ends; that is the hypothesis under which a
circuit can recover at all.

`CHECK_DEADLOCK FALSE` is said where the system may stop: a server all of whose
calls have returned, a call that has returned. A consumer and its probes never do:
dependencies go on to change, and a crash is a step of its own; a load that is over
is one too.

Each property has a mutant: a definition beside the one it replaces, marked
`Mutant of`, with a plausible bug under which the property fails.

## What the code does that its documentation does not say

Each of these is a run that TLC must find violated:

- `fatal`: `lifecycle.go:200-202` says that `Fatal` reports a failure and triggers the
  shutdown a signal would. Until every level has started, `Run` does not look at it.
  The return of a failed boot (`lifecycle.go:155`) does not load the error that it
  kept; and the `Start`s in flight, of the same level or a later one, are not
  cancelled, so that one which waits holds the boot up. `EveryFailureReported` is about
  the failures of `Start`s and `Stop`s, and about a `Fatal` on the return of an ordered
  shutdown, and `RunEnds` about a `Fatal` after the boot.
- `client_probes`: "stays open for Cooldown, then admits exactly one probe"
  (`breaker.go:172-174`). `record` acts on the state at the time of the answer. The
  failure of a request that outlasts the cooldown re-opens a half-open circuit under its
  probe (`breaker.go:154`), and another cooldown later a second probe joins the first.
- `config_documented`: "the complete list of schema violations" (`plan.go:41`) is what
  one walk finds. The fields of a nested struct that is refused are not looked at
  (the trace shows this one); a field of an unsupported type does not claim its key, so
  that a second field with it is accepted; and `KindDecode`, "a value that is set but
  cannot be parsed" (`errors.go:21`), is reported of a malformed `default:` with nothing
  set. Each of the three parts of `FaultsAreAsDocumented` fails by itself.

Met while modelling, and visible in the models, with no run of their own:

- the late success of any request closes an open circuit before its cooldown is over
  (`breaker.go:144`), though `breaker.go:172-174` says otherwise;
- the product at `retryafter.go:40` may wrap, so that a header far over the cap is
  waited for as a short time or not at all, where `retry.go:37` says that it falls back to
  the policy; `RetryAfter` has the product at the width of a `Duration`, and
  `AnswerKept` excepts the wait below 0 that it may give;
- `canWait` "reports whether ctx has enough time left to sleep for d and still attempt
  something" (`retry.go:255-256`); the drain comes between the check and the sleep
  (`retry.go:243`), so that the deadline may pass in the wait, with the response gone.
  `AnswerKept` says that nothing else but a cancellation costs the caller the response;
- `statusWriter.WriteHeader` (`accesslog.go:40`) takes an informational status for the
  response's, so `Recover` (`recover.go:77`) sends no 500 for a panic after a 103, and the
  client receives 200; `recover.go:20` promises a 500 unless the handler "had already
  responded";
- `Stop` of the consumer "ends the loop and waits for it" (`consumer.go:48`). If a
  `Stop` expires and a `Start` follows before the goroutine of the first loop has
  evaluated `c.done` (`consumer.go:33`), that goroutine closes the second channel:
  the second `Stop` returns nil while its loop runs, and the second loop then closes
  a closed channel, which ends the process. `StopEndsItsLoop` excepts that schedule
  and shows that it is the only one;
- a transport that panics under `Timeout` leaves the context of its attempt to its
  timer, since `cancel` is not deferred (`timeout.go:27-33`), and a `Backoff` that panics
  leaves the response open, where a `RetryIf` does not (`retry.go:199-206`);
  `NothingElseIsLeft` allows for both, and says that nothing more is left;
- a notification whose send panics on the closed queue is on record as queued for good
  (`worker.go:42`); `NothingLostOrTwice` says that its handler was then given up on by
  a `Shutdown` that `Run` reports;
- a handler that returns without writing is answered 200 by `net/http`, and the
  line and the span omit the status; the comment at `accesslog.go:85-90` has the panic
  in mind only;
- a `Flush`, or a 1xx, is unseen or misread by the `statusWriter`s: the hypothesis
  on `first` in `RecordedIsReceived` is there for them;
- a second `Stop` of the consumer that overlaps the first returns nil at once, and a
  `Start` between the unlock and the `cancel()` of a `Stop` has two loops run side by
  side until the `cancel()`;
- a cancellation by the caller during Retry's wait reaches the breaker as an error
  of the upstream and counts towards the trip.

## What is proved

`LifecycleProofs`, from `LifecycleAssumption` (the numbers of components and
hooks are naturals), for every graph:

- `TypeCorrect`: `TypeOK`, with `Counting`, the bounds of the loop variable.
- `DependenciesStayUp`, `NothingIsLeftRunning`. `DependenciesUp` alone is not
  inductive: that the next level may start follows from where the loop is. The
  inductive invariant `OrderInv` adds `Graph` (a dependency was added earlier),
  `Levels` (its level is lower, once computed) and `Stage` (the place and the
  level of the loop fix what each component is doing).
- `DoomedBoots`, from `OrderInv`; `FailuresAreReported`, which joins
  `FailuresAreJoined`, with `Collected` (the errors collected so far are those of
  the failed Starts and Stops), and `FatalIsJoined`, with `FatalStored`;
  `HooksAreBracketed`, with `HookInv` (how far the hooks are at each place of
  `Run`).
- `LifecycleKeepsPromise`: the refinement of `Supervision`, initial state and
  each step, under `OrderInv`. `PromiseKeepsDependenciesUp`: what `Supervision` says is
  enough for the dependencies of whatever runs to be up, because nothing runs before
  the declarations are complete.

`ClientProofs`, on the circuit, from `BreakerAssumption` (the policy is three integers):

- `BreakerTyping`, `FullCount`, `SlotIsHeld`, for every policy and round trips of any
  length.

`ClientProofs`, on the chain, from `BreakerAssumption` alone, for any number of
requests and attempts:

- `ClientImplementsBreaker`: each step of a client is a step of `Breaker` or leaves
  its variables alone, so `Spec` of `Breaker` is implied, and with it everything
  above: `ClientKeepsBreaker`.
- `AskedOnce` and `SpanPerAttempt`. That a call asks once is not inductive: the
  invariant `CallInv` says where a call may be with which result, and what it has
  entered by then; `Releasing` adds that a probe which is yet to give its slot back
  is above Retry with its result. The order of the layers enters through the lemmas
  `Places` and `Stops`, computed from `Chain`.

`OrdersProofs`, from `ServerAssumption` (`NoStart` is not a call of Start), for any
number of Starts, Shutdowns and requests:

- `OrdersTyping`. That the goroutines in `reported` have ended is inductive only with
  `Launched`: a goroutine belongs to a Start that has returned, so none is spawned
  twice.
- `ShutdownHasDrained`. What a Shutdown leaves behind is not in `ShutdownDrains`:
  the invariant `DrainInv` adds `Closing` (its flag is raised from the moment it
  drains) and `Quiet` (nothing accepts after it returned nil, because a goroutine that
  has yet to call Serve sees the flag).
- `StoredIsAlwaysFound`. The invariant `StoreInv` adds that a handler runs only behind
  a Start that returned (`Serving`), that none has answered before it knows the id
  (`Asked`), and what the order of the lifecycle gives: before the Store is open no
  Start has begun (`StoreFirst`), and once it is closed a Shutdown has returned or no
  Start succeeded (`StoreLast`). With `ShutdownDrains`, a handler that meets the closed
  Store has outlived a Shutdown.

- `OnlyTheDeadAreReported`, the half of `DeathIsReported` that is about single steps,
  and `OnlyStragglersListen`. A goroutine reports whatever
  closed its socket unless it sees the flag: the invariant `SocketInv` says that nobody
  but a Shutdown closes a socket under its goroutine (`Socketed`), raising the flag in
  the same step, and that nothing accepts on an open socket under the flag (`Sealed`).
  The second is the part of `NothingLeftListening` that is about states: what is still
  bound when a Shutdown has returned is on its way to be closed.

`RetryProofs`, from `RetryAssumption` (`MaxAttempts` is an integer, the durations that a
user sets are positive and below the width, and a header asks for one that is not
negative, as the parser sees to), for any number of attempts and any policy. The
invariant `RetryInv` is six parts: how far the loop is (`Progress`), what each attempt
sent (`Wired`), when the call has which result (`Resulting`), that only the attempt at
hand holds a body or a context (`Holding`), that there is time for what is left of the
delay unless the drain took it (`Budget`), and that the delay is within `MaxRetryAfter`
or is what the backoff computed (`Delayed`).

- `RetryTyping`, `RepeatsAreSafe`, `DeadlineKeepsAnswer`.
- `OnlyTheLastIsLeft`: what a call leaves behind, panics of each callback and of the
  transport included, is at most what the last attempt holds. Of the ways a call can
  stop, `Holding` and `Resulting` say what each one has let go.
- `WaitsAreBounded`. `Exponential` doubles in a loop, which the model has as the
  recursive functions `Doubled`, bounded by the cap, and `Uncapped`, the mutant's. What
  such a function computes follows from its definition once it exists; that it does is
  the lemma `Recursion`, proved from the least natural number of a set without the
  induction theorems of the library. By `BoundedStep` no doubling of a duration that is
  below half the cap leaves the width.

`WorkerProofs`, from `WorkerAssumption` (`NoLoop` is not a call of Start), for any
number of probes, checks, Starts and Stops:

- `WorkerTyping`.
- `DrainIsSeen` and `ReadyIsChecked`. `HealthInv` adds that the gate is open from `Up` to
  `Drain` and that a probe of `Ready` which loads it later is refused (`Gated`), and that
  a check which is sick since before a probe began is one the probe has yet to run,
  unless it has failed already (`Doomed`).
- `LoopIsFound` and `OnlyStraysMislead`. The invariant `Channelled` follows each loop with
  its channel and its context: who made it, who closes what, which loops were
  replaced, and which Stop has claimed which loop.

`NotificationsProofs`, from `NotificationsAssumption` (the service as `main` builds it:
three components, four with the admin server, and one hook at each gate; the capacity of
the queue is positive) and what the composed modules assume, for any number of requests
and any size of the queue:

- `StackRunsLifecycle`: every behaviour of the composition is one of `Lifecycle`, so
  that its theorems hold of the service.
- `HandlersHaveTheWorker`. `ApiInv` relates the Server to its component: its goroutine and
  its requests exist only once its Start has returned, and a Shutdown that has returned
  nil leaves none of them at work.
- `NotificationsAreKept`. `Kept` says in which places a notification may be with which
  entry on record, and that the queue names nobody twice; `GivenUp`, that a send panics
  only behind a Shutdown that gave up on its handler.
- `AcceptedWorkIsSettled`, from those two and `Reached`: the worker has ended only with
  the queue closed and empty. `ReadyIsServing`, from `GateInv`.

`ResponseProofs`, from `ResponseAssumption` (an attribute is not a group, and `append`
leaves some natural amount of room), for every order of the layers:

- `ResponseTyping`.
- `DerivedIsItsOwn`, for any number of loggers, attributes and groups. The invariant
  `Owned` is about arrays, where the property is about lines: a handler has its calls in
  what it applied to `next` or in its window. `AppendedIsNew` is why it stays: a clipped
  slice has no room, so that an append never writes into an array that is shared.
- `SpanAndLineAreTrue`, `CaughtPanicIs500` and `LineHasRouteAndIds`. What the layers
  record depends on what the writers still on the stack know of the response: `Agreed`
  says so for each way in which a handler may begin. `Told`, `Made`, `Routed` and `Lined`
  are the records of the layers that have left, by their places in the stack; a status
  that was not there yet is excused only by a Recover outside of the layer.

`ConfigProofs`, from `ConfigAssumption` (a program has finitely many struct types, with
fields as `reflect` has them, whose types are among them; a key is a sequence of strings,
and `Unset` is no value), for every such program, every `.env` file and every environment:

- `ConfigTyping`.
- `WalkEndsInTheEnd`. That no path is longer than there are struct types is a count:
  the types in `active` differ from one another and are those of the calls on the stack
  (`Stacked`), so that there are no more calls than types (`PathIsShort`). Each step of
  the walk goes on in the order of declaration, down or ahead (`NextIsLater`,
  `IndexAdvances`).
- `FaultsReported` and `TheValueIsWhole`. The properties compare the load with a
  definition of the whole that knows no order, so the proof first relates the two. The
  lemmas on index paths order them as the walk does (`Before`), and those on the tree
  say that `Fields` has one field at a path, under groups only (`OneFieldAt`,
  `GroupsAbove`); the recursive function `FieldsAt` exists by `LevelsExist`. The
  invariant is then five parts. `Descent`: each call on the stack is that of a group,
  entered from the call below it. `Planned`: the bindings, the blocks and the
  violations are those of the fields `Before` the place of the walk, so that a field is
  rejected exactly if it is neither a group nor the owner of its key (`Judged`).
  `SourceRead`: `dot` is what the lines so far assign, once each. `Decoded`: what has
  been set, allocated and reported is that of the bindings before `i`. `Loading` says
  which of these hold at which stage, and what the outcome then says.

Only model-checked: liveness and what assumes fairness (`RunEnds`, `CircuitRecovers`,
`CallEnds`, `ProcessEnds`, `SubmitIsAnswered`, `KeepsContract`, `DeathIsReported`,
`NothingLeftListening`), which the prover does not reach.

## Not modelled, and why

`contract` and `testkit` keep no state between calls, or serve tests; the decoders of
`config` are a function of a string and a type each, and `Secret` is about wording;
`httpclient.New`, `logging.go` and the constructors of `kit` build a
value from options once. The text of errors and log lines, formats, durations and
headers other than `Retry-After` are left out everywhere. OpenTelemetry and
`net/http` are not part of the repository; the second is modelled where the code
relies on it. A second signal kills the process; that is `os/signal`'s.

## Plan

The order in which the modules came: `Supervision` and `Lifecycle`, whose order of
starts and stops everything else relies on; `Breaker` and `Retry`; `HTTPServer` and
`Health`; `Delivery` and the composition `Notifications`; `LogHandler`, `Response` and
`Client`; `Config`; `Consumer` and the compositions `Worker` and `Orders`. Next:

1. `Client` over `Retry` itself, with the bodies and contexts of each attempt, in
   the place of the loop that `Client` keeps of it.
2. `Orders` under `Lifecycle` itself, as `Notifications` is.
