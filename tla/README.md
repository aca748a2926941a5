# Verification of Vulpes Core

TLA+ specifications of the Vulpes Core gateway, the TLC configurations that
check them on small instances, and TLAPS proofs of results that hold for
every instance. Paths below are relative to the repository's `internal/`
unless they say otherwise.

## The system

Vulpes Core is an HTTP gateway for chat completions. It keeps no durable state
of its own except the directory of downloaded plugins: a pipeline is compiled
once at start-up from the configuration, and every stage of it (authentication,
authorisation, prompts, cache, rate limit, routing, upstream, observers) is a
plugin, a separate process reached over `net/rpc` on a Unix socket.

| component | state | operations | hard behaviour | correct if |
|---|---|---|---|---|
| observer queue (`observability/queue.go`) | bounded buffer, `closed`/`done` channels, the flusher's batch | `Enqueue`, `run`/`flush`/`takeBatch`, `Close` | producers against flusher against Close; overflow; failing observers; events that refer to maps | each observer gets events once, in order, as they were emitted; only the policy's victims are lost; Close drains |
| plugin RPC client (`plugins/rpc.go`) | the shared `*rpc.Client`, one goroutine per call attempt | `call`, `callOn`, `reconnect`, `Close` | herd of callers after `ErrShutdown`, check-dial-swap with the lock released in between, retry of requests that are not idempotent, contexts that end | no leaked or wrongly closed connection; nothing runs twice; no caller hangs on a dead connection |
| streaming relay (`plugins/rpc.go` Invoke, `pipeline/pipeline.go` executeStream, `httpapi/server.go` writeStream) | two unbuffered channels, the request's context | reader, canceller, forwarder, writer | four goroutines, selects with several ready cases, client disconnect, server timeouts, plugin silence, error in mid-stream | client, observers and rate limiter are told the same; goroutines end |
| request pipeline (`pipeline/pipeline.go`) | request-local: properties, routes, result | `ExecuteChat`, `executeNonStream`, `executeStream`, `afterSuccess` | any plugin may fail at any stage; fallback; settlement after success; what each plugin gets to see | nothing upstream before admission; fallback in order; one terminal event; least data; every request answered |
| HTTP API (`httpapi/`) | none | chat, models, readyz, error mapping | status of every early return | agrees with the pipeline's result |
| plugin manager, processes (`plugins/manager.go`, `process.go`) | processes, clients, registry | Start, Stop, registerClient | failure half way, plugin death, shutdown order | nothing left running, ready means usable |
| capability registry, `compile` (`plugins/registry.go`, `pipeline.go`) | immutable maps | Add*, look-ups, compile | missing capabilities | ready iff every required capability is there |
| plugin sources (`plugins/github.go`, `filesystem.go`) | the cache directory on disk, shared by gateways | ResolveGitHub, SafeExtract, ResolveFilesystem | crash or full disk during extraction, concurrent extraction, archives with odd entries, checksums in two places and two spellings | what runs is what was pinned |
| configuration (`config/`), secrets (`secrets/`), model registry (`models/`) | immutable after start-up | Load, defaults, Validate, ResolvePluginSecrets, NewRegistry, Candidates | zero, negative and missing values, references, empty aliases | nothing unvetted starts; secrets are scoped; what is listed can be routed |
| published services (`gen/go/gateway/v1/*_grpc.pb.go`) | a plugin server's table of services | stubs, registration, handlers | eleven repetitions of one pattern; missing methods; interceptors | a call runs the method it names, once, or fails |
| application shell (`app/app.go`, `cmd/gateway`) | the phases of the process | New, Run, main | start and stop order, signals | a signal ends it |

Requests share no state except the plugin clients and the observer queue.
`ExecuteChat` calls plugins through `RPCPluginClient`, and its events go to the
queue, whose flusher calls observer plugins through the same kind of client.
A stream outlives `ExecuteChat`: its forwarder goroutine settles the request.

What is hard to test here is listed, line by line, under "hazards" in
`PROJECT.json`.

## Modules

| module | models |
|---|---|
| `LossyFifo` | abstract: what one observer may rely on |
| `EventQueue` | the observer queue; implements `LossyFifo` |
| `RpcClient` | `call`, `callOn`, `reconnect`, `Close` of one plugin client |
| `StreamRelay` | one streamed response, four goroutines |
| `ChatPipeline`, `MCChatPipeline` | one request through the pipeline and the data its calls carry; its configurations for TLC |
| `GatewayEvents` | the events of several requests through `EventQueue`, with the maps they refer to and the exit of the process |
| `Configuration` | durations, defaults, validation, secrets, model aliases: operators without state |
| `PluginLifecycle`, `MCPluginLifecycle` | the gateway from start to exit: `main`, `App`, `Manager`, `Process`, `compile`, over `Configuration`; its configuration files for TLC |
| `PluginCache`, `MCPluginCache` | where binaries come from: several gateways, one disk; archives and sources for TLC |
| `PluginServices`, `MCPluginServices` | the gRPC services for plugin authors and the `net/rpc` names; plugin servers for TLC |
| `EventQueueProofs`, `RpcClientProofs`, `StreamRelayProofs`, `ChatPipelineProofs`, `GatewayEventsProofs`, `PluginLifecycleProofs`, `PluginCacheProofs`, `PluginServicesProofs` | the theorems about each of them |

An operator named `X_Something` directly before a definition `X` is a variant of
it with a plausible bug. `PROJECT.json` ("mutants") says which property each of
them breaks; they are used for nothing else.

### EventQueue

`Enqueue` and `takeBatch` are each one critical section under `q.mu`, so one
step. `pc` follows the flusher through `select`, `takeBatch` and the loop over the
observers; `final` tells the flush after `q.closed` from a tick's. An event is
the ordinal of the `Enqueue` call that brought it, which is what order, loss and
repetition are about. `offered`, `dropped`, `rejected` and `closeMark` are history
variables. An `Emit` that fails or times out is logged and ignored by the code, so
success and failure are one action. A batch whose `Emit` timed out counts as
offered: what the plugin makes of it after the timeout is outside the queue.

`SelectTick` and `SelectClosed` are both enabled when both channels are ready.
`Close` is called at most once, as a second call would panic.

### GatewayEvents

Requests run through the part of `ExecuteChat` that emits events; each `emit` is an
`Enqueue` of `EventQueue`, whose actions do the queue's part unchanged. A Go map is a
reference, so `heap` holds the maps and an event (in `log`) names one; a map is
abstracted to whether the prompt has added to it and which route it names.
`addTiming` and `routeEventProps` copy, `request.started` and `cache.hit` do not. A route whose
provider is not configured is passed over without an event (`SkipRoute`). A stream that is broken
off has an `upstream.error` for its first error chunk (`StreamFails`) and one for a second
(`StreamFailsAgain`), after which its forwarder is stuck in `out <- chunk` and the request has no
further event. The
observer's plugin client encodes the events of a batch one after the other, each
between `EncodeBegins` and `EncodeEnds`; a write to the map in between may end the
process, as Go's runtime does when it notices. `Queue.Close` is never called by the
program, so its actions are not used, and `Exit` may leave anything in the buffer.

### RpcClient

Each caller makes one call with at most two attempts. An attempt is a goroutine
of its own: it stays behind when the caller's context ends (`CtxDone`). The two
critical sections of `reconnect` are `ReconnectCheck` and `Swap`/`SwapLost`, with
`Dial` unlocked between them and `Discard` after the second unlock. `net/rpc` and
the plugin are external, modelled as far as `reconnect` depends on them: `send`
refuses with `ErrShutdown` on a client that is closed or whose reader has
stopped; a reader that ends fails the pending calls, with `ErrShutdown` exactly
when it met the end of the stream and `Close` had been called; a write to a
connection the peer has closed may fail or vanish.

### StreamRelay

The plugin's stream is a script of chunks chosen in the initial state; a chunk is
the set of its fields that are present (delta, usage record with tokens or without,
error); the last record counts, and only one with tokens is committed (`Due`). A send
on an unbuffered channel and its receive are one step. `reader`, `canceller`,
`forwarder` and `writer` are the goroutines' control states. After the context has
ended an `InvokeNext` may still return a chunk, because `callOn`'s select may choose it.

`conn` is the connection. `net/http` ends the context when the client goes away
(`ClientGone`), when the handler has returned (`HandlerReturned`), and under a client
that is still there when `ReadTimeout` has passed (`ReadTimeout`): it reads on in the
background, to notice the client's leaving, and the deadline of the request ends that
read. When `WriteTimeout` has passed, writes fail, `writeStream` ignores it, and
`net/http` ends the context over the first of them. `NewHTTPServer` gives both the same
length, but one counts from the beginning of the request and the other from the end of
its header, so either order is left open. `committed` says that `Commit` was called;
what it returns the code ignores.

### ChatPipeline

One step is one plugin call with what the code does up to the next one; the
plugin's answer, its refusal and its failure are alternatives. A configuration
(which stages exist, the upstream providers, `max_attempts`, the number of
blocking observers, `capture_payloads`) is chosen initially. Data are the names of
fields, headers and properties: `props` are the names collected for the request,
`told` collects for each kind of plugin every name a call has carried to it, and
`published` what the events have carried; sets of names are also enough to tell the
look-up key of the cache from the store key. What a prompt provider returns as
properties is one fresh name; one that returns payload under a name of its own
choice is outside the model.
`executeNonStream` and `executeStream` have the same fallback loop; it is modelled
once. `StreamEnds` sums up the forwarder and the writer, the stuck forwarder that
`StreamRelay` exhibits included.

### Configuration and PluginLifecycle

`Configuration` has the file as a record of its values, and operators for what the code
computes from it; the defaults of numbers and texts that nothing modelled depends on are
left out. A YAML duration is a string with or without a unit, an integer
(which counts nanoseconds), or absent; `Second` is scaled down for TLC. A plugin's
`config` is its leaves, because `resolveValue` treats maps and lists alike, but for a map
with a key that is no text: `yaml.v3` makes a `map[any]any` of it, which the default branch
returns as it is. A leaf below one is `hidden`: its references are neither checked nor
resolved. `ConfigJSON` is what `Configure` sends: JSON has no word for such a map or for
`.nan`, and the error of `json.Marshal` is discarded, so that the text is empty. Texts are
taken to be UTF-8.

`PluginLifecycle` begins with `Load`. `cur` and `step` follow `Manager.Start` through the
plugins and, for each, through the steps in the order of the code. Every step before
`Register` may fail, which is one action (`StepFails`), because every failure has the
same effect: `New` returns, `main` exits, nothing is stopped. What a plugin says in
its metadata (capabilities, secret names) is a free choice; `registry` is the set of
pairs of capability and name. `compile` is one step. Requests are one flag, enough to
relate them to `Server.Shutdown`. `Interrupt` and `ProcessStopped` are `Process.Stop`:
whether the process obeys, the three seconds pass or the shutdown timeout does, the
process is gone afterwards. Processes die at any time.

### PluginCache

`disk` maps paths to what is there: directories, and files with the archive their
bytes come from, whether all of them are there, and the execute bit. Each gateway
follows `resolveSource`, `ResolveGitHub` and `Process.Start`; a file is written between
`OpenFile` and `CloseFile`, so a crash or a full disk (`Fail`, possible in every state)
leaves it partial. Paths are sequences of names, `Clean` and `Join` do what
`path/filepath` does with `.` and `..`, and `SafeJoin` is the code's check on top of
them. A checksum is a spelling of an archive's name. A release may be published again
with another archive. Temporary files are private to a start and left out.

### PluginServices

The eleven services are transcribed one by one, as the generated code has them: for each
method of the client the full name that it sends, for each `MethodDesc` its handler, for
each `StreamDesc` the method its handler calls, and the `ServiceName`. A full name is a
service's and a method's name, and the constants are values like any others: nothing but
the table makes a stub's constant that of its handler. A unary `Handler` has three entries
of its own, as the code repeats them: the method called without an interceptor, the full
name told to the interceptor (`UnaryServerInfo.FullMethod`) and the method called by the
closure the interceptor gets. Dispatch goes by the name that was sent, the interceptor's
rule by the name the handler tells. A
server registers its services (and panics at a nil embedded `Unimplemented...Server`,
as the generated code intends), then calls go through dispatch, decoding, the
interceptor and the method. The gRPC library, `net/rpc` and the implementation are
external. The gateway uses only the `net/rpc` names (`NetRpc`); the gRPC services are what
the repository publishes for plugin authors.

## Runs

Bounds are the constants of the configurations; each run explores its complete
state space.

| run | checks |
|---|---|
| `queue` | `Accounted`, `CloseDrains`; under fairness `EventuallySettled`, `CloseStopsFlusher`; refinement `ImplementsLossyFifo` for the first and the last observer. Policies `drop_oldest` and `fail` (`block` is the same code), buffer 3, batch 2, two observers, seven events: a batch can leave a rest behind, and the buffer can overflow while a batch is out and again after it. Type correctness, `InOrderOnce` and `OldestGoesFirst` are proved for all instances instead |
| `rpc` | `NoConnLeak`, `NoDoubleExecution`, `OnlyDeadReplaced`, and under fairness `LostCallsEnd`. Two callers and three connections: both can dial before either swaps, which takes connections 2 and 3. Type correctness is proved |
| `stream` | `TypeOK`, `RelayedInOrder`, `DoneMeansAll`, `EventMatchesWire`, and under fairness `HandlerEnds`. All streams of up to two chunks: one before a failure and one at it, or one at it and one after; two usage records, so that one without tokens can follow one with |
| `pipeline` | `TypeOK`, `AdmittedFirst`, `FallbackDiscipline`, `IndexIsServer`, `SettledOnce`, `LeastData`, and under fairness `EveryRequestAnswered`. All combinations of stages and modes, four attempt limits (-1, 0, 2, 4), route lists with an unknown provider first, in the middle, alone, and a provider twice |
| `events` | `TypeOK` (that of the queue included), `ReceivedAsHistory`, `ShownAsEmitted`, and under fairness `LastIsSeen`. Two requests, two attempts, four events (a stream can break twice, a second attempt follow the first, and `request.failed` an error; that nothing follows the second error of a stream takes a fifth and is left to the proof), queue and batch of two, one observer: a batch is encoded while the queue overflows and the requests write to their maps |
| `lifecycle` | `TypeOK`, `ReadyIsComplete`, `StartedInOrder`, `SecretsScoped`, `NoStrayProcess`, `RequestsFirst`, and under fairness `SignalEnds`. Twenty-two configuration files of up to two plugins: one after a failing one is what order is about; unknown, empty and repeated names, roles shared and split, a refused plugin first and last, misspelt trust, secrets that are set, unset, disabled, look like a reference or sit where nobody looks, a number JSON lacks, durations with and without a unit and below zero |
| `cache` | `TypeOK`, `FiledByChecksum`, `RunsPinned`, `ChmodCommits`, and the action property `FetchedOnce`. Two gateways and three starts: one to fail half way, one to go on at the same time and one to find what they left; seven sources, seven archives. TLC also evaluates that these sources meet `CachesApart`, on which two of the proofs rest |
| `services` | `TypeOK`, `RoutedToSelf`, `AnswerMatchesRun`. Two calls at once and streams of up to two chunks, against twenty-five plugin servers; in four of them an interceptor has a rule about one method while all ten capability services are served, so that a name crossed between any two of them would be found |

Four runs, with small constants, show disagreements between the code and what
its documents say; each is quoted under "findings".

| run | what TLC finds |
|---|---|
| `stream_failure` | an error chunk ends the handler; one more chunk from the reader (usually the error of its cancelled `InvokeNext`) blocks the forwarder for ever, and `request.failed` is not emitted |
| `pipeline_cache_repeat` | a response is stored under a key no look-up computes |
| `cache_crash` | a crash in the middle of an executable entry leaves a partial binary that the next start takes for a cache hit and runs, checksum or not |
| `events_race` | a prompt's properties are written to the map of `request.started` while the flusher encodes it, which ends the process |

Deadlock checking is off everywhere: producers, callers, streams, requests and
starts are finite, so every behaviour may stop.

### Met on the way

Further places where the code and the documents differ. The first three are behaviours of
the models, in which TLC finds within seconds that the formula does not hold; they have no
run of their own.

- `plugins/rpc.go:264`: when `ReadTimeout` (`httpapi/server.go:152`) ends the context under a
  client that is still there, the reader's select may take `<-ctx.Done()`, as for a client that
  has left. No error is sent, so the client gets `[DONE]` for a truncated response and observers
  `request.completed`. `spec.md:1411` has "core must terminate stream with error semantics and
  emit event" for an upstream's failure, and `spec.md:1581` the code `request_timeout`. In
  `StreamRelay`: `wireEnd = "[DONE]" /\ conn \in {"up", "late"} => ended = "eof"`.
- `plugins/rpc.go:251`: the comment above it promises to "tell the plugin to abort its upstream
  HTTP request" when ctx ends in mid-stream. The reader may return before the canceller has come
  to its select, which then finds both cases ready and may take `streamDone`. In `StreamRelay`,
  under `FairSpec`: `(ctxDone /\ reader # "done") ~> (canceller = "told" \/ ended = "eof")`.
- `secrets/provider.go:87`: a reference below a YAML map with a key that is no text is neither
  checked nor resolved, `json.Marshal` fails on that map, `Configure` discards the error
  (`plugins/rpc.go:197`), and a plugin with a blank schema is configured with an empty text and
  without its secret. `spec.md:1503` has "Core resolves this and sends only to plugins that
  declare and are configured to receive it." In `PluginLifecycle`, of every plugin `p` in
  `configured`: a leaf of the kind `"ref"` has its name in `given[p].secrets`.

The others follow from one line each.

- `observability/queue.go:44`: `on_overflow: block` refuses events like `fail`, and nobody
  looks at the result.
- `pipeline/pipeline.go:199`, `:359`: cache hits and streams bypass the blocking observers; a
  stream whose first chunk is a retryable error does not fall back.
- `pipeline/pipeline.go:132`: `ready` outlives the plugins it was computed from;
  `restart`, `stream_idle_timeout`, `fallbacks.retry_on` and `do_not_retry_on` are read by
  nothing, and neither is an authorizer's `constraints`.
- `pipeline/pipeline.go:454`: the cache key leaves out the request's unknown fields
  (`Extra` is not encoded).
- `plugins/github.go:113`: the zip branch is never taken, as the temporary file's name has
  no suffix.
- `config/duration.go:28`: a duration that is a bare integer counts nanoseconds.

### Fairness

- `EventQueue`: weak fairness of the flusher (the ticker fires for ever, critical
  sections are short, every `Emit` has a 30 second timeout) and strong fairness of
  `SelectClosed`, because Go's select chooses at random among the ready cases.
  `CloseStopsFlusher` also rests on producers being finite in a behaviour.
- `GatewayEvents`: weak fairness of the flusher with its encoding, for the same
  reasons. None of requests, which may hang in a plugin, and none of the exit.
- `RpcClient`: weak fairness of readers, attempt goroutines and the caller's own
  steps. None of the plugin and none of a caller's context.
- `StreamRelay`: weak fairness of the four goroutines and of `net/http` ending the
  context of a finished request. None of the upstream plugin, of the client, or of
  the rate limiter: the forwarder's `Commit` has a context that never ends, and
  `HandlerEnds` names it as the only thing the handler may wait for. The server's timeouts
  may be far away, so none of them either.
- `PluginLifecycle`: weak fairness of loading, of the start only once a signal has
  come (main's context bounds every wait then; before it a silent plugin may hold up
  the start), of `compile`, of the shutdown and its timeout. None of plugins and
  requests.
- `ChatPipeline`: weak fairness of the request; each call before the response
  starts has the request's context, which the server's timeouts end.
- `PluginCache` and `PluginServices` state no fairness and no liveness: a download and
  a call may hang.

## Proofs

Every safety invariant and action property of a passing run, and the refinement,
is also a theorem, for every value of the constants: any capacity, batch size
(including the non-positive ones that mean the default), policy, number of
observers and of events; any callers and connections; any script of chunks; any
set of configurations, route lists, plugins, gateways, archives, sources, plugin
servers, and any number of attempts. TLC checked each inductive invariant on the run's
instance before it was proved.

| module | theorems |
|---|---|
| `EventQueueProofs` | `TypeCorrect`, `DeliveryInOrder`, `OldestEvicted`, `CloseFlushes`, `NothingLost`, `EveryObserverHasAFifo`, `QueueIsALossyFifo` |
| `RpcClientProofs` | `TypeCorrect`, `NoLeak`, `AtMostOnce`, `ReplaceOnlyDead` |
| `StreamRelayProofs` | `TypeCorrect`, `TheWireIsAPrefix`, `DoneIsTheEnd`, `EventsTellTheTruth` |
| `ChatPipelineProofs` | `TypeCorrect`, `NothingIsTriedUnadmitted`, `FallbackIsDisciplined`, `TheIndexIsTheServer`, `RequestsSettleOnce`, `PluginsSeeLeastData` |
| `GatewayEventsProofs` | `QueueComposed`, `TypeCorrect`, `ObserversReceiveHistories`, `EventsAreShownAsEmitted` |
| `PluginLifecycleProofs` | `TypeCorrect`, `PluginsStartInOrder`, `SecretsStayScoped`, `ReadyGatewayIsComplete`, `NoProcessIsForgotten`, `RequestsComeFirst` |
| `PluginCacheProofs` | `TypeCorrect`, `FilesAreFiled`, `InstalledOnce`, `TidyInvariance`, `RunsArePinned`, `ChmodIsTheCommit` |
| `PluginServicesProofs` | `TypeCorrect`, `CallsRunTheirMethod`, `SuccessIsARun` |

Each module also has `Invariance`, the theorem that its inductive invariant `IInv`
always holds.

### Assumptions

The named assumptions on the constants, which TLC evaluates on every run.

- `QueueAssumption`, `RpcAssumption`, `StreamAssumption`, `EventsAssumption`: constants
  are numbers of the kind their Go types have; at least one connection, at least one attempt.
- `SecondAssumption`, `ConfigAssumption`: a second is positive, and the configuration
  files are records of the shape of `config.Config`. Nothing is assumed of what they say.
- `PipelineAssumption`: configurations have their fields, and a route list has an entry,
  because a router that returns none is refused (`routing_failed`) by an action of its own.
- `ServicesAssumption`: plugin servers implement services that exist, and an interceptor that
  refuses is a gRPC one, as `net/rpc` has none.
- `CacheAssumption`: archives are lists of tar entries, sources have their fields, and
  a checksum's spellings mean one archive each.

`RunsArePinned` and `ChmodIsTheCommit` have one hypothesis more, `CachesApart`: the repository of a
source is an owner and a name, its binary lies below the directory its archive is extracted to,
and the operator keeps nothing of his own in there. Nobody in the code checks this.
A `binary` with `..` in it names a file outside the cache directory, for which no checksum
speaks; and a repository of three names could have another's cache directory inside its own.
`FilesAreFiled` and `InstalledOnce` do without it.

### Inductive invariants

**EventQueue.** `InOrderOnce` and `OldestGoesFirst` say nothing about what is still to
come. `IInv == TypeOK /\ Ordered /\ Draining`. `Ordered`: the buffer increases and is bounded by
the number of calls; what was offered to an observer, then the batch it has still to be given,
then the buffer form one increasing line; evicted events lie below the buffer. `Draining` carries
Close through the final flush: once `final` holds, `closed` does, and after the flusher has
exited what the buffer holds is younger than `closeMark`. `NothingLost` shows `Accounted`,
which is inductive given `IInv`: what each operation does to the set of the events held is a
lemma, and `Ordered` gives the hard case, an overflow, where the evicted event must not turn up
again among what an observer has or is to get. For the refinement `LossyFifo`'s channel is what
an observer has still to be given of the batch, followed by the buffer: an `Enqueue` is a `Send`,
a `Refuse` or a `Displace` (of the oldest), an `Emit` that returns is a `Deliver`, and `takeBatch`
stutters because it moves events inside the channel.

**RpcClient.** `IInv` says that connections in use have been dialled; how the
control state of a caller and the states of its attempts go together; that
`ErrShutdown` is only ever said of a dead client (`ShutdownIsDeath`: this is why
a swap replaces a dead one); that a connection between dial and swap is known to
its caller alone (`Private`: this is why closing it in `Discard` hurts nobody); and
that nothing is in flight on a closed connection unless `Close` was called
(`Quiet`: this is why an attempt that was told `ErrShutdown` was never sent, so the
retry is safe).

**StreamRelay.** The properties look at the wire and the log when all is over; the invariant
says where each chunk is before. `Places`: a chunk taken from the plugin is with the reader, with
the forwarder, or passed on, so that `held` and `taken` differ by at most one and only at the
reader's push. `Ends`: who knows of a failure, and that the context does not end
under an open handler while nothing has happened to the connection. `Relayed`: the wire has the deltas of a prefix of the script, and all of them
while writes get through. `Accounts`: the usage kept is the last record received, and what was
committed is that, if it has tokens. `Log`: no terminal event before the forwarder is done, exactly
one afterwards, and the right one.

**ChatPipeline.** `Admission` relates the checks passed to the stage that comes next;
`Attempts` is the loop invariant of the fallback: every route before the present one that has a
provider was tried, in order, and failed retryably; `Settlement` has the events, the commits and the
status by stage. `FallbackDiscipline` and `SettledOnce` need all three, because which attempt was the
last one is only known to `Attempts` and what was emitted at the time only to `Settlement`. `LeastData` is
proved over them: the properties of a request never name anything of its payload, and what a
call carries is fixed by its kind.

**GatewayEvents.** The queue's part of the state is that of `EventQueue`, and what is needed of
it is taken from `EventQueueProofs` through INSTANCE (`QueueComposed`: a behaviour of the composition
is one of the queue). `Histories` is `ReceivedAsHistory` said of all calls of `emit` rather than those
received, together with what the place of a request says about the events it has had (which attempts have
failed so far, and that a stream which broke twice is where nothing more comes from); the queue's
order then carries it to the observer. `Maps` says that a map does not change under the events that
refer to it, except that of `request.started`, and why a prompt writes to no map but its own
request's. `Encoding` is `ShownAsEmitted` with the event that is being encoded.

**PluginLifecycle.** `Position` relates the phase, the exit and the loop of `Manager.Start`; `Progress`
says of each plugin how far the start is with it: done with those before `cur`, as far as `step` with
`cur`, nothing with those after it. `StartedInOrder` and the hard half of `ReadyIsComplete` are read off it.
`Registered` has a configured plugin behind every entry of the registry, which is what makes a
ready gateway usable. `Draining` says that a process still running while `Stop` goes on is in the
list or under its hands; `NoStrayProcess` follows at the exit.

**PluginCache.** `IInv` has the control state of each gateway and what it knows (`ControlOf`), what
must be on the disk for it (`PlacedOf`: the file between `OpenFile` and `CloseFile`), that every file
lies below the directory named by its archive's checksum (`Filed`) and that what was installed
under a checksum is found by `Stat` (`Found`). Other gateways work on the same disk, and what
makes the invariant survive them is that no step removes anything: `ChangesAt` sums
up what any step does to the disk. `Tidy` adds, under `CachesApart`, that the bytes of a run are those
pinned (`RunsOf`), that a partial file is that of an entry of its archive and executable only if it
shipped so or two gateways contested it (`Torn`), and that what a gateway has extracted is whole
(`DoneOf`), so that the final `chmod` finds it so. `Clean` and `Join` are
folds, so what they make of a path cannot be proved by induction here; no proof needs it, because
`SafeJoin` compares its result with the directory.

**PluginServices.** Each call is at one place in the server (`Places`), its target is the method its name
stands for, and its run is recorded exactly once it has got through the interceptor (`Runs`).
What the two theorems rest on is `ServicesAgree`, proved service by service from the transcribed
tables: a client's full name has its service's name and an entry of the `ServiceDesc`, both paths of
that entry's handler call the client's method, and the name it tells an interceptor is that method's
own. Two constants exchanged in one of the eleven services and its step fails.

### Only model-checked

- The liveness properties (`EventuallySettled`, `CloseStopsFlusher`, `LostCallsEnd`, `HandlerEnds`,
  `EveryRequestAnswered`, `SignalEnds`, `LastIsSeen`): liveness under fairness is out of the prover's reach.
- The counterexamples of the four runs that show disagreements, which are TLC's.
- What the folds compute on data: paths, defaults and references in `Configuration`. It
  takes part in the runs, and the proofs use only what the code checks of it afterwards.

## Not modelled, and the plan

Not modelled: the message types of `gen/go/gateway/v1/*.pb.go` (generated accessors,
which the gateway does not use), test fakes, `cmd/pluginctl` (it loads a
configuration and prints it), `safeExtractZip` (unreachable), JSON layout, logging,
the contents of messages, JSON schemas (fitting one is a free choice), and YAML.

What is left is proofs, in this order:

1. abstract specifications and refinements besides `LossyFifo`: what a caller of `RpcClient`
   is promised (one execution at most, one answer), what the client of `StreamRelay` is
   promised (a prefix, then its end), a request settled once for `ChatPipeline`;
2. lemmas about `Configuration`: defaults leave no duration zero, a validated configuration stays valid, `ResolvePluginSecrets` gives nothing
   that `permissions` does not name.
