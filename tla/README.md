# rho-llm in TLA+

Specifications, model checks and machine-checked proofs for the concurrent and
failure-handling core of `rho-llm` (`src/`), a Go library that talks to many LLM
providers behind one interface. A model keeps the control of the code (every state
change, guard, early return, error path and their order) and abstracts its data.
Line numbers refer to the files under `src/`.

    tlc -config CircuitBreaker.cfg MCCircuitBreaker      # one run
    tlapm CircuitBreakerProofs.tla                       # the proofs

## 1. Inventory

`chat` below means `Complete` and `Stream`. "Hard" names what a unit test hardly reaches.

| Part | Source | State it keeps | Operations | Hard | Correct when |
|---|---|---|---|---|---|
| Circuit breaker | `circuitbreaker.go` | state, failure count, two time stamps, probe generation; one mutex | `Allow`/`allow`, `RecordSuccess`/`recordSuccess`, `RecordFailure`/`recordFailure`, `ReleaseProbe`, `Reset`, `Execute` | late, foreign and missing outcomes; generations that wrap | one probe at a time, resolved only by its holder; never wedged half-open; opens at the threshold |
| Key pool | `pool.go` `AuthPool`, `types.go` `AuthProfile` | health, cooldown of each key, current key; one mutex | `GetAvailable`, `MarkFailedByName…`, `MarkSuccessByName`, `HealthyCount` | outcomes that arrive after another call has changed the key | outcomes go to the key used; a revoked key stays out |
| Pooled client | `pool.go` `PooledClient` | active client, its key, a reference count per client; `mu`, `rotateMu` | `Complete`, `Stream`, `Provider`, `Model`, `rotateClient`, `Close` | rotation, release and `Close` interleaved; cancellation that looks like a timeout; consumers that stop, or panic | no client used after it is closed, none leaked; nobody blamed for a cancellation; the probe always resolved; every call returns |
| Retry transport | `transport.go`, `retrybudget.go`, `retrypolicy.go` | attempt counter, budget | `DoHTTPWithOptions` | a request that may have been executed before its answer was lost | a create is never sent twice unless it was surely not executed |
| Session | `session.go`, `conversation.go`, `pauseturn.go` | transcript, client; `turnMu` around a turn, `stateMu` around its commit | `Send`, `Stream`, `Continue`, `Append`, `SwitchProvider`, snapshots | a provider switch or a snapshot during a turn; a consumer that calls back into the session | turns committed whole, in order, under the provider that ran them |
| Conversation store | `store.go` | a JSON file per id; a map | `Save`, `Load`, `Delete` | crashes and failing system calls between the steps of a Save | always a whole conversation; a synced one survives |
| Batch jobs | `batch.go`, `provider/*batch` | provider-side jobs found by recovery key | `Submit`, `Recover`, `Get`, `Cancel`, `Results`, `WaitForBatch` | an accepted submission whose answer is lost; pages that change during a scan; cancel against completion | one job per recovery key; an ambiguous answer reconciled |
| Realtime session | `realtime.go` | closed flag, state, connection | `Send*`, `Recv`, `Close` | end of stream against `Close` | the connection closed exactly once |
| Idle timeout | `config.go` `idleTimeoutBody` | timer, expired flag | `Read`, `Close`, `expire` | the timer firing during a read, or while only the consumer is slow | no data lost, no false timeout |
| Egress | `egress.go`, `proxytunnel.go`, `privateaddr.go` | racing dial attempts | `race` | attempts that succeed after the winner | one winner, all others closed |
| OAuth device flow | `oauth.go` | poll interval, expiry | `PollDeviceToken` | `slow_down` against the expiry | ends; never polls faster than told |
| Modality failover | `fallback_modality.go` | position in the chain | `tryEach` | failures that are not the provider's | in order, the last error returned |
| Stream folding, boundaries | `streamfold.go`, `streamevents.go` | the open block | `StreamWithBoundaries`, the accumulator | errors and early stops inside a block | every start has its end, no yield after a stop |
| Normalisation | `normalize.go` | none (pure) | `NormalizeForModel` | reused and orphaned tool-call ids | every call answered once, ids unique |
| Usage | `usage.go`, `conversation.go` | running sums | `Usage.add`, `ReportModalityUsage` | sums near the largest integer | saturate, never wrap |
| Provider adapters | `provider/{anthropic,gemini,openaicompat,openairesponses}` | the state of one event stream | request building, stream parsing | truncated and interleaved events | the events delivered are those of the response |
| Construction and tables | `factory.go`, `middleware.go`, `registry.go`, `capabilities.go`, … | tables behind a lock | lookups, validation | — | — |

How they interact: an application calls a `Session`, which calls a `Client`; with several
keys, or a breaker, that client is the `PooledClient`. It asks the breaker for admission,
borrows the active client, runs the request on it (adapter, retry transport, idle-timeout
body, egress dialler), gives the client back, and reports the outcome to the key pool
and the breaker. A failure makes it rotate: `rotateMu` is held while a client is made for
another key, `mu` while it is installed; the old client closes when its last user
releases it. A `Session`'s conversation is saved to a store; batches and realtime
sessions are clients of their own.

## 2. Plan

The heart comes first: the path every request takes, where most of the concurrency is; then
what costs money when it is repeated, what a conversation loses on its way, and the waits.

| # | Modules | Subject | State |
|---|---|---|---|
| 1 | `CircuitBreakerOps`, `CircuitBreaker`, `ProbeLease` | the breaker; its abstract promise | done, proved |
| 2 | `AuthPoolOps`, `PooledClient` | key pool, rotation, reference counts, composed with 1 (`DrivesBreaker`) | done, proved |
| 3 | `FileStore` | saves with crashes | done, proved |
| 4 | `ConversationOps`, `Session`, `Transcript` | turns, commits, `SwitchProvider`. Abstract: an atomic transcript | done, proved |
| 5 | `RetryTransport`, `BatchJobs`, `ModalityFailover`, composed in `Delivery` | requests that cost something, over a network that loses and delays them | done, proved |
| 6 | `NeutralStream`, `AnthropicStream`, `OpenAICompatStream`, `ResponsesStream`, `GeminiStream`, composed in `StreamPipeline` | a streamed reply from the wire to the consumer. Reference: the whole reply `Complete` gives | done; proved but for the folds |
| 7 | `Handoff`, `RequestOps`, `AnthropicRequest`, `OpenAICompatRequest`, `ResponsesRequest`, `GeminiRequest`, composed in `TurnLoop` | what of a conversation reaches the next model | done |
| 8 | `DialRace`, `IdleBody`, `RealtimeSession`, `DevicePoll`, composed in `PeerWaits` | the waits for a peer that may be silent | done, proved |
| 9 | proofs about 7 | every call is answered, thinking stays with its model: inductions over the folds of a transcript | not done: out of the prover's reach (section 6) |

## 3. What is modelled

### The circuit breaker — `CircuitBreakerOps`, `CircuitBreaker`

Every method holds `cb.mu` from first read to last write, so each is one operator on the
record of fields (`Allow`, `RecordSuccess`, `RecordFailure`, `ReleaseProbe`, `Reset`) and
each call is one step. `CircuitBreaker` adds the requests: `inflight` are those admitted
and not yet back, `token[c]` the token they will report with. `Admit` is `allow`;
`Succeed`, `Fail`, `Release` the three reports; `Abandon` a request that never reports
(an abandoned iterator, an error `Execute` excuses, a path that forgets the token);
`DirectCallers` use the public methods and report with the wildcard.

- *Time.* A stamp is kept as what `time.Since(stamp) >= cooldown` can tell: `recent`,
  `old` or `zero`. `AgeOpened`, `AgeProbe` let a cooldown pass at any moment.
- *Counts* saturate at `Threshold`; the code only compares them with it.
- *Generations* are `0 .. AnyProbe - 1` with `AnyProbe` for 2^64 - 1, so the wrap of
  `bumpProbeGen` happens after a few probes. `NoLap` is the one bound: no request stays
  out while the counter goes all the way round (2^64 - 2 admissions in the code).
- Callbacks run outside the lock and change no breaker state: left out.

`ProbeLease` says the same without tokens, counters or clocks: a circuit under test has one
lease, owned by identity; only its owner's verdict, or an anonymous caller's, ends it.
`ImplementsLease` is the refinement: the owner is the caller whose token is the current
generation, the lease is free when the probe's cooldown has elapsed.

### The pooled client — `AuthPoolOps`, `PooledClient`

`AuthPoolOps` has the pool's methods as operators (each holds `p.mu` throughout). Of a
cooldown only "still to come" is kept, and it may end at any moment (`CooldownEnds`).

In `PooledClient` a call is a process: `req[r].todo` lists the steps it has still to
take. One step is one critical section, or one reference dropped; what the call decides
by itself afterwards is part of it. Steps and code:

| Step | Action | Code |
|---|---|---|
| `gate` | `GateAdmits`, `GateRejects` | `breaker.allow()` |
| `acquire` | `Acquire`, `FindsClosed` | the `pc.mu.RLock` section that reads client and key and takes a reference |
| `call` | `Succeeds`, `FailsBeforeData`, `Event`, `ConsumerBreaks`, `FailsMidStream`, `ConsumerPanics` | the request, or the range over the provider's stream |
| `classify` | `Classify` | `rc.Release()`, then the decision on context, `DisableRetries` and the error's class |
| `release`, `markSuccess`, `markFailed`, `recordSuccess`, `recordFailure`, `releaseProbe` | `Release`, `ReportToPool`, `ReportToBreaker` | the same-named calls, in the order of each path |
| `rotate` | `FindsRotated`, `RotationFails`, `MakeClient` | `rotateClient` under `rotateMu`: name check, `GetAvailable`, `clientFunc` |
| `swap`, `drop` | `InstallClient`, `RotationFindsClosed`, `DropSwapped` | the `pc.mu.Lock` section; `old.Release()` |
| `sleep` | `WakeUp` | the backoff's `select` |

`Close` and `CloseReleases` are the two halves of `Close`. `Provider` and `Model` are calls
of kind `peek`. A client is identified by a number; it exists while it has a key, and
`DropReference` closes it at count zero. Numbers of closed clients are used again once
no call refers to them, so a bounded set is enough for any number of rotations.

Abstractions. Durations (backoffs, budget, deadline) are a free choice between going on and
giving up (`BackOff`, `TryAgain`). `Cancel` may happen at any time in the code; it is a
step only where the context is next read. `markFailed`'s three cooldown lengths are one.
The retry hook is left out. `Errors` adds `expired` (a timeout of the caller's own context,
which `IsRetryable` takes for transient) only when the context is done. What calls there are,
how they may fail and whether a consumer may panic is a `Workload`, fixed at the start; a run
checks several (`Workloads`). A client that a panicking consumer leaves behind is `abandoned`.

### The file store — `FileStore`

One id, because ids share nothing but the directory. A Save is its system calls, one
action each, and every one may fail; the failing ones leave by the code's cleanup path.
Each Save has its own inode. `content`/`file`/`temps`/`dir` are what processes see,
`onDisk`/`diskFile`/`diskTemps` what a crash leaves. The kernel may write back any inode
or entry at any time in any order, which is weaker than any journaling file system, so what
holds here holds there. `change` numbers the renames and removals of the file, `promised`
is the last one whose Save has synced the directory and returned: both are history. The
directory may have been on disk beforehand or be made by the first Save. The
removal of a temporary file is taken to succeed (the code ignores its error).

### The session — `ConversationOps`, `Session`, `Transcript`

A call is a process. `turnMu` is a variable, held from `Lock` to `Return` (the deferred
unlock); each critical section of `stateMu` is one step: `Prepare` and `Refuse`
(`prepareTurn`), `Commit` (`commitTurn`), `Add` (`Append`), `SwitchProvider`. Between
`Prepare` and `Commit` the provider answers or fails (`Answer`), or a stream delivers its
terminal event (`EventDone`), ends (`EndOfStream`), fails or is left by its consumer
(`Abandon`), also at `EventDone` itself, and then nothing is recorded. Events that change
nothing recorded are no steps. A consumer that switches the provider or reads a snapshot
from within the loop is covered, since those may happen between any two steps; one that
calls for a turn there waits for itself, which the model leaves out.

A message is its role and sender, or its provenance and whether it has paused. Two history
fields of a reply say which client gave it and how many messages that client was sent;
because a transcript only grows, the number says which messages. `Transcript` is the
abstract specification: one step adds a prompt and a reply that was given to exactly what
precedes it by the client it is attributed to. The content, `NormalizeForModel`, the sums of
`Usage` and the deep copy of a snapshot are left out; a call has one message.

### What costs something — `RetryTransport`, `BatchJobs`, `ModalityFailover`, `Delivery`

`RetryTransport` is `DoHTTPWithOptions` as a record and what may become of it: `NewCall`,
`Asleep` (the waits a failure may lead to), `GivesUp`, `Awake`. Both clients drive it one attempt a step.
In an attempt the provider may act whatever the client is told (`Fate`, `Ambiguous`), so an
answer can be lost, and a create that was given up on may arrive later (`LateCreate`).
Time is counted in units of the backoff, with its jitter and with `Retry-After`. As in the code the
hint is capped where the header is read (`ParseRetryAfter`) and only then compared with the
policy's delay (`BackoffFor`), so a delay above the cap stays as it is.

`BatchJobs` has one caller, its own jobs and other people's. `Submit` is the chain of
calls of the OpenAI client (look up the recovery key page by page, upload, create, and after an ambiguous
answer look up again), `SubmitInline` the single create of Anthropic and Gemini; `Recover`, `Get`,
`Cancel`, `CancelDirectly` likewise. The caller may submit again, the job runs at its own pace, and others'
jobs push the caller's to the next page in the middle of a scan.

`ModalityFailover` is `tryEach` over a chain of deployments, each with validation before
dispatch, its own usage recorder and its own exchange; all but the last have their retries
disabled. `acts` and `received` are history: what the providers did and reported. The four
operations differ in whether they may be resent, in whether Gemini needs one exchange per
image or per text to embed, and in who reports usage. `Delivery` composes both: a behaviour is of one of them, since
the clients share no state.

### A streamed reply — `NeutralStream`, four adapters, `StreamPipeline`

Each adapter is its parser's state and one operator per kind of line. `StreamPipeline`
connects a provider that sends the lines of one reply (block by block, where its
protocol allows it interleaved), the adapter, `StreamWithBoundaries` or none, and a consumer that
takes one event at a time, folds it (`Add`, the accumulator) and may leave. What the adapter
yields for one line is `queue`; `Pass` takes one of these events through the wrapper
(`Bracketed`), and `Finish` is the wrapper's return when the adapter has returned; what
either has for the consumer is `out`, and the next event is not asked for before the consumer has taken
that. `nesting`, `last` and `broke` are what an observer of the consumer's
events remembers of them; `misread` is history, that a garbled line was read. A line may be
garbled, an error event sent, the connection cut, and lines that servers leave out (an index, an id, the end of a block) may be missing. A text or
a call's arguments are the fragments they were sent in, so a spliced or half argument is
visible as such. `Completed` is what the adapter's `parseResponse` makes of the same reply:
the reference the fold is compared with.

### A conversation between models — `Handoff`, four `…Request` modules, `TurnLoop`

`Handoff` is `NormalizeForModel` as a function of the transcript: ids are rewritten, results
repaired, reasoning kept, demoted or dropped. `RequestOps` is what is decided before an adapter is
asked (protocol, capabilities, budgets); each request module is its adapter's
`buildRequest`: what it refuses and what of the messages it sends. `TurnLoop` has a user who says
something, answers some of the calls, or attaches something, a session that is handed from
model to model between turns, and providers whose replies hold whatever the request allows.
A turn that fails, or comes back broken (a Responses reply with a call stops to use the tool all the
same), is recorded as `Session` records it. Of the free `SamplingParams` the models keep what is
read of them: whether a sampling key is among them (`sampled`) and an effort (`passedEffort`).
`Handoff` leaves calls without an id alone, as the code does; no modelled reply has one. Parts carry
three history fields (who wrote them, which call they belong to, whether a result is real), which no code reads.

### The waits — `DialRace`, `IdleBody`, `RealtimeSession`, `DevicePoll`, `PeerWaits`

`DialRace`: each attempt is a goroutine that dials, tunnels and sends its result to the
channel; `race` is the loop around its `select`, and `Drain` the goroutine it leaves.
`IdleBody`: the consumer in `Read`, the timer's goroutine in `expire`, both step by step.
`RealtimeSession`: users in `Send`, `Recv` and `Close`; the mutex guards the flag only, so each
operation is its check and then its call. `DevicePoll`: the loop of `PollDeviceToken` with a
clock. They share no state; `PeerWaits` puts them under one roof, and a behaviour is of one.

## 4. Runs

| Run | Question | What it shows | Instance |
|---|---|---|---|
| `breaker` | Is a half-open circuit's one probe safe from everybody else? | `ClosedBelowThreshold`, `SingleProbe`, the refinement `ImplementsLease` (late, foreign and wrapped tokens included), and `AbandonedProbeReplaced`: never wedged | 3 token-carrying, 1 direct caller, threshold 2, 5 generations |
| `pool_refs` | Is every client closed exactly when its last user is done? | `ReferencesCounted`, `ClosedWithItsLastUser`, `BlamesItsOwnKey` under rotations, peeks, transient and auth failures, Close and a panic | 2 calls, 2 keys, 2 workloads |
| `pool_calls` | Do `Complete` and `Stream` use the breaker well? | `DrivesBreaker` (they refine `CircuitBreaker`), `ProbeNotStranded`, `VerdictsFitTheirCause`: a cancellation blames nobody, a transient failure ends in a recorded failure | 2 calls, 2 attempts, threshold 1, 2 workloads |
| `pool_live` | Does every call return, and a closed pool drain? | `CallsReturn`, `ClosedPoolDrains` | 2 calls, 2 attempts |
| `store_crash` | Can a reader or a crash expose half a conversation? | `NeverPartial`, `SavedSurvivesCrash`, `TempsCleanedUp` | 2 savers, 1 reader, 3 files |
| `session` | Do concurrent turns interfere? | `TurnsAreAtomic` (it refines `Transcript`, where a reply belongs to the client that gave it), `CallsReturn` | 3 callers, 2 clients, 2 messages and what is in flight |
| `delivery` | Is anything that costs done twice, or unreported? | `OneJobPerRecoveryKey`, `ToldTheTruth`, `RetriesKeepTheirTime`, `ChargedOncePerDeployment`, `CostsAreReported`, `RejectedStaysHome` | 3 backends, 2 requests, 3 jobs, 2 Submits, 1 late create, pages of 1; chains of 1 to 3 deployments, 2 images, 3 attempts |
| `streams` | Is what a consumer gets the reply, or an error? | `StreamedAsCompleted`, `TruncationIsAnError`, `ArgsNeverSpliced`, `BuffersBounded`, `BoundariesNest`, `BrokenTurnKeepsItsCost` | 4 providers, 7 replies of up to 3 blocks, 2 fragments each, 2 faults |
| `requests` | Does a conversation survive a change of models? | `EveryCallAnswered`, `ReasoningStaysWithItsModel`, `SaidIsSent`, `NothingRejectable`, `CanAlwaysGoOn` | 5 models, 4 settings, 2 replies and a turn in flight |
| `waits` | Is every connection closed, every cut named, and does every wait end? | `LosersClosed`, `ReachableIsReached`, `CutIsNamed`, `ClosedSessionIsOver`, `PollsObeyTheServer`, `WaitsEnd` | up to 3 addresses, 2 chunks, 3 users, 6 polls |
| `pool_authprobe`, `gemini_names` | see Findings | each refutes one statement of the sources | small |

Bounds. Races here are between two parties: a call and a rotation, an old probe and
a new one, two rotations, a call and `Close`. Two calls, each of which may be followed by
further ones on the same process, meet all of them. The breaker has four callers, so that a
superseded probe, the current one, a late outcome and a token-less caller coexist; 4 or
more generations make the counter wrap while tokens are out. Two keys are enough for a
rotation to leave and come back; one key gives the backoff path. `NumClients` is one per
call, one active, one being made and, where consumers panic, one left behind, which cannot be
exceeded (`NumClientsAssumption`). In `FileStore` three inodes give an
old version, a new one and a competing one; `MaxChanges` bounds removals. Symmetry is used
among identical calls and savers, in runs without liveness.
In `delivery` two Submits and one late create are the least with which a second job can
appear, a third job is another request's, and pages of one put a page boundary between any two;
the limits of time are such that the budget, the deadline and the cap on `Retry-After` each
decide in some behaviour (the cap of 5 lies above the first delay and below the longest);
a chain of three has a deployment that is neither first nor last, and
`MaxInt` is small enough to be reached by two answers. In `streams` two
fragments are enough to interleave, to lose one and to outgrow a limit of three; the replies
include parallel calls, text after a call, reasoning before one and server tools. In `requests` there is one model for each way an adapter
encodes, two replies so that an id can be repeated, left open and met again after a handover; the user's parts are few
because the adapters treat them one by one. In `waits` three addresses are one after a
failure and one after a timer; the intervals and expiries lie on both sides of their limits,
scaled down together.
`CHECK_DEADLOCK` is off where a behaviour ends: `delivery`, `streams`, `waits`.

Some properties are stated with what they leave out. `ProbeNotStranded` is checked
without authentication failures, which violate it (first finding below), and only while the
pool is open: a call that finds the pool closed keeps its probe, and nobody is
admitted through a closed pool any more. `VerdictsFitTheirCause` is checked with
retries enabled; with `DisableRetries` both loops return before `recordFailure`
(`pool.go:495`, `674`), so a transient failure is then never counted, except mid-stream.
`VerdictsFitTheirCause` is about steps: after a transient failure the admission is given back only
by recording it, unless the context has ended first; that every call ends at all is `CallsReturn`,
which is checked without a breaker. `OneJobPerRecoveryKey` allows one job more for each create that arrived after the client had
given it up: no lookup can see it. It is OpenAI's alone: the Submits of the other two ignore a recovery
key without a word, and only their `Recover` refuses.
`BrokenTurnKeepsItsCost` is about every turn that breaks after Anthropic's `message_start` was read, but
for a garbled line that ends the stream for its consumer: that one loses the usage (section 5).
`NothingRejectable` leaves out requests whose `max_tokens` is at most 1024 (section 5).
`BoundariesNest` says nothing of a consumer that leaves, who is owed no end of its block.
`StreamedAsCompleted` has calls whose arguments come in fragments; calls without any are outside
(`ArgsFragments`). `ClosedSessionIsOver` admits a session closed by its peer's end, whose connection nothing
closes; and the idle watchdog is checked for what it reports, not for whether a slow
consumer ought to be cut.
`ReferencesCounted` and `ClosedWithItsLastUser` except the one client a panic has left behind.

Fairness. `CircuitBreaker`: time passes; requests come back (each has a timeout); requests
keep arriving, without which nothing could be admitted. `PooledClient`: a running call's
own steps are taken (the Go scheduler), a provider's answer, a timeout or the consumer ends
every exchange, and `Rotate` is strongly fair because Go's mutexes starve nobody (a
waiter takes over after 1 ms). Cancellation, cooldowns and `Close` are not assumed to happen.
`Session`: a turn's own steps are taken, `turnMu` starves nobody, and clients answer or fail
and streams end or are left; nobody need ever switch the provider.
`PeerWaits`: the goroutines of a race, of a read and of a timer are scheduled and timers
expire; an attempt ends once its address has answered or its context is over (`net.Dialer` and
the tunnel's deadline); the token endpoint answers within the HTTP timeout. Providers,
proxies, peers, users and callers owe nothing: they may be silent for ever.

## 5. Findings

1. **A probe that draws a 401 is stranded** (`pool_authprobe`). `pool.go:510` (and 681, 635)
   skip `recordFailure` for authentication errors and nothing releases the probe: the
   circuit rejects everybody for another cooldown, the same call's retry on the healthy key
   included. `pool.go:502-503` says to re-arm a consumed probe after a client-side error.
2. **A Gemini result goes out under a wrong name** (`gemini_names`). The adapter numbers calls
   within a response (`call_0_f`), so the second response that calls `f` repeats the id;
   `uniqueToolID` (`normalize.go:189`) makes it `call_0_f#1`, and `resolveToolName`
   (`gemini.go:754`) reads the function's name as `f#1`. `gemini.go:740-751` calls it the
   strict inverse of `makeToolCallID`.

Observed while modelling; the models contain them where a module is named, and no run states
anything against them:

- A success that was in flight when another call's 401 disabled its key re-enables the key
  (`types.go:992`; `PooledClient`).
- The double check of a rotation compares key names (`pool.go:764`), so a client that was replaced
  by one of the same key is replaced again (`PooledClient`).
- A panic in the body of a range over `Stream` leaves a reference behind (`pool.go:648`;
  `PooledClient`, `abandoned`).
- The results of a finished Gemini batch are stored in the handle; above 16 KiB the
  handle fails its own validation and the job cannot be read any more (`geminibatch.go:327`;
  `BatchJobs`, `BigDigests`).
- When `Recv` meets the end of the connection it sets the flag, and a later `Close` returns
  early, so nothing closes the connection (`realtime.go:131-149`; `ClosedSessionIsOver` admits it).
- The idle timer keeps running while the consumer, not the provider, is slow, and an answer
  that was read completely can be reported as a timeout if the timer fires before the check
  (`config.go:233-243`; `IdleBody`).
- A line that cannot be parsed after Anthropic's `message_start` is yielded as a bare error with an
  empty event (`anthropic.go:928`), where every other break goes through `fail` with the usage;
  `CollectStream` stops at it and returns none, although `streamfold.go:83-85` promises "the usage
  seen so far". A consumer that reads on gets it in the end (`BrokenTurnKeepsItsCost` excepts it).
- With a `ThinkingLevel` and a `max_tokens` of at most 1024, `buildRequest` gives up thinking
  (`anthropic.go:731`) when it has already put earlier thinking blocks into the request, which
  `anthropic.go:509-511` says the API rejects (`NothingRejectable` excepts it).
- Gemini makes images one by one; when a later one fails the earlier ones are lost, and
  reported as billed (`modality.go:187`; `ModalityFailover`). An image request whose answer was lost
  is charged again by the next deployment: the chain's trade-off, which
  `ChargedOncePerDeployment` leaves open between deployments.
- Chat Completions emits half-accumulated calls before the error of a cut stream, marked by
  their raw input (`OpenAICompatStream`); Anthropic's streamed call without argument fragments
  has the input `""` where `Complete` has `{}` (`AnthropicStream`).

A limit that the sources admit to ("best-effort", `store.go:97`): the directory that the first
Save makes is not on disk until the kernel writes it back, because its parent is never synced
(`store.go:112`); a crash before that takes the saved conversation with it.

## 6. Proofs

`CircuitBreakerProofs`, for every set of callers, threshold and counter size, assuming only
`ThresholdAssumption`, `AnyProbeAssumption`, `DirectCallersAssumption` and
`NoCallerAssumption`:

| Theorem | Says |
|---|---|
| `TypeCorrect` | the fields stay in range; no generation is ever the wildcard |
| `ClosedIsBelowThreshold` | a closed circuit's count is below the threshold |
| `TokensIdentifyProbes` | `TokenDiscipline` |
| `AtMostOneProbe` | `SingleProbe` |
| `OnlyTheHolderResolves` | `ProbeResolvedByItsHolder` |
| `BreakerImplementsLease` | `ImplementsLease`: initial state to initial state, every step to a step of `ProbeLease` or a stutter |

The argument: one lemma per method says what it does to the record (`AllowFacts`,
`SuccessFacts`, `FailureFacts`, `ReleaseFacts`). `SingleProbe` is not inductive by itself:
two requests with equal stale tokens could both become probes when the counter reaches
that value. `TokenDiscipline` is the strengthening — tokens in flight that are not
reserved are distinct — and it is preserved by an admission because `NoLap` makes the new
generation differ from every token in flight; a report only removes a token. From it
follow `SingleProbe`, that the owner of the lease is unique, and with that the
refinement: an admission is `Enter` or `Probe`, a report that moves the circuit a `Verdict`,
any other a `Leave`, the ageing of the probe `Expire`.

`FileStoreProofs`, for every set of savers and readers and every bound, assuming
`BoundsAssumption`:

| Theorem | Says |
|---|---|
| `TypeCorrect` | inodes, entries, steps and counters stay in range |
| `WholeFiles` | `NeverPartial` |
| `SavesAreDurable` | `SavedSurvivesCrash` |
| `TempsAreRemoved` | `TempsCleanedUp` (of steps) |

The argument for `WholeFiles`: inodes are numbered in the order of their creation, so a new one
is younger than every one a Save, a Load or an entry refers to (`Fresh`); hence a Save that
still writes is alone with its inode (`WrittenAlone`); hence an inode that is whole in the
cache and on disk stays so, also through a crash, whose new cache is the disk
(`SettledStays`); a Save makes its inode so before it renames (`SyncedBeforeRename`); and
whatever can be reached through `<id>.json` was reachable before or has just been renamed
(`ReachableGrows`), so it is settled too (`ReachableSettled`). `NeverPartial` alone is not
inductive: it says nothing of the inode that the next rename will install. For
`SavesAreDurable` the invariant orders the four places a change is recorded (`Durable`):
promised, on disk, in the cache, ever made; with the clause that a Save between its rename
and its directory sync still finds its change, or a later one, in the cache. A crash that
loses the directory itself (end of section 5) starts the history of promises anew. For
`TempsAreRemoved`, a Save returns without removing its temporary file only before it has one or after
the rename, which has taken the name with it (`NameGone`).

`SessionProofs`, for every set of callers and clients, assuming `NoCallerAssumption` and
`FirstClientAssumption`:

| Theorem | Says |
|---|---|
| `TypeCorrect` | the transcript consists of messages, calls are in their steps |
| `SessionImplementsTranscript` | `TurnsAreAtomic`: every step is a step of `Transcript` or a stutter |
| `TrueProvenance` | `ProvenanceIsTrue` |

The refinement needs to know at `Commit` that the transcript is still the one the request was
made from. `Alone` says why: whoever is inside a turn holds `turnMu`, and what it has
captured is still current (`Current`). Only `Add` and `Commit` change the transcript
(`TranscriptSteps`), and both happen inside.

`CircuitBreakerOpsProofs` (what the breaker's operators do to its record, shared with
`CircuitBreakerProofs`) and `PooledClientProofs`, for any number of calls, keys, clients and
attempts, with a breaker or without one, and any mix of workloads, assuming
`RequestsAssumption`, `WorkloadsAssumption`, `NumClientsAssumption`, `NumKeysAssumption` and
the breaker's two:

| Theorem | Says |
|---|---|
| `PoolInvariant` | `PoolInv`, the inductive invariant |
| `CountsReferences` | `ReferencesCounted` |
| `ClosesWithLastUser` | `ClosedWithItsLastUser` |
| `BlamesOwnKey` | `BlamesItsOwnKey` |
| `VerdictsFit` | `VerdictsFitTheirCause` |
| `NoProbeStranded` | `ProbeNotStranded`, when no workload panics or draws an authentication failure |
| `PoolDrivesBreaker` | `DrivesBreaker`: every step is a step of `CircuitBreaker` or a stutter |

The argument: a call's plan `todo` is one of two dozen (`Plans`), and the plan alone says
whether the call holds its client (`HoldsWhilePlanned`), whether it still owes the breaker a
report (`AdmittedWhilePlanned`) and whom it may blame (`FitsItsCause`). Whoever is between the
making of a client and the release of the old one holds `rotateMu` (`RotatesAlone`), so there is
at most one client that is not installed. With these the count of a client is the number of
calls, and of places of the pool, that refer to it, at every step (`CountsTell`): each action
adds or removes one reference and changes one count by one. The count is zero exactly for
clients that nobody refers to, which is `ClosedWithItsLastUser`; the other two state
properties follow from `PoolInv` as well. `VerdictsFit` is about steps: a call whose failure is
not transient plans no `recordFailure` (`FitsItsCause`), and one that owes the breaker a failure goes
on owing it (`Owed`) until it records it or its context ends (`OwnVerdict`). For the breaker, a step draws a token, reports one, forgets
one or leaves the breaker alone (`BreakerMoves`). That a call which forgets an admitted token
has met an authentication failure, a panic or a closed pool needs two more clauses, on the
causes of errors (`Explained`) and on the generation of a half-open circuit (`Generated`).
The hypotheses of `NoProbeStranded` leave out the first finding, and panics, whose calls
report nothing. `PoolDrivesBreaker` makes the theorems of `CircuitBreakerProofs`
available for the pool: there a call may report anything at any time or vanish.

`DeliveryProofs`, for any number of Submits, jobs, pages, images and deployments and every
retry policy with positive delays and factor, assuming `RetryAssumption`, `BatchAssumption`
and `FailoverAssumption`:

| Theorem | Says |
|---|---|
| `BatchInvariant`, `FailoverInvariant` | `BatchInv`, `FailoverInv`, the two inductive invariants |
| `SubmitsOnce` | `OneJobPerRecoveryKey` |
| `RetriesInTime` | `RetriesKeepTheirTime` |
| `TellsTheTruth` | `ToldTheTruth` (of steps) |
| `ChargesOnce` | `ChargedOncePerDeployment` |
| `ReportsCosts` | `CostsAreReported` |
| `RejectionsStayHome` | `RejectedStaysHome` |

Both start from what one call of the retry transport keeps (`NewCallKept`, `SpendKept`, `AsleepKept`,
`AwakeKept`): a wait is only begun when the attempt after it is in time. For batches, `Control`
says which call fits which stage, and that a create is never resent; `Made`, that each
Submit has made one job, or has left one create under way, but not both; `Fresh`, that a
Submit before its create has done neither. `OneJobPerRecoveryKey` needs the lookup before
the create to have missed only what came later, while pages move: `Surveyed` says that the
keyed jobs from the cursor to the number of jobs the lookup began with are those it has found, and that the
others have arrived since. An inventory that reaches the end without a find
therefore leaves at most `arrived` keyed jobs (`FewYet`), to which the create adds one. The same
clause gives `ToldTheTruth` for lookups. For failovers, every deployment passed has been
reported with what it reported itself (`Tried`, `Billed`) and left for a reason the policy
allows (`Handed`); `Charged` counts images made against images asked for, with the present
exchange's still open, which needs that a creating exchange is not resent.

`PeerWaitsProofs`, for every set of users, every length of a body, every name's addresses and
everything a server can send, assuming `PollAssumption` and `ResolutionsAssumption`:

| Theorem | Says |
|---|---|
| `SessionsEndOnce` | `ClosedSessionIsOver` |
| `CutsAreNamed` | `CutIsNamed` |
| `PollsAreAllowed` | `PollsObeyTheServer` |
| `RaceClosesLosers` | `LosersClosed` |

Each has an invariant of its own component, kept by its steps and untouched by the others'.
Sessions: at most one goroutine is between the flag and the connection's `Close`, and while it
is the connection has not been closed (`SessionInv`). Bodies: a body is closed only after the
mark or by a consumer that reads no more, so whoever sees it closed also sees the mark
(`BodyInv`); closing before marking would break it. Polls: the interval has grown by what
the `slow_down`s ask for, or has reached the ceiling (`PollInv`); `Slower` is the
arithmetic of one more. Races: the interleaved order is a permutation of the addresses (`TriedOnce`),
so each attempt is started once (`InOrder`) and sends one result (`SentOnce`); what the race still
expects is the attempts that run and the results not yet received, and what is open is
held by an attempt, carried by a result, or the winner's (`DialInv`).

`StreamPipelineProofs`, for all four adapters, replies of any number of blocks, any number of
fragments, limits and faults, assuming `StreamAssumption` and `ArgsFragmentsAssumption`:

| Theorem | Says |
|---|---|
| `StreamIsInvariant` | `StreamInv`, the inductive invariant |
| `TruncationNeverPasses` | `TruncationIsAnError` |
| `BoundariesAlwaysNest` | `BoundariesNest` |
| `CallsAreInvariant` | `CallsInv`, the inductive invariant of calls and buffers |
| `BuffersStayBounded` | `BuffersBounded` |
| `ArgumentsStayWhole` | `ArgsNeverSpliced` |

The argument goes through a contract that every adapter keeps on every line (`HandledWell`,
proved in `AnthropicHandles`, `OpenAIHandles`, `ResponsesHandles`, `GeminiHandles`): it
either stops, having yielded plain events (content, thinking, calls) and then one event that
ends a turn, or goes on, having yielded plain events only or a single error. The
terminal event moreover is yielded only for a line that ends the turn (`EndsTurn`), and these lines are
sent after every block (`LinesAre`, `AllSent`). So a `done` that is queued, out or folded
means that every block was sent (`DoneIsLate`), and a stream that has closed with nothing
left to take has been ended by one or by an error (`EndArrives`). For the boundaries, what is
out is followed to its end: `Through(nesting, out)` is what the consumer will see once it has
taken `out`, and that is the block the wrapper has open (`Mark`); `BracketedNests` is that
one event, wrapped, leads from one to the other. `NestingOK` says this at every point between two
events, where `BoundariesNest` alone says nothing of what is still to be taken.

`CallsInv` is about the arguments of calls, where each adapter identifies a call in its own
way. It ties the parser's state to how much of each block was sent (`OrderOK` gives the order
in which a block's lines can be), because "never spliced" is not inductive alone: that the next fragment
belongs to the call it is appended to depends on what the parser keeps.

- Anthropic (`AnthropicFit`): the one call being read is that of the last block begun.
- OpenAI (`OpenAIFit`): every call kept is one block's, as far as it was sent, and the next
  delta of a block in progress finds its own call: by its number or, where deltas have none,
  as the latest.
- Responses (`ResponsesFit`): a block in progress has, under its item or its place, a buffer of
  its own with exactly the fragments sent; a final item replaces it by the whole.
- Gemini sends calls whole and keeps none (`GeminiCalls`).

`Counted` is kept with it: what counts against the limit is the number of fragments
buffered, so a call that is finished, replaced or dropped gives back what it took. Per adapter
one lemma says what a line does to this (`AnthropicReceives`, `OpenAIReceives`,
`ResponsesReceives`) and one what a line left out does (the `...Skips`); the fit is needed only
while the adapter is read from (`Live`). Every event queued, out or folded is `Unspliced`.

The theorems on `TypeOK`, `TokenDiscipline`, `ProbeResolvedByItsHolder` and `ProvenanceIsTrue` are steps
of these arguments or consequences of the refinements; no run checks the four on their own, because
`ImplementsLease` and `TurnsAreAtomic` fail where they would.

TLC has checked each inductive invariant on the instance of its run before it was proved. Where the argument is an
induction over numbers or finite sets, it is made with sets in place of predicates (`SetInduction`,
`IterationExists` for recursive functions in `DeliveryProofs`). A `CASE` whose guards overlap
is a `CHOOSE` to the provers, so every `CASE` of the models has guards that exclude each other.

Only model-checked: liveness (`AbandonedProbeReplaced`, `CallsReturn`, `ClosedPoolDrains`,
`ReachableIsReached`, `WaitsEnd`), which under fairness is out of the prover's reach;
of `StreamPipeline`, `StreamedAsCompleted` and `BrokenTurnKeepsItsCost`, which compare the
consumer's fold with the reply `Complete` gives, itself made by `FlattenSeq` and `SelectSeq` over blocks;
and `TurnLoop` (`EveryCallAnswered`, `ReasoningStaysWithItsModel`, `SaidIsSent`,
`NothingRejectable`, `CanAlwaysGoOn`), whose normalisers are folds over transcripts. What such
a fold computes for every input is an induction over data, out of the prover's reach as well.

## 7. Not modelled

- The tables of models, capabilities and prices, and validation by lookup in them: the request
  models read what they decide (a model's profile) as data.
- JSON forms, media types and bytes, citations, cache markers, logging and redaction,
  configuration defaults: data without a state. An answer's content is usable or not.
- The lines of batch files and `Results`, which reads a finished job.
- The sums of a `Conversation`'s usage and the prices: arithmetic over one caller's data.
- The classification of addresses as private; a table.
- The retry hook, the breaker's callbacks and usage hooks run user code outside all locks.
- Construction, middleware, mocks and examples hold no state that several actors share.
