# exebox in TLA+

A specification of the exebox execution service (API server, BullMQ queue,
workers, Docker sandbox, sessions, WebSocket gateway, rate limiter, API keys),
model-checked with TLC and proved with TLAPS: every safety property the runs
check is a theorem for every value of the constants. Liveness is model-checked.
File and line references are to the repository (`apps/`, `libs/`, `prisma/`);
the manifest `PROJECT.json` gives the lines every definition stands for.

## The system

A client posts a program. The route creates a row in the `executions` table,
adds a BullMQ job whose id is the row's id, sets the row to `QUEUED` and answers
201. A worker fetches the job, sets the row to `RUNNING`, runs the program once
(or once per test case) in a Docker container, stores the outcome and publishes
Redis events on the way; the WebSocket gateway forwards some of these to
subscribed clients. The client reads the row with `GET /v1/executions/:id`.

| Component | State it keeps | Operations | What makes it correct |
|---|---|---|---|
| Submission routes (`execute.ts`, tail of `session.ts`) | position of each request between its awaits | create row, add job, set `QUEUED`, answer | a job never without its row; an answer the row agrees with |
| Queue (`libs/queue`, BullMQ) | job state, lock, `attemptsMade`, stalled counter | add, fetch, finish, fail/retry, backoff, lock expiry, stalled check | bounded tries, final ends, nothing lost with its worker |
| Executions table (`schema.prisma`) | status, outcome columns, error | unconditional single-row updates | outcome never erased, final once all writers are gone |
| Worker processor (`executor.ts`, worker `index.ts`) | one invocation per slot, process life cycle, `isShuttingDown` | `processExecutionJob`, catch branch, shutdown, crash, boot | update before event, all test cases, no success for an error |
| Sandbox (`libs/sandbox`) | workspace directory, container, local image | prepare, pull, create, start, attach, race, wait, remove, clean up | a result only for a finished program, every call returns, nothing left behind |
| Sessions (`session.ts`, `session-manager.ts`, `reaper.ts`) | session row, container, one cycle per reaper | open, exec, delete, create container, reap | no container lost, expired sessions end, a deleted one stays closed |
| WebSocket gateway (`ws-server`) and the Redis client of each worker (`executor.ts:11`) | rooms, subscription to Redis, messages not sent or not answered yet | auth, subscribe, forward, shutdown, publish | a subscriber that also reads the row learns the outcome |
| Rate limiter (`rate-limit.ts`) | sorted set per address, its expiry | add, trim, count, expire | never more than the limit in a window, no refusal for the past |
| API keys (`api-keys.ts`, `auth.ts`, the key scripts) | key rows and a Redis set | create, revoke, authenticate | the two copies agree |
| Read routes, OpenAPI, health, logger | none | queries | no state to model |

Hard behaviour: the route and the worker update one row without coordination;
a worker that loses its lock goes on running (a *zombie*) while another retries;
two retry budgets (attempts and stalls); crashes and shutdowns between any two
awaits; failing database and Redis calls that may or may not have taken effect;
fire-and-forget events that are held back, lost or sent twice on their way to a
channel that keeps nothing; the timer of the
sandbox against stream and exit; revocations that meet creations
and requests half-way; requests that die between two Redis calls.
`PROJECT.json` lists these as hazards, each at its line.

## Modules

| Module | Models | State |
|---|---|---|
| `ExecutionIds` | identifiers | (constants) |
| `JobQueue` | the queue as configured in `libs/queue/src/index.ts` | `job` |
| `ExecutionStore` | the table and the updates made to it | `row`, `faults` |
| `ExecutionRoute` | the three handlers that submit | `route` |
| `Executor` | processor, `processExecutionJob`, worker life cycle | `run`, `events`, `worker` |
| `Pipeline` | composition of the above with outages | `outages` |
| `AtLeastOnce` | what the pipeline promises for one submission | `phase`, `tries`, `recorded` |
| `Sandbox` | `executeInSandbox` and its container | `call`, `box`, `dir`, `image` |
| `RateLimiter` | `rateLimitMiddleware` over its sorted set | `clock`, `log`, `expiry`, `req`, `faults` |
| `ApiKeys` | keys in PostgreSQL and Redis, who gets in | `row`, `mirror`, `creation`, `revocation`, `entry`, `faults` |
| `Sessions` | routes of a session, its container, the reaper | `row`, `expired`, `containers`, `making`, `cycle`, `deletion`, `exec`, `faults` |
| `Gateway` | rooms and forwarding between Redis pub/sub and sockets | `wire`, `link`, `joined`, `heard`, `drops` |
| `Streaming` | composition of `Pipeline`, the workers' Redis clients, `Gateway` and clients that read the row | `redisPub`, `voice`, `resent`, `view`, `lost` |
| `JobQueueProofs`, `PipelineProofs`, `OutcomeProofs`, `StreamingProofs`, `SandboxProofs`, `RateLimiterProofs`, `ApiKeysProofs`, `SessionsProofs` | theorems | |
| `MCPipeline`, `MCSandbox`, `MCRateLimiter`, `MCApiKeys`, `MCSessions`, `MCStreaming` | constants for TLC | |

How the model reads the code:

* One action is the code between two awaits. `run[s].pc` names the await the
  invocation in slot `s` is at; `route[e]` does the same for a request. The
  three routes have one await sequence and share one module.
* `row[e].result` stands for `stdout`, `exitCode`, `runtimeMs` and `memoryKb`
  together and says which update wrote them; `row[e].cases` how many sandbox runs
  they fold together. `FailedRow` leaves them alone because the catch branch
  (`executor.ts:256`) sets only status, stderr and error.
* `RunSandbox` has two outcomes because the executor tells two apart: the string
  `TIMEOUT` in `result.error`, and everything else. A Docker failure is returned
  as stderr text and takes the success branch. A batch never looks at `error`.
* `publishEvent` is not awaited. In the pipeline `events` records what was handed to
  the worker's ioredis client; what becomes of it is `Streaming`'s.
* A failing call (`Fault`) may have taken effect. `updateProgress` does not check
  the lock; `Settle` does, and without the lock the run just ends.
* BullMQ is external. Modelled: one job per id, a lock per fetch, the attempt is
  counted when a run ends under its lock, a stalled job returns to waiting, and
  the stall over `maxStalledCount` leaves a deferred failure (`Overdrawn`): the
  worker that fetches the job next fails it for good, counting an attempt, without
  invoking the processor. Removal of old finished jobs is left out: ids are cuids
  and never reused.
* In `Sandbox`, `missed` is what the program wrote before `attach`; the timer may
  fire at any moment of the race; the stream may end before the program does
  (`StreamCut`, a dropped connection); `remove({force})` on a running program
  would show as `killed`. Any Docker request may fail after taking effect.
* `RateLimiter` counts time in the unit of `Date.now()`. Its key is the address,
  because the middleware runs before authentication, so the member `ip:now` is the
  stamp alone. `lapsed` remembers that the set expired between a request's `zadd`
  and its `expire`. Any Redis call may fail, with or without effect, and the catch
  branch lets the request pass (`unchecked`). The process may die between any two
  calls of a request (`Die`); nobody finishes what is left. API processes and Redis are taken to
  agree on the time.
* `ApiKeys` has four doors: routes behind `authMiddleware()`, `GET /v1/executions`
  behind `authMiddleware(false)`, `GET /v1/executions/:id` without a middleware
  (`execution.ts:10`) and the gateway. Where nobody looks at a key (`Unasked`) a
  client walks in with or without one. `ApiKeys` lets a client present a key once its creation was answered, and lets a
  revocation name a key once its row exists, since `GET /v1/api-keys` lists it
  then. `early` and `after` remember what had been answered when a request came.
  A creation may also be a script's, which survives the death of the API process
  (`Crash`) and does not swallow a failing `sadd` (`ScriptFails`).
* In `Sessions`, `Provisioned` are the sessions `createSessionContainer` is called
  for: none as shipped, since nothing calls it. The other instances say what the
  session manager and the reaper do once something does. One DELETE and one exec
  of each session are modelled; a second DELETE writes the same status. The
  statuses `IDLE` and `EXPIRED` are written nowhere, and the result of `stop` is
  ignored, so it has no outcome of its own. `Cycle` is an invocation of the
  interval's callback, of which several may be at work, of one worker or several.
* In `Gateway`, `wire` is what Redis has delivered and `sub.on('message')` has not
  handled yet; the two emits of one message are one step. Subscribing, leaving,
  disconnecting and a new gateway change `joined` only. `heard` and `view` start
  over with a socket. A client subscribes with the id its 201 gave it, in any order
  with the job's progress, and may then read the row once. `InSession` names the
  executions whose job carries a session id, and `Wanted` the rooms a client asks
  for: as shipped no exec in a session is accepted, so nothing reaches a session
  room, and the run has execution rooms only.
* In `Streaming`, `redisPub[w]` is the ioredis client of worker `w`, external and
  modelled with its defaults, since the code sets no option: what is published waits
  in `queued` (the offline queue) for as long as it likes, also after its run has
  ended, reaches Redis in order (`Transmit`) or is rejected and swallowed
  (`Swallow`, `executor.ts:14`). Until its reply is in, a command may be sent once
  more after a reconnect (`Resend`, `autoResendUnfulfilledCommands`); the model lets
  every command of a connection miss its reply. The clients of two workers know
  nothing of each other, so messages of one execution may overtake each other. A
  worker that ends takes its client with it (`disconnectRedis`). `voice`, `resent` and
  `lost` are histories: who published events of an execution, what was sent again,
  and whether a message was ever swallowed, dropped, or published while the gateway
  was not subscribed.

## Runs

Constants are chosen so that every budget is exceeded in some behaviour and no
larger: more of the same adds states, not cases.

| Run | Instance | Question |
|---|---|---|
| `pipeline` | 1 submission of 2 test cases, 2 workers of one slot, 2 attempts, 1 stall, 3 faults, 2 outages | row, events and queue agree; tries bounded; outcome covers all test cases; when a job can fail without its row saying so; refinement of `AtLeastOnce` |
| `pipeline_live` | 2 submissions (plain and batch), 1 worker with 1 slot, 1 fault, 1 outage, fair | accepted submissions finish and show their outcome, a timeout included |
| `late_queued` | no fault, no outage | *violation*, see below |
| `sandbox` | 2 calls, 2 chunks of output, fair | results, clean-up, image race, return |
| `sandbox_leak` | 2 chunks, 1 call | *violation*, see below |
| `rate_limiter` | 3 requests of one address, window 3 ms, limit 1, 5 ms, 1 fault, any deaths | what the window admits and refuses, and when its set is left without an expiry |
| `rate_limiter_keys` | 3 requests with 2 API keys | *violation*, see below |
| `api_keys` | 1 key, 2 revocations, 2 entries by any door, 2 faults | when row and set agree, whom a look at a key lets in |
| `api_keys_open` | the same | *violation*, see below |
| `sessions` | 2 sessions, 1 of them with a container, 2 overlapping cycles, 2 faults, fair | containers lost or stranded, exec after DELETE, reaping |
| `sessions_shipped` | 1 session, no container, no fault, fair | *violation*, see below |
| `streaming` | 1 submission, 2 workers of one slot, 1 client, 2 attempts, 1 stall; 2 faults, or 1 drop, or 1 outage (`Budget`) | what a client believes and in which order it hears |

Why the bounds are enough. `pipeline`: two outages allow a stalled recovery while
the first run is still alive (lost lock) and a second recovery that exhausts
`MaxStalled = 1`; two faults, or a fault and a shutdown, exhaust the attempts. The
third fault is one more than attempts, so that the precondition of `FailureVisible`
matters (with `faults <= Attempts + 1` TLC refutes it), and an outage may be a death
between two test cases. The branch without test cases, which alone records a
timeout, is in `pipeline_live` and `streaming`. A second submission
adds no interaction through the row or the job, which are per id, but through slots
and workers: `pipeline_live` makes two compete for one slot, whose worker may be
lost with the job in hand and booted again. The queue alone is not run: its
properties are checked where the executor drives it, and proved of it alone.
In `rate_limiter`, three requests are one more than a window of limit 1 and a
third that trims or expires behind their back, and three milliseconds of window
leave room for one of delay: every exception in its properties is needed there
(without it, TLC finds a counterexample). Addresses and API keys share nothing
with each other, so one is enough; requests of a kind are symmetric.
In `sessions`, two cycles can both hold a session at any two points, the session
without a container keeps a snapshot from having one member, and two faults let a
removal and an update of the same pass fail.
In `streaming`, a drop is a disconnect, an unsubscribe, a lost connection of the
gateway or of a worker, or a gateway restart; two faults are the attempts, which
`LearnsOutcome` allows; with two workers the second attempt may publish through another
client than the first. Late and lost publishes need no budget. Combinations
of the three kinds of trouble are left to the proofs. Every other exception is
needed in this instance: without `OneVoice`, the condition on `lost` or on `view`,
`TIMEOUT` or `QUEUED` TLC refutes `LearnsOutcome`, and without `OneVoice`, `resent` or
the stalls `CompletedIsLast`. The bound on outages is not: it takes two of them to
end a job without an event.
The bounds `MaxFaults`, `MaxOutages` and `MaxDrops` appear in the guards `Fault`,
`Outage` and `Drop` only; `Budget` is a state constraint of the one run. All these systems stop when nothing is left to do, so the
runs do not check deadlock; that nothing is stuck is what the liveness properties
say.

Every property of a passing run has a mutant, a plausible bug of the code written
as an operator beside the definition it would replace (for instance
`MarkQueuedUnawaited`, `PublishFailedSwallows`, `MoveStalledUncounted`), which TLC
refutes under the same configuration.

### What the violations show

* `DoneIsNotQueued`: `execute.ts:45` updates the row to `QUEUED` after the job was
  added, without a condition. A worker that finishes first has `COMPLETED`
  overwritten, and nothing ever repairs it: a client that was told
  `execution:completed` (README.md:212, 'Done') polls `QUEUED` for ever.
  `OutcomeVisible` shows that for jobs that never stalled this is the only way a
  completed job hides.
* `RemovedAfterTimeout`: after a timeout the sandbox deletes the workspace and
  returns; the container, `removeAfter: true` (`libs/sandbox/src/index.ts:22`)
  notwithstanding, is neither stopped nor removed.
* `PerKey`: README.md:235 has the window 'per-key', but `app.use(rateLimitMiddleware)`
  (`apps/api-server/src/index.ts:22`) runs before any `authMiddleware`, so
  `req.apiKeyId` is never set and all keys behind one address share one window.
* `KeyRequired`: README.md:136 has all requests but `/languages` and `/health` 'require
  an API key', and README.md:193-195 and `openapi.ts:156` ask for one on
  `GET /v1/executions/:id`. That route has no middleware (`execution.ts:10`), and the one
  of `GET /v1/executions` lets a request without a header pass (`auth.ts:29`), so neither
  a missing nor a revoked key keeps a client out.
* `ReadyShortly`: `session.ts:92` tells the client of a session without a container
  to 'Try again shortly', but `createSessionContainer` (`session-manager.ts:9`), the
  only code that would give it one, has no caller: the answer never changes. Nor
  does the session end: it expires, every cycle selects it, and
  `destroySessionContainer` returns early without a container
  (`session-manager.ts:71`).

What the passing runs found to be the exact promise: `WindowLimit` holds for a
window shortened by the slowest request's time in Redis and only counts requests
whose set did not expire under them, and it bounds milliseconds, not requests
(two requests in one millisecond are one member). `QuietSetExpires` says when a set
is left without an expiry: only when the last request of its address to end was cut
short, by a failing call or the death of its process. `NoEntryAfterRevocation` is about
the doors that look at a key, not about the two `KeyRequired` names; it and
`CopiesAgree` need both of their exceptions: a failed second call, and a
revocation that overtakes the creation. `NoOrphan` needs its `faults = 0`: a failing
removal is logged and the row forgets the container (`session-manager.ts:81`), and a
failing update after `start` leaves one no row names. `OnlyDeleteStrands` names the one way a
container is left for good without any failure: DELETE 'marks for destruction' what
no cycle selects any more. `LearnsOutcome` says how a client can know: subscribe,
then read the row, then listen; a timeout is only found by reading, as its event is
not forwarded (`ws-server/src/index.ts:76`). It holds however late, and however often,
one worker's events arrive, but not when two workers published them: a `failed`
of the first attempt that its worker's client held back may reach Redis after the
second worker's `completed`, and the client believes FAILED for good although nothing
was lost. `CompletedIsLast` has the same exception, needs that nothing was sent twice,
and a job that never stalled: a second run of a job whose first still publishes mixes
their events. No document promises more, so these are exceptions and not findings.

### Fairness

`Pipeline!Fairness`: weak fairness of each slot's next await, of the fetch loop and
the timers of BullMQ for each job (backoff, lock expiry, stalled check), and of a
stopping worker's exit. Each is a call Node.js completes or a timer it or Redis
fires; per-job fairness of the fetch is justified because all jobs have one
priority and are fetched in order. A slot in the sandbox is assumed to get an
answer, which is what `CallReturns` shows of the sandbox except after a cut
stream. Nothing is assumed of clients, restarts or outages: `AcceptedFinishes` is
stated for the behaviours in which some worker is up for good in the end.

`Sandbox!Fairness`: requests to Docker are answered and the timer fires. The
program is owed nothing and may run for ever, and `container.wait()` is then not
assumed to answer.

`Sessions!Fairness`: the reaper's interval keeps firing on some worker and its awaited
calls return (`Reap` of each cycle), time passes (`Expire`), and the awaits of a
started call return. Nobody owes a DELETE, an exec or a first call.

## Proofs

All theorems are checked by `tlapm` for arbitrary sets of executions, slots, workers,
clients, sandbox calls, keys, requests, addresses, sessions and reaper cycles, any
`Attempts >= 1`, `MaxStalled`, window and limit, and any bound on faults, outages and
drops. The only assumptions are the named `ASSUME`s of the modules, which TLC
evaluates in the runs: `None` is not an id or slot, budgets are naturals, every slot
has a worker, every execution a number of test cases, every client an execution it
watches, every request an address, and the rate limiter's keys live at least as long
as its window (`rate-limit.ts`: `Ttl >= Window`). Nothing is assumed finite.
Every invariant below that strengthens a property was checked by TLC on that
property's run before it was proved.

* `JobQueueProofs`. `InvocationBound` is not inductive. `BudgetInv` adds what the
  invocations were charged to and what is left of the budgets in each job state; a job
  stalled too often is `Overdrawn` and gets no more invocations, whoever fetches it.
* `PipelineProofs`. `NextIsQueueStep`: the job part of every pipeline step is a
  step of the queue alone; hence `PipelineUsesQueue` (refinement) and the bound on
  tries in the whole system. The inductive invariant `PInv` adds to the types and
  `QueueInv`: `RunInv` (a busy slot's job was charged, and past the storing update
  the outcome is in the row), `RequestInv` (a job is added only after its row),
  `TraceInv` (outcomes and events only exist for jobs that were tried; needed so
  that creating a row cannot erase one). From it: `TypeOK`, `ResultKept`,
  `EventBacked`, `JobHasRow`, and `SettledForever` as an action property.
  The 11 actions of a slot share three lemmas: what they leave alone
  (`SlotStepFrame`), that rows only fill up (`SlotStepGrows`), and what they
  store (`SlotStepOutcome`). `PipelineKeepsPromise`: every step maps to one of the
  five actions of `AtLeastOnce` or a stutter, under the mapping in `Pipeline`.
* `OutcomeProofs`, on top of `PInv`. `SlotFlow` states the control flow of one run
  once, and each proof reads its steps from there. `AllCasesRecorded` needs where a run
  is in its loop (`CaseInv`: it reaches the update only with every case).
  `OverlapNeedsStall` is proved by counting: the living runs without their job's
  lock never outnumber its stalls, but for one while the job is active without a
  holder (`ZombieInv`); a fetch cannot happen before that one is charged. A job that
  never stalled therefore has one run (`SoloRun`), which gives `OutcomeVisible` from
  what that run shows (`VisibleInv`). `FailureVisible` pays for every failed attempt
  with a failing call and for a silent one with two (`FaultsPaid`), which holds as
  long as exactly the holders of active jobs are alive (`Calm`).
* `StreamingProofs`. `StreamingUsesPipeline` (refinement): gateway and clients only
  listen, so everything proved of the pipeline holds while they watch.
  `CompletedIsLast` needs the whole way of a message: once `completed` is published the
  job's run has nothing left to say (`SentInv`, from `ZombieInv`), only a worker that
  published has anything in its client (`VoiceInv`), and `OrderInv` follows the
  message: while `completed` waits in the client it is the last of its execution
  there, then on the wire, and once it was heard nothing of it is anywhere. For
  `LearnsOutcome`, `Closes` is a queue whose last final message is the outcome;
  `Agrees` is what a client will believe when it has heard all that is still in the
  worker's client and on the wire, also if the unanswered part is sent again, and once
  a run said its last word (`Won`, `Gone`) every client agrees with the row
  (`LearnInv`), because the run alone writes it (`StoredInv`) and a client outside the
  rooms heard and read nothing (`JoinInv`). Only the run's own last event can change
  that (`ToldStays`, `LastWord`).
* `SandboxProofs`. `SandboxInv` says per call where its container is at each await
  (`BoxInv`), what of the output was heard (`OutputInv`), what a result implies
  (`ResultInv`), that the workspace is there (`DirInv`) and the image is (`ImageInv`). A
  step touches no other call, and no step takes the shared image away (`Alone`).
* `RateLimiterProofs`. `QuietSetExpires` from `ExpiryInv`: a set without an expiry has
  a request between its calls, or one that was cut short and none that ended later. `RefusedForRecent` from the origin of stamps
  (`SourceInv`) and `CountedInv`: what a request counted is at most the number of
  requests relevant to it, and those never become less. `WindowLimit` is about any set
  of passed requests, which no single request's history bounds: `KeptInv` keeps a
  fresh stamp in the set, and `LastSawAll` says that of any such set the request that
  counted last saw the stamps of all, so that its own verdict bounds them.
* `ApiKeysProofs`. `NoEntryAfterRevocation`, `RefusedMeansRevoked` and `CopiesAgree`
  from `KeysInv`: the stages of a row (`StageInv`, `RevocationInv`); as long as no
  call failed, what the set and the revocations owe each other (`CleanInv`: the
  set follows the row, a revoked row has its revocation, a revocation that was not
  early has no `sadd` ahead of it); and for each entry, by its door, the trace of what
  it found (`EntryInv`). `KeysStepKeeps` collects what no step takes back.
* `SessionsProofs`. `NoOrphan`, `OnlyDeleteStrands` and `RefusedAfterDelete` are not
  inductive: a cycle between its look-up and its update works on a row it read
  before. `SInv` adds who may name a container (`NameInv`), how far a row's life has
  come, so that the reaper cannot forget a container still to be stored (`RowInv`), what a cycle past its look-up
  relies on (`CycleInv`: the container was made, and without failures is gone before
  the update), and that an answered DELETE holds (`ExecInv`).

Only model-checked, for good: liveness (`AcceptedFinishes`, `CallReturns`,
`ExpiredIsReaped`), which needs `ENABLED` and fairness and is out of TLAPS's reach.

## Not modelled, and the plan

Not modelled because there is no state: languages, OpenAPI,
health endpoints, logging, and what the listing routes return. `executeInSession` and `getQueueMetrics` have no effect on
what the service keeps, and the former has no caller. Data left out: code templates,
comparison of test output, language table, request validation, memory limit parsing,
the hash and the shape of a key.

Next, proofs: what liveness rests on, as safety (no state in which a job, a call or an
expired session waits for a step that is not enabled), action properties of the
remaining components (a row's outcome is written by a run only, a returned call stays
returned), and that a slot, a call and a cycle touch nothing of their neighbours'.
