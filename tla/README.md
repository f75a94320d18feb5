# A TLA+ model of the MonisAgent Node.js agent

The agent runs inside a Node.js application. It records what the application
does (transactions, spans, errors, logs, metrics), samples it into bounded
queues, and hands the queues to a collector over HTTP, or streams spans over
gRPC. These modules model the parts in which order, failure and limits matter,
check them with TLC on small instances, and prove the main invariants with
TLAPS for every value of the constants.

Everything in the agent runs on one JavaScript thread. An action of the models
is one turn of the event loop: everything the code does between being called
back and returning. Where a turn calls back into the application (a call of an
instrumented function, the layers of a router) or runs a loop whose steps a
property is about, it is taken apart, and the rest of the model waits.
Interleaving comes from timers, requests in flight and calls of the application.

- [Inventory](#inventory)
- [Modules and the code](#modules-and-the-code)
- [Runs, bounds and what they show](#runs-bounds-and-what-they-show)
- [Fairness](#fairness)
- [What is proved](#what-is-proved)
- [Findings](#findings)
- [Observations](#observations)
- [Not modelled](#not-modelled)

## Inventory

| Component | State | Operations | Hard behaviour | What makes it correct |
|---|---|---|---|---|
| Priority queue `lib/priority-queue.js` | heap, limit, seen | add, merge, setLimit, overflow, getMinimumPriority | a full queue replaces its minimum, also while a merge is on its way | keeps the best events offered, never more than the limit; `overflow` tells the truth |
| Event aggregators `lib/aggregators/*`, transaction, error, custom, span and log subclasses | queue, limit, timer, enabled, supportability counts | add, send, merge, reconfigure, start, stop | answers in any order and with any outcome; split sends; limits that change while data is in flight | no event is copied or lost; what survives a merge is the best; the counts add up |
| Harvester `lib/harvester.js` | the aggregators | start, stop, update, clear | a forced harvest waits for events that other sends emit as well | every forced harvest calls back, after its own data is answered, and waits for nothing but answers |
| Collector responses `lib/collector/response.js` | none | classification of status codes | | each answer says what becomes of data and run |
| Agent `lib/agent.js`, `index.js` | state, config, timers | start, onConnect, stop | timers nothing cancels; several stops; initial harvest | states, timers and run agree; callbacks come unless an answer never does |
| Collector API `lib/collector/api.js` | run id, request headers | connect, restart, shutdown, data methods | 409/401/410 to several requests at once; backoff; high security mismatch | data goes out under its own run; a run is closed before another is opened |
| HTTP transport `lib/collector/remote-method.js`, ... | none | one request | lost answers, payloads too large, no time limit | a request has at most one outcome; that it has one is up to the network |
| Infinite tracing `lib/grpc/connection.js`, `lib/spans/*streamer.js`, `streaming-span-event-aggregator.js` | stream, connection state, queue, writable flag, timers | connect, disconnect, write, drain, reconnect | back-pressure, streams that end at any time, timers nothing cancels | order, bounded queue, a balanced ledger, no write without a stream, the stream carries the run the aggregator was started with |
| API shutdown `api.js` | listeners | shutdown | waits for idle, for the start, for a harvest, for a timeout; its listeners stay | no stop before what it was to wait for; one stop unless a listener fires again; calls back unless an answer never comes |
| Transactions `lib/transaction/index.js`, `name-state.js`, `lib/timer.js` | timer, name state, errors, flags | begin, end, freeze, ignore, name | both ends of a response, late layers, names that change until the end | ends once; named after what handled it; all its data is kept or none |
| Web frameworks `lib/shim/webframework-shim/*`, `instrumentation/core/http.js` | path stack, error and its handler | layers, routers, errorware, finish, close | failures, late and double responses, a client that leaves | the name is the path of the layer that responded or failed; an error is counted once |
| Error collector `lib/errors/*` | seen marks, traces, counts | add, harvest | one error reported on several paths | counted once per transaction |
| Distributed tracing `tracecontext.js`, `dt-payload.js` | accepted payload, sampled, priority | accept, insert | several headers, accept after insert, other vendors' entries, processes that have not logged in | one sampling decision; the same to everybody; what others wrote goes on |
| Adaptive sampler `lib/adaptive-sampler.js` | threshold, counts | shouldSample, reset, target | the threshold follows the last period | about twice the target at most |
| Context and segments `lib/context-manager/*`, `lib/transaction/tracer/*`, `lib/shim/shim.js`, `trace/segment-tree.js` | active context, segments | record, bind, set, run, touch, end | callbacks of ended transactions, emitters shared by transactions | a segment hangs below the call that made it and in its transaction |
| Exclusive time `trace/exclusive-time-calculator.js` | stack of parents | process | segments that overlap siblings and outlast parents | the time of a segment in which none below it ran |
| Trace aggregator `lib/transaction/trace/aggregator.js` | slowest trace, names, synthetics | add, send, merge | merge of what came back; diversity rules | the slowest is kept; names turned away get another chance |
| Query traces `lib/db/query-trace-aggregator.js` | samples | add, merge, remove the shortest | merge at the limit | the slowest queries are kept |
| Metrics `lib/metrics/*`, `lib/stats/*` | stats by name | record, merge, send | unsent data merged back, out of order | the sum of all harvests is what was recorded |
| Configuration `lib/config/*` | settings, attribute filter | onConnect, policies, high security | server, high security and policies override in turn, at each login | the stricter setting wins and holds |
| Health reporter `lib/health-reporter.js` | status, timer | setStatus, stop | several stops and late statuses | a stop waits for its file |
| Normalizer `lib/metrics/normalizer*` | lists of rules; where patterns go on | normalize, load, add | rules added or sent while requests are under way; patterns that remember | a request is named and ignored as the rules say |
| Serverless `lib/serverless/aws-lambda.js`, `lib/collector/serverless.js` | enders of invocations, uncaught error, payload | begin, end, harvest, stop | an invocation ends at whatever comes first; what timed out goes on during later invocations | what is recorded is written before the runtime has the answer |
| Instrumentation tracker `lib/instrumentation-tracker.js`, `lib/shimmer.js` | tracked hooks, the copy each is meant for | register, resolve, hook success and failure | copies of a module, hooks registered late, hooks that decline | a hook wraps a copy once |
| OpenTelemetry bridge `lib/otel/*` | contexts with a segment and a span; spans and their segments | start and end a span, set a value, enter a segment | contexts shared by calls and written to later | segments stand as spans do; the active span is that of the segment |
| Other shims and instrumentations, environment, LLM events, loggers, tools | | | adapters, I/O, formatting | not modelled |

How they meet:

- The application records into aggregators through transactions; an aggregator
  keeps its events in a priority queue, and sends them when its timer fires or
  the harvester's `clear` asks for it.
- An instrumentation makes segments in the context of the call it wraps. When
  the transaction ends, its name is made, its times are computed, its metrics
  are merged into the agent's, and its trace and events are offered to their
  aggregators, all in one turn.
- An aggregator hands a payload to the collector API and gets back
  `retainData` (merge it back or not). The agent run is not its business: the
  API restarts or stops the agent *before* it calls the aggregator back.
- The agent drives the harvester: `start` and `onConnect` reconfigure and start
  the aggregators; `restart` and `stop` stop their timers.
- The harvester treats the streaming aggregator as one more aggregator, whose
  `start` and `stop` open and close the gRPC stream.
- Each login hands the server's settings and policies to the configuration,
  which tells aggregators to drop what they hold under a looser policy.

## Modules and the code

| Module | Stands for |
|---|---|
| `TopEvents` | what the heap computes: operators `Top`, `AfterAdd`, `OverflowOf` |
| `PriorityQueue` | one queue with the loops of `merge` and `setLimit` taken apart, and the span aggregator's `addSegment` |
| `CollectorResponse` | the code sets and the `CollectorResponse` factories |
| `EventAggregator` | the aggregators and the harvester; extends `TopEvents` and `CollectorResponse` |
| `EventDelivery` | the abstract promise of the aggregators: at-least-once delivery |
| `AgentLifecycle` | agent and collector API; extends `CollectorResponse` |
| `SpanStreaming` | both span streamers, the gRPC connection, the streaming aggregator |
| `ApiShutdown` | `API.shutdown` and its listeners, over the agent as they see it |
| `WebRequest` | one request through HTTP server, router, middleware and error collector |
| `DistributedTrace` | what transactions of several processes tell each other |
| `Settings` | the configuration over logins, and the data recorded under it |
| `NameRules` | rules for the names of requests, and the requests that consult them |
| `AdaptiveSampler` | the sampler and its threshold |
| `TransactionTraces`, `QueryTraces` | the aggregators of the slowest traces and queries |
| `Tracer` | segments made by calls, callbacks, promises and streams |
| `ExclusiveTime` | the walk that computes exclusive times |
| `Metrics` | metrics of transactions, of the agent, and on their way |
| `AwsLambda` | invocations of a Lambda function and their harvests |
| `InstrumentationTracker` | the hooks of a module and the copies they run on |
| `OtelBridge` | spans of OpenTelemetry and the contexts shared with it |
| `TransactionData` | the parts a transaction leaves its data to, side by side: instances of `TransactionTraces`, `QueryTraces`, `AdaptiveSampler`, `WebRequest`, `Tracer`, `ExclusiveTime`, `Metrics`, `AwsLambda`, `InstrumentationTracker` and `NameRules` beside the queue it extends, and the assumptions on their constants |
| `Propagation` | `DistributedTrace` beside an instance of `OtelBridge` |
| `MC*` | instances for TLC |
| `TransactionTotals_proofs` | theorems and proofs about what `TransactionData` computes by loops over data: times, metrics and names |
| other `*_proofs` | theorems and proofs about the module they are named after |

`TransactionData` and `Propagation` put modules that share no state next to each
other, so that proofs and one of TLC's runs are about the same
definitions. `MCTransactionData` works on the eleven parts one at a time: `part` says which
works, and the others stay in a state of their `Init`. `MCDistributedTrace` does
the same with `Propagation`, and `MCEventAggregator` with two instances of
`EventAggregator`. A part is
checked exactly as it would be alone, and proved from its own specification
(`Request!Spec`, `Tracing!Spec`, ...); what this leaves out is what the parts do
to each other, which in the code is one call at the end of a transaction.

**TopEvents, PriorityQueue.** An event's key is drawn once (`add`, line 36) and
carried over by `merge`, so it is a constant of the event. Equal keys are left
open. The heap is a third-party library; the model keeps the set of its values
and takes any minimum. `EventAggregator` uses the atomic operators; the loops
are in `PriorityQueue`, whose theorem `HoldsATop` says that they amount to the
operator `Top`. `AddSegment` asks for the minimum before it adds, which throws
when the queue is empty. The ghosts are `fresh` and `offered`.

**EventAggregator.** `Add` is `EventAggregator.add` with its two metrics rules;
`Send` is `Aggregator.send` of every aggregator in a set, in one turn: queues
are replaced, and a send with nothing to send emits its event at once. `Halves`
is `_splitData` of the transaction events. `Answer` is the callback from the
collector API: `Accepted`, `Discarded` or `Retained` (with `Merge`, and with the
data delivered or not: only the answer may be lost). `Clear` and `Cleared` are
the two ends of `Harvester.clear`. `Update` is `reconfigure` of all aggregators,
where a missing server limit resets the aggregator's limit but not its queue's,
the error events' timer stops when disabled, and the log queue is emptied when
its limit falls to zero. Which aggregators split, stop or empty are constants,
so one action covers the subclasses. Ghosts (`fresh`, `delivered`, `dropped`,
`handed`, `resized`, `owed`, `alone`) record history for the properties and
appear in no guard other than `e \in fresh`.

**EventDelivery.** Sets of events fresh, held, delivered, dropped. `held` is
mapped to what is in a queue or in an unanswered payload; `DeliverySpec` is the
refinement.

**AgentLifecycle.** A *job* is a chain of callbacks: the start, one data
request with what its answer sets off, one call of stop. `phase[j]` names the
callback the job waits for. `Start`, `PreconnectAnswer`, `ConnectAnswer`,
`RetryTimer`, `OnConnect` are the login; `LoginRefused` is the disconnect
response of `_retry` (for a restart, `onConnect` runs all the same);
`Mismatched` is the answer that fails the high security check of
`Config.onConnect`, which stops the agent from inside the login. `Post`,
`DataAnswer`, `Restart`, `RestartClosed` are data requests and the restart an
answer asks for; `BeginStop`, `HealthStopped`, `StopClosed`, `StopTick` are
`Agent.stop`. A request of a job may stay unanswered for ever. `overlapped` and
`rejected` are ghosts: properties that the code
only keeps while restarts, stops and the start take turns say so, and cover
nothing of the hazards that only overlapping restarts meet.

**SpanStreaming.** Spans are numbered. `batching` says which of the two streamers
is at work; it is chosen at the start, as `create-span-event-aggregator.js` does
from the configuration. `SendEach` and `SendBatches` are the two
`sendQueue`s with every outcome of `stream.write`; `WriteLater` and `WriteNow`
are `write`; `Drain` runs all listeners the stream has, as Node does: listeners
are counted, and one that finds the queue empty only sets the flag.
`ConnectSpans`, `Disconnect`, `Unimplemented`, `Ended` and `Reconnect` are the
connection. A reconnect timer is counted in `timers`, and moved to `oldTimers`
by `Stop`, which lets the properties tell the timers apart; the code does not.
`Reconfigure` gives the aggregator the run of a login, stopped or started: the
second of two overlapping restarts reaches one that the first has started, and
its stream keeps the earlier run. The ghost `overtaken` says so, until the next
start.
Whether the stream has room is the environment's choice; in batching mode a
stream that has not drained may take a write, as Node's streams do between
their high-water mark and empty.

**ApiShutdown.** `Shutdown` is the call; `DoShutdown` is `_doShutdown` from
where it need not wait for the application, also run by `Idle` (the
`setImmediate` of the `transactionFinished` listener). Listeners, timeouts,
immediates, harvests and stops are counted per call, because the code removes
none of them: `waiting` and `listening` only grow. A listener acts in the turn
that emits, so `Errored` and `Started` are parts of the actions that change the
state, and the agent is modelled in the same module as far as that needs: its
state, whether it has a run, and one login at a time. That a restart answers a
refused login with "started" is kept. A restart passes through "disconnected"
and "connecting" in one turn, and nothing here listens to either. Several
restarts at once are `AgentLifecycle`'s subject, and that a forced harvest calls
back, unless an answer never comes, is `EventAggregator`'s. `LoginSucceeds`,
`LoginRefused` and `LoginMismatched` end the login of the start: the last is the
answer that fails the high security check and stops the agent from inside the
login, without "started" or "errored". A stop the agent makes by itself (410) is
that of a call without options. `sawIdle`, `flushed`, `excused` and `stranded`
are ghosts.

**WebRequest.** The framework is external and tries the layers in order
(`On`, `After`, `Passed`); what it does next in the same turn is in `pending`,
so a layer's work and the wrapped `next` are steps of one turn (`Turn`) that the
application may interrupt only by calls of its own. `EnterLayer`, `BoundNext`,
`Pass`, `RouterPasses` are the middleware shim and the Express instrumentation:
where the path grows and shrinks, where an error is remembered, and where an
errorware takes it over. `ResEnd`, `Finish`, `Close` are the HTTP server's; both
of the latter are `instrumentedFinish`, which runs twice. `SetTransactionName`,
`SetForceIgnore`, `NoticeError`, `EndTransaction` are calls of the API at any
time. The end of a transaction is a turn of its own, in the steps that look at
`ignore` each for themselves: `End` with `FinalizeName` (the rules, the API, and
the base segment that asks for the name again), `Record` (`Transaction.end`),
`TransactionFinished` (the agent's listener, which asks the API once more),
`ErrorsOfTransaction` (the error collector's) and `ProcessError`, one turn of
`_processErrors` each. `IgnoredName` is the kinds of names that rules may
ignore; what a rule says may differ each time it is asked, since it may have a
memory (`NameRules`). `HaveSeen` and `MarkSeen` are `_haveSeen` with its two
maps: a string is known by what it says, an object by which it is, and a string
that the application reports is a new `Error` each time. `traced` and `counted`
are lists, so that an error may be in one twice; a malformed error is marked,
and collected only as one of the status. `NoticeError` outside of the transaction collects at once, as
"Unknown", and `SendErrors` clears marks and traces. `holder`, `failed`,
`settled`, `recovered`, `counted` and `calls` are ghosts.

**DistributedTrace.** Transactions in processes of several accounts. `Accept`
and `Insert` are the API's; `wire` keeps every header ever sent, so a request
may reach several receivers in any order, and `Received` lets an intermediary
drop or spoil the newer or the legacy headers. `End` records what the event says. `Login`
brings the account key of a process that has started without it. A tracestate
is what it tells each account: the first entry under its key, and whether
another follows. The random priority and the sampler's answer are one choice
out of `Decision`.

**Settings.** A setting is a level, 0 the most secure. `FromPassed` and
`FromEnvironment` build the local configuration, `ApplyHighSecurity` coerces it,
`PreConnect` applies policies, `Connected` the server's reply with its two kinds
of settings, `Restart` leads to the next login. `rules` is what the attribute
filter was built from: the include rules of all destinations and of single ones
(`include`, `destination_include`). `Record`, `Send` and `Answer` are the data.
`held` is the highest level that the data shows that a policy's `clearData` is
there to drop; `Shown` says that an attribute gets in by the filter's rules,
current or not. `returned` and `letIn` are ghosts: data that was being sent
while a policy was tightened, and data that a closed rule has let in since. Key
names that behave alike stand for each other, and a value is parsed before it
gets here.

**NameRules.** A name is a sequence of its parts, a rule the set of what it
matches, what it makes of that, and its flags. `LoadFromConfig`, `AddRule` and
`Login` are where rules come from; `StartRequest`, `Ask` and `End` consult them
through `RunUserNamingRules`, `PartialNameFromUri` and `FullName`. `advanced`
holds the rules whose pattern would go on where it last matched (`lastIndex`),
which for the anchored patterns of the documentation means that it matches
nothing once. `Normalize` applies a list rule by rule (`Applied`); `Inserted` builds
one rule by rule, which for `load` stands for the stable sort that follows its
loop. The property compares the lists with a definition of their order that
builds nothing (`ByPrecedence`: a rule stands behind as many as come before it),
and the rules as they are with rules that remember nothing (`Meant`). A rule that
is given twice has one memory, as it has in the code if its pattern is a `RegExp`
with all its flags (`_addRegExpFlags`). `config`, `reverse`, `added`, `reply`, `ruled`, `disturbed`
and `asked` are ghosts. `WebRequest` has the path of a route in full and one
rule that does not change.

**AdaptiveSampler.** The threshold is compared with a random number; the model
keeps whether all, some or no draws pass, which is exact for positive targets:
`target ^ (target / n) - target ^ 0.5` is positive up to twice the target.

**TransactionTraces, QueryTraces.** `Add`, `Send`, `Answer` and `Clear` of the
aggregators; a trace that cannot be encoded is given up in the send, and one
that is never answered for is as good as that (`Lost`). Payloads
are answered in any order. The five reports of the guarantee and the five
harvests of patience are constants.

**Tracer.** `stack` is the calls under way, each with its context; what outlives
its call is in `bound` with the context it keeps: callbacks, promises,
transactions ended later, and streams with the segments of their events. `Record` is the shims'
`record`, `CallBack` and `Settle` run what is bound, `EmitEnd` and
`EmitMeasured` are the wrapped `emit` of a stream, `Listen` its listeners.
`NoCall` is the context of the event loop. A segment says whose transaction it
counts for, whose context it is entered in, and whether it hangs in the tree.

**ExclusiveTime.** `Init` chooses any tree and any ranges in which a segment
starts no earlier than its parent and the root lasts longest; `ProcessLeaf` and
`ProcessParent` are one turn of the calculator's loop. `Merge` is its merge of two
lists of ranges, whose loop is a function over the number of ranges taken,
`Handed` what the inner loop of `finishLeaf` gives each parent it pops, and
`Remaining` what it computes for it. The property is about exclusive time as a
set of instants.

**Metrics.** A collection has a start and, for each name, calls, total, minimum
and maximum. `Measure` records into the agent's, `MeasureInTransaction` into the
transaction's, which `Finish` merges; `Send` takes the collection away, and
`Answer` merges it back or forgets it. `log` and `gone` say what was recorded
and what the collector has. One name is enough, since names do not meet.

**AwsLambda.** The runtime and the function are external. `Invoke` makes the
transaction, or takes over the one that is active in its context, and puts an
ender into `transactionEnders`, at a place it is known by; `Callback`, `Fail`,
`StreamError` and `StreamClose` are the ways an invocation ends by itself,
and `StreamRejects` is the rejected promise of a streaming handler, of which the
wrapper hears nothing: the runtime has its answer and nothing has ended.
`BeforeExit` and `Uncaught` run all enders and replace the array. The runtime
may invoke again after a timeout, and what is left of an invocation acts during
later ones. A payload that cannot be written counts as written, since the code
drops it. `answered`, `ran`, `again`, `overlapped` are ghosts.

**OtelBridge.** `contexts` holds every context made, because they are objects
that are written to after they were made: `SetValue` and `Enter` are
`OtelContext.setValue` and `enterSegment`/`enterTransaction`, and `stack` and
`Turn` say which of them the call under way runs in. `StartSpan` is `onStart`
with the rules (`Rule`) and what they make of a span; the span may be made
active in the same step. `EndSpan` is `onEnd`, which ends the transaction of a
server or consumer span. The ids of segments tell which segment a span, real or
made by the agent (`Fake`), stands for. `anchor` is for the property: the closest
span at or above a span's parent that has a segment, which a walk along the
parents would find again.

**InstrumentationTracker.** The hooks of one module name. `Load` is `_postLoad`
with `setResolvedName` and `instrumentPostLoad`: it runs every item that has
neither succeeded nor failed, whichever copy it is meant for, with every
outcome. `tries` counts runs of a hook on a copy and `late` remembers
registrations after a load; both are ghosts.

## Runs, bounds and what they show

| Run | Instance | Shows |
|---|---|---|
| `transaction_data` | eleven parts, below | `NamedByPath`, `ErrorsOnce`, `AllOrNothing`, `TransactionEnds` (request); `KeepsBest`, `OverflowIsHonest` (queue); `DiversityReturns` (traces); `SlowestAreKept` (traces, queries); `StaysNearTarget` (sampler); `TraceIsWhole` (tracer); `TotalsAreTrue` (time, metrics); `AnsweredIsReported` (invocation); `WrappedOnce` (tracker); `NamedAsRuled` (naming) |
| `aggregators` | one splitting aggregator with 3 events, one tie, limits 0, 1, 3 and default 2, one failed payload, one caller of `clear`; or 2 aggregators, one that stops and empties, and 2 callers | `Conserved`, `MetricsAgree`, `AloneHarvestWaits`, `HarvestsReturn`, refinement `DeliverySpec` |
| `lifecycle` | 2 data requests, 1 application stop and the mismatch stop, 3 runs, one answer of each class | `PayloadNamesItsRun`, `RunsAgree`, `RunsAreClosed`, `CallbacksCome` |
| `streamers` | single spans: 5 spans, queue of 2, 3 streams, 3 runs; batches: 6 spans, queue of 3, batches of 2, 2 streams, 3 runs | `InOrder`, `FlagsFollow`, `FollowsTheAgent`, `LedgerBalances`, `LimitsAreKept`, `QueueIsSent` |
| `distributed_trace` | 3 transactions of 2 accounts: one may accept after its end, one excludes the legacy header, one may start before its login; or 2 transactions, 3 spans, 2 segments, 3 contexts, 2 calls deep | `OneDecision`, `SaysTheSame`, `StatePassesOn`; `SpansAreMirrored` |
| `settings` | 3 files, 3 environments, with and without high security and policies | `HighSecurityHolds`, `PoliciesHold`, `OldDataIsDropped` |
| `api_shutdown` | one call with any options, one without; 2 transactions, 2 runs, health reporting on | `WaitsAsAsked`, `OnceWithoutListeners`, `NotLeftRunning`, `CallbackComes` |
| `active_span_of_callee` | 2 transactions, 2 spans, 2 segments | `ActiveSpanIsSegment` is violated |
| `started_unconnected` | 1 request, no stop | `StartedMeansConnected` is violated |
| `stream_of_old_run` | single spans, 3 spans, 3 streams, 2 runs | `CarriesCurrentRun` is violated |
| `filter_of_old_settings` | the instance of `settings` | `FilterFollows` is violated |
| `ender_runs_again` | 2 invocations, 2 calls each | `EndersRunOnce` is violated |

Why the bounds suffice for the cases that matter:

- Queue: five events around limits 0 to 3 make every relation of queue, merge
  and limit: empty, below, at and above, with a tie at the place of the cut.
- Aggregators: one splitting aggregator with three events gives halves of
  different size. `MaxRetained` (1) bounds how often data comes back; the merge
  then meets a queue that has been filled, emptied or resized. The proofs have
  no bound.
- Lifecycle: three runs are needed for two restarts in flight together to meet a
  third login. `MaxRuns` bounds restarts and logins. The answers 0 (lost), 202,
  409, 410, 503 stand for the classes `CollectorResponse` tells apart; a
  discarded payload (e.g. 413) is "preserve" to the run as an accepted one is.
- Streamers: a queue of 3 with batches of 2 makes a send of two batches, the
  second short: two drain listeners, and a batch that blocks after one that does
  not. `MaxSpans`, `MaxStreams`, `MaxRuns` bound spans, streams and runs.
- Shutdown: two transactions let the application fall idle twice, so a listener
  that stays queues its shutdown again, and let one begin between the listener
  and its immediate. Two runs give a login, a restart while a shutdown listens,
  and a stop of each. `MaxTransactions` and `MaxLogins` bound them; a second
  call interferes only through the agent's state, so one without options is
  enough. Health reporting makes each stop wait twice; without it a stop takes a
  subset of the same steps, and the proofs cover both.
- Distributed tracing: three transactions make a chain through another account
  and back, a fork and a repeated delivery. Priorities 0, 1 and 3: none to be
  sent, and two that differ. The proofs cover any number.
- Settings: three policies are varied (a setting of three levels, one with rules,
  one with data), the others stay; include rules are global, of a destination
  only, or none; the server sends four settings, nested ones
  and ones it can only disable, guarded by high security and not.
- Rules: two requests, of which one is the first, and two paths; every kind of
  rule on each list, two of equal precedence, rules that match what others made of
  a path, and a rule that remembers in the configuration and from the API;
  `MaxAdded` (1) and `MaxLogins` (1) let each list change once between any two
  consultations of two requests. With the order reversed, which only the list of
  the configuration knows, none changes.
- Request: a router with two layers, one of which responds late and has the
  route "/", beside an errorware and a layer behind it; two errors, one of an
  ignored class, a string, and a malformed one; `MaxCalls` (2) calls of
  `noticeError` and `res.end`: a response that is ended twice, an error that is
  reported twice, inside and outside of the transaction, before and after a send.
- Traces: two of one name, a slower one of another, two synthetics; one name to
  be remembered, a guarantee of 2 and a patience of 3, so that each is
  reached, passed and reset. Queries: four for two samples, durations 1 and 2.
- Sampler: targets 1, 2 and 3, nine transactions (past twice the target), two
  changes per period. The proof has no bound.
- Tracer: two transactions, one of each type, four segments, one thing bound at
  a time, one listener, two calls deep: a callback in its own, another and no
  transaction, before and after the end of its own. Time: every tree of four
  segments over times 0 to 3, three levels deep with siblings.
- Metrics: three records of one name with values 1 and 2, one transaction, two
  payloads on their way, so that an old one meets one that came back before.
- Lambda: two invocations with three calls each: a stale ender before and after
  the array is replaced, and a third call to meet its mark.
- Bridge: three spans make a chain with a span in the middle that has no
  segment, or a transaction within another; three contexts are what a call, one
  it makes and a callback of either run in.
- Tracker: two hooks, one of which may decline, and three copies: the first
  takes the items that were registered, the second a new one, the third is
  loaded between two registrations. `MaxTries` (2) is one more than a hook that
  cannot decline should need.

`CHECK_DEADLOCK FALSE` is set where the system really may rest: an agent that
has stopped, an aggregator with all spans written and no stream, a request that
is over.

## Fairness

- A request to the collector need not be answered: neither `remote-method.js` nor
  `http-agents.js` sets a time limit, and a collector that accepts a connection
  and says nothing leaves the request pending. No answer is fair, and each
  property that waits for one excepts the wait that never ends:
  `HarvestsReturn` (a forced harvest calls back again and again, or some
  aggregator it waits for has a request out for ever), `CallbacksCome` (a job of
  the lifecycle comes to rest again and again, or waits for an answer for ever),
  `CallbackComes` (the last harvest or the close of the run goes unanswered).
  `WaitsForAnswers` proves for any instance that a forced harvest waits for
  nothing else.
- Timers fire, callbacks from `setImmediate` and `process.nextTick` run, promises
  that are resolved call back (`Cleared`), and the health file is written or fails.
- The harvest timer of the traces fires (`Send`), and a payload is answered or
  lost (`Answered \/ Lost`): this only keeps `MaxPayloads`, a bound of the model,
  from stopping the timer. `DiversityReturns` assumes by itself what transactions do.
- A turn ends (`Turn`), and a request is over at some time: its response
  finishes or closes (`Finish \/ Close`), which is what Node's HTTP server sees
  to when a client leaves. `TransactionEnds` rests on either alone.
- Not fair: what the application does (add, stop, call next, respond), what the
  server configures, a timer finding data, the end of an outage. `CallbacksCome`
  excepts the outage that returns for ever, but for the callers of stop.
- `ApiShutdown`: timers, immediates and the health file come. Not fair:
  transactions, logins and answers. `CallbackComes` assumes that the application
  falls idle again and again. Without a timeout it excepts a login that does not
  end, as one is retried for ever while the collector is away, and the call that
  is `stranded`: it collects data, has no timeout, and meets an agent that will
  neither start nor fail any more, or one whose login fails the high security
  check. The code has nothing that would call it back, unless a restart that is
  still under way answers.
- A stream that is read drains, and the interval timer fires. A stream need not
  end and a reconnect need not succeed, so `QueueIsSent` only promises that the
  queue is sent or the stream goes.

## What is proved

Every safety invariant and action property that a passing run checks is a theorem. All proofs are of
`Init => IInv`, `IInv /\ [Next]_vars => IInv'` and
`IInv => Inv`, one step per action. The only assumptions are those of the
modules on their constants, and, for the queue, that `Event` is finite.

- **EventAggregator_proofs.** `TypeCorrect`, `PlacesAreOne` (`OnePlace`),
  `NothingLost` (`Accounted`), `Conservation` (both) and `AtLeastOnce`: the
  refinement of `EventDelivery`. The strengthening of `OnePlace` adds that
  payloads are not empty and that halves are disjoint; the refinement follows
  because a step that moves events between a queue and a payload leaves `held`
  as it is. `WaitsForAnswers`: a forced harvest only waits for aggregators that
  have a send under way with a payload at the collector. `AloneWaits`: while a forced harvest is alone, what it owes is in a
  payload it still listens to, and no other send of that aggregator is under way
  (`Waits`). `MetricsTrue`: until its limit changes, a queue holds as many events
  as it has seen or is full (`Fills`), so what an add, a merge or a split adds to
  the SENT metric is what it adds to the queue and to what was handed over
  (`CountsAgree`).
- **AgentLifecycle_proofs.** `TypeCorrect`, `Headers`, `Timers`, `RunsClosed`,
  `PayloadRun`, `StartedWithRun`, and `Agreement`, which joins them to the
  checked `RunsAgree`. `Ordered` is the heart: as long as nothing has
  overlapped, at most one job changes the run, and the run, its headers, the
  timers and the state are determined by the phase of that job.
  `PayloadRun` and `StartedWithRun` hold with overlaps as well and have
  invariants of their own.
- **SpanStreaming_proofs.** `TypeCorrect`, `Ledger`, `Limits`, `Order`,
  `Flags`, `Follows`. The invariant has four
  parts: `QueueInv` (order and ledger), `FlagInv` (flags follow the stream,
  listeners follow back-pressure), `StreamInv` (the one open stream), and
  `TimerInv` (at most one new timer, and none next to a stream). `Follows` is
  about the run an aggregator was started with, and about the current one until
  a reconfigure reaches it started; it says nothing once a timer from before a
  stop has opened a stream.
- **ApiShutdown_proofs.** `TypeCorrect`, `Collects`, `Waits`, `WaitsAsTold`
  (both), `Once`, `NeverLeft`. The invariant is the same for every call
  (`Sound`): it counts the stops of a call from the first callback to the last
  (`Stops`), and adds that a call not made has nothing pending and that
  immediates and timeouts belong to listeners that stay.
- **Settings_proofs.** `TypeCorrect`, `HighSecurityStays`, `PoliciesStay`,
  `OldDataDropped`. The invariant adds that high security and policies never
  meet (`NeverBoth`), that policies only tighten (`NeverLooser`), and that what
  was reported is in effect (`Told`).
- **DistributedTrace_proofs.** `TypeCorrect`, `DecisionTravels`, `SaysAlways`,
  `StateTravels`. Once a transaction has sent headers it is `Fixed`: joined and
  decided. The invariant says of every header on the wire and of every accepted
  tracestate that its entries are what their author still says (`WireSays`,
  `RawSays`), of every transaction that it follows what it heard (`Heard`), of
  every event that it agrees with the headers (`Recorded`), and of entries of
  others that they pass (`Passes`). `Mirrored` is about the OpenTelemetry bridge:
  where a span of OpenTelemetry is active, the context is in the segment and the
  transaction of the closest span that has one (`Carries`), which the segment of
  the next span then hangs below (`Below`), and an ended entry span has ended its
  transaction (`Over`).
- **TransactionData_proofs**, part by part:
  - the queue: `TypeCorrect`, `BestKept`, `WithinBounds`,
    `OverflowHonest`, `HoldsATop`. `KeepsBest` is not inductive alone: the
    invariant adds that a loop is shrinking only above the limit (`Shrinks`),
    that what is being merged has not been offered (`OfferedOnce`) and that
    `seen` counts at least the offered events (`SeenCounts`).
  - the sampler: `SamplerTyped`, `NearTarget`. `Allowance` is what a period may
    sample; the invariant says that draws pass only below it and that none
    passes only from the target on. Targets are positive.
  - the wrapped modules: `Wrapped`. An item that waits has a hook that no other
    item has and that has run on nothing (`Waiting`), a copy that was not loaded
    has had nothing run on it (`Tried`), and if all were registered first, the
    items wait until the first load and have a copy each after it (`Early`).
  - the slowest traces and queries: `KeepsSlowest`. The two properties are
    inductive with the types; the work is in what removing the shortest of a set
    and taking the longer of two samples do to them.
  - the Lambda invocations: `InvocationsTyped`, `Reported`. Until an ender has
    run again, a transaction belongs to one invocation and is active until its
    ender has run (`OwnTransactions`), the enders of the active ones and no
    others are in their places (`EndersInPlace`), and the answered invocations are
    those whose enders have run (`AnsweredHaveEnded`), but for streaming ones
    whose promise has rejected.
  - the request: `RequestIsTyped`, `Named`, `CountedOnce`, `WholeOrNot`, for any
    tree of routers, any errorwares and any errors. The path is tied to the state
    of the turn: until the response ends it leads to the layer that has the
    request, or to the one that is about to be entered or has passed it on, or to
    the one that failed (`StackFits`), and from then on it stays (`SettledStays`);
    a turn only runs in an active transaction (`TurnIsActive`); and the name is
    read off that path (`FinalIsTrue`). Of the errors, what is traced is marked
    and what is marked is traced or malformed (`MarksAreTrue`), what is counted
    is marked or the error of the status (`CountedAreMarked`), and what the loop has still to do and what
    it has done make up what it was given (`LoopIsTrue`). What was recorded and
    what was taken differ only in the excepted case, step by step (`EndIsWhole`). The framework
    takes the first layer that matches, which needs the least of a set of numbers
    (`LeastExists`, from the well-foundedness of `<`).
  - the segments: `TracingIsTyped`, `TracesAreWhole`, for any number of
    transactions, segments, calls and bindings. Every call under way and every
    binding but a listener names a segment that counts for its transaction or
    comes from a stream (`Belongs`), so what is made below it hangs in the right
    tree (`TreeInv`); and a segment without an end is the first of a transaction
    or has a call under way that will end it, and no callback's segment below it
    (`UntouchedInv`).
- **TransactionTotals_proofs.** `ExclusiveTimeIsRight`, `MetricsKept`, and `Totals`,
  which joins them to the checked `TotalsAreTrue`; and `NamesFollowRules`. All are
  about loops over data of any size. The library's induction takes an operator, which the provers
  cannot instantiate, so the module first derives induction about *sets* from the
  well-foundedness of `<` (`RankInduction`, `Induction`, `StepInduction`), then
  that a recursive function exists and obeys its equation (`Recursion`,
  `Stepwise`), and that sums over finite sets add up (`SumsAdd`).
  - the walk (`WalkInv`): the nodes left and the parents on the stack are where a
    depth-first walk is (`LeftInv`, `StackInv`), every parent waits for as many
    children as are unfinished (`CountsInv`), the ranges it has been handed are in
    order, apart, and cover just the time of its finished children and of all
    below them (`PairsInv`), and what has been set is right (`ValuesInv`). A
    merge keeps order and cover (`TakenKeeps`), and so does handing up
    (`HandedIs`); what is left of a duration outside ranges in order is the size
    of a set.
  - the metrics (`MetricsInv`): every collection says the truth about its records
    (`AllGood`), and no record is in two; recording a value and merging two
    collections keep that (`RecordedTrue`, `SummedTrue`), because sums, minima
    and maxima of disjoint sets are those of their union. Nothing is from a time
    to come (`Timely`).
  - the names: `NamesFollowRules` states the checked `NamedAsRuled` for lists of any
    length, any rules and any requests. `NormalizeRuns` unrolls a list into a run of
    states, one per rule, about which everything else is proved by induction on its
    length: a list without rules that remember makes the same of a value whatever
    was asked before (`SameWithoutMemory`), and one with such rules differs only
    where a rule excuses the value, which forgets it was asked, so that it does not
    the second time (`IgnoredTheSecondTime`). Inserting rule by rule puts each where
    counting those that come before it says (`RankedInsert`, `RankedCounts`,
    `InsertedIs`), which makes the lists those that are meant (`ListsInv`). Between
    start and end a request is on track (`OnTrack`, `RequestsInv`): as long as nothing
    has come between, it was ignored already, or the rules of the user will ignore
    it at the end, if it is meant to be.

The assumptions on the tree of layers (`LayersAssumption`): a layer is mounted
once, and the layers mounted together are one list. The first of such a list is
no errorware, which loses nothing, since an errorware that comes first is never
reached with an error of a layer before it. A layer that others are mounted on
is a router and no errorware, as in the frameworks: a router takes no error.
`PathAssumption` gives `PathOf`, a
function over the tree, its recursive equation instead of a definition. `NamingAssumption`
says that what is given as a list of rules is one, and that a rule has a whole
number for its precedence.

Only model-checked:

- liveness (`TransactionEnds`, `DiversityReturns`, `HarvestsReturn`,
  `CallbacksCome`, `QueueIsSent`, `CallbackComes`), because the prover has neither
  ENABLED nor the rules of fairness.

## Findings

Each is a run with `expect: violation`; `PROJECT.json` quotes the line that says
otherwise.

1. `StartedMeansConnected`: a restart whose login is refused still runs
   `onConnect`; the agent is `started` without a run.
2. `CarriesCurrentRun`: the reconnect timer survives a stop and opens a stream
   of a stopped aggregator under the old run, which the next start takes over.
   `FollowsTheAgent` says what holds until such a timer fires. (Overlapping
   restarts lead to a stream of an old run as well, without any timer; the
   property leaves them out, and the run shows the timer.)
3. `ActiveSpanIsSegment`: entering a segment writes its span into the context
   of the caller (`otel/context.js:27`), so that after the call has returned the
   OpenTelemetry API names a segment that is over as the active span, while the
   agent goes on in the caller's. `SpansAreMirrored` says what holds where only
   OpenTelemetry makes spans active.
4. `FilterFollows`: policies change the attribute settings, and the attribute
   filter keeps the rules it was built with.
5. `EndersRunOnce`: after an unhandled rejection or an empty event loop a late
   callback of an ended Lambda invocation runs its ender again, and marks the
   next invocation's as done.

## Observations

Behaviour the models have that no run singles out.

Harvests and runs:

- A request has no time limit. A collector that accepts one and never answers
  leaves what waits for it pending for ever: a forced harvest, the callbacks of
  start and stop, and a shutdown even with a timeout, since the stop that the
  timeout begins waits for the close of the run.
- Of two overlapping restarts the second gives its run to a streaming aggregator
  that the first has started (`streaming-span-event-aggregator.js:119`). Its
  stream goes on under the earlier run until it ends.
- A first login that fails the high security check stops the agent without
  "started" or "errored": a shutdown that collects data and has no timeout is
  never called back.
- A forced harvest that another send of the same aggregator overlaps resolves
  early (`AloneHarvestWaits` is about those that nothing overlaps).
- A stop without a run leaves the agent's state at `stopping`. A late 409 of a
  run that has been replaced restarts the run that replaced it
  (`collector/api.js:591`).
- `Agent.stop` sets the shutdown status before it stops the health reporter, so
  the last file of a healthy agent says `healthy: false`.
- `Aggregator.send` clears after `_runSend`: data that a send gives back
  synchronously is merged into a collection that is then cleared.
- In batching mode a streamer's flag may be set while the stream has to drain.
- With `waitForIdle` a transaction may begin between the listener and its
  immediate; listeners that stay run the callback more than once.
- Query samples may exceed `max_samples` after failed sends. Synthetics traces
  of a failed send are lost (`trace/aggregator.js:151` misspells the field). The
  `reported` count includes sends that failed and sends of synthetics only; a
  merged trace that is not better is not offered again.

- A segment offered to a span aggregator with limit 0 throws before it is
  counted: `addSegment` asks for the minimum of an empty queue
  (`span-event-aggregator.js:74`).

Settings:

- High security turns `record_sql` "off" into "obfuscated". Policies are applied
  before a missing one is detected, a relaxed policy relaxes nothing, and
  `attributes.exclude` grows by the same rule at each login (`lasp.js:54`).
  Traces are dropped only if include rules are set globally; the policy on
  custom parameters drops traces and nothing else.

Names:

- An ignoring rule does not set `lastIndex` back (`rule.js:85`). A rule of the
  API with the flag `g` matches every other time it is asked; a request is
  ignored all the same, since it asks at its start and at its end, unless another
  comes between, a forced name keeps it from asking again, or the rule is the
  server's (`replace_all`), which is asked once: then every other request slips
  through. `NamedAsRuled` excepts these.
- Who asks for a name early (the browser's header, the headers of a response)
  has the name kept as `_partialName` (`transaction/index.js:593`), so a request
  that is not found is no longer named after its status.
- A comment (`transaction/index.js:335`) says that rules of the user can override
  the name the API gave; `getFullName` takes the latter first.

Transactions:

- A transaction that is told not to be ignored (`forceIgnore` false, which only
  `Transaction.setForceIgnore` sets; `handle.js:45` sets true) and has a name of
  the API's that a rule ignores is half taken: `finalizeNameFromUri` overrides
  the rule (`transaction/index.js:422`), then `_markAsWeb` has the base segment
  ask for the name (`segment.js:120`), the rules set `ignore` again, and nothing
  is recorded (line 210); the agent then asks `forceIgnore` (`agent.js:759`) and
  takes over metrics, errors, trace and event. `AllOrNothing` states this
  exception.
- An error seen outside of the transaction and again in it is traced twice, as
  "Unknown" and as the transaction's: the marks are kept per transaction. A
  malformed error is marked before it is found to be one.
- `startWebTransaction` and `startBackgroundTransaction` leave the transaction
  open when their handle throws. A transaction proxy starts none where the
  context holds a segment of a transaction that has ended.
- Segments of stream events are made in the context of whoever emits first: in
  another transaction they count there and hang in no tree; where there is none,
  `emit` throws (`shim.js:2030`, `EmitMeasured`).
- Exclusive time may be negative when a segment starts before its parent. A
  metric that only ever had negative values reports a maximum of 0.

OpenTelemetry and instrumentation:

- The span the agent puts into a context takes the place of a real active span
  and has no method but `spanContext`.
- `FallbackServer` stands before `FallbackConsumer` and takes every consumer
  span, so one without `messaging.operation` becomes a web transaction. Spans of
  RPC clients match a rule without a type and get no segment.
- A second copy of a module gets the first hook only
  (`instrumentation-tracker.js:203`), though its doc comment is about all loaded
  instances; a hook that declined one copy runs on the next.
- `InstrumentationDescriptor` drops `isEsm` (`shimmer.js:564` asks for it).

Lambda:

- An error that no ender takes (a rejection after the answer) is added to the
  next invocation's transaction, although `aws-lambda.js:35-36` relates it to
  "the invocation transaction": `ErrorsAreItsOwn` is violated even where
  invocations do not overlap. A rejected promise of a streaming handler is not
  heard of (`StreamRejects`): the runtime has its answer while the transaction is
  open, and the error is not recorded.
- The stale ender of finding 5 may leave the next transaction open, and an
  invocation in its context joins it.
- Two sends of one method before a flush overwrite each other
  (`collector/serverless.js:103`), so half of a split payload is lost. In
  serverless mode the agent never emits `started`, so a shutdown that collects
  data without a timeout does not call back.

## Not modelled

- *Adapters*: instrumentations of third-party libraries, datastore, message and
  promise shims, the way shims wrap properties and classes, how loads of modules
  are noticed. They keep no state that others read; what
  they share is in `Tracer` and `WebRequest`.
- *Data*: regular expressions and segment terms of name rules, attributes, the payload formats, the recorders
  that turn a segment into metrics, LLM events, the default configuration's
  values. Properties of these are about single calls and strings.
- *I/O*: the HTTP request itself, utilization, system metrics, logging, the
  health file, pipe and stdout of the serverless collector.
- *Unused*: the reservoir, agent commands.
- *Abstracted in modelled parts*: which destinations an attribute goes to and
  include rules of each (one stands for all; what `clearData` does not reach, such
  as transaction events, is left out), sampler targets of 0, the serverless mode of
  query traces, thresholds that change, apdex metrics, `totalExclusive` and
  `sumOfSquares` (sums as `total` is), cross-application headers of the older
  kind, parent attributes and span ids of distributed tracing, expected errors, errors
  ignored by message, error metrics and the limits of error traces, `addBatch` of logs (add in a loop), retries
  of synchronous failures; of the bridge the mapping of attributes and names,
  trace ids, the propagator, spans made active by hand and opaque segments.
