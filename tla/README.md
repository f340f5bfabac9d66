# Verification of AINIS, the AI network intelligence system

TLA+ modules of the running system, TLC configurations that check them on small
instances, and theorems that TLAPS proves for every instance. Paths below are
relative to the repository.

## The system

```
 frames -> capture agent --POST /metrics--> ingest API --> InfluxDB network_traffic
              |  (two threads, a deque)          \-------> PostgreSQL network_events
              \--Redis "packets"--> /ws/metrics handlers --broadcast--> browsers

 InfluxDB -> feature aggregator -> network_metrics -> inference scheduler
                                                       |-> predictions, alerts (PostgreSQL)
                                                       \-> Redis "predictions", "alerts"
                                                             \-> /ws/predictions -> browsers
 REST -> routing API -> PostgreSQL routing_rules
              \--Redis "routing_rules_updated"--> rule engine --tc--> interfaces
              (the engine fetches the table over HTTP)

 browser: main.jsx shows one route at a time
   /topology  topology API --GET, WebSocket--> socket store -> topology view, counters
   /          GET latest predictions, /ws/predictions -> predictions panel
   /alerts    GET alerts, every 15 s -> alerts page
   /routing   GET rules, every 5 s and after each click -> routing panel

 train.py -> checkpoint, scaler;  calibrate.py -> calibration;  predictor.py loads them
```

| Component | State it keeps | Operations | What makes it correct |
|---|---|---|---|
| capture agent (`backend/capture/scapy_agent.py`) | `packet_buffer` (deque, 1000), `stats` | handle a frame, flush the buffer, log | nothing is lost unnoticed, packets are delivered in capture order and not again once answered |
| ingest API (`app/api/metrics.py`) | two stores, a counter | `POST /metrics` | 201 means stored |
| feature aggregator (`app/services/feature_aggregator.py`) | `network_metrics` | a row every 5 s | survives failures, stops when cancelled |
| inference scheduler (`app/services/inference_scheduler.py`) | predictions, alerts, a counter, loaded models | a round every 5 s | alerts rest on stored predictions; failures stay local |
| auto rule manager (`app/services/auto_rule_manager.py`) | none of its own | `evaluate_rules` | |
| lifespan (`app/main.py`) | the two tasks, the Redis client | start, stop | stops in order, and does stop |
| routing API (`app/api/routing.py`) | `routing_rules` | POST, PUT, DELETE | deleted stays deleted, a row is one body |
| rule engine (`app/services/rule_engine.py`, `capture/qos_manager.py`) | rules fetched last, tc configuration | fetch, apply, listen | ends up with the table |
| WebSocket manager and routes (`app/websocket/manager.py`, `app/api/websocket_routes.py`) | list of sockets, gauge, one subscription per handler | connect, broadcast, disconnect | everyone hears, the gauge is right |
| topology API (`app/api/topology.py`) | none | GET, push every 5 s | |
| socket store (`frontend/src/hooks/useWebSocket.js`) | one store per path | mount, unmount, socket callbacks | one socket, truthful status |
| topology view (`useTopology.js`) | the topology shown | push, GET | components agree |
| alerts page (`pages/Alerts.jsx`, `app/api/alerts.py`) | the page's list, number and total; requests under way | poll, page, create | settles on the newest alerts |
| predictions panel (`components/PredictionsPanel.jsx`, `app/api/predictions.py`) | list, gauges, one GET, one socket | mount, answer, message | what is missing has a cause; list and gauges agree |
| routing panel (`components/RoutingPanel.jsx`) | the rules it shows, requests under way | poll, create, toggle, delete | settles on the table |
| single-page application (`main.jsx`, `Sidebar.jsx`) | the route | navigate, render | a page leaves nothing behind |
| anomaly training (`ml/anomaly/train.py`, `calibrate.py`, `predictor.py`, `synthetic/generator.py`) | data set, checkpoint, scaler, calibration, loaded predictors | train, calibrate, load | weights, scaler and baseline belong together |
| metrics summary, health, data tools, Mininet simulation, deployment | none | reads, scripts | see *Not modelled* |

What is hard about it: two unsynchronised threads around a deque; coroutines
that interleave at every await over a shared list or one table; calls of
InfluxDB, PostgreSQL, Redis and HTTP that fail, or take effect and fail;
processes that are killed and started again; callbacks of sockets that were
given up; publications nobody is subscribed to; answers that overtake each
other; files that are replaced one after the other while another process reads
them. `PROJECT.json` lists the hazards at their lines.

## The modules

| Module | Models | Remarks |
|---|---|---|
| `OrderedDelivery` | the agent's promise, in the abstract | capture, deliver the oldest, give up; 3 actions |
| `IngestApi` | `ingest_metric` | its operators are the API's half of the agent's exchanges |
| `CaptureAgent` | the agent, extends `IngestApi` | implements `OrderedDelivery` |
| `CaptureAgentProofs`, `CaptureStoresProofs` | theorems about `CaptureAgent` | the agent's own state; the stores and the live channel |
| `WsFanout`, `WsFanoutProofs` | manager and both WebSocket routes | |
| `Inference`, `InferenceProofs` | aggregator, scheduler, lifespan | |
| `RoutingRules`, `MCRoutingRules` | routing API, Redis channel, rule engine | the MC module adds symmetry |
| `RoutingRulesProofs` | theorems about `RoutingRules` | |
| `SocketStore`, `SocketStoreProofs` | socket store, topology view, what components count, topology API | |
| `AlertsPage`, `PredictionsPanel`, `RoutingPanel` | one component of the dashboard each, with its part of the API | parts of `Dashboard` |
| `Dashboard`, `DashboardProofs` | the single-page application | composes the three, mounting and unmounting them |
| `Training`, `TrainingProofs` | training, calibration, loading of the anomaly model | |

Definitions keep the source's names where there is one (`packet_buffer`,
`onmessage`, `resetStore`, `predictions_made_total`). A definition introduced
by "Mutant:" is no part of the model: it is the definition below it with a
plausible bug, kept to show that a property notices.

### CaptureAgent and IngestApi

A packet is its number in capture order. `next` is the frame to come;
`sniffer` and `flusher` are the positions of the two threads, with the packet
each holds; one action is one critical section of `buffer_lock`, one HTTP
exchange or one publication. `CaptureFrame` reads the emptiness of the buffer
and decides about the live POST; `SentLive` / `NotSentLive` is the POST,
`BufferPacket` the append with its eviction, `Announce` the publication.
`StartPass`, `PeekHead`, `Flushed` / `NotFlushed`, `PopHead`, `EndPass` are
`_flush_buffer`. An exchange ends in one of four ways: 201, another answer
(refused, or a 500 with either store written or not), unreachable, or
unanswered, when the API may handle the request at any later time
(`HandleLate`). `SnifferEscape` and `FlusherEscape` are httpx errors that no
`except` names. `acked`, `evicted`, `lost`, `doubted` and `announced` are
histories for the properties.

An InfluxDB point is identified by packet: two packets with the same
protocol, addresses and microsecond would be one point, which the model
leaves out. Redis failures of the publication are swallowed by the code and
leave no trace in the state; `announced` holds what was offered to Redis.

### WsFanout

`handler` is the position of each `/ws/metrics` handler, `failed` its local
list of sockets that could not be sent to, `connections` the live list that
all broadcasts index, `gauge` the Prometheus gauge shared with
`/ws/predictions`. `SendNext` is one turn of broadcast's loop: Python's list
iterator is an index, so that a removal (`Drop`) shifts what other loops meet.
A send to a socket whose browser has left fails at once; in reality the first
one after the loss may still succeed, which only delays the removal.
`Without(s, S)` is the list after `disconnect` of every socket of `S`: its j-th
entry is the j-th one that stays, found by its rank among those that stay, so
that no recursive definition is needed and the proofs can speak of it.

### Inference

Time is `now`, in intervals of 5 seconds; a sleep of one interval ends after at
least one `Tick`, and an await may span any number of them. A row of
`network_metrics` is its time and whether the congestion model scores it above
0.70 (`high`), so that one row always gets the same verdict; the anomaly
model's verdict is free. Rows are appended in the order of their times
(`RowsInOrder`, proved below), so that the rows of a query's range are the tail
of `rows` behind the older ones (`Older`, `InRange`). A prediction is its model, round, row and verdict.
`SavePrediction`, `PublishPrediction`, `CreateAlert` and `AnnounceAlert` are
the awaits of a block, each with its failure, in which the call may have taken
effect; where a failure leads follows the `except` that catches it.
`CancelAggregator` and `CancelScheduler` are CancelledError at whatever await
the task is in; `ShutDown`, `InferenceStopped`, `AggregationStopped`,
`CloseRedis` are the second half of `lifespan`; `Crash` kills the process.

### RoutingRules

`request` holds each write handler: the body, and the row it loaded. `Update`
writes the columns in which the body differs from the loaded row, as the
session does, and not the whole body. `Unwritten` is a commit that raises,
because the row is gone or the database fails. The publication follows the refresh with no
await in between (`redis.Redis`, not `redis.asyncio`), so that `Announce` is
one step. The engine takes one message and fetches the table once
(`Hear`, `Fetch`, `Apply`); `Subscribed` is Redis's processing of the
subscription, which the code does not wait for, and `Reconnect` the client
library's silent reconnection under `listen`. A rule has two columns, its
priority and whether it is active.

### SocketStore

`store` is the record of `getStore`, with its listeners as components;
`sockets` are all sockets ever created, with their ready state; `view` is what
`useTopology` shows in each component. Callbacks write to the store whichever
socket it has now, as in the code. `close()` leaves the events of the socket to
a later task (`onclose`); `onerror` comes in the same task as the close and
leaves no state of its own behind. `view[c].count` is what the counters of the
dashboard do with the last message (`PacketCounter.jsx` and the others: an
effect whose dependency is the message). Any component may come and go, as the
hook allows; pages use it beside `RealtimeProvider`, which itself stays mounted
for a visit.

`StrictMode` says which build it is. In the development build (`npm run dev`,
`main.jsx:13`) a mount runs the effects, their cleanups and the effects again
in one task, and the component keeps its state. `Mount` has what that comes to:
a component that is alone creates two sockets, of which the cleanup closes the
first while it connects (`Created`); a component that joins a store with a
message counts that message twice (`CountedByMount`, recorded in `recounted`);
the answer of the first GET is ignored. In the production build
(`npm run build`) effects run once. `Unmount` is a component that leaves the
page, whose state ends. The theorems hold for both builds.

### Dashboard

Every request is a record of its own in a sequence, in the order it was made:
`ServeAlerts(i)`, `AlertsArrive(i)` and their like take any of them, so that
answers are made and arrive in any order, and errors among them. A cancelled
request of the alerts page is dropped from `polls`, since its answer changes
nothing. An alert and a prediction are their numbers in the order of
`created_at`, a rule is its id and whether it is active. `GoTo` is navigation:
the components of the old route are unmounted and those of the new one mounted
in one step, which React does in one commit. `Broken` is a list that is none,
which makes the next rendering throw; there is no error boundary, and `Render`
leaves a blank page until it is loaded again. The panel's writes carry no
`X-API-Key`, so that the API refuses them (`verify_api_key`); the table is
changed by other clients. The history variables `unheard` and `removed` are
there for `GapsHaveTheirCause`; they are written by the steps in which an entry
is lost, so that the property excludes losses of any other kind and says
nothing against these. `Dashboard` is the production build: under StrictMode
the one thing it lacks is a second answer to the predictions panel, whose first
GET is not cancelled. That an error object is no list and no table is
an assumption about `NotAList` and `ErrorObject`, as in JavaScript, where the
list methods of the one are missing in the other.

### Training

A file is missing, torn (opened for writing, or left so by a kill) or holds
what it is made of: the checkpoint its training, epoch and data set; the scaler
its data set; the calibration the weights and the scaler it was measured with.
`Epoch(loss)` is one epoch with any validation loss, `NaN` among them;
`SaveCheckpoint`, `OpenScaler` and `SaveScaler` are the writes, a calibration
reads the scaler, then the weights, computes, and writes, and a load reads the
checkpoint, the scaler and the calibration in that order. Every process
can be killed between any two of these. The generator's column is named
otherwise than the one the scripts read, so that the data set is unreadable
until somebody renames it (`RenameColumn`). `settled` and `measured` are history: whether
the last training had ended with an improvement when a predictor began to load,
and whether the calibration it read had been made of that.

## The runs

| Run | What it asks | Bounds, and why they are enough |
|---|---|---|
| `capture_agent` | 6 invariants, the freshness of flushes, the refinement, the draining | 5 frames of which one is no IP packet and one is refused; a buffer of 2, so that it fills, evicts and evicts the packet in flight; 2 failures, so that one can follow another; both escapes and restarts |
| `flusher_dies` | does the buffer drain once the API answers? No | 2 frames |
| `ws_fanout` | gauge, copies, misses, release of viewers | 2 clients, 1 viewer, 2 packets, 1 prediction: a client can leave during the other's broadcast, twice |
| `ws_missed` | does every connected client hear? No | 2 clients, 2 packets |
| `ws_duplicates` | is a packet counted once? No | 2 clients |
| `inference` | alerts, tables, counter, how old a scored window may be, shutdown, rounds | windows of 1 row in a range of 2, so that the range overflows the window and slides; rows stay in the summary query for a second interval, so that one row can raise two alerts; 2 intervals, 2 starts, 1 failure or kill at any await of any block |
| `alert_lost` | does a prediction above the threshold make an alert? No | as `inference` |
| `routing_rules` | engine, rows, deletions | 2 concurrent requests of any kind on up to 3 rows, 2 priorities, 2 failures, kills and restarts |
| `rules_inactive` | do active rules get their class? No | 1 request |
| `socket_store` | sockets, status, counts, agreement | the development build, whose mounts do all that those of the other do and more; 2 components, 4 sockets, so that the store is opened twice, each time with a socket that is given up at once, with callbacks of earlier sockets outstanding; a history of 2, so that it lets go; 3 messages, 2 topologies |
| `dashboard` | gaps, gauges, what blanks the page, settling | pages of 1 alert with 2 alerts; a list of 2 with 3 predictions of 2 models, so that it lets go; 2 requests under way, so that one overtakes another; 1 rule, 1 click, 1 change by another client, 1 failure |
| `training` | the checkpoint, pairs, baselines | 2 trainings of 3 epochs with a patience of 2, so that a training can end early or late; 2 losses and `NaN`; 2 data sets; 1 predictor, loaded any number of times |

`socket_store` has 4.2 million states, `inference` 0.7 and
`dashboard` 0.45 million (both with liveness) and `training` 4.5 million, each
between one and two minutes; the others are smaller.

A run whose answer is "No" checks what a document, a comment or a test of the
repository says, and TLC shows a behaviour of the code in which it does not
hold; `PROJECT.json` quotes the sentence under "findings".

Deadlock is not checked: every model may stop when its bounded inputs are used
up, and so may the system.

The properties that hold say how far the code can be trusted next to the ones
that fail: `MissesNeedRemoval` that a missed event needs a removal during the
run, `CopiesBounded` how many copies there can be, `SilenceHasItsOwnCause` that
a missing alert needs a failure of a call for that very prediction,
`WindowLagBounded` how old the window may be, `DrainsOrBlocked` that only a
dead thread or a refused packet stops the buffer, `EngineKeepsUp` that only an
unannounced change or a failed fetch leaves the engine behind,
`DenialHasItsCause` that only a late close makes a store deny its connection,
`GapsHaveTheirCause` what can keep a prediction from the list,
`BlankNeedsRefusal` that only a failure on the overview page takes the
application down, and `PairsMatch` and `BaselineMatches`
which kills and overlaps part the files of a model.

Met while modelling, each of them part of the model, and without a run of its
own:

* The window query of the anomaly model takes the first rows of its range and
  not the last (`WindowLagBounded` says by how much it lags).
* `train.py:70` says to run `generator.py` first, whose column is
  `avg_latency_ms` (`generator.py:34`); `train.py` and `calibrate.py` then end
  with a KeyError.
* `train.py` saves the scaler even when no epoch improved, beside the
  checkpoint of an earlier training: such a pair is excluded by `settled`.
* An answer of the predictions API that is an error object is taken for the
  list and takes the whole dashboard down (`PredictionsPanel.jsx:51`).
* In the development build a counter that is mounted beside a message, such as
  the protocol breakdown of the overview page beside `RealtimeProvider`, counts
  it twice (`recounted`), under the label "packets total"
  (`ProtocolBreakdown.jsx:107`); `CountWithinHistory` says that this is all, and
  `ProductionCountsOnce` that it does not happen in the production build.
* `docs/runbook.md:737` has `Alerts.jsx` as the "full alert history". The page
  takes its total from the length of the answer (`Alerts.jsx:41`), so that the
  next page is never offered. The claim is stated as `FullHistoryOffered`, and
  `OlderAlertsUnreachable` refutes it for every table longer than a page.
* The routing panel sends no API key, so that no click of it changes a rule.
* `RuleEngine.fetch_active_rules` answers a failed fetch with an empty list,
  so that the configuration is cleared.

### Fairness

* `CaptureAgent`: weak fairness of the sniffer's steps once a frame is in its
  hands, and of the flusher. Both are threads of one interpreter that never
  wait for each other beyond a few statements, and a POST returns or times out
  after 2 s. No fairness for the arrival of frames, late handling or a restart.
* `WsFanout`: weak fairness of each handler: the event loop runs every ready
  coroutine. None for publications, clients or Redis errors.
* `Inference`: weak fairness of the two tasks and of the lifespan, for the same
  reason; an awaited call returns or raises. None for time, start, stop, kill.
* `Dashboard`: weak fairness of both timers, which fire as long as their
  component is mounted, of the rendering that is due, and of the oldest request
  of either page: it is answered or fails, and what came is handled, since a
  browser ends every request and runs every callback. None for clicks,
  navigation, other clients, the scheduler or failures. `PagesSettle` follows
  although newer requests may be overtaken by older ones any number of times.
* `RoutingRules`, `SocketStore`, `Training`: safety only.

## The proofs

`CaptureAgentProofs` proves, for every number of frames, buffer capacity,
number of failures, set of refused packets, with and without InfluxDB, and
whether or not escapes are possible (`IngestAssumption`, `AgentAssumption`):

| Theorem | States |
|---|---|
| `TypeCorrect` | `Spec => []TypeOK` |
| `Invariant` | `Spec => []IndInv` |
| `NothingDisappears` | `Spec => []Conservation` |
| `DeliveredInOrder` | `Spec => []AckedInOrder` |
| `NothingOvertaken` | `Spec => []LiveSendOvertakesNothing` |
| `Freshness` | `Spec => PostsAreFresh` |
| `ImplementsPromise` | `Spec => KeepsPromise`, that is, `Spec => Promise!Spec` |

None of these properties is inductive by itself. That the answers are
in order depends on what is still to be sent; so `IndInv` orders everything by
packet number: what was given up or answered lies below what is buffered
(`BufferInv`, `AckedInv`), and that below what the sniffer holds (`HandInv`).
Two facts carry the concurrency. First, a live POST implies an empty buffer and
an idle flusher (`LiveSendOvertakesNothing`): the emptiness the sniffer saw is
stale when it is used, but only the sniffer appends, and a flusher in flight
keeps its packet at the head until it is popped or evicted. Second, the packet
of a flusher in flight is the head or was evicted, and is the smallest of the
buffered ones (`FlightInv`), so that the identity check of `_flush_buffer` pops
exactly the packet that was answered. With these, each step's case is
arithmetic on packet numbers. The refinement maps an evicted packet whose POST
is on its way to *pending* still: the answer to that POST settles it.

`CaptureStoresProofs` goes on from `IndInv` to what the packets leave behind:

| Theorem | States |
|---|---|
| `StoresInvariant` | `Spec => []StoresInv` |
| `RowsAreRegular` | `Spec => []IrregularRowsAreDoubted` |
| `AckedReachesInflux` | `Spec => []AckedIsStored` |
| `LiveChannelIsComplete` | `Spec => []AnnouncedRegardless` |

The difficulty is the request the agent has given up on, which the API may
handle any time later. `OfferedInv` therefore speaks of the packets *offered*:
those with a row and those with such a request. None of them is above a packet
the flusher will still post, and one that will be posted again is doubted. A
row that is appended is then above all others, or of a doubted packet.

`RoutingRulesProofs` proves, for every finite set of requests, every set of
priorities without 0 and every number of failures (`RoutingAssumption`):

| Theorem | States |
|---|---|
| `TypeCorrect` | `Spec => []TypeOK` |
| `Invariant` | `Spec => []IndInv` |
| `RowsAreBodies` | `Spec => []RowIsOneBody` |
| `EngineCatchesUp` | `Spec => []EngineKeepsUp` |
| `DeletionsLast` | `Spec => DeletedStaysDeleted` |

`EngineKeepsUp` is nearly inductive: between a commit and its publication the
request is "committed", and after it there is a message pending or the engine
was left out. The other two need what a handler knows at its awaits
(`RequestInv`: its id was given out, its body passed the schema) and above all
`LoadedInv`: a PUT that is about to commit has the row as it is, or the row is
gone, or another PUT has committed over it. A commit over the loaded row writes
the whole body, and one over a row that is gone writes nothing. That an insertion
does not reuse the id of a deleted row follows from `last_id` alone; that its
id is in the model's range needs `SequenceInv`: no more ids are given out than
there are requests past their commit.

`InferenceProofs` proves, for every range, window, number of intervals, starts
and failures and every set of verdicts:

| Theorem | States |
|---|---|
| `Invariant` | `Spec => []IInv` |
| `AlertsAreFounded` | `Spec => []AlertsRestOnPredictions` |
| `SilenceIsExplained` | `Spec => []SilenceHasItsOwnCause` |

The argument is where the scheduler is: a prediction is in its hands exactly
during the four calls made for it (`JobInCalls`), each of which says how far
the prediction has got (`JobProgress`). Every way out of a call, by an
exception or a cancellation, puts the prediction among the hit ones if it is
not yet alerted. A shutdown ends the task before the process
(`InferenceOverFirst`), and a crash hits what is in hand. The rows and their times
play no part so far: these three hold whatever the queries return.

Its second part is about time and number, under `InferenceAssumption`:

| Theorem | States |
|---|---|
| `TypeCorrect` | `Spec => []TypeOK` |
| `TimedInvariant` | `Spec => []TimedInv` |
| `CounterIsRight` | `Spec => []CounterCountsPublished` |
| `AlertStormIsBounded` | `Spec => []AlertStormBounded` |
| `VerdictLagIsBounded` | `Spec => WindowLagBounded` |

Both tasks sleep, also at their start, and everything follows from what a sleep
separates. `RowsInOrder`: at most one row per interval, in ascending order.
`RoundsInOrder`: a prediction is of an earlier round, and about a row older
than this round, or it is of this round and its model is not to be asked again
(`ToAsk`). `OncePerRound` is what remains
of it when the round is over: two predictions of one model are of two rounds.
The congestion alerts about one row are then of different rounds, none of them
more than `RecentTicks` after the row, which makes at most `RecentTicks + 1`
(`AlertsPerRow`). No run checks that bound: a row that was scored twice leaves
its range in the third interval at the earliest. The
window's lag is the number of rows of the range less those of the window, and a
range of `WindowTicks` intervals holds at most `WindowTicks + 1` rows
(`RangeBounded`). The counter is compared with a set that grows by one
prediction at a time; `NotYetPublished` is why it grows.

`SocketStoreProofs` proves, for every finite set of components, every cap of
the list and any number of sockets, messages and topologies
(`StoreAssumption`):

| Theorem | States |
|---|---|
| `Invariant` | `Spec => []IInv` |
| `TypeCorrect` | `Spec => []TypeOK` |
| `OneSocket` | `Spec => []NoLeakedSocket` |
| `HonestStatus` | `Spec => []DenialHasItsCause` |
| `CountsAreFounded` | `Spec => []CountWithinHistory` |
| `ProductionCountsOnce` | `Spec => []TotalCountsPackets`, if not `StrictMode` |
| `ComponentsShowTheSame` | `Spec => []ComponentsAgree` |

`NoLeakedSocket` carries it: only the store's socket opens or delivers, and of
an earlier socket only the close can come late. What is in its inbox is newer
than what the store has, in ascending order (`InboxAhead`), so that a component
whose last message is not the store's has an older one; `ViewOf` then follows
one component: its count is at most the position in the list of the message it
saw last, as long as nothing was let go, or one more for a mount that counted
twice (`Excess`), and its topology is that message's. A store without a socket
is as new (`SocketKnown`), which is why the cleanup in the middle of a mount
has nothing to reset.

`WsFanoutProofs` proves, for all finite sets of clients and viewers and any
number of packets and predictions (`FanoutAssumption`):

| Theorem | States |
|---|---|
| `Invariant` | `Spec => []IInv` |
| `TypeCorrect` | `Spec => []TypeOK` |
| `GaugeIsRight` | `Spec => []GaugeCountsSockets` |
| `OneCopyPerHandler` | `Spec => []CopiesBounded` |
| `OnlyRemovalsSkip` | `Spec => []MissesNeedRemoval` |

A handler *owes* a client a message (`Owes`) while the message stands in its
queue, or while it sends it and the client is ahead of its index. `CopiesSpent`
counts a copy against a handler of the message's audience that no longer owes
it (`Spent`): sending costs the handler its one chance, because a client stands
in the list once (`Registered`) and the queue holds later messages only
(`InOrder`). The removals are the hard step: they shift the list under the loops
of others. `WithoutProperties` traces every entry that is left to its former
position, which is the same or further right, so that a removal can make a loop
pass over a client but never meet it again, and what was spent stays so. For
`OnlyRemovalsSkip`, `SelfServed` follows one client through its own handler: as
long as nothing was removed, that handler owes it the message or it has it.
`GaugeCountsSockets` is needed for the gauge to be a natural number at all;
`TypeOK` itself is proved here and not checked by a run, in which it would say
nothing more.

`DashboardProofs` proves, for every size of a page and of the list, every
sequence of the predictions' models and any number of requests, clicks, changes
and failures (the assumptions of the four modules):

| Theorem | States |
|---|---|
| `Invariant` | `Spec => []DashboardInv` |
| `TypeCorrect` | `Spec => []TypeOK` |
| `OlderAlertsUnreachable` | `Spec => [](NewestShown /\ created > PageSize => ~FullHistoryOffered)` |
| `NoPredictionVanishes` | `Spec => []GapsHaveTheirCause` |
| `GaugesAgreeWithList` | `Spec => []GaugesMatchHistory` |
| `OnlyRefusalsBlank` | `Spec => BlankNeedsRefusal` |

`DashboardInv` has a part per component and one, `Mounted`, that ties what is
mounted to the route. *The alerts page:* all requests are for page 1, their
answers hold at most a page, and the total made of one offers no other page; a
bound on the cardinality of a slice of the table is the lemma it rests on.
`FullHistoryOffered`, the runbook's claim, is then false as soon as the table is
longer than a page.
*The predictions panel:* all it holds is in the table (`PanelTyped`), with
which `GapsHaveTheirCause` is inductive, because every way in which an entry
leaves the list or misses it is in one of the histories. The gauges are written
apart from the list, so that their agreement is proved as `GaugesShowFirst`:
the gauge is that of the first entry of its model (`First`, which exists by the
well-foundedness of `<`), and a message that is put in front, an answer that
replaces the list and the cut at `Cap` each keep that. *The routing panel:* its
requests and table have their types (`RoutingTypeOK`), for which a POST and a
PUT must be seen to make a table of a table. For the blank page, `BlankInv`
says that a panel which is not mounted holds nothing, so that what breaks the
rendering was put there on the overview page, by a request that was refused.

`TrainingProofs` proves, for every number of epochs, patience, set of losses,
holders of a predictor, trainings and data sets (`TrainingAssumption`):

| Theorem | States |
|---|---|
| `Invariant` | `Spec => []IInv` |
| `TypeCorrect` | `Spec => []TypeOK` |
| `BestIsKept` | `Spec => []CheckpointIsBest` |
| `ScalerFits` | `Spec => []PairsMatch` |
| `CalibrationFits` | `Spec => []BaselineMatches` |

`BestKnown` ties `best` to the first epoch of least loss, which
`SavedBest` finds in the checkpoint. `CalibrationCurrent` and `LoadingCurrent`
say of a process that began after the last training had ended, as long as no
other has begun, that what it has read is what is on disk.

## Only model-checked

Every safety property that a passing run checks is also a theorem, and
`AlertStormBounded`, `TotalCountsPackets` (of the production build) and the
refutation of `FullHistoryOffered` are theorems only. What stays
with TLC is liveness: `DrainsOrBlocked`, `ViewerReleased`, `ShutdownCompletes`,
`RoundsComplete` and `PagesSettle` follow from fairness, that is, from ENABLED,
which is out of the prover's reach. The five runs that expect a violation are
TLC's too: a counterexample is a behaviour of one instance.

## Not modelled

* The agent's `log_stats` and the `stats` it zeroes without the lock: they are
  printed and nothing depends on them.
* The values of features, scores and severities, and the predictors'
  arithmetic: floating point.
* The branches of `evaluate_rules` that no call reaches: it is called with 0.0
  for both scores.
* Rates, ports and filters of tc; two priorities never share a class, since a
  class is numbered by its priority.
* Health checks, the metrics summary and the other GET handlers: they keep no
  state.
* The time windows and charts of `MetricsPanel` and `ProtocolBreakdown`, which
  count messages as `PacketCounter` does; `SystemHealth.jsx`, which no page
  mounts.
* The lazily made InfluxDB clients, the log buffer and the limiter; CORS,
  logging, request ids.
* Congestion training and the data tools: one pass that writes two files; the
  columns `FeatureExtractor` wants are not those of the data set in the
  repository, and no script calls it.
* Mininet, migrations, deployment: sequential scripts around other programs.

## What could come next

* `AgentStats`: the counters of the agent under `log_stats`.
* The summary's arithmetic and the thresholds as operators over scaled
  integers, with reference definitions.
* A composition of the agent's publications with `WsFanout` and the store, for
  what a dashboard counts end to end.
* `Dashboard` under StrictMode, with the predictions panel's two GETs.
* An abstract specification of the engine's view of the table, a register that
  lags, which `RoutingRules` implements, and one of a broadcast.
