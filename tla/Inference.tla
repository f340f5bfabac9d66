------------------------------ MODULE Inference ------------------------------
(***************************************************************************)
(* The two background tasks of the backend and the lifespan that starts    *)
(* and stops them:                                                         *)
(*   run_feature_aggregation_loop (services/feature_aggregator.py) writes  *)
(*   one network_metrics row per interval;                                 *)
(*   run_inference_loop (services/inference_scheduler.py) scores the last  *)
(*   row with one model and a window of rows with the other, saves and     *)
(*   publishes each prediction and raises alerts;                          *)
(*   lifespan (main.py) cancels them one after the other and closes Redis. *)
(*                                                                         *)
(* All are coroutines of one event loop: an action runs from one await to  *)
(* the next.  Time is counted in intervals of 5 seconds: a sleep of one    *)
(* interval sees at least one Tick, an await may take any number.          *)
(***************************************************************************)
EXTENDS Naturals, Sequences, FiniteSets

CONSTANTS
    SeqLen,         \* rows of a window of the anomaly model (30)
    WindowTicks,    \* range of the window query in intervals (3 minutes: 36)
    RecentTicks,    \* range of the summary query in intervals (30 seconds: 6)
    Verdicts,       \* bound: the verdicts the anomaly model may give (is_anomaly)
    MaxTicks,       \* bound: intervals that pass
    MaxStarts,      \* bound: starts of the process
    MaxFaults       \* bound: failed calls of InfluxDB, PostgreSQL, Redis or a model, models
                    \* that cannot be loaded, crashes

ASSUME InferenceAssumption ==
    /\ SeqLen \in Nat \ {0}
    /\ RecentTicks \in Nat
    /\ WindowTicks \in Nat
    /\ RecentTicks <= WindowTicks
    /\ Verdicts \subseteq BOOLEAN
    /\ MaxTicks \in Nat
    /\ MaxStarts \in Nat
    /\ MaxFaults \in Nat

VARIABLES
    now,            \* intervals since the beginning
    rows,           \* network_metrics, oldest row first
    aggregator,     \* the aggregation task: its position and when its sleep began
    scheduler,      \* the inference task: its position, when its sleep or its round began,
                    \* and the prediction in its hands
    loaded,         \* the predictors the inference task holds
    predictions,    \* the table of predictions
    alerts,         \* the table of alerts, each with the prediction it was raised for
    predictions_made_total,  \* the Prometheus counter
    lifespan,       \* position of the lifespan
    started,        \* when the process started
    starts,         \* starts so far
    faults,         \* failures so far
    published,      \* history: predictions published on "predictions"
    announced,      \* history: alerts published on "alerts"
    hit             \* history: calls that failed or were cut short: prediction and position

tables == <<rows, predictions, alerts>>
process == <<lifespan, started, starts>>
histories == <<published, announced, hit>>
vars == <<now, tables, aggregator, scheduler, loaded, predictions_made_total, process,
          faults, histories>>

Models == {"congestion", "anomaly"}
Times == 0 .. MaxTicks
Row == [time : Times, high : BOOLEAN]
Prediction == [model : Models, at : Times, of : Times, is_alert : BOOLEAN]
NoPrediction == [model |-> "none"]

AggregatorPCs == {"absent", "sleeping", "publishing", "backoff", "done"}
CallPCs == {"saving", "publishing", "alerting", "announcing"}
SchedulerPCs == CallPCs \cup {"absent", "sleeping", "querying congestion", "querying anomaly",
                              "ruling", "done"}
LifespanPCs == {"down", "up", "stopping inference", "stopping aggregation", "closing"}

AggregatorAt(pc) == aggregator.pc = pc
SchedulerAt(pc) == scheduler.pc = pc

TypeOK ==
    /\ now \in Times
    /\ rows \in Seq(Row)
    /\ aggregator \in [pc : AggregatorPCs, since : Times]
    /\ scheduler \in [pc : SchedulerPCs, since : Times, job : Prediction \cup {NoPrediction}]
    /\ scheduler.pc \in CallPCs <=> scheduler.job # NoPrediction
    /\ loaded \subseteq Models
    /\ predictions \subseteq Prediction
    /\ alerts \subseteq Prediction
    /\ predictions_made_total \in [Models -> Nat]
    /\ lifespan \in LifespanPCs
    /\ started \in Times
    /\ starts \in 0 .. MaxStarts
    /\ faults \in 0 .. MaxFaults
    /\ published \subseteq Prediction
    /\ announced \subseteq Prediction
    /\ hit \subseteq Prediction \X CallPCs

Absent == [pc |-> "absent", since |-> 0]
AbsentScheduler == [pc |-> "absent", since |-> 0, job |-> NoPrediction]

Init ==
    /\ now = 0
    /\ rows = <<>>
    /\ aggregator = Absent
    /\ scheduler = AbsentScheduler
    /\ loaded = {}
    /\ predictions = {}
    /\ alerts = {}
    /\ predictions_made_total = [m \in Models |-> 0]
    /\ lifespan = "down"
    /\ started = 0
    /\ starts = 0
    /\ faults = 0
    /\ published = {}
    /\ announced = {}
    /\ hit = {}

Fault == /\ faults < MaxFaults
         /\ faults' = faults + 1
NoFault == UNCHANGED faults

Tick ==
    /\ now < MaxTicks
    /\ now' = now + 1
    /\ UNCHANGED <<tables, aggregator, scheduler, loaded, predictions_made_total, process,
                   faults, histories>>

-----------------------------------------------------------------------------
(* The feature aggregator.                                                  *)

CancelledAggregator == lifespan = "stopping aggregation"
AggregatorRuns(pc) == AggregatorAt(pc) /\ ~CancelledAggregator
AggregatorTo(pc) == aggregator' = [pc |-> pc, since |-> now]
AggregatorLeaves == <<now, scheduler, loaded, predictions, alerts, predictions_made_total,
                      process, histories>>

(* Mutant: the loop does not sleep between rounds.                          *)
AggregateUnslept ==
    /\ AggregatorRuns("sleeping")
    /\ \/ /\ AggregatorTo("sleeping")
          /\ rows' = rows
          /\ NoFault
       \/ /\ Len(rows) < MaxTicks + 1
          /\ AggregatorTo("publishing")
          /\ \E high \in BOOLEAN : rows' = Append(rows, [time |-> now, high |-> high])
          /\ NoFault
    /\ UNCHANGED AggregatorLeaves

(* The query and the write block the event loop, so that they are one step  *)
(* with the wake-up.  No packet in the last 30 seconds, or a failed query,  *)
(* leaves nothing to write; a failed write is logged and the features are   *)
(* published all the same.                                                  *)
Aggregate ==
    /\ AggregatorRuns("sleeping")
    /\ aggregator.since < now
    /\ \/ /\ AggregatorTo("sleeping")
          /\ rows' = rows
          /\ NoFault
       \/ /\ AggregatorTo("publishing")
          /\ \E high \in BOOLEAN : rows' = Append(rows, [time |-> now, high |-> high])
          /\ NoFault
       \/ /\ AggregatorTo("publishing")
          /\ rows' = rows
          /\ Fault
    /\ UNCHANGED AggregatorLeaves

PublishFeatures ==
    /\ AggregatorRuns("publishing")
    /\ \/ AggregatorTo("sleeping") /\ NoFault
       \/ AggregatorTo("backoff") /\ Fault
    /\ UNCHANGED <<rows, AggregatorLeaves>>

(* The extra sleep after an unexpected error.                               *)
EndBackoff ==
    /\ AggregatorRuns("backoff")
    /\ aggregator.since < now
    /\ AggregatorTo("sleeping")
    /\ UNCHANGED <<rows, faults, AggregatorLeaves>>

(* Mutant: the cancellation is handled like any other error of the loop.    *)
CancelAggregatorBacksOff ==
    /\ CancelledAggregator
    /\ aggregator.pc \in {"sleeping", "publishing", "backoff"}
    /\ AggregatorTo("backoff")
    /\ UNCHANGED <<rows, faults, AggregatorLeaves>>

(* CancelledError at whatever await the task is in.                         *)
CancelAggregator ==
    /\ CancelledAggregator
    /\ aggregator.pc \in {"sleeping", "publishing", "backoff"}
    /\ AggregatorTo("done")
    /\ UNCHANGED <<rows, faults, AggregatorLeaves>>

-----------------------------------------------------------------------------
(* The two queries of the inference scheduler.                              *)

(* Rows are stored in the order of their times: those of a range are the    *)
(* last ones.                                                               *)
Older(ticks) == Cardinality({i \in DOMAIN rows : rows[i].time + ticks < now})

InRange(ticks) == SubSeq(rows, Older(ticks) + 1, Len(rows))

(* The first SeqLen rows of the range, the oldest repeated at the front     *)
(* when there are fewer.                                                    *)
Window ==
    LET inRange == InRange(WindowTicks)
        n == IF Len(inRange) < SeqLen THEN Len(inRange) ELSE SeqLen
        missing == SeqLen - n
    IN  [i \in 1 .. SeqLen |-> inRange[IF i <= missing THEN 1 ELSE i - missing]]

-----------------------------------------------------------------------------
(* The inference scheduler.                                                 *)

CancelledScheduler == lifespan = "stopping inference"
SchedulerRuns(pc) == SchedulerAt(pc) /\ ~CancelledScheduler
SchedulerTo(pc) == scheduler' = [scheduler EXCEPT !.pc = pc]
Ask(pc) == scheduler' = [scheduler EXCEPT !.pc = pc, !.job = NoPrediction]
SchedulerLeaves == <<now, rows, aggregator, process>>

(* Where a round goes after the model m, with the predictors ms loaded.     *)
After(m, ms) ==
    IF m = "start" /\ "congestion" \in ms THEN "querying congestion"
    ELSE IF m # "anomaly" /\ "anomaly" \in ms THEN "querying anomaly" ELSE "ruling"

(* Mutant: the prediction stays in hand.                                    *)
NextModelKeepsJob(m) == SchedulerTo(After(m, loaded))

NextModel(m) == Ask(After(m, loaded))

(* Predictors that are not loaded yet are loaded if their files are there.  *)
StartRound ==
    /\ SchedulerRuns("sleeping")
    /\ scheduler.since < now
    /\ \E more \in SUBSET (Models \ loaded) :
         /\ loaded' = loaded \cup more
         /\ IF loaded' = Models THEN NoFault ELSE Fault
         /\ scheduler' = [pc |-> After("start", loaded'), since |-> now, job |-> NoPrediction]
    /\ UNCHANGED <<SchedulerLeaves, predictions, alerts, predictions_made_total, histories>>

Score(m, of, is_alert) ==
    scheduler' = [scheduler EXCEPT !.pc = "saving",
                    !.job = [model |-> m, at |-> scheduler.since, of |-> of,
                             is_alert |-> is_alert]]

(* Nothing in range, a failed query or a failing model: the round goes on.  *)
NothingToScore(m, ticks) ==
    /\ NextModel(m)
    /\ IF InRange(ticks) = <<>> THEN NoFault ELSE Fault

QuerySummary ==
    /\ SchedulerRuns("querying congestion")
    /\ \/ NothingToScore("congestion", RecentTicks)
       \/ /\ InRange(RecentTicks) # <<>>
          /\ LET row == rows[Len(rows)] IN Score("congestion", row.time, row.high)
          /\ NoFault
    /\ UNCHANGED <<SchedulerLeaves, loaded, predictions, alerts, predictions_made_total,
                   histories>>

(* What the anomaly model makes of a window is not modelled: any verdict of *)
(* Verdicts.                                                                *)
QueryWindow ==
    /\ SchedulerRuns("querying anomaly")
    /\ \/ NothingToScore("anomaly", WindowTicks)
       \/ /\ InRange(WindowTicks) # <<>>
          /\ \E is_anomaly \in Verdicts : Score("anomaly", Window[SeqLen].time, is_anomaly)
          /\ NoFault
    /\ UNCHANGED <<SchedulerLeaves, loaded, predictions, alerts, predictions_made_total,
                   histories>>

job == scheduler.job
Add(set, p) == set' = set \cup {p}
Hit == Add(hit, <<job, scheduler.pc>>)

(* An exception at await pc of the model's block: the block is left.  The   *)
(* call may have taken effect.                                              *)
SavePrediction ==
    /\ SchedulerRuns("saving")
    /\ \/ /\ Add(predictions, job)
          /\ SchedulerTo("publishing")
          /\ UNCHANGED <<faults, hit>>
       \/ /\ predictions' \in {predictions, predictions \cup {job}}
          /\ NextModel(job.model)
          /\ Fault
          /\ Hit
    /\ UNCHANGED <<SchedulerLeaves, loaded, alerts, predictions_made_total, published,
                   announced>>

Count == predictions_made_total' = [predictions_made_total EXCEPT ![job.model] = @ + 1]

(* Mutant: a row that has an alert gets no second one.                      *)
PublishPredictionOnceARow ==
    /\ SchedulerRuns("publishing")
    /\ \/ /\ Add(published, job)
          /\ IF job.is_alert /\ \A a \in alerts : a.model = job.model => a.of # job.of
             THEN SchedulerTo("alerting") /\ UNCHANGED predictions_made_total
             ELSE NextModel(job.model) /\ Count
          /\ UNCHANGED <<faults, hit>>
       \/ /\ published' \in {published, published \cup {job}}
          /\ NextModel(job.model)
          /\ Fault
          /\ Hit
          /\ UNCHANGED predictions_made_total
    /\ UNCHANGED <<SchedulerLeaves, loaded, predictions, alerts, announced>>

(* Mutant: a failed publication is counted like a successful one.           *)
PublishPredictionCountsFailures ==
    /\ SchedulerRuns("publishing")
    /\ \/ /\ Add(published, job)
          /\ IF job.is_alert
             THEN SchedulerTo("alerting") /\ UNCHANGED predictions_made_total
             ELSE NextModel(job.model) /\ Count
          /\ UNCHANGED <<faults, hit>>
       \/ /\ published' \in {published, published \cup {job}}
          /\ NextModel(job.model)
          /\ Fault
          /\ Hit
          /\ Count
    /\ UNCHANGED <<SchedulerLeaves, loaded, predictions, alerts, announced>>

PublishPrediction ==
    /\ SchedulerRuns("publishing")
    /\ \/ /\ Add(published, job)
          /\ IF job.is_alert
             THEN SchedulerTo("alerting") /\ UNCHANGED predictions_made_total
             ELSE NextModel(job.model) /\ Count
          /\ UNCHANGED <<faults, hit>>
       \/ /\ published' \in {published, published \cup {job}}
          /\ NextModel(job.model)
          /\ Fault
          /\ Hit
          /\ UNCHANGED predictions_made_total
    /\ UNCHANGED <<SchedulerLeaves, loaded, predictions, alerts, announced>>

(* Mutant: _create_alert announces an alert it could not store.             *)
CreateAlertAnnouncesAnyway ==
    /\ SchedulerRuns("alerting")
    /\ \/ /\ Add(alerts, job)
          /\ SchedulerTo("announcing")
          /\ UNCHANGED <<faults, hit, predictions_made_total>>
       \/ /\ alerts' \in {alerts, alerts \cup {job}}
          /\ SchedulerTo("announcing")
          /\ Fault
          /\ Hit
          /\ UNCHANGED predictions_made_total
    /\ UNCHANGED <<SchedulerLeaves, loaded, predictions, published, announced>>

(* Mutant: an alert that cannot be stored is tried again from the           *)
(* publication on, for as long as it takes.                                 *)
CreateAlertRetries ==
    /\ SchedulerRuns("alerting")
    /\ \/ /\ Add(alerts, job)
          /\ SchedulerTo("announcing")
       \/ /\ alerts' = alerts
          /\ SchedulerTo("publishing")
    /\ UNCHANGED <<SchedulerLeaves, loaded, predictions, published, announced,
                   predictions_made_total, faults, hit>>

(* _create_alert catches its own errors: the block goes on to the counter.  *)
CreateAlert ==
    /\ SchedulerRuns("alerting")
    /\ \/ /\ Add(alerts, job)
          /\ SchedulerTo("announcing")
          /\ UNCHANGED <<faults, hit, predictions_made_total>>
       \/ /\ alerts' \in {alerts, alerts \cup {job}}
          /\ NextModel(job.model)
          /\ Fault
          /\ Hit
          /\ Count
    /\ UNCHANGED <<SchedulerLeaves, loaded, predictions, published, announced>>

AnnounceAlert ==
    /\ SchedulerRuns("announcing")
    /\ NextModel(job.model)
    /\ Count
    /\ \/ /\ Add(announced, job)
          /\ UNCHANGED <<faults, hit>>
       \/ /\ announced' \in {announced, announced \cup {job}}
          /\ Fault
          /\ Hit
    /\ UNCHANGED <<SchedulerLeaves, loaded, predictions, alerts, published>>

(* evaluate_rules(0.0, 0.0): no rule meets a threshold, nothing is stored,  *)
(* and its errors are caught.                                               *)
EvaluateRules ==
    /\ SchedulerRuns("ruling")
    /\ scheduler' = [pc |-> "sleeping", since |-> now, job |-> NoPrediction]
    /\ UNCHANGED <<SchedulerLeaves, loaded, predictions, alerts, predictions_made_total,
                   faults, histories>>

(* CancelledError is no Exception: it passes every handler but the loop's   *)
(* own.  The call the task was waiting for may have taken effect.           *)
CancelScheduler ==
    /\ CancelledScheduler
    /\ scheduler.pc \notin {"absent", "done"}
    /\ Ask("done")
    /\ predictions' \in {predictions} \cup
         IF SchedulerAt("saving") THEN {predictions \cup {job}} ELSE {}
    /\ published' \in {published} \cup
         IF SchedulerAt("publishing") THEN {published \cup {job}} ELSE {}
    /\ alerts' \in {alerts} \cup IF SchedulerAt("alerting") THEN {alerts \cup {job}} ELSE {}
    /\ announced' \in {announced} \cup
         IF SchedulerAt("announcing") THEN {announced \cup {job}} ELSE {}
    /\ IF job = NoPrediction THEN UNCHANGED hit ELSE Hit
    /\ UNCHANGED <<SchedulerLeaves, loaded, predictions_made_total, faults>>

-----------------------------------------------------------------------------
(* The lifespan.                                                            *)

LifespanLeaves == <<now, tables, predictions_made_total, faults, histories>>

(* Startup: without an InfluxDB client no task is started.                  *)
StartUp ==
    /\ lifespan = "down"
    /\ starts < MaxStarts
    /\ starts' = starts + 1
    /\ lifespan' = "up"
    /\ started' = now
    /\ loaded' = {}
    /\ predictions_made_total' = [m \in Models |-> 0]
    /\ \/ /\ aggregator' = [pc |-> "sleeping", since |-> now]
          /\ scheduler' = [pc |-> "sleeping", since |-> now, job |-> NoPrediction]
       \/ /\ aggregator' = Absent
          /\ scheduler' = AbsentScheduler
    /\ UNCHANGED <<now, tables, faults, histories>>

TaskOver(task) == task.pc \in {"absent", "done"}

(* Each task is cancelled and then awaited, the inference task first.       *)
ShutDown ==
    /\ lifespan = "up"
    /\ lifespan' = "stopping inference"
    /\ UNCHANGED <<started, starts, aggregator, scheduler, loaded, LifespanLeaves>>

InferenceStopped ==
    /\ lifespan = "stopping inference"
    /\ TaskOver(scheduler)
    /\ lifespan' = "stopping aggregation"
    /\ UNCHANGED <<started, starts, aggregator, scheduler, loaded, LifespanLeaves>>

AggregationStopped ==
    /\ lifespan = "stopping aggregation"
    /\ TaskOver(aggregator)
    /\ lifespan' = "closing"
    /\ UNCHANGED <<started, starts, aggregator, scheduler, loaded, LifespanLeaves>>

(* redis_client.aclose(), whose errors are ignored, and the process ends.   *)
CloseRedis ==
    /\ lifespan = "closing"
    /\ lifespan' = "down"
    /\ aggregator' = Absent
    /\ scheduler' = AbsentScheduler
    /\ UNCHANGED <<started, starts, loaded, LifespanLeaves>>

(* The process is killed: the tables keep what was committed.  A commit     *)
(* under way may take effect.                                               *)
Crash ==
    /\ lifespan # "down"
    /\ Fault
    /\ lifespan' = "down"
    /\ aggregator' = Absent
    /\ scheduler' = AbsentScheduler
    /\ predictions' \in {predictions} \cup
         IF SchedulerAt("saving") THEN {predictions \cup {job}} ELSE {}
    /\ alerts' \in {alerts} \cup IF SchedulerAt("alerting") THEN {alerts \cup {job}} ELSE {}
    /\ IF job = NoPrediction THEN UNCHANGED hit ELSE Hit
    /\ UNCHANGED <<now, rows, started, starts, loaded, predictions_made_total, published, announced>>

AggregatorStep == Aggregate \/ PublishFeatures \/ EndBackoff \/ CancelAggregator
RoundStep ==
    \/ StartRound \/ QuerySummary \/ QueryWindow \/ SavePrediction \/ PublishPrediction
    \/ CreateAlert \/ AnnounceAlert \/ EvaluateRules
SchedulerStep == RoundStep \/ CancelScheduler
LifespanStep == InferenceStopped \/ AggregationStopped \/ CloseRedis

Next ==
    \/ Tick \/ Crash \/ StartUp \/ ShutDown
    \/ AggregatorStep \/ SchedulerStep \/ LifespanStep

Spec == Init /\ [][Next]_vars

(* The event loop runs every coroutine that is ready, and every call it     *)
(* awaits returns or raises.  Time need not pass, and nobody need start or  *)
(* stop the process.                                                        *)
FairSpec ==
    Spec /\ WF_vars(AggregatorStep) /\ WF_vars(SchedulerStep) /\ WF_vars(LifespanStep)

-----------------------------------------------------------------------------
(* Properties.                                                              *)

HitPredictions == {h[1] : h \in hit}
OfModel(set, m) == {p \in set : p.model = m}

(* Whatever fails, is cancelled or crashes, an alert is announced only when *)
(* it is stored, and stored only for a prediction that is stored, was       *)
(* published as an alert and is above its threshold.                        *)
(* (_create_alert: commit before publish; run_inference_loop: save, then    *)
(* publish, then alert.)                                                    *)
AlertsRestOnPredictions ==
    /\ announced \subseteq alerts
    /\ alerts \subseteq published
    /\ published \subseteq predictions
    /\ \A a \in alerts : a.is_alert

(* A prediction above its threshold has no alert only when a call made for  *)
(* that prediction itself failed or was cut short: failures of the other    *)
(* model, of an earlier round or of the aggregator cost no alert.           *)
SilenceHasItsOwnCause ==
    \A p \in predictions :
        p.is_alert => p \in alerts \cup HitPredictions \cup {job}

(* The counter is the number of predictions of this process that were       *)
(* published without error and are no longer in hand, except for one cut    *)
(* short by the shutdown.  (predictions_made_total is incremented at the    *)
(* end of the block, after calls that may leave it.)                        *)
CounterCountsPublished ==
    LET mine(m) == {p \in OfModel(published, m) : p.at > started /\ p # job}
        unsure(m) == mine(m) \cap HitPredictions
    IN  \A m \in Models :
          lifespan # "down" =>
            /\ predictions_made_total[m] <= Cardinality(mine(m))
            /\ predictions_made_total[m] >= Cardinality(mine(m) \ unsure(m))

(* One metrics row raises at most one congestion alert for each interval it *)
(* stays in the 30 seconds of the summary query, and one more at the edge:  *)
(* the loop sleeps between rounds, and restarts do not shorten the sleep.   *)
AlertStormBounded ==
    \A t \in Times : Cardinality({a \in OfModel(alerts, "congestion") : a.of = t})
                       <= RecentTicks + 1

(* The verdict of the anomaly model that is about to be saved is about a    *)
(* window whose last row was followed, when the window was read, by at most *)
(* as many rows as the range holds beyond SeqLen.  (limit keeps the oldest  *)
(* SEQ_LEN rows of the range.)                                              *)
WindowLagBounded ==
    [][QueryWindow /\ scheduler'.pc = "saving" =>
         Cardinality({i \in DOMAIN rows : rows[i].time > scheduler'.job.of})
           <= IF WindowTicks + 1 > SeqLen THEN WindowTicks + 1 - SeqLen ELSE 0]_vars

(* A shutdown comes to its end, whatever the tasks were waiting for.        *)
ShutdownCompletes ==
    lifespan = "stopping inference" ~> lifespan = "down"

(* A round comes to its end: no failure of a call wedges the loop.          *)
RoundsComplete ==
    scheduler.pc \in CallPCs ~> scheduler.pc \in {"sleeping", "done", "absent"}

(* "Predictions above threshold create alerts in PostgreSQL and publish to  *)
(* a Redis alerts channel" (README.md:49): a stored prediction above its    *)
(* threshold that the task is done with has its alert in PostgreSQL, unless *)
(* a commit of that prediction or of that alert failed.                     *)
ThresholdMakesAlert ==
    \A p \in predictions :
        p.is_alert /\ lifespan = "up" /\ p.at > started /\ p # job
          => \/ p \in alerts
             \/ <<p, "saving">> \in hit
             \/ <<p, "alerting">> \in hit
=============================================================================
