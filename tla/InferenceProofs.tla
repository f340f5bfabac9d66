---------------------------- MODULE InferenceProofs ----------------------------
(***************************************************************************)
(* Proofs about Inference for every window, every range, every number of   *)
(* intervals, starts and failures: what the tables, the channels and the   *)
(* prediction in the scheduler's hands say of one another.                 *)
(* The first part takes a prediction for whatever the queries and the      *)
(* models make of the rows; the second is about the rows themselves, the   *)
(* intervals at which they were written and asked for, and the number of   *)
(* predictions published.                                                  *)
(***************************************************************************)
EXTENDS Inference, FiniteSetTheorems, SequenceTheorems, TLAPS

-----------------------------------------------------------------------------
(* The inductive invariant.                                                 *)

(* What a model has said: it is of a model, which "no prediction" is not.   *)
IsPrediction(p) == p.model \in Models /\ p # NoPrediction

SchedulerShape ==
    /\ scheduler = [pc |-> scheduler.pc, since |-> scheduler.since, job |-> scheduler.job]
    /\ scheduler.pc \in SchedulerPCs
    /\ lifespan \in LifespanPCs

(* There is a prediction in hand exactly during the four calls made for it. *)
JobInCalls ==
    /\ scheduler.pc \in CallPCs => IsPrediction(job)
    /\ scheduler.pc \notin CallPCs => job = NoPrediction
    /\ \A p \in predictions : IsPrediction(p)

(* How far the four calls have got.                                         *)
JobProgress ==
    /\ scheduler.pc = "publishing" => job \in predictions
    /\ scheduler.pc = "alerting" => job \in published /\ job.is_alert
    /\ scheduler.pc = "announcing" => job \in alerts

(* The inference task is over before the aggregation is stopped and Redis   *)
(* is closed, so that no prediction is in hand when the process ends.       *)
InferenceOverFirst ==
    lifespan \in {"stopping aggregation", "closing", "down"} => TaskOver(scheduler)

IInv ==
    /\ SchedulerShape /\ JobInCalls /\ JobProgress /\ InferenceOverFirst
    /\ AlertsRestOnPredictions /\ SilenceHasItsOwnCause

-----------------------------------------------------------------------------
(* Where the scheduler goes, and what it holds there.                       *)

(* Between two models no call is under way.                                 *)
LEMMA AfterIsNoCall ==
    ASSUME NEW m, NEW ms
    PROVE  After(m, ms) \in SchedulerPCs \ (CallPCs \cup {"absent", "done"})
  BY DEF After, SchedulerPCs, CallPCs

LEMMA SchedulerEdits ==
    ASSUME SchedulerShape, NEW pc \in SchedulerPCs
    PROVE  /\ SchedulerTo(pc) => /\ scheduler' = [pc |-> pc, since |-> scheduler.since,
                                                  job |-> scheduler.job]
                                 /\ job' = job
           /\ Ask(pc) => /\ scheduler' = [pc |-> pc, since |-> scheduler.since,
                                          job |-> NoPrediction]
                         /\ job' = NoPrediction
  BY DEF SchedulerShape, SchedulerTo, Ask, job

(* After a model the scheduler holds nothing.                               *)
LEMMA NextModelEffect ==
    ASSUME SchedulerShape, NEW m, NextModel(m)
    PROVE  /\ scheduler' = [pc |-> scheduler'.pc, since |-> scheduler'.since,
                            job |-> NoPrediction]
           /\ scheduler'.pc \in SchedulerPCs \ (CallPCs \cup {"absent", "done"})
           /\ job' = NoPrediction
  <1>1. After(m, loaded) \in SchedulerPCs \ (CallPCs \cup {"absent", "done"})
    BY AfterIsNoCall
  <1>2. Ask(After(m, loaded))
    BY DEF NextModel
  <1>3. scheduler' = [pc |-> After(m, loaded), since |-> scheduler.since,
                      job |-> NoPrediction] /\ job' = NoPrediction
    BY <1>1, <1>2, SchedulerEdits
  <1> QED
    BY <1>1, <1>3

-----------------------------------------------------------------------------
(* What a step may do to the prediction in hand and to the tables.          *)

(* The prediction in hand is let go of only when it is no alert, has its    *)
(* alert, or the call made for it was hit.                                  *)
LEMMA Excused ==
    ASSUME JobInCalls, SilenceHasItsOwnCause,
           predictions' \subseteq predictions \cup {job},
           job = NoPrediction => predictions' = predictions,
           alerts \subseteq alerts', hit \subseteq hit',
           \/ job' = job
           \/ job = NoPrediction
           \/ ~job.is_alert
           \/ job \in alerts'
           \/ <<job, scheduler.pc>> \in hit'
    PROVE  SilenceHasItsOwnCause'
  <1> SUFFICES ASSUME NEW p \in predictions', p.is_alert
               PROVE  p \in alerts' \cup HitPredictions' \cup {job'}
    BY DEF SilenceHasItsOwnCause
  <1>1. HitPredictions \subseteq HitPredictions'
    BY DEF HitPredictions
  <1>2. <<job, scheduler.pc>> \in hit' => job \in HitPredictions'
    <2>1. <<job, scheduler.pc>>[1] = job
      OBVIOUS
    <2> QED
      BY <2>1 DEF HitPredictions
  <1>3. CASE p = job /\ job # NoPrediction
    BY <1>2, <1>3
  <1>4. CASE p \in predictions /\ p # job
    BY <1>1, <1>4 DEF SilenceHasItsOwnCause
  <1>5. CASE p \in predictions /\ job = NoPrediction
    BY <1>1, <1>5 DEF SilenceHasItsOwnCause, JobInCalls, IsPrediction
  <1> QED
    BY <1>3, <1>4, <1>5

(* A step that writes no table and announces nothing.                       *)
LEMMA TablesLeft ==
    ASSUME JobInCalls, SilenceHasItsOwnCause, AlertsRestOnPredictions,
           UNCHANGED <<predictions, alerts, published, announced, hit>>,
           job' = job \/ job = NoPrediction
    PROVE  SilenceHasItsOwnCause' /\ AlertsRestOnPredictions'
  <1>1. SilenceHasItsOwnCause'
    BY Excused
  <1> QED
    BY <1>1 DEF AlertsRestOnPredictions

(* A step that holds on to no prediction and was holding none.              *)
LEMMA NothingInHand ==
    ASSUME IInv, job = NoPrediction,
           UNCHANGED <<predictions, alerts, published, announced, hit>>,
           scheduler' = [pc |-> scheduler'.pc, since |-> scheduler'.since, job |-> NoPrediction],
           scheduler'.pc \in SchedulerPCs \ CallPCs,
           lifespan' \in LifespanPCs,
           InferenceOverFirst'
    PROVE  IInv'
  <1>1. job' = NoPrediction
    BY DEF job
  <1>2. SchedulerShape'
    BY <1>1 DEF SchedulerShape, job
  <1>3. JobInCalls'
    BY <1>1 DEF IInv, JobInCalls, IsPrediction
  <1>4. JobProgress'
    BY DEF JobProgress, CallPCs
  <1>5. SilenceHasItsOwnCause' /\ AlertsRestOnPredictions'
    BY TablesLeft DEF IInv
  <1> QED
    BY <1>2, <1>3, <1>4, <1>5 DEF IInv

(* A step of another coroutine, or of the clock.                            *)
LEMMA SchedulerLeft ==
    ASSUME IInv,
           UNCHANGED <<scheduler, predictions, alerts, published, announced, hit>>,
           lifespan' \in LifespanPCs,
           InferenceOverFirst'
    PROVE  IInv'
  <1>1. job' = job
    BY DEF job
  <1>2. SchedulerShape' /\ JobInCalls'
    BY <1>1 DEF IInv, SchedulerShape, JobInCalls, IsPrediction
  <1>3. JobProgress'
    BY <1>1 DEF IInv, JobProgress
  <1>4. SilenceHasItsOwnCause' /\ AlertsRestOnPredictions'
    BY <1>1, TablesLeft DEF IInv
  <1> QED
    BY <1>2, <1>3, <1>4 DEF IInv

-----------------------------------------------------------------------------
(* Steps.                                                                   *)

LEMMA InitEstablishes == Init => IInv
  <1> SUFFICES ASSUME Init PROVE IInv
    OBVIOUS
  <1>1. /\ scheduler = [pc |-> "absent", since |-> 0, job |-> NoPrediction]
        /\ job = NoPrediction
        /\ predictions = {} /\ alerts = {} /\ published = {} /\ announced = {}
        /\ lifespan = "down"
    BY DEF Init, AbsentScheduler, job
  <1>2. SchedulerShape /\ JobInCalls /\ JobProgress /\ InferenceOverFirst
    BY <1>1 DEF SchedulerShape, JobInCalls, JobProgress, InferenceOverFirst, TaskOver,
                SchedulerPCs, CallPCs, LifespanPCs, job
  <1>3. AlertsRestOnPredictions /\ SilenceHasItsOwnCause
    BY <1>1 DEF AlertsRestOnPredictions, SilenceHasItsOwnCause
  <1> QED
    BY <1>2, <1>3 DEF IInv

(* A coroutine that runs was not cancelled, and is not over.                *)
LEMMA RunningScheduler ==
    ASSUME IInv, NEW pc, SchedulerRuns(pc), pc \notin {"absent", "done"}
    PROVE  /\ scheduler.pc = pc
           /\ ~(lifespan \in {"stopping aggregation", "closing", "down"})
           /\ UNCHANGED lifespan => InferenceOverFirst'
  <1>1. scheduler.pc = pc
    BY DEF SchedulerRuns, SchedulerAt
  <1>2. ~(lifespan \in {"stopping aggregation", "closing", "down"})
    BY <1>1 DEF IInv, InferenceOverFirst, TaskOver
  <1> QED
    BY <1>1, <1>2 DEF InferenceOverFirst

(* The scheduler between the calls: it takes a prediction in hand that a    *)
(* model has just made, or none.                                            *)
LEMMA RoundSteps ==
    ASSUME IInv, StartRound \/ QuerySummary \/ QueryWindow \/ EvaluateRules
    PROVE  IInv'
  <1>1. /\ UNCHANGED <<predictions, alerts, published, announced, hit, lifespan>>
        /\ lifespan' \in LifespanPCs
    BY DEF IInv, SchedulerShape, StartRound, QuerySummary, QueryWindow, EvaluateRules,
           histories, SchedulerLeaves, process
  <1>2. PICK pc \in {"sleeping", "querying congestion", "querying anomaly", "ruling"} :
            SchedulerRuns(pc)
    BY DEF StartRound, QuerySummary, QueryWindow, EvaluateRules
  <1>3. job = NoPrediction /\ InferenceOverFirst' /\ lifespan' \in LifespanPCs
    BY <1>1, <1>2, RunningScheduler DEF IInv, JobInCalls, CallPCs
  <1>4. CASE StartRound
    <2>1. PICK more \in SUBSET (Models \ loaded) :
            scheduler' = [pc |-> After("start", loaded'), since |-> now, job |-> NoPrediction]
      BY <1>4 DEF StartRound
    <2>2. After("start", loaded') \in SchedulerPCs \ CallPCs
      BY AfterIsNoCall
    <2> QED
      BY <1>1, <1>3, <2>1, <2>2, NothingInHand
  <1>5. ASSUME NEW m, NextModel(m)
        PROVE  IInv'
    <2>1. SchedulerShape
      BY DEF IInv
    <2>2. /\ scheduler' = [pc |-> scheduler'.pc, since |-> scheduler'.since,
                           job |-> NoPrediction]
          /\ scheduler'.pc \in SchedulerPCs \ CallPCs
      BY <1>5, <2>1, NextModelEffect
    <2> QED
      BY <1>1, <1>3, <2>2, NothingInHand
  <1>6. ASSUME NEW m \in Models, NEW of, NEW is_alert, Score(m, of, is_alert)
        PROVE  IInv'
    <2>1. /\ scheduler' = [pc |-> "saving", since |-> scheduler.since,
                           job |-> [model |-> m, at |-> scheduler.since, of |-> of,
                                    is_alert |-> is_alert]]
          /\ job' = [model |-> m, at |-> scheduler.since, of |-> of, is_alert |-> is_alert]
      BY <1>6 DEF IInv, SchedulerShape, Score, job
    <2>2. IsPrediction(job')
      BY <2>1 DEF IsPrediction, NoPrediction, Models
    <2>3. SchedulerShape' /\ JobInCalls' /\ JobProgress'
      BY <1>1, <2>1, <2>2 DEF IInv, SchedulerShape, JobInCalls, JobProgress, CallPCs,
                              SchedulerPCs, IsPrediction, job
    <2>4. SilenceHasItsOwnCause' /\ AlertsRestOnPredictions'
      BY <1>1, <1>3, TablesLeft DEF IInv
    <2> QED
      BY <1>3, <2>3, <2>4 DEF IInv
  <1>7. CASE QuerySummary
    BY <1>5, <1>6, <1>7 DEF QuerySummary, NothingToScore, Models
  <1>8. CASE QueryWindow
    BY <1>5, <1>6, <1>8 DEF QueryWindow, NothingToScore, Models
  <1>9. CASE EvaluateRules
    <2>1. scheduler' = [pc |-> "sleeping", since |-> now, job |-> NoPrediction]
      BY <1>9 DEF EvaluateRules
    <2> QED
      BY <1>1, <1>3, <2>1, NothingInHand DEF SchedulerPCs, CallPCs
  <1> QED
    BY <1>4, <1>7, <1>8, <1>9

(* The calls made for a prediction: the next one is reached when this one   *)
(* has taken effect, and the block is left otherwise.                       *)
LEMMA CallGoesOn ==
    ASSUME IInv, NEW pc \in CallPCs, SchedulerRuns(pc), NEW next \in CallPCs,
           SchedulerTo(next), UNCHANGED lifespan,
           predictions' \subseteq predictions \cup {job}, alerts \subseteq alerts',
           hit \subseteq hit',
           JobProgress', AlertsRestOnPredictions'
    PROVE  IInv'
  <1>1. /\ scheduler' = [pc |-> next, since |-> scheduler.since, job |-> scheduler.job]
        /\ job' = job
    BY SchedulerEdits DEF IInv, CallPCs, SchedulerPCs
  <1>2. scheduler.pc = pc /\ InferenceOverFirst' /\ IsPrediction(job)
    BY RunningScheduler DEF CallPCs, IInv, JobInCalls
  <1>3. SchedulerShape' /\ JobInCalls'
    BY <1>1, <1>2 DEF IInv, SchedulerShape, JobInCalls, IsPrediction, SchedulerPCs, CallPCs, job
  <1>4. SilenceHasItsOwnCause'
    BY <1>1, <1>2, Excused DEF IInv, IsPrediction
  <1> QED
    BY <1>2, <1>3, <1>4 DEF IInv

LEMMA CallEnds ==
    ASSUME IInv, NEW pc \in CallPCs, SchedulerRuns(pc), NextModel(job.model),
           UNCHANGED lifespan,
           predictions' \subseteq predictions \cup {job}, alerts \subseteq alerts',
           hit \subseteq hit',
           ~job.is_alert \/ job \in alerts' \/ <<job, scheduler.pc>> \in hit',
           AlertsRestOnPredictions'
    PROVE  IInv'
  <1>1. /\ scheduler' = [pc |-> scheduler'.pc, since |-> scheduler'.since, job |-> NoPrediction]
        /\ scheduler'.pc \in SchedulerPCs \ CallPCs
        /\ job' = NoPrediction
    <2>1. SchedulerShape
      BY DEF IInv
    <2> QED
      BY <2>1, NextModelEffect
  <1>2. scheduler.pc = pc /\ InferenceOverFirst' /\ IsPrediction(job)
    BY RunningScheduler DEF CallPCs, IInv, JobInCalls
  <1>3. SchedulerShape'
    BY <1>1 DEF IInv, SchedulerShape
  <1>4. JobInCalls' /\ JobProgress'
    BY <1>1, <1>2 DEF IInv, JobInCalls, JobProgress, IsPrediction, CallPCs
  <1>5. SilenceHasItsOwnCause'
    BY <1>2, Excused DEF IInv, IsPrediction
  <1> QED
    BY <1>2, <1>3, <1>4, <1>5 DEF IInv

LEMMA CallSteps ==
    ASSUME IInv, SavePrediction \/ PublishPrediction \/ CreateAlert \/ AnnounceAlert
    PROVE  IInv'
  <1> USE DEF CallPCs
  <1>1. UNCHANGED lifespan
    BY DEF SavePrediction, PublishPrediction, CreateAlert, AnnounceAlert, SchedulerLeaves, process
  <1>2. hit \subseteq hit' /\ (Hit => <<job, scheduler.pc>> \in hit')
    BY DEF SavePrediction, PublishPrediction, CreateAlert, AnnounceAlert, Hit, Add
  <1>3. AlertsRestOnPredictions
    BY DEF IInv
  <1>4. CASE SavePrediction
    <2>1. SchedulerRuns("saving") /\ UNCHANGED <<alerts, published, announced>>
      BY <1>4 DEF SavePrediction
    <2>2. predictions' \subseteq predictions \cup {job} /\ predictions \subseteq predictions'
      BY <1>4 DEF SavePrediction, Add
    <2>3. AlertsRestOnPredictions'
      BY <1>3, <2>1, <2>2 DEF AlertsRestOnPredictions
    <2>4. CASE SchedulerTo("publishing") /\ job \in predictions'
      <3>1. JobProgress'
        <4>1. /\ scheduler' = [pc |-> "publishing", since |-> scheduler.since,
                               job |-> scheduler.job]
              /\ job' = job
          BY <2>4, SchedulerEdits DEF IInv, SchedulerPCs
        <4> QED
          BY <2>4, <4>1 DEF JobProgress
      <3> QED
        BY <1>1, <1>2, <2>1, <2>2, <2>3, <2>4, <3>1, CallGoesOn
    <2>5. CASE NextModel(job.model) /\ Hit
      BY <1>1, <1>2, <2>1, <2>2, <2>3, <2>5, CallEnds
    <2> QED
      BY <1>4, <2>4, <2>5 DEF SavePrediction, Add
  <1>5. CASE PublishPrediction
    <2>1. SchedulerRuns("publishing") /\ UNCHANGED <<predictions, alerts, announced>>
      BY <1>5 DEF PublishPrediction
    <2>2. published' \subseteq published \cup {job} /\ published \subseteq published'
      BY <1>5 DEF PublishPrediction, Add
    <2>3. job \in predictions
      BY <2>1, RunningScheduler DEF IInv, JobProgress
    <2>4. AlertsRestOnPredictions'
      BY <1>3, <2>1, <2>2, <2>3 DEF AlertsRestOnPredictions
    <2>5. CASE SchedulerTo("alerting") /\ job.is_alert /\ job \in published'
      <3>1. JobProgress'
        <4>1. /\ scheduler' = [pc |-> "alerting", since |-> scheduler.since,
                               job |-> scheduler.job]
              /\ job' = job
          BY <2>5, SchedulerEdits DEF IInv, SchedulerPCs
        <4> QED
          BY <2>5, <4>1 DEF JobProgress
      <3> QED
        BY <1>1, <1>2, <2>1, <2>4, <2>5, <3>1, CallGoesOn
    <2>6. CASE NextModel(job.model) /\ (~job.is_alert \/ Hit)
      BY <1>1, <1>2, <2>1, <2>4, <2>6, CallEnds
    <2> QED
      BY <1>5, <2>5, <2>6 DEF PublishPrediction, Add
  <1>6. CASE CreateAlert
    <2>1. SchedulerRuns("alerting") /\ UNCHANGED <<predictions, published, announced>>
      BY <1>6 DEF CreateAlert
    <2>2. alerts' \subseteq alerts \cup {job} /\ alerts \subseteq alerts'
      BY <1>6 DEF CreateAlert, Add
    <2>3. job \in published /\ job.is_alert
      BY <2>1, RunningScheduler DEF IInv, JobProgress
    <2>4. AlertsRestOnPredictions'
      BY <1>3, <2>1, <2>2, <2>3 DEF AlertsRestOnPredictions
    <2>5. CASE SchedulerTo("announcing") /\ job \in alerts'
      <3>1. JobProgress'
        <4>1. /\ scheduler' = [pc |-> "announcing", since |-> scheduler.since,
                               job |-> scheduler.job]
              /\ job' = job
          BY <2>5, SchedulerEdits DEF IInv, SchedulerPCs
        <4> QED
          BY <2>5, <4>1 DEF JobProgress
      <3> QED
        BY <1>1, <1>2, <2>1, <2>2, <2>4, <2>5, <3>1, CallGoesOn
    <2>6. CASE NextModel(job.model) /\ Hit
      BY <1>1, <1>2, <2>1, <2>2, <2>4, <2>6, CallEnds
    <2> QED
      BY <1>6, <2>5, <2>6 DEF CreateAlert, Add
  <1>7. CASE AnnounceAlert
    <2>1. /\ SchedulerRuns("announcing") /\ UNCHANGED <<predictions, published, alerts>>
          /\ NextModel(job.model)
      BY <1>7 DEF AnnounceAlert
    <2>2. announced' \subseteq announced \cup {job}
      BY <1>7 DEF AnnounceAlert, Add
    <2>3. job \in alerts
      BY <2>1, RunningScheduler DEF IInv, JobProgress
    <2>4. AlertsRestOnPredictions'
      BY <1>3, <2>1, <2>2, <2>3 DEF AlertsRestOnPredictions
    <2> QED
      BY <1>1, <1>2, <2>1, <2>3, <2>4, CallEnds
  <1> QED
    BY <1>4, <1>5, <1>6, <1>7

(* A task that is cancelled, or dies with its process: the call it was      *)
(* waiting for may have taken effect, and was hit.                          *)
LEMMA CutShort ==
    ASSUME IInv,
           scheduler' = [pc |-> scheduler'.pc, since |-> scheduler'.since, job |-> NoPrediction],
           scheduler'.pc \in {"absent", "done"},
           lifespan' \in LifespanPCs,
           predictions' = predictions \/ (SchedulerAt("saving")
                                            /\ predictions' = predictions \cup {job}),
           published' = published \/ (SchedulerAt("publishing")
                                            /\ published' = published \cup {job}),
           alerts' = alerts \/ (SchedulerAt("alerting") /\ alerts' = alerts \cup {job}),
           announced' = announced \/ (SchedulerAt("announcing")
                                            /\ announced' = announced \cup {job}),
           IF job = NoPrediction THEN UNCHANGED hit ELSE Hit
    PROVE  IInv'
  <1>1. job' = NoPrediction
    BY DEF job
  <1>2. SchedulerShape' /\ InferenceOverFirst'
    BY DEF SchedulerShape, InferenceOverFirst, TaskOver, SchedulerPCs
  <1>3. /\ predictions \subseteq predictions' /\ predictions' \subseteq predictions \cup {job}
        /\ job = NoPrediction => predictions' = predictions
        /\ alerts \subseteq alerts' /\ hit \subseteq hit'
    BY DEF IInv, JobInCalls, IsPrediction, SchedulerAt, CallPCs, Hit, Add
  <1>4. SilenceHasItsOwnCause'
    BY <1>3, Excused DEF IInv, Hit, Add
  <1>5. JobInCalls' /\ JobProgress'
    <2>1. \A p \in predictions' : IsPrediction(p)
      BY <1>3 DEF IInv, JobInCalls, CallPCs, IsPrediction, SchedulerAt
    <2> QED
      BY <1>1, <2>1 DEF JobInCalls, JobProgress, CallPCs, IsPrediction
  <1>6. AlertsRestOnPredictions'
    BY <1>3 DEF IInv, AlertsRestOnPredictions, JobProgress, SchedulerAt
  <1> QED
    BY <1>2, <1>4, <1>5, <1>6 DEF IInv

(* Cancellation, and the end of the process in good order or not.           *)
LEMMA EndSteps ==
    ASSUME IInv, CancelScheduler \/ Crash \/ CloseRedis \/ StartUp
    PROVE  IInv'
  <1>1. CASE CancelScheduler
    <2>1. /\ scheduler' = [pc |-> "done", since |-> scheduler.since, job |-> NoPrediction]
          /\ lifespan' \in LifespanPCs
      BY <1>1, SchedulerEdits DEF CancelScheduler, IInv, SchedulerShape, SchedulerPCs,
                                  SchedulerLeaves, process
    <2>2. /\ scheduler' = [pc |-> scheduler'.pc, since |-> scheduler'.since, job |-> NoPrediction]
          /\ scheduler'.pc \in {"absent", "done"}
      BY <2>1
    <2>3. /\ predictions' = predictions \/ (SchedulerAt("saving")
                                              /\ predictions' = predictions \cup {job})
          /\ published' = published \/ (SchedulerAt("publishing")
                                              /\ published' = published \cup {job})
          /\ alerts' = alerts \/ (SchedulerAt("alerting") /\ alerts' = alerts \cup {job})
          /\ announced' = announced \/ (SchedulerAt("announcing")
                                              /\ announced' = announced \cup {job})
      BY <1>1 DEF CancelScheduler
    <2>4. IF job = NoPrediction THEN UNCHANGED hit ELSE Hit
      BY <1>1 DEF CancelScheduler
    <2> QED
      BY <2>1, <2>2, <2>3, <2>4, CutShort
  <1>2. CASE Crash
    <2>1. /\ scheduler' = [pc |-> "absent", since |-> 0, job |-> NoPrediction]
          /\ lifespan' \in LifespanPCs
          /\ UNCHANGED <<published, announced>>
      BY <1>2 DEF Crash, AbsentScheduler, LifespanPCs
    <2>2. /\ predictions' = predictions \/ (SchedulerAt("saving")
                                              /\ predictions' = predictions \cup {job})
          /\ alerts' = alerts \/ (SchedulerAt("alerting") /\ alerts' = alerts \cup {job})
      BY <1>2 DEF Crash
    <2>3. IF job = NoPrediction THEN UNCHANGED hit ELSE Hit
      BY <1>2 DEF Crash
    <2> QED
      BY <2>1, <2>2, <2>3, CutShort
  <1>3. CASE CloseRedis \/ StartUp
    <2>1. /\ \/ scheduler' = [pc |-> "absent", since |-> 0, job |-> NoPrediction]
             \/ /\ scheduler' = [pc |-> "sleeping", since |-> now, job |-> NoPrediction]
                /\ lifespan' = "up"
          /\ UNCHANGED <<predictions, alerts, published, announced, hit>>
          /\ lifespan' \in {"down", "up"} \cap LifespanPCs
      BY <1>3 DEF CloseRedis, StartUp, AbsentScheduler, LifespanPCs, LifespanLeaves, tables,
                  histories
    <2>2. job = NoPrediction
      BY <1>3 DEF CloseRedis, StartUp, IInv, InferenceOverFirst, TaskOver, JobInCalls, CallPCs
    <2>3. CASE scheduler' = [pc |-> "absent", since |-> 0, job |-> NoPrediction]
      <3>1. InferenceOverFirst'
        BY <2>3 DEF InferenceOverFirst, TaskOver
      <3>2. /\ scheduler' = [pc |-> scheduler'.pc, since |-> scheduler'.since,
                             job |-> NoPrediction]
            /\ scheduler'.pc \in SchedulerPCs \ CallPCs
        BY <2>3 DEF SchedulerPCs, CallPCs
      <3> QED
        BY <2>1, <2>2, <3>1, <3>2, NothingInHand
    <2>4. CASE /\ scheduler' = [pc |-> "sleeping", since |-> now, job |-> NoPrediction]
               /\ lifespan' = "up"
      <3>1. InferenceOverFirst'
        BY <2>4 DEF InferenceOverFirst
      <3>2. /\ scheduler' = [pc |-> scheduler'.pc, since |-> scheduler'.since,
                             job |-> NoPrediction]
            /\ scheduler'.pc \in SchedulerPCs \ CallPCs
        BY <2>4 DEF SchedulerPCs, CallPCs
      <3> QED
        BY <2>1, <2>2, <3>1, <3>2, NothingInHand
    <2> QED
      BY <2>1, <2>3, <2>4
  <1> QED
    BY <1>1, <1>2, <1>3

(* The clock, the aggregator, and the lifespan while it waits for a task.   *)
LEMMA OtherSteps ==
    ASSUME IInv,
           Tick \/ ShutDown \/ AggregatorStep \/ InferenceStopped \/ AggregationStopped
    PROVE  IInv'
  <1>1. UNCHANGED <<scheduler, predictions, alerts, published, announced, hit>>
    BY DEF Tick, ShutDown, AggregatorStep, Aggregate, PublishFeatures, EndBackoff,
           CancelAggregator, InferenceStopped, AggregationStopped, AggregatorLeaves,
           LifespanLeaves, tables, histories
  <1>2. CASE Tick \/ AggregatorStep
    <2>1. UNCHANGED lifespan
      BY <1>2 DEF Tick, AggregatorStep, Aggregate, PublishFeatures, EndBackoff,
                  CancelAggregator, AggregatorLeaves, process
    <2>2. lifespan' \in LifespanPCs /\ InferenceOverFirst'
      BY <1>1, <2>1 DEF IInv, SchedulerShape, InferenceOverFirst, TaskOver
    <2> QED
      BY <1>1, <2>2, SchedulerLeft
  <1>3. CASE ShutDown \/ InferenceStopped \/ AggregationStopped
    <2>1. lifespan' \in LifespanPCs /\ InferenceOverFirst'
      BY <1>1, <1>3 DEF ShutDown, InferenceStopped, AggregationStopped, LifespanPCs,
                        IInv, InferenceOverFirst, TaskOver
    <2> QED
      BY <1>1, <2>1, SchedulerLeft
  <1> QED
    BY <1>2, <1>3

LEMMA StepPreserves == IInv /\ [Next]_vars => IInv'
  <1>1. ASSUME IInv, Next
        PROVE  IInv'
    BY <1>1, RoundSteps, CallSteps, EndSteps, OtherSteps
       DEF Next, SchedulerStep, RoundStep, LifespanStep
  <1>2. ASSUME IInv, UNCHANGED vars
        PROVE  IInv'
    <2>1. UNCHANGED <<scheduler, predictions, alerts, published, announced, hit, lifespan>>
      BY <1>2 DEF vars, tables, process, histories
    <2>2. lifespan' \in LifespanPCs /\ InferenceOverFirst'
      BY <1>2, <2>1 DEF IInv, SchedulerShape, InferenceOverFirst, TaskOver
    <2> QED
      BY <1>2, <2>1, <2>2, SchedulerLeft
  <1> QED
    BY <1>1, <1>2

-----------------------------------------------------------------------------
(* The theorems.                                                            *)

(* IInv holds in every reachable state.                                     *)
THEOREM Invariant == Spec => []IInv
  BY InitEstablishes, StepPreserves, PTL DEF Spec

(* An alert that is announced is stored, one that is stored belongs to a    *)
(* stored and published prediction above its threshold, whatever fails, is  *)
(* cancelled or crashes and however often the process is started again.     *)
(* (inference_scheduler.py: save, publish, commit the alert, announce it.)  *)
THEOREM AlertsAreFounded == Spec => []AlertsRestOnPredictions
  <1>1. IInv => AlertsRestOnPredictions
    BY DEF IInv
  <1> QED
    BY <1>1, Invariant, PTL

(* No prediction above its threshold stays without an alert but for what    *)
(* happened to a call made for that prediction itself.                      *)
THEOREM SilenceIsExplained == Spec => []SilenceHasItsOwnCause
  <1>1. IInv => SilenceHasItsOwnCause
    BY DEF IInv
  <1> QED
    BY <1>1, Invariant, PTL

-----------------------------------------------------------------------------
(* Types.                                                                   *)

SchedulerTyped ==
    /\ scheduler \in [pc : SchedulerPCs, since : Times, job : Prediction \cup {NoPrediction}]
    /\ scheduler.pc \in CallPCs <=> scheduler.job # NoPrediction

TablesTyped ==
    /\ predictions \subseteq Prediction /\ alerts \subseteq Prediction
    /\ published \subseteq Prediction /\ announced \subseteq Prediction
    /\ hit \subseteq Prediction \X CallPCs

LifespanTyped ==
    /\ now \in Times /\ started \in Times
    /\ lifespan \in LifespanPCs
    /\ starts \in 0 .. MaxStarts /\ faults \in 0 .. MaxFaults

AggregatorTyped ==
    /\ rows \in Seq(Row)
    /\ aggregator \in [pc : AggregatorPCs, since : Times]

CountersTyped ==
    /\ loaded \subseteq Models
    /\ predictions_made_total \in [Models -> Nat]

LEMMA TypeParts ==
    TypeOK <=> /\ SchedulerTyped /\ TablesTyped /\ LifespanTyped
               /\ AggregatorTyped /\ CountersTyped
  BY DEF TypeOK, SchedulerTyped, TablesTyped, LifespanTyped, AggregatorTyped, CountersTyped

LEMMA TypePartsPrimed ==
    ASSUME SchedulerTyped', TablesTyped', LifespanTyped', AggregatorTyped', CountersTyped'
    PROVE  TypeOK'
  BY DEF TypeOK, SchedulerTyped, TablesTyped, LifespanTyped, AggregatorTyped, CountersTyped

LEMMA ZeroIsATime == 0 \in Times /\ \A t \in Times : t \in Nat
  BY InferenceAssumption DEF Times

LEMMA PredictionsAreSome == \A p \in Prediction : p # NoPrediction /\ p.model \in Models
  BY DEF Prediction, NoPrediction, Models

LEMMA FaultTyped ==
    ASSUME LifespanTyped, Fault \/ NoFault
    PROVE  faults' \in 0 .. MaxFaults
  BY InferenceAssumption DEF LifespanTyped, Fault, NoFault

LEMMA InitTyped == Init => TypeOK
  <1> SUFFICES ASSUME Init PROVE TypeOK
    OBVIOUS
  <1>1. SchedulerTyped
    BY ZeroIsATime DEF Init, AbsentScheduler, SchedulerTyped, SchedulerPCs, CallPCs
  <1>2. TablesTyped
    BY DEF Init, TablesTyped
  <1>3. LifespanTyped
    BY ZeroIsATime, InferenceAssumption DEF Init, LifespanTyped, LifespanPCs
  <1>4. AggregatorTyped
    BY ZeroIsATime, EmptySeq DEF Init, Absent, AggregatorTyped, AggregatorPCs
  <1>5. CountersTyped
    BY DEF Init, CountersTyped
  <1> QED
    BY <1>1, <1>2, <1>3, <1>4, <1>5, TypeParts

(* The scheduler between two calls, and from one to the next.               *)
LEMMA AskTyped ==
    ASSUME SchedulerTyped, NEW pc \in SchedulerPCs \ CallPCs, Ask(pc)
    PROVE  SchedulerTyped'
  BY DEF SchedulerTyped, Ask

LEMMA CallTyped ==
    ASSUME SchedulerTyped, scheduler.pc \in CallPCs, NEW pc \in CallPCs, SchedulerTo(pc)
    PROVE  SchedulerTyped'
  BY DEF SchedulerTyped, SchedulerTo, SchedulerPCs

LEMMA NextModelTyped ==
    ASSUME SchedulerTyped, NEW m, NextModel(m)
    PROVE  SchedulerTyped'
  <1>1. After(m, loaded) \in SchedulerPCs \ CallPCs
    BY AfterIsNoCall
  <1> QED
    BY <1>1, AskTyped DEF NextModel

LEMMA CountTyped ==
    ASSUME CountersTyped, job \in Prediction, Count
    PROVE  predictions_made_total' \in [Models -> Nat]
  <1>1. job.model \in Models /\ predictions_made_total[job.model] \in Nat
    BY PredictionsAreSome DEF CountersTyped
  <1>2. predictions_made_total[job.model] + 1 \in Nat
    BY <1>1
  <1> QED
    BY <1>1, <1>2 DEF CountersTyped, Count

(* A row of the table: where it stands and when it was written.             *)
LEMMA RowsTyped ==
    ASSUME AggregatorTyped
    PROVE  /\ Len(rows) \in Nat /\ DOMAIN rows = 1 .. Len(rows)
           /\ \A i \in DOMAIN rows : rows[i] \in Row /\ rows[i].time \in Times
                                     /\ rows[i].time \in Nat /\ rows[i].high \in BOOLEAN
  <1>1. rows \in Seq(Row)
    BY DEF AggregatorTyped
  <1>2. Len(rows) \in Nat /\ DOMAIN rows = 1 .. Len(rows) /\ \A i \in DOMAIN rows : rows[i] \in Row
    BY <1>1, LenProperties, ElementOfSeq
  <1> QED
    BY <1>2, ZeroIsATime DEF Row

(* The range of a query is the tail of the table that begins after the rows *)
(* that are too old.                                                        *)
LEMMA RangeTyped ==
    ASSUME AggregatorTyped, LifespanTyped, NEW ticks \in Nat
    PROVE  /\ Older(ticks) \in 0 .. Len(rows)
           /\ InRange(ticks) \in Seq(Row)
           /\ Len(InRange(ticks)) = Len(rows) - Older(ticks)
           /\ \A i \in 1 .. Len(rows) - Older(ticks) :
                InRange(ticks)[i] = rows[Older(ticks) + i]
           /\ InRange(ticks) # <<>> => Older(ticks) < Len(rows)
  <1> DEFINE old == {i \in DOMAIN rows : rows[i].time + ticks < now}
  <1>1. Len(rows) \in Nat /\ DOMAIN rows = 1 .. Len(rows) /\ \A i \in DOMAIN rows : rows[i] \in Row
    BY RowsTyped
  <1>2. IsFiniteSet(DOMAIN rows) /\ Cardinality(DOMAIN rows) = Len(rows)
    BY <1>1, FS_Interval
  <1>3. old \in SUBSET (DOMAIN rows) /\ Older(ticks) = Cardinality(old)
    BY DEF Older
  <1> HIDE DEF old
  <1>4. Cardinality(old) \in Nat /\ Cardinality(old) <= Len(rows)
    BY <1>2, <1>3, FS_Subset, FS_CardinalityType
  <1>5. PICK n : n = Older(ticks)
    OBVIOUS
  <1>6. n \in Nat /\ n <= Len(rows) /\ n + 1 \in Int /\ Len(rows) \in Int
    BY <1>1, <1>3, <1>4, <1>5
  <1>7. InRange(ticks) = SubSeq(rows, n + 1, Len(rows))
    BY <1>5 DEF InRange
  <1>8. \A i \in n + 1 .. Len(rows) : rows[i] \in Row
    BY <1>1, <1>6
  <1>9. /\ InRange(ticks) \in Seq(Row)
        /\ Len(InRange(ticks)) = IF n + 1 <= Len(rows) THEN Len(rows) - (n + 1) + 1 ELSE 0
        /\ \A i \in 1 .. Len(rows) - (n + 1) + 1 : InRange(ticks)[i] = rows[n + 1 + i - 1]
    BY <1>6, <1>7, <1>8, SubSeqProperties
  <1>10. Len(InRange(ticks)) = Len(rows) - n
    BY <1>6, <1>9
  <1>11. \A i \in 1 .. Len(rows) - n : InRange(ticks)[i] = rows[n + i]
    <2> SUFFICES ASSUME NEW i \in 1 .. Len(rows) - n PROVE InRange(ticks)[i] = rows[n + i]
      OBVIOUS
    <2>1. Len(rows) - (n + 1) + 1 = Len(rows) - n /\ n + 1 + i - 1 = n + i
      BY <1>6
    <2> QED
      BY <1>9, <2>1
  <1>12. InRange(ticks) # <<>> => n < Len(rows)
    <2>1. n = Len(rows) => Len(InRange(ticks)) = 0
      BY <1>6, <1>10
    <2>2. n = Len(rows) => InRange(ticks) = <<>>
      BY <1>9, <2>1, EmptySeq
    <2> QED
      BY <1>6, <2>2
  <1> QED
    BY <1>5, <1>6, <1>9, <1>10, <1>11, <1>12

(* The row that the anomaly model is asked about last: the last of the      *)
(* first SeqLen rows of the range.                                          *)
LEMMA LastOfWindow ==
    ASSUME AggregatorTyped, LifespanTyped, InRange(WindowTicks) # <<>>
    PROVE  \E n \in 1 .. SeqLen :
             /\ Older(WindowTicks) + n \in DOMAIN rows
             /\ n < SeqLen => Older(WindowTicks) + n = Len(rows)
             /\ Window[SeqLen] = rows[Older(WindowTicks) + n]
  <1>1. WindowTicks \in Nat /\ SeqLen \in Nat /\ 1 <= SeqLen /\ SeqLen \in 1 .. SeqLen
    BY InferenceAssumption
  <1>2. PICK range, old : range = InRange(WindowTicks) /\ old = Older(WindowTicks)
    OBVIOUS
  <1>3. /\ old \in 0 .. Len(rows) /\ Len(range) = Len(rows) - old /\ old < Len(rows)
        /\ \A i \in 1 .. Len(rows) - old : range[i] = rows[old + i]
    BY <1>1, <1>2, RangeTyped
  <1>4. Len(rows) \in Nat /\ DOMAIN rows = 1 .. Len(rows)
    BY RowsTyped
  <1>5. PICK n : n = IF Len(range) < SeqLen THEN Len(range) ELSE SeqLen
    OBVIOUS
  <1>6. /\ n \in 1 .. SeqLen /\ n <= Len(range) /\ (n < SeqLen => n = Len(range))
        /\ n \in 1 .. Len(rows) - old
    BY <1>1, <1>3, <1>4, <1>5
  <1>7. Window = [i \in 1 .. SeqLen |->
                    range[IF i <= SeqLen - n THEN 1 ELSE i - (SeqLen - n)]]
    BY <1>2, <1>5 DEF Window
  <1>8. Window[SeqLen] = range[IF SeqLen <= SeqLen - n THEN 1 ELSE SeqLen - (SeqLen - n)]
    BY <1>1, <1>7
  <1>9. ~(SeqLen <= SeqLen - n) /\ SeqLen - (SeqLen - n) = n
    BY <1>1, <1>6
  <1>10. Window[SeqLen] = rows[old + n]
    BY <1>3, <1>6, <1>8, <1>9
  <1>11. old + n \in DOMAIN rows /\ (n < SeqLen => old + n = Len(rows))
    BY <1>1, <1>3, <1>4, <1>6
  <1> QED
    BY <1>2, <1>6, <1>10, <1>11

(* What a step of the scheduler leaves alone.                               *)
LEMMA SchedulerLeavesTyped ==
    ASSUME LifespanTyped, AggregatorTyped, UNCHANGED SchedulerLeaves, Fault \/ NoFault
    PROVE  LifespanTyped' /\ AggregatorTyped'
  BY FaultTyped DEF SchedulerLeaves, process, LifespanTyped, AggregatorTyped

(* Taking up a prediction that a model has just made.                       *)
LEMMA ScoreTyped ==
    ASSUME SchedulerTyped, NEW m \in Models, NEW of \in Times, NEW is_alert \in BOOLEAN,
           Score(m, of, is_alert)
    PROVE  SchedulerTyped'
  <1>1. [model |-> m, at |-> scheduler.since, of |-> of, is_alert |-> is_alert] \in Prediction
    BY DEF SchedulerTyped, Prediction
  <1> QED
    BY <1>1, PredictionsAreSome DEF SchedulerTyped, Score, SchedulerPCs, CallPCs

LEMMA QueriesTyped ==
    ASSUME TypeOK, QuerySummary \/ QueryWindow
    PROVE  TypeOK'
  <1>1. /\ SchedulerTyped /\ TablesTyped /\ LifespanTyped /\ AggregatorTyped /\ CountersTyped
    BY TypeParts
  <1>2. TablesTyped' /\ CountersTyped' /\ UNCHANGED SchedulerLeaves
    BY <1>1 DEF QuerySummary, QueryWindow, TablesTyped, CountersTyped, histories
  <1>3. Fault \/ NoFault
    BY DEF QuerySummary, QueryWindow, NothingToScore
  <1>4. LifespanTyped' /\ AggregatorTyped'
    BY <1>1, <1>2, <1>3, SchedulerLeavesTyped
  <1>5. CASE QuerySummary
    <2>1. ASSUME NothingToScore("congestion", RecentTicks)
          PROVE  SchedulerTyped'
      BY <1>1, <2>1, NextModelTyped DEF NothingToScore
    <2>2. ASSUME InRange(RecentTicks) # <<>>,
                 Score("congestion", rows[Len(rows)].time, rows[Len(rows)].high)
          PROVE  SchedulerTyped'
      <3>1. Older(RecentTicks) \in 0 .. Len(rows) /\ Older(RecentTicks) < Len(rows)
        BY <1>1, <2>2, RangeTyped, InferenceAssumption
      <3>2. Len(rows) \in DOMAIN rows
        BY <1>1, <3>1, RowsTyped
      <3>3. rows[Len(rows)].time \in Times /\ rows[Len(rows)].high \in BOOLEAN
        BY <1>1, <3>2, RowsTyped
      <3> QED
        BY <1>1, <2>2, <3>3, ScoreTyped DEF Models
    <2>3. SchedulerTyped'
      BY <1>5, <2>1, <2>2 DEF QuerySummary
    <2> QED
      BY <1>2, <1>4, <2>3, TypePartsPrimed
  <1>6. CASE QueryWindow
    <2>1. ASSUME NothingToScore("anomaly", WindowTicks)
          PROVE  SchedulerTyped'
      BY <1>1, <2>1, NextModelTyped DEF NothingToScore
    <2>2. ASSUME InRange(WindowTicks) # <<>>, NEW is_anomaly \in Verdicts,
                 Score("anomaly", Window[SeqLen].time, is_anomaly)
          PROVE  SchedulerTyped'
      <3>1. Window[SeqLen].time \in Times
        BY <1>1, <2>2, LastOfWindow, RowsTyped
      <3>2. is_anomaly \in BOOLEAN
        BY InferenceAssumption
      <3> QED
        BY <1>1, <2>2, <3>1, <3>2, ScoreTyped DEF Models
    <2>3. SchedulerTyped'
      BY <1>6, <2>1, <2>2 DEF QueryWindow
    <2> QED
      BY <1>2, <1>4, <2>3, TypePartsPrimed
  <1> QED
    BY <1>5, <1>6

LEMMA RoundTyped ==
    ASSUME TypeOK, StartRound \/ EvaluateRules
    PROVE  TypeOK'
  <1>1. /\ SchedulerTyped /\ TablesTyped /\ LifespanTyped /\ AggregatorTyped /\ CountersTyped
    BY TypeParts
  <1>2. TablesTyped' /\ UNCHANGED <<SchedulerLeaves, predictions_made_total>>
    BY <1>1 DEF StartRound, EvaluateRules, TablesTyped, histories
  <1>3. (Fault \/ NoFault) /\ loaded' \subseteq Models
    BY <1>1 DEF StartRound, EvaluateRules, NoFault, CountersTyped
  <1>4. PICK pc \in SchedulerPCs \ CallPCs :
            scheduler' = [pc |-> pc, since |-> now, job |-> NoPrediction]
    BY AfterIsNoCall DEF StartRound, EvaluateRules, SchedulerPCs, CallPCs
  <1>5. SchedulerTyped'
    BY <1>1, <1>4 DEF SchedulerTyped, LifespanTyped
  <1>6. LifespanTyped' /\ AggregatorTyped'
    BY <1>1, <1>2, <1>3, SchedulerLeavesTyped
  <1>7. CountersTyped'
    BY <1>1, <1>2, <1>3 DEF CountersTyped
  <1> QED
    BY <1>1, <1>2, <1>5, <1>6, <1>7, TypePartsPrimed

(* A call for the prediction in hand: a table may get it.                   *)
LEMMA TablesGrowTyped ==
    ASSUME TablesTyped, SchedulerTyped,
           job \in Prediction \/ (job = NoPrediction /\ UNCHANGED <<predictions, alerts, published,
                                                                    announced, hit>>),
           predictions' \subseteq predictions \cup {job}, alerts' \subseteq alerts \cup {job},
           published' \subseteq published \cup {job}, announced' \subseteq announced \cup {job},
           hit' = hit \/ Hit
    PROVE  TablesTyped'
  <1>1. CASE job \in Prediction
    <2>1. job # NoPrediction /\ scheduler.pc \in CallPCs
      BY <1>1, PredictionsAreSome DEF SchedulerTyped, job
    <2>2. <<job, scheduler.pc>> \in Prediction \X CallPCs
      BY <1>1, <2>1
    <2> QED
      BY <1>1, <2>2 DEF TablesTyped, Hit, Add
  <1>2. CASE job = NoPrediction /\ UNCHANGED <<predictions, alerts, published, announced, hit>>
    BY <1>2 DEF TablesTyped
  <1> QED
    BY <1>1, <1>2

LEMMA JobTyped ==
    ASSUME SchedulerTyped
    PROVE  /\ scheduler.pc \in CallPCs => job \in Prediction
           /\ scheduler.pc \notin CallPCs => job = NoPrediction
  BY DEF SchedulerTyped, job

LEMMA CallsTyped ==
    ASSUME TypeOK, SavePrediction \/ PublishPrediction \/ CreateAlert \/ AnnounceAlert
    PROVE  TypeOK'
  <1>1. /\ SchedulerTyped /\ TablesTyped /\ LifespanTyped /\ AggregatorTyped /\ CountersTyped
    BY TypeParts
  <1>2. scheduler.pc \in CallPCs /\ job \in Prediction
    <2>1. scheduler.pc \in CallPCs
      BY DEF SavePrediction, PublishPrediction, CreateAlert, AnnounceAlert, SchedulerRuns,
             SchedulerAt, CallPCs
    <2> QED
      BY <1>1, <2>1, JobTyped
  <1>3. /\ predictions' \subseteq predictions \cup {job} /\ alerts' \subseteq alerts \cup {job}
        /\ published' \subseteq published \cup {job} /\ announced' \subseteq announced \cup {job}
        /\ hit' = hit \/ Hit
        /\ Fault \/ NoFault
        /\ UNCHANGED SchedulerLeaves /\ loaded' = loaded
        /\ predictions_made_total' = predictions_made_total \/ Count
    BY DEF SavePrediction, PublishPrediction, CreateAlert, AnnounceAlert, Add, NoFault
  <1>4. TablesTyped'
    BY <1>1, <1>2, <1>3, TablesGrowTyped
  <1>5. LifespanTyped' /\ AggregatorTyped'
    BY <1>1, <1>3, SchedulerLeavesTyped
  <1>6. CountersTyped'
    BY <1>1, <1>2, <1>3, CountTyped DEF CountersTyped
  <1>7. \/ NextModel(job.model)
        \/ \E pc \in CallPCs : SchedulerTo(pc)
    BY DEF SavePrediction, PublishPrediction, CreateAlert, AnnounceAlert, CallPCs
  <1>8. SchedulerTyped'
    BY <1>1, <1>2, <1>7, NextModelTyped, CallTyped
  <1> QED
    BY <1>4, <1>5, <1>6, <1>8, TypePartsPrimed

LEMMA CutShortTyped ==
    ASSUME TypeOK, CancelScheduler \/ Crash
    PROVE  TypeOK'
  <1>1. /\ SchedulerTyped /\ TablesTyped /\ LifespanTyped /\ AggregatorTyped /\ CountersTyped
    BY TypeParts
  <1>2. /\ SchedulerAt("saving") => scheduler.pc \in CallPCs
        /\ SchedulerAt("publishing") => scheduler.pc \in CallPCs
        /\ SchedulerAt("alerting") => scheduler.pc \in CallPCs
        /\ SchedulerAt("announcing") => scheduler.pc \in CallPCs
    BY DEF SchedulerAt, CallPCs
  <1>3. job \in Prediction \/ (job = NoPrediction /\ scheduler.pc \notin CallPCs)
    BY <1>1, JobTyped
  <1>4. CASE CancelScheduler
    <2>1. /\ predictions' = predictions \/ (SchedulerAt("saving")
                                              /\ predictions' = predictions \cup {job})
          /\ published' = published \/ (SchedulerAt("publishing")
                                              /\ published' = published \cup {job})
          /\ alerts' = alerts \/ (SchedulerAt("alerting") /\ alerts' = alerts \cup {job})
          /\ announced' = announced \/ (SchedulerAt("announcing")
                                              /\ announced' = announced \cup {job})
          /\ IF job = NoPrediction THEN hit' = hit ELSE Hit
          /\ Ask("done") /\ NoFault
          /\ UNCHANGED <<SchedulerLeaves, loaded, predictions_made_total>>
      BY <1>4 DEF CancelScheduler, NoFault
    <2>2. TablesTyped'
      BY <1>1, <1>2, <1>3, <2>1, TablesGrowTyped
    <2>3. SchedulerTyped' /\ LifespanTyped' /\ AggregatorTyped' /\ CountersTyped'
      BY <1>1, <2>1, AskTyped, SchedulerLeavesTyped DEF SchedulerPCs, CallPCs, CountersTyped
    <2> QED
      BY <2>2, <2>3, TypePartsPrimed
  <1>5. CASE Crash
    <2>1. /\ predictions' = predictions \/ (SchedulerAt("saving")
                                              /\ predictions' = predictions \cup {job})
          /\ alerts' = alerts \/ (SchedulerAt("alerting") /\ alerts' = alerts \cup {job})
          /\ IF job = NoPrediction THEN hit' = hit ELSE Hit
          /\ lifespan' = "down" /\ Fault
          /\ aggregator' = Absent /\ scheduler' = AbsentScheduler
          /\ UNCHANGED <<now, rows, started, starts, loaded, predictions_made_total, published,
                         announced>>
      BY <1>5 DEF Crash
    <2>2. TablesTyped'
      BY <1>1, <1>2, <1>3, <2>1, TablesGrowTyped
    <2>3. SchedulerTyped' /\ AggregatorTyped'
      BY <1>1, <2>1, ZeroIsATime DEF AbsentScheduler, Absent, SchedulerTyped, AggregatorTyped,
                                     SchedulerPCs, CallPCs, AggregatorPCs
    <2>4. LifespanTyped' /\ CountersTyped'
      BY <1>1, <2>1, FaultTyped DEF LifespanTyped, LifespanPCs, CountersTyped
    <2> QED
      BY <2>2, <2>3, <2>4, TypePartsPrimed
  <1> QED
    BY <1>4, <1>5

LEMMA LifespanStepsTyped ==
    ASSUME TypeOK,
           StartUp \/ ShutDown \/ InferenceStopped \/ AggregationStopped \/ CloseRedis
    PROVE  TypeOK'
  <1>1. /\ SchedulerTyped /\ TablesTyped /\ LifespanTyped /\ AggregatorTyped /\ CountersTyped
    BY TypeParts
  <1>2. TablesTyped' /\ UNCHANGED <<now, rows, faults>>
    BY <1>1 DEF StartUp, ShutDown, InferenceStopped, AggregationStopped, CloseRedis,
                LifespanLeaves, tables, histories, TablesTyped
  <1>3. /\ started' \in {started, now} /\ lifespan' \in LifespanPCs
        /\ loaded' \in {loaded, {}}
        /\ \/ predictions_made_total' = predictions_made_total
           \/ predictions_made_total' = [m \in Models |-> 0]
        /\ starts' = starts \/ (starts < MaxStarts /\ starts' = starts + 1)
    BY DEF StartUp, ShutDown, InferenceStopped, AggregationStopped, CloseRedis, LifespanLeaves,
           LifespanPCs
  <1>4. starts' \in 0 .. MaxStarts
    BY <1>1, <1>3, InferenceAssumption DEF LifespanTyped
  <1>5. LifespanTyped' /\ CountersTyped'
    BY <1>1, <1>2, <1>3, <1>4 DEF LifespanTyped, CountersTyped
  <1>6. /\ \/ aggregator' = aggregator
           \/ aggregator' = [pc |-> "sleeping", since |-> now]
           \/ aggregator' = Absent
        /\ \/ scheduler' = scheduler
           \/ scheduler' = [pc |-> "sleeping", since |-> now, job |-> NoPrediction]
           \/ scheduler' = AbsentScheduler
    BY DEF StartUp, ShutDown, InferenceStopped, AggregationStopped, CloseRedis
  <1>7. AggregatorTyped'
    BY <1>1, <1>2, <1>6, ZeroIsATime DEF Absent, AggregatorTyped, AggregatorPCs, LifespanTyped
  <1>8. SchedulerTyped'
    <2>1. CASE scheduler' = scheduler
      BY <1>1, <2>1 DEF SchedulerTyped
    <2>2. CASE scheduler' = [pc |-> "sleeping", since |-> now, job |-> NoPrediction]
      BY <1>1, <2>2 DEF SchedulerTyped, SchedulerPCs, CallPCs, LifespanTyped
    <2>3. CASE scheduler' = AbsentScheduler
      BY <2>3, ZeroIsATime DEF AbsentScheduler, SchedulerTyped, SchedulerPCs, CallPCs
    <2> QED
      BY <1>6, <2>1, <2>2, <2>3
  <1> QED
    BY <1>2, <1>5, <1>7, <1>8, TypePartsPrimed

LEMMA AggregatorStepsTyped ==
    ASSUME TypeOK, AggregatorStep
    PROVE  TypeOK'
  <1>1. /\ SchedulerTyped /\ TablesTyped /\ LifespanTyped /\ AggregatorTyped /\ CountersTyped
    BY TypeParts
  <1>2. /\ UNCHANGED AggregatorLeaves
        /\ Fault \/ NoFault
        /\ \E pc \in AggregatorPCs : AggregatorTo(pc)
        /\ \/ rows' = rows
           \/ \E high \in BOOLEAN : rows' = Append(rows, [time |-> now, high |-> high])
    BY DEF AggregatorStep, Aggregate, PublishFeatures, EndBackoff, CancelAggregator, NoFault,
           AggregatorPCs
  <1>3. SchedulerTyped' /\ TablesTyped' /\ CountersTyped'
    BY <1>1, <1>2 DEF AggregatorLeaves, histories, SchedulerTyped, TablesTyped, CountersTyped
  <1>4. LifespanTyped'
    BY <1>1, <1>2, FaultTyped DEF AggregatorLeaves, process, LifespanTyped
  <1>5. rows' \in Seq(Row)
    <2>1. ASSUME NEW high \in BOOLEAN, rows' = Append(rows, [time |-> now, high |-> high])
          PROVE  rows' \in Seq(Row)
      <3>1. [time |-> now, high |-> high] \in Row
        BY <1>1 DEF Row, LifespanTyped
      <3> QED
        BY <1>1, <2>1, <3>1, AppendProperties DEF AggregatorTyped
    <2> QED
      BY <1>1, <1>2, <2>1 DEF AggregatorTyped
  <1>6. AggregatorTyped'
    BY <1>1, <1>2, <1>5 DEF AggregatorTyped, AggregatorTo, LifespanTyped
  <1> QED
    BY <1>3, <1>4, <1>6, TypePartsPrimed

LEMMA TickTyped ==
    ASSUME TypeOK, Tick
    PROVE  TypeOK'
  <1>1. now' \in Times
    BY InferenceAssumption DEF TypeOK, Tick, Times
  <1> QED
    BY <1>1 DEF Tick, TypeOK, tables, process, histories

LEMMA StepTyped == TypeOK /\ [Next]_vars => TypeOK'
  <1>1. ASSUME TypeOK, Next
        PROVE  TypeOK'
    BY <1>1, TickTyped, CutShortTyped, LifespanStepsTyped, AggregatorStepsTyped, QueriesTyped,
       RoundTyped, CallsTyped DEF Next, SchedulerStep, RoundStep, LifespanStep
  <1>2. ASSUME TypeOK, UNCHANGED vars
        PROVE  TypeOK'
    BY <1>2 DEF vars, tables, process, histories, TypeOK
  <1> QED
    BY <1>1, <1>2

-----------------------------------------------------------------------------
(* The clock.                                                               *)

(* A task that is there and not over.                                       *)
Alive(task) == ~TaskOver(task)

(* The rows stand in the order of their times, at most one per interval:    *)
(* the aggregator has slept since it wrote the last one.                    *)
RowsInOrder ==
    /\ \A i \in DOMAIN rows : rows[i].time <= now
    /\ \A i, j \in DOMAIN rows : i < j => rows[i].time < rows[j].time
    /\ Alive(aggregator) =>
         /\ aggregator.since <= now
         /\ \A i \in DOMAIN rows : rows[i].time <= aggregator.since

(* Every prediction there is, stored or in hand.                            *)
Made == predictions \cup ({job} \ {NoPrediction})

InRound == Alive(scheduler) /\ scheduler.pc # "sleeping"

(* The model is still to be asked in this round.                            *)
ToAsk(m) ==
    \/ scheduler.pc = "querying congestion"
    \/ m = "anomaly" /\ (scheduler.pc = "querying anomaly" \/ job.model = "congestion")

(* What the predictions of the past, of this round and of this process are  *)
(* about: the scheduler has slept since the last round.                     *)
RoundsInOrder ==
    /\ started <= now
    /\ \A p \in Made : p.at <= now /\ p.of <= now
    /\ Alive(scheduler) => started <= scheduler.since /\ scheduler.since <= now
    /\ SchedulerAt("sleeping") =>
         \A p \in Made : p.at <= scheduler.since /\ p.of <= scheduler.since
    /\ InRound =>
         /\ started < scheduler.since
         /\ \A p \in Made : p.at = scheduler.since \/ (p.at < scheduler.since /\ p.of < scheduler.since)
         /\ \A p \in Made : ToAsk(p.model) => p.at < scheduler.since \/ p = job
    /\ job # NoPrediction => job.at = scheduler.since

(* A round asks each model once, and what it hears about is older than the  *)
(* next round.                                                              *)
OncePerRound ==
    /\ \A p, q \in Made : p.at < q.at => p.of < q.at
    /\ \A p, q \in Made : p.model = q.model /\ p.at = q.at => p = q
    /\ \A p \in OfModel(Made, "congestion") : p.at <= p.of + RecentTicks

(* A prediction is published once.                                          *)
NotYetPublished ==
    /\ scheduler.pc \in {"saving", "publishing"} => job \notin published
    /\ IsFiniteSet(published)

-----------------------------------------------------------------------------
(* The rows keep the order of their times.                                  *)

LEMMA InitRows == Init => RowsInOrder
  BY EmptySeq DEF Init, RowsInOrder, Absent, Alive, TaskOver

(* A step that writes no row: the table is as old as it was, or older.      *)
LEMMA RowsKept ==
    ASSUME TypeOK, TypeOK', RowsInOrder, rows' = rows, now <= now',
           \/ aggregator' = aggregator
           \/ aggregator'.since = now' /\ now' = now
           \/ aggregator' = Absent
    PROVE  RowsInOrder'
  <1>1. /\ now \in Nat /\ now' \in Nat
        /\ \A i \in DOMAIN rows : rows[i].time \in Nat
        /\ aggregator.since \in Nat
    BY RowsTyped, ZeroIsATime, TypeParts DEF TypeOK
  <1>2. \A i \in DOMAIN rows : rows[i].time <= now'
    BY <1>1 DEF RowsInOrder
  <1>3. Alive(aggregator)' => /\ aggregator'.since <= now'
                              /\ \A i \in DOMAIN rows : rows[i].time <= aggregator'.since
    <2>1. CASE aggregator' = aggregator
      BY <1>1, <2>1 DEF RowsInOrder, Alive, TaskOver
    <2>2. CASE aggregator'.since = now' /\ now' = now
      BY <1>1, <2>2 DEF RowsInOrder
    <2>3. CASE aggregator' = Absent
      BY <2>3 DEF Absent, Alive, TaskOver
    <2> QED
      BY <2>1, <2>2, <2>3
  <1> QED
    BY <1>2, <1>3 DEF RowsInOrder

(* A row is written in a later interval than the last one.                  *)
LEMMA RowWritten ==
    ASSUME TypeOK, RowsInOrder, NEW high \in BOOLEAN,
           aggregator.pc = "sleeping", aggregator.since < now, now' = now,
           aggregator' = [pc |-> "publishing", since |-> now],
           rows' = Append(rows, [time |-> now, high |-> high])
    PROVE  RowsInOrder'
  <1> DEFINE new == [time |-> now, high |-> high]
  <1>1. /\ now \in Nat /\ aggregator.since \in Nat
        /\ Len(rows) \in Nat /\ DOMAIN rows = 1 .. Len(rows)
        /\ \A i \in DOMAIN rows : rows[i].time \in Nat
        /\ rows \in Seq(Row) /\ new \in Row
    BY RowsTyped, ZeroIsATime, TypeParts DEF TypeOK, Row
  <1>2. \A i \in DOMAIN rows : rows[i].time < now
    BY <1>1 DEF RowsInOrder, Alive, TaskOver
  <1>3. /\ rows' \in Seq(Row) /\ Len(rows') = Len(rows) + 1
        /\ \A i \in 1 .. Len(rows) : rows'[i] = rows[i]
        /\ rows'[Len(rows) + 1] = new
    BY <1>1, AppendProperties
  <1>4. DOMAIN rows' = 1 .. Len(rows) + 1
    BY <1>3, LenProperties
  <1>5. rows'[Len(rows) + 1].time = now /\ \A i \in 1 .. Len(rows) : rows'[i].time = rows[i].time
    BY <1>3
  <1> HIDE DEF new
  <1>6. \A i \in DOMAIN rows' : i \in 1 .. Len(rows) \/ i = Len(rows) + 1
    BY <1>1, <1>4
  <1>7. \A i \in DOMAIN rows' : rows'[i].time <= now
    BY <1>1, <1>2, <1>5, <1>6
  <1>8. \A i, j \in DOMAIN rows' : i < j => rows'[i].time < rows'[j].time
    <2> SUFFICES ASSUME NEW i \in DOMAIN rows', NEW j \in DOMAIN rows', i < j
                 PROVE  rows'[i].time < rows'[j].time
      OBVIOUS
    <2>1. i \in 1 .. Len(rows)
      BY <1>1, <1>4
    <2>2. CASE j \in 1 .. Len(rows)
      BY <1>1, <1>5, <2>1, <2>2 DEF RowsInOrder
    <2>3. CASE j = Len(rows) + 1
      BY <1>1, <1>2, <1>5, <2>1, <2>3
    <2> QED
      BY <1>6, <2>2, <2>3
  <1> QED
    BY <1>1, <1>7, <1>8 DEF RowsInOrder

LEMMA AggregatorRows ==
    ASSUME TypeOK, TypeOK', RowsInOrder, AggregatorStep
    PROVE  RowsInOrder'
  <1>1. now' = now /\ now <= now'
    BY ZeroIsATime DEF TypeOK, AggregatorStep, Aggregate, PublishFeatures, EndBackoff,
                       CancelAggregator, AggregatorLeaves
  <1>2. ASSUME NEW pc, AggregatorTo(pc), rows' = rows
        PROVE  RowsInOrder'
    BY <1>1, <1>2, RowsKept DEF AggregatorTo
  <1>3. ASSUME NEW high \in BOOLEAN, Aggregate, AggregatorTo("publishing"),
               rows' = Append(rows, [time |-> now, high |-> high])
        PROVE  RowsInOrder'
    <2>1. aggregator.pc = "sleeping" /\ aggregator.since < now
      BY <1>3 DEF Aggregate, AggregatorRuns, AggregatorAt
    <2> QED
      BY <1>1, <1>3, <2>1, RowWritten DEF AggregatorTo
  <1>4. CASE Aggregate
    BY <1>2, <1>3, <1>4 DEF Aggregate
  <1>5. CASE PublishFeatures \/ EndBackoff \/ CancelAggregator
    BY <1>2, <1>5 DEF PublishFeatures, EndBackoff, CancelAggregator
  <1> QED
    BY <1>4, <1>5 DEF AggregatorStep

LEMMA StepRows == TypeOK /\ TypeOK' /\ RowsInOrder /\ [Next]_vars => RowsInOrder'
  <1> SUFFICES ASSUME TypeOK, TypeOK', RowsInOrder, [Next]_vars PROVE RowsInOrder'
    OBVIOUS
  <1>1. now \in Nat
    BY ZeroIsATime DEF TypeOK
  <1>2. CASE SchedulerStep \/ ShutDown \/ InferenceStopped \/ AggregationStopped \/ UNCHANGED vars
    <2>1. UNCHANGED <<rows, aggregator, now>>
      <3>1. CASE SchedulerStep
        BY <3>1 DEF SchedulerStep, RoundStep, StartRound, QuerySummary, QueryWindow,
                    SavePrediction, PublishPrediction, CreateAlert, AnnounceAlert,
                    EvaluateRules, CancelScheduler, SchedulerLeaves
      <3> QED
        BY <1>2, <3>1 DEF ShutDown, InferenceStopped, AggregationStopped, LifespanLeaves,
                          tables, vars
    <2> QED
      BY <1>1, <2>1, RowsKept
  <1>3. CASE Tick
    BY <1>1, <1>3, RowsKept DEF Tick, tables
  <1>4. CASE Crash \/ CloseRedis \/ StartUp
    <2>1. rows' = rows /\ now' = now
      BY <1>4 DEF Crash, CloseRedis, StartUp, LifespanLeaves, tables
    <2>2. aggregator' = Absent \/ aggregator'.since = now
      BY <1>4 DEF Crash, CloseRedis, StartUp
    <2> QED
      BY <1>1, <2>1, <2>2, RowsKept
  <1>5. CASE AggregatorStep
    BY <1>5, AggregatorRows
  <1> QED
    BY <1>2, <1>3, <1>4, <1>5 DEF Next, LifespanStep

(* One row per interval: a range holds few rows, and the last row of the    *)
(* table is in it if any is.                                                *)
LEMMA RangeBounded ==
    ASSUME TypeOK, RowsInOrder, NEW ticks \in Nat
    PROVE  /\ Len(rows) - Older(ticks) <= ticks + 1
           /\ InRange(ticks) # <<>> => now <= rows[Len(rows)].time + ticks
  <1> DEFINE old == {i \in DOMAIN rows : rows[i].time + ticks < now}
             new == {i \in DOMAIN rows : ~(rows[i].time + ticks < now)}
  <1>1. /\ now \in Nat
        /\ Len(rows) \in Nat /\ DOMAIN rows = 1 .. Len(rows)
        /\ \A i \in DOMAIN rows : rows[i].time \in Nat
        /\ AggregatorTyped /\ LifespanTyped
    BY RowsTyped, ZeroIsATime, TypeParts DEF TypeOK
  <1>2. IsFiniteSet(DOMAIN rows) /\ Cardinality(DOMAIN rows) = Len(rows)
    BY <1>1, FS_Interval
  <1>3. Older(ticks) = Cardinality(old)
    BY DEF Older
  <1>4. Cardinality(new) <= ticks + 1
    <2> DEFINE age == [i \in new |-> now - rows[i].time]
    <2>1. \A i \in new : now - rows[i].time \in 0 .. ticks
      BY <1>1 DEF RowsInOrder
    <2>2. \A i, j \in new : now - rows[i].time = now - rows[j].time => i = j
      <3> SUFFICES ASSUME NEW i \in new, NEW j \in new, i < j
                   PROVE  now - rows[i].time # now - rows[j].time
        BY <1>1
      <3>1. rows[i].time < rows[j].time
        BY DEF RowsInOrder
      <3> QED
        BY <1>1, <3>1
    <2> HIDE DEF new
    <2>3. age \in [new -> 0 .. ticks] /\ \A i, j \in new : age[i] = age[j] => i = j
      BY <2>1, <2>2
    <2> HIDE DEF age
    <2>4. age \in Injection(new, 0 .. ticks)
      BY <2>3 DEF Injection, IsInjective
    <2>5. IsFiniteSet(0 .. ticks) /\ Cardinality(0 .. ticks) = ticks + 1
      <3>1. 0 \in Int /\ ticks \in Int /\ ~(0 > ticks) /\ ticks - 0 + 1 = ticks + 1
        OBVIOUS
      <3> QED
        BY <3>1, FS_Interval
    <2> QED
      BY <2>4, <2>5, FS_Injection
  <1>5. new = DOMAIN rows \ old /\ old \in SUBSET (DOMAIN rows)
    OBVIOUS
  <1>6. InRange(ticks) # <<>> => now <= rows[Len(rows)].time + ticks
    <2> SUFFICES ASSUME InRange(ticks) # <<>>, ~(now <= rows[Len(rows)].time + ticks)
                 PROVE  FALSE
      OBVIOUS
    <2>1. Older(ticks) < Len(rows) /\ Older(ticks) \in 0 .. Len(rows)
      BY <1>1, RangeTyped
    <2>2. Len(rows) \in DOMAIN rows
      BY <1>1, <2>1
    <2>3. \A i \in DOMAIN rows : rows[i].time + ticks < now
      <3> SUFFICES ASSUME NEW i \in DOMAIN rows PROVE rows[i].time + ticks < now
        OBVIOUS
      <3>1. rows[i].time <= rows[Len(rows)].time
        <4>1. CASE i = Len(rows)
          BY <1>1, <2>2, <4>1
        <4>2. CASE i < Len(rows)
          BY <1>1, <2>2, <4>2 DEF RowsInOrder
        <4> QED
          BY <1>1, <4>1, <4>2
      <3> QED
        BY <1>1, <2>2, <3>1
    <2>4. old = DOMAIN rows
      BY <2>3
    <2> HIDE DEF old
    <2>5. Older(ticks) = Len(rows)
      BY <1>2, <1>3, <2>4
    <2> QED
      BY <1>1, <2>1, <2>5
  <1> HIDE DEF old, new
  <1>7. Cardinality(new) = Len(rows) - Cardinality(old) /\ Cardinality(old) \in Nat
    <2>1. DOMAIN rows \cap old = old
      BY <1>5
    <2>2. Cardinality(DOMAIN rows \ old) = Cardinality(DOMAIN rows) - Cardinality(DOMAIN rows \cap old)
      BY <1>2, FS_Difference
    <2>3. Cardinality(old) \in Nat
      BY <1>2, <1>5, FS_Subset, FS_CardinalityType
    <2> QED
      BY <1>2, <1>5, <2>1, <2>2, <2>3
  <1> QED
    BY <1>1, <1>3, <1>4, <1>6, <1>7

(* The rows that are younger than the window's last one are those of the    *)
(* range beyond the window.                                                 *)
LEMMA WindowLag ==
    ASSUME TypeOK, RowsInOrder, QueryWindow, scheduler'.pc = "saving"
    PROVE  Cardinality({i \in DOMAIN rows : rows[i].time > scheduler'.job.of})
             <= IF WindowTicks + 1 > SeqLen THEN WindowTicks + 1 - SeqLen ELSE 0
  <1>1. InRange(WindowTicks) # <<>> /\ scheduler'.job.of = Window[SeqLen].time
    <2>1. ~NextModel("anomaly")
      <3> SUFFICES ASSUME NextModel("anomaly") PROVE FALSE
        OBVIOUS
      <3>1. After("anomaly", loaded) \notin CallPCs /\ SchedulerTyped
        BY AfterIsNoCall, TypeParts
      <3>2. scheduler'.pc = After("anomaly", loaded)
        BY <3>1 DEF NextModel, Ask, SchedulerTyped
      <3> QED
        BY <3>1, <3>2 DEF CallPCs
    <2>2. PICK is_anomaly \in Verdicts : /\ InRange(WindowTicks) # <<>>
                                         /\ Score("anomaly", Window[SeqLen].time, is_anomaly)
      BY <2>1 DEF QueryWindow, NothingToScore
    <2>3. SchedulerTyped
      BY TypeParts
    <2> QED
      BY <2>2, <2>3 DEF Score, SchedulerTyped
  <1>2. /\ WindowTicks \in Nat /\ SeqLen \in Nat
        /\ Len(rows) \in Nat /\ DOMAIN rows = 1 .. Len(rows)
        /\ \A i \in DOMAIN rows : rows[i].time \in Nat
        /\ AggregatorTyped /\ LifespanTyped
    BY InferenceAssumption, RowsTyped, TypeParts
  <1>3. PICK old : old = Older(WindowTicks)
    OBVIOUS
  <1>4. PICK n \in 1 .. SeqLen : /\ old + n \in DOMAIN rows
                                 /\ n < SeqLen => old + n = Len(rows)
                                 /\ Window[SeqLen] = rows[old + n]
    BY <1>1, <1>2, <1>3, LastOfWindow
  <1>5. old \in 0 .. Len(rows) /\ Len(rows) - old <= WindowTicks + 1
    BY <1>2, <1>3, RangeTyped, RangeBounded
  <1>11. /\ old \in Nat /\ n \in Nat /\ 1 <= n /\ n <= SeqLen /\ old + n <= Len(rows)
         /\ old + n + 1 \in Int /\ Len(rows) \in Int
    <2>1. old \in Nat /\ n \in Nat /\ 1 <= n /\ n <= SeqLen
      <3>1. Len(rows) \in Nat /\ SeqLen \in Nat
        BY <1>2
      <3>2. old \in 0 .. Len(rows) /\ n \in 1 .. SeqLen
        BY <1>4, <1>5
      <3> QED
        BY <3>1, <3>2
    <2>2. old + n \in 1 .. Len(rows)
      BY <1>2, <1>4
    <2> QED
      BY <1>2, <2>1, <2>2
  <1>6. PICK later : later = {i \in DOMAIN rows : rows[i].time > scheduler'.job.of}
    OBVIOUS
  <1>7. later \in SUBSET (old + n + 1 .. Len(rows))
    <2> SUFFICES ASSUME NEW i \in DOMAIN rows, rows[i].time > rows[old + n].time
                 PROVE  old + n + 1 <= i
      <3>1. \A i \in later : i \in DOMAIN rows /\ rows[i].time > rows[old + n].time
        BY <1>1, <1>4, <1>6
      <3>2. \A i \in DOMAIN rows : i \in Int /\ i <= Len(rows)
        BY <1>2
      <3> QED
        BY <1>2, <1>11, <3>1, <3>2
    <2>1. rows[i].time \in Nat /\ rows[old + n].time \in Nat /\ i \in Nat
      BY <1>2, <1>4
    <2>2. i # old + n /\ ~(i < old + n)
      BY <1>4, <2>1 DEF RowsInOrder
    <2> QED
      BY <1>11, <2>1, <2>2
  <1>8. IsFiniteSet(old + n + 1 .. Len(rows)) /\ Cardinality(old + n + 1 .. Len(rows)) = Len(rows) - (old + n)
    <2>1. old + n + 1 \in Int /\ Len(rows) \in Int /\ old + n <= Len(rows)
      BY <1>11
    <2>2. Cardinality(old + n + 1 .. Len(rows))
            = IF old + n + 1 > Len(rows) THEN 0 ELSE Len(rows) - (old + n + 1) + 1
      BY <2>1, FS_Interval
    <2>3. (IF old + n + 1 > Len(rows) THEN 0 ELSE Len(rows) - (old + n + 1) + 1)
            = Len(rows) - (old + n)
      BY <1>11
    <2> QED
      BY <2>1, <2>2, <2>3, FS_Interval
  <1>9. Cardinality(later) <= Len(rows) - (old + n) /\ Cardinality(later) \in Nat
    BY <1>7, <1>8, FS_Subset, FS_CardinalityType
  <1>10. Cardinality(later) <= IF WindowTicks + 1 > SeqLen THEN WindowTicks + 1 - SeqLen ELSE 0
    <2>1. CASE n < SeqLen
      BY <1>2, <1>4, <1>9, <1>11, <2>1
    <2>2. CASE n = SeqLen
      BY <1>2, <1>5, <1>9, <1>11, <2>2
    <2> QED
      BY <1>2, <1>11, <2>1, <2>2
  <1> QED
    BY <1>6, <1>10

-----------------------------------------------------------------------------
(* Rounds keep the order of their times.                                    *)

LEMMA MadeTyped ==
    ASSUME TypeOK
    PROVE  /\ \A p \in Made : /\ p.at \in Nat /\ p.of \in Nat /\ p.model \in Models
                              /\ p # NoPrediction
           /\ now \in Nat /\ started \in Nat /\ scheduler.since \in Nat
           /\ (job = NoPrediction) <=> (scheduler.pc \notin CallPCs)
           /\ job # NoPrediction => job \in Made
  <1>1. SchedulerTyped /\ TablesTyped /\ LifespanTyped
    BY TypeParts
  <1>2. \A p \in Prediction : p.at \in Nat /\ p.of \in Nat /\ p.model \in Models
    BY ZeroIsATime DEF Prediction
  <1>3. Made \subseteq Prediction
    BY <1>1 DEF Made, SchedulerTyped, TablesTyped, job
  <1> QED
    BY <1>1, <1>2, <1>3, PredictionsAreSome, ZeroIsATime
       DEF SchedulerTyped, LifespanTyped, Made, job

LEMMA MadeKept ==
    ASSUME predictions' \subseteq predictions \cup {job},
           job = NoPrediction => predictions' = predictions,
           job' = job \/ job' = NoPrediction
    PROVE  Made' \subseteq Made
  BY DEF Made

LEMMA StillOncePerRound ==
    ASSUME OncePerRound, Made' \subseteq Made
    PROVE  OncePerRound'
  BY DEF OncePerRound, OfModel

LEMMA InitRounds == Init => RoundsInOrder /\ OncePerRound
  <1> SUFFICES ASSUME Init PROVE RoundsInOrder /\ OncePerRound
    OBVIOUS
  <1>1. job = NoPrediction /\ Made = {} /\ ~Alive(scheduler)
    BY DEF Init, Made, job, AbsentScheduler, Alive, TaskOver
  <1>2. ~InRound /\ ~SchedulerAt("sleeping") /\ started <= now
    BY DEF Init, InRound, Alive, TaskOver, AbsentScheduler, SchedulerAt
  <1>3. RoundsInOrder
    BY <1>1, <1>2 DEF RoundsInOrder
  <1> QED
    BY <1>1, <1>3 DEF OncePerRound, OfModel

(* Steps of others, while the scheduler stays where it is.                  *)
LEMMA SchedulerWaits ==
    ASSUME TypeOK, TypeOK', RoundsInOrder, OncePerRound,
           UNCHANGED <<scheduler, predictions, started>>, now <= now'
    PROVE  RoundsInOrder' /\ OncePerRound'
  <1>1. job' = job /\ Made' = Made
    BY DEF job, Made
  <1>2. /\ \A m : ToAsk(m)' <=> ToAsk(m)
        /\ InRound' <=> InRound
        /\ Alive(scheduler)' <=> Alive(scheduler)
        /\ SchedulerAt("sleeping")' <=> SchedulerAt("sleeping")
    BY <1>1 DEF ToAsk, InRound, Alive, TaskOver, SchedulerAt
  <1>3. now \in Nat /\ now' \in Nat /\ started \in Nat /\ scheduler.since \in Nat
    BY MadeTyped, ZeroIsATime DEF TypeOK
  <1>4. \A p \in Made : p.at \in Nat /\ p.of \in Nat
    BY MadeTyped
  <1>5. /\ started <= now'
        /\ \A p \in Made : p.at <= now' /\ p.of <= now'
        /\ Alive(scheduler) => scheduler.since <= now'
    BY <1>3, <1>4 DEF RoundsInOrder
  <1>6. RoundsInOrder'
    BY <1>1, <1>2, <1>5 DEF RoundsInOrder
  <1> QED
    BY <1>1, <1>6, StillOncePerRound

(* The task is over, or goes to sleep at once.                              *)
LEMMA SchedulerRests ==
    ASSUME TypeOK, TypeOK', RoundsInOrder, OncePerRound, now' = now,
           started' \in {started, now}, Made' \subseteq Made,
           \/ scheduler'.pc \in {"absent", "done"} /\ scheduler'.job = NoPrediction
           \/ scheduler' = [pc |-> "sleeping", since |-> now, job |-> NoPrediction]
    PROVE  RoundsInOrder' /\ OncePerRound'
  <1>1. job' = NoPrediction /\ ~InRound'
    BY DEF job, InRound, Alive, TaskOver
  <1>2. now \in Nat /\ started' <= now'
    BY MadeTyped DEF RoundsInOrder
  <1>3. Alive(scheduler)' \/ SchedulerAt("sleeping")' => scheduler'.since = now
    BY DEF Alive, TaskOver, SchedulerAt
  <1>4. \A p \in Made' : p.at <= now' /\ p.of <= now'
    BY DEF RoundsInOrder
  <1>5. Alive(scheduler)' => started' <= scheduler'.since /\ scheduler'.since <= now'
    BY <1>2, <1>3
  <1>6. SchedulerAt("sleeping")' =>
          \A p \in Made' : p.at <= scheduler'.since /\ p.of <= scheduler'.since
    BY <1>3, <1>4
  <1>7. RoundsInOrder'
    BY <1>1, <1>2, <1>4, <1>5, <1>6 DEF RoundsInOrder
  <1> QED
    BY <1>7, StillOncePerRound

(* The round is taken further, with the prediction in hand or without.      *)
LEMMA RoundGoesOn ==
    ASSUME TypeOK, TypeOK', RoundsInOrder, OncePerRound, InRound,
           UNCHANGED <<now, started>>, scheduler'.since = scheduler.since,
           scheduler'.pc \notin {"absent", "done", "sleeping"},
           Made' \subseteq Made, job' = job \/ job' = NoPrediction,
           \A m : ToAsk(m)' => ToAsk(m) /\ (job' = job \/ m # job.model)
    PROVE  RoundsInOrder' /\ OncePerRound'
  <1>1. /\ started <= now
        /\ \A p \in Made : p.at <= now /\ p.of <= now
        /\ started < scheduler.since /\ started <= scheduler.since /\ scheduler.since <= now
        /\ \A p \in Made : \/ p.at = scheduler.since
                           \/ p.at < scheduler.since /\ p.of < scheduler.since
    BY DEF RoundsInOrder, InRound
  <1>2. ~SchedulerAt("sleeping")'
    BY DEF SchedulerAt
  <1>3. \A p \in Made' : ToAsk(p.model)' => p.at < scheduler.since \/ p = job'
    <2> SUFFICES ASSUME NEW p \in Made', ToAsk(p.model)'
                 PROVE  p.at < scheduler.since \/ p = job'
      OBVIOUS
    <2>1. ToAsk(p.model) /\ (job' = job \/ p.model # job.model)
      OBVIOUS
    <2>2. p.at < scheduler.since \/ p = job
      BY <2>1 DEF RoundsInOrder
    <2> QED
      BY <2>1, <2>2
  <1>4. job' # NoPrediction => job'.at = scheduler.since
    BY DEF RoundsInOrder
  <1>5. RoundsInOrder'
    BY <1>1, <1>2, <1>3, <1>4 DEF RoundsInOrder
  <1> QED
    BY <1>5, StillOncePerRound

LEMMA RoundBegins ==
    ASSUME TypeOK, TypeOK', RoundsInOrder, OncePerRound, StartRound
    PROVE  RoundsInOrder' /\ OncePerRound'
  <1>1. /\ scheduler.pc = "sleeping" /\ scheduler.since < now
        /\ UNCHANGED <<now, started, predictions>>
    BY DEF StartRound, SchedulerRuns, SchedulerAt, SchedulerLeaves, process
  <1>2. PICK pc \in SchedulerPCs \ (CallPCs \cup {"absent", "done"}) :
          scheduler' = [pc |-> pc, since |-> now, job |-> NoPrediction]
    BY AfterIsNoCall DEF StartRound
  <1>3. pc # "sleeping"
    <2>1. PICK more \in SUBSET (Models \ loaded) :
            scheduler' = [pc |-> After("start", loaded'), since |-> now, job |-> NoPrediction]
      BY DEF StartRound
    <2>2. pc = After("start", loaded')
      BY <1>2, <2>1
    <2> QED
      BY <2>2 DEF After
  <1>4. job = NoPrediction /\ job' = NoPrediction
    BY <1>1, <1>2, MadeTyped DEF CallPCs, job
  <1>5. Made' = Made
    BY <1>1, <1>4 DEF Made
  <1>6. Alive(scheduler) /\ SchedulerAt("sleeping") /\ ~SchedulerAt("sleeping")'
    BY <1>1, <1>2, <1>3 DEF Alive, TaskOver, SchedulerAt
  <1>7. /\ now \in Nat /\ started \in Nat /\ scheduler.since \in Nat
        /\ \A p \in Made : p.at \in Nat /\ p.of \in Nat
    BY MadeTyped
  <1>8. \A p \in Made : p.at <= scheduler.since /\ p.of <= scheduler.since
    BY <1>6 DEF RoundsInOrder
  <1>9. /\ started < now /\ now <= now
        /\ \A p \in Made : p.at < now /\ p.of < now
    BY <1>1, <1>6, <1>7, <1>8 DEF RoundsInOrder
  <1>10. scheduler'.since = now /\ started <= now
    BY <1>2, <1>7, <1>9
  <1>11. \A p \in Made : p.at <= now /\ p.of <= now
    BY DEF RoundsInOrder
  <1>12. RoundsInOrder'
    BY <1>1, <1>4, <1>5, <1>6, <1>9, <1>10, <1>11 DEF RoundsInOrder
  <1> QED
    BY <1>5, <1>12, StillOncePerRound

(* The row or the window for the model m is being read.                     *)
Asking(m) ==
    \/ m = "congestion" /\ scheduler.pc = "querying congestion"
    \/ m = "anomaly" /\ scheduler.pc = "querying anomaly"

(* What a query tells a model about has happened, and the summary query     *)
(* tells it of the recent past only.                                        *)
HeardOf(m, of) == of <= now /\ (m = "congestion" => now <= of + RecentTicks)

(* A model has spoken: for the first time in this round, and about a time   *)
(* that has passed.                                                         *)
LEMMA ModelSpeaks ==
    ASSUME TypeOK, TypeOK', RoundsInOrder, OncePerRound,
           NEW m \in Models, NEW of \in Times, NEW is_alert \in BOOLEAN,
           Score(m, of, is_alert), UNCHANGED <<now, started, predictions>>,
           Asking(m), HeardOf(m, of)
    PROVE  RoundsInOrder' /\ OncePerRound'
  <1>1. PICK new : new = [model |-> m, at |-> scheduler.since, of |-> of, is_alert |-> is_alert]
    OBVIOUS
  <1>2. new.model = m /\ new.at = scheduler.since /\ new.of = of
    BY <1>1
  <1>3. /\ scheduler'.pc = "saving" /\ scheduler'.since = scheduler.since /\ job' = new
        /\ job = NoPrediction
    <2>1. SchedulerTyped
      BY TypeParts
    <2>2. job = NoPrediction
      BY MadeTyped DEF CallPCs, Asking
    <2> QED
      BY <1>1, <2>1, <2>2 DEF Score, SchedulerTyped, job
  <1>4. /\ InRound /\ Alive(scheduler) /\ ~SchedulerAt("sleeping")'
        /\ ToAsk(m)
        /\ \A x : ToAsk(x)' => x = "anomaly" /\ m = "congestion" /\ ToAsk(x)
    BY <1>2, <1>3 DEF InRound, Alive, TaskOver, SchedulerAt, ToAsk, Asking
  <1>5. /\ now \in Nat /\ started \in Nat /\ scheduler.since \in Nat /\ of \in Nat
        /\ RecentTicks \in Nat
        /\ \A p \in Made : p.at \in Nat /\ p.of \in Nat /\ p # NoPrediction
    BY MadeTyped, ZeroIsATime, InferenceAssumption
  <1>6. Made' \subseteq Made \cup {new}
    BY <1>3 DEF Made
  <1>7. /\ started <= now
        /\ \A p \in Made : p.at <= now /\ p.of <= now
        /\ started < scheduler.since /\ started <= scheduler.since /\ scheduler.since <= now
        /\ \A p \in Made : \/ p.at = scheduler.since
                           \/ p.at < scheduler.since /\ p.of < scheduler.since
    BY <1>4 DEF RoundsInOrder
  <1>8. \A p \in Made : ToAsk(p.model) => p.at < scheduler.since
    <2> SUFFICES ASSUME NEW p \in Made, ToAsk(p.model) PROVE p.at < scheduler.since
      OBVIOUS
    <2>1. p # job
      BY <1>3, <1>5
    <2> QED
      BY <1>4, <2>1 DEF RoundsInOrder
  <1>9. RoundsInOrder'
    <2>1. \A p \in Made' : p.at <= now /\ p.of <= now
      BY <1>2, <1>6, <1>7 DEF HeardOf
    <2>2. \A p \in Made' : \/ p.at = scheduler.since
                           \/ p.at < scheduler.since /\ p.of < scheduler.since
      BY <1>2, <1>6, <1>7
    <2>3. \A p \in Made' : ToAsk(p.model)' => p.at < scheduler.since \/ p = job'
      BY <1>3, <1>4, <1>6, <1>8
    <2>4. job'.at = scheduler.since
      BY <1>2, <1>3
    <2> QED
      BY <1>3, <1>4, <1>7, <2>1, <2>2, <2>3, <2>4 DEF RoundsInOrder
  <1>10. \A p, q \in Made' : p.at < q.at => p.of < q.at
    <2> SUFFICES ASSUME NEW p \in Made', NEW q \in Made', p.at < q.at
                 PROVE  p.of < q.at
      OBVIOUS
    <2>1. CASE p \in Made /\ q \in Made
      BY <2>1 DEF OncePerRound
    <2>2. CASE p \in Made /\ q = new
      <3>1. q.at = scheduler.since
        BY <1>2, <2>2
      <3>2. p.at \in Nat /\ p.of \in Nat /\ scheduler.since \in Nat
        BY <1>5, <2>2
      <3>3. p.at = scheduler.since \/ p.of < scheduler.since
        BY <1>7, <2>2
      <3> QED
        BY <3>1, <3>2, <3>3
    <2>3. CASE p = new /\ q \in Made
      <3>1. p.at = scheduler.since
        BY <1>2, <2>3
      <3>2. q.at \in Nat /\ scheduler.since \in Nat
        BY <1>5, <2>3
      <3>3. q.at = scheduler.since \/ q.at < scheduler.since
        BY <1>7, <2>3
      <3> QED
        BY <3>1, <3>2, <3>3
    <2>4. CASE p = new /\ q = new
      <3>1. p.at = scheduler.since /\ q.at = scheduler.since
        BY <1>2, <2>4
      <3>2. scheduler.since \in Nat
        BY <1>5
      <3> QED
        BY <3>1, <3>2
    <2> QED
      BY <1>6, <2>1, <2>2, <2>3, <2>4
  <1>11. \A p, q \in Made' : p.model = q.model /\ p.at = q.at => p = q
    <2> SUFFICES ASSUME NEW p \in Made', NEW q \in Made', p.model = q.model, p.at = q.at
                 PROVE  p = q
      OBVIOUS
    <2>1. CASE p \in Made /\ q \in Made
      BY <2>1 DEF OncePerRound
    <2>2. \A x \in Made : ~(x.model = m /\ x.at = scheduler.since)
      <3> SUFFICES ASSUME NEW x \in Made, x.model = m, x.at = scheduler.since
                   PROVE  FALSE
        OBVIOUS
      <3>1. ToAsk(x.model)
        BY <1>4
      <3>2. x.at < scheduler.since /\ x.at \in Nat /\ scheduler.since \in Nat
        BY <1>5, <1>8, <3>1
      <3> QED
        BY <3>2
    <2>3. CASE p = new /\ q \in Made
      <3>1. q.model = m /\ q.at = scheduler.since
        BY <1>2, <2>3
      <3> QED
        BY <2>2, <2>3, <3>1
    <2>4. CASE p \in Made /\ q = new
      <3>1. p.model = m /\ p.at = scheduler.since
        BY <1>2, <2>4
      <3> QED
        BY <2>2, <2>4, <3>1
    <2> QED
      BY <1>6, <2>1, <2>3, <2>4
  <1>12. \A p \in Made' : p.model = "congestion" => p.at <= p.of + RecentTicks
    <2>1. m = "congestion" => scheduler.since <= of + RecentTicks
      BY <1>5, <1>7 DEF HeardOf
    <2>2. \A p \in Made : p.model = "congestion" => p.at <= p.of + RecentTicks
      BY DEF OncePerRound, OfModel
    <2>3. new.model = "congestion" => new.at <= new.of + RecentTicks
      BY <1>2, <2>1
    <2> QED
      BY <1>6, <2>2, <2>3
  <1> QED
    BY <1>9, <1>10, <1>11, <1>12 DEF OncePerRound, OfModel

(* A model has had its turn: what it was asked for it is not asked again.   *)
LEMMA TurnTaken ==
    ASSUME TypeOK, TypeOK', RoundsInOrder, OncePerRound,
           NEW m \in Models, NextModel(m), UNCHANGED <<now, started>>,
           Asking(m) \/ (scheduler.pc \in CallPCs /\ job.model = m),
           predictions' \subseteq predictions \cup {job},
           job = NoPrediction => predictions' = predictions
    PROVE  RoundsInOrder' /\ OncePerRound'
  <1>1. /\ scheduler'.pc = After(m, loaded) /\ scheduler'.since = scheduler.since
        /\ job' = NoPrediction
    <2>1. SchedulerTyped
      BY TypeParts
    <2> QED
      BY <2>1 DEF NextModel, Ask, SchedulerTyped, job
  <1>2. scheduler'.pc \in {"querying congestion", "querying anomaly", "ruling"}
    BY <1>1 DEF After
  <1>3. InRound
    BY DEF InRound, Alive, TaskOver, Asking, CallPCs
  <1>4. Made' \subseteq Made
    BY <1>1, MadeKept
  <1>5. \A x : ToAsk(x)' => ToAsk(x) /\ (job' = job \/ x # job.model)
    <2> SUFFICES ASSUME NEW x, ToAsk(x)'
                 PROVE  ToAsk(x) /\ (job' = job \/ x # job.model)
      OBVIOUS
    <2>1. job'.model = "none"
      BY <1>1 DEF NoPrediction
    <2>2. m # "anomaly" /\ scheduler'.pc = "querying anomaly" /\ x = "anomaly"
      <3>1. scheduler'.pc # "querying congestion" /\ (m = "anomaly" => scheduler'.pc = "ruling")
        BY <1>1 DEF After, Models
      <3> QED
        BY <2>1, <3>1 DEF ToAsk
    <2>3. m = "congestion"
      BY <2>2 DEF Models
    <2>4. CASE Asking(m)
      <3>1. job = NoPrediction
        BY <2>3, <2>4, MadeTyped DEF Asking, CallPCs
      <3> QED
        BY <1>1, <2>2, <2>3, <2>4, <3>1 DEF Asking, ToAsk
    <2>5. CASE scheduler.pc \in CallPCs /\ job.model = m
      BY <2>2, <2>3, <2>5 DEF ToAsk
    <2> QED
      BY <2>4, <2>5
  <1> QED
    BY <1>1, <1>2, <1>3, <1>4, <1>5, RoundGoesOn

LEMMA QueriesInOrder ==
    ASSUME TypeOK, TypeOK', RowsInOrder, RoundsInOrder, OncePerRound, QuerySummary \/ QueryWindow
    PROVE  RoundsInOrder' /\ OncePerRound'
  <1>1. /\ UNCHANGED <<now, started, predictions>>
        /\ AggregatorTyped /\ LifespanTyped
    BY TypeParts DEF QuerySummary, QueryWindow, SchedulerLeaves, process
  <1>2. CASE QuerySummary
    <2>1. Asking("congestion") /\ "congestion" \in Models
      BY <1>2 DEF QuerySummary, SchedulerRuns, SchedulerAt, Asking, Models
    <2>2. ASSUME NothingToScore("congestion", RecentTicks)
          PROVE  RoundsInOrder' /\ OncePerRound'
      BY <1>1, <2>1, <2>2, TurnTaken DEF NothingToScore
    <2>3. ASSUME InRange(RecentTicks) # <<>>,
                 Score("congestion", rows[Len(rows)].time, rows[Len(rows)].high)
          PROVE  RoundsInOrder' /\ OncePerRound'
      <3>1. Older(RecentTicks) \in 0 .. Len(rows) /\ Older(RecentTicks) < Len(rows)
        BY <1>1, <2>3, RangeTyped, InferenceAssumption
      <3>2. Len(rows) \in DOMAIN rows
        BY <1>1, <3>1, RowsTyped
      <3>3. rows[Len(rows)].time \in Times /\ rows[Len(rows)].high \in BOOLEAN
        BY <1>1, <3>2, RowsTyped
      <3>4. HeardOf("congestion", rows[Len(rows)].time)
        BY <2>3, <3>2, RangeBounded, InferenceAssumption DEF HeardOf, RowsInOrder
      <3> QED
        BY <1>1, <2>1, <2>3, <3>3, <3>4, ModelSpeaks
    <2> QED
      BY <1>2, <2>2, <2>3 DEF QuerySummary
  <1>3. CASE QueryWindow
    <2>1. Asking("anomaly") /\ "anomaly" \in Models
      BY <1>3 DEF QueryWindow, SchedulerRuns, SchedulerAt, Asking, Models
    <2>2. ASSUME NothingToScore("anomaly", WindowTicks)
          PROVE  RoundsInOrder' /\ OncePerRound'
      BY <1>1, <2>1, <2>2, TurnTaken DEF NothingToScore
    <2>3. ASSUME InRange(WindowTicks) # <<>>, NEW is_anomaly \in Verdicts,
                 Score("anomaly", Window[SeqLen].time, is_anomaly)
          PROVE  RoundsInOrder' /\ OncePerRound'
      <3>1. PICK i \in DOMAIN rows : Window[SeqLen] = rows[i]
        BY <1>1, <2>3, LastOfWindow
      <3>2. Window[SeqLen].time \in Times /\ is_anomaly \in BOOLEAN
        BY <1>1, <3>1, RowsTyped, InferenceAssumption
      <3>3. HeardOf("anomaly", Window[SeqLen].time)
        BY <3>1 DEF HeardOf, RowsInOrder
      <3> QED
        BY <1>1, <2>1, <2>3, <3>2, <3>3, ModelSpeaks
    <2> QED
      BY <1>3, <2>2, <2>3 DEF QueryWindow
  <1> QED
    BY <1>2, <1>3

LEMMA CallsInOrder ==
    ASSUME TypeOK, TypeOK', RoundsInOrder, OncePerRound,
           SavePrediction \/ PublishPrediction \/ CreateAlert \/ AnnounceAlert
    PROVE  RoundsInOrder' /\ OncePerRound'
  <1>1. /\ UNCHANGED <<now, started>>
        /\ scheduler.pc \in CallPCs
        /\ predictions' \subseteq predictions \cup {job}
    BY DEF SavePrediction, PublishPrediction, CreateAlert, AnnounceAlert, SchedulerLeaves,
           process, SchedulerRuns, SchedulerAt, CallPCs, Add
  <1>2. job # NoPrediction /\ job.model \in Models /\ scheduler.pc \notin {"absent", "done"}
    BY <1>1, MadeTyped DEF CallPCs
  <1>3. CASE NextModel(job.model)
    BY <1>1, <1>2, <1>3, TurnTaken
  <1>4. ASSUME NEW pc \in CallPCs, SchedulerTo(pc)
        PROVE  RoundsInOrder' /\ OncePerRound'
    <2>1. scheduler'.pc = pc /\ scheduler'.since = scheduler.since /\ job' = job
      <3>1. SchedulerTyped
        BY TypeParts
      <3> QED
        BY <1>4, <3>1 DEF SchedulerTo, SchedulerTyped, job
    <2>2. Made' \subseteq Made
      BY <1>1, <1>2, <2>1, MadeKept
    <2>3. InRound
      BY <1>1 DEF InRound, Alive, TaskOver, CallPCs
    <2>4. \A x : ToAsk(x)' => ToAsk(x)
      BY <2>1 DEF ToAsk, CallPCs
    <2> QED
      BY <1>1, <2>1, <2>2, <2>3, <2>4, RoundGoesOn DEF CallPCs
  <1> QED
    BY <1>3, <1>4 DEF SavePrediction, PublishPrediction, CreateAlert, AnnounceAlert, CallPCs

LEMMA EndsInOrder ==
    ASSUME TypeOK, TypeOK', IInv, RoundsInOrder, OncePerRound,
           EvaluateRules \/ CancelScheduler \/ Crash \/ CloseRedis \/ StartUp
    PROVE  RoundsInOrder' /\ OncePerRound'
  <1>1. now' = now /\ started' \in {started, now}
    BY DEF EvaluateRules, CancelScheduler, Crash, CloseRedis, StartUp, SchedulerLeaves,
           LifespanLeaves, process
  <1>2. \/ scheduler'.pc \in {"absent", "done"} /\ scheduler'.job = NoPrediction
        \/ scheduler' = [pc |-> "sleeping", since |-> now, job |-> NoPrediction]
    <2>1. CASE CancelScheduler
      <3>1. SchedulerTyped
        BY TypeParts
      <3> QED
        BY <2>1, <3>1 DEF CancelScheduler, Ask, SchedulerTyped
    <2> QED
      BY <2>1 DEF EvaluateRules, Crash, CloseRedis, StartUp, AbsentScheduler
  <1>3. /\ predictions' \subseteq predictions \cup {job}
        /\ job = NoPrediction => predictions' = predictions
    <2>1. SchedulerAt("saving") => job # NoPrediction
      BY MadeTyped DEF SchedulerAt, CallPCs
    <2> QED
      BY <2>1 DEF EvaluateRules, CancelScheduler, Crash, CloseRedis, StartUp, LifespanLeaves,
                  tables
  <1>4. Made' \subseteq Made
    <2>1. job' = NoPrediction
      BY <1>2 DEF job
    <2> QED
      BY <1>3, <2>1, MadeKept
  <1> QED
    BY <1>1, <1>2, <1>4, SchedulerRests

LEMMA StepRounds ==
    ASSUME TypeOK, TypeOK', IInv, RowsInOrder, RoundsInOrder, OncePerRound, [Next]_vars
    PROVE  RoundsInOrder' /\ OncePerRound'
  <1>1. CASE Tick \/ ShutDown \/ InferenceStopped \/ AggregationStopped \/ AggregatorStep
               \/ UNCHANGED vars
    <2>1. UNCHANGED <<scheduler, predictions, started>>
      BY <1>1 DEF Tick, ShutDown, InferenceStopped, AggregationStopped, AggregatorStep, Aggregate,
                  PublishFeatures, EndBackoff, CancelAggregator, AggregatorLeaves,
                  LifespanLeaves, tables, process, vars
    <2>2. now \in Nat /\ now' \in {now, now + 1}
      BY <1>1, MadeTyped DEF Tick, ShutDown, InferenceStopped, AggregationStopped,
                  AggregatorStep, Aggregate, PublishFeatures, EndBackoff, CancelAggregator,
                  AggregatorLeaves, LifespanLeaves, vars
    <2> QED
      BY <2>1, <2>2, SchedulerWaits
  <1>2. CASE SchedulerStep
    BY <1>2, RoundBegins, QueriesInOrder, CallsInOrder, EndsInOrder DEF SchedulerStep, RoundStep
  <1>3. CASE Crash \/ CloseRedis \/ StartUp
    BY <1>3, EndsInOrder
  <1> QED
    BY <1>1, <1>2, <1>3 DEF Next, LifespanStep

(* The congestion alerts of one row belong to rounds that began in          *)
(* different intervals: at most one before the row was written, the others  *)
(* while it was recent.                                                     *)
LEMMA AlertsPerRow ==
    ASSUME TypeOK, IInv, OncePerRound, NEW t \in Times
    PROVE  Cardinality({a \in OfModel(alerts, "congestion") : a.of = t}) <= RecentTicks + 1
  <1> DEFINE its == {a \in OfModel(alerts, "congestion") : a.of = t}
             place == [a \in its |-> IF a.at <= t THEN 0 ELSE a.at - t]
  <1>1. t \in Nat /\ RecentTicks \in Nat
    BY ZeroIsATime, InferenceAssumption
  <1>2. \A a \in its : /\ a \in Made /\ a.model = "congestion" /\ a.of = t
                       /\ a.at \in Nat /\ a.at <= t + RecentTicks
    <2>1. alerts \subseteq Made
      BY DEF IInv, AlertsRestOnPredictions, Made
    <2>2. \A a \in its : a \in Made /\ a.model = "congestion" /\ a.of = t
      BY <2>1 DEF OfModel
    <2> QED
      BY <2>2, MadeTyped DEF OncePerRound, OfModel
  <1> HIDE DEF its
  <1>3. \A a \in its : place[a] \in 0 .. RecentTicks
    BY <1>1, <1>2
  <1>4. \A a, b \in its : place[a] = place[b] => a = b
    <2> SUFFICES ASSUME NEW a \in its, NEW b \in its, place[a] = place[b] PROVE a = b
      OBVIOUS
    <2>1. /\ a \in Made /\ b \in Made /\ a.model = b.model /\ a.of = t /\ b.of = t
          /\ a.at \in Nat /\ b.at \in Nat
      BY <1>2
    <2>2. /\ place[a] = IF a.at <= t THEN 0 ELSE a.at - t
          /\ place[b] = IF b.at <= t THEN 0 ELSE b.at - t
      OBVIOUS
    <2>3. (a.at <= t /\ b.at <= t) \/ a.at = b.at
      BY <1>1, <2>1, <2>2
    <2>4. (a.at < b.at => t < b.at) /\ (b.at < a.at => t < a.at)
      BY <2>1 DEF OncePerRound
    <2>5. a.at = b.at
      BY <1>1, <2>1, <2>3, <2>4
    <2> QED
      BY <2>1, <2>5 DEF OncePerRound
  <1>5. place \in [its -> 0 .. RecentTicks]
    BY <1>3
  <1> HIDE DEF place
  <1>6. place \in Injection(its, 0 .. RecentTicks)
    BY <1>4, <1>5 DEF Injection, IsInjective
  <1>7. IsFiniteSet(0 .. RecentTicks) /\ Cardinality(0 .. RecentTicks) = RecentTicks + 1
    <2>1. 0 \in Int /\ RecentTicks \in Int /\ ~(0 > RecentTicks)
          /\ RecentTicks - 0 + 1 = RecentTicks + 1
      BY <1>1
    <2> QED
      BY <2>1, FS_Interval
  <1>8. Cardinality(its) <= RecentTicks + 1
    BY <1>6, <1>7, FS_Injection
  <1> QED
    BY <1>8 DEF its

-----------------------------------------------------------------------------
(* The counter.                                                             *)

Mine(m) == {p \in OfModel(published, m) : p.at > started /\ p # job}

LEMMA CounterMeaning ==
    CounterCountsPublished <=>
      \A m \in Models : lifespan # "down" =>
        /\ predictions_made_total[m] <= Cardinality(Mine(m))
        /\ predictions_made_total[m] >= Cardinality(Mine(m) \ HitPredictions)
  <1>1. \A m : Mine(m) \ (Mine(m) \cap HitPredictions) = Mine(m) \ HitPredictions
    OBVIOUS
  <1> QED
    BY <1>1 DEF CounterCountsPublished, Mine

LEMMA CounterMeaningPrimed ==
    ASSUME \A m \in Models : lifespan' # "down" =>
             /\ predictions_made_total'[m] <= Cardinality(Mine(m)')
             /\ predictions_made_total'[m] >= Cardinality(Mine(m)' \ HitPredictions')
    PROVE  CounterCountsPublished'
  <1>1. \A m : Mine(m)' \ (Mine(m)' \cap HitPredictions') = Mine(m)' \ HitPredictions'
    OBVIOUS
  <1> QED
    BY <1>1 DEF CounterCountsPublished, Mine

(* Nothing is counted, and what may be missing was hit.                     *)
LEMMA NotCounted ==
    ASSUME NEW c \in Nat, NEW A, NEW B, IsFiniteSet(B), A \subseteq B,
           NEW H, NEW K, B \ K \subseteq A \ H,
           c <= Cardinality(A), c >= Cardinality(A \ H)
    PROVE  c <= Cardinality(B) /\ c >= Cardinality(B \ K)
  <1>1. /\ IsFiniteSet(A) /\ Cardinality(A) \in Nat /\ Cardinality(B) \in Nat
        /\ Cardinality(A) <= Cardinality(B)
    BY FS_Subset, FS_CardinalityType
  <1>2. A \ H \in SUBSET A /\ B \ K \in SUBSET (A \ H)
    OBVIOUS
  <1>3. IsFiniteSet(A \ H) /\ Cardinality(A \ H) \in Nat
    BY <1>1, <1>2, FS_Subset, FS_CardinalityType
  <1>4. /\ IsFiniteSet(B \ K) /\ Cardinality(B \ K) <= Cardinality(A \ H)
        /\ Cardinality(B \ K) \in Nat
    BY <1>2, <1>3, FS_Subset, FS_CardinalityType
  <1> QED
    BY <1>1, <1>3, <1>4

(* One more is counted.                                                     *)
LEMMA OneCounted ==
    ASSUME NEW c \in Nat, NEW A, IsFiniteSet(A), NEW x, x \notin A,
           NEW H, NEW K, H \subseteq K,
           c <= Cardinality(A), c >= Cardinality(A \ H)
    PROVE  /\ c + 1 <= Cardinality(A \cup {x})
           /\ c + 1 >= Cardinality((A \cup {x}) \ K)
  <1>1. Cardinality(A \cup {x}) = Cardinality(A) + 1 /\ Cardinality(A) \in Nat
    BY FS_AddElement, FS_CardinalityType
  <1>2. A \ H \in SUBSET A /\ (A \cup {x}) \ K \in SUBSET ((A \ H) \cup {x})
    OBVIOUS
  <1>3. IsFiniteSet(A \ H) /\ Cardinality(A \ H) \in Nat
    BY <1>2, FS_Subset, FS_CardinalityType
  <1>4. x \notin A \ H
    OBVIOUS
  <1>5. IsFiniteSet((A \ H) \cup {x}) /\ Cardinality((A \ H) \cup {x}) = Cardinality(A \ H) + 1
    BY <1>3, <1>4, FS_AddElement
  <1>6. /\ Cardinality((A \cup {x}) \ K) <= Cardinality(A \ H) + 1
        /\ Cardinality((A \cup {x}) \ K) \in Nat
    BY <1>2, <1>5, FS_Subset, FS_CardinalityType
  <1> QED
    BY <1>1, <1>3, <1>6

LEMMA InitCounter == Init => NotYetPublished /\ CounterCountsPublished
  BY FS_EmptySet DEF Init, NotYetPublished, CounterCountsPublished, AbsentScheduler

LEMMA MineFinite ==
    ASSUME NEW S, IsFiniteSet(S), NEW m, NEW T, T \in SUBSET OfModel(S, m)
    PROVE  IsFiniteSet(T)
  <1>1. T \in SUBSET S
    BY DEF OfModel
  <1> QED
    BY <1>1, FS_Subset

(* A step that counts nothing.                                              *)
LEMMA CounterLeft ==
    ASSUME TypeOK, CounterCountsPublished, IsFiniteSet(published'),
           predictions_made_total' = predictions_made_total,
           lifespan' # "down" => lifespan # "down",
           \A m : Mine(m) \subseteq Mine(m)',
           \A m : Mine(m)' \ HitPredictions' \subseteq Mine(m) \ HitPredictions
    PROVE  CounterCountsPublished'
  <1> SUFFICES ASSUME NEW m \in Models, lifespan' # "down"
               PROVE  /\ predictions_made_total[m] <= Cardinality(Mine(m)')
                      /\ predictions_made_total[m] >= Cardinality(Mine(m)' \ HitPredictions')
    BY CounterMeaningPrimed
  <1>1. predictions_made_total[m] \in Nat
    BY DEF TypeOK
  <1>2. /\ predictions_made_total[m] <= Cardinality(Mine(m))
        /\ predictions_made_total[m] >= Cardinality(Mine(m) \ HitPredictions)
    BY CounterMeaning
  <1>3. IsFiniteSet(Mine(m)')
    <2>1. Mine(m)' \in SUBSET OfModel(published', m)
      BY DEF Mine, OfModel
    <2> QED
      BY <2>1, MineFinite
  <1> QED
    BY <1>1, <1>2, <1>3, NotCounted

(* A step that publishes nothing, but for the prediction that it keeps in   *)
(* hand.                                                                    *)
LEMMA NothingNew ==
    ASSUME TypeOK, CounterCountsPublished, IsFiniteSet(published'),
           UNCHANGED <<predictions_made_total, started, hit>>,
           lifespan' # "down" => lifespan # "down",
           \/ published' = published /\ job \notin published /\ job' \notin published
           \/ job' = job /\ published \subseteq published' /\ published' \subseteq published \cup {job}
    PROVE  CounterCountsPublished'
  <1>1. \A m : Mine(m)' = Mine(m) /\ HitPredictions' = HitPredictions
    BY DEF Mine, OfModel, HitPredictions
  <1> QED
    BY <1>1, CounterLeft

(* The call for the prediction in hand was hit, and the prediction let go.  *)
LEMMA HitNotCounted ==
    ASSUME TypeOK, CounterCountsPublished, IsFiniteSet(published'), job # NoPrediction,
           job' = NoPrediction, Hit, NoPrediction \notin published,
           UNCHANGED <<predictions_made_total, started, lifespan>>,
           published \subseteq published', published' \subseteq published \cup {job}
    PROVE  CounterCountsPublished'
  <1>1. job \in HitPredictions' /\ HitPredictions \subseteq HitPredictions'
    <2>1. <<job, scheduler.pc>> \in hit' /\ <<job, scheduler.pc>>[1] = job /\ hit \subseteq hit'
      BY DEF Hit, Add
    <2> QED
      BY <2>1 DEF HitPredictions
  <1>2. \A m : Mine(m) \subseteq Mine(m)' /\ Mine(m)' \subseteq Mine(m) \cup {job}
    BY DEF Mine, OfModel
  <1>3. \A m : Mine(m)' \ HitPredictions' \subseteq Mine(m) \ HitPredictions
    BY <1>1, <1>2
  <1> QED
    BY <1>2, <1>3, CounterLeft

(* The block of the prediction in hand has come to its end.                 *)
LEMMA BlockCounted ==
    ASSUME TypeOK, CounterCountsPublished, IsFiniteSet(published), job # NoPrediction,
           job' = NoPrediction, Count, NoPrediction \notin published, job.at > started,
           UNCHANGED <<started, lifespan>>, published' = published \cup {job},
           hit \subseteq hit'
    PROVE  CounterCountsPublished'
  <1>1. HitPredictions \subseteq HitPredictions'
    BY DEF HitPredictions
  <1>2. ASSUME NEW m
        PROVE  /\ m = job.model => Mine(m)' = Mine(m) \cup {job} /\ job \notin Mine(m)
               /\ m # job.model => Mine(m)' = Mine(m)
    BY DEF Mine, OfModel
  <1>3. predictions_made_total \in [Models -> Nat]
    BY DEF TypeOK
  <1> SUFFICES ASSUME NEW m \in Models, lifespan' # "down"
               PROVE  /\ predictions_made_total'[m] <= Cardinality(Mine(m)')
                      /\ predictions_made_total'[m] >= Cardinality(Mine(m)' \ HitPredictions')
    BY CounterMeaningPrimed
  <1>4. /\ predictions_made_total[m] <= Cardinality(Mine(m))
        /\ predictions_made_total[m] >= Cardinality(Mine(m) \ HitPredictions)
        /\ predictions_made_total[m] \in Nat
    BY <1>3, CounterMeaning
  <1>5. IsFiniteSet(Mine(m))
    <2>1. Mine(m) \in SUBSET OfModel(published, m)
      BY DEF Mine, OfModel
    <2> QED
      BY <2>1, MineFinite
  <1>6. CASE m = job.model
    <2>1. predictions_made_total'[m] = predictions_made_total[m] + 1
      BY <1>3, <1>6 DEF Count
    <2>2. Mine(m)' = Mine(m) \cup {job} /\ job \notin Mine(m)
      BY <1>2, <1>6
    <2>3. /\ predictions_made_total[m] + 1 <= Cardinality(Mine(m) \cup {job})
          /\ predictions_made_total[m] + 1 >= Cardinality((Mine(m) \cup {job}) \ HitPredictions')
      BY <1>1, <1>4, <1>5, <2>2, OneCounted
    <2> QED
      BY <2>1, <2>2, <2>3
  <1>7. CASE m # job.model
    <2>1. predictions_made_total'[m] = predictions_made_total[m]
      BY <1>3, <1>7 DEF Count
    <2>2. Mine(m)' = Mine(m) /\ Mine(m)' \ HitPredictions' \subseteq Mine(m) \ HitPredictions
      BY <1>1, <1>2, <1>7
    <2> QED
      BY <1>4, <1>5, <2>1, <2>2, NotCounted
  <1> QED
    BY <1>6, <1>7

LEMMA PublishedAreSome ==
    ASSUME TypeOK
    PROVE  NoPrediction \notin published
  BY PredictionsAreSome DEF TypeOK

(* Steps that leave the scheduler's hands and the channel alone.            *)
LEMMA QuietForCounter ==
    ASSUME TypeOK, NotYetPublished, CounterCountsPublished,
           UNCHANGED <<published, hit, predictions_made_total, started>>, job' = job,
           lifespan' # "down" => lifespan # "down",
           scheduler' = scheduler \/ scheduler'.pc \notin {"saving", "publishing"}
    PROVE  NotYetPublished' /\ CounterCountsPublished'
  <1>1. NotYetPublished'
    BY DEF NotYetPublished
  <1> QED
    BY <1>1, NothingNew DEF NotYetPublished

(* What a model has just said was never published.                          *)
LEMMA SpokenForCounter ==
    ASSUME TypeOK, IInv, RoundsInOrder, NotYetPublished, CounterCountsPublished,
           NEW m \in Models, NEW of, NEW is_alert, Score(m, of, is_alert), Asking(m),
           UNCHANGED <<published, hit, predictions_made_total, started, lifespan>>
    PROVE  NotYetPublished' /\ CounterCountsPublished'
  <1>1. /\ job' = [model |-> m, at |-> scheduler.since, of |-> of, is_alert |-> is_alert]
        /\ job = NoPrediction
    <2>1. SchedulerTyped
      BY TypeParts
    <2>2. job = NoPrediction
      BY MadeTyped DEF CallPCs, Asking
    <2> QED
      BY <2>1, <2>2 DEF Score, SchedulerTyped, job
  <1>2. job' \notin published
    <2> SUFFICES ASSUME job' \in published PROVE FALSE
      OBVIOUS
    <2>1. job' \in Made
      BY DEF IInv, AlertsRestOnPredictions, Made
    <2>2. job'.model = m /\ job'.at = scheduler.since
      BY <1>1
    <2>3. ToAsk(m) /\ InRound /\ job' # job /\ scheduler.since \in Nat
      BY <1>1, <2>1, MadeTyped DEF Asking, ToAsk, InRound, Alive, TaskOver
    <2>4. job'.at < scheduler.since
      BY <2>1, <2>2, <2>3 DEF RoundsInOrder
    <2> QED
      BY <2>2, <2>3, <2>4
  <1>3. NotYetPublished'
    BY <1>2 DEF NotYetPublished
  <1> QED
    BY <1>1, <1>2, <1>3, PublishedAreSome, NothingNew DEF NotYetPublished

LEMMA CallsForCounter ==
    ASSUME TypeOK, IInv, RoundsInOrder, NotYetPublished, CounterCountsPublished,
           SavePrediction \/ PublishPrediction \/ CreateAlert \/ AnnounceAlert
    PROVE  NotYetPublished' /\ CounterCountsPublished'
  <1>1. UNCHANGED <<started, lifespan>> /\ scheduler.pc \in CallPCs
    BY DEF SavePrediction, PublishPrediction, CreateAlert, AnnounceAlert, SchedulerLeaves,
           process, SchedulerRuns, SchedulerAt, CallPCs
  <1>2. job # NoPrediction /\ NoPrediction \notin published
    BY <1>1, MadeTyped, PublishedAreSome
  <1>3. job.at > started
    <2>1. started < scheduler.since /\ job.at = scheduler.since
      BY <1>1, <1>2 DEF RoundsInOrder, InRound, Alive, TaskOver, CallPCs
    <2> QED
      BY <2>1, MadeTyped
  <1>4. SchedulerShape /\ IsFiniteSet(published) /\ IsFiniteSet(published \cup {job})
    BY FS_AddElement DEF IInv, NotYetPublished
  <1>5. ASSUME NextModel(job.model)
        PROVE  job' = NoPrediction /\ scheduler'.pc \notin {"saving", "publishing"}
    BY <1>4, <1>5, NextModelEffect DEF CallPCs
  (* The block goes on.                                                     *)
  <1>6. ASSUME NEW pc \in {"publishing", "alerting", "announcing"}, SchedulerTo(pc),
               published' = published \/ (pc # "publishing" /\ published' = published \cup {job}),
               pc = "publishing" => job \notin published,
               UNCHANGED <<predictions_made_total, hit>>
        PROVE  NotYetPublished' /\ CounterCountsPublished'
    <2>1. job' = job /\ scheduler'.pc = pc
      <3>1. pc \in SchedulerPCs
        BY <1>6 DEF SchedulerPCs, CallPCs
      <3>2. /\ scheduler' = [pc |-> pc, since |-> scheduler.since, job |-> scheduler.job]
            /\ job' = job
        BY <1>4, <1>6, <3>1, SchedulerEdits
      <3> QED
        BY <3>2
    <2>2. NotYetPublished'
      BY <1>4, <1>6, <2>1 DEF NotYetPublished
    <2> QED
      BY <1>1, <1>4, <1>6, <2>1, <2>2, NothingNew
  (* The block is left because of a failure.                                *)
  <1>7. ASSUME NextModel(job.model), Hit, UNCHANGED predictions_made_total,
               published' = published \/ published' = published \cup {job}
        PROVE  NotYetPublished' /\ CounterCountsPublished'
    <2>1. NotYetPublished'
      BY <1>4, <1>5, <1>7 DEF NotYetPublished
    <2> QED
      BY <1>1, <1>2, <1>4, <1>5, <1>7, <2>1, HitNotCounted
  (* The block is counted.                                                  *)
  <1>8. ASSUME NextModel(job.model), Count, published' = published \cup {job}, hit \subseteq hit'
        PROVE  NotYetPublished' /\ CounterCountsPublished'
    <2>1. NotYetPublished'
      BY <1>4, <1>5, <1>8 DEF NotYetPublished
    <2> QED
      BY <1>1, <1>2, <1>3, <1>4, <1>5, <1>8, <2>1, BlockCounted
  <1>9. CASE SavePrediction
    <2>1. job \notin published /\ published' = published /\ UNCHANGED predictions_made_total
      BY <1>9 DEF SavePrediction, SchedulerRuns, SchedulerAt, NotYetPublished
    <2>2. (SchedulerTo("publishing") /\ hit' = hit) \/ (NextModel(job.model) /\ Hit)
      BY <1>9 DEF SavePrediction
    <2> QED
      BY <1>6, <1>7, <2>1, <2>2
  <1>10. CASE PublishPrediction
    <2>1. \/ /\ published' = published \cup {job} /\ hit' = hit
             /\ \/ SchedulerTo("alerting") /\ UNCHANGED predictions_made_total
                \/ NextModel(job.model) /\ Count
          \/ /\ published' = published \/ published' = published \cup {job}
             /\ NextModel(job.model) /\ Hit /\ UNCHANGED predictions_made_total
      BY <1>10 DEF PublishPrediction, Add
    <2> QED
      BY <1>6, <1>7, <1>8, <2>1
  <1>11. CASE CreateAlert
    <2>1. job \in published /\ published' = published
      BY <1>11 DEF CreateAlert, SchedulerRuns, SchedulerAt, IInv, JobProgress
    <2>2. \/ SchedulerTo("announcing") /\ hit' = hit /\ UNCHANGED predictions_made_total
          \/ NextModel(job.model) /\ Count /\ hit \subseteq hit'
      BY <1>11 DEF CreateAlert, Hit, Add
    <2>3. published \cup {job} = published
      BY <2>1
    <2> QED
      BY <1>6, <1>8, <2>1, <2>2, <2>3
  <1>12. CASE AnnounceAlert
    <2>1. job \in published /\ published' = published
      BY <1>12 DEF AnnounceAlert, SchedulerRuns, SchedulerAt, IInv, JobProgress,
                   AlertsRestOnPredictions
    <2>2. NextModel(job.model) /\ Count /\ hit \subseteq hit'
      BY <1>12 DEF AnnounceAlert, Hit, Add
    <2>3. published \cup {job} = published
      BY <2>1
    <2> QED
      BY <1>8, <2>1, <2>2, <2>3
  <1> QED
    BY <1>9, <1>10, <1>11, <1>12

LEMMA QueriesForCounter ==
    ASSUME TypeOK, IInv, RoundsInOrder, NotYetPublished, CounterCountsPublished,
           StartRound \/ QuerySummary \/ QueryWindow \/ EvaluateRules
    PROVE  NotYetPublished' /\ CounterCountsPublished'
  <1>1. /\ UNCHANGED <<published, hit, predictions_made_total, started, lifespan>>
        /\ SchedulerShape
    BY DEF StartRound, QuerySummary, QueryWindow, EvaluateRules, SchedulerLeaves, process,
           histories, IInv
  <1>2. job = NoPrediction
    BY MadeTyped DEF StartRound, QuerySummary, QueryWindow, EvaluateRules, SchedulerRuns,
                     SchedulerAt, CallPCs
  <1>3. ASSUME job' = NoPrediction, scheduler'.pc \notin {"saving", "publishing"}
        PROVE  NotYetPublished' /\ CounterCountsPublished'
    BY <1>1, <1>2, <1>3, QuietForCounter
  <1>4. CASE StartRound
    <2>1. PICK pc \in SchedulerPCs \ CallPCs :
            scheduler' = [pc |-> pc, since |-> now, job |-> NoPrediction]
      BY <1>4, AfterIsNoCall DEF StartRound
    <2>2. job' = NoPrediction /\ scheduler'.pc \notin {"saving", "publishing"}
      BY <2>1 DEF job, CallPCs
    <2> QED
      BY <1>3, <2>2
  <1>5. CASE EvaluateRules
    <2>1. job' = NoPrediction /\ scheduler'.pc \notin {"saving", "publishing"}
      BY <1>5 DEF EvaluateRules, job
    <2> QED
      BY <1>3, <2>1
  <1>6. ASSUME NEW m, NextModel(m)
        PROVE  NotYetPublished' /\ CounterCountsPublished'
    <2>1. job' = NoPrediction /\ scheduler'.pc \notin {"saving", "publishing"}
      BY <1>1, <1>6, NextModelEffect DEF CallPCs
    <2> QED
      BY <1>3, <2>1
  <1>7. CASE QuerySummary
    <2>1. Asking("congestion") /\ "congestion" \in Models
      BY <1>7 DEF QuerySummary, SchedulerRuns, SchedulerAt, Asking, Models
    <2>2. ASSUME NEW of, NEW is_alert, Score("congestion", of, is_alert)
          PROVE  NotYetPublished' /\ CounterCountsPublished'
      BY <1>1, <2>1, <2>2, SpokenForCounter
    <2> QED
      BY <1>6, <1>7, <2>2 DEF QuerySummary, NothingToScore
  <1>8. CASE QueryWindow
    <2>1. Asking("anomaly") /\ "anomaly" \in Models
      BY <1>8 DEF QueryWindow, SchedulerRuns, SchedulerAt, Asking, Models
    <2>2. ASSUME NEW of, NEW is_alert, Score("anomaly", of, is_alert)
          PROVE  NotYetPublished' /\ CounterCountsPublished'
      BY <1>1, <2>1, <2>2, SpokenForCounter
    <2> QED
      BY <1>6, <1>8, <2>2 DEF QueryWindow, NothingToScore
  <1> QED
    BY <1>4, <1>5, <1>7, <1>8

LEMMA EndsForCounter ==
    ASSUME TypeOK, IInv, RoundsInOrder, NotYetPublished, CounterCountsPublished,
           CancelScheduler \/ Crash \/ CloseRedis \/ StartUp
    PROVE  NotYetPublished' /\ CounterCountsPublished'
  <1>1. CASE CancelScheduler
    <2>1. /\ job' = NoPrediction /\ scheduler'.pc = "done"
          /\ UNCHANGED <<predictions_made_total, started, lifespan>>
      <3>1. "done" \in SchedulerPCs /\ SchedulerShape
        BY DEF SchedulerPCs, IInv
      <3>2. /\ Ask("done")
            /\ UNCHANGED <<predictions_made_total, started, lifespan>>
        BY <1>1 DEF CancelScheduler, SchedulerLeaves, process
      <3>3. /\ scheduler' = [pc |-> "done", since |-> scheduler.since, job |-> NoPrediction]
            /\ job' = NoPrediction
        BY <3>1, <3>2, SchedulerEdits
      <3> QED
        BY <3>2, <3>3
    <2>2. /\ published' = published \/ published' = published \cup {job}
          /\ SchedulerAt("publishing") \/ published' = published
          /\ IF job = NoPrediction THEN hit' = hit ELSE Hit
      BY <1>1 DEF CancelScheduler
    <2>3. IsFiniteSet(published')
      BY <2>2, FS_AddElement DEF NotYetPublished
    <2>4. NotYetPublished'
      BY <2>1, <2>3 DEF NotYetPublished
    <2>5. CASE job = NoPrediction
      <3>1. ~SchedulerAt("publishing")
        BY <2>5, MadeTyped DEF SchedulerAt, CallPCs
      <3> QED
        BY <2>1, <2>2, <2>5, <3>1, QuietForCounter
    <2>6. CASE job # NoPrediction
      BY <2>1, <2>2, <2>3, <2>4, <2>6, PublishedAreSome, HitNotCounted
    <2> QED
      BY <2>5, <2>6
  <1>2. CASE Crash \/ CloseRedis
    <2>1. lifespan' = "down" /\ scheduler'.pc = "absent" /\ published' = published
      BY <1>2 DEF Crash, CloseRedis, AbsentScheduler, LifespanLeaves, histories
    <2> QED
      BY <2>1 DEF NotYetPublished, CounterCountsPublished
  <1>3. CASE StartUp
    <2>1. /\ published' = published /\ started' = now
          /\ predictions_made_total' = [m \in Models |-> 0]
          /\ scheduler'.pc \in {"sleeping", "absent"}
      BY <1>3 DEF StartUp, AbsentScheduler, histories
    <2>2. NotYetPublished'
      BY <2>1 DEF NotYetPublished
    <2>3. \A p \in published : ~(p.at > now)
      <3>1. published \subseteq Made
        BY DEF IInv, AlertsRestOnPredictions, Made
      <3>2. \A p \in Made : p.at <= now /\ p.at \in Nat /\ now \in Nat
        BY MadeTyped DEF RoundsInOrder
      <3> QED
        BY <3>1, <3>2
    <2>4. \A m : Mine(m)' = {}
      BY <2>1, <2>3 DEF Mine, OfModel
    <2>5. CounterCountsPublished'
      <3> SUFFICES ASSUME NEW m \in Models
                   PROVE  /\ predictions_made_total'[m] <= Cardinality(Mine(m)')
                          /\ predictions_made_total'[m] >= Cardinality(Mine(m)' \ HitPredictions')
        BY CounterMeaningPrimed
      <3>1. Mine(m)' = {} /\ Mine(m)' \ HitPredictions' = {} /\ predictions_made_total'[m] = 0
        BY <2>1, <2>4
      <3> QED
        BY <3>1, FS_EmptySet
    <2> QED
      BY <2>2, <2>5
  <1> QED
    BY <1>1, <1>2, <1>3

LEMMA StepCounter ==
    ASSUME TypeOK, IInv, RoundsInOrder, NotYetPublished, CounterCountsPublished, [Next]_vars
    PROVE  NotYetPublished' /\ CounterCountsPublished'
  <1>1. CASE Tick \/ ShutDown \/ InferenceStopped \/ AggregationStopped \/ AggregatorStep
               \/ UNCHANGED vars
    <2>1. /\ UNCHANGED <<scheduler, published, hit, predictions_made_total, started>>
          /\ lifespan' # "down" => lifespan # "down"
      BY <1>1 DEF Tick, ShutDown, InferenceStopped, AggregationStopped, AggregatorStep, Aggregate,
                  PublishFeatures, EndBackoff, CancelAggregator, AggregatorLeaves,
                  LifespanLeaves, process, histories, vars
    <2>2. job' = job
      BY <2>1 DEF job
    <2> QED
      BY <2>1, <2>2, QuietForCounter
  <1>2. CASE SchedulerStep
    BY <1>2, QueriesForCounter, CallsForCounter, EndsForCounter DEF SchedulerStep, RoundStep
  <1>3. CASE Crash \/ CloseRedis \/ StartUp
    BY <1>3, EndsForCounter
  <1> QED
    BY <1>1, <1>2, <1>3 DEF Next, LifespanStep

-----------------------------------------------------------------------------
(* The theorems about time and number.                                      *)

(* Every variable keeps its type, whatever the window, the ranges and the   *)
(* bounds; there is a prediction in hand exactly during the calls for it.   *)
THEOREM TypeCorrect == Spec => []TypeOK
  BY InitTyped, StepTyped, PTL DEF Spec

(* The clock of the tables: one row per interval, one round per interval,   *)
(* each model once a round, each prediction published once, and a counter   *)
(* that keeps up.                                                           *)
TimedInv ==
    /\ RowsInOrder /\ RoundsInOrder /\ OncePerRound
    /\ NotYetPublished /\ CounterCountsPublished

(* TimedInv holds in every reachable state.                                 *)
THEOREM TimedInvariant == Spec => []TimedInv
  <1>1. Init => TimedInv
    BY InitRows, InitRounds, InitCounter DEF TimedInv
  <1>2. TypeOK /\ TypeOK' /\ IInv /\ TimedInv /\ [Next]_vars => TimedInv'
    BY StepRows, StepRounds, StepCounter DEF TimedInv
  <1> QED
    BY <1>1, <1>2, TypeCorrect, Invariant, PTL DEF Spec

(* predictions_made_total is the number of predictions of this process that *)
(* were published and are no longer in hand, up to those that a failed or   *)
(* cancelled call cut short.  (inference_scheduler.py: the increment is the *)
(* last statement of the block.)                                            *)
THEOREM CounterIsRight == Spec => []CounterCountsPublished
  <1>1. TimedInv => CounterCountsPublished
    BY DEF TimedInv
  <1> QED
    BY <1>1, TimedInvariant, PTL

(* A metrics row is behind at most RecentTicks + 1 congestion alerts,       *)
(* however often the process is restarted: the loop sleeps between rounds,  *)
(* and a row leaves the range of the summary query.                         *)
THEOREM AlertStormIsBounded == Spec => []AlertStormBounded
  <1>1. TypeOK /\ IInv /\ TimedInv => AlertStormBounded
    BY AlertsPerRow DEF TimedInv, AlertStormBounded
  <1> QED
    BY <1>1, TypeCorrect, Invariant, TimedInvariant, PTL

(* The anomaly model's verdict is late by at most the rows that the range   *)
(* holds beyond a window.  (inference_scheduler.py, _query_window: sorted   *)
(* by time, the limit keeps the oldest rows of the range.)                  *)
THEOREM VerdictLagIsBounded == Spec => WindowLagBounded
  <1>1. TypeOK /\ TimedInv /\ [Next]_vars =>
          [QueryWindow /\ scheduler'.pc = "saving" =>
             Cardinality({i \in DOMAIN rows : rows[i].time > scheduler'.job.of})
               <= IF WindowTicks + 1 > SeqLen THEN WindowTicks + 1 - SeqLen ELSE 0]_vars
    BY WindowLag DEF TimedInv
  <1> QED
    BY <1>1, TypeCorrect, TimedInvariant, PTL DEF Spec, WindowLagBounded
=============================================================================
