---------------------------- MODULE TrainingProofs ----------------------------
(***************************************************************************)
(* Proofs about Training for every number of epochs, every patience, every *)
(* set of losses, every number of trainings and of data sets and any       *)
(* holders of a predictor: the inductive invariant, and that checkpoint,   *)
(* scaler and calibration belong together where the properties say so.     *)
(***************************************************************************)
EXTENDS Training, SequenceTheorems, TLAPS

-----------------------------------------------------------------------------
(* The inductive invariant.                                                 *)

(* Number i is the first of the epochs with the least loss.                 *)
FirstBest(i) ==
    /\ i \in DOMAIN training.losses
    /\ training.losses[i] # NaN
    /\ \A j \in DOMAIN training.losses :
         training.losses[j] # NaN =>
            \/ training.losses[i] < training.losses[j]
            \/ training.losses[i] = training.losses[j] /\ i <= j

(* best is the loss of the first best epoch, infinite when there is none.   *)
BestKnown ==
    Running => IF training.best = NaN THEN ~Improved
               ELSE \E i \in DOMAIN training.losses :
                        FirstBest(i) /\ training.losses[i] = training.best

(* What is being saved is the epoch just validated.                         *)
SavingLast == training.pc = "saving" => FirstBest(Len(training.losses))

(* What was saved is the first best epoch.                                  *)
SavedBest ==
    training.pc # "saving" /\ Improved =>
        \E i \in DOMAIN training.losses :
            /\ FirstBest(i)
            /\ files.checkpoint = [run |-> training.run, data |-> training.data, epoch |-> i]

(* A training that ended has left its scaler.                               *)
ScalerSaved == Settled => files.scaler = training.data

(* Since a calibration began after the last training ended, nothing it has  *)
(* read was written again; when it has ended the file holds it.             *)
CalibrationCurrent ==
    /\ calibrating.run <= training.run
    /\ calibrating.pc \in {"scaled", "computed", "writing"} => calibrating.scaler \in Data
    /\ calibrating.pc \in {"computed", "writing"} => calibrating.weights \in Weights
    /\ calibrating.settled /\ calibrating.run = training.run =>
         /\ Settled
         /\ calibrating.pc \in {"scaled", "computed", "writing"} =>
              calibrating.scaler = files.scaler
         /\ calibrating.pc \in {"computed", "writing"} => calibrating.weights = files.checkpoint
         /\ calibrating.pc = "ended" =>
              files.calibration = [weights |-> files.checkpoint, scaler |-> files.scaler]

(* The same of a predictor that is being made.                              *)
LoadingCurrent ==
    loading # Nothing =>
        /\ loading.run <= training.run
        /\ loading.settled /\ loading.run = training.run =>
             /\ Settled
             /\ loading.weights = files.checkpoint
             /\ loading.scaler # Nothing => loading.scaler = files.scaler

IInv ==
    /\ TypeOK
    /\ BestKnown /\ SavingLast /\ SavedBest /\ ScalerSaved
    /\ CalibrationCurrent /\ LoadingCurrent
    /\ PairsMatch /\ BaselineMatches

-----------------------------------------------------------------------------
(* Types.                                                                   *)

FilesRecord == [checkpoint : Weights \cup {Missing, Torn}, scaler : Data \cup {Missing, Torn},
                calibration : Calibration \cup {Missing, Torn}]
TrainingRecord == [pc : {"epoch", "saving", "scaling", "ended", "killed"}, run : Runs,
                   data : Data, losses : Seq(Nat \cup {NaN}), best : Losses \cup {NaN},
                   patience : 0 .. PATIENCE]
CalibratingRecord == [pc : {"scaled", "computed", "writing", "ended", "killed"},
                      scaler : Data \cup {Nothing}, weights : Weights \cup {Nothing},
                      run : Runs, settled : BOOLEAN]

(* The constants' sets are intervals with the elements the code starts with.*)
LEMMA Constants ==
    /\ EPOCHS \in Nat /\ 1 \in 1 .. EPOCHS /\ PATIENCE \in Nat /\ 0 \in 0 .. PATIENCE
    /\ 0 \in Runs /\ Runs \subseteq Nat
    /\ 1 \in Data /\ Data \subseteq Nat
    /\ Losses \subseteq Nat /\ NaN \notin Nat
  BY TrainingAssumption DEF Runs, Data

(* What was read from a file that is intact is what scripts write to it.    *)
LEMMA IntactFiles ==
    ASSUME TypeOK
    PROVE  /\ Intact(files.checkpoint) => files.checkpoint \in Weights
           /\ Intact(files.scaler) => files.scaler \in Data
           /\ files.calibration # Torn => files.calibration \in Calibration \cup {Missing}
  BY DEF TypeOK, Intact

-----------------------------------------------------------------------------
(* The best epoch.                                                          *)

(* The losses of a training are numbers, but for those that are NaN.        *)
LEMMA LossesAreNumbers ==
    ASSUME TypeOK
    PROVE  /\ Len(training.losses) \in Nat
           /\ DOMAIN training.losses = 1 .. Len(training.losses)
           /\ \A i \in DOMAIN training.losses :
                training.losses[i] # NaN => training.losses[i] \in Nat
  <1>1. training.losses \in Seq(Nat \cup {NaN})
    BY DEF TypeOK
  <1> QED
    BY <1>1, ElementOfSeq, LenProperties

(* There is one first best epoch at most, the one that the property names.  *)
LEMMA NumberOfFirstBest ==
    ASSUME TypeOK, NEW i, FirstBest(i)
    PROVE  NumberOfBest = i
  <1>1. \A k \in DOMAIN training.losses : FirstBest(k) => k = i
    BY LossesAreNumbers DEF FirstBest
  <1>2. i \in DOMAIN training.losses
    BY DEF FirstBest
  <1>3. NumberOfBest = CHOOSE k \in DOMAIN training.losses : FirstBest(k)
    BY DEF NumberOfBest, FirstBest
  <1> QED
    BY <1>1, <1>2, <1>3

(* An epoch that is better than all before is the first best one.           *)
LEMMA BetterIsBest ==
    ASSUME TypeOK, BestKnown, Running, NEW loss \in Losses \cup {NaN}, Better(loss),
           training'.losses = Append(training.losses, loss)
    PROVE  /\ FirstBest(Len(training.losses))'
           /\ training'.losses[Len(training'.losses)] = loss
           /\ Len(training'.losses) \in DOMAIN training'.losses
  <1> DEFINE n == Len(training.losses)
  <1>1. training.losses \in Seq(Nat \cup {NaN}) /\ loss \in Nat /\ loss # NaN
    BY Constants DEF TypeOK, Better
  <1>2. /\ Len(training'.losses) = n + 1
        /\ DOMAIN training'.losses = 1 .. n + 1
        /\ \A i \in 1 .. n : training'.losses[i] = training.losses[i]
        /\ training'.losses[n + 1] = loss
        /\ DOMAIN training.losses = 1 .. n
        /\ n \in Nat
    BY <1>1, AppendProperties, LenProperties
  <1>3. ASSUME NEW j \in 1 .. n, training.losses[j] # NaN
        PROVE  loss < training.losses[j]
    <2>1. training.best # NaN
      BY <1>2, <1>3 DEF BestKnown, Improved
    <2>2. PICK i \in DOMAIN training.losses :
              FirstBest(i) /\ training.losses[i] = training.best
      BY <2>1 DEF BestKnown
    <2>3. training.best \in Nat /\ training.losses[j] \in Nat
      BY <1>2, <1>3, <2>1, LossesAreNumbers, Constants DEF TypeOK
    <2>4. loss < training.best
      BY <2>1 DEF Better
    <2>5. training.best <= training.losses[j]
      BY <1>2, <1>3, <2>2, <2>3 DEF FirstBest
    <2> QED
      BY <1>1, <2>3, <2>4, <2>5
  <1>4. ASSUME NEW j \in 1 .. n + 1, training'.losses[j] # NaN
        PROVE  \/ loss < training'.losses[j]
               \/ loss = training'.losses[j] /\ n + 1 <= j
    <2>1. CASE j \in 1 .. n
      BY <1>2, <1>3, <1>4, <2>1
    <2>2. CASE j = n + 1
      BY <1>2, <2>2
    <2> QED
      BY <1>2, <2>1, <2>2
  <1>5. n + 1 \in 1 .. n + 1
    BY <1>2
  <1> HIDE DEF n
  <1> QED
    BY <1>1, <1>2, <1>4, <1>5 DEF FirstBest

(* An epoch that is no better leaves the first best one as it is.           *)
LEMMA WorseChangesNothing ==
    ASSUME TypeOK, BestKnown, Running, NEW loss \in Losses \cup {NaN}, ~Better(loss),
           training'.losses = Append(training.losses, loss)
    PROVE  /\ Improved' => Improved
           /\ Improved => Improved'
           /\ \A i \in DOMAIN training.losses :
                /\ FirstBest(i) => FirstBest(i)'
                /\ i \in DOMAIN training'.losses
                /\ training'.losses[i] = training.losses[i]
  <1> DEFINE n == Len(training.losses)
  <1>1. training.losses \in Seq(Nat \cup {NaN}) /\ loss \in Nat \cup {NaN}
    BY Constants DEF TypeOK
  <1>2. /\ DOMAIN training'.losses = 1 .. n + 1
        /\ \A i \in 1 .. n : training'.losses[i] = training.losses[i]
        /\ training'.losses[n + 1] = loss
        /\ DOMAIN training.losses = 1 .. n
        /\ n \in Nat
    BY <1>1, AppendProperties, LenProperties
  <1>3. loss # NaN => /\ training.best # NaN /\ training.best \in Nat /\ loss \in Nat
                      /\ training.best <= loss
    <2>1. training.best \in Losses \cup {NaN}
      BY DEF TypeOK
    <2>2. training.best # NaN => training.best \in Nat
      BY <2>1, Constants
    <2>3. loss # NaN => training.best # NaN /\ ~(loss < training.best)
      BY DEF Better
    <2> QED
      BY <1>1, <2>2, <2>3
  <1>4. training.best # NaN => Improved
    BY DEF BestKnown, FirstBest, Improved
  <1>5. Improved' => Improved
    BY <1>2, <1>3, <1>4 DEF Improved
  <1>6. Improved => Improved'
    BY <1>2 DEF Improved
  <1>7. ASSUME NEW i \in DOMAIN training.losses, FirstBest(i)
        PROVE  FirstBest(i)'
    <2>1. training.best # NaN
      BY <1>7 DEF BestKnown, FirstBest, Improved
    <2>2. PICK k \in DOMAIN training.losses :
              FirstBest(k) /\ training.losses[k] = training.best
      BY <2>1 DEF BestKnown
    <2>3. training.losses[i] = training.best
      BY <1>2, <1>7, <2>2, LossesAreNumbers DEF FirstBest
    <2>4. loss # NaN => training.losses[i] <= loss
      BY <1>3, <2>3
    <2>5. training.losses[i] \in Nat
      BY <1>7, LossesAreNumbers DEF FirstBest
    <2> QED
      BY <1>1, <1>2, <1>7, <2>4, <2>5 DEF FirstBest
  <1> QED
    BY <1>2, <1>5, <1>6, <1>7

-----------------------------------------------------------------------------
(* Steps.                                                                   *)

(* What was read since the last training ended was read when none was under *)
(* way: a step of a training, or the beginning of the next, disturbs none.  *)
LEMMA ReadersUndisturbed ==
    ASSUME TypeOK, CalibrationCurrent, LoadingCurrent, PairsMatch, BaselineMatches,
           \/ Running /\ training'.run = training.run
           \/ training'.run = training.run + 1,
           UNCHANGED <<calibrating, loading, predictors>>
    PROVE  CalibrationCurrent' /\ LoadingCurrent' /\ PairsMatch' /\ BaselineMatches'
  <1>1. training.run \in Nat /\ calibrating.run \in Nat
        /\ (loading # Nothing => loading.run \in Nat)
    BY Constants DEF TypeOK, Loading
  <1>2. Running => ~Settled
    BY DEF Running, Settled
  <1>3. CalibrationCurrent'
    BY <1>1, <1>2 DEF CalibrationCurrent
  <1>4. LoadingCurrent'
    BY <1>1, <1>2 DEF LoadingCurrent
  <1>5. PairsMatch' /\ BaselineMatches'
    BY DEF PairsMatch, BaselineMatches
  <1> QED
    BY <1>3, <1>4, <1>5

(* A step of a script that reads, or of the server, leaves a training and   *)
(* its two files as they are.                                               *)
LEMMA TrainingUndisturbed ==
    ASSUME BestKnown, SavingLast, SavedBest, ScalerSaved,
           UNCHANGED training, files'.checkpoint = files.checkpoint,
           files'.scaler = files.scaler
    PROVE  BestKnown' /\ SavingLast' /\ SavedBest' /\ ScalerSaved'
  <1>1. BestKnown' /\ SavingLast'
    BY DEF BestKnown, SavingLast, FirstBest, Improved, Running
  <1>2. SavedBest' /\ ScalerSaved'
    BY DEF SavedBest, ScalerSaved, FirstBest, Improved, Settled
  <1> QED
    BY <1>1, <1>2

LEMMA InitEstablishes == Init => IInv
  <1> SUFFICES ASSUME Init PROVE IInv
    OBVIOUS
  <1>1. PICK shipped \in BOOLEAN :
         /\ files = IF shipped
                    THEN [checkpoint |-> ShippedWeights, scaler |-> 1,
                          calibration |-> ShippedCalibration]
                    ELSE [checkpoint |-> Missing, scaler |-> Missing, calibration |-> Missing]
         /\ training = [pc |-> "ended", run |-> 0, data |-> 1, best |-> NaN, patience |-> 0,
                        losses |-> IF shipped THEN <<0>> ELSE <<>>]
         /\ calibrating = IF shipped THEN [NoCalibration EXCEPT !.pc = "ended", !.settled = TRUE]
                                     ELSE NoCalibration
    BY DEF Init
  <1>2. /\ csv = [version |-> 1, readable |-> TRUE]
        /\ loading = Nothing
        /\ predictors = [u \in Users |-> Nothing]
    BY DEF Init
  <1>3. ShippedWeights \in Weights /\ ShippedCalibration \in Calibration
    BY Constants DEF ShippedWeights, ShippedCalibration, Weights, Calibration
  <1>4. NoCalibration = [pc |-> "killed", scaler |-> Nothing, weights |-> Nothing, run |-> 0,
                         settled |-> FALSE]
    BY DEF NoCalibration
  <1>5. TypeOK
    <2>1. csv \in [version : Data, readable : BOOLEAN]
      BY <1>2, Constants
    <2>2. files \in FilesRecord
      BY <1>1, <1>3, Constants DEF FilesRecord
    <2>3. training \in TrainingRecord /\ Len(training.losses) <= EPOCHS
      <3>1. <<0>> \in Seq(Nat \cup {NaN}) /\ Len(<<0>>) = 1
        OBVIOUS
      <3>2. <<>> \in Seq(Nat \cup {NaN}) /\ Len(<<>>) = 0
        OBVIOUS
      <3>3. 1 <= EPOCHS /\ 0 <= EPOCHS
        BY Constants
      <3> QED
        BY <1>1, <3>1, <3>2, <3>3, Constants DEF TrainingRecord
    <2>4. calibrating \in CalibratingRecord
      BY <1>1, <1>4, Constants DEF CalibratingRecord
    <2>5. loading \in Loading \cup {Nothing} /\ predictors \in [Users -> Predictor \cup {Nothing}]
      BY <1>2
    <2> QED
      BY <2>1, <2>2, <2>3, <2>4, <2>5 DEF TypeOK, FilesRecord, TrainingRecord, CalibratingRecord
  <1>6. BestKnown /\ SavingLast
    BY <1>1 DEF BestKnown, SavingLast, Running
  <1>7. SavedBest /\ ScalerSaved
    <2>1. CASE shipped
      <3>1. training.losses = <<0>> /\ DOMAIN training.losses = {1} /\ training.losses[1] = 0
        BY <1>1, <2>1
      <3>2. files.checkpoint = [run |-> training.run, data |-> training.data, epoch |-> 1]
        BY <1>1, <2>1 DEF ShippedWeights
      <3>3. files.scaler = training.data
        BY <1>1, <2>1
      <3> QED
        BY <3>1, <3>2, <3>3 DEF SavedBest, ScalerSaved, FirstBest, Improved
    <2>2. CASE ~shipped
      <3>1. DOMAIN training.losses = {}
        BY <1>1, <2>2
      <3> QED
        BY <3>1 DEF SavedBest, ScalerSaved, Settled, Improved
    <2> QED
      BY <2>1, <2>2
  <1>8. CalibrationCurrent
    <2>1. CASE shipped
      <3>1. /\ calibrating.pc = "ended" /\ calibrating.run = 0 /\ training.run = 0
            /\ files.calibration = [weights |-> files.checkpoint, scaler |-> files.scaler]
        BY <1>1, <1>4, <2>1 DEF ShippedCalibration
      <3>2. training.losses = <<0>> /\ 1 \in DOMAIN training.losses /\ training.losses[1] = 0
        BY <1>1, <2>1
      <3>3. 0 # NaN
        BY Constants
      <3>4. Settled
        BY <1>1, <3>2, <3>3 DEF Settled, Improved
      <3> QED
        BY <3>1, <3>4 DEF CalibrationCurrent
    <2>2. CASE ~shipped
      BY <1>1, <1>4, <2>2 DEF CalibrationCurrent
    <2> QED
      BY <2>1, <2>2
  <1>9. LoadingCurrent /\ PairsMatch /\ BaselineMatches
    BY <1>2 DEF LoadingCurrent, PairsMatch, BaselineMatches
  <1> QED
    BY <1>5, <1>6, <1>7, <1>8, <1>9 DEF IInv

(* A training: from its start to its end it is the only one to write the    *)
(* checkpoint and the scaler.                                               *)
LEMMA TrainingSteps ==
    ASSUME IInv,
           \/ TrainStart \/ TrainKilled
           \/ \E loss \in Losses \cup {NaN} : Epoch(loss)
           \/ SaveCheckpoint \/ OpenScaler \/ SaveScaler
    PROVE  IInv'
  <1> USE DEF IInv
  <1>1. /\ csv \in [version : Data, readable : BOOLEAN]
        /\ files \in FilesRecord
        /\ training \in TrainingRecord /\ Len(training.losses) <= EPOCHS
    BY DEF TypeOK, FilesRecord, TrainingRecord
  <1>2. ASSUME /\ UNCHANGED <<csv, calibrating, loading, predictors>>
               /\ files' \in FilesRecord
               /\ training' \in TrainingRecord /\ Len(training'.losses) <= EPOCHS
               /\ \/ Running /\ training'.run = training.run
                  \/ training'.run = training.run + 1
               /\ BestKnown' /\ SavingLast' /\ SavedBest' /\ ScalerSaved'
        PROVE  IInv'
    <2>1. TypeOK'
      BY <1>2 DEF TypeOK, FilesRecord, TrainingRecord
    <2> QED
      BY <1>2, <2>1, ReadersUndisturbed
  <1>3. <<>> \in Seq(Nat \cup {NaN}) /\ Len(<<>>) = 0 /\ DOMAIN <<>> = {} /\ 0 <= EPOCHS
    BY Constants
  <1>4. CASE TrainStart
    <2>1. /\ training' = [pc |-> "epoch", run |-> training.run + 1, data |-> csv.version,
                          losses |-> <<>>, best |-> NaN, patience |-> 0]
          /\ UNCHANGED <<csv, files, calibrating, loading, predictors>>
          /\ training.run < MaxRuns
      BY <1>4 DEF TrainStart
    <2>2. training.run + 1 \in Runs
      BY <1>1, <2>1, TrainingAssumption DEF Runs, TrainingRecord
    <2>3. training' \in TrainingRecord /\ Len(training'.losses) <= EPOCHS
      BY <1>1, <1>3, <2>1, <2>2, Constants DEF TrainingRecord
    <2>4. ~Improved'
      BY <1>3, <2>1 DEF Improved
    <2>5. BestKnown' /\ SavingLast' /\ SavedBest' /\ ScalerSaved'
      BY <2>1, <2>4 DEF BestKnown, SavingLast, SavedBest, ScalerSaved, Settled
    <2> QED
      BY <1>1, <1>2, <2>1, <2>3, <2>5
  <1>5. CASE TrainKilled
    <2>1. /\ Running
          /\ training' = [training EXCEPT !.pc = "killed", !.best = NaN, !.patience = 0,
                                          !.losses = <<>>]
          /\ UNCHANGED <<csv, files, calibrating, loading, predictors>>
      BY <1>5 DEF TrainKilled
    <2>2. training' = [pc |-> "killed", run |-> training.run, data |-> training.data,
                       losses |-> <<>>, best |-> NaN, patience |-> 0]
      BY <1>1, <2>1 DEF TrainingRecord
    <2>3. training' \in TrainingRecord /\ Len(training'.losses) <= EPOCHS
      BY <1>1, <1>3, <2>2, Constants DEF TrainingRecord
    <2>4. ~Improved'
      BY <1>3, <2>2 DEF Improved
    <2>5. BestKnown' /\ SavingLast' /\ SavedBest' /\ ScalerSaved'
      BY <2>2, <2>4 DEF BestKnown, Running, SavingLast, SavedBest, ScalerSaved, Settled
    <2> QED
      BY <1>1, <1>2, <2>1, <2>2, <2>3, <2>5
  <1>6. ASSUME NEW loss \in Losses \cup {NaN}, Epoch(loss)
        PROVE  IInv'
    <2>1. /\ training.pc = "epoch" /\ ~LoopEnds
          /\ UNCHANGED <<csv, calibrating, loading, predictors>>
          /\ Running
      BY <1>6 DEF Epoch, Validated, Running
    <2>2. /\ training.losses \in Seq(Nat \cup {NaN}) /\ Len(training.losses) \in Nat
          /\ Append(training.losses, loss) \in Seq(Nat \cup {NaN})
          /\ Len(Append(training.losses, loss)) = Len(training.losses) + 1
          /\ Len(training.losses) + 1 <= EPOCHS
      <3>1. training.losses \in Seq(Nat \cup {NaN}) /\ loss \in Nat \cup {NaN}
        BY <1>1, Constants DEF TrainingRecord
      <3>2. Len(training.losses) \in Nat /\ Len(training.losses) # EPOCHS
        BY <2>1, <3>1, LenProperties DEF LoopEnds
      <3>3. Len(training.losses) + 1 <= EPOCHS
        BY <1>1, <3>2, Constants
      <3> QED
        BY <3>1, <3>2, <3>3, AppendProperties
    <2>3. training.patience + 1 \in 0 .. PATIENCE
      BY <1>1, <2>1, Constants DEF LoopEnds, TrainingRecord
    <2>4. CASE Better(loss)
      <3>1. /\ training' = [pc |-> "saving", run |-> training.run, data |-> training.data,
                            losses |-> Append(training.losses, loss), best |-> loss,
                            patience |-> 0]
            /\ files' = [files EXCEPT !.checkpoint = Torn]
        BY <1>1, <1>6, <2>4 DEF Epoch, Validated, TrainingRecord
      <3>2. files' \in FilesRecord
        BY <1>1, <3>1 DEF FilesRecord
      <3>3. training' \in TrainingRecord /\ Len(training'.losses) <= EPOCHS
        BY <1>1, <2>2, <3>1, Constants DEF TrainingRecord
      <3>4. /\ FirstBest(Len(training.losses))'
            /\ training'.losses[Len(training'.losses)] = loss
            /\ Len(training'.losses) \in DOMAIN training'.losses
        BY <2>1, <2>4, <3>1, BetterIsBest
      <3>5. training'.best = loss /\ training'.best # NaN
        BY <2>4, <3>1 DEF Better
      <3>6. BestKnown' /\ SavingLast'
        BY <3>4, <3>5 DEF BestKnown, SavingLast
      <3>7. SavedBest' /\ ScalerSaved'
        BY <3>1 DEF SavedBest, ScalerSaved, Settled
      <3> QED
        BY <1>2, <2>1, <3>1, <3>2, <3>3, <3>6, <3>7
    <2>5. CASE ~Better(loss)
      <3>1. /\ training' = [pc |-> "epoch", run |-> training.run, data |-> training.data,
                            losses |-> Append(training.losses, loss), best |-> training.best,
                            patience |-> training.patience + 1]
            /\ files' = files
        BY <1>1, <1>6, <2>5 DEF Epoch, Validated, TrainingRecord
      <3>2. training' \in TrainingRecord /\ Len(training'.losses) <= EPOCHS
        BY <1>1, <2>2, <2>3, <3>1 DEF TrainingRecord
      <3>3. /\ Improved' <=> Improved
            /\ \A i \in DOMAIN training.losses :
                 /\ FirstBest(i) => FirstBest(i)'
                 /\ i \in DOMAIN training'.losses
                 /\ training'.losses[i] = training.losses[i]
        BY <2>1, <2>5, <3>1, WorseChangesNothing
      <3>4. BestKnown'
        BY <2>1, <3>1, <3>3 DEF BestKnown
      <3>5. SavedBest'
        <4>1. SUFFICES ASSUME Improved
                       PROVE  \E i \in DOMAIN training'.losses :
                                 /\ FirstBest(i)'
                                 /\ files.checkpoint = [run |-> training.run,
                                                        data |-> training.data, epoch |-> i]
          BY <3>1, <3>3 DEF SavedBest
        <4>2. PICK i \in DOMAIN training.losses :
                 /\ FirstBest(i)
                 /\ files.checkpoint = [run |-> training.run, data |-> training.data,
                                        epoch |-> i]
          BY <2>1, <4>1 DEF SavedBest
        <4> QED
          BY <3>3, <4>2
      <3>6. SavingLast' /\ ScalerSaved'
        BY <3>1 DEF SavingLast, ScalerSaved, Settled
      <3> QED
        BY <1>1, <1>2, <2>1, <3>1, <3>2, <3>4, <3>5, <3>6
    <2> QED
      BY <2>4, <2>5
  <1>7. CASE SaveCheckpoint
    <2>1. /\ training.pc = "saving" /\ Running
          /\ UNCHANGED <<csv, calibrating, loading, predictors>>
          /\ training' = [training EXCEPT !.pc = "epoch"]
          /\ files' = [files EXCEPT !.checkpoint = [run |-> training.run, data |-> training.data,
                                                    epoch |-> Len(training.losses)]]
      BY <1>7 DEF SaveCheckpoint, Running
    <2>2. FirstBest(Len(training.losses)) /\ Len(training.losses) \in DOMAIN training.losses
      BY <2>1 DEF SavingLast, FirstBest
    <2>3. training' \in TrainingRecord /\ training'.losses = training.losses
          /\ training'.run = training.run /\ training'.data = training.data
          /\ training'.best = training.best /\ training'.pc = "epoch"
      BY <1>1, <2>1 DEF TrainingRecord
    <2>4. Len(training.losses) \in 1 .. EPOCHS
      BY <1>1, <2>2, LossesAreNumbers, Constants
    <2>5. [run |-> training.run, data |-> training.data, epoch |-> Len(training.losses)]
             \in Weights
      BY <1>1, <2>4 DEF Weights, TrainingRecord
    <2>6. files' \in FilesRecord
          /\ files'.checkpoint = [run |-> training.run, data |-> training.data,
                                  epoch |-> Len(training.losses)]
      BY <1>1, <2>1, <2>5 DEF FilesRecord
    <2>7. (Improved' <=> Improved) /\ \A i : FirstBest(i) => FirstBest(i)'
      BY <2>3 DEF Improved, FirstBest
    <2>8. BestKnown' /\ SavingLast' /\ ScalerSaved'
      BY <2>1, <2>3, <2>7 DEF BestKnown, SavingLast, ScalerSaved, Settled
    <2>9. SavedBest'
      BY <2>2, <2>3, <2>6, <2>7 DEF SavedBest
    <2> QED
      BY <1>1, <1>2, <2>1, <2>3, <2>6, <2>8, <2>9
  <1>8. CASE OpenScaler
    <2>1. /\ training.pc = "epoch" /\ Running
          /\ UNCHANGED <<csv, calibrating, loading, predictors>>
          /\ training' = [training EXCEPT !.pc = "scaling"]
          /\ files' = [files EXCEPT !.scaler = Torn]
      BY <1>8 DEF OpenScaler, Running
    <2>2. training' \in TrainingRecord /\ training'.losses = training.losses
          /\ training'.run = training.run /\ training'.data = training.data
          /\ training'.best = training.best /\ training'.pc = "scaling"
      BY <1>1, <2>1 DEF TrainingRecord
    <2>3. files' \in FilesRecord /\ files'.checkpoint = files.checkpoint
      BY <1>1, <2>1 DEF FilesRecord
    <2>4. (Improved' <=> Improved) /\ \A i : FirstBest(i) => FirstBest(i)'
      BY <2>2 DEF Improved, FirstBest
    <2>5. BestKnown' /\ SavingLast' /\ ScalerSaved'
      BY <2>1, <2>2, <2>4 DEF BestKnown, SavingLast, ScalerSaved, Settled
    <2>6. SavedBest'
      BY <2>1, <2>2, <2>3, <2>4 DEF SavedBest
    <2> QED
      BY <1>1, <1>2, <2>1, <2>2, <2>3, <2>5, <2>6
  <1>9. CASE SaveScaler
    <2>1. /\ training.pc = "scaling" /\ Running
          /\ UNCHANGED <<csv, calibrating, loading, predictors>>
          /\ training' = [training EXCEPT !.pc = "ended", !.best = NaN, !.patience = 0]
          /\ files' = [files EXCEPT !.scaler = training.data]
      BY <1>9 DEF SaveScaler, Running
    <2>2. training' \in TrainingRecord /\ training'.losses = training.losses
          /\ training'.run = training.run /\ training'.data = training.data
          /\ training'.pc = "ended"
      BY <1>1, <2>1, Constants DEF TrainingRecord
    <2>3. files' \in FilesRecord /\ files'.checkpoint = files.checkpoint
          /\ files'.scaler = training.data
      BY <1>1, <2>1 DEF FilesRecord, TrainingRecord
    <2>4. (Improved' <=> Improved) /\ \A i : FirstBest(i) => FirstBest(i)'
      BY <2>2 DEF Improved, FirstBest
    <2>5. BestKnown' /\ SavingLast' /\ ScalerSaved'
      BY <2>2, <2>3 DEF BestKnown, Running, SavingLast, ScalerSaved, Settled
    <2>6. SavedBest'
      BY <2>1, <2>2, <2>3, <2>4 DEF SavedBest
    <2> QED
      BY <1>1, <1>2, <2>1, <2>2, <2>3, <2>5, <2>6
  <1> QED
    BY <1>4, <1>5, <1>6, <1>7, <1>8, <1>9

(* A predictor's properties are of itself alone.                            *)
LEMMA PredictorsUndisturbed ==
    ASSUME PairsMatch, BaselineMatches, UNCHANGED predictors
    PROVE  PairsMatch' /\ BaselineMatches'
  BY DEF PairsMatch, BaselineMatches

(* The data set is read when a training starts, and not again.              *)
LEMMA DataSteps ==
    ASSUME IInv, Generate \/ RenameColumn
    PROVE  IInv'
  <1>1. csv' \in [version : Data, readable : BOOLEAN]
    <2>1. CASE Generate
      <3>1. csv' = [version |-> csv.version + 1, readable |-> FALSE] /\ csv.version < MaxData
        BY <2>1 DEF Generate
      <3>2. csv.version \in Data
        BY DEF IInv, TypeOK
      <3>3. csv.version + 1 \in Data
        BY <3>1, <3>2, TrainingAssumption DEF Data
      <3> QED
        BY <3>1, <3>3
    <2>2. CASE RenameColumn
      BY <2>2 DEF RenameColumn, IInv, TypeOK
    <2> QED
      BY <2>1, <2>2
  <1>2. UNCHANGED <<files, training, calibrating, loading, predictors>>
    BY DEF Generate, RenameColumn
  <1>3. TypeOK'
    BY <1>1, <1>2 DEF IInv, TypeOK
  <1>4. BestKnown' /\ SavingLast' /\ SavedBest' /\ ScalerSaved'
    BY <1>2, TrainingUndisturbed DEF IInv
  <1>5. CalibrationCurrent'
    BY <1>2 DEF IInv, CalibrationCurrent, Settled, Improved
  <1>6. LoadingCurrent'
    BY <1>2 DEF IInv, LoadingCurrent, Settled, Improved
  <1>7. PairsMatch' /\ BaselineMatches'
    BY <1>2, PredictorsUndisturbed DEF IInv
  <1> QED
    BY <1>3, <1>4, <1>5, <1>6, <1>7 DEF IInv

(* A calibration writes the calibration alone.                              *)
LEMMA CalibrationSteps ==
    ASSUME IInv,
           CalibrateStart \/ CalibrateLoad \/ CalibrateOpen \/ CalibrateWrite \/ CalibrateKilled
    PROVE  IInv'
  <1>1. /\ calibrating \in CalibratingRecord
        /\ files \in FilesRecord
        /\ training.run \in Runs /\ training.run \in Nat
    <2>1. training.run \in Runs
      BY DEF IInv, TypeOK
    <2> QED
      BY <2>1, Constants DEF IInv, TypeOK, CalibratingRecord, FilesRecord
  <1>2. ASSUME /\ UNCHANGED <<csv, training, loading, predictors>>
               /\ files' \in FilesRecord
               /\ files'.checkpoint = files.checkpoint
               /\ files'.scaler = files.scaler
               /\ calibrating' \in CalibratingRecord
               /\ CalibrationCurrent'
        PROVE  IInv'
    <2>1. TypeOK'
      BY <1>2 DEF IInv, TypeOK, FilesRecord, CalibratingRecord
    <2>2. BestKnown' /\ SavingLast' /\ SavedBest' /\ ScalerSaved'
      BY <1>2, TrainingUndisturbed DEF IInv
    <2>3. LoadingCurrent'
      BY <1>2 DEF IInv, LoadingCurrent, Settled, Improved
    <2>4. PairsMatch' /\ BaselineMatches'
      BY <1>2, PredictorsUndisturbed DEF IInv
    <2> QED
      BY <1>2, <2>1, <2>2, <2>3, <2>4 DEF IInv
  <1>3. ASSUME calibrating' = NoCalibration,
               UNCHANGED <<csv, files, training, loading, predictors>>
        PROVE  IInv'
    <2>1. calibrating' = [pc |-> "killed", scaler |-> Nothing, weights |-> Nothing, run |-> 0,
                          settled |-> FALSE]
      BY <1>3 DEF NoCalibration
    <2>2. calibrating' \in CalibratingRecord
      BY <2>1, Constants DEF CalibratingRecord
    <2>3. CalibrationCurrent'
      BY <1>1, <1>3, <2>1 DEF CalibrationCurrent
    <2> QED
      BY <1>1, <1>2, <1>3, <2>2, <2>3
  <1>4. CASE CalibrateStart
    <2>1. /\ calibrating' = [pc |-> "scaled", scaler |-> files.scaler, weights |-> Nothing,
                             run |-> training.run, settled |-> Settled]
          /\ UNCHANGED <<csv, files, training, loading, predictors>>
          /\ files.scaler \in Data
      BY <1>4, IntactFiles DEF CalibrateStart, IInv
    <2>2. Settled \in BOOLEAN
      BY DEF Settled
    <2>3. calibrating' \in CalibratingRecord
      BY <1>1, <2>1, <2>2 DEF CalibratingRecord
    <2>4. Settled' <=> Settled
      BY <2>1 DEF Settled, Improved
    <2>5. training.run <= training.run
      BY <1>1
    <2>6. CalibrationCurrent'
      BY <2>1, <2>4, <2>5 DEF CalibrationCurrent
    <2> QED
      BY <1>1, <1>2, <2>1, <2>3, <2>6
  <1>5. CASE CalibrateLoad
    <2>1. calibrating.pc = "scaled" /\ UNCHANGED <<csv, files, training, loading, predictors>>
      BY <1>5 DEF CalibrateLoad
    <2>2. CASE Intact(files.checkpoint)
      <3>1. /\ calibrating' = [calibrating EXCEPT !.pc = "computed",
                                                  !.weights = files.checkpoint]
            /\ files.checkpoint \in Weights
        BY <1>5, <2>2, IntactFiles DEF CalibrateLoad, IInv
      <3>2. calibrating' \in CalibratingRecord
        BY <1>1, <3>1 DEF CalibratingRecord
      <3>3. /\ calibrating'.pc = "computed" /\ calibrating'.weights = files.checkpoint
            /\ calibrating'.run = calibrating.run /\ calibrating'.scaler = calibrating.scaler
            /\ calibrating'.settled = calibrating.settled
        BY <1>1, <3>1 DEF CalibratingRecord
      <3>4. CalibrationCurrent'
        BY <2>1, <3>1, <3>3 DEF IInv, CalibrationCurrent, Settled, Improved
      <3> QED
        BY <1>1, <1>2, <2>1, <3>2, <3>4
    <2>3. CASE ~Intact(files.checkpoint)
      BY <1>3, <1>5, <2>1, <2>3 DEF CalibrateLoad
    <2> QED
      BY <2>2, <2>3
  <1>6. CASE CalibrateOpen
    <2>1. /\ calibrating.pc = "computed"
          /\ calibrating' = [calibrating EXCEPT !.pc = "writing"]
          /\ files' = [files EXCEPT !.calibration = Torn]
          /\ UNCHANGED <<csv, training, loading, predictors>>
      BY <1>6 DEF CalibrateOpen
    <2>2. calibrating' \in CalibratingRecord
      BY <1>1, <2>1 DEF CalibratingRecord
    <2>3. /\ calibrating'.pc = "writing" /\ calibrating'.weights = calibrating.weights
          /\ calibrating'.run = calibrating.run /\ calibrating'.scaler = calibrating.scaler
          /\ calibrating'.settled = calibrating.settled
      BY <1>1, <2>1 DEF CalibratingRecord
    <2>4. files' \in FilesRecord /\ files'.checkpoint = files.checkpoint
          /\ files'.scaler = files.scaler
      BY <1>1, <2>1 DEF FilesRecord
    <2>5. CalibrationCurrent'
      BY <2>1, <2>3, <2>4 DEF IInv, CalibrationCurrent, Settled, Improved
    <2> QED
      BY <1>2, <2>1, <2>2, <2>4, <2>5
  <1>7. CASE CalibrateWrite
    <2>1. /\ calibrating.pc = "writing"
          /\ calibrating' = [calibrating EXCEPT !.pc = "ended", !.scaler = Nothing,
                                                !.weights = Nothing]
          /\ files' = [files EXCEPT !.calibration =
                         [weights |-> calibrating.weights, scaler |-> calibrating.scaler]]
          /\ UNCHANGED <<csv, training, loading, predictors>>
      BY <1>7 DEF CalibrateWrite
    <2>2. calibrating' \in CalibratingRecord
      BY <1>1, <2>1 DEF CalibratingRecord
    <2>3. /\ calibrating'.pc = "ended" /\ calibrating'.run = calibrating.run
          /\ calibrating'.settled = calibrating.settled
      BY <1>1, <2>1 DEF CalibratingRecord
    <2>4. [weights |-> calibrating.weights, scaler |-> calibrating.scaler] \in Calibration
      BY <2>1 DEF IInv, CalibrationCurrent, Calibration
    <2>5. files' \in FilesRecord /\ files'.checkpoint = files.checkpoint
          /\ files'.scaler = files.scaler
          /\ files'.calibration = [weights |-> calibrating.weights,
                                   scaler |-> calibrating.scaler]
      BY <1>1, <2>1, <2>4 DEF FilesRecord
    <2>6. CalibrationCurrent'
      BY <2>1, <2>3, <2>5 DEF IInv, CalibrationCurrent, Settled, Improved
    <2> QED
      BY <1>2, <2>1, <2>2, <2>5, <2>6
  <1>8. CASE CalibrateKilled
    BY <1>3, <1>8 DEF CalibrateKilled
  <1> QED
    BY <1>4, <1>5, <1>6, <1>7, <1>8

(* The server writes nothing.                                               *)
LEMMA ServerSteps ==
    ASSUME IInv,
           (\E u \in Users : LoadCheckpoint(u)) \/ LoadScaler \/ LoadCalibration \/ Restart
    PROVE  IInv'
  <1>1. /\ loading \in Loading \cup {Nothing}
        /\ predictors \in [Users -> Predictor \cup {Nothing}]
        /\ training.run \in Runs /\ training.run \in Nat
    <2>1. training.run \in Runs
      BY DEF IInv, TypeOK
    <2> QED
      BY <2>1, Constants DEF IInv, TypeOK
  <1>2. ASSUME /\ UNCHANGED <<csv, files, training, calibrating>>
               /\ loading' \in Loading \cup {Nothing}
               /\ predictors' \in [Users -> Predictor \cup {Nothing}]
               /\ LoadingCurrent' /\ PairsMatch' /\ BaselineMatches'
        PROVE  IInv'
    <2>1. TypeOK'
      BY <1>2 DEF IInv, TypeOK
    <2>2. BestKnown' /\ SavingLast' /\ SavedBest' /\ ScalerSaved'
      BY <1>2, TrainingUndisturbed DEF IInv
    <2>3. CalibrationCurrent'
      BY <1>2 DEF IInv, CalibrationCurrent, Settled, Improved
    <2> QED
      BY <1>2, <2>1, <2>2, <2>3 DEF IInv
  <1>3. ASSUME NEW u \in Users, LoadCheckpoint(u)
        PROVE  IInv'
    <2>1. /\ loading' = [user |-> u, weights |-> files.checkpoint, scaler |-> Nothing,
                         run |-> training.run, settled |-> Settled]
          /\ UNCHANGED <<csv, files, training, calibrating, predictors>>
          /\ files.checkpoint \in Weights
      BY <1>3, IntactFiles DEF LoadCheckpoint, IInv
    <2>2. Settled \in BOOLEAN /\ (Settled' <=> Settled)
      BY <2>1 DEF Settled, Improved
    <2>3. loading' \in Loading
      BY <1>1, <2>1, <2>2 DEF Loading
    <2>4. training.run <= training.run
      BY <1>1
    <2>5. LoadingCurrent'
      BY <2>1, <2>2, <2>4 DEF LoadingCurrent
    <2> QED
      BY <1>1, <1>2, <2>1, <2>3, <2>5, PredictorsUndisturbed DEF IInv
  <1>4. CASE LoadScaler
    <2>1. /\ loading # Nothing /\ loading \in Loading
          /\ UNCHANGED <<csv, files, training, calibrating, predictors>>
      BY <1>1, <1>4 DEF LoadScaler
    <2>2. CASE Intact(files.scaler)
      <3>1. loading' = [loading EXCEPT !.scaler = files.scaler] /\ files.scaler \in Data
        BY <1>4, <2>2, IntactFiles DEF LoadScaler, IInv
      <3>2. /\ loading' \in Loading /\ loading'.weights = loading.weights
            /\ loading'.run = loading.run /\ loading'.settled = loading.settled
            /\ loading'.scaler = files.scaler
        BY <2>1, <3>1 DEF Loading
      <3>3. LoadingCurrent'
        BY <2>1, <3>2 DEF IInv, LoadingCurrent, Settled, Improved
      <3> QED
        BY <1>1, <1>2, <2>1, <3>2, <3>3, PredictorsUndisturbed DEF IInv
    <2>3. CASE ~Intact(files.scaler)
      <3>1. loading' = Nothing
        BY <1>4, <2>3 DEF LoadScaler
      <3>2. LoadingCurrent'
        BY <3>1 DEF LoadingCurrent
      <3> QED
        BY <1>1, <1>2, <2>1, <3>1, <3>2, PredictorsUndisturbed DEF IInv
    <2> QED
      BY <2>2, <2>3
  <1>5. CASE LoadCalibration
    <2>1. /\ loading # Nothing /\ loading \in Loading /\ loading.scaler # Nothing
          /\ loading' = Nothing
          /\ UNCHANGED <<csv, files, training, calibrating>>
      BY <1>1, <1>5 DEF LoadCalibration
    <2>2. LoadingCurrent'
      BY <2>1 DEF LoadingCurrent
    <2>3. CASE files.calibration = Torn
      <3>1. UNCHANGED predictors
        BY <1>5, <2>3 DEF LoadCalibration
      <3> QED
        BY <1>1, <1>2, <2>1, <2>2, <3>1, PredictorsUndisturbed DEF IInv
    <2>4. CASE files.calibration # Torn
      <3> DEFINE p == [weights |-> loading.weights, scaler |-> loading.scaler,
                       baseline |-> files.calibration,
                       settled |-> loading.settled /\ loading.run = training.run,
                       measured |-> Measured]
      <3>1. predictors' = [predictors EXCEPT ![loading.user] = p]
        BY <1>5, <2>4 DEF LoadCalibration
      <3>2. Measured \in BOOLEAN
        BY DEF Measured, IInv, TypeOK
      <3>3. p \in Predictor
        <4>1. /\ loading.weights \in Weights /\ loading.scaler \in Data
              /\ (loading.settled /\ loading.run = training.run) \in BOOLEAN
          BY <2>1 DEF Loading
        <4>2. files.calibration \in Calibration \cup {Missing}
          BY <2>4, IntactFiles DEF IInv
        <4> QED
          BY <3>2, <4>1, <4>2 DEF Predictor
      <3>4. ASSUME p.settled
            PROVE  /\ Settled
                   /\ p.weights = files.checkpoint
                   /\ p.scaler = files.scaler
        BY <2>1, <3>4 DEF IInv, LoadingCurrent
      <3>5. p.settled => p.weights.data = p.scaler
        <4>1. ASSUME Settled
              PROVE  files.checkpoint.data = training.data
          <5>1. training.pc = "ended" /\ Improved
            BY <4>1 DEF Settled
          <5>2. PICK i \in DOMAIN training.losses :
                  files.checkpoint = [run |-> training.run, data |-> training.data, epoch |-> i]
            BY <5>1 DEF IInv, SavedBest
          <5> QED
            BY <5>2
        <4> QED
          BY <3>4, <4>1 DEF IInv, ScalerSaved
      <3>6. p.settled /\ p.measured =>
              p.baseline = [weights |-> p.weights, scaler |-> p.scaler]
        <4>1. ASSUME Measured
              PROVE  files.calibration = [weights |-> files.checkpoint, scaler |-> files.scaler]
          BY <4>1 DEF IInv, CalibrationCurrent, Measured
        <4> QED
          BY <3>4, <4>1
      <3>7. predictors' \in [Users -> Predictor \cup {Nothing}]
        BY <1>1, <3>1, <3>3
      <3>8. \A u \in Users : predictors'[u] = predictors[u] \/ predictors'[u] = p
        BY <1>1, <3>1
      <3> HIDE DEF p
      <3>9. PairsMatch' /\ BaselineMatches'
        BY <3>5, <3>6, <3>8 DEF IInv, PairsMatch, BaselineMatches
      <3> QED
        BY <1>2, <2>1, <2>2, <3>7, <3>9
    <2> QED
      BY <2>3, <2>4
  <1>6. CASE Restart
    <2>1. /\ predictors' = [u \in Users |-> Nothing]
          /\ loading' = Nothing
          /\ UNCHANGED <<csv, files, training, calibrating>>
      BY <1>6 DEF Restart
    <2>2. LoadingCurrent' /\ PairsMatch' /\ BaselineMatches'
      BY <2>1 DEF LoadingCurrent, PairsMatch, BaselineMatches
    <2>3. predictors' \in [Users -> Predictor \cup {Nothing}]
      BY <2>1
    <2> QED
      BY <1>2, <2>1, <2>2, <2>3
  <1> QED
    BY <1>3, <1>4, <1>5, <1>6

LEMMA StepPreserves == IInv /\ [Next]_vars => IInv'
  <1>1. ASSUME IInv, Next
        PROVE  IInv'
    BY <1>1, DataSteps, TrainingSteps, CalibrationSteps, ServerSteps DEF Next
  <1>2. ASSUME IInv, UNCHANGED vars
        PROVE  IInv'
    <2>1. UNCHANGED <<csv, files, training, calibrating, loading, predictors>>
      BY <1>2 DEF vars
    <2>2. TypeOK'
      BY <1>2, <2>1 DEF IInv, TypeOK
    <2>3. BestKnown' /\ SavingLast' /\ SavedBest' /\ ScalerSaved'
      BY <1>2, <2>1, TrainingUndisturbed DEF IInv
    <2>4. CalibrationCurrent'
      BY <1>2, <2>1 DEF IInv, CalibrationCurrent, Settled, Improved
    <2>5. LoadingCurrent'
      BY <1>2, <2>1 DEF IInv, LoadingCurrent, Settled, Improved
    <2>6. PairsMatch' /\ BaselineMatches'
      BY <1>2, <2>1, PredictorsUndisturbed DEF IInv
    <2> QED
      BY <2>2, <2>3, <2>4, <2>5, <2>6 DEF IInv
  <1> QED
    BY <1>1, <1>2

-----------------------------------------------------------------------------
(* The theorems.                                                            *)

(* IInv holds in every reachable state, whatever is killed or restarted and *)
(* however the three programs interleave.                                   *)
THEOREM Invariant == Spec => []IInv
  BY InitEstablishes, StepPreserves, PTL DEF Spec

(* A training never exceeds its epochs or its patience, and a file never    *)
(* holds but what a script writes to it.                                    *)
THEOREM TypeCorrect == Spec => []TypeOK
  <1>1. IInv => TypeOK
    BY DEF IInv
  <1> QED
    BY <1>1, Invariant, PTL

(* The checkpoint is the first epoch with the least loss, for every number  *)
(* of epochs, every patience and every sequence of losses, NaN included     *)
(* (train.py:132-140).                                                      *)
THEOREM BestIsKept == Spec => []CheckpointIsBest
  <1>1. IInv => CheckpointIsBest
    <2>1. SUFFICES ASSUME IInv, Improved, training.pc # "saving"
                   PROVE  files.checkpoint = [run |-> training.run, data |-> training.data,
                                              epoch |-> NumberOfBest]
      BY DEF CheckpointIsBest
    <2>2. PICK i \in DOMAIN training.losses :
              /\ FirstBest(i)
              /\ files.checkpoint = [run |-> training.run, data |-> training.data, epoch |-> i]
      BY <2>1 DEF IInv, SavedBest
    <2>3. NumberOfBest = i
      BY <2>1, <2>2, NumberOfFirstBest DEF IInv
    <2> QED
      BY <2>2, <2>3
  <1> QED
    BY <1>1, Invariant, PTL

(* A predictor scales with the scaler its weights were trained with, unless *)
(* the last training was under way, killed or without improvement, or       *)
(* another began, when it was made (train.py, predictor.py:35-44).          *)
THEOREM ScalerFits == Spec => []PairsMatch
  <1>1. IInv => PairsMatch
    BY DEF IInv
  <1> QED
    BY <1>1, Invariant, PTL

(* A calibration made after the last training had ended, and read with its  *)
(* files, is of the weights and the scaler it is used with (calibrate.py,   *)
(* predictor.py:51-55).                                                     *)
THEOREM CalibrationFits == Spec => []BaselineMatches
  <1>1. IInv => BaselineMatches
    BY DEF IInv
  <1> QED
    BY <1>1, Invariant, PTL
=============================================================================
