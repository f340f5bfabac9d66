------------------------------- MODULE Training -------------------------------
(***************************************************************************)
(* The anomaly model: the script that trains it (ml/anomaly/train.py), the *)
(* one that measures its baseline (ml/anomaly/calibrate.py) and the        *)
(* predictors that load what these wrote (ml/anomaly/predictor.py, held by *)
(* the scheduler and by the anomaly API).  They are processes of their own *)
(* that share three files: the checkpoint, the scaler and the calibration. *)
(* A file is truncated when it is opened for writing and holds something   *)
(* again when the writing is done; a script may be killed at any time and  *)
(* the server restarted.                                                   *)
(* Weights are the training and the epoch they are from, a scaler is the   *)
(* version of the data set it was fitted to, a calibration is the weights  *)
(* and the scaler it was made with.                                        *)
(***************************************************************************)
EXTENDS Naturals, Sequences

CONSTANTS
    EPOCHS,         \* epochs of a training (50)
    PATIENCE,       \* epochs without a better loss before it stops (7)
    Losses,         \* validation losses
    NaN,            \* the loss of weights that have diverged
    Missing, Torn,  \* what a file may be instead of what is written to it
    Nothing,        \* no predictor, no value yet
    Users,          \* who holds a predictor: the scheduler, the API
    MaxRuns,        \* bound: trainings
    MaxData         \* bound: versions of the data set

ASSUME TrainingAssumption ==
    /\ {EPOCHS, PATIENCE} \subseteq Nat \ {0}
    /\ Losses \subseteq Nat /\ NaN \notin Nat
    /\ MaxRuns \in Nat /\ MaxData \in Nat \ {0}

VARIABLES
    csv,            \* synthetic_traffic.csv: its version, and whether it has the columns
                    \* that the scripts read
    files,          \* checkpoint, scaler, calibration
    training,       \* the present or last training
    calibrating,    \* the present or last calibration
    loading,        \* the predictor that is being made, or Nothing
    predictors      \* the predictors of the server

vars == <<csv, files, training, calibrating, loading, predictors>>

Data == 1 .. MaxData
Runs == 0 .. MaxRuns
Weights == [run : Runs, epoch : 1 .. EPOCHS, data : Data]
Calibration == [weights : Weights, scaler : Data]

(* Of a predictor: settled and measured are history, see Settled, Measured. *)
Predictor == [weights : Weights, scaler : Data, baseline : Calibration \cup {Missing},
              settled : BOOLEAN, measured : BOOLEAN]
Loading == [user : Users, weights : Weights, scaler : Data \cup {Nothing},
            run : Runs, settled : BOOLEAN]

TypeOK ==
    /\ csv \in [version : Data, readable : BOOLEAN]
    /\ files \in [checkpoint : Weights \cup {Missing, Torn}, scaler : Data \cup {Missing, Torn},
                  calibration : Calibration \cup {Missing, Torn}]
    /\ training \in [pc : {"epoch", "saving", "scaling", "ended", "killed"}, run : Runs,
                     data : Data, losses : Seq(Nat \cup {NaN}), best : Losses \cup {NaN},
                     patience : 0 .. PATIENCE]
    /\ Len(training.losses) <= EPOCHS
    /\ calibrating \in [pc : {"scaled", "computed", "writing", "ended", "killed"},
                        scaler : Data \cup {Nothing}, weights : Weights \cup {Nothing},
                        run : Runs, settled : BOOLEAN]
    /\ loading \in Loading \cup {Nothing}
    /\ predictors \in [Users -> Predictor \cup {Nothing}]

NoCalibration == [pc |-> "killed", scaler |-> Nothing, weights |-> Nothing, run |-> 0,
                  settled |-> FALSE]

(* The repository holds a model; before it did there were no files.         *)
ShippedWeights == [run |-> 0, epoch |-> 1, data |-> 1]
ShippedCalibration == [weights |-> ShippedWeights, scaler |-> 1]

Init ==
    /\ csv = [version |-> 1, readable |-> TRUE]
    /\ loading = Nothing
    /\ predictors = [u \in Users |-> Nothing]
    /\ \E shipped \in BOOLEAN :
         /\ files = IF shipped
                    THEN [checkpoint |-> ShippedWeights, scaler |-> 1,
                          calibration |-> ShippedCalibration]
                    ELSE [checkpoint |-> Missing, scaler |-> Missing, calibration |-> Missing]
         /\ training = [pc |-> "ended", run |-> 0, data |-> 1, best |-> NaN, patience |-> 0,
                        losses |-> IF shipped THEN <<0>> ELSE <<>>]
         /\ calibrating = IF shipped THEN [NoCalibration EXCEPT !.pc = "ended", !.settled = TRUE]
                                     ELSE NoCalibration

Running == training.pc \in {"epoch", "saving", "scaling"}
Calibrates == calibrating.pc \in {"scaled", "computed", "writing"}
Intact(file) == file \notin {Missing, Torn}

-----------------------------------------------------------------------------
(* train.py.                                                                *)

(* generator.py writes another data set, with a column avg_latency_ms.      *)
Generate ==
    /\ csv.version < MaxData
    /\ csv' = [version |-> csv.version + 1, readable |-> FALSE]
    /\ UNCHANGED <<files, training, calibrating, loading, predictors>>

(* Both scripts read avg_latency, and the data set in the repository has it:*)
(* no code renames it.                                                      *)
RenameColumn ==
    /\ csv' = [csv EXCEPT !.readable = TRUE]
    /\ UNCHANGED <<files, training, calibrating, loading, predictors>>

(* The data set is read and the scaler fitted; nothing is written.  NaN as  *)
(* the best loss stands for infinity.  A column that is missing is a        *)
(* KeyError before anything is changed.                                     *)
TrainStart ==
    /\ ~Running /\ training.run < MaxRuns
    /\ csv.readable
    /\ training' = [pc |-> "epoch", run |-> training.run + 1, data |-> csv.version, losses |-> <<>>,
                    best |-> NaN, patience |-> 0]
    /\ UNCHANGED <<csv, files, calibrating, loading, predictors>>

(* NaN is less than nothing.                                                *)
Better(loss) == loss # NaN /\ (training.best = NaN \/ loss < training.best)

(* Mutant: one epoch too many.                                              *)
LoopEndsLate == training.patience >= PATIENCE \/ Len(training.losses) > EPOCHS

(* The loop ends after the last epoch or PATIENCE that were no better.      *)
LoopEnds == training.patience >= PATIENCE \/ Len(training.losses) = EPOCHS

Validated(loss, change) ==
    /\ training.pc = "epoch" /\ ~LoopEnds
    /\ training' = [change EXCEPT !.losses = Append(@, loss),
                                  !.pc = IF Better(loss) THEN "saving" ELSE "epoch"]
    /\ files' = IF Better(loss) THEN [files EXCEPT !.checkpoint = Torn] ELSE files
    /\ UNCHANGED <<csv, calibrating, loading, predictors>>

(* Mutant: the best loss is the last one that was better than infinity.     *)
EpochForgetting(loss) ==
    Validated(loss, IF Better(loss) THEN [training EXCEPT !.patience = 0]
                                    ELSE [training EXCEPT !.patience = @ + 1])

Epoch(loss) ==
    Validated(loss, IF Better(loss) THEN [training EXCEPT !.best = loss, !.patience = 0]
                                    ELSE [training EXCEPT !.patience = @ + 1])

SaveCheckpoint ==
    /\ training.pc = "saving"
    /\ files' = [files EXCEPT !.checkpoint = [run |-> training.run, data |-> training.data,
                                              epoch |-> Len(training.losses)]]
    /\ training' = [training EXCEPT !.pc = "epoch"]
    /\ UNCHANGED <<csv, calibrating, loading, predictors>>

OpenScaler ==
    /\ training.pc = "epoch" /\ LoopEnds
    /\ files' = [files EXCEPT !.scaler = Torn]
    /\ training' = [training EXCEPT !.pc = "scaling"]
    /\ UNCHANGED <<csv, calibrating, loading, predictors>>

(* Mutant: the scaler of the data set as it is now.                         *)
SaveScalerLate ==
    /\ training.pc = "scaling"
    /\ files' = [files EXCEPT !.scaler = csv.version]
    /\ training' = [training EXCEPT !.pc = "ended", !.best = NaN, !.patience = 0]
    /\ UNCHANGED <<csv, calibrating, loading, predictors>>

SaveScaler ==
    /\ training.pc = "scaling"
    /\ files' = [files EXCEPT !.scaler = training.data]
    /\ training' = [training EXCEPT !.pc = "ended", !.best = NaN, !.patience = 0]
    /\ UNCHANGED <<csv, calibrating, loading, predictors>>

TrainKilled ==
    /\ Running
    /\ training' = [training EXCEPT !.pc = "killed", !.best = NaN, !.patience = 0, !.losses = <<>>]
    /\ UNCHANGED <<csv, files, calibrating, loading, predictors>>

-----------------------------------------------------------------------------
(* calibrate.py.                                                            *)

Improved == \E i \in DOMAIN training.losses : training.losses[i] # NaN

(* The last training ended, and one of its epochs was saved.                *)
Settled == training.pc = "ended" /\ Improved

(* The calibration was made of what the last training left.                 *)
Measured == calibrating.pc = "ended" /\ calibrating.settled /\ calibrating.run = training.run

CalibrateStart ==
    /\ ~Calibrates
    /\ csv.readable
    /\ Intact(files.scaler)
    /\ calibrating' = [pc |-> "scaled", scaler |-> files.scaler, weights |-> Nothing,
                       run |-> training.run, settled |-> Settled]
    /\ UNCHANGED <<csv, files, training, loading, predictors>>

(* A checkpoint that is none ends the script.                               *)
CalibrateLoad ==
    /\ calibrating.pc = "scaled"
    /\ calibrating' = IF Intact(files.checkpoint)
                      THEN [calibrating EXCEPT !.pc = "computed", !.weights = files.checkpoint]
                      ELSE NoCalibration
    /\ UNCHANGED <<csv, files, training, loading, predictors>>

(* Mutant: a calibration that is there is left alone.                       *)
CalibrateOpenOnce ==
    /\ calibrating.pc = "computed"
    /\ IF Intact(files.calibration)
       THEN /\ calibrating' = [calibrating EXCEPT !.pc = "ended", !.scaler = Nothing,
                                                  !.weights = Nothing]
            /\ files' = files
       ELSE /\ calibrating' = [calibrating EXCEPT !.pc = "writing"]
            /\ files' = [files EXCEPT !.calibration = Torn]
    /\ UNCHANGED <<csv, training, loading, predictors>>

CalibrateOpen ==
    /\ calibrating.pc = "computed"
    /\ calibrating' = [calibrating EXCEPT !.pc = "writing"]
    /\ files' = [files EXCEPT !.calibration = Torn]
    /\ UNCHANGED <<csv, training, loading, predictors>>

CalibrateWrite ==
    /\ calibrating.pc = "writing"
    /\ calibrating' = [calibrating EXCEPT !.pc = "ended", !.scaler = Nothing, !.weights = Nothing]
    /\ files' = [files EXCEPT !.calibration =
                   [weights |-> calibrating.weights, scaler |-> calibrating.scaler]]
    /\ UNCHANGED <<csv, training, loading, predictors>>

CalibrateKilled ==
    /\ Calibrates
    /\ calibrating' = NoCalibration
    /\ UNCHANGED <<csv, files, training, loading, predictors>>

-----------------------------------------------------------------------------
(* predictor.py: one predictor is made at a time, in the event loop; an     *)
(* exception leaves its holder without one, who tries again: the scheduler  *)
(* in its next cycle, the API at its next request.                          *)

LoadCheckpoint(u) ==
    /\ loading = Nothing
    /\ predictors[u] = Nothing
    /\ Intact(files.checkpoint)
    /\ loading' = [user |-> u, weights |-> files.checkpoint, scaler |-> Nothing,
                   run |-> training.run, settled |-> Settled]
    /\ UNCHANGED <<csv, files, training, calibrating, predictors>>

LoadScaler ==
    /\ loading # Nothing /\ loading.scaler = Nothing
    /\ loading' = IF Intact(files.scaler) THEN [loading EXCEPT !.scaler = files.scaler]
                                          ELSE Nothing
    /\ UNCHANGED <<csv, files, training, calibrating, predictors>>

(* Without a calibration there are defaults.                                *)
LoadCalibration ==
    /\ loading # Nothing /\ loading.scaler # Nothing
    /\ loading' = Nothing
    /\ predictors' =
         IF files.calibration = Torn THEN predictors
         ELSE [predictors EXCEPT ![loading.user] =
                [weights |-> loading.weights, scaler |-> loading.scaler,
                 baseline |-> files.calibration,
                 settled |-> loading.settled /\ loading.run = training.run,
                 measured |-> Measured]]
    /\ UNCHANGED <<csv, files, training, calibrating>>

(* The server stops, crashes, and is started again.                         *)
Restart ==
    /\ predictors' = [u \in Users |-> Nothing]
    /\ loading' = Nothing
    /\ UNCHANGED <<csv, files, training, calibrating>>

Next ==
    \/ Generate \/ RenameColumn \/ TrainStart \/ TrainKilled
    \/ \E loss \in Losses \cup {NaN} : Epoch(loss)
    \/ SaveCheckpoint \/ OpenScaler \/ SaveScaler
    \/ CalibrateStart \/ CalibrateLoad \/ CalibrateOpen \/ CalibrateWrite \/ CalibrateKilled
    \/ \E u \in Users : LoadCheckpoint(u)
    \/ LoadScaler \/ LoadCalibration
    \/ Restart

Spec == Init /\ [][Next]_vars

-----------------------------------------------------------------------------
(* Properties.                                                              *)

NumberOfBest ==
    CHOOSE i \in DOMAIN training.losses :
        /\ training.losses[i] # NaN
        /\ \A j \in DOMAIN training.losses :
             training.losses[j] # NaN =>
                \/ training.losses[i] < training.losses[j]
                \/ training.losses[i] = training.losses[j] /\ i <= j

(* At every point of a training, but for the writing itself, the checkpoint *)
(* is the first of its epochs with the least loss: later epochs, equal,     *)
(* worse or diverged ones, never replace it, and neither does a calibration *)
(* or a load.  (train.py:132-140.)                                          *)
CheckpointIsBest ==
    Improved /\ training.pc # "saving" =>
        files.checkpoint = [run |-> training.run, data |-> training.data, epoch |-> NumberOfBest]

(* A predictor scales its input with the scaler its weights were trained    *)
(* with, although the checkpoint is written during a training and the       *)
(* scaler only when it has ended: unless it was made when the last training *)
(* was under way, had been killed or had never improved, or another one     *)
(* began meanwhile.  (train.py:134, 144, predictor.py:35-44.)               *)
PairsMatch ==
    \A u \in Users : predictors[u] # Nothing /\ predictors[u].settled =>
        predictors[u].weights.data = predictors[u].scaler

(* The baseline of a predictor, from which the z-score of its answers is    *)
(* computed (a diagnostic: the severity compares the error with fixed       *)
(* thresholds), was measured with its own weights and scaler, if the        *)
(* calibration was made after the last training had ended: no older         *)
(* calibration survives one, whatever was killed before.                    *)
(* (calibrate.py:111, predictor.py:51-55, 131.)                             *)
BaselineMatches ==
    \A u \in Users :
        LET p == predictors[u]
        IN  p # Nothing /\ p.settled /\ p.measured =>
                p.baseline = [weights |-> p.weights, scaler |-> p.scaler]
=============================================================================
