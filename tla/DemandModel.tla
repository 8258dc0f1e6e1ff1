----------------------------- MODULE DemandModel ------------------------------
(***************************************************************************)
(* The demand model's training (services/demand_retrain_job.py) and the    *)
(* process-wide cache of its result: a prediction                          *)
(* (GET /demand-forecast/predict) runs on the event loop and trains when   *)
(* the cache is empty, an administrator's forced retraining                *)
(* (POST /admin/retrain-demand-model) runs in a worker thread, and the     *)
(* nightly script trains in a process of its own.  A training is a row of  *)
(* demand_model_training_runs; what it fits is left out, and which         *)
(* behaviour logs it read is kept.                                         *)
(***************************************************************************)
EXTENDS Integers, Sequences, FiniteSets

CONSTANTS
    Loop,           \* the event loop: one prediction at a time
    Admin,          \* worker threads with a forced retraining
    Cron,           \* the script's process
    MaxLogs,        \* bound: sessions that complete
    MaxRuns         \* bound: trainings

ASSUME DemandAssumption ==
    /\ Loop # Cron /\ Loop \notin Admin /\ Cron \notin Admin
    /\ MaxLogs \in Nat /\ MaxRuns \in Nat

VARIABLES
    logs,           \* rows of charging_behavior_logs
    runs,           \* rows of demand_model_training_runs: real_data_rows, and who trained
    cached,         \* _cached_result: the training it is from, or None
    job,            \* each caller's phase and locals
    overlapped      \* history: the server ever trained twice at once

demandVars == <<logs, runs, cached, job, overlapped>>

None == 0
Caller == {Loop, Cron} \cup Admin
NoJob == [phase |-> "idle", rows |-> 0, run |-> None, model |-> None, failed |-> FALSE]
Training == {c \in Caller \ {Cron} : job[c].phase \in {"training", "trained", "cleared"}}

DemandInit ==
    /\ logs = 0
    /\ runs = <<>>
    /\ cached = None
    /\ job = [c \in Caller |-> NoJob]
    /\ overlapped = FALSE

\* A session completes (routers/sessions.py).
CompleteSession ==
    /\ logs < MaxLogs
    /\ logs' = logs + 1
    /\ UNCHANGED <<runs, cached, job, overlapped>>

\* build_training_history reads the logs there are.
Train(c) ==
    /\ job[c].phase = "idle"
    /\ c = Loop => cached = None
    /\ job' = [job EXCEPT ![c] = [NoJob EXCEPT !.phase = "training", !.rows = logs]]
    /\ overlapped' = (overlapped \/ (c # Cron /\ Training # {}))
    /\ UNCHANGED <<logs, runs, cached>>

\* retrain records the run before anyone sees its result.
RecordRun(c) ==
    /\ job[c].phase = "training"
    /\ Len(runs) < MaxRuns
    /\ runs' = Append(runs, [rows |-> job[c].rows, by |-> c])
    /\ job' = [job EXCEPT ![c].phase = "trained", ![c].run = Len(runs) + 1]
    /\ UNCHANGED <<logs, cached, overlapped>>

\* The fit or the commit raises: nothing is recorded and nothing cached.
TrainingFails(c) ==
    /\ job[c].phase = "training"
    /\ job' = [job EXCEPT ![c] = NoJob]
    /\ UNCHANGED <<logs, runs, cached, overlapped>>

\* force_retrain empties the cache, then fills it; get_or_train_model only fills it.
Clear(c) ==
    /\ c \in Admin
    /\ job[c].phase = "trained"
    /\ cached' = None
    /\ job' = [job EXCEPT ![c].phase = "cleared"]
    /\ UNCHANGED <<logs, runs, overlapped>>

\* A wrong Update: a forced retraining empties the cache after it filled it.
UpdateThenClear(c) ==
    /\ job[c].phase = IF c = Loop THEN "trained" ELSE "cleared"
    /\ cached' = IF c = Loop THEN job[c].run ELSE None
    /\ job' = [job EXCEPT ![c].phase = "reading"]
    /\ UNCHANGED <<logs, runs, overlapped>>

Update(c) ==
    /\ job[c].phase = IF c = Loop THEN "trained" ELSE "cleared"
    /\ cached' = job[c].run
    /\ job' = [job EXCEPT ![c].phase = "reading"]
    /\ UNCHANGED <<logs, runs, overlapped>>

\* The script fills the cache of its own process, which ends with it.
ScriptEnds ==
    /\ job[Cron].phase = "trained"
    /\ job' = [job EXCEPT ![Cron] = NoJob]
    /\ UNCHANGED <<logs, runs, cached, overlapped>>

\* A prediction that finds a model goes on with the shared dictionary.
FindModel ==
    /\ job[Loop].phase = "idle"
    /\ cached # None
    /\ job' = [job EXCEPT ![Loop] = [NoJob EXCEPT !.phase = "reading"]]
    /\ UNCHANGED <<logs, runs, cached, overlapped>>

\* The answer's keys are read one after the other, the model first; a cleared
\* dictionary has none (KeyError).
ReadModel(c) ==
    /\ job[c].phase = "reading"
    /\ job' = [job EXCEPT ![c].phase = IF cached = None THEN "done" ELSE "rest",
                          ![c].model = cached, ![c].failed = (cached = None)]
    /\ UNCHANGED <<logs, runs, cached, overlapped>>

ReadRest(c) ==
    /\ job[c].phase = "rest"
    /\ job' = [job EXCEPT ![c].phase = "done", ![c].run = cached, ![c].failed = (cached = None)]
    /\ UNCHANGED <<logs, runs, cached, overlapped>>

Respond(c) ==
    /\ job[c].phase = "done"
    /\ job' = [job EXCEPT ![c] = NoJob]
    /\ UNCHANGED <<logs, runs, cached, overlapped>>

DemandNext ==
    \/ CompleteSession
    \/ ScriptEnds
    \/ FindModel
    \/ \E c \in Caller : \/ Train(c) \/ RecordRun(c) \/ TrainingFails(c)
    \/ \E c \in Caller \ {Cron} : \/ Clear(c) \/ Update(c)
                                  \/ ReadModel(c) \/ ReadRest(c) \/ Respond(c)

DemandSpec == DemandInit /\ [][DemandNext]_demandVars

-----------------------------------------------------------------------------
\* Unless two of the server's trainings ever overlapped, it predicts with the newest
\* model it has finished making, which was fitted to every session the earlier ones
\* had read; the script's trainings never reach it.  Once it has one, it is without
\* a model only while a forced retraining has emptied the cache and not yet filled it
\* again (demand_retrain_job.py:71-110).
ServedModelIsTheNewest ==
    ~overlapped =>
        LET unseen == {job[c].run : c \in {d \in Training : job[d].phase # "training"}}
            mine == {i \in DOMAIN runs : runs[i].by # Cron} \ unseen
        IN /\ cached \in mine \cup {None}
           /\ cached = None => mine = {} \/ \E c \in Admin : job[c].phase = "cleared"
           /\ cached # None => \A i \in mine : i <= cached /\ runs[i].rows <= runs[cached].rows

=============================================================================
