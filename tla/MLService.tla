------------------------------ MODULE MLService ------------------------------
(***************************************************************************)
(* services/ml_service.py with analysis/ml_pipeline.py, the life cycle of  *)
(* analysis/ml_anomaly_detector.py and analysis/rule_detector.py: training *)
(* once enough history is there, the model file across crashes and         *)
(* restarts, the cache of the last result, the ensemble and the two        *)
(* histories that the browser draws.                                       *)
(*                                                                         *)
(* The provider's lock lets one predict() run at a time; clear_logs() is   *)
(* not under that lock and may run between any two steps of it.  The       *)
(* forest's fit and its scores are external: any verdict may come out.     *)
(***************************************************************************)
EXTENDS MLCharts

CONSTANTS MinSamples,       \* ML_MIN_TRAINING_SAMPLES, 120 seconds
          MaxRecords,       \* ML_MAX_CHART_RECORDS, 200
          MaxScores,        \* ML_MAX_SCORE_HISTORY, 120
          DisplayRecords,   \* ML_DISPLAY_RECORDS, 100
          DisplayScores,    \* ML_DISPLAY_SCORES, 60
          CacheLife,        \* ML_CACHE_DURATION_SEC, 1
          Limit,            \* RuleDetector.DEFAULT_THRESHOLDS, by statistic
          Stats,            \* statistics the store may report
          Verdict,          \* the AnomalyResults the forest may return
          ForestThreshold,  \* offset_ of a fitted forest
          DefaultThreshold, \* ML_DEFAULT_THRESHOLD, -0.3
          FallbackScore,    \* ML_FALLBACK_ANOMALY_SCORE, -0.5
          RuleConfidence,   \* ML_RULE_ONLY_CONFIDENCE, 0.5
          MaxStarts,        \* bound on the starts of the process
          None              \* Python's None

ASSUME MLAssumption ==
  /\ {MinSamples, MaxRecords, MaxScores, DisplayRecords, DisplayScores, CacheLife}
       \subseteq Nat \ {0}
  /\ MaxScores <= MaxRecords /\ MaxStarts \in Nat

\* The forest finds an anomaly where its score is below its threshold, but the score
\* in the verdict is rounded and may have become the threshold.  The confidence is a
\* sigmoid that is one half at the threshold.
ASSUME VerdictAssumption ==
  \A v \in Verdict :
    /\ v.is_anomaly \in BOOLEAN /\ v.anomaly_score \in Int
    /\ v.is_anomaly => v.anomaly_score <= ForestThreshold
    /\ ~v.is_anomaly => v.anomaly_score >= ForestThreshold
    /\ v.is_anomaly => v.confidence >= RuleConfidence

\* Scores are negative, and so is every threshold: 0 stands for no score at all.
ASSUME ThresholdAssumption ==
  /\ ForestThreshold \in Int /\ ForestThreshold <= 0
  /\ DefaultThreshold \in Int /\ DefaultThreshold <= 0

\* The store always reports how many checksums were wrong, and that has a limit.
ASSUME RuleAssumption ==
  /\ RuleConfidence \in Int
  /\ "checksum_fail_rate" \in DOMAIN Limit
  /\ Stats # {} /\ \A s \in Stats : "checksum_fail_rate" \in DOMAIN s

VARIABLES process,          \* "down", "up", or "failed": create_app() raised
          starts,           \* how often the process was started
          file,             \* the model file: [content, model]
          fitted,           \* the model of the detector, or None
          last_result,      \* MLPipeline._last_result
          last_age,         \* time since _last_predict_time, at most CacheLife
          records,          \* self._records
          score_history,    \* self._score_history
          epoch,            \* how often reset() was called, modulo 2
          stats,            \* what the store reports: get_stats_dict() and the rates
          samples,          \* seconds in get_stats_history(limit=MinSamples)
          pc,               \* where predict() is
          current,          \* its current_stats
          begun,            \* the epoch it took them in
          ready,            \* its ml_ready
          ml_result,        \* its ml_result
          response,         \* what it returns, until that is delivered
          clearing          \* where clear_logs() is

modelVars == <<process, starts, file, fitted>>
cacheVars == <<last_result, last_age>>
historyVars == <<records, score_history, epoch>>
storeVars == <<stats, samples>>
callVars == <<pc, current, begun, ready, ml_result, response>>
mlVars == <<modelVars, cacheVars, historyVars, storeVars, callVars, clearing>>

EmptyStats == [k \in DOMAIN (CHOOSE s \in Stats : TRUE) |-> 0]

\* A file holds nothing at all ("absent", "empty"), a part of a model ("cut"), a
\* model of another version ("old"), or one ("whole"), which knows in which run of
\* the process and on how much it was fitted.
Holding(content) == [content |-> content, model |-> None]

\* dict.get()
Get(dict, key, default) == IF key \in DOMAIN dict THEN dict[key] ELSE default

\* RuleDetector.detect(): the statistics that break a rule.
ViolatedRules(s) == {k \in DOMAIN Limit : Get(s, k, 0) > Limit[k]}

\* AnomalyResult of a detector that is not fitted.
DefaultResult == [is_anomaly |-> FALSE, anomaly_score |-> 0, confidence |-> 0,
                  contributing_features |-> {}]

ASSUME MLNoneAssumption ==
  /\ None \notin Verdict \cup {DefaultResult} /\ None \notin {"Both", "ML", "Rule"}
  /\ None \notin [born : Nat, samples : Nat]

\* Everything the process holds in memory when it starts.
FreshMemory ==
  /\ last_result' = None /\ last_age' = CacheLife
  /\ records' = <<>> /\ score_history' = <<>> /\ epoch' = 0
  /\ stats' = EmptyStats /\ samples' = 0
  /\ pc' = "idle" /\ current' = None /\ begun' = 0 /\ ready' = FALSE
  /\ ml_result' = None /\ response' = None /\ clearing' = "idle"

MLInit ==
  /\ process = "down" /\ starts = 0
  /\ file \in {Holding("absent"), Holding("old")} /\ fitted = None
  /\ last_result = None /\ last_age = CacheLife
  /\ records = <<>> /\ score_history = <<>> /\ epoch = 0
  /\ stats = EmptyStats /\ samples = 0
  /\ pc = "idle" /\ current = None /\ begun = 0 /\ ready = FALSE
  /\ ml_result = None /\ response = None /\ clearing = "idle"

-----------------------------------------------------------------------------
(* The process and the model file *)

\* Mutation of Loaded: the version is not compared.
LoadedAnyVersion ==
  IF file.content = "old" THEN [born |-> starts + 1, samples |-> 0] ELSE file.model

\* load(): a file that is cut within a frame fails to unpickle and one of another
\* version raises ValueError, both of which _try_load_model() catches.
Loaded == IF file.content = "whole" THEN file.model ELSE None

\* How loading may end.  An empty file, or one cut between two pickle frames,
\* raises EOFError, which neither _try_load_model() nor _init_detectors() catches.
AfterLoad ==
  CASE file.content = "empty" -> {"failed"}
    [] file.content = "cut" -> {"up", "failed"}
    [] OTHER -> {"up"}

\* create_app(): MLService() loads the model.
Start ==
  /\ process # "up" /\ starts < MaxStarts
  /\ starts' = starts + 1
  /\ process' \in AfterLoad
  /\ fitted' = Loaded
  /\ FreshMemory
  /\ UNCHANGED file

Crash ==
  /\ process = "up"
  /\ process' = "down" /\ fitted' = None
  /\ FreshMemory
  /\ UNCHANGED <<starts, file>>

-----------------------------------------------------------------------------
(* predict() *)

Step(from, to) == process = "up" /\ pc = from /\ pc' = to

\* Another second in get_stats_history(limit).
OneMoreSecond(n) == IF n < MinSamples THEN n + 1 ELSE n

\* update_data(): the packets processed before predict() change the statistics,
\* and may begin another second.
UpdateData ==
  /\ Step("idle", "stats")
  /\ stats' \in Stats
  /\ samples' \in {samples, OneMoreSecond(samples)}
  /\ UNCHANGED <<modelVars, cacheVars, historyVars, current, begun, ready, ml_result,
                 response, clearing>>

\* _get_current_stats()
GetStats ==
  /\ Step("stats", "train")
  /\ current' = stats /\ begun' = epoch
  /\ ready' = FALSE /\ ml_result' = None
  /\ UNCHANGED <<modelVars, cacheVars, historyVars, storeVars, response, clearing>>

Untouched == UNCHANGED <<cacheVars, historyVars, storeVars, current, begun, ml_result,
                         response, clearing>>

\* A fitted model is used as it is.
UseModel ==
  /\ fitted # None
  /\ Step("train", "predict") /\ ready' = TRUE
  /\ UNCHANGED modelVars /\ Untouched

\* Mutation of HasHistory: > for >=, which the limit of the history never meets.
HasMoreHistory == samples > MinSamples

HasHistory == samples >= MinSamples

\* Too few seconds of history: rules only.
RulesOnly ==
  /\ fitted = None /\ ~HasHistory
  /\ Step("train", "append")
  /\ UNCHANGED <<modelVars, ready>> /\ Untouched

\* train() catches whatever fit() raises and returns False, which predict()
\* does not look at.
FitFails ==
  /\ fitted = None /\ HasHistory
  /\ Step("train", "predict") /\ ready' = TRUE
  /\ UNCHANGED modelVars /\ Untouched

\* train() and fit(), which the limits of 120 seconds in both places let through.
Fit ==
  /\ fitted = None /\ HasHistory
  /\ Step("train", "save") /\ ready' = TRUE
  /\ fitted' = [born |-> starts, samples |-> samples]
  /\ UNCHANGED <<process, starts, file>> /\ Untouched

\* save(): open(filepath, "wb") empties the file that is there.
SaveOpens ==
  /\ Step("save", "write")
  /\ file' = Holding("empty")
  /\ UNCHANGED <<process, starts, fitted, ready>> /\ Untouched

\* pickle.dump() writes the file piece by piece.
SaveWrites ==
  /\ Step("write", "write")
  /\ file' = Holding("cut")
  /\ UNCHANGED <<process, starts, fitted, ready>> /\ Untouched

SaveCloses ==
  /\ Step("write", "predict")
  /\ file' = [content |-> "whole", model |-> fitted]
  /\ UNCHANGED <<process, starts, fitted, ready>> /\ Untouched

\* The directory, the file or the disk refuses; train() catches OSError and
\* leaves the file as it is.
SaveFails ==
  /\ \/ Step("save", "predict")
     \/ Step("write", "predict")
  /\ UNCHANGED <<modelVars, ready>> /\ Untouched

CacheIsFresh == last_result # None /\ last_age < CacheLife

\* Mutation of Answer: what a detector without a model returns is cached too.
AnswerCached ==
  \E v \in IF fitted = None THEN {DefaultResult} ELSE Verdict :
    ml_result' = v /\ last_result' = v /\ last_age' = 0

\* The default, or a verdict of the forest, which is cached.
Answer ==
  \/ fitted = None /\ ml_result' = DefaultResult /\ UNCHANGED cacheVars
  \/ fitted # None /\ \E v \in Verdict : ml_result' = v /\ last_result' = v /\ last_age' = 0

\* MLPipeline.predict()
Predict ==
  /\ Step("predict", "append")
  /\ \/ CacheIsFresh /\ ml_result' = last_result /\ UNCHANGED cacheVars
     \/ ~CacheIsFresh /\ Answer
  /\ UNCHANGED <<modelVars, historyVars, storeVars, current, begun, ready, response,
                 clearing>>

\* The entry of this prediction, without its time stamp; `epoch`, `scored` and
\* `anomaly` are what the properties remember of it.
Entry(r) == [score |-> r.anomaly_score, epoch |-> begun, scored |-> ml_result # None,
             anomaly |-> r.is_anomaly]

\* _append_record() and _append_score(), both under the history lock: a record
\* without a score keeps 0.
AppendHistory ==
  /\ Step("append", "build")
  /\ records' = AppendBounded(records,
                  Entry(IF ml_result = None THEN DefaultResult ELSE ml_result), MaxRecords)
  /\ score_history' = IF ml_result = None THEN score_history
                      ELSE AppendBounded(score_history, Entry(ml_result), MaxScores)
  /\ UNCHANGED <<modelVars, cacheVars, storeVars, epoch, current, begun, ready, ml_result,
                 response, clearing>>

MLAnomaly == ml_result # None /\ ml_result.is_anomaly

\* Mutation of IsAnomaly: with a model, only the model is asked.
IsAnomalyMLFirst ==
  IF ml_result # None THEN ml_result.is_anomaly ELSE ViolatedRules(current) # {}

IsAnomaly == MLAnomaly \/ ViolatedRules(current) # {}

DetectionSource ==
  CASE MLAnomaly /\ ViolatedRules(current) # {} -> "Both"
    [] MLAnomaly /\ ViolatedRules(current) = {} -> "ML"
    [] ~MLAnomaly /\ ViolatedRules(current) # {} -> "Rule"
    [] OTHER -> None

\* _calculate_confidence()
Confidence ==
  CASE ml_result # None /\ (MLAnomaly \/ ViolatedRules(current) = {}) -> ml_result.confidence
    [] IsAnomaly /\ ~MLAnomaly -> RuleConfidence
    [] OTHER -> 0

\* _extract_contributing_features(): the forest's, or else the broken rules.
ContributingFeatures ==
  IF ml_result # None /\ ml_result.contributing_features # {}
  THEN ml_result.contributing_features
  ELSE ViolatedRules(current)

\* Mutation of CurrentThreshold: the default, whatever the forest judges by.
CurrentThresholdFixed == DefaultThreshold

\* _get_current_threshold()
CurrentThreshold == IF fitted # None THEN ForestThreshold ELSE DefaultThreshold

\* _build_result()
Result ==
  [model_status  |-> IF ready THEN "ready" ELSE "rule_only",
   is_anomaly    |-> IsAnomaly,
   anomaly_score |-> IF ml_result # None THEN ml_result.anomaly_score
                     ELSE IF IsAnomaly THEN FallbackScore ELSE 0,
   confidence    |-> Confidence,
   threshold     |-> CurrentThreshold,
   detection_source      |-> DetectionSource,
   contributing_features |-> ContributingFeatures,
   rule_violated |-> ViolatedRules(current),
   records       |-> LastN(records, DisplayRecords),
   score_history |-> LastN(score_history, DisplayScores)]

BuildResult ==
  /\ Step("build", "respond")
  /\ response' = Result
  /\ UNCHANGED <<modelVars, cacheVars, historyVars, storeVars, current, begun, ready,
                 ml_result, clearing>>

Deliver ==
  /\ Step("respond", "idle")
  /\ response' = None /\ current' = None /\ begun' = 0
  /\ ready' = FALSE /\ ml_result' = None
  /\ UNCHANGED <<modelVars, cacheVars, historyVars, storeVars, clearing>>

-----------------------------------------------------------------------------
(* The other callbacks, and time *)

\* clear_logs(): store.reset() and stats.reset(), then ml.reset(), which leaves
\* the model and the cached result alone.
ClearStore ==
  /\ process = "up" /\ clearing = "idle" /\ clearing' = "ml"
  /\ stats' = EmptyStats /\ samples' = 0
  /\ UNCHANGED <<modelVars, cacheVars, historyVars, callVars>>

\* Mutations of ClearML: the histories stay; the time line stays.
ClearMLKeeps ==
  /\ process = "up" /\ clearing = "ml" /\ clearing' = "idle"
  /\ epoch' = (epoch + 1) % 2
  /\ UNCHANGED <<modelVars, cacheVars, records, score_history, storeVars, callVars>>

ClearRecordsOnly ==
  /\ process = "up" /\ clearing = "ml" /\ clearing' = "idle"
  /\ records' = <<>> /\ epoch' = (epoch + 1) % 2
  /\ UNCHANGED <<modelVars, cacheVars, score_history, storeVars, callVars>>

\* ml.reset()
ClearML ==
  /\ process = "up" /\ clearing = "ml" /\ clearing' = "idle"
  /\ records' = <<>> /\ score_history' = <<>>
  /\ epoch' = (epoch + 1) % 2
  /\ UNCHANGED <<modelVars, cacheVars, storeVars, callVars>>

\* toggle_direction() holds the provider's lock and resets the store only.
ToggleDirection ==
  /\ process = "up" /\ pc = "idle"
  /\ stats' = EmptyStats /\ samples' = 0
  /\ UNCHANGED <<modelVars, cacheVars, historyVars, callVars, clearing>>

Tick ==
  /\ last_age < CacheLife
  /\ last_age' = last_age + 1
  /\ UNCHANGED <<modelVars, last_result, historyVars, storeVars, callVars, clearing>>

Train == RulesOnly \/ UseModel \/ FitFails \/ Fit
Save == SaveOpens \/ SaveWrites \/ SaveCloses \/ SaveFails
Call == UpdateData \/ GetStats \/ Train \/ Save \/ Predict \/ AppendHistory
        \/ BuildResult \/ Deliver

MLNext == Start \/ Crash \/ Call \/ ClearStore \/ ClearML \/ ToggleDirection \/ Tick

\* The browser polls again and again while the process runs, and the server's
\* thread goes on.  Nothing is assumed of the buttons, of packets or of restarts.
MLSpec == MLInit /\ [][MLNext]_mlVars /\ WF_mlVars(Call)

-----------------------------------------------------------------------------

\* The time line and the chart tell one story, whatever is cleared while a
\* prediction runs: the newest scores on the time line are those of the newest
\* records that were scored, and a response that says "ready" ends with the same
\* prediction in both.
SameTail(s, t) ==
  LET n == IF Len(s) < Len(t) THEN Len(s) ELSE Len(t)
  IN LastN(s, n) = LastN(t, n)

TimelineMatchesChart ==
  /\ Len(score_history) <= Len(records)
  /\ SameTail(Among(records, {r \in ToSet(records) : r.scored}), score_history)
  /\ response # None /\ ready =>
       SameTail(LastN(response.records, 1), LastN(response.score_history, 1))

\* After the logs were cleared at most one record of before comes back: that of
\* the prediction that was running.
OneLateRecord ==
  \A i \in DOMAIN records : i > 1 => records[i].epoch = epoch

\* A model in use was fitted on enough seconds by this version of the program,
\* in this run or in an earlier one, however earlier runs ended; and when a
\* complete model lies on the disk it is the one in use, so that a restart does
\* not change what counts as an anomaly.
NoHalfModel ==
  process = "up" =>
    /\ fitted # None => fitted.samples = MinSamples
    /\ file.content = "whole" => fitted = file.model

\* Once a model is fitted every response carries a verdict of the forest, also
\* right after an attempt that failed.
VerdictIsTheForests ==
  response # None /\ ready /\ fitted # None =>
    response.anomaly_score \in {v.anomaly_score : v \in Verdict}

\* What is drawn is what the forest found, though the charts compare every score
\* anew with the threshold of the moment: a point is red in the 3D chart if and only
\* if it was an anomaly, every anomaly on the time line lies in a shaded region, and
\* regions begin and go on with anomalies.  Left out are scores that were rounded
\* to the threshold, which are drawn as warnings, and an anomaly that is alone at
\* the end of the time line, whose region has no width.
ChartsAgreeWithForest ==
  response # None =>
    LET points == response.records
        line == response.score_history
        red == ToSet(SplitByStatus(points, response.threshold).anomaly)
        regions == ToSet(FindAnomalyRegions(line, response.threshold))
        Exact(e) == e.score # response.threshold
        AloneAtTheEnd(i) ==
          i = Len(line) /\ (i = 1 \/ line[i - 1].score >= response.threshold)
    IN /\ \A i \in DOMAIN points :
            Exact(points[i]) => (points[i] \in red <=> points[i].anomaly)
       /\ \A i \in DOMAIN line :
            line[i].anomaly /\ Exact(line[i]) /\ ~AloneAtTheEnd(i)
              => \E g \in regions : g[1] <= i /\ i <= g[2] /\ g[1] < g[2]
       /\ \A g \in regions : \A i \in g[1]..(g[2] - 1) : line[i].anomaly

\* Once there is enough history, a model is fitted, unless the fit fails, the
\* history goes away or the process dies.
EnoughIsTrained ==
  (process = "up" /\ samples >= MinSamples)
    ~> (fitted # None \/ samples < MinSamples \/ process # "up" \/ (ready /\ fitted = None))

\* ml_service.py:50, the rules always run: the service starts again after any
\* crash.
RestartComesUp == process # "failed"

\* Either detector makes an anomaly: too many wrong checksums count whether or not
\* there is a model, and whatever it says; nothing but a broken rule does besides; and the source is named.
EitherDetectorCounts ==
  response # None =>
    /\ current.checksum_fail_rate > Limit.checksum_fail_rate => response.is_anomaly
    /\ MLAnomaly => response.is_anomaly
    /\ response.is_anomaly => MLAnomaly \/ ViolatedRules(current) # {}
    /\ response.is_anomaly <=> response.detection_source # None
    /\ response.is_anomaly => response.confidence >= RuleConfidence
    /\ ViolatedRules(current) # {} => response.contributing_features # {}
=============================================================================
