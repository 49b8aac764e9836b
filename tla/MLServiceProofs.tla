---------------------------- MODULE MLServiceProofs ----------------------------
(***************************************************************************)
(* What holds of the detectors for every model, every verdict of the       *)
(* forest, every size of the histories and any number of starts, crashes   *)
(* and cleared logs.  The invariant has four parts, about the model and    *)
(* its file, the records of one epoch, the verdicts, and the response.     *)
(***************************************************************************)
EXTENDS MLService, BoundedSeqProofs

Model == [born : Nat, samples : Nat]

\* What is in memory was fitted on enough seconds, and so was what is on the disk;
\* a complete file is the model in memory while the process runs.
ModelInv ==
  /\ starts \in Nat /\ samples \in 0..MinSamples
  /\ fitted \in Model \cup {None}
  /\ fitted # None => fitted.samples = MinSamples
  /\ file.content = "whole" =>
       /\ file.model \in Model /\ file.model.samples = MinSamples
       /\ process = "up" => fitted = file.model
  /\ pc \in {"save", "write"} => fitted # None

MLResult == Verdict \cup {DefaultResult}

MLEntry ==
  [score : {v.anomaly_score : v \in MLResult}, epoch : {0, 1}, scored : BOOLEAN,
   anomaly : BOOLEAN]

\* Where predict() holds statistics it has taken before it wrote its record.
Predicting == {"train", "save", "write", "predict", "append"}

\* A prediction that began before the logs were cleared finds no records, so that
\* its own becomes the first.
EpochInv ==
  /\ records \in Seq(MLEntry) /\ epoch \in {0, 1} /\ begun \in {0, 1}
  /\ \A i \in 1..Len(records) : i > 1 => records[i].epoch = epoch
  /\ pc \in Predicting /\ begun # epoch => records = <<>>

\* The cache holds verdicts of the forest only, and from the moment the model is
\* asked until the response is built it is the forest that answered.
VerdictInv ==
  /\ last_result \in Verdict \cup {None}
  /\ ml_result \in MLResult \cup {None}
  /\ pc \in {"append", "build", "respond"} /\ ready /\ fitted # None => ml_result \in Verdict

\* A response that was not delivered yet still is what predict() would build.
ResponseInv ==
  /\ "checksum_fail_rate" \in DOMAIN stats
  /\ pc \notin {"idle", "stats"} => "checksum_fail_rate" \in DOMAIN current
  /\ response # None =>
       /\ pc = "respond"
       /\ response.is_anomaly = IsAnomaly
       /\ response.detection_source = DetectionSource
       /\ response.confidence = Confidence
       /\ response.contributing_features = ContributingFeatures
       /\ ml_result # None => response.anomaly_score = ml_result.anomaly_score

-----------------------------------------------------------------------------

LEMMA ModelInit == MLInit => ModelInv
BY MLAssumption DEF MLInit, ModelInv, Holding

LEMMA ModelNext == ModelInv /\ [MLNext]_mlVars => ModelInv'
<1> SUFFICES ASSUME ModelInv, [MLNext]_mlVars PROVE ModelInv'
  OBVIOUS
<1> USE MLAssumption, MLNoneAssumption
<1>1. CASE Start
  BY <1>1 DEF Start, FreshMemory, AfterLoad, Loaded, ModelInv
<1>2. CASE Crash
  BY <1>2 DEF Crash, FreshMemory, ModelInv
<1>3. ASSUME UNCHANGED modelVars, samples' \in 0..MinSamples, pc' \notin {"save", "write"}
      PROVE  ModelInv'
  BY <1>3 DEF modelVars, ModelInv
<1>4. ASSUME UNCHANGED modelVars, samples' \in 0..MinSamples, pc' = pc PROVE ModelInv'
  BY <1>4 DEF modelVars, ModelInv
<1>5. CASE UpdateData
  BY <1>3, <1>5 DEF UpdateData, Step, OneMoreSecond, ModelInv
<1>6. CASE GetStats
  BY <1>3, <1>6 DEF GetStats, Step, storeVars, ModelInv
<1>7. CASE UseModel \/ RulesOnly \/ FitFails
  BY <1>3, <1>7 DEF UseModel, RulesOnly, FitFails, Step, Untouched, storeVars, ModelInv
<1>8. CASE Fit
  BY <1>8 DEF Fit, HasHistory, Step, Untouched, storeVars, ModelInv, Model
<1>9. CASE SaveOpens \/ SaveWrites
  BY <1>9 DEF SaveOpens, SaveWrites, Holding, Step, Untouched, storeVars, ModelInv
<1>10. CASE SaveCloses
  BY <1>10 DEF SaveCloses, Step, Untouched, storeVars, ModelInv
<1>11. CASE SaveFails
  BY <1>3, <1>11 DEF SaveFails, Step, Untouched, storeVars, ModelInv
<1>12. CASE Predict \/ AppendHistory \/ BuildResult \/ Deliver
  BY <1>3, <1>12
     DEF Predict, AppendHistory, BuildResult, Deliver, Step, storeVars, ModelInv
<1>13. CASE ClearStore \/ ClearML \/ ToggleDirection \/ Tick
  BY <1>4, <1>13 DEF ClearStore, ClearML, ToggleDirection, Tick, callVars, storeVars, ModelInv
<1>14. CASE UNCHANGED mlVars
  BY <1>4, <1>14 DEF mlVars, callVars, storeVars, ModelInv
<1> QED
  BY <1>1, <1>2, <1>5, <1>6, <1>7, <1>8, <1>9, <1>10, <1>11, <1>12, <1>13, <1>14
     DEF MLNext, Call, Train, Save

\* A complete model that was fitted on enough history, or none.
THEOREM NoHalfModelCorrect == MLSpec => []NoHalfModel
<1>1. ModelInv => NoHalfModel
  BY DEF ModelInv, NoHalfModel
<1> QED BY <1>1, ModelInit, ModelNext, PTL DEF MLSpec

-----------------------------------------------------------------------------

LEMMA VerdictInit == MLInit => VerdictInv
BY DEF MLInit, VerdictInv

LEMMA VerdictNext == VerdictInv /\ [MLNext]_mlVars => VerdictInv'
<1> SUFFICES ASSUME VerdictInv, [MLNext]_mlVars PROVE VerdictInv'
  OBVIOUS
<1> DEFINE Answered == {"append", "build", "respond"}
<1>1. CASE Start \/ Crash
  BY <1>1 DEF Start, Crash, FreshMemory, VerdictInv
<1>2. ASSUME UNCHANGED cacheVars, ml_result' \in {ml_result, None}, pc' \notin Answered
      PROVE  VerdictInv'
  BY <1>2 DEF cacheVars, VerdictInv
<1>3. ASSUME UNCHANGED <<last_result, ml_result, ready, fitted>>, pc' \in Answered => pc \in Answered
      PROVE  VerdictInv'
  BY <1>3 DEF VerdictInv
<1>4. CASE UpdateData \/ GetStats \/ Deliver
  BY <1>2, <1>4 DEF UpdateData, GetStats, Deliver, Step
<1>5. CASE UseModel \/ FitFails \/ Fit \/ SaveOpens \/ SaveWrites \/ SaveCloses \/ SaveFails
  BY <1>2, <1>5
     DEF UseModel, FitFails, Fit, SaveOpens, SaveWrites, SaveCloses, SaveFails, Step, Untouched
<1>6. CASE RulesOnly
  BY <1>6 DEF RulesOnly, Step, Untouched, modelVars, cacheVars, VerdictInv
<1>7. CASE Predict
  BY <1>7 DEF Predict, CacheIsFresh, Answer, Step, modelVars, cacheVars, VerdictInv, MLResult
<1>8. CASE AppendHistory \/ BuildResult
  BY <1>3, <1>8 DEF AppendHistory, BuildResult, Step, modelVars, cacheVars
<1>9. CASE ClearStore \/ ClearML \/ ToggleDirection \/ Tick
  BY <1>3, <1>9
     DEF ClearStore, ClearML, ToggleDirection, Tick, modelVars, cacheVars, callVars
<1>10. CASE UNCHANGED mlVars
  BY <1>3, <1>10 DEF mlVars, modelVars, cacheVars, callVars
<1> QED
  BY <1>1, <1>4, <1>5, <1>6, <1>7, <1>8, <1>9, <1>10 DEF MLNext, Call, Train, Save

-----------------------------------------------------------------------------

LEMMA ResultIsTyped ==
  ASSUME VerdictInv, NEW r \in MLResult, NEW b \in BOOLEAN, begun \in {0, 1}
  PROVE  [score |-> r.anomaly_score, epoch |-> begun, scored |-> b,
          anomaly |-> r.is_anomaly] \in MLEntry
<1>1. r.is_anomaly \in BOOLEAN
  <2>1. CASE r \in Verdict
    BY <2>1, VerdictAssumption
  <2>2. CASE r = DefaultResult
    BY <2>2 DEF DefaultResult
  <2> QED BY <2>1, <2>2 DEF MLResult
<1> QED BY <1>1 DEF MLEntry

LEMMA EpochInit == MLInit => EpochInv
BY DEF MLInit, EpochInv

LEMMA EpochNext == VerdictInv /\ EpochInv /\ [MLNext]_mlVars => EpochInv'
<1> SUFFICES ASSUME VerdictInv, EpochInv, [MLNext]_mlVars PROVE EpochInv'
  OBVIOUS
<1>1. CASE Start \/ Crash
  <2>1. records' = <<>> /\ epoch' = 0 /\ begun' = 0
    BY <1>1 DEF Start, Crash, FreshMemory
  <2> QED BY <2>1 DEF EpochInv
<1>2. ASSUME UNCHANGED <<records, epoch>>, begun' \in {0, 1},
             pc' \in Predicting => begun' = epoch' \/ (begun' = begun /\ pc \in Predicting)
      PROVE  EpochInv'
  BY <1>2 DEF EpochInv
<1>3. CASE UpdateData \/ Deliver
  BY <1>2, <1>3 DEF UpdateData, Deliver, Step, historyVars, Predicting, EpochInv
<1>4. CASE GetStats
  BY <1>2, <1>4 DEF GetStats, Step, historyVars, EpochInv
<1>5. CASE Train \/ Save
  BY <1>2, <1>5
     DEF Train, RulesOnly, UseModel, FitFails, Fit, Save, SaveOpens, SaveWrites, SaveCloses,
         SaveFails, Step, Untouched, historyVars, Predicting, EpochInv
<1>6. CASE Predict \/ BuildResult
  BY <1>2, <1>6 DEF Predict, BuildResult, Step, historyVars, Predicting, EpochInv
<1>7. CASE AppendHistory
  <2> DEFINE e == Entry(IF ml_result = None THEN DefaultResult ELSE ml_result)
             n == MaxRecords
  <2>1. e \in MLEntry /\ e.epoch = begun
    BY <1>7, ResultIsTyped DEF EpochInv, VerdictInv, MLResult, Entry
  <2>2. /\ records' = AppendBounded(records, e, n) /\ epoch' = epoch /\ begun' = begun
        /\ pc = "append" /\ pc' \notin Predicting
    BY <1>7 DEF AppendHistory, Step, Predicting
  <2>3. n \in Nat \ {0} /\ records \in Seq(MLEntry) /\ Len(records) \in Nat
    BY MLAssumption, LenProperties DEF EpochInv
  <2> HIDE DEF e, n
  <2>4. records' \in Seq(MLEntry) /\ IsShift(records', records, e, n)
    BY <2>1, <2>2, <2>3, AppendBoundedShifts
  <2>5. PICK k \in 0..Len(records) :
          /\ Len(records') = Len(records) + 1 - k
          /\ \A i \in 1..(Len(records') - 1) : records'[i] = records[i + k]
    BY <2>4 DEF IsShift
  <2>6. ASSUME NEW i \in 1..Len(records'), i > 1 PROVE records'[i].epoch = epoch
    <3>1. CASE i = Len(records')
      <4>1. records # <<>>
        BY <2>3, <2>5, <2>6, <3>1, EmptySeq
      <4>2. begun = epoch
        BY <2>2, <4>1 DEF EpochInv, Predicting
      <4> QED BY <2>1, <2>4, <3>1, <4>2 DEF IsShift
    <3>2. CASE i # Len(records')
      <4>0. i \in Nat /\ k \in Nat /\ i > 1 /\ i <= Len(records) + 1 - k
            /\ i # Len(records) + 1 - k
        BY <2>3, <2>5, <2>6, <3>2
      <4>1. i \in 1..(Len(records') - 1) /\ i + k \in 1..Len(records) /\ i + k > 1
        BY <2>3, <2>5, <4>0
      <4>2. records'[i] = records[i + k] /\ records[i + k].epoch = epoch
        BY <2>5, <4>1 DEF EpochInv
      <4> QED BY <4>2
    <3> QED BY <3>1, <3>2
  <2> QED BY <2>2, <2>4, <2>6 DEF EpochInv
<1>8. CASE ClearML
  BY <1>8 DEF ClearML, callVars, EpochInv
<1>9. CASE ClearStore \/ ToggleDirection \/ Tick
  BY <1>2, <1>9 DEF ClearStore, ToggleDirection, Tick, historyVars, callVars, EpochInv
<1>10. CASE UNCHANGED mlVars
  BY <1>2, <1>10 DEF mlVars, historyVars, callVars, EpochInv
<1> QED
  BY <1>1, <1>3, <1>4, <1>5, <1>6, <1>7, <1>8, <1>9, <1>10 DEF MLNext, Call

\* Of the records from before a reset at most the one in work comes back, however
\* many are kept.
THEOREM OneLateRecordCorrect == MLSpec => []OneLateRecord
<1>1. EpochInv => OneLateRecord
  <2> SUFFICES ASSUME EpochInv PROVE OneLateRecord
    OBVIOUS
  <2>1. DOMAIN records = 1..Len(records)
    BY LenProperties DEF EpochInv
  <2> QED BY <2>1 DEF EpochInv, OneLateRecord
<1> QED
  BY <1>1, VerdictInit, VerdictNext, EpochInit, EpochNext, PTL DEF MLSpec

-----------------------------------------------------------------------------

LEMMA ResponseInit == MLInit => ResponseInv
<1>1. "checksum_fail_rate" \in DOMAIN EmptyStats
  BY RuleAssumption DEF EmptyStats
<1> QED BY <1>1 DEF MLInit, ResponseInv

LEMMA ResponseNext == ResponseInv /\ [MLNext]_mlVars => ResponseInv'
<1> SUFFICES ASSUME ResponseInv, [MLNext]_mlVars PROVE ResponseInv'
  OBVIOUS
<1> DEFINE k == "checksum_fail_rate"
<1>e. k \in DOMAIN EmptyStats /\ \A s \in Stats : k \in DOMAIN s
  BY RuleAssumption DEF EmptyStats
<1>1. CASE Start \/ Crash
  BY <1>1, <1>e DEF Start, Crash, FreshMemory, ResponseInv
<1>2. ASSUME k \in DOMAIN stats', response' = None,
             pc' \notin {"idle", "stats"} => k \in DOMAIN current'
      PROVE  ResponseInv'
  BY <1>2 DEF ResponseInv
<1>3. CASE UpdateData
  <2>1. response' = None
    BY <1>3 DEF UpdateData, Step, ResponseInv
  <2> QED BY <1>2, <1>3, <1>e, <2>1 DEF UpdateData, Step
<1>4. CASE GetStats
  BY <1>2, <1>4 DEF GetStats, Step, storeVars, ResponseInv
<1>5. CASE Train \/ Save
  BY <1>2, <1>5
     DEF Train, RulesOnly, UseModel, FitFails, Fit, Save, SaveOpens, SaveWrites, SaveCloses,
         SaveFails, Step, Untouched, storeVars, ResponseInv
<1>6. CASE Predict \/ AppendHistory \/ Deliver
  BY <1>2, <1>6 DEF Predict, AppendHistory, Deliver, Step, storeVars, ResponseInv
<1>7. CASE BuildResult
  <2>1. /\ pc' = "respond" /\ response' = Result
        /\ UNCHANGED <<stats, current, ml_result>> /\ k \in DOMAIN current
    BY <1>7 DEF BuildResult, Step, storeVars, ResponseInv
  <2>2. /\ IsAnomaly' = IsAnomaly /\ DetectionSource' = DetectionSource
        /\ Confidence' = Confidence /\ ContributingFeatures' = ContributingFeatures
    BY <2>1
       DEF IsAnomaly, DetectionSource, Confidence, ContributingFeatures, MLAnomaly,
           ViolatedRules, Get
  <2>3. /\ Result.is_anomaly = IsAnomaly /\ Result.detection_source = DetectionSource
        /\ Result.confidence = Confidence
        /\ Result.contributing_features = ContributingFeatures
        /\ ml_result # None => Result.anomaly_score = ml_result.anomaly_score
    BY DEF Result
  <2> QED BY <2>1, <2>2, <2>3 DEF ResponseInv
<1>8. ASSUME UNCHANGED <<pc, current, ml_result, response>>, k \in DOMAIN stats'
      PROVE  ResponseInv'
  <2>1. /\ IsAnomaly' = IsAnomaly /\ DetectionSource' = DetectionSource
        /\ Confidence' = Confidence /\ ContributingFeatures' = ContributingFeatures
    BY <1>8
       DEF IsAnomaly, DetectionSource, Confidence, ContributingFeatures, MLAnomaly,
           ViolatedRules, Get
  <2> QED BY <1>8, <2>1 DEF ResponseInv
<1>9. CASE ClearStore \/ ClearML \/ ToggleDirection \/ Tick
  BY <1>8, <1>9, <1>e
     DEF ClearStore, ClearML, ToggleDirection, Tick, storeVars, callVars, ResponseInv
<1>10. CASE UNCHANGED mlVars
  BY <1>8, <1>10 DEF mlVars, storeVars, callVars, ResponseInv
<1> QED
  BY <1>1, <1>3, <1>4, <1>5, <1>6, <1>7, <1>9, <1>10 DEF MLNext, Call

\* With a model, every response carries a verdict of the forest.
THEOREM VerdictCorrect == MLSpec => []VerdictIsTheForests
<1>1. VerdictInv /\ ResponseInv => VerdictIsTheForests
  BY MLNoneAssumption DEF VerdictInv, ResponseInv, VerdictIsTheForests
<1> QED
  BY <1>1, VerdictInit, VerdictNext, ResponseInit, ResponseNext, PTL DEF MLSpec

\* Rules and forest each make an anomaly, whatever the other says.
THEOREM EitherDetectorCorrect == MLSpec => []EitherDetectorCounts
<1>1. VerdictInv /\ ResponseInv => EitherDetectorCounts
  <2> SUFFICES ASSUME VerdictInv, ResponseInv, response # None PROVE EitherDetectorCounts
    BY DEF EitherDetectorCounts
  <2>1. current.checksum_fail_rate > Limit.checksum_fail_rate => ViolatedRules(current) # {}
    <3>1. "checksum_fail_rate" \in DOMAIN current
      BY DEF ResponseInv
    <3> QED BY <3>1, RuleAssumption DEF ViolatedRules, Get
  <2>2. IsAnomaly <=> DetectionSource # None
    <3>1. "Both" # None /\ "ML" # None /\ "Rule" # None
      BY MLNoneAssumption
    <3>2. CASE ViolatedRules(current) # {}
      BY <3>1, <3>2 DEF IsAnomaly, DetectionSource
    <3>3. CASE ViolatedRules(current) = {}
      BY <3>1, <3>3 DEF IsAnomaly, DetectionSource
    <3> QED BY <3>2, <3>3
  <2>3. MLAnomaly => ml_result \in Verdict
    BY DEF MLAnomaly, VerdictInv, MLResult, DefaultResult
  <2>4. IsAnomaly => Confidence >= RuleConfidence
    BY <2>3, VerdictAssumption, RuleAssumption DEF IsAnomaly, Confidence, MLAnomaly
  <2>5. ViolatedRules(current) # {} => ContributingFeatures # {}
    BY DEF ContributingFeatures
  <2>6. IsAnomaly <=> MLAnomaly \/ ViolatedRules(current) # {}
    BY DEF IsAnomaly
  <2> QED
    BY <2>1, <2>2, <2>4, <2>5, <2>6 DEF ResponseInv, EitherDetectorCounts
<1> QED
  BY <1>1, VerdictInit, VerdictNext, ResponseInit, ResponseNext, PTL DEF MLSpec

-----------------------------------------------------------------------------
(* The chart and the time line *)

Scored == {e \in MLEntry : e.scored}

\* The last items of both are the same, or there are none.
SameLast(s, t) ==
  \/ Len(s) = 0 /\ Len(t) = 0
  \/ Len(s) > 0 /\ Len(t) > 0 /\ s[Len(s)] = t[Len(t)]

\* The time line is the end of the scored records, or they are the end of it:
\* each drops its oldest items on its own.  Once its record is written, a
\* prediction with a score is last in both until it returns, unless both were
\* cleared; before that, "ready" says that there will be a score.
TimelineInv ==
  /\ score_history \in Seq(MLEntry)
  /\ Len(records) <= MaxRecords /\ Len(score_history) <= MaxScores
  /\ Len(score_history) <= Len(records)
  /\ EndAlike(Among(records, Scored), score_history)
  /\ pc = "train" => ~ready
  /\ pc = "append" /\ ready => ml_result # None
  /\ pc = "build" /\ ready => SameLast(records, score_history)
  /\ response # None /\ ready => SameLast(response.records, response.score_history)
  /\ response # None => /\ response.records \in Seq(MLEntry)
                        /\ response.score_history \in Seq(MLEntry)

\* From the ends of sequences to the slices that TimelineMatchesChart compares.
LEMMA EndAlikeTails ==
  ASSUME NEW S, NEW s \in Seq(S), NEW t \in Seq(S), EndAlike(s, t)
  PROVE  SameTail(s, t)
<1> DEFINE n == IF Len(s) < Len(t) THEN Len(s) ELSE Len(t)
<1>1. Len(s) \in Nat /\ Len(t) \in Nat /\ n \in Nat /\ n <= Len(s) /\ n <= Len(t)
  BY LenProperties
<1> HIDE DEF n
<1>2. CASE n = 0
  <2>1. ASSUME NEW u \in Seq(S) PROVE LastN(u, 0) = <<>>
    <3>1. Len(u) \in Nat
      BY LenProperties
    <3>2. CASE Len(u) = 0
      <4>1. u = <<>>
        BY <3>2, EmptySeq
      <4> QED BY <3>2, <4>1 DEF LastN
    <3>3. CASE Len(u) # 0
      <4>1. LastN(u, 0) = SubSeq(u, Len(u) + 1, Len(u))
        BY <3>1, <3>3 DEF LastN
      <4>2. /\ Len(u) + 1 \in Int /\ Len(u) \in Int /\ Len(u) + 1 > Len(u)
        BY <3>1
      <4>3. SubSeq(u, Len(u) + 1, Len(u)) = <<>>
        BY <4>2, SubSeqEmpty
      <4> QED BY <4>1, <4>3
    <3> QED BY <3>2, <3>3
  <2>2. LastN(s, n) = LastN(t, n)
    BY <1>2, <2>1
  <2> QED BY <2>2 DEF SameTail, n
<1>3. CASE n # 0
  <2> DEFINE u == LastN(s, n)
             v == LastN(t, n)
  <2>a. ASSUME NEW w \in Seq(S), n <= Len(w)
        PROVE  /\ LastN(w, n) \in Seq(S) /\ Len(LastN(w, n)) = n
               /\ \A i \in 1..n : LastN(w, n)[i] = w[Len(w) - n + i]
    <3>1. n \in Nat \ {0} /\ Len(w) \in Nat
      BY <1>1, <1>3, LenProperties
    <3>2. LastN(w, n) \in Seq(S) /\ Len(LastN(w, n)) = n
      BY <2>a, <3>1, LastNEnds
    <3>3. \A i \in 1..Len(LastN(w, n)) :
            LastN(w, n)[i] = w[Len(w) - Len(LastN(w, n)) + i]
      BY <3>1, LastNEnds
    <3> QED BY <3>2, <3>3
  <2>1. /\ u \in Seq(S) /\ Len(u) = n /\ \A i \in 1..n : u[i] = s[Len(s) - n + i]
    BY <1>1, <2>a
  <2>2. /\ v \in Seq(S) /\ Len(v) = n /\ \A i \in 1..n : v[i] = t[Len(t) - n + i]
    BY <1>1, <2>a
  <2> HIDE DEF u, v
  <2>3. ASSUME NEW i \in 1..n PROVE u[i] = v[i]
    <3>1. /\ n - i \in Nat /\ n - i < Len(s) /\ n - i < Len(t)
          /\ Len(s) - (n - i) = Len(s) - n + i /\ Len(t) - (n - i) = Len(t) - n + i
      BY <1>1
    <3>2. s[Len(s) - (n - i)] = t[Len(t) - (n - i)]
      BY <3>1 DEF EndAlike
    <3> QED BY <2>1, <2>2, <3>1, <3>2
  <2>4. u = v
    BY <2>1, <2>2, <2>3, SeqEqual
  <2> QED BY <2>4 DEF SameTail, n, u, v
<1> QED BY <1>2, <1>3

\* The slices of a response end as the histories do.
LEMMA SlicesEndAlike ==
  ASSUME NEW S, NEW s \in Seq(S), NEW t \in Seq(S), SameLast(s, t),
         NEW n \in Nat \ {0}, NEW m \in Nat \ {0}
  PROVE  SameLast(LastN(s, n), LastN(t, m))
<1> DEFINE u == LastN(s, n)
           v == LastN(t, m)
<1>1. /\ Len(u) = IF Len(s) <= n THEN Len(s) ELSE n
      /\ \A i \in 1..Len(u) : u[i] = s[Len(s) - Len(u) + i]
  BY LastNEnds
<1>2. /\ Len(v) = IF Len(t) <= m THEN Len(t) ELSE m
      /\ \A i \in 1..Len(v) : v[i] = t[Len(t) - Len(v) + i]
  BY LastNEnds
<1>3. Len(s) \in Nat /\ Len(t) \in Nat
  BY LenProperties
<1> HIDE DEF u, v
<1>4. CASE Len(s) = 0 /\ Len(t) = 0
  BY <1>1, <1>2, <1>4 DEF SameLast, u, v
<1>5. CASE Len(s) > 0 /\ Len(t) > 0 /\ s[Len(s)] = t[Len(t)]
  <2>1. /\ Len(u) \in Nat /\ Len(u) > 0 /\ Len(u) \in 1..Len(u)
        /\ Len(s) - Len(u) + Len(u) = Len(s)
    BY <1>1, <1>3, <1>5
  <2>2. /\ Len(v) \in Nat /\ Len(v) > 0 /\ Len(v) \in 1..Len(v)
        /\ Len(t) - Len(v) + Len(v) = Len(t)
    BY <1>2, <1>3, <1>5
  <2>3. u[Len(u)] = s[Len(s)] /\ v[Len(v)] = t[Len(t)]
    BY <1>1, <1>2, <2>1, <2>2
  <2> QED BY <1>5, <2>1, <2>2, <2>3 DEF SameLast, u, v
<1> QED BY <1>4, <1>5 DEF SameLast

LEMMA LastItemsAlike ==
  ASSUME NEW S, NEW s \in Seq(S), NEW t \in Seq(S), SameLast(s, t)
  PROVE  SameTail(LastN(s, 1), LastN(t, 1))
<1> DEFINE u == LastN(s, 1)
           v == LastN(t, 1)
<1>1. u \in Seq(S) /\ v \in Seq(S) /\ SameLast(u, v)
  <2>1. 1 \in Nat \ {0}
    OBVIOUS
  <2> QED BY <2>1, LastNEnds, SlicesEndAlike
<1>2. /\ Len(s) \in Nat /\ Len(t) \in Nat
      /\ Len(u) = IF Len(s) <= 1 THEN Len(s) ELSE 1
      /\ Len(v) = IF Len(t) <= 1 THEN Len(t) ELSE 1
  <2>1. 1 \in Nat \ {0}
    OBVIOUS
  <2>2. /\ Len(u) = IF Len(s) <= 1 THEN Len(s) ELSE 1
        /\ Len(v) = IF Len(t) <= 1 THEN Len(t) ELSE 1
    BY ONLY <2>1, LastNEnds, s \in Seq(S), t \in Seq(S)
  <2> QED BY <2>2, LenProperties
<1> HIDE DEF u, v
<1>3. EndAlike(u, v)
  <2>1. ASSUME NEW i \in Nat, i < Len(u), i < Len(v) PROVE u[Len(u) - i] = v[Len(v) - i]
    <3>1. i = 0 /\ Len(u) - i = Len(u) /\ Len(v) - i = Len(v) /\ Len(u) > 0
      BY <1>2, <2>1
    <3> QED BY <1>1, <1>2, <3>1 DEF SameLast
  <2> QED BY <2>1 DEF EndAlike
<1>4. SameTail(u, v)
  BY <1>1, <1>3, EndAlikeTails
<1> QED BY <1>4 DEF u, v

LEMMA TimelineInit == MLInit => TimelineInv
<1> SUFFICES ASSUME MLInit PROVE TimelineInv
  OBVIOUS
<1>1. records = <<>> /\ score_history = <<>> /\ pc = "idle" /\ response = None
  BY DEF MLInit
<1>2. EndAlike(Among(records, Scored), score_history)
  BY <1>1 DEF EndAlike
<1> QED BY <1>1, <1>2, MLAssumption DEF TimelineInv

LEMMA TimelineAppend ==
  ASSUME VerdictInv, EpochInv, TimelineInv, response # None => pc = "respond", AppendHistory
  PROVE  TimelineInv'
<1> DEFINE r == IF ml_result = None THEN DefaultResult ELSE ml_result
           e == Entry(r)
           all == Among(records, Scored)
<1>1. /\ pc = "append" /\ pc' = "build" /\ response' = response /\ response = None
      /\ ready' = ready /\ records' = AppendBounded(records, e, MaxRecords)
      /\ score_history' = IF ml_result = None THEN score_history
                          ELSE AppendBounded(score_history, e, MaxScores)
  BY DEF AppendHistory, Step
<1>2. e \in MLEntry /\ e.scored = (ml_result # None)
  BY ResultIsTyped DEF EpochInv, VerdictInv, MLResult, Entry
<1>3. /\ MaxRecords \in Nat \ {0} /\ MaxScores \in Nat \ {0} /\ MaxScores <= MaxRecords
  BY MLAssumption
<1>4. /\ records \in Seq(MLEntry) /\ score_history \in Seq(MLEntry)
      /\ Len(records) \in Nat /\ Len(score_history) \in Nat
      /\ Len(records) <= MaxRecords /\ Len(score_history) <= MaxScores
      /\ Len(score_history) <= Len(records) /\ all \in Seq(MLEntry)
      /\ EndAlike(all, score_history)
  BY LenProperties, AmongItems DEF TimelineInv, EpochInv
<1> HIDE DEF e, r, all
<1>5. /\ records' \in Seq(MLEntry) /\ IsEnd(records', Append(records, e))
      /\ Len(records') = IF Len(records) < MaxRecords THEN Len(records) + 1 ELSE MaxRecords
  <2>1. records' \in Seq(MLEntry) /\ IsBoundedEnd(records', records, e, MaxRecords)
    BY <1>1, <1>2, <1>3, <1>4, BoundedEnds
  <2> QED BY <2>1 DEF IsBoundedEnd
<1>6. /\ Among(records', Scored) \in Seq(MLEntry)
      /\ IsEnd(Among(records', Scored), IF e \in Scored THEN Append(all, e) ELSE all)
  <2>1. Among(records', Scored) \in Seq(MLEntry)
    BY <1>5, AmongItems
  <2> QED BY <1>1, <1>2, <1>3, <1>4, <2>1, AmongBounded DEF all
<1>7. CASE ml_result = None
  <2>1. e \notin Scored /\ score_history' = score_history /\ ~ready
    BY <1>1, <1>2, <1>7 DEF Scored, TimelineInv
  <2>2. IsEnd(score_history, score_history)
    BY <1>4 DEF IsEnd
  <2>3. EndAlike(Among(records', Scored), score_history)
    BY <1>4, <1>6, <2>1, <2>2, EndAlikeOfEnds
  <2>4. Len(records') <= MaxRecords /\ Len(score_history) <= Len(records')
    BY <1>3, <1>4, <1>5
  <2>5. EndAlike(Among(records', Scored'), score_history')
    BY <2>1, <2>3 DEF Scored, MLEntry
  <2> QED BY <1>1, <1>4, <2>1, <2>4, <2>5 DEF TimelineInv
<1>8. CASE ml_result # None
  <2>1. e \in Scored /\ score_history' = AppendBounded(score_history, e, MaxScores)
    BY <1>1, <1>2, <1>8 DEF Scored
  <2>2. /\ score_history' \in Seq(MLEntry)
        /\ IsEnd(score_history', Append(score_history, e))
        /\ Len(score_history') =
             IF Len(score_history) < MaxScores THEN Len(score_history) + 1 ELSE MaxScores
    <3>1. /\ score_history' \in Seq(MLEntry)
          /\ IsBoundedEnd(score_history', score_history, e, MaxScores)
      BY <1>2, <1>3, <1>4, <2>1, BoundedEnds
    <3> QED BY <3>1 DEF IsBoundedEnd
  <2>3. /\ EndAlike(Append(all, e), Append(score_history, e))
        /\ Append(all, e) \in Seq(MLEntry) /\ Append(score_history, e) \in Seq(MLEntry)
    BY <1>2, <1>4, EndAlikeGrows, AppendProperties
  <2>4. EndAlike(Among(records', Scored), score_history')
    BY <1>6, <2>1, <2>2, <2>3, EndAlikeOfEnds
  <2>5. /\ Len(records') <= MaxRecords /\ Len(score_history') <= MaxScores
        /\ Len(score_history') <= Len(records')
    BY <1>3, <1>4, <1>5, <2>2
  <2>6. SameLast(records', score_history')
    <3>1. /\ Len(Append(records, e)) = Len(records) + 1
          /\ Append(records, e)[Len(records) + 1] = e
          /\ Len(Append(score_history, e)) = Len(score_history) + 1
          /\ Append(score_history, e)[Len(score_history) + 1] = e
      BY <1>2, <1>4, AppendProperties
    <3>2. records'[Len(records')] = e /\ Len(records') > 0
      <4>1. Len(records') \in 1..Len(records') /\ Len(records') > 0
        BY <1>3, <1>4, <1>5
      <4>2. Len(records) + 1 - Len(records') + Len(records') = Len(records) + 1
        BY <1>3, <1>4, <1>5
      <4> QED BY <1>5, <3>1, <4>1, <4>2 DEF IsEnd
    <3>3. score_history'[Len(score_history')] = e /\ Len(score_history') > 0
      <4>1. Len(score_history') \in 1..Len(score_history') /\ Len(score_history') > 0
        BY <1>3, <1>4, <2>2
      <4>2. Len(score_history) + 1 - Len(score_history') + Len(score_history')
              = Len(score_history) + 1
        BY <1>3, <1>4, <2>2
      <4> QED BY <2>2, <3>1, <4>1, <4>2 DEF IsEnd
    <3> QED BY <3>2, <3>3 DEF SameLast
  <2>7. EndAlike(Among(records', Scored'), score_history')
    BY <2>4 DEF Scored, MLEntry
  <2> QED BY <1>1, <2>2, <2>5, <2>6, <2>7 DEF TimelineInv
<1> QED BY <1>7, <1>8

LEMMA TimelineNext ==
  VerdictInv /\ EpochInv /\ ResponseInv /\ TimelineInv /\ [MLNext]_mlVars => TimelineInv'
<1> SUFFICES ASSUME VerdictInv, EpochInv, ResponseInv, TimelineInv, [MLNext]_mlVars
             PROVE  TimelineInv'
  OBVIOUS
<1>r. response # None => pc = "respond"
  BY DEF ResponseInv
<1>1. ASSUME records' = <<>>, score_history' = <<>>,
             pc' = "train" => ~ready', pc' = "append" /\ ready' => ml_result' # None,
             response' = None \/ (response' = response /\ ready' = ready)
      PROVE  TimelineInv'
  <2>1. EndAlike(Among(records', Scored'), score_history')
    BY <1>1 DEF EndAlike
  <2>2. pc' = "build" /\ ready' => SameLast(records', score_history')
    BY <1>1 DEF SameLast
  <2>3. /\ score_history' \in Seq(MLEntry)
        /\ Len(records') <= MaxRecords /\ Len(score_history') <= MaxScores
        /\ Len(score_history') <= Len(records')
    <3>1. Len(records') = 0 /\ Len(score_history') = 0
      BY <1>1
    <3>2. 0 <= MaxRecords /\ 0 <= MaxScores
      BY MLAssumption
    <3> QED BY <1>1, <3>1, <3>2
  <2>4. /\ response' # None /\ ready' => SameLast(response'.records, response'.score_history)
        /\ response' # None => /\ response'.records \in Seq(MLEntry)
                               /\ response'.score_history \in Seq(MLEntry)
    BY <1>1 DEF TimelineInv
  <2> QED BY <1>1, <2>1, <2>2, <2>3, <2>4 DEF TimelineInv, MLEntry
<1>2. CASE Start \/ Crash
  BY <1>1, <1>2 DEF Start, Crash, FreshMemory
<1>3. CASE ClearML
  BY <1>1, <1>3 DEF ClearML, callVars, TimelineInv
<1>4. ASSUME UNCHANGED historyVars,
             pc' = "train" => ~ready',
             pc' = "append" /\ ready' => ml_result' # None,
             pc' = "build" => pc = "build" /\ ready' = ready,
             response' = None \/ (response' = response /\ ready' = ready)
      PROVE  TimelineInv'
  <2>1. EndAlike(Among(records', Scored'), score_history')
    BY <1>4 DEF historyVars, TimelineInv, Scored, MLEntry
  <2> QED BY <1>4, <2>1 DEF historyVars, TimelineInv, SameLast
<1>5. CASE UpdateData \/ GetStats \/ Deliver
  BY <1>r, <1>4, <1>5 DEF UpdateData, GetStats, Deliver, Step
<1>6. CASE Train \/ Save
  BY <1>r, <1>4, <1>6
     DEF Train, RulesOnly, UseModel, FitFails, Fit, Save, SaveOpens, SaveWrites, SaveCloses,
         SaveFails, Step, Untouched, TimelineInv
<1>7. CASE Predict
  <2>1. ml_result' # None
    BY <1>7, MLNoneAssumption DEF Predict, CacheIsFresh, Answer, VerdictInv
  <2> QED BY <1>r, <1>4, <1>7, <2>1 DEF Predict, Step
<1>8. CASE AppendHistory
  BY <1>r, <1>8, TimelineAppend
<1>9. CASE BuildResult
  <2>1. /\ pc = "build" /\ pc' = "respond" /\ response' = Result /\ ready' = ready
        /\ UNCHANGED historyVars
    BY <1>9 DEF BuildResult, Step
  <2>2. /\ Result.records = LastN(records, DisplayRecords)
        /\ Result.score_history = LastN(score_history, DisplayScores)
    BY DEF Result
  <2>3. DisplayRecords \in Nat \ {0} /\ DisplayScores \in Nat \ {0}
    BY MLAssumption
  <2>4. records \in Seq(MLEntry) /\ score_history \in Seq(MLEntry)
    BY DEF EpochInv, TimelineInv
  <2>5. /\ LastN(records, DisplayRecords) \in Seq(MLEntry)
        /\ LastN(score_history, DisplayScores) \in Seq(MLEntry)
    BY <2>3, <2>4, LastNEnds
  <2>6. ready => SameLast(Result.records, Result.score_history)
    BY <2>1, <2>2, <2>3, <2>4, SlicesEndAlike DEF TimelineInv
  <2>7. EndAlike(Among(records', Scored'), score_history')
    BY <2>1 DEF historyVars, TimelineInv, Scored, MLEntry
  <2>8. ready' => SameLast(response'.records, response'.score_history)
    BY <2>1, <2>6
  <2>9. response'.records \in Seq(MLEntry) /\ response'.score_history \in Seq(MLEntry)
    BY <2>1, <2>2, <2>5
  <2>10. /\ score_history' \in Seq(MLEntry)
         /\ Len(records') <= MaxRecords /\ Len(score_history') <= MaxScores
         /\ Len(score_history') <= Len(records')
    BY <2>1 DEF historyVars, TimelineInv
  <2> QED BY <2>1, <2>7, <2>8, <2>9, <2>10 DEF TimelineInv, MLEntry
<1>10. CASE ClearStore \/ ToggleDirection \/ Tick
  BY <1>4, <1>10 DEF ClearStore, ToggleDirection, Tick, callVars, TimelineInv
<1>11. CASE UNCHANGED mlVars
  BY <1>4, <1>11 DEF mlVars, callVars, TimelineInv
<1> QED
  BY <1>2, <1>3, <1>5, <1>6, <1>7, <1>8, <1>9, <1>10, <1>11 DEF MLNext, Call

\* Whatever is cleared while a prediction runs, and however much shorter than the
\* records the time line is, both end with the same scores.
THEOREM TimelineCorrect == MLSpec => []TimelineMatchesChart
<1>1. EpochInv /\ TimelineInv => TimelineMatchesChart
  <2> SUFFICES ASSUME EpochInv, TimelineInv PROVE TimelineMatchesChart
    OBVIOUS
  <2> DEFINE E == {r \in ToSet(records) : r.scored}
  <2>1. records \in Seq(MLEntry) /\ score_history \in Seq(MLEntry)
    BY DEF EpochInv, TimelineInv
  <2>2. ASSUME NEW n \in 1..Len(records) PROVE records[n] \in E <=> records[n] \in Scored
    <3>1. records[n] \in MLEntry /\ records[n] \in ToSet(records)
      BY <2>1, ElementOfSeq, LenProperties DEF ToSet
    <3> QED BY <3>1 DEF Scored
  <2> HIDE DEF E
  <2>3. Among(records, E) = Among(records, Scored)
    BY <2>1, <2>2, AmongSame
  <2>4. Among(records, Scored) \in Seq(MLEntry)
    BY <2>1, AmongItems
  <2>5. SameTail(Among(records, E), score_history)
    BY <2>1, <2>3, <2>4, EndAlikeTails DEF TimelineInv
  <2>6. response # None /\ ready =>
          SameTail(LastN(response.records, 1), LastN(response.score_history, 1))
    BY LastItemsAlike DEF TimelineInv
  <2> QED BY <2>5, <2>6 DEF TimelineMatchesChart, TimelineInv, E
<1> QED
  BY <1>1, VerdictInit, VerdictNext, EpochInit, EpochNext, ResponseInit, ResponseNext,
     TimelineInit, TimelineNext, PTL DEF MLSpec

-----------------------------------------------------------------------------
(* The regions of the time line *)

Region == Nat \X Nat

ScanState == [regions : Seq(Region), start : Nat]

\* What the loop has found after n points, of which those in low are anomalies:
\* each region begins with anomalies and goes on with them up to its last point,
\* the open one up to n, and no anomaly is outside of them.
IsScanned(acc, n, low) ==
  /\ acc \in ScanState /\ acc.start \in 0..n
  /\ acc.start # 0 =>
       /\ acc.start..n \subseteq low
       /\ acc.start = 1 \/ acc.start - 1 \notin low
  /\ n \in low => acc.start # 0
  /\ \A g \in ToSet(acc.regions) :
       /\ g[1] \in 1..n /\ g[2] \in 1..n /\ g[1] < g[2]
       /\ g[1]..(g[2] - 1) \subseteq low
  /\ \A i \in low \cap 1..n :
       \/ acc.start # 0 /\ acc.start <= i
       \/ \E g \in ToSet(acc.regions) : g[1] <= i /\ i <= g[2]

LEMMA AppendToSet ==
  ASSUME NEW S, NEW s \in Seq(S), NEW e \in S
  PROVE  ToSet(Append(s, e)) = ToSet(s) \cup {e}
<1> DEFINE u == Append(s, e)
<1>1. /\ Len(u) = Len(s) + 1 /\ Len(s) \in Nat /\ u[Len(s) + 1] = e
      /\ \A i \in 1..Len(s) : u[i] = s[i]
      /\ DOMAIN u = 1..(Len(s) + 1) /\ DOMAIN s = 1..Len(s)
  BY AppendProperties, LenProperties
<1> HIDE DEF u
<1>2. ASSUME NEW x \in ToSet(u) PROVE x \in ToSet(s) \cup {e}
  <2>1. PICK i \in 1..(Len(s) + 1) : x = u[i]
    BY <1>1 DEF ToSet
  <2>2. CASE i = Len(s) + 1
    BY <1>1, <2>1, <2>2
  <2>3. CASE i # Len(s) + 1
    <3>1. i \in 1..Len(s)
      BY <1>1, <2>3
    <3> QED BY <1>1, <2>1, <3>1 DEF ToSet
  <2> QED BY <2>2, <2>3
<1>3. ASSUME NEW x \in ToSet(s) PROVE x \in ToSet(u)
  <2>1. PICK i \in 1..Len(s) : x = s[i]
    BY <1>1 DEF ToSet
  <2>2. i \in 1..(Len(s) + 1) /\ u[i] = x
    BY <1>1, <2>1
  <2> QED BY <1>1, <2>2 DEF ToSet
<1>4. e \in ToSet(u)
  <2>1. Len(s) + 1 \in 1..(Len(s) + 1)
    BY <1>1
  <2> QED BY <1>1, <2>1 DEF ToSet
<1>5. ToSet(u) = ToSet(s) \cup {e}
  BY <1>2, <1>3, <1>4
<1> QED BY <1>5 DEF u

\* One round keeps it so.
LEMMA ScanGoesOn ==
  ASSUME NEW n \in Nat \ {0}, NEW low, NEW acc, IsScanned(acc, n - 1, low),
         NEW score \in Int, NEW threshold \in Int, score < threshold <=> n \in low
  PROVE  IsScanned(Scan(acc, n, score, threshold), n, low)
<1> DEFINE new == Scan(acc, n, score, threshold)
<1>1. /\ acc \in ScanState /\ acc.start \in 0..(n - 1) /\ acc.regions \in Seq(Region)
      /\ acc.start # 0 =>
           /\ acc.start..(n - 1) \subseteq low
           /\ acc.start = 1 \/ acc.start - 1 \notin low
      /\ n - 1 \in low => acc.start # 0
      /\ \A g \in ToSet(acc.regions) :
           /\ g[1] \in 1..(n - 1) /\ g[2] \in 1..(n - 1) /\ g[1] < g[2]
           /\ g[1]..(g[2] - 1) \subseteq low
      /\ \A i \in low \cap 1..(n - 1) :
           \/ acc.start # 0 /\ acc.start <= i
           \/ \E g \in ToSet(acc.regions) : g[1] <= i /\ i <= g[2]
  BY DEF IsScanned, ScanState
<1>2. \A g \in ToSet(acc.regions) :
        /\ g[1] \in 1..n /\ g[2] \in 1..n /\ g[1] < g[2]
        /\ g[1]..(g[2] - 1) \subseteq low
  BY <1>1
<1>3. CASE n \in low /\ acc.start = 0
  <2>1. new = [acc EXCEPT !.start = n]
    BY <1>3 DEF Scan
  <2>2. new \in ScanState /\ new.start = n /\ new.regions = acc.regions
    BY <1>1, <2>1 DEF ScanState
  <2> HIDE DEF new
  <2>3. new.start = 1 \/ new.start - 1 \notin low
    BY <1>1, <1>3, <2>2
  <2>4. new.start..n \subseteq low
    BY <1>3, <2>2
  <2>5. ASSUME NEW i \in low \cap 1..n
        PROVE  \/ new.start # 0 /\ new.start <= i
               \/ \E g \in ToSet(new.regions) : g[1] <= i /\ i <= g[2]
    <3>1. CASE i = n
      BY <2>2, <3>1
    <3>2. CASE i # n
      <4>1. i \in low \cap 1..(n - 1)
        BY <3>2
      <4> QED BY <1>1, <1>3, <2>2, <4>1
    <3> QED BY <3>1, <3>2
  <2>6. IsScanned(new, n, low)
    BY <1>2, <2>2, <2>3, <2>4, <2>5 DEF IsScanned
  <2> QED BY <2>6 DEF new
<1>4. CASE n \notin low /\ acc.start # 0
  <2> DEFINE g0 == <<acc.start, n>>
  <2>1. new = [regions |-> Append(acc.regions, g0), start |-> 0]
    BY <1>4 DEF Scan
  <2>2. g0 \in Region /\ g0[1] = acc.start /\ g0[2] = n /\ acc.start \in 1..(n - 1)
    <3>1. acc.start \in 1..(n - 1) /\ acc.start \in Nat /\ n \in Nat
      BY <1>1, <1>4
    <3> QED BY <3>1 DEF Region
  <2> HIDE DEF g0
  <2>3. /\ ToSet(new.regions) = ToSet(acc.regions) \cup {g0}
        /\ new \in ScanState /\ new.start = 0
    <3>1. Append(acc.regions, g0) \in Seq(Region)
      BY <1>1, <2>2, AppendProperties
    <3>2. ToSet(Append(acc.regions, g0)) = ToSet(acc.regions) \cup {g0}
      BY <1>1, <2>2, AppendToSet
    <3> HIDE DEF new
    <3>3. /\ new.regions = Append(acc.regions, g0) /\ new.start = 0
          /\ new \in [regions : Seq(Region), start : Nat]
      BY <2>1, <3>1
    <3> QED BY <3>2, <3>3 DEF ScanState
  <2> HIDE DEF new
  <2>4. /\ g0[1] \in 1..n /\ g0[2] \in 1..n /\ g0[1] < g0[2]
        /\ g0[1]..(g0[2] - 1) \subseteq low
    BY <1>1, <1>4, <2>2
  <2>5. \A g \in ToSet(new.regions) :
          /\ g[1] \in 1..n /\ g[2] \in 1..n /\ g[1] < g[2]
          /\ g[1]..(g[2] - 1) \subseteq low
    BY <1>2, <2>3, <2>4
  <2>6. ASSUME NEW i \in low \cap 1..n
        PROVE  \E g \in ToSet(new.regions) : g[1] <= i /\ i <= g[2]
    <3>1. i \in low \cap 1..(n - 1)
      BY <1>4
    <3>2. CASE acc.start <= i
      BY <2>2, <2>3, <3>1, <3>2
    <3>3. CASE \E g \in ToSet(acc.regions) : g[1] <= i /\ i <= g[2]
      BY <2>3, <3>3
    <3> QED BY <1>1, <3>1, <3>2, <3>3
  <2>7. IsScanned(new, n, low)
    BY <1>4, <2>3, <2>5, <2>6 DEF IsScanned
  <2> QED BY <2>7 DEF new
<1>5. CASE ~(n \in low /\ acc.start = 0) /\ ~(n \notin low /\ acc.start # 0)
  <2>1. new = acc
    BY <1>5 DEF Scan
  <2> HIDE DEF new
  <2>2. acc.start # 0 => acc.start..n \subseteq low
    <3>1. ASSUME acc.start # 0, NEW i \in acc.start..n PROVE i \in low
      <4>1. CASE i = n
        BY <1>5, <3>1, <4>1
      <4>2. CASE i # n
        <5>1. i \in acc.start..(n - 1)
          BY <1>1, <4>2
        <5> QED BY <1>1, <3>1, <5>1
      <4> QED BY <4>1, <4>2
    <3> QED BY <3>1
  <2>3. ASSUME NEW i \in low \cap 1..n
        PROVE  \/ acc.start # 0 /\ acc.start <= i
               \/ \E g \in ToSet(acc.regions) : g[1] <= i /\ i <= g[2]
    <3>1. CASE i = n
      BY <1>1, <1>5, <3>1
    <3>2. CASE i # n
      <4>1. i \in low \cap 1..(n - 1)
        BY <3>2
      <4> QED BY <1>1, <4>1
    <3> QED BY <3>1, <3>2
  <2>4. acc.start \in 0..n /\ (n \in low => acc.start # 0)
    BY <1>1, <1>5
  <2>5. IsScanned(acc, n, low)
    BY <1>1, <1>2, <2>2, <2>3, <2>4 DEF IsScanned
  <2> QED BY <2>1, <2>5 DEF new
<1> QED BY <1>3, <1>4, <1>5

\* What the shaded regions g of a history have to do with its anomalies, low.
AreRegions(regions, L, low) ==
  /\ \A g \in regions :
       g[1] \in 1..L /\ g[2] \in 1..L /\ g[1]..(g[2] - 1) \subseteq low
  /\ \A i \in low :
       \/ \E g \in regions : g[1] <= i /\ i <= g[2] /\ g[1] < g[2]
       \/ i = L /\ (i = 1 \/ i - 1 \notin low)

LEMMA RegionsAreFound ==
  ASSUME NEW S, NEW h \in Seq(S), NEW threshold \in Int,
         \A n \in 1..Len(h) : h[n].score \in Int
  PROVE  AreRegions(ToSet(FindAnomalyRegions(h, threshold)), Len(h),
                    {n \in 1..Len(h) : h[n].score < threshold})
<1> DEFINE L == Len(h)
           low == {n \in 1..L : h[n].score < threshold}
           base == [regions |-> <<>>, start |-> 0]
           step == [x \in ScanState \X (1..L) |-> Scan(x[1], x[2], h[x[2]].score, threshold)]
           Next(f) == [n \in 0..L |-> IF n = 0 THEN base
                                      ELSE Scan(f[n - 1], n, h[n].score, threshold)]
           r == CHOOSE f : f = Next(f)
<1>1. /\ L \in Nat /\ L = Len(h) /\ low \subseteq 1..L
      /\ \A n \in 1..L : h[n].score \in Int /\ (n \in low <=> h[n].score < threshold)
  BY LenProperties
<1>2. base \in ScanState /\ ToSet(base.regions) = {} /\ base.start = 0
  BY DEF ScanState, ToSet
<1> HIDE DEF low, L, base
<1>3. step \in [ScanState \X (1..L) -> ScanState]
  <2>1. ASSUME NEW x \in ScanState \X (1..L)
        PROVE  Scan(x[1], x[2], h[x[2]].score, threshold) \in ScanState
    <3>1. /\ x[1] \in ScanState /\ x[2] \in 1..L /\ x[2] \in Nat
          /\ x[1].regions \in Seq(Region) /\ x[1].start \in Nat
      BY <1>1 DEF ScanState
    <3>2. <<x[1].start, x[2]>> \in Region
      BY <3>1 DEF Region
    <3>3. Append(x[1].regions, <<x[1].start, x[2]>>) \in Seq(Region)
      BY <3>1, <3>2, AppendProperties
    <3>4. [regions |-> Append(x[1].regions, <<x[1].start, x[2]>>), start |-> 0] \in ScanState
      BY <3>3 DEF ScanState
    <3>5. [x[1] EXCEPT !.start = x[2]] \in ScanState
      BY <3>1 DEF ScanState
    <3> QED BY <3>1, <3>4, <3>5 DEF Scan
  <2> QED BY <2>1
<1>4. \E f \in [0..L -> ScanState] : IsChain(f, base, step, L)
  <2> HIDE DEF step
  <2> QED BY <1>1, <1>2, <1>3, Recursion
<1>5. PICK f \in [0..L -> ScanState] :
        f[0] = base /\ \A n \in 1..L : f[n] = step[<<f[n - 1], n>>]
  BY <1>4 DEF IsChain
<1>6. f = Next(f)
  <2>1. ASSUME NEW n \in 1..L PROVE f[n] = Next(f)[n]
    <3>1. <<f[n - 1], n>> \in ScanState \X (1..L) /\ n \in 0..L /\ n # 0
      <4>1. n - 1 \in 0..L /\ n \in 0..L /\ n # 0
        BY <1>1
      <4>2. f[n - 1] \in ScanState
        BY <4>1
      <4> QED BY <4>1, <4>2
    <3>2. f[n] = Scan(f[n - 1], n, h[n].score, threshold)
      BY <1>5, <3>1
    <3> QED BY <3>1, <3>2
  <2>2. Next(f)[0] = f[0]
    BY <1>1, <1>5
  <2>3. \A n \in 0..L : f[n] = Next(f)[n]
    <3> HIDE DEF Next
    <3> QED BY <1>1, <2>1, <2>2
  <2> QED BY <2>3
<1>7. r = Next(r)
  BY <1>6
<1>8. FindAnomalyRegions(h, threshold) =
        IF r[L].start = 0 THEN r[L].regions ELSE Append(r[L].regions, <<r[L].start, L>>)
  BY DEF FindAnomalyRegions, base, L
<1> HIDE DEF r
<1>9. r[0] = Next(r)[0] /\ \A n \in 1..L : r[n] = Next(r)[n]
  BY <1>7, Zenon
<1>10. r[0] = base
  <2>1. Next(r)[0] = base
    BY <1>1
  <2> QED BY <1>9, <2>1, Zenon
<1>11. ASSUME NEW n \in 1..L PROVE r[n] = Scan(r[n - 1], n, h[n].score, threshold)
  <2>1. n \in 0..L /\ n # 0
    BY <1>1
  <2>2. Next(r)[n] = Scan(r[n - 1], n, h[n].score, threshold)
    BY <2>1, Zenon
  <2> QED BY <1>9, <2>2, Zenon
<1> DEFINE B == {n \in 0..L : IsScanned(r[n], n, low)}
<1>12. 0 \in B
  <2>1. IsScanned(base, 0, low)
    BY <1>1, <1>2 DEF IsScanned
  <2> QED BY <1>1, <1>10, <2>1
<1>13. ASSUME NEW n \in 1..L, n - 1 \in B PROVE n \in B
  <2> HIDE DEF low
  <2>1. n \in Nat \ {0} /\ n \in 0..L /\ IsScanned(r[n - 1], n - 1, low)
    BY <1>1, <1>13
  <2>2. h[n].score \in Int /\ (h[n].score < threshold <=> n \in low)
    BY <1>1
  <2>3. IsScanned(Scan(r[n - 1], n, h[n].score, threshold), n, low)
    BY <2>1, <2>2, ScanGoesOn
  <2>4. IsScanned(r[n], n, low)
    BY <1>11, <2>3
  <2> QED BY <2>1, <2>4
<1>14. IsScanned(r[L], L, low)
  <2>1. \A n \in 0..L : n \in B
    <3> HIDE DEF B
    <3> QED BY <1>1, <1>12, <1>13, NumbersUpTo
  <2> QED BY <1>1, <2>1
<1> DEFINE end == r[L]
           found == ToSet(FindAnomalyRegions(h, threshold))
<1> HIDE DEF end
<1>15. /\ end \in ScanState /\ end.regions \in Seq(Region) /\ end.start \in 0..L
       /\ end.start # 0 =>
            /\ end.start..L \subseteq low
            /\ end.start = 1 \/ end.start - 1 \notin low
       /\ \A g \in ToSet(end.regions) :
            /\ g[1] \in 1..L /\ g[2] \in 1..L /\ g[1] < g[2]
            /\ g[1]..(g[2] - 1) \subseteq low
       /\ \A i \in low : \/ end.start # 0 /\ end.start <= i
                         \/ \E g \in ToSet(end.regions) : g[1] <= i /\ i <= g[2]
  BY <1>1, <1>14 DEF IsScanned, ScanState, end
<1>16. AreRegions(found, L, low)
  <2>1. CASE end.start = 0
    <3>1. found = ToSet(end.regions)
      BY <1>8, <2>1 DEF end
    <3> HIDE DEF found
    <3> QED BY <1>15, <2>1, <3>1 DEF AreRegions
  <2>2. CASE end.start # 0
    <3> DEFINE g0 == <<end.start, L>>
    <3>1. g0 \in Region /\ g0[1] = end.start /\ g0[2] = L /\ end.start \in 1..L
      <4>1. end.start \in 1..L /\ end.start \in Nat
        BY <1>1, <1>15, <2>2
      <4> QED BY <1>1, <4>1 DEF Region
    <3>2. FindAnomalyRegions(h, threshold) = Append(end.regions, g0)
      BY <1>8, <2>2 DEF end
    <3> HIDE DEF g0
    <3>3. found = ToSet(end.regions) \cup {g0}
      BY <1>15, <3>1, <3>2, AppendToSet
    <3> HIDE DEF found
    <3>4. ASSUME NEW i \in low
          PROVE  \/ \E g \in found : g[1] <= i /\ i <= g[2] /\ g[1] < g[2]
                 \/ i = L /\ (i = 1 \/ i - 1 \notin low)
      <4>0. i \in 1..L
        BY <1>1
      <4>1. CASE \E g \in ToSet(end.regions) : g[1] <= i /\ i <= g[2]
        BY <1>15, <3>3, <4>1
      <4>2. CASE end.start <= i /\ end.start < L
        BY <3>1, <3>3, <4>0, <4>2
      <4>3. CASE end.start <= i /\ ~(end.start < L)
        <5>1. i = L /\ end.start = i
          <6>1. L \in Nat /\ end.start \in Nat /\ end.start <= L /\ i \in Nat /\ i <= L
            BY <1>1, <3>1, <4>0
          <6> QED BY <4>3, <6>1
        <5>2. end.start = 1 \/ end.start - 1 \notin low
          BY <1>15, <2>2
        <5> QED BY <5>1, <5>2
      <4> QED BY <1>15, <4>1, <4>2, <4>3
    <3>5. g0[1] \in 1..L /\ g0[2] \in 1..L /\ g0[1]..(g0[2] - 1) \subseteq low
      BY <1>1, <1>15, <2>2, <3>1
    <3> QED BY <1>15, <3>3, <3>4, <3>5 DEF AreRegions
  <2> QED BY <2>1, <2>2
<1> QED BY <1>16 DEF L, low

-----------------------------------------------------------------------------
(* What the charts show *)

\* Entries judged by a threshold, and those of a time without a model.
Judged(threshold) ==
  {e \in MLEntry : /\ e.score \in Int
                   /\ e.anomaly => e.score <= threshold
                   /\ ~e.anomaly => e.score >= threshold}

Blank == {e \in MLEntry : e.score = 0 /\ ~e.anomaly}

\* While there is no model, nothing was ever an anomaly: histories, cache and model
\* live and die together.  A response keeps the threshold its entries were judged
\* by, or one that judges the blank ones as they are.
ChartInv ==
  /\ records \in Seq(Judged(ForestThreshold)) /\ score_history \in Seq(Judged(ForestThreshold))
  /\ fitted = None =>
       /\ records \in Seq(Blank) /\ score_history \in Seq(Blank)
       /\ last_result = None /\ ml_result \in {None, DefaultResult}
  /\ pc = "train" => ml_result = None
  /\ response # None =>
       /\ response.threshold \in Int
       /\ response.records \in Seq(Judged(response.threshold))
       /\ response.score_history \in Seq(Judged(response.threshold))

\* Where nothing is an anomaly every threshold agrees.
LEMMA BlankIsJudged ==
  ASSUME NEW threshold \in Int, threshold <= 0
  PROVE  Blank \subseteq Judged(threshold)
BY DEF Blank, Judged

LEMMA EntryIsJudged ==
  ASSUME NEW r \in Verdict \cup {DefaultResult}, NEW e \in MLEntry,
         e.score = r.anomaly_score, e.anomaly = r.is_anomaly
  PROVE  /\ e \in Judged(ForestThreshold)
         /\ r = DefaultResult => e \in Blank
<1>1. CASE r \in Verdict /\ r # DefaultResult
  BY <1>1, VerdictAssumption DEF Judged
<1>2. CASE r = DefaultResult
  <2>1. e \in Blank
    BY <1>2 DEF Blank, DefaultResult
  <2> QED BY <2>1, BlankIsJudged, ThresholdAssumption
<1> QED BY <1>1, <1>2

LEMMA ChartInit == MLInit => ChartInv
BY DEF MLInit, ChartInv

LEMMA ChartAppend ==
  ASSUME VerdictInv, EpochInv, ChartInv, response # None => pc = "respond", AppendHistory
  PROVE  ChartInv'
<1> DEFINE r == IF ml_result = None THEN DefaultResult ELSE ml_result
           e == Entry(r)
           J == Judged(ForestThreshold)
<1>1. /\ pc' = "build" /\ response' = None
      /\ UNCHANGED <<fitted, last_result, ml_result>>
      /\ records' = AppendBounded(records, e, MaxRecords)
      /\ score_history' = IF ml_result = None THEN score_history
                          ELSE AppendBounded(score_history, e, MaxScores)
  BY DEF AppendHistory, Step, modelVars, cacheVars
<1>2. /\ e \in MLEntry /\ r \in Verdict \cup {DefaultResult}
      /\ e.score = r.anomaly_score /\ e.anomaly = r.is_anomaly
      /\ fitted = None => r = DefaultResult
  BY ResultIsTyped DEF EpochInv, VerdictInv, ChartInv, MLResult, Entry
<1>3. MaxRecords \in Nat \ {0} /\ MaxScores \in Nat \ {0}
  BY MLAssumption
<1> HIDE DEF r, e
<1>4. e \in J /\ (fitted = None => e \in Blank)
  BY <1>2, EntryIsJudged
<1> HIDE DEF J
<1>5. ASSUME NEW S, records \in Seq(S), score_history \in Seq(S), e \in S
      PROVE  records' \in Seq(S) /\ score_history' \in Seq(S)
  <2>1. AppendBounded(records, e, MaxRecords) \in Seq(S)
    BY <1>3, <1>5, BoundedEnds
  <2>2. AppendBounded(score_history, e, MaxScores) \in Seq(S)
    BY <1>3, <1>5, BoundedEnds
  <2> QED BY <1>1, <1>5, <2>1, <2>2
<1>6. records' \in Seq(J) /\ score_history' \in Seq(J)
  BY <1>4, <1>5 DEF ChartInv, J
<1>7. fitted = None => records' \in Seq(Blank) /\ score_history' \in Seq(Blank)
  BY <1>4, <1>5 DEF ChartInv
<1> QED BY <1>1, <1>6, <1>7 DEF ChartInv, J, Judged, Blank, MLEntry

LEMMA ChartNext ==
  VerdictInv /\ EpochInv /\ ResponseInv /\ ModelInv /\ ChartInv /\ [MLNext]_mlVars => ChartInv'
<1> SUFFICES ASSUME VerdictInv, EpochInv, ResponseInv, ModelInv, ChartInv, [MLNext]_mlVars
             PROVE  ChartInv'
  OBVIOUS
<1>r. response # None => pc = "respond"
  BY DEF ResponseInv
<1>c. Judged(ForestThreshold)' = Judged(ForestThreshold) /\ Blank' = Blank
  BY DEF Judged, Blank, MLEntry
<1>1. ASSUME records' = <<>>, score_history' = <<>>, ml_result' = None, last_result' = None,
             response' = None
      PROVE  ChartInv'
  BY <1>1 DEF ChartInv
<1>2. CASE Start \/ Crash
  BY <1>1, <1>2 DEF Start, Crash, FreshMemory
<1>3. CASE ClearML
  BY <1>3 DEF ClearML, modelVars, cacheVars, callVars, ChartInv, Judged, MLEntry
<1>4. ASSUME UNCHANGED <<fitted, last_result, historyVars>>,
             ml_result' \in {ml_result, None},
             pc' = "train" => ml_result' = None,
             response' \in {response, None}
      PROVE  ChartInv'
  BY <1>4 DEF historyVars, ChartInv, Judged, Blank, MLEntry
<1>5. CASE UpdateData \/ GetStats \/ Deliver
  BY <1>4, <1>5 DEF UpdateData, GetStats, Deliver, Step, modelVars, cacheVars
<1>6. CASE UseModel \/ RulesOnly \/ FitFails \/ Save
  BY <1>4, <1>6
     DEF RulesOnly, UseModel, FitFails, Save, SaveOpens, SaveWrites, SaveCloses,
         SaveFails, Step, Untouched, modelVars, cacheVars
<1>7. CASE Fit
  <2>1. /\ fitted' = [born |-> starts, samples |-> samples]
        /\ UNCHANGED <<last_result, ml_result, records, score_history, response>>
        /\ pc' = "save"
    BY <1>7 DEF Fit, Step, Untouched, cacheVars, historyVars
  <2>2. fitted' # None
    BY <2>1, MLNoneAssumption, MLAssumption DEF ModelInv
  <2> QED BY <2>1, <2>2 DEF ChartInv, Judged, MLEntry
<1>8. CASE Predict
  <2>1. /\ pc' = "append" /\ UNCHANGED <<fitted, records, score_history, response>>
    BY <1>8 DEF Predict, Step, modelVars, historyVars
  <2>2. fitted = None => last_result' = None /\ ml_result' \in {None, DefaultResult}
    BY <1>8 DEF Predict, CacheIsFresh, Answer, cacheVars, ChartInv
  <2> QED BY <2>1, <2>2 DEF ChartInv, Judged, Blank, MLEntry
<1>9. CASE AppendHistory
  BY <1>r, <1>9, ChartAppend
<1>10. CASE BuildResult
  <2>1. /\ pc' = "respond" /\ response' = Result
        /\ UNCHANGED <<fitted, last_result, ml_result, records, score_history>>
    BY <1>10 DEF BuildResult, Step, modelVars, cacheVars, historyVars
  <2>2. /\ Result.threshold = CurrentThreshold
        /\ Result.records = LastN(records, DisplayRecords)
        /\ Result.score_history = LastN(score_history, DisplayScores)
    BY DEF Result
  <2>3. /\ CurrentThreshold \in Int
        /\ records \in Seq(Judged(CurrentThreshold))
        /\ score_history \in Seq(Judged(CurrentThreshold))
    <3>1. CASE fitted # None
      BY <3>1, ThresholdAssumption DEF CurrentThreshold, ChartInv
    <3>2. CASE fitted = None
      <4>1. CurrentThreshold = DefaultThreshold
        BY <3>2 DEF CurrentThreshold
      <4>2. Blank \subseteq Judged(DefaultThreshold)
        BY BlankIsJudged, ThresholdAssumption
      <4> QED BY <3>2, <4>1, <4>2, ThresholdAssumption, SeqMonotonic DEF ChartInv
    <3> QED BY <3>1, <3>2
  <2>4. DisplayRecords \in Nat \ {0} /\ DisplayScores \in Nat \ {0}
    BY MLAssumption
  <2>5. /\ LastN(records, DisplayRecords) \in Seq(Judged(CurrentThreshold))
        /\ LastN(score_history, DisplayScores) \in Seq(Judged(CurrentThreshold))
    BY <2>3, <2>4, LastNEnds
  <2>6. /\ response'.threshold \in Int
        /\ response'.records \in Seq(Judged(response'.threshold))
        /\ response'.score_history \in Seq(Judged(response'.threshold))
    BY <2>1, <2>2, <2>3, <2>5
  <2> QED BY <2>1, <2>6 DEF ChartInv, Judged, Blank, MLEntry
<1>11. CASE ClearStore \/ ToggleDirection \/ Tick
  BY <1>4, <1>11
     DEF ClearStore, ToggleDirection, Tick, modelVars, cacheVars, callVars, ChartInv
<1>12. CASE UNCHANGED mlVars
  BY <1>4, <1>12 DEF mlVars, modelVars, cacheVars, callVars, ChartInv
<1> QED
  BY <1>2, <1>3, <1>5, <1>6, <1>7, <1>8, <1>9, <1>10, <1>11, <1>12 DEF MLNext, Call, Train

\* The points of a split are those with its status.
LEMMA SplitHasStatus ==
  ASSUME NEW S, NEW s \in Seq(S), NEW threshold \in Int, NEW i \in 1..Len(s), s[i].score \in Int
  PROVE  s[i] \in ToSet(SplitByStatus(s, threshold).anomaly) <=> s[i].score < threshold
<1> DEFINE E == {r \in ToSet(s) : Status(r.score, threshold) = "anomaly"}
           t == Among(s, E)
<1>1. SplitByStatus(s, threshold).anomaly = t
  BY DEF SplitByStatus
<1>2. s[i] \in E <=> s[i].score < threshold
  <2>1. s[i] \in ToSet(s)
    BY LenProperties DEF ToSet
  <2>2. Status(s[i].score, threshold) = "anomaly" <=> s[i].score < threshold
    <3>1. CASE s[i].score < threshold
      BY <3>1 DEF Status, WarningMargin
    <3>2. CASE ~(s[i].score < threshold)
      BY <3>2 DEF Status, WarningMargin
    <3> QED BY <3>1, <3>2
  <2> QED BY <2>1, <2>2
<1> HIDE DEF E
<1>3. /\ t \in Seq(S \cap E)
      /\ s[i] \in E => \E k \in 1..Len(t) : t[k] = s[i]
  BY AmongItems
<1> HIDE DEF t
<1>4. s[i] \in ToSet(t) <=> s[i] \in E
  <2>1. DOMAIN t = 1..Len(t) /\ \A k \in 1..Len(t) : t[k] \in S \cap E
    BY <1>3, ElementOfSeq, LenProperties
  <2> QED BY <1>3, <2>1 DEF ToSet
<1> QED BY <1>1, <1>2, <1>4

\* For every threshold of the forest and every length of the lists: what the charts
\* paint red or shade is what the forest found.
THEOREM ChartsCorrect == MLSpec => []ChartsAgreeWithForest
<1>1. ChartInv => ChartsAgreeWithForest
  <2> SUFFICES ASSUME ChartInv, response # None PROVE ChartsAgreeWithForest
    BY DEF ChartsAgreeWithForest
  <2> DEFINE points == response.records
             line == response.score_history
             t == response.threshold
             L == Len(line)
             red == ToSet(SplitByStatus(points, t).anomaly)
             regions == ToSet(FindAnomalyRegions(line, t))
             low == {n \in 1..L : line[n].score < t}
  <2>1. t \in Int /\ points \in Seq(Judged(t)) /\ line \in Seq(Judged(t))
    BY DEF ChartInv
  <2>2. ASSUME NEW s \in Seq(Judged(t)), NEW i \in 1..Len(s)
        PROVE  /\ s[i].score \in Int
               /\ s[i].anomaly => s[i].score <= t
               /\ ~s[i].anomaly => s[i].score >= t
    <3>1. s[i] \in Judged(t)
      BY ElementOfSeq
    <3> QED BY <3>1 DEF Judged
  <2>3. DOMAIN points = 1..Len(points) /\ DOMAIN line = 1..L /\ L \in Nat
    BY <2>1, LenProperties
  <2>4. ASSUME NEW i \in 1..Len(points), points[i].score # t
        PROVE  points[i] \in red <=> points[i].anomaly
    <3>1. /\ points[i].score \in Int
          /\ points[i].anomaly => points[i].score <= t
          /\ ~points[i].anomaly => points[i].score >= t
      BY <2>1, <2>2
    <3>2. points[i] \in red <=> points[i].score < t
      BY <2>1, <3>1, SplitHasStatus
    <3> QED BY <2>1, <2>4, <3>1, <3>2
  <2>5. AreRegions(regions, L, low)
    BY <2>1, <2>2, RegionsAreFound
  <2> HIDE DEF regions, red
  <2>6. ASSUME NEW i \in 1..L
        PROVE  /\ line[i].anomaly /\ line[i].score # t => i \in low
               /\ i \in low => line[i].anomaly
               /\ i \notin low => line[i].score >= t
    <3>1. /\ line[i].score \in Int
          /\ line[i].anomaly => line[i].score <= t
          /\ ~line[i].anomaly => line[i].score >= t
      BY <2>1, <2>2
    <3> QED BY <2>1, <3>1
  <2>7. ASSUME NEW i \in 1..L, line[i].anomaly, line[i].score # t,
               ~(i = L /\ (i = 1 \/ line[i - 1].score >= t))
        PROVE  \E g \in regions : g[1] <= i /\ i <= g[2] /\ g[1] < g[2]
    <3>1. i \in low
      BY <2>6, <2>7
    <3>2. CASE i = L /\ (i = 1 \/ i - 1 \notin low)
      <4>1. i # 1 => i - 1 \in 1..L
        BY <2>3
      <4> QED BY <2>6, <2>7, <3>2, <4>1
    <3> HIDE DEF low
    <3> QED BY <2>5, <3>1, <3>2 DEF AreRegions
  <2>8. ASSUME NEW g \in regions, NEW i \in g[1]..(g[2] - 1) PROVE line[i].anomaly
    <3>1. i \in low
      BY <2>5 DEF AreRegions
    <3>2. i \in 1..L
      BY <3>1
    <3> QED BY <2>6, <3>1, <3>2
  <2> HIDE DEF low
  <2> QED BY <2>3, <2>4, <2>7, <2>8 DEF ChartsAgreeWithForest, red, regions
<1> QED
  BY <1>1, VerdictInit, VerdictNext, EpochInit, EpochNext, ResponseInit, ResponseNext,
     ModelInit, ModelNext, ChartInit, ChartNext, PTL DEF MLSpec
=============================================================================
