----------------------------- MODULE MCMLService -----------------------------
(* Two seconds are enough to train, three records and two scores are kept,  *)
(* two of each shown.  Scores and rates are in percent.                     *)
EXTENDS MLService

MCLimit == [jitter_current |-> 50, loss_rate |-> 5, checksum_fail_rate |-> 10]

Calm == [pps |-> 95, jitter_current |-> 5, packet_loss |-> 0, checksum_fail_rate |-> 0]
MCStats == {Calm, [Calm EXCEPT !.checksum_fail_rate = 50]}

\* A sound score that the default threshold would call an anomaly, an anomaly, and
\* one whose score was rounded to the threshold.
Normal == [is_anomaly |-> FALSE, anomaly_score |-> -35, confidence |-> 10,
           contributing_features |-> {}]
Abnormal == [is_anomaly |-> TRUE, anomaly_score |-> -60, confidence |-> 90,
             contributing_features |-> {"jitter_p95"}]
Rounded == [Abnormal EXCEPT !.anomaly_score = -50, !.confidence = 50]
MCFallback == -50
MCForestThreshold == -50
MCDefaultThreshold == -30
MCVerdict == {Normal, Abnormal}
MCVerdictRounded == MCVerdict \cup {Rounded}
=============================================================================
