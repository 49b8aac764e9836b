------------------------------- MODULE MLCharts -------------------------------
(***************************************************************************)
(* What ui/ml/ draws of the records and scores in a response: the colour   *)
(* of a point in the 3D chart and the shaded regions of the time line.     *)
(* Scores and thresholds are in percent.                                   *)
(***************************************************************************)
EXTENDS BoundedSeq, SequencesExt

\* How far above the threshold a score is still a warning.
WarningMargin == 10

Status(score, threshold) ==
  CASE score < threshold -> "anomaly"
    [] threshold <= score /\ score < threshold + WarningMargin -> "warning"
    [] OTHER -> "normal"

\* _split_by_status()
SplitByStatus(records, threshold) ==
  [status \in {"normal", "warning", "anomaly"} |->
     Among(records, {r \in ToSet(records) : Status(r.score, threshold) = status})]

\* One round of the loop of _find_anomaly_regions(): `start` is where the region
\* that is open began, or 0.
Scan(acc, i, score, threshold) ==
  CASE score < threshold /\ acc.start = 0 -> [acc EXCEPT !.start = i]
    [] score >= threshold /\ acc.start # 0 ->
         [regions |-> Append(acc.regions, <<acc.start, i>>), start |-> 0]
    [] OTHER -> acc

\* _find_anomaly_regions(), by the positions of the points: a region ends at the
\* first point that is no anomaly any more, or at the last one.
FindAnomalyRegions(history, threshold) ==
  LET upTo[n \in 0..Len(history)] ==
        IF n = 0 THEN [regions |-> <<>>, start |-> 0]
        ELSE Scan(upTo[n - 1], n, history[n].score, threshold)
      end == upTo[Len(history)]
  IN IF end.start = 0 THEN end.regions
     ELSE Append(end.regions, <<end.start, Len(history)>>)
=============================================================================
