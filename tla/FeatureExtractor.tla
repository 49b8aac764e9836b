--------------------------- MODULE FeatureExtractor ---------------------------
(***************************************************************************)
(* analysis/feature_extractor.py: what the forest is given of the live     *)
(* statistics and of each second of the training history.  Jitter is in    *)
(* whole milliseconds; rates are in hundredths of a percent, the trend in  *)
(* ten-thousandths and the quality in tenths, as the code rounds them.     *)
(***************************************************************************)
EXTENDS StoreStats

\* round(n / d), half to even
Round(n, d) ==
  LET q == n \div d
      r == n % d
  IN IF 2 * r > d \/ (2 * r = d /\ q % 2 = 1) THEN q + 1 ELSE q

Clamp(n, low, high) == IF n < low THEN low ELSE IF n > high THEN high ELSE n

\* get_stats_dict(), as far as the features use it
StatsDict == [pps |-> Pps, jitter_current |-> CurrentJitter, jitter_p95 |-> JitterP95,
              packet_loss |-> PacketLoss]

\* _calculate_jitter_volatility(), in percent
JitterVolatility(jitter, p95) == IF p95 = 0 THEN 0 ELSE (100 * Abs(p95 - jitter)) \div p95

\* _calculate_pps_trend(), which keeps the rate it was called with before
PpsTrend(prev_pps, pps) ==
  IF prev_pps = None \/ prev_pps = 0 THEN 0 ELSE Round(10000 * (pps - prev_pps), prev_pps)

\* _calculate_loss_rate()
LossRate(pps, packet_loss) ==
  IF pps + packet_loss = 0 THEN 0 ELSE Round(10000 * packet_loss, pps + packet_loss)

\* _calculate_quality_score(): two points for each millisecond and ten for each
\* percent of loss, weighted six to four.
QualityScore(jitter, loss_rate) ==
  LET jitter_score == Clamp(100 - 2 * jitter, 0, 100)
      loss_score   == Clamp(1000 - loss_rate, 0, 1000)
  IN Round(60 * jitter_score + 4 * loss_score, 10)

\* extract()
Extract(stats, prev_pps) ==
  LET loss_rate == LossRate(stats.pps, stats.packet_loss)
  IN [jitter_current    |-> stats.jitter_current,
      jitter_p95        |-> stats.jitter_p95,
      jitter_volatility |-> JitterVolatility(stats.jitter_current, stats.jitter_p95),
      pps_trend         |-> PpsTrend(prev_pps, stats.pps),
      loss_rate         |-> loss_rate,
      quality_score     |-> QualityScore(stats.jitter_current, loss_rate)]

\* extract_batch(): row by row, so that a row's trend is against the row before.
ExtractBatch(history, prev_pps) ==
  LET before(s) == {t \in DOMAIN history : t < s}
      prev(s) == IF before(s) = {} THEN prev_pps ELSE history[Max(before(s))].pps
  IN [s \in DOMAIN history |-> Extract(history[s], prev(s))]
=============================================================================
