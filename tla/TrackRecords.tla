---------------------------- MODULE TrackRecords ----------------------------
(***************************************************************************)
(* forecast/track_record_store.py, forecast/base.py, generator.py and      *)
(* candidates.py: how a measured record becomes a forecast and a forecast  *)
(* becomes permission to act.                                              *)
(*                                                                         *)
(* `rows` is the table strategy_track_records for the strategy that runs,  *)
(* oldest first; rows are only ever appended, so its order is the order of *)
(* measured_at.  A row keeps the day it was measured, how many trades it   *)
(* rests on ("none", "few": fewer than the 30 that make it meaningful,     *)
(* "enough"), whether more than half of them won, and whether it is        *)
(* out-of-sample.                                                          *)
(***************************************************************************)
EXTENDS Integers, Sequences

CONSTANTS MaxAgeDays   \* engine.track_record_max_age_days

ASSUME AgeAssumption == MaxAgeDays \in Nat \ {0}

VARIABLES rows

TradeCounts == {"none", "few", "enough"}
TrackRecord == [measured : Int, trades : TradeCounts, winning : BOOLEAN,
                outOfSample : BOOLEAN]
NoRecord == [trades |-> "none"]

\* TrackRecordStore.save: append only, never overwritten.
SaveRow(measured, trades, winning, outOfSample) ==
  rows' = Append(rows, [measured |-> measured, trades |-> trades,
                        winning |-> winning, outOfSample |-> outOfSample])

\* BUG: the newest row that is out-of-sample, skipping a newer one that is not.
NewestMutant ==
  LET good == {i \in 1 .. Len(rows) : rows[i].outOfSample}
  IN IF good = {} THEN rows[Len(rows)]
     ELSE rows[CHOOSE i \in good : \A j \in good : j <= i]

\* TrackRecordStore.latest
Newest == rows[Len(rows)]

Expired(row, today) == MaxAgeDays > 0 /\ today - row.measured > MaxAgeDays

\* TrackRecordStore.load: the newest row or nothing; an older row is never
\* taken in place of a newest one that was refused.
Loadable(today) ==
  /\ rows # <<>>
  /\ Newest.outOfSample
  /\ ~Expired(Newest, today)
Load(today) == IF Loadable(today) THEN Newest ELSE NoRecord

-----------------------------------------------------------------------------
(* ForecastGenerator.  No code writes the outcomes CalibrationTracker reads, *)
(* so a calibration report is always empty: it corrects nothing, vetoes      *)
(* nothing, and HIGH confidence is never reached.                            *)

Confidence(record, volatilityKnown) ==
  IF ~volatilityKnown \/ record.trades = "none" THEN "none"
  ELSE IF record.trades = "enough" THEN "medium" ELSE "low"

\* _probability compared with one half.  Shrinking a win rate and clamping the
\* result to its band keep it on its side of one half.  A model's probability
\* goes before the record's win rate.
ModelProbabilities == {"absent", "low", "high"}
Favourable(record, model) ==
  \/ model = "high"
  \/ model = "absent" /\ record.trades # "none" /\ record.winning

\* classify: hard blocks, compliance, then the forecast.
Classify(included, compliance, signalled, record, volatilityKnown, model) ==
  IF ~included \/ compliance = "non_compliant" THEN "blocked"
  ELSE IF compliance \in {"doubtful", "unknown"} THEN "needs_approval"
  ELSE IF /\ signalled
          /\ Confidence(record, volatilityKnown) # "none"
          /\ Favourable(record, model)
  THEN "actionable" ELSE "watch"
=============================================================================
