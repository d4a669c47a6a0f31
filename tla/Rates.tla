-------------------------------- MODULE Rates --------------------------------
(***************************************************************************)
(* Report::new (src/arbiter/src/report.rs): what a report derives from the *)
(* metrics of a run.  Counts are u64, so that a difference below zero      *)
(* wraps around (a debug build panics instead).  A quotient of f64 is kept *)
(* as its fraction; one over zero is no number.                            *)
(***************************************************************************)
EXTENDS Ledger

CONSTANT CountRange     \* 2^64

ASSUME CountRangeAssumption == CountRange \in Nat \ {0}

Minus(a, b) == (a - b) % CountRange

Fraction(numerator, denominator) == [over |-> numerator, under |-> denominator]

\* Mutant: nothing guards the division.
Ratio_Unguarded(numerator, denominator) == Fraction(numerator, denominator)

\* Over zero the ratio is zero, whatever the numerator.
Ratio(numerator, denominator) ==
    IF denominator = 0 THEN Fraction(0, 1) ELSE Fraction(numerator, denominator)

Misses(m) == Minus(m.total_predictions, m.total_hits)

ReportOf(m) ==
    [total_predictions |-> m.total_predictions,
     total_hits |-> m.total_hits,
     total_misses |-> Misses(m),
     total_direction_misses |-> Minus(m.direction_predictions, m.direction_hits),
     total_target_misses |-> Minus(m.target_predictions, m.target_hits),
     total_energy |-> m.total_energy,
     hit_rate |-> Ratio(m.total_hits, m.total_predictions),
     miss_rate |-> Ratio(Misses(m), m.total_predictions),
     direction_accuracy |-> Ratio(m.direction_hits, m.direction_predictions),
     target_accuracy |-> Ratio(m.target_hits, m.target_predictions),
     energy_per_prediction |-> Ratio(m.total_energy, m.total_predictions),
     energy_per_operation |-> Ratio(m.total_energy, m.total_operations),
     energy_per_hit |-> Ratio(m.total_energy, m.total_hits),
     energy_per_miss |-> Ratio(m.total_energy, Misses(m)),
     energy_per_area |-> Ratio(m.total_energy, m.total_space)]

-----------------------------------------------------------------------------
(***************************************************************************)
(* What a report must satisfy.                                             *)
(***************************************************************************)
Ratios == {"hit_rate", "miss_rate", "direction_accuracy", "target_accuracy",
           "energy_per_prediction", "energy_per_operation", "energy_per_hit",
           "energy_per_miss", "energy_per_area"}

AtMost(x, y) == x.over * y.under <= y.over * x.under

\* Every ratio is a number.
Finite(r) == \A ratio \in Ratios : r[ratio].under > 0

\* The rates are proportions of one whole: hits and misses share the predictions
\* between them, exact hits are within the direction hits and the target hits,
\* and misses are covered by those of direction and of target.
Proportions(r) ==
    /\ r.total_hits + r.total_misses = r.total_predictions
    /\ r.total_predictions > 0 =>
         r.hit_rate.over * r.miss_rate.under + r.miss_rate.over * r.hit_rate.under
           = r.hit_rate.under * r.miss_rate.under
    /\ AtMost(r.hit_rate, r.direction_accuracy) /\ AtMost(r.hit_rate, r.target_accuracy)
    /\ r.total_misses <= r.total_direction_misses + r.total_target_misses

\* Energy over fewer events is no less per event, unless there was none.
EnergyShares(r) ==
    /\ r.total_hits > 0 => AtMost(r.energy_per_prediction, r.energy_per_hit)
    /\ r.total_misses > 0 => AtMost(r.energy_per_prediction, r.energy_per_miss)
=============================================================================
