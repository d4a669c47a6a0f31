------------------------------- MODULE Reports -------------------------------
(***************************************************************************)
(* The reports of a thread's runs: each is made of the metrics a run       *)
(* returned, whatever happened on the thread before.                       *)
(***************************************************************************)
EXTENDS Simulator, Rates

\* A report of any run adds up: its rates are numbers and proportions of one
\* whole, and its misses are the predictions without a hit.  The code's counters
\* are of CountRange values, those of the model count on.
ReportsAddUp ==
    result # None /\ result.total_predictions < CountRange =>
      LET report == ReportOf(result)
      IN  Finite(report) /\ Proportions(report) /\ EnergyShares(report)
=============================================================================
