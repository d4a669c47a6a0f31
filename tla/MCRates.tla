------------------------------- MODULE MCRates -------------------------------
(***************************************************************************)
(* Reports for TLC: two runs in a row on one thread, with work *)
(* between them; callbacks that work, nest groups and panic; outcomes of   *)
(* several stages or none; and the reports of what the runs return, also   *)
(* without predictions, without hits or misses, without energy or area.    *)
(***************************************************************************)
EXTENDS MCSimulator, Reports

RatesTraces ==
    {<<>>, <<Always>>, <<Always, [taken |-> FALSE, next |-> there]>>}

\* A single stage, right in everything or in nothing; a later stage that was
\* made first; stages of equal delay, the one made last wrong in its target.
RatesOutcomes ==
    {<<>>, Single(0, TRUE, here),
     Single(2, FALSE, here) \o Single(1, FALSE, there),
     Single(1, FALSE, there) \o Single(1, TRUE, there)}

\* Hardware that takes no area.
FlatCosts == [PricedCosts EXCEPT ![add] = Priced(2, 1, 0, 2)]

RatesConfigs == Configs_upto(1, 1)
RatesTables == {FlatCosts, UnpricedCosts}
RatesHardware == {<<add, 8>>}
=============================================================================
