------------------------------ MODULE MCAnalysis ------------------------------
(***************************************************************************)
(* Forecasts over the year of MCForecast without a battery, each followed  *)
(* by one call of a wrapper.                                               *)
(***************************************************************************)
EXTENDS Analysis

MCCalendar == <<[month |-> 1, slot |-> 1], [month |-> 1, slot |-> 2],
                [month |-> 2, slot |-> 1], [month |-> 2, slot |-> 2]>>

\* a household that uses all it makes but in one evening, and one that is out
\* at noon
MCConsumptions == {
  [hourly |-> <<9, 2, 9, 0>>, annual |-> None],
  [hourly |-> <<1, 3, 0, 5>>, annual |-> None]}

\* with and without late sun in that evening's hour
MCYields == {<<8, 0, 8, 0>>, <<8, 0, 8, 8>>}

MCSnowLosses == {None, <<0, 1>>}
MCBatteries == {None}

Plan == [structure |-> "flat", fixed |-> 1, rate |-> None, blocks |-> <<>>, periods |-> <<>>]
Period(months, slots, rate) == [months |-> months, slots |-> slots, rate |-> rate]
Block(upTo, rate) == [upTo |-> upTo, rate |-> rate]

MCSchedules == {
  None,
  [Plan EXCEPT !.rate = 2],
  [Plan EXCEPT !.structure = "tiered", !.blocks = <<Block(None, 3), Block(4, 1)>>],
  [Plan EXCEPT !.structure = "tou",
               !.periods = <<Period({1, 2}, {1}, 1), Period({1}, {2}, 3)>>]}

Export(regime, rate, rates) == [regime |-> regime, rate |-> rate, rates |-> rates]
MCExportConfigs == {
  None,
  Export("nem_one_for_one", None, <<>>),
  Export("nem_three_nbt", None, <<3, 1, -1, 2>>),
  Export("seg_flat", 1, <<>>)}

Money(cost, opex, loan) ==
  [cost |-> cost, opex |-> opex, years |-> 3, discount |-> 2, escalation |-> 2, loan |-> loan]
MCFinancials == {
  Money(None, 0, None), Money(8, 0, None), Money(6, 10, None), Money(6, 13, None),
  Money(12, 0, [principal |-> 1, term |-> 3, down |-> 9])}

MCSaleScenarios == {}

All == Keys \ {"consumption"}
MCRequests == {All, All \ {"dc_production", "snow", "tariff", "export_credit"}}

MCSensitivities == {
  [a \in AxisName |-> 1],
  [a \in AxisName |-> CASE a = "hold_years" -> 3 [] a = "annual_loss" -> 2
                        [] a = "discount_rate" -> 1 [] OTHER -> 0]}

\* the centre, a dark path, and draws beyond each clamp
Draw(weather, escalation, loss, jitter) ==
  [weather |-> weather, escalation |-> escalation, loss |-> loss, jitter |-> jitter]
MCDraws == {Draw(2, 2, 1, 0), Draw(-1, 2, 1, 0), Draw(3, 9, -1, 0),
            Draw(2, 1, 5, 1), Draw(1, 2, 2, -9)}

MCEscalationBounds == <<1, 3>>
=============================================================================
