------------------------------ MODULE MCForecast ------------------------------
(***************************************************************************)
(* A year of a weekday and a day of a weekend, each its own month and with *)
(* a day slot and an evening slot.                                         *)
(***************************************************************************)
EXTENDS Forecast

MCCalendar == <<[month |-> 1, slot |-> 1], [month |-> 1, slot |-> 2],
                [month |-> 2, slot |-> 3], [month |-> 2, slot |-> 4]>>

MCConsumptions == {
  None,
  [hourly |-> None, annual |-> 8],
  [hourly |-> <<1, 3, 0, 5>>, annual |-> None]}

\* production at noon, a cloudy first month, none in the second evening
MCYields == {<<8, 0, 4, 0>>, <<0, 4, 8, 0>>}

\* the second month under snow, or both
MCSnowLosses == {None, <<0, 1>>, <<1, 1>>}

MCBattery(strategy) ==
  [usable |-> 5, floor |-> 1, maxCharge |-> 3, maxDischarge |-> 2, strategy |-> strategy]

MCBatteries == {None, MCBattery("self_consumption"), MCBattery("tou_arbitrage")}

Plan == [structure |-> "flat", fixed |-> 1, rate |-> None, blocks |-> <<>>, periods |-> <<>>]
Period(months, slots, rate) == [months |-> months, slots |-> slots, rate |-> rate]
Block(max, rate) == [max |-> max, rate |-> rate]

\* the evening period overlaps the first, cheaper day period
Overlapping == [Plan EXCEPT !.structure = "tou",
  !.periods = <<Period({1}, {1}, 1), Period({1}, {1, 2}, 3),
                Period({2}, {3}, 1), Period({2}, {3, 4}, 3)>>]

\* for each month the period of its first slot and of its second
Matrix(slots, months) == [m \in Month |-> slots[1] :> months[m][1] @@ slots[2] :> months[m][2]]
Weekdays(months) == Matrix(<<1, 2>>, months)
Weekends(months) == Matrix(<<3, 4>>, months)

Card(structure, weekday, weekend) ==
  [fixed |-> 1, structure |-> structure, weekday |-> weekday, weekend |-> weekend]

MCRateCards == {
  \* two periods and one matrix: the first period is the rate
  Card(<<<<Block(3, 2)>>, <<Block(None, 9)>>>>, Weekdays(<<<<1, 2>>, <<1, 2>>>>), None),
  \* the catch-all is written first, with a max of zero
  Card(<<<<Block(0, 5), Block(4, 2), Block(2, 1)>>>>, None, None),
  \* the hours swap with the season; a period of two blocks, and one without
  \* any, which the second month's evening falls in
  Card(<<<<Block(4, 1), Block(None, 7)>>, <<>>, <<Block(None, 3)>>>>,
       Weekdays(<<<<1, 3>>, <<3, 1>>>>), Weekends(<<<<3, 1>>, <<1, 2>>>>)),
  \* no rate at all
  Card(<<<<>>>>, None, None)}

MCSchedules ==
  {None, Overlapping} \cup {Parsed(card) : card \in {c \in MCRateCards : ~Malformed(c)}}

Export(regime, rate, rates) == [regime |-> regime, rate |-> rate, rates |-> rates]
MCExportConfigs == {
  None,
  Export("nem_one_for_one", None, <<>>),
  Export("nem_three_nbt", None, <<3, 1, -1, 2>>),
  Export("seg_flat", 1, <<>>),
  Export("seg_tou", None, <<1, 2, -1, 0>>)}

Money(cost, term) ==
  [cost |-> cost, opex |-> 1, years |-> 4, discount |-> 2, escalation |-> 2,
   loan |-> IF term = 0 THEN None ELSE [principal |-> 2, term |-> term, down |-> 1]]
MCFinancials == {Money(None, 0), Money(9, 0), Money(9, 3)}

\* sold for certain after a year, and in the third year or after the horizon
Odds(year, weight) == [year |-> year, weight |-> weight]
MCSaleScenarios == {
  [uplift |-> 16, decay |-> 1, closing |-> 1, odds |-> <<Odds(1, 4)>>],
  [uplift |-> 16, decay |-> 1, closing |-> 1, odds |-> <<Odds(3, 1), Odds(9, 3)>>]}

All == Keys \ {"consumption"}
MCRequests == {All, All \ {"dc_production"}, All \ {"snow", "tariff"}}
=============================================================================
