------------------------------- MODULE Tariffs -------------------------------
(***************************************************************************)
(* Billing and export credit: what a retail schedule charges for the grid  *)
(* import of each month, and what an export regime pays for the export.    *)
(* Hours, months and rates are small integers; a weekday flag and an hour  *)
(* of the day are one slot.                                                *)
(***************************************************************************)
EXTENDS Integers, Sequences, SequencesExt

CONSTANTS
  Hours, Months,   \* bounds: hours and months of the year (8760 and 12)
  Calendar,        \* tmy_hour_calendar: the month and the slot of each hour
  None

\* max(0.0, x) and min(x, y)
Positive(x) == IF x > 0 THEN x ELSE 0
Least(x, y) == IF x <= y THEN x ELSE y

Hour  == 1..Hours
Month == 1..Months

ASSUME CalendarAssumption ==
  /\ Hours \in Nat \ {0} /\ Months \in Nat \ {0}
  /\ Calendar \in [Hour -> [month : Month, slot : Nat]]

\* TouPeriod, TieredBlock and TariffSchedule: no rate is negative, and what
\* the structure bills by is there
Periods == Seq([months : SUBSET Nat, slots : SUBSET Nat, rate : Nat])
Blocks  == Seq([rate : Nat, upTo : Nat \cup {None}])
Schedule ==
  {s \in [structure : {"flat", "tou", "tiered"}, fixed : Nat, rate : Nat \cup {None},
          blocks : Blocks, periods : Periods] : s.structure = "flat" => s.rate \in Nat}

\* NemOneForOneConfig, NbtConfig, SegFlatConfig and SegTouConfig: an hourly
\* rate may be negative, the flat one not
ExportConfig ==
  {c \in [regime : {"nem_one_for_one", "nem_three_nbt", "seg_flat", "seg_tou"},
          rate : Nat \cup {None}, rates : Seq(Int)] :
     /\ c.regime = "seg_flat" => c.rate \in Nat
     /\ c.regime \in {"nem_three_nbt", "seg_tou"} => Len(c.rates) = Hours}

HoursOf(m) == {h \in Hour : Calendar[h].month = m}

\* the sum of a function over a finite part of its domain
SumOver(S, f) == SumFunctionOnSet(f, S)

ImportOf(net) == [h \in Hour |-> Positive(net[h])]
ExportOf(net) == [h \in Hour |-> Positive(-net[h])]

MonthKwh(kwh, m) == SumOver(HoursOf(m), kwh)

----------------------------------------------------------------------------
\* time of use: the first period that covers the hour

Covers(p, cell) == cell.month \in p.months /\ cell.slot \in p.slots

TouRate(ps, cell) ==
  LET hits == {i \in DOMAIN ps : Covers(ps[i], cell)}
  IN IF hits = {} THEN None ELSE ps[Min(hits)].rate

\* the hours whose rate is the highest of the schedule, unless that is zero
OnPeak(ps, cell) ==
  LET peak == Max({ps[i].rate : i \in DOMAIN ps})
  IN peak # 0 /\ TouRate(ps, cell) = peak

----------------------------------------------------------------------------
\* tiers: blocks by ascending threshold, the catch-all last, ties as written

Before(blocks, i, j) ==
  LET a == blocks[i].upTo  b == blocks[j].upTo
  IN \/ a # None /\ (b = None \/ a < b)
     \/ a = b /\ i < j

\* how many blocks come before one
Rank(blocks, i) == Cardinality({j \in DOMAIN blocks : Before(blocks, j, i)})

SortedBlocks(blocks) ==
  [n \in DOMAIN blocks |-> blocks[CHOOSE i \in DOMAIN blocks : Rank(blocks, i) = n - 1]]

\* one block of the walk; a block the cursor is already past takes nothing
Walk(acc, block) ==
  LET portion == IF block.upTo = None THEN acc.left
                 ELSE Positive(Least(acc.left, block.upTo - acc.cursor))
  IN [cursor |-> acc.cursor + portion, left |-> acc.left - portion,
      charge |-> acc.charge + portion * block.rate]

TierCharge(kwh, blocks) ==
  LET sorted == SortedBlocks(blocks)
      walked[n \in 0..Len(blocks)] ==
        IF n = 0 THEN [cursor |-> 0, left |-> Positive(kwh), charge |-> 0]
        ELSE Walk(walked[n - 1], sorted[n])
  IN walked[Len(blocks)].charge

----------------------------------------------------------------------------
\* compute_annual_bill

RateAt(s, h) == IF s.structure = "flat" THEN s.rate ELSE TouRate(s.periods, Calendar[h])

\* some billed hour has no period: the step raises
Uncovered(s, kwh) ==
  s.structure = "tou" /\ \E h \in Hour : kwh[h] > 0 /\ RateAt(s, h) = None

\* kWh at the rates of their hours (an hour without kWh needs none)
AtRates(s, kwh, m) ==
  SumOver(HoursOf(m), [h \in Hour |-> IF kwh[h] > 0 THEN kwh[h] * RateAt(s, h) ELSE 0])

EnergyCharge(s, net, m) ==
  IF s.structure = "tiered"
  THEN TierCharge(MonthKwh(ImportOf(net), m), s.blocks)
  ELSE AtRates(s, ImportOf(net), m)

AnnualBill(s, net) ==
  [m \in Month |-> [kwh |-> MonthKwh(ImportOf(net), m),
                    energy |-> EnergyCharge(s, net, m),
                    fixed |-> s.fixed]]

Total(bill) == SumOver(Month, [m \in Month |-> bill[m].energy + bill[m].fixed])

----------------------------------------------------------------------------
\* apply_export_credit: the four regimes

\* import of a month less its export, never below zero
Netted(net, m) ==
  Positive(MonthKwh(ImportOf(net), m) - MonthKwh(ExportOf(net), m))

NemCredit(s, net, m) ==
  IF s.structure = "tiered"
  THEN TierCharge(MonthKwh(ImportOf(net), m), s.blocks) - TierCharge(Netted(net, m), s.blocks)
  ELSE AtRates(s, ExportOf(net), m)

VectorCredit(rates, net, m) ==
  SumOver(HoursOf(m), [h \in Hour |-> ExportOf(net)[h] * rates[h]])

ExportCredit(c, s, net) ==
  [m \in Month |-> CASE c.regime = "nem_one_for_one" -> NemCredit(s, net, m)
                     [] c.regime = "seg_flat" ->
                          VectorCredit([h \in Hour |-> c.rate], net, m)
                     [] OTHER -> VectorCredit(c.rates, net, m)]

\* net metering needs a schedule, and a period for every hour of export
CreditRaises(c, s, net) ==
  /\ c.regime = "nem_one_for_one"
  /\ s = None \/ (s # None /\ Uncovered(s, ExportOf(net)))

----------------------------------------------------------------------------
\* run_monthly_rollover

\* mutant of MonthSettled: what was applied is also carried over
MonthSettledTwice(carried, credit, energy) ==
  LET available == carried + credit
      applied   == IF available >= 0 THEN Least(available, energy) ELSE available
  IN [applied |-> applied, net |-> energy - applied, carry |-> Positive(available)]

\* credit pays for energy only; a deficit is settled in its month
MonthSettled(carried, credit, energy) ==
  LET available == carried + credit
      applied   == IF available >= 0 THEN Least(available, energy) ELSE available
  IN [applied |-> applied, net |-> energy - applied, carry |-> available - applied]

\* the months in turn, the first of them with nothing carried over
Settled(bill, credit) ==
  LET settled[m \in Month] ==
        MonthSettled(IF m = 1 THEN 0 ELSE settled[m - 1].carry, credit[m], bill[m].energy)
  IN settled

----------------------------------------------------------------------------
\* compute_seg_net_bill: what each month takes of the year's credit, as a
\* number of parts of a unit of money, and what is left for the homeowner

\* a flat credit is spread over the months by their energy charges
SegFlat(bill, credit) ==
  LET energy == SumOver(Month, [m \in Month |-> bill[m].energy])
      annual == SumOver(Month, credit)
  IN IF energy <= 0
     THEN [applied |-> [m \in Month |-> 0], parts |-> 1, unused |-> Positive(annual)]
     ELSE [applied |-> [m \in Month |-> Least(annual * bill[m].energy, energy * bill[m].energy)],
           parts   |-> energy,
           unused  |-> Positive(annual - Least(annual, energy))]

\* hourly credit rolls over as under net billing, what is left forfeits
SegTou(bill, credit) ==
  LET settled == Settled(bill, credit)
  IN [applied |-> [m \in Month |-> settled[m].applied], parts |-> 1,
      unused  |-> settled[Months].carry]

SegSettlement(regime, bill, credit) ==
  IF regime = "seg_flat" THEN SegFlat(bill, credit) ELSE SegTou(bill, credit)
=============================================================================
