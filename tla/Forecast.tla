------------------------------- MODULE Forecast -------------------------------
(***************************************************************************)
(* One run of the forecast engine: the steps of ENGINE_STEP_ORDER, the     *)
(* artifacts each reads and leaves, the hours of the battery dispatch, the *)
(* years of the finance step and the months of its loan.                   *)
(*                                                                         *)
(* Energy and money are small integers.  A production is a multiple of     *)
(* Scale, so that a year's capacity factor, a number of Scale-ths, applies *)
(* to it exactly.                                                          *)
(***************************************************************************)
EXTENDS Dispatch, UrdbParse

CONSTANTS
  FirstLoss, AnnualLoss,           \* the degradation curve, in Scale-ths
  Consumptions, Yields, SnowLosses, Batteries, Schedules, ExportConfigs,
  Financials, Requests,            \* the inputs of a run
  RateCards,                       \* URDB responses a schedule may come from
  SaleScenarios,                   \* what a sale of the home may be priced at
  Interests                        \* bound: interest of a loan month

VARIABLES
  given,      \* ForecastInputs, the weather's yield and snow, feature_keys
  at,         \* the place of the current step in ENGINE_STEP_ORDER
  artifacts,  \* ForecastState.artifacts
  hours,      \* the hours dispatched so far
  years,      \* the finance years so far
  rows,       \* the amortization rows so far
  bracket,    \* low and high of _bisect, once irr has its flows
  raised      \* an exception left run_forecast

vars == <<given, at, artifacts, hours, years, rows, bracket, raised>>

\* mutant of ENGINE_STEP_ORDER: the snow derate comes before what it derates
ENGINE_STEP_ORDERSnowFirst ==
  <<"snow", "dc_production", "degradation", "battery_dispatch",
    "tariff", "export_credit", "finance">>

\* the steps that have an adapter
ENGINE_STEP_ORDER ==
  <<"dc_production", "snow", "degradation", "battery_dispatch",
    "tariff", "export_credit", "finance">>

Keys == {ENGINE_STEP_ORDER[i] : i \in DOMAIN ENGINE_STEP_ORDER} \cup {"consumption"}

Bracket == [low : Nat, high : Nat]

ASSUME EngineAssumption ==
  /\ FirstLoss \in 0..(Scale - 1) /\ AnnualLoss \in Nat
  /\ Interests \subseteq Nat
  /\ None \notin Int /\ None \notin LoanInputs
  /\ None \notin [Hour -> Nat] /\ None \notin Battery /\ None \notin Bracket
  /\ Yields \subseteq [Hour -> Nat]
  /\ \A y \in Yields : \A h \in Hour : y[h] % Scale = 0
  /\ SnowLosses \subseteq [Month -> {0, 1}] \cup {None}
  /\ Batteries \subseteq Battery \cup {None}
  /\ Schedules \subseteq Schedule \cup {None} /\ ExportConfigs \subseteq ExportConfig \cup {None}
  /\ Financials \subseteq FinancialInputs /\ SaleScenarios \subseteq SaleScenarioInputs
  /\ \A f \in Financials : \A t \in 0..f.years : Unit % Power(f.discount, t) = 0
  /\ \A card \in RateCards : RateCard(card)
  /\ \A c \in Consumptions : c = None \/ c \in
       [hourly : [Hour -> Int] \cup {None}, annual : Nat \cup {None}]

\* _resolve_consumption
Load(c) ==
  CASE c # None /\ c.hourly # None                   -> c.hourly
    [] c # None /\ c.hourly = None /\ c.annual # None -> [h \in Hour |-> c.annual \div Hours]
    [] OTHER                                         -> [h \in Hour |-> 0]

Init ==
  /\ given \in [consumption : Consumptions, yield : Yields, snow : SnowLosses,
                battery : Batteries, schedule : Schedules, export : ExportConfigs,
                financial : Financials, requested : Requests]
  /\ at = 1
  /\ artifacts = [k \in Keys |-> IF k = "consumption" THEN Load(given.consumption) ELSE None]
  /\ hours = <<>> /\ years = <<>> /\ rows = <<>> /\ bracket = None
  /\ raised = FALSE

Absent(k) == artifacts[k] = None

Step == IF at \in DOMAIN ENGINE_STEP_ORDER THEN ENGINE_STEP_ORDER[at] ELSE "done"

----------------------------------------------------------------------------
\* The streams every step reads

\* _production_kw
Production ==
  IF Absent("snow") THEN artifacts["dc_production"] ELSE artifacts["snow"]

\* _net_load
NetLoad ==
  IF Absent("battery_dispatch") THEN NetOf(artifacts["consumption"], Production)
  ELSE [h \in Hour |-> artifacts["battery_dispatch"][h].import
                         - artifacts["battery_dispatch"][h].export]

\* _resolve_strategy: arbitrage needs time-of-use periods
Arbitrage ==
  /\ given.battery.strategy = "tou_arbitrage"
  /\ given.schedule # None
  /\ given.schedule.periods # <<>>

\* _build_peak_mask
Peak(h) == Arbitrage /\ OnPeak(given.schedule.periods, Calendar[h])

\* mutant of Factor: the clamp is missing
FactorUnclamped(t) == Scale - FirstLoss - AnnualLoss * (t - 1)

\* degradation_factors, the linear model
LinearCurve(loss, t) == Positive(Scale - FirstLoss - loss * (t - 1))

Factor(t) == LinearCurve(AnnualLoss, t)

\* mutant of FinanceProduction: finance bills the yield without the snow
FinanceProductionUnderSnow(t) ==
  Derated(artifacts["dc_production"], artifacts["degradation"][t])

FinanceProduction(t) == Derated(Production, artifacts["degradation"][t])

YearNet(t) == NetOf(artifacts["consumption"], FinanceProduction(t))

----------------------------------------------------------------------------
\* What an adapter does before its step runs

\* the early returns of the adapters, and a step that answers None
Declines(k) ==
  \/ k = "snow" /\ ~Absent("dc_production") /\ given.snow = None
  \/ k = "battery_dispatch" /\ given.battery = None
  \/ k = "tariff" /\ given.schedule = None
  \/ k = "export_credit" /\ given.export = None
  \/ k = "finance" /\ \/ given.financial.cost = None
                      \/ given.schedule = None
                      \/ Absent("dc_production")
                      \/ Absent("degradation")

\* lcoe divides by the energy of the years: none of them has any
Barren ==
  /\ Len(years) = given.financial.years
  /\ \A t \in DOMAIN years : years[t].energy = 0

\* a missing artifact is a KeyError; a gap in the tariff, net metering without
\* a tariff, and a system that never yields anything are ValueErrors
Raises(k) ==
  \/ k \in {"snow", "battery_dispatch", "tariff", "export_credit"} /\ Absent("dc_production")
  \/ /\ ~Absent("dc_production")
     /\ \/ k = "tariff" /\ Uncovered(given.schedule, ImportOf(NetLoad))
        \/ k = "export_credit" /\ CreditRaises(given.export, given.schedule, NetLoad)
        \/ k = "finance" /\ Uncovered(given.schedule, artifacts["consumption"])
        \/ /\ k = "finance" /\ given.export # None /\ Len(years) < given.financial.years
           /\ CreditRaises(given.export, given.schedule, YearNet(Len(years) + 1))
        \/ k = "finance" /\ Barren

Running(k) ==
  /\ ~raised /\ Step = k /\ k \in given.requested
  /\ ~Declines(k) /\ ~Raises(k)

\* the step returned x
Leave(k, x) ==
  /\ artifacts' = [artifacts EXCEPT ![k] = x]
  /\ at' = at + 1
  /\ UNCHANGED <<given, hours, years, rows, bracket, raised>>

Skip ==
  /\ ~raised /\ Step # "done"
  /\ Step \notin given.requested \/ Declines(Step)
  /\ at' = at + 1
  /\ UNCHANGED <<given, artifacts, hours, years, rows, bracket, raised>>

Raise ==
  /\ ~raised /\ Step \in given.requested
  /\ ~Declines(Step) /\ Raises(Step)
  /\ raised' = TRUE
  /\ UNCHANGED <<given, at, artifacts, hours, years, rows, bracket>>

----------------------------------------------------------------------------
\* dc_production, snow, degradation

\* pvlib's model chain: the weather decides the yield
Produce == Running("dc_production") /\ Leave("dc_production", given.yield)

\* a month of snow loses its production, or none of it
SnowLoss ==
  /\ Running("snow")
  /\ Leave("snow", [h \in Hour |->
                      artifacts["dc_production"][h] * (1 - given.snow[Calendar[h].month])])

Degrade ==
  /\ Running("degradation")
  /\ Leave("degradation", [t \in 1..given.financial.years |-> Factor(t)])

----------------------------------------------------------------------------
\* dispatch_battery

\* the walk starts at the floor
Bank == IF hours = <<>> THEN given.battery.floor ELSE Last(hours).soc

DispatchHour ==
  /\ Running("battery_dispatch") /\ Len(hours) < Hours
  /\ LET h == Len(hours) + 1
     IN hours' = Append(hours, HourOutcome(given.battery, Arbitrage, Peak(h), NetLoad[h], Bank))
  /\ UNCHANGED <<given, at, artifacts, years, rows, bracket, raised>>

Dispatched ==
  /\ Running("battery_dispatch") /\ Len(hours) = Hours
  /\ Leave("battery_dispatch", hours)

----------------------------------------------------------------------------
\* tariff, export_credit

Bill == Running("tariff") /\ Leave("tariff", AnnualBill(given.schedule, NetLoad))

Credit ==
  /\ Running("export_credit")
  /\ Leave("export_credit", ExportCredit(given.export, given.schedule, NetLoad))

----------------------------------------------------------------------------
\* run_finance

Baseline == AnnualBill(given.schedule, artifacts["consumption"])

FinanceYear ==
  /\ Running("finance") /\ Len(years) < given.financial.years
  /\ years' = Append(years, YearTerms(artifacts["consumption"], FinanceProduction(Len(years) + 1),
                                      given.schedule, given.export))
  /\ UNCHANGED <<given, at, artifacts, hours, rows, bracket, raised>>

Term == IF given.financial.loan = None THEN 0 ELSE given.financial.loan.term

Owed == IF rows = <<>> THEN given.financial.loan.principal ELSE Last(rows).balance

\* what of the balance a month repays; the last month repays it all
Repaid(month) == IF month = Term THEN {Owed} ELSE 0..Owed

\* a row of amortize_variable: the rate decides interest and share
LoanMonth ==
  /\ Running("finance") /\ Len(years) = given.financial.years /\ Len(rows) < Term
  /\ \E principal \in Repaid(Len(rows) + 1), interest \in IF Owed = 0 THEN {0} ELSE Interests :
       rows' = Append(rows, [payment |-> principal + interest, interest |-> interest,
                             principal |-> principal, balance |-> Owed - principal])
  /\ UNCHANGED <<given, at, artifacts, hours, years, bracket, raised>>

\* what the months of a year of the schedule add up to
Payments(schedule, t) ==
  SumOver({i \in DOMAIN schedule : (t - 1) * Months < i /\ i <= t * Months},
          [i \in DOMAIN schedule |-> schedule[i].payment])

\* _annual_loan_payments, a year of Months payments
DebtService(t) == Payments(rows, t)

Upfront == IF given.financial.loan = None THEN given.financial.cost
           ELSE given.financial.loan.down

\* the years and the loan are done: what is left are the headline metrics
Rolled ==
  /\ Running("finance")
  /\ Len(years) = given.financial.years /\ Len(rows) = Term

\* per_year_cashflow
Flows ==
  [t \in 0..Len(years) |->
     IF t = 0 THEN -Upfront
     ELSE years[t].avoidance + years[t].credit - given.financial.opex - DebtService(t)]

StartIrr ==
  /\ Rolled /\ bracket = None /\ HasIrr(Flows)
  /\ bracket' = [low |-> Low, high |-> High]
  /\ UNCHANGED <<given, at, artifacts, hours, years, rows, raised>>

HalveIrr ==
  /\ Rolled /\ bracket # None /\ bracket.high - bracket.low > 1
  /\ bracket' = Halved(bracket, Flows)
  /\ UNCHANGED <<given, at, artifacts, hours, years, rows, raised>>

\* the bisection has its root, or _safe_irr has none
Close ==
  /\ Rolled
  /\ IF bracket = None THEN ~HasIrr(Flows) ELSE bracket.high - bracket.low <= 1
  /\ Leave("finance", Flows)

----------------------------------------------------------------------------
\* run_forecast has returned or raised
Ended == (raised \/ Step = "done") /\ UNCHANGED vars

Next ==
  \/ Skip \/ Raise
  \/ Produce \/ SnowLoss \/ Degrade
  \/ DispatchHour \/ Dispatched
  \/ Bill \/ Credit
  \/ FinanceYear \/ LoanMonth \/ StartIrr \/ HalveIrr \/ Close
  \/ Ended

Spec == Init /\ [][Next]_vars

----------------------------------------------------------------------------
\* Properties

HourRecord == [charge : Nat, discharge : Nat, soc : Nat, import : Nat, export : Nat]
RowRecord == [payment : Nat, interest : Nat, principal : Nat, balance : Nat]

\* The types of the walks and of the streams, and where a run may stand.
TypeOK ==
  /\ at \in 1..(Len(ENGINE_STEP_ORDER) + 1)
  /\ artifacts["consumption"] \in [Hour -> Int]
  /\ artifacts["dc_production"] \in [Hour -> Nat] \cup {None}
  /\ artifacts["snow"] \in [Hour -> Nat] \cup {None}
  /\ artifacts["degradation"] \in [1..given.financial.years -> 0..Scale] \cup {None}
  /\ hours \in Seq(HourRecord) /\ Len(hours) <= Hours
  /\ rows \in Seq(RowRecord)
  /\ bracket \in Bracket \cup {None}
  /\ raised \in BOOLEAN

SocBefore(h) == IF h = 1 THEN given.battery.floor ELSE hours[h - 1].soc
BeforeBattery(h) == NetOf(artifacts["consumption"], Production)[h]

\* Every dispatched hour balances twice: the bank gains what was charged and
\* loses what was discharged with its losses, within its floor and capacity
\* and without the final clamp of the loop ever moving it; and the meter
\* shows the household's own net load plus charge less discharge, never
\* importing and exporting at once, never exporting more than the sun's
\* surplus, so no energy bought from the grid is sold back.
BatteryBalances ==
  \A h \in DOMAIN hours :
    LET o == hours[h]
    IN /\ o.soc = SocBefore(h) + o.charge - Loss * o.discharge
       /\ given.battery.floor <= o.soc /\ o.soc <= given.battery.usable
       /\ o.import - o.export = BeforeBattery(h) + o.charge - o.discharge
       /\ o.import = 0 \/ o.export = 0
       /\ o.charge = 0 \/ o.discharge = 0
       /\ o.export <= Positive(-BeforeBattery(h))

CardSchedules == [card \in {c \in RateCards : ~Malformed(c)} |-> Parsed(card)]

\* A month's bill is what the utility's rate card says, reckoned from the card
\* alone: every kWh at the rate of the period its matrices name for the hour,
\* weekday or weekend and in each season, or at that of the tier it falls in,
\* in whatever order the blocks are written.  Parsing into bands, first match,
\* sorting and the walk over the blocks neither lose an hour nor move a kWh.
\* Net metering on tiers returns the top kWh of the month that it displaces.
BillsFollowTheCard ==
  \A card \in DOMAIN CardSchedules :
    given.schedule = CardSchedules[card] =>
      /\ ~Absent("tariff") =>
           \A m \in Month :
             artifacts["tariff"][m].energy = CardCharge(card, ImportOf(NetLoad), m)
      /\ /\ ~Absent("export_credit") /\ given.export.regime = "nem_one_for_one"
         /\ given.schedule.structure = "tiered"
         => \A m \in Month :
              artifacts["export_credit"][m] =
                SumOver((Netted(NetLoad, m) + 1)..MonthKwh(ImportOf(NetLoad), m),
                        [k \in Nat |-> CardTier(card.structure[1], k)])

RolloverConserves ==
  \A t \in DOMAIN years : years[t].settled # <<>> =>
    LET settled == years[t].settled
        raw     == ExportCredit(given.export, given.schedule, YearNet(t))
    IN \A m \in Month :
         /\ settled[m].carry >= 0 /\ settled[m].net >= 0
         /\ SumOver(1..m, [i \in Month |-> settled[i].applied]) + settled[m].carry
              = SumOver(1..m, raw)

\* Under net billing, up to any month what was earned is what was applied and
\* what is still carried: credit is neither made nor lost before the year's
\* end, none is spent before it is earned, and no month's energy charge is
\* pushed below zero (MonthlyBill would refuse it and end the run).  The SEG
\* settlement of the forecast's own bill and credit balances the same way:
\* what was earned is what the months took and what is paid out or forfeit.
CreditIsConserved ==
  /\ RolloverConserves
  /\ ~Absent("tariff") /\ ~Absent("export_credit") /\ given.export.regime \in {"seg_flat", "seg_tou"} =>
       LET bill    == artifacts["tariff"]
           credit  == artifacts["export_credit"]
           settled == SegSettlement(given.export.regime, bill, credit)
       IN /\ \A m \in Month : settled.applied[m] <= settled.parts * bill[m].energy
          /\ settled.unused >= 0
          /\ SumOver(Month, settled.applied) + settled.parts * settled.unused
               = settled.parts * SumOver(Month, credit)

\* where surplus is not paid out: net billing, and net metering on tiers
WithinBill ==
  \A t \in DOMAIN years :
    (\/ given.export = None
     \/ given.export.regime = "nem_three_nbt"
     \/ given.export.regime = "nem_one_for_one" /\ given.schedule.structure = "tiered")
      => years[t].avoidance + years[t].credit
           <= SumOver(Month, [m \in Month |-> Baseline[m].energy])

WithinTariff ==
  ~Absent("tariff") /\ Absent("battery_dispatch") =>
    \A t \in DOMAIN years :
      years[t].avoidance <= Total(Baseline) - Total(artifacts["tariff"])

\* an hour of export never costs money
CalmExport == given.export = None \/ given.export.regime \in {"nem_one_for_one", "seg_flat"}

Fading ==
  CalmExport =>
    \A t \in 2..Len(years) :
      /\ years[t].avoidance + years[t].credit <= years[t - 1].avoidance + years[t - 1].credit
      /\ years[t].energy <= years[t - 1].energy

\* What a year of finance saves is bounded three ways: by the energy the
\* household used to buy, where surplus is not paid out; without a battery, by
\* the bill the tariff step shows, though finance bills the degraded production
\* again on its own; and, unless export can cost money, by the year before,
\* because panels only age.
SavingsBounded == WithinBill /\ WithinTariff /\ Fading

\* what the caller of expected_sale_npv pays off: the balance of the loan
Payoff == [y \in 1..given.financial.years |->
             IF y * Months >= Term THEN 0 ELSE rows[y * Months].balance]

InterestThrough(y) ==
  SumOver({i \in DOMAIN rows : i <= y * Months}, [i \in DOMAIN rows |-> rows[i].interest])

\* what a home sold in a year has brought, reckoned without the loan's rows
SaleReckoned(s, year) ==
  LET sold == Least(year, given.financial.years)
  IN SumOver(1..sold, [t \in 1..sold |->
               years[t].avoidance + years[t].credit - given.financial.opex])
       - Upfront + Uplift(s, sold) - Closing(s, sold)
       - (IF Term = 0 THEN 0 ELSE given.financial.loan.principal + InterestThrough(sold))

\* The loan is paid once.  Whatever years a home may be sold in, past the
\* horizon too, without discounting the expected sale brings the savings of the
\* years until then and the net uplift, less the outlay, the whole principal
\* and the interest to date: the debt service of the years and the balance
\* paid off at the sale never leave out or repeat a month.  A loan of the
\* horizon or less ends at zero.
SaleSettlesTheLoan ==
  ~Absent("finance") =>
    /\ 0 < Term /\ Term <= given.financial.years * Months => Last(rows).balance = 0
    /\ \A s \in SaleScenarios :
         ExpectedSale(1, artifacts["finance"], s, Payoff)
           = Unit * SumOver(DOMAIN s.odds, [i \in DOMAIN s.odds |->
                              s.odds[i].weight * SaleReckoned(s, s.odds[i].year)])

\* _bisect never loses the root: at every turn the two ends of its bracket lie
\* on opposite sides of a rate at which the NPV is zero, or on it, and within
\* the guesses; the years and the loan it searches over are complete.
RootIsBracketed ==
  bracket # None =>
    /\ Low <= bracket.low /\ bracket.low <= bracket.high /\ bracket.high <= High
    /\ ~SameSide(bracket.low, bracket.high, Flows)
    /\ Len(years) = given.financial.years /\ Len(rows) = Term

\* an outlay, then years that cost nothing
Conventional(flows) == flows[0] < 0 /\ \A t \in 1..Horizon(flows) : flows[t] >= 0

\* a flat rate that every kWh the panels make is worth
Unexported ==
  /\ given.schedule.structure = "flat" /\ given.financial.loan = None
  /\ \A t \in DOMAIN years : \A h \in Hour : YearNet(t)[h] >= 0

\* The headline metrics of one forecast agree about whether it pays at the
\* discount rate, though each is computed on its own way through the years:
\* NPV is not negative exactly if MIRR reaches that rate (the inflows,
\* reinvested, reach what the outlay would have earned elsewhere); a project
\* with an NPV pays back, and after a single outlay only such a project does,
\* and its IRR lies on that side of the rate; and where every kWh replaces one
\* at a flat rate, it pays exactly if that rate reaches the LCOE in year one.
HeadlinesAgree ==
  ~Absent("finance") =>
    LET f     == given.financial
        flows == artifacts["finance"]
        pays  == Npv(f.discount, flows) >= 0
        mirr  == Mirr(f.discount, f.discount, flows)
        back  == Payback(f.discount, flows) # None
        lcoe  == Lcoe(f.discount, f.cost, f.opex, [t \in DOMAIN years |-> years[t].energy])
    IN /\ mirr # None =>
            (pays <=> Unit * mirr.earned
                        >= AlternativeWealth(mirr.paid, f.discount, f.years)[f.years])
       /\ pays => back
       /\ Conventional(flows) =>
            /\ back => pays
            /\ bracket # None =>
                 /\ Grid * f.discount <= bracket.low => pays
                 /\ Grid * f.discount >= bracket.high => Npv(f.discount, flows) <= 0
       /\ Unexported => (pays <=> Crossover(lcoe, Baseline, f.escalation, f.years) = 1)

\* A run raises only when it was asked to do without production, when its
\* tariff leaves an hour of the year without a rate, when it asks for net
\* metering without a tariff, or when its years yield no energy at all: no
\* other combination of inputs and left-out steps does.
OnlyGapsRaise ==
  raised =>
    \/ "dc_production" \notin given.requested
    \/ /\ given.schedule # None /\ given.schedule.structure = "tou"
       /\ \E h \in Hour : TouRate(given.schedule.periods, Calendar[h]) = None
    \/ /\ given.schedule = None
       /\ given.export # None /\ given.export.regime = "nem_one_for_one"
    \/ Barren
=============================================================================
