---------------------------- MODULE ForecastProofs ----------------------------
(***************************************************************************)
(* Proofs about the engine for every calendar, battery, load, yield,       *)
(* tariff and horizon: the energy of each dispatched hour, what can make a *)
(* run raise, the bracket of the IRR, the money a run leaves behind year   *)
(* by year, the loan under a sale, and how the headline metrics agree.     *)
(***************************************************************************)
EXTENDS Forecast, FinanceProofs

----------------------------------------------------------------------------
\* One hour of the battery

\* What is delivered never draws more than the bank holds above its floor.
LEMMA DeliverableLemma ==
  ASSUME NEW x \in Nat, NEW d \in Nat, d <= x \div Loss
  PROVE  Loss * d \in Nat /\ Loss * d <= x
<1>1. Loss \in Nat /\ Loss > 0
  BY LossAssumption
<1>2. x \div Loss \in Nat /\ x % Loss \in Nat /\ x = Loss * (x \div Loss) + (x % Loss)
  BY <1>1
<1>3. Loss * d \in Nat /\ Loss * d <= Loss * (x \div Loss)
  <2> DEFINE q == x \div Loss
             spare == q - d
  <2>1. q \in Nat /\ spare \in Nat /\ q = d + spare
    BY <1>2
  <2> HIDE DEF q, spare
  <2>2. Loss * spare \in Nat /\ Loss * d \in Nat
    BY <1>1, <2>1
  <2>3. Loss * (d + spare) = Loss * d + Loss * spare
    BY <1>1, <2>1
  <2>4. Loss * q = Loss * d + Loss * spare
    BY <2>1, <2>3
  <2>5. Loss * q \in Int
    BY <1>1, <2>1
  <2>6. Loss * d <= Loss * q
    BY <2>2, <2>4, <2>5
  <2> QED BY <2>2, <2>6 DEF q
<1> QED BY <1>1, <1>2, <1>3

\* An hour keeps the two balances, whatever the strategy and the net load.
LEMMA HourLemma ==
  ASSUME NEW b \in Battery, NEW arbitrage \in BOOLEAN, NEW peak \in BOOLEAN,
         NEW net \in Int, NEW soc \in b.floor..b.usable
  PROVE  LET o == HourOutcome(b, arbitrage, peak, net, soc)
         IN /\ o \in HourRecord
            /\ o.soc = soc + o.charge - Loss * o.discharge
            /\ b.floor <= o.soc /\ o.soc <= b.usable
            /\ o.import - o.export = net + o.charge - o.discharge
            /\ o.import = 0 \/ o.export = 0
            /\ o.charge = 0 \/ o.discharge = 0
            /\ o.export <= Positive(-net)
<1> DEFINE grid  == GridCharge(b, arbitrage, peak, net, soc)
           solar == SolarCharge(b, arbitrage, peak, net, soc)
           out   == Discharge(b, arbitrage, peak, net, soc)
           o     == HourOutcome(b, arbitrage, peak, net, soc)
<1>1. /\ b.usable \in Nat /\ b.floor \in Nat /\ b.floor <= b.usable
      /\ b.maxCharge \in Nat /\ b.maxDischarge \in Nat /\ soc \in Nat
  BY DEF Battery
<1>2. Room(b, soc) \in Nat /\ Room(b, soc) <= b.usable - soc
  BY <1>1 DEF Room, Least
<1>3. /\ grid \in Nat /\ solar \in Nat
      /\ grid + solar <= b.usable - soc
      /\ grid = 0 \/ net >= 0
      /\ solar = 0 \/ (net < 0 /\ solar <= -net)
      /\ grid = 0 \/ solar = 0
  BY <1>1, <1>2 DEF GridCharge, SolarCharge, Least
<1>4. Available(b, soc) \in Nat
      /\ \A d \in Nat : d <= Available(b, soc) => Loss * d \in Nat /\ Loss * d <= soc - b.floor
  <2>1. Positive(soc - b.floor) = soc - b.floor /\ soc - b.floor \in Nat
    BY <1>1 DEF Positive
  <2>2. (soc - b.floor) \div Loss \in Nat
    BY <2>1, LossAssumption
  <2> QED BY <2>1, <2>2, DeliverableLemma DEF Available
<1>5. out \in Nat /\ out <= Available(b, soc) /\ (out = 0 \/ (net > 0 /\ out <= net))
  BY <1>1, <1>4 DEF Discharge, Least
<1>6. Loss * out \in Nat /\ Loss * out <= soc - b.floor
  BY <1>4, <1>5
<1>7. grid = 0 \/ out = 0
  BY DEF GridCharge, Discharge
<1> HIDE DEF grid, solar, out
<1>8. o = [charge |-> grid + solar, discharge |-> out,
           soc |-> Clamped(b, soc + grid + solar - Drawn(out)),
           import |-> Positive(Positive(net) - out + grid),
           export |-> Positive(Positive(-net) - Least(solar, Positive(-net)))]
  BY DEF HourOutcome, grid, solar, out
<1>9. o.soc = soc + (grid + solar) - Loss * out
  BY <1>1, <1>3, <1>6, <1>8 DEF Clamped, Drawn
<1>10. o.soc \in Nat /\ b.floor <= o.soc /\ o.soc <= b.usable
  <2> HIDE DEF o
  <2> QED BY <1>1, <1>3, <1>6, <1>9
<1>11. /\ o.import \in Nat /\ o.export \in Nat
       /\ o.import - o.export = net + (grid + solar) - out
       /\ o.import = 0 \/ o.export = 0
       /\ o.export <= Positive(-net)
  <2>1. CASE net >= 0
    BY <2>1, <1>3, <1>5, <1>7, <1>8 DEF Positive, Least
  <2>2. CASE net < 0
    BY <2>2, <1>3, <1>5, <1>8 DEF Positive, Least
  <2> QED BY <2>1, <2>2
<1>12. grid + solar = 0 \/ out = 0
  BY <1>3, <1>5, <1>7
<1>13. o \in HourRecord
  <2>1. o.charge \in Nat /\ o.discharge \in Nat
    BY <1>3, <1>5, <1>8
  <2> QED BY <1>8, <1>10, <1>11, <2>1 DEF HourRecord
<1> QED BY <1>8, <1>9, <1>10, <1>11, <1>12, <1>13

----------------------------------------------------------------------------
\* The pipeline

\* The steps are at most seven, each at its own place.
LEMMA StepLemma ==
  /\ Len(ENGINE_STEP_ORDER) = 7
  /\ Keys = {"dc_production", "snow", "degradation", "battery_dispatch",
             "tariff", "export_credit", "finance", "consumption"}
  /\ \A i \in 1..8 : at = i =>
       Step = CASE i = 1 -> "dc_production" [] i = 2 -> "snow" [] i = 3 -> "degradation"
                [] i = 4 -> "battery_dispatch" [] i = 5 -> "tariff"
                [] i = 6 -> "export_credit" [] i = 7 -> "finance" [] OTHER -> "done"
<1>1. /\ Len(ENGINE_STEP_ORDER) = 7 /\ DOMAIN ENGINE_STEP_ORDER = 1..7
      /\ ENGINE_STEP_ORDER[1] = "dc_production" /\ ENGINE_STEP_ORDER[2] = "snow"
      /\ ENGINE_STEP_ORDER[3] = "degradation" /\ ENGINE_STEP_ORDER[4] = "battery_dispatch"
      /\ ENGINE_STEP_ORDER[5] = "tariff" /\ ENGINE_STEP_ORDER[6] = "export_credit"
      /\ ENGINE_STEP_ORDER[7] = "finance"
  BY DEF ENGINE_STEP_ORDER
<1>2. 1..7 = {1, 2, 3, 4, 5, 6, 7}
  OBVIOUS
<1>3. Keys = {"dc_production", "snow", "degradation", "battery_dispatch",
              "tariff", "export_credit", "finance", "consumption"}
  <2> HIDE DEF ENGINE_STEP_ORDER
  <2> QED BY <1>1, <1>2 DEF Keys
<1> QED BY <1>1, <1>3 DEF Step

\* The inputs, fixed at the start.
InputsOK ==
  /\ given.consumption \in Consumptions /\ given.yield \in Yields
  /\ given.snow \in SnowLosses /\ given.battery \in Batteries
  /\ given.schedule \in Schedules /\ given.export \in ExportConfigs
  /\ given.financial \in Financials

LEMMA FinancialTypes ==
  ASSUME InputsOK
  PROVE  /\ given.financial \in FinancialInputs
         /\ given.financial.years \in Nat \ {0} /\ given.financial.discount \in Nat \ {0}
         /\ given.financial.opex \in Nat /\ given.financial.cost \in Nat \cup {None}
         /\ given.financial.loan # None =>
              /\ given.financial.loan.principal \in Nat
              /\ given.financial.loan.term \in Nat \ {0} /\ given.financial.loan.down \in Nat
<1>1. given.financial \in FinancialInputs
  BY EngineAssumption DEF InputsOK
<1>2. given.financial.loan # None => given.financial.loan \in LoanInputs
  BY <1>1 DEF FinancialInputs
<1> QED BY <1>1, <1>2 DEF FinancialInputs, LoanInputs

\* What else holds where a run stands: the battery's artifact and its walk
\* come with its step, and production is there once it had its turn.
Standing ==
  /\ artifacts = [k \in Keys |-> artifacts[k]]
  /\ at <= 4 => Absent("battery_dispatch")
  /\ at < 4 => hours = <<>>
  /\ hours # <<>> => given.battery \in Battery /\ ~Absent("dc_production")
  /\ rows # <<>> => given.financial.loan # None
  /\ at > 1 /\ "dc_production" \in given.requested => ~Absent("dc_production")

IInv == TypeOK /\ InputsOK /\ Standing /\ BatteryBalances /\ RootIsBracketed /\ OnlyGapsRaise

\* Production is a stream of naturals wherever it is read.
LEMMA ProductionType ==
  TypeOK /\ ~Absent("dc_production") => Production \in [Hour -> Nat]
BY DEF TypeOK, Production, Absent

LEMMA LoadType == \A c \in Consumptions : Load(c) \in [Hour -> Int]
<1> SUFFICES ASSUME NEW c \in Consumptions PROVE Load(c) \in [Hour -> Int]
  OBVIOUS
<1>1. CASE c = None
  BY <1>1 DEF Load
<1>2. CASE c # None
  <2>1. c \in [hourly : [Hour -> Int] \cup {None}, annual : Nat \cup {None}]
    BY <1>2, EngineAssumption
  <2>2. CASE c.hourly # None
    BY <1>2, <2>1, <2>2 DEF Load
  <2>3. CASE c.hourly = None /\ c.annual # None
    <3>1. c.annual \in Nat
      BY <2>1, <2>3
    <3>2. Hours \in Nat /\ Hours > 0
      BY EngineAssumption, CalendarAssumption
    <3>3. c.annual \div Hours \in Nat
      BY <3>1, <3>2
    <3> QED BY <1>2, <2>3, <3>3 DEF Load
  <2>4. CASE c.hourly = None /\ c.annual = None
    BY <1>2, <2>4 DEF Load
  <2> QED BY <2>2, <2>3, <2>4
<1> QED BY <1>1, <1>2

LEMMA InitLemma == Init => IInv
<1> SUFFICES ASSUME Init PROVE IInv
  OBVIOUS
<1>1. InputsOK
  BY DEF Init, InputsOK
<1>2. Standing
  <2>1. artifacts = [k \in Keys |-> artifacts[k]]
    BY DEF Init
  <2>2. artifacts["battery_dispatch"] = None
    BY StepLemma DEF Init
  <2> QED BY <2>1, <2>2 DEF Init, Standing, Absent
<1>3. TypeOK
  <2>1. /\ artifacts["consumption"] = Load(given.consumption)
        /\ artifacts["dc_production"] = None /\ artifacts["snow"] = None
        /\ artifacts["degradation"] = None
    BY StepLemma DEF Init
  <2>2. at \in 1..(Len(ENGINE_STEP_ORDER) + 1)
    BY StepLemma DEF Init
  <2>3. artifacts["consumption"] \in [Hour -> Int]
    BY <1>1, <2>1, LoadType DEF InputsOK
  <2>4. hours = <<>> /\ rows = <<>> /\ bracket = None /\ raised = FALSE
    BY DEF Init
  <2>5. hours \in Seq(HourRecord) /\ Len(hours) <= Hours /\ rows \in Seq(RowRecord)
    BY <2>4, EngineAssumption, CalendarAssumption
  <2> QED BY <2>1, <2>2, <2>3, <2>4, <2>5 DEF TypeOK
<1>4. BatteryBalances /\ RootIsBracketed /\ OnlyGapsRaise
  BY DEF Init, BatteryBalances, RootIsBracketed, OnlyGapsRaise
<1> QED BY <1>1, <1>2, <1>3, <1>4 DEF IInv

\* A step that leaves the dispatched hours and their streams alone keeps the
\* balances.
LEMMA BalanceFrame ==
  ASSUME BatteryBalances, given' = given, hours' = hours,
         \/ hours = <<>>
         \/ /\ artifacts'["consumption"] = artifacts["consumption"]
            /\ artifacts'["dc_production"] = artifacts["dc_production"]
            /\ artifacts'["snow"] = artifacts["snow"]
  PROVE  BatteryBalances'
<1>1. CASE hours = <<>>
  BY <1>1 DEF BatteryBalances
<1>2. CASE /\ artifacts'["consumption"] = artifacts["consumption"]
           /\ artifacts'["dc_production"] = artifacts["dc_production"]
           /\ artifacts'["snow"] = artifacts["snow"]
  <2>1. Production' = Production
    BY <1>2 DEF Production, Absent
  <2>2. \A h : BeforeBattery(h)' = BeforeBattery(h)
    BY <1>2, <2>1 DEF BeforeBattery, NetOf
  <2>3. \A h : SocBefore(h)' = SocBefore(h)
    BY DEF SocBefore
  <2> QED BY <2>2, <2>3 DEF BatteryBalances
<1> QED BY <1>1, <1>2

\* The cash flows depend on the inputs, the years and the loan.
LEMMA FlowsFrame ==
  ASSUME given' = given, years' = years, rows' = rows
  PROVE  Flows' = Flows /\ Term' = Term
<1>1. Upfront' = Upfront /\ Term' = Term
  BY DEF Upfront, Term
<1>2. \A t : DebtService(t)' = DebtService(t)
  BY DEF DebtService
<1> QED BY <1>1, <1>2 DEF Flows

\* A step that leaves the years, the loan and the bracket alone keeps the root.
LEMMA RootFrame ==
  ASSUME RootIsBracketed, UNCHANGED <<given, years, rows, bracket>>
  PROVE  RootIsBracketed'
<1>1. Flows' = Flows /\ Term' = Term
  BY FlowsFrame
<1> QED BY <1>1 DEF RootIsBracketed

\* A step of a run that goes on has raised nothing.
LEMMA RaiseFrame ==
  ASSUME raised = FALSE, raised' = raised
  PROVE  OnlyGapsRaise'
BY DEF OnlyGapsRaise

\* What a returning step changes.
LEMMA LeaveLemma ==
  ASSUME IInv, NEW k \in Keys, NEW x, Running(k), Leave(k, x)
  PROVE  /\ at \in 1..7 /\ at' = at + 1
         /\ artifacts' = [j \in Keys |-> IF j = k THEN x ELSE artifacts[j]]
         /\ UNCHANGED <<given, hours, years, rows, bracket, raised>> 
         /\ OnlyGapsRaise' /\ RootIsBracketed' /\ k # "consumption"
<1>1. at \in 1..7 /\ k # "consumption"
  BY StepLemma DEF IInv, TypeOK, Running
<1>2. artifacts' = [j \in Keys |-> IF j = k THEN x ELSE artifacts[j]]
  BY DEF IInv, Standing, Leave
<1>3. OnlyGapsRaise'
  BY RaiseFrame DEF IInv, TypeOK, Running, Leave
<1>4. RootIsBracketed'
  BY RootFrame DEF IInv, Leave
<1> QED BY <1>1, <1>2, <1>3, <1>4 DEF Leave

\* The three streams that open the run have their turn before any dispatch.
LEMMA ProduceStep == IInv /\ Produce => IInv'
<1> SUFFICES ASSUME IInv, Produce PROVE IInv'
  OBVIOUS
<1>1. /\ at \in 1..7 /\ at' = at + 1
      /\ artifacts' = [j \in Keys |-> IF j = "dc_production" THEN given.yield ELSE artifacts[j]]
      /\ UNCHANGED <<given, hours, years, rows, bracket, raised>> /\ OnlyGapsRaise' /\ RootIsBracketed'
  BY LeaveLemma, StepLemma DEF Produce
<1>2. at = 1
  BY <1>1, StepLemma DEF Produce, Running
<1>3. given.yield \in [Hour -> Nat] /\ given.yield # None
  BY EngineAssumption DEF IInv, InputsOK
<1>4. hours = <<>>
  BY <1>2 DEF IInv, Standing
<1>5. /\ artifacts'["consumption"] = artifacts["consumption"]
      /\ artifacts'["dc_production"] = given.yield
      /\ artifacts'["snow"] = artifacts["snow"]
      /\ artifacts'["degradation"] = artifacts["degradation"]
      /\ artifacts'["battery_dispatch"] = artifacts["battery_dispatch"]
  BY <1>1, StepLemma
<1>6. TypeOK'
  BY <1>1, <1>2, <1>3, <1>5, StepLemma DEF IInv, TypeOK
<1>7. Standing'
  BY <1>1, <1>2, <1>3, <1>4, <1>5 DEF IInv, Standing, Absent
<1>8. BatteryBalances'
  BY <1>1, <1>4, BalanceFrame DEF IInv
<1> QED BY <1>1, <1>6, <1>7, <1>8 DEF IInv, InputsOK

LEMMA SnowStep == IInv /\ SnowLoss => IInv'
<1> SUFFICES ASSUME IInv, SnowLoss PROVE IInv'
  OBVIOUS
<1> DEFINE x == [h \in Hour |->
                   artifacts["dc_production"][h] * (1 - given.snow[Calendar[h].month])]
<1>1. /\ at \in 1..7 /\ at' = at + 1
      /\ artifacts' = [j \in Keys |-> IF j = "snow" THEN x ELSE artifacts[j]]
      /\ UNCHANGED <<given, hours, years, rows, bracket, raised>> /\ OnlyGapsRaise' /\ RootIsBracketed'
  <2> HIDE DEF x
  <2>1. Running("snow") /\ Leave("snow", x)
    BY DEF SnowLoss, x
  <2> QED BY <2>1, LeaveLemma, StepLemma
<1>2. at = 2
  BY <1>1, StepLemma DEF SnowLoss, Running
<1>3. x \in [Hour -> Nat]
  <2>1. artifacts["dc_production"] \in [Hour -> Nat]
    BY DEF IInv, TypeOK, SnowLoss, Running, Raises, Absent
  <2>2. given.snow \in [Month -> {0, 1}]
    BY EngineAssumption, <2>1 DEF IInv, InputsOK, SnowLoss, Running, Declines, Raises
  <2>3. ASSUME NEW h \in Hour PROVE x[h] \in Nat
    <3>1. Calendar[h].month \in Month
      BY EngineAssumption, CalendarAssumption
    <3>2. given.snow[Calendar[h].month] \in {0, 1} /\ artifacts["dc_production"][h] \in Nat
      BY <2>1, <2>2, <3>1
    <3> QED BY <3>2
  <2> QED BY <2>3
<1> HIDE DEF x
<1>4. hours = <<>>
  BY <1>2 DEF IInv, Standing
<1>5. /\ artifacts'["consumption"] = artifacts["consumption"]
      /\ artifacts'["dc_production"] = artifacts["dc_production"]
      /\ artifacts'["snow"] = x
      /\ artifacts'["degradation"] = artifacts["degradation"]
      /\ artifacts'["battery_dispatch"] = artifacts["battery_dispatch"]
  BY <1>1, StepLemma
<1>6. TypeOK'
  BY <1>1, <1>2, <1>3, <1>5, StepLemma DEF IInv, TypeOK
<1>7. Standing'
  BY <1>1, <1>2, <1>4, <1>5 DEF IInv, Standing, Absent
<1>8. BatteryBalances'
  BY <1>1, <1>4, BalanceFrame DEF IInv
<1> QED BY <1>1, <1>6, <1>7, <1>8 DEF IInv, InputsOK

LEMMA DegradeStep == IInv /\ Degrade => IInv'
<1> SUFFICES ASSUME IInv, Degrade PROVE IInv'
  OBVIOUS
<1> DEFINE x == [t \in 1..given.financial.years |-> Factor(t)]
<1>1. /\ at \in 1..7 /\ at' = at + 1
      /\ artifacts' = [j \in Keys |-> IF j = "degradation" THEN x ELSE artifacts[j]]
      /\ UNCHANGED <<given, hours, years, rows, bracket, raised>> /\ OnlyGapsRaise' /\ RootIsBracketed'
  <2> HIDE DEF x
  <2>1. Running("degradation") /\ Leave("degradation", x)
    BY DEF Degrade, x
  <2> QED BY <2>1, LeaveLemma, StepLemma
<1>2. at = 3
  BY <1>1, StepLemma DEF Degrade, Running
<1>3. x \in [1..given.financial.years -> 0..Scale]
  <2>1. given.financial.years \in Nat
    BY EngineAssumption, FinancialTypes DEF IInv, InputsOK
  <2>2. ASSUME NEW t \in 1..given.financial.years PROVE Factor(t) \in 0..Scale
    <3> DEFINE n == t - 1
    <3>1. n \in Nat
      BY <2>1
    <3> HIDE DEF n
    <3>2. AnnualLoss * n \in Nat
      BY <3>1, EngineAssumption
    <3>3. Positive(Scale - FirstLoss - AnnualLoss * n) \in 0..Scale
      BY <3>2, EngineAssumption, FinanceAssumption DEF Positive
    <3> QED BY <3>3 DEF Factor, LinearCurve, n
  <2> QED BY <2>2
<1> HIDE DEF x
<1>4. hours = <<>>
  BY <1>2 DEF IInv, Standing
<1>5. /\ artifacts'["consumption"] = artifacts["consumption"]
      /\ artifacts'["dc_production"] = artifacts["dc_production"]
      /\ artifacts'["snow"] = artifacts["snow"]
      /\ artifacts'["degradation"] = x
      /\ artifacts'["battery_dispatch"] = artifacts["battery_dispatch"]
  BY <1>1, StepLemma
<1>6. TypeOK'
  BY <1>1, <1>2, <1>3, <1>5, StepLemma DEF IInv, TypeOK
<1>7. Standing'
  BY <1>1, <1>2, <1>4, <1>5 DEF IInv, Standing, Absent
<1>8. BatteryBalances'
  BY <1>1, <1>4, BalanceFrame DEF IInv
<1> QED BY <1>1, <1>6, <1>7, <1>8 DEF IInv, InputsOK

\* The steps from the dispatch on leave the streams as they are.
LEMMA LateStep ==
  ASSUME IInv, NEW k \in {"battery_dispatch", "tariff", "export_credit", "finance"}, NEW x,
         Running(k), Leave(k, x)
  PROVE  IInv'
<1>1. /\ at \in 1..7 /\ at' = at + 1
      /\ artifacts' = [j \in Keys |-> IF j = k THEN x ELSE artifacts[j]]
      /\ UNCHANGED <<given, hours, years, rows, bracket, raised>> /\ OnlyGapsRaise' /\ RootIsBracketed'
  BY LeaveLemma, StepLemma
<1>2. at >= 4
  BY <1>1, StepLemma DEF Running
<1>3. /\ artifacts'["consumption"] = artifacts["consumption"]
      /\ artifacts'["dc_production"] = artifacts["dc_production"]
      /\ artifacts'["snow"] = artifacts["snow"]
      /\ artifacts'["degradation"] = artifacts["degradation"]
  BY <1>1, StepLemma
<1>4. TypeOK'
  BY <1>1, <1>3, StepLemma DEF IInv, TypeOK
<1>5. Standing'
  BY <1>1, <1>2, <1>3 DEF IInv, Standing, Absent
<1>6. BatteryBalances'
  BY <1>1, <1>3, BalanceFrame DEF IInv
<1> QED BY <1>1, <1>4, <1>5, <1>6 DEF IInv, InputsOK

LEMMA SkipStep == IInv /\ Skip => IInv'
<1> SUFFICES ASSUME IInv, Skip PROVE IInv'
  OBVIOUS
<1>1. at \in 1..7 /\ at' = at + 1 /\ UNCHANGED <<given, artifacts, hours, years, rows, bracket, raised>>
  BY StepLemma DEF Skip, IInv, TypeOK
<1>2. at = 1 => "dc_production" \notin given.requested
  BY StepLemma DEF Skip, Declines
<1>3. TypeOK'
  BY <1>1, StepLemma DEF IInv, TypeOK
<1>4. Standing'
  BY <1>1, <1>2 DEF IInv, Standing, Absent
<1>5. BatteryBalances'
  BY <1>1, BalanceFrame DEF IInv
<1>6. OnlyGapsRaise'
  BY <1>1, RaiseFrame DEF Skip, IInv, TypeOK
<1>7. RootIsBracketed'
  BY <1>1, RootFrame DEF IInv
<1> QED BY <1>1, <1>3, <1>4, <1>5, <1>6, <1>7 DEF IInv, InputsOK

\* A stream a schedule does not cover shows a gap in its periods.
LEMMA GapLemma ==
  ASSUME NEW s, NEW kwh, Uncovered(s, kwh)
  PROVE  s.structure = "tou" /\ \E h \in Hour : TouRate(s.periods, Calendar[h]) = None
BY DEF Uncovered, RateAt

LEMMA RaiseStep == IInv /\ Raise => IInv'
<1> SUFFICES ASSUME IInv, Raise PROVE IInv'
  OBVIOUS
<1>1. /\ UNCHANGED <<given, at, artifacts, hours, years, rows, bracket>> /\ raised' = TRUE
      /\ Step \in given.requested /\ ~Declines(Step) /\ Raises(Step)
  BY DEF Raise
<1>2. \/ "dc_production" \notin given.requested
      \/ /\ given.schedule # None /\ given.schedule.structure = "tou"
         /\ \E h \in Hour : TouRate(given.schedule.periods, Calendar[h]) = None
      \/ given.schedule = None /\ given.export # None /\ given.export.regime = "nem_one_for_one"
      \/ Barren
  <2>1. CASE Step \in {"snow", "battery_dispatch", "tariff", "export_credit"}
             /\ Absent("dc_production")
    <3>1. at > 1
      BY <2>1, StepLemma DEF IInv, TypeOK
    <3> QED BY <2>1, <3>1 DEF IInv, Standing
  <2>2. CASE Step = "tariff" /\ Uncovered(given.schedule, ImportOf(NetLoad))
    BY <1>1, <2>2, GapLemma DEF Declines
  <2>3. ASSUME NEW net, given.export # None, CreditRaises(given.export, given.schedule, net)
        PROVE  \/ /\ given.schedule # None /\ given.schedule.structure = "tou"
                  /\ \E h \in Hour : TouRate(given.schedule.periods, Calendar[h]) = None
               \/ given.schedule = None /\ given.export.regime = "nem_one_for_one"
    BY <2>3, GapLemma DEF CreditRaises
  <2>4. CASE Step = "export_credit" /\ CreditRaises(given.export, given.schedule, NetLoad)
    <3>1. given.export # None
      BY <1>1, <2>4 DEF Declines
    <3> QED BY <2>3, <2>4, <3>1
  <2>5. CASE Step = "finance" /\ Uncovered(given.schedule, artifacts["consumption"])
    BY <1>1, <2>5, GapLemma DEF Declines
  <2>6. CASE given.export # None
             /\ CreditRaises(given.export, given.schedule, YearNet(Len(years) + 1))
    BY <2>3, <2>6
  <2>7. CASE Barren
    BY <2>7
  <2> QED BY <1>1, <2>1, <2>2, <2>4, <2>5, <2>6, <2>7 DEF Raises
<1>3. OnlyGapsRaise'
  <2>1. Barren' = Barren
    BY <1>1 DEF Barren
  <2> QED BY <1>1, <1>2, <2>1 DEF OnlyGapsRaise
<1>4. TypeOK' /\ Standing'
  BY <1>1 DEF IInv, TypeOK, Standing, Absent
<1>5. BatteryBalances' /\ RootIsBracketed'
  BY <1>1, BalanceFrame, RootFrame DEF IInv
<1> QED BY <1>1, <1>3, <1>4, <1>5 DEF IInv, InputsOK

LEMMA YearStep == IInv /\ FinanceYear => IInv'
<1> SUFFICES ASSUME IInv, FinanceYear PROVE IInv'
  OBVIOUS
<1>1. UNCHANGED <<given, at, artifacts, hours, rows, bracket, raised>>
  BY DEF FinanceYear
<1>2. TypeOK' /\ Standing'
  BY <1>1 DEF IInv, TypeOK, Standing, Absent
<1>3. BatteryBalances'
  BY <1>1, BalanceFrame DEF IInv
<1>4. OnlyGapsRaise'
  BY <1>1, RaiseFrame DEF FinanceYear, Running, IInv, TypeOK
<1>5. RootIsBracketed'
  <2>1. given.financial.years \in Nat
    BY EngineAssumption, FinancialTypes DEF IInv, InputsOK
  <2>2. bracket = None
    BY <2>1 DEF FinanceYear, IInv, RootIsBracketed
  <2> QED BY <1>1, <2>2 DEF RootIsBracketed
<1> QED BY <1>1, <1>2, <1>3, <1>4, <1>5 DEF IInv, InputsOK

LEMMA LoanStep == IInv /\ LoanMonth => IInv'
<1> SUFFICES ASSUME IInv, LoanMonth PROVE IInv'
  OBVIOUS
<1>1. UNCHANGED <<given, at, artifacts, hours, years, bracket, raised>>
  BY DEF LoanMonth
<1>2. given.financial.loan # None
  BY DEF LoanMonth, Term, IInv, TypeOK
<1>3. Owed \in Nat
  <2>1. CASE rows = <<>>
    BY <1>2, <2>1, EngineAssumption, FinancialTypes DEF Owed, IInv, InputsOK
  <2>2. CASE rows # <<>>
    <3>1. rows[Len(rows)] \in RowRecord
      BY <2>2 DEF IInv, TypeOK
    <3> QED BY <2>2, <3>1 DEF Owed, Last, RowRecord
  <2> QED BY <2>1, <2>2
<1>4. PICK principal \in 0..Owed, interest \in Nat :
        rows' = Append(rows, [payment |-> principal + interest, interest |-> interest,
                              principal |-> principal, balance |-> Owed - principal])
  <2>1. PICK principal \in Repaid(Len(rows) + 1),
             interest \in IF Owed = 0 THEN {0} ELSE Interests :
          rows' = Append(rows, [payment |-> principal + interest, interest |-> interest,
                                principal |-> principal, balance |-> Owed - principal])
    BY DEF LoanMonth
  <2>2. principal \in 0..Owed
    BY <1>3 DEF Repaid
  <2>3. interest \in Nat
    <3>1. Interests \subseteq Nat
      BY EngineAssumption
    <3>2. CASE Owed = 0
      BY <3>2
    <3>3. CASE Owed # 0
      BY <3>1, <3>3
    <3> QED BY <3>2, <3>3
  <2> QED BY <2>1, <2>2, <2>3
<1>5. [payment |-> principal + interest, interest |-> interest,
       principal |-> principal, balance |-> Owed - principal] \in RowRecord
  BY <1>3 DEF RowRecord
<1>6. rows' \in Seq(RowRecord)
  BY <1>4, <1>5 DEF IInv, TypeOK
<1>7. TypeOK' /\ Standing'
  BY <1>1, <1>2, <1>6 DEF IInv, TypeOK, Standing, Absent
<1>8. BatteryBalances'
  BY <1>1, BalanceFrame DEF IInv
<1>9. OnlyGapsRaise'
  BY <1>1, RaiseFrame DEF LoanMonth, Running, IInv, TypeOK
<1>10. RootIsBracketed'
  <2>1. given.financial.loan.term \in Nat
    BY <1>2, EngineAssumption, FinancialTypes DEF IInv, InputsOK
  <2>2. bracket = None
    BY <1>2, <2>1 DEF LoanMonth, Term, IInv, RootIsBracketed
  <2> QED BY <1>1, <2>2 DEF RootIsBracketed
<1> QED BY <1>1, <1>7, <1>8, <1>9, <1>10 DEF IInv, InputsOK

\* The bisection starts on a bracket that straddles a root, and each half it
\* keeps straddles one: the moving end is on the side of the end it replaces.
LEMMA HalvedLemma ==
  ASSUME NEW b \in Bracket, NEW flows, b.low <= b.high, ~SameSide(b.low, b.high, flows)
  PROVE  LET c == Halved(b, flows)
         IN /\ c \in Bracket /\ ~SameSide(c.low, c.high, flows)
            /\ b.low <= c.low /\ c.low <= c.high /\ c.high <= b.high
<1> DEFINE mid == (b.low + b.high) \div 2
<1>1. b = [low |-> b.low, high |-> b.high] /\ b.low \in Nat /\ b.high \in Nat
  BY DEF Bracket
<1>2. mid \in Nat /\ b.low <= mid /\ mid <= b.high
  BY <1>1
<1> HIDE DEF mid
<1>3. CASE NpvSign(mid, flows) = 0
  <2>1. Halved(b, flows) = [low |-> mid, high |-> mid]
    BY <1>3 DEF Halved, mid
  <2> QED BY <1>2, <1>3, <2>1 DEF Bracket, SameSide
<1>4. CASE NpvSign(mid, flows) # 0 /\ SameSide(mid, b.low, flows)
  <2>1. Halved(b, flows) = [low |-> mid, high |-> b.high]
    BY <1>1, <1>4 DEF Halved, mid
  <2> QED BY <1>1, <1>2, <1>4, <2>1 DEF Bracket, SameSide
<1>5. CASE NpvSign(mid, flows) # 0 /\ ~SameSide(mid, b.low, flows)
  <2>1. Halved(b, flows) = [low |-> b.low, high |-> mid]
    BY <1>1, <1>5 DEF Halved, mid
  <2> QED BY <1>1, <1>2, <1>5, <2>1 DEF Bracket, SameSide
<1> QED BY <1>3, <1>4, <1>5

\* Starting and halving disturb nothing but the bracket.
LEMMA IrrStep == IInv /\ (StartIrr \/ HalveIrr) => IInv'
<1> SUFFICES ASSUME IInv, StartIrr \/ HalveIrr PROVE IInv'
  OBVIOUS
<1>1. UNCHANGED <<given, at, artifacts, hours, years, rows, raised>> /\ Rolled
  BY DEF StartIrr, HalveIrr
<1>2. Flows' = Flows /\ Term' = Term
  BY <1>1, FlowsFrame
<1>3. bracket' \in Bracket /\ RootIsBracketed'
  <2>1. CASE StartIrr
    <3>1. bracket' = [low |-> Low, high |-> High] /\ ~SameSide(Low, High, Flows)
      BY <2>1 DEF StartIrr, HasIrr
    <3>2. Low \in Nat /\ High \in Nat /\ Low <= High
      BY FinanceAssumption
    <3> QED BY <1>1, <1>2, <3>1, <3>2 DEF Bracket, RootIsBracketed, Rolled
  <2>2. CASE HalveIrr
    <3>1. bracket' = Halved(bracket, Flows) /\ bracket \in Bracket
      BY <2>2 DEF HalveIrr, IInv, TypeOK
    <3>2. /\ Low <= bracket.low /\ bracket.low <= bracket.high /\ bracket.high <= High
          /\ ~SameSide(bracket.low, bracket.high, Flows)
      BY <2>2 DEF HalveIrr, IInv, RootIsBracketed
    <3>3. /\ bracket' \in Bracket /\ ~SameSide(bracket'.low, bracket'.high, Flows)
          /\ bracket.low <= bracket'.low /\ bracket'.low <= bracket'.high
          /\ bracket'.high <= bracket.high
      BY <3>1, <3>2, HalvedLemma
    <3>4. Low <= bracket'.low /\ bracket'.high <= High
      BY <3>1, <3>2, <3>3, FinanceAssumption DEF Bracket
    <3> QED BY <1>1, <1>2, <3>3, <3>4 DEF RootIsBracketed, Rolled
  <2> QED BY <2>1, <2>2
<1>4. TypeOK' /\ Standing'
  BY <1>1, <1>3 DEF IInv, TypeOK, Standing, Absent
<1>5. BatteryBalances'
  BY <1>1, BalanceFrame DEF IInv
<1>6. OnlyGapsRaise'
  BY <1>1, RaiseFrame DEF Rolled, Running, IInv, TypeOK
<1> QED BY <1>1, <1>3, <1>4, <1>5, <1>6 DEF IInv, InputsOK

LEMMA HourStep == IInv /\ DispatchHour => IInv'
<1> SUFFICES ASSUME IInv, DispatchHour PROVE IInv'
  OBVIOUS
<1> DEFINE h == Len(hours) + 1
           o == HourOutcome(given.battery, Arbitrage, Peak(h), NetLoad[h], Bank)
<1>1. UNCHANGED <<given, at, artifacts, years, rows, bracket, raised>> /\ hours' = Append(hours, o)
  BY DEF DispatchHour
<1>2. at = 4 /\ Len(hours) < Hours
  BY StepLemma DEF DispatchHour, Running, IInv, TypeOK
<1>3. given.battery \in Battery /\ ~Absent("dc_production")
  BY EngineAssumption DEF DispatchHour, Running, Declines, Raises, IInv, InputsOK
<1>4. h \in Hour /\ hours \in Seq(HourRecord)
  <2>1. hours \in Seq(HourRecord)
    BY DEF IInv, TypeOK
  <2>2. Len(hours) \in Nat /\ Hours \in Nat
    BY <2>1, EngineAssumption, CalendarAssumption
  <2> QED BY <1>2, <2>1, <2>2 DEF Hour
<1>5. NetLoad[h] = BeforeBattery(h) /\ BeforeBattery(h) \in Int
  <2>1. Absent("battery_dispatch")
    BY <1>2 DEF IInv, Standing
  <2>2. Production[h] \in Nat
    BY <1>3, <1>4, ProductionType DEF IInv
  <2>3. artifacts["consumption"][h] \in Int
    <3> HIDE DEF h
    <3>1. artifacts["consumption"] \in [Hour -> Int]
      BY DEF IInv, TypeOK
    <3> QED BY <1>4, <3>1
  <2>4. artifacts["consumption"][h] - Production[h] \in Int
    BY <2>2, <2>3
  <2> QED BY <1>4, <2>1, <2>4 DEF NetLoad, BeforeBattery, NetOf
<1>6. Bank = SocBefore(h) /\ Bank \in given.battery.floor..given.battery.usable
  <2>0. given.battery.floor \in Nat /\ given.battery.usable \in Nat
        /\ given.battery.floor <= given.battery.usable
    BY <1>3 DEF Battery
  <2>1. CASE hours = <<>>
    BY <2>0, <2>1 DEF Bank, SocBefore
  <2>2. CASE hours # <<>>
    <3>1. Len(hours) \in DOMAIN hours /\ h # 1 /\ h - 1 = Len(hours)
      BY <1>4, <2>2
    <3>2. /\ given.battery.floor <= hours[Len(hours)].soc
          /\ hours[Len(hours)].soc <= given.battery.usable
      BY <3>1 DEF IInv, BatteryBalances
    <3>3. hours[Len(hours)].soc \in Nat
      <4>1. hours[Len(hours)] \in HourRecord
        BY <1>4, <3>1
      <4> QED BY <4>1 DEF HourRecord
    <3> QED BY <2>0, <2>2, <3>1, <3>2, <3>3 DEF Bank, SocBefore, Last
  <2> QED BY <2>1, <2>2
<1>7. Arbitrage \in BOOLEAN /\ Peak(h) \in BOOLEAN
  BY DEF Arbitrage, Peak
<1> HIDE DEF o
<1>8. /\ o \in HourRecord
      /\ o.soc = SocBefore(h) + o.charge - Loss * o.discharge
      /\ given.battery.floor <= o.soc /\ o.soc <= given.battery.usable
      /\ o.import - o.export = BeforeBattery(h) + o.charge - o.discharge
      /\ o.import = 0 \/ o.export = 0
      /\ o.charge = 0 \/ o.discharge = 0
      /\ o.export <= Positive(-BeforeBattery(h))
  <2>1. NetLoad[h] \in Int
    BY <1>5
  <2> QED BY <1>3, <1>5, <1>6, <1>7, <2>1, HourLemma DEF o
<1>9. /\ hours' \in Seq(HourRecord) /\ Len(hours') = h
      /\ hours'[h] = o /\ \A i \in DOMAIN hours : hours'[i] = hours[i]
      /\ DOMAIN hours' = DOMAIN hours \cup {h}
  BY <1>1, <1>4, <1>8
<1>10. TypeOK'
  <2>1. Len(hours') <= Hours
    BY <1>4, <1>9, EngineAssumption DEF Hour
  <2> QED BY <1>1, <1>9, <2>1 DEF IInv, TypeOK
<1>11. Standing'
  BY <1>1, <1>2, <1>3 DEF IInv, Standing, Absent
<1>12. BatteryBalances'
  <2>1. \A i : BeforeBattery(i)' = BeforeBattery(i)
    BY <1>1 DEF BeforeBattery, NetOf, Production, Absent
  <2>2. \A i \in DOMAIN hours' : SocBefore(i)' = SocBefore(i)
    BY <1>1, <1>4, <1>9 DEF SocBefore
  <2>3. ASSUME NEW i \in DOMAIN hours'
        PROVE  LET r == hours'[i]
               IN /\ r.soc = SocBefore(i) + r.charge - Loss * r.discharge
                  /\ given.battery.floor <= r.soc /\ r.soc <= given.battery.usable
                  /\ r.import - r.export = BeforeBattery(i) + r.charge - r.discharge
                  /\ r.import = 0 \/ r.export = 0
                  /\ r.charge = 0 \/ r.discharge = 0
                  /\ r.export <= Positive(-BeforeBattery(i))
    <3>1. CASE i = h
      BY <1>8, <1>9, <3>1
    <3>2. CASE i \in DOMAIN hours
      BY <1>9, <3>2 DEF IInv, BatteryBalances
    <3> QED BY <1>9, <3>1, <3>2
  <2> QED BY <1>1, <2>1, <2>2, <2>3 DEF BatteryBalances
<1>13. OnlyGapsRaise'
  BY <1>1, RaiseFrame DEF DispatchHour, Running, IInv, TypeOK
<1>14. RootIsBracketed'
  BY <1>1, RootFrame DEF IInv
<1> QED BY <1>1, <1>10, <1>11, <1>12, <1>13, <1>14 DEF IInv, InputsOK

----------------------------------------------------------------------------
\* Every step of a run keeps the inductive invariant: the types, the inputs,
\* where production and the battery's artifact may be missing, the balances
\* of the dispatched hours, and what may have raised.
THEOREM Invariance == Spec => []IInv
<1>1. IInv /\ [Next]_vars => IInv'
  <2> SUFFICES ASSUME IInv, [Next]_vars PROVE IInv'
    OBVIOUS
  <2>1. CASE Skip
    BY <2>1, SkipStep
  <2>2. CASE Raise
    BY <2>2, RaiseStep
  <2>3. CASE Produce
    BY <2>3, ProduceStep
  <2>4. CASE SnowLoss
    BY <2>4, SnowStep
  <2>5. CASE Degrade
    BY <2>5, DegradeStep
  <2>6. CASE DispatchHour
    BY <2>6, HourStep
  <2>7. CASE Dispatched
    BY <2>7, LateStep DEF Dispatched
  <2>8. CASE Bill
    BY <2>8, LateStep DEF Bill
  <2>9. CASE Credit
    BY <2>9, LateStep DEF Credit
  <2>10. CASE FinanceYear
    BY <2>10, YearStep
  <2>11. CASE LoanMonth
    BY <2>11, LoanStep
  <2>12. CASE Close
    BY <2>12, LateStep DEF Close, Rolled
  <2>13. CASE StartIrr \/ HalveIrr
    BY <2>13, IrrStep
  <2>14. CASE UNCHANGED vars
    <3>1. UNCHANGED <<given, at, artifacts, hours, years, rows, bracket, raised>>
      BY <2>14 DEF vars
    <3>2. TypeOK' /\ Standing'
      BY <3>1 DEF IInv, TypeOK, Standing, Absent
    <3>3. BatteryBalances'
      BY <3>1, BalanceFrame DEF IInv
    <3>4. OnlyGapsRaise'
      <4>1. Barren' = Barren
        BY <3>1 DEF Barren
      <4> QED BY <3>1, <4>1 DEF IInv, OnlyGapsRaise
    <3>5. RootIsBracketed'
      BY <3>1, RootFrame DEF IInv
    <3> QED BY <3>1, <3>2, <3>3, <3>4, <3>5 DEF IInv, InputsOK
  <2> QED BY <2>1, <2>2, <2>3, <2>4, <2>5, <2>6, <2>7, <2>8, <2>9, <2>10, <2>11, <2>12,
             <2>13, <2>14 DEF Next, Ended
<1> QED BY InitLemma, <1>1, PTL DEF Spec

\* The walks and the streams keep their types in every run.
THEOREM TypeCorrect == Spec => []TypeOK
<1>1. IInv => TypeOK
  BY DEF IInv
<1> QED BY <1>1, Invariance, PTL

\* Every dispatched hour of every year balances, at the bank and at the meter:
\* the clamps of dispatch_battery's loop never hide a lost or a made kWh.
THEOREM Balanced == Spec => []BatteryBalances
<1>1. IInv => BatteryBalances
  BY DEF IInv
<1> QED BY <1>1, Invariance, PTL

\* The bisection of every forecast keeps a root of its NPV between the ends of
\* its bracket, for any stream of years and any guesses.
THEOREM RootKept == Spec => []RootIsBracketed
<1>1. IInv => RootIsBracketed
  BY DEF IInv
<1> QED BY <1>1, Invariance, PTL

\* A run that raises was asked for without production, over a tariff with a
\* gap, for net metering without a tariff, or for a system that yields nothing.
THEOREM GapsOnly == Spec => []OnlyGapsRaise
<1>1. IInv => OnlyGapsRaise
  BY DEF IInv
<1> QED BY <1>1, Invariance, PTL

----------------------------------------------------------------------------
\* The money of a run

YearRecord == [avoidance : Int, settled : [Month -> SettledMonth] \cup {<<>>},
               credit : Int, energy : Nat]

\* Where the streams of the money come from, and when.
Streams ==
  /\ ~Absent("degradation") =>
       artifacts["degradation"] = [t \in 1..given.financial.years |-> Factor(t)]
  /\ ~Absent("battery_dispatch") => artifacts["battery_dispatch"] = hours /\ Len(hours) = Hours
  /\ ~Absent("tariff") => at > 5
  /\ ~Absent("export_credit") => at > 6
  /\ years # <<>> \/ rows # <<>> => at >= 7
  /\ ~Absent("finance") => at > 7

\* The bill and the credit are those of the net load the run still shows.
Billed ==
  /\ ~Absent("tariff") =>
       /\ ~Absent("dc_production") /\ given.schedule \in Schedule
       /\ ~Uncovered(given.schedule, ImportOf(NetLoad))
       /\ artifacts["tariff"] = AnnualBill(given.schedule, NetLoad)
  /\ ~Absent("export_credit") =>
       /\ ~Absent("dc_production")
       /\ Creditable(given.export, given.schedule, NetLoad)
       /\ artifacts["export_credit"] = ExportCredit(given.export, given.schedule, NetLoad)

\* Every year of finance is reckoned from that year's production, and could be
\* billed and credited when it was.
Priced ==
  /\ years \in Seq(YearRecord) /\ Len(years) <= given.financial.years
  /\ years # <<>> => /\ ~Absent("dc_production") /\ ~Absent("degradation")
                      /\ given.financial.cost # None
  /\ \A t \in DOMAIN years :
       /\ Billable(artifacts["consumption"], given.schedule, given.export, YearNet(t))
       /\ years[t] = YearTerms(artifacts["consumption"], FinanceProduction(t),
                               given.schedule, given.export)

\* Each row of the loan takes its principal off the balance before it, the
\* last one all of it; the flows a run returns are those of its years, some of
\* which yield energy, and of its rows.
Amortized ==
  /\ Len(rows) <= Term
  /\ \A i \in DOMAIN rows :
       /\ rows[i].payment = rows[i].principal + rows[i].interest
       /\ rows[i].balance + rows[i].principal
            = IF i = 1 THEN given.financial.loan.principal ELSE rows[i - 1].balance
       /\ i = Term => rows[i].balance = 0
  /\ ~Absent("finance") =>
       /\ artifacts["finance"] = Flows
       /\ Len(years) = given.financial.years /\ Len(rows) = Term
       /\ \E t \in DOMAIN years : years[t].energy # 0

Money == Streams /\ Billed /\ Priced /\ Amortized

LEMMA NetLoadType ==
  TypeOK /\ Streams /\ ~Absent("dc_production") => NetLoad \in [Hour -> Int]
<1> SUFFICES ASSUME TypeOK, Streams, ~Absent("dc_production") PROVE NetLoad \in [Hour -> Int]
  OBVIOUS
<1>1. CASE Absent("battery_dispatch")
  <2>1. Production \in [Hour -> Nat] /\ artifacts["consumption"] \in [Hour -> Int]
    BY ProductionType DEF TypeOK
  <2>2. NetOf(artifacts["consumption"], Production) \in [Hour -> Int]
    BY <2>1, NetLemma
  <2> QED BY <1>1, <2>2 DEF NetLoad
<1>2. CASE ~Absent("battery_dispatch")
  <2>1. artifacts["battery_dispatch"] = hours /\ Len(hours) = Hours /\ hours \in Seq(HourRecord)
    BY <1>2 DEF Streams, TypeOK
  <2>2. ASSUME NEW h \in Hour PROVE hours[h].import - hours[h].export \in Int
    <3>1. h \in DOMAIN hours
      BY <2>1 DEF Hour
    <3>2. hours[h] \in HourRecord
      BY <2>1, <3>1, Element
    <3> QED BY <3>2 DEF HourRecord
  <2> QED BY <1>2, <2>1, <2>2 DEF NetLoad
<1> QED BY <1>1, <1>2

\* The panels only age, from no more than the production of the first day.
LEMMA AgingLemma ==
  ASSUME TypeOK, InputsOK, Streams, ~Absent("dc_production"), ~Absent("degradation"),
         NEW t \in 1..given.financial.years
  PROVE  /\ FinanceProduction(t) \in [Hour -> Nat]
         /\ \A h \in Hour : FinanceProduction(t)[h] <= Production[h]
         /\ t # 1 => \A h \in Hour : FinanceProduction(t)[h] <= FinanceProduction(t - 1)[h]
<1> DEFINE factor(n) == artifacts["degradation"][n]
           part(h) == Production[h] \div Scale
<1>1. given.financial.years \in Nat
  BY EngineAssumption, FinancialTypes DEF InputsOK
<1>2. \A n \in 1..given.financial.years : factor(n) \in Nat /\ factor(n) <= Scale
  <2>1. artifacts["degradation"] \in [1..given.financial.years -> 0..Scale]
    BY DEF TypeOK, Absent
  <2>2. \A n \in 1..given.financial.years : artifacts["degradation"][n] \in 0..Scale
    BY <2>1
  <2>3. \A x \in 0..Scale : x \in Nat /\ x <= Scale
    BY FinanceAssumption
  <2> QED BY <2>2, <2>3
<1>3. \A h \in Hour : Production[h] \in Nat
  BY ProductionType
<1>4. \A h \in Hour : part(h) \in Nat /\ part(h) * Scale <= Production[h]
  <2>1. \A p \in Nat : p \div Scale \in Nat /\ (p \div Scale) * Scale <= p
    <3>1. Scale \in Nat /\ Scale > 0
      BY FinanceAssumption
    <3>2. ASSUME NEW p \in Nat PROVE p \div Scale \in Nat /\ (p \div Scale) * Scale <= p
      <4>1. p \div Scale \in Nat /\ p % Scale \in Nat /\ p = Scale * (p \div Scale) + (p % Scale)
        BY <3>1
      <4> DEFINE q == p \div Scale
                 r == p % Scale
      <4> HIDE DEF q, r
      <4>2. q \in Nat /\ r \in Nat /\ p = Scale * q + r /\ Scale * q = q * Scale /\ q * Scale \in Nat
        BY <3>1, <4>1 DEF q, r
      <4>3. q * Scale <= p
        BY <4>2
      <4> QED BY <4>1, <4>3 DEF q
    <3> QED BY <3>2
  <2> QED BY <1>3, <2>1
<1>5. \A n \in 1..given.financial.years : \A h \in Hour : FinanceProduction(n)[h] = part(h) * factor(n)
  BY DEF FinanceProduction, Derated
<1>6. t # 1 => t - 1 \in 1..given.financial.years /\ factor(t) <= factor(t - 1)
  <2> SUFFICES ASSUME t # 1
               PROVE  t - 1 \in 1..given.financial.years /\ factor(t) <= factor(t - 1)
    OBVIOUS
  <2>1. t - 1 \in 1..given.financial.years
    BY <1>1
  <2>2. factor(t) = Factor(t) /\ factor(t - 1) = Factor(t - 1)
    BY <2>1 DEF Streams
  <2> DEFINE n == t - 2
  <2>3. n \in Nat /\ t - 1 = n + 1 /\ (t - 1) - 1 = n
    BY <1>1
  <2> HIDE DEF n
  <2>4. AnnualLoss * n \in Nat /\ AnnualLoss * (n + 1) = AnnualLoss * n + AnnualLoss
        /\ AnnualLoss \in Nat
    BY <2>3, EngineAssumption
  <2>5. Positive(Scale - FirstLoss - AnnualLoss * (n + 1))
          <= Positive(Scale - FirstLoss - AnnualLoss * n)
    <3>1. \A a, b, c \in Int : b \in Nat => Positive(c - (a + b)) <= Positive(c - a)
      BY DEF Positive
    <3> DEFINE c == Scale - FirstLoss
               x == AnnualLoss * n
               y == AnnualLoss * (n + 1)
    <3>2. c \in Int
      BY EngineAssumption, FinanceAssumption
    <3>3. x \in Int /\ y = x + AnnualLoss
      BY <2>4
    <3> HIDE DEF c, x, y
    <3>4. Positive(c - y) <= Positive(c - x)
      <4>1. AnnualLoss \in Nat /\ AnnualLoss \in Int
        BY EngineAssumption
      <4>2. Positive(c - (x + AnnualLoss)) <= Positive(c - x)
        BY <3>1, <3>2, <3>3, <4>1
      <4> QED BY <3>3, <4>2
    <3> QED BY <3>4 DEF c, x, y
  <2>6. Factor(t) <= Factor(t - 1)
    BY <2>3, <2>5 DEF Factor, LinearCurve
  <2> QED BY <2>1, <2>2, <2>6
<1>7. FinanceProduction(t) \in [Hour -> Nat]
  <2>1. \A h \in Hour : part(h) * factor(t) \in Nat
    BY <1>2, <1>4
  <2> QED BY <2>1 DEF FinanceProduction, Derated
<1> HIDE DEF factor, part
<1>8. ASSUME NEW h \in Hour PROVE FinanceProduction(t)[h] <= Production[h]
  <2>1. factor(t) * part(h) <= Scale * part(h)
    BY <1>2, <1>4, FinanceAssumption, TimesLarger
  <2>2. \A a, b \in Nat : a * b = b * a /\ a * b \in Nat
    OBVIOUS
  <2>3. part(h) * factor(t) <= part(h) * Scale /\ part(h) * factor(t) \in Nat
        /\ part(h) * Scale \in Nat
    BY <1>2, <1>4, <2>1, <2>2, FinanceAssumption
  <2> QED BY <1>3, <1>4, <1>5, <2>3
<1>9. ASSUME t # 1, NEW h \in Hour PROVE FinanceProduction(t)[h] <= FinanceProduction(t - 1)[h]
  <2>1. factor(t) * part(h) <= factor(t - 1) * part(h)
    BY <1>2, <1>4, <1>6, <1>9, TimesLarger
  <2>2. \A a, b \in Nat : a * b = b * a
    OBVIOUS
  <2>3. part(h) * factor(t) <= part(h) * factor(t - 1)
    BY <1>2, <1>4, <1>6, <1>9, <2>1, <2>2
  <2> QED BY <1>5, <1>6, <1>9, <2>3
<1> QED BY <1>7, <1>8, <1>9

\* What each part of the money is reckoned from.
LEMMA BilledFrame ==
  ASSUME Billed, given' = given,
         \A k \in Keys \ {"degradation", "finance"} : artifacts'[k] = artifacts[k]
  PROVE  Billed'
<1>1. \A k \in {"consumption", "dc_production", "snow", "battery_dispatch", "tariff",
                "export_credit"} : artifacts'[k] = artifacts[k]
  BY StepLemma
<1>2. NetLoad' = NetLoad
  BY <1>1 DEF NetLoad, Production, Absent, NetOf
<1>3. /\ Absent("tariff")' <=> Absent("tariff")
      /\ Absent("export_credit")' <=> Absent("export_credit")
      /\ Absent("dc_production")' <=> Absent("dc_production")
      /\ artifacts'["tariff"] = artifacts["tariff"]
      /\ artifacts'["export_credit"] = artifacts["export_credit"]
  BY <1>1 DEF Absent
<1> QED BY <1>2, <1>3 DEF Billed

LEMMA YearFrame ==
  ASSUME given' = given,
         \A k \in {"consumption", "dc_production", "snow", "degradation"} :
           artifacts'[k] = artifacts[k]
  PROVE  \A t : FinanceProduction(t)' = FinanceProduction(t) /\ YearNet(t)' = YearNet(t)
<1>1. Production' = Production
  BY DEF Production, Absent
<1> QED BY <1>1 DEF FinanceProduction, YearNet, Derated, NetOf

LEMMA PricedFrame ==
  ASSUME Priced, given' = given, years' = years,
         \A k \in {"consumption", "dc_production", "snow", "degradation"} :
           artifacts'[k] = artifacts[k]
  PROVE  Priced'
<1>1. \A t : FinanceProduction(t)' = FinanceProduction(t) /\ YearNet(t)' = YearNet(t)
  BY YearFrame
<1>2. /\ artifacts'["consumption"] = artifacts["consumption"]
      /\ Absent("dc_production")' <=> Absent("dc_production")
      /\ Absent("degradation")' <=> Absent("degradation")
  BY DEF Absent
<1> QED BY <1>1, <1>2 DEF Priced

LEMMA AmortizedFrame ==
  ASSUME Amortized, given' = given, years' = years, rows' = rows,
         artifacts'["finance"] = artifacts["finance"]
  PROVE  Amortized'
<1>1. Flows' = Flows /\ Term' = Term
  BY FlowsFrame
<1>2. Absent("finance")' <=> Absent("finance")
  BY DEF Absent
<1> QED BY <1>1, <1>2 DEF Amortized

\* A step that leaves the artifacts and the walks alone leaves the money.
LEMMA StillMoney ==
  ASSUME IInv, Money, UNCHANGED <<given, artifacts, hours, years, rows>>, at' \in {at, at + 1}
  PROVE  Money'
<1>1. Billed' /\ Priced' /\ Amortized'
  BY BilledFrame, PricedFrame, AmortizedFrame DEF Money
<1>2. Streams'
  <2>1. \A t : Factor(t)' = Factor(t)
    BY DEF Factor, LinearCurve
  <2>2. at \in 1..8
    BY StepLemma DEF IInv, TypeOK
  <2> QED BY <2>1, <2>2 DEF Money, Streams, Absent
<1> QED BY <1>1, <1>2 DEF Money

\* Before the tariff step there is no money yet.
LEMMA NoMoney ==
  ASSUME Money, at <= 5, at \in 1..8
  PROVE  Absent("tariff") /\ Absent("export_credit") /\ Absent("finance")
         /\ years = <<>> /\ rows = <<>>
BY DEF Money, Streams

LEMMA EarlyMoney ==
  ASSUME IInv, Money, at \in 1..4, at' = at + 1, UNCHANGED <<given, hours, years, rows>>,
         NEW k \in {"dc_production", "snow", "degradation", "battery_dispatch"}, NEW x,
         artifacts' = [j \in Keys |-> IF j = k THEN x ELSE artifacts[j]],
         k = "degradation" => x = [t \in 1..given.financial.years |-> Factor(t)],
         k = "battery_dispatch" => x = hours /\ Len(hours) = Hours
  PROVE  Money'
<1>1. Absent("tariff") /\ Absent("export_credit") /\ Absent("finance")
      /\ years = <<>> /\ rows = <<>>
  BY NoMoney
<1>2. /\ artifacts'["tariff"] = artifacts["tariff"]
      /\ artifacts'["export_credit"] = artifacts["export_credit"]
      /\ artifacts'["finance"] = artifacts["finance"]
      /\ artifacts'["degradation"] = IF k = "degradation" THEN x ELSE artifacts["degradation"]
      /\ artifacts'["battery_dispatch"]
           = IF k = "battery_dispatch" THEN x ELSE artifacts["battery_dispatch"]
  BY StepLemma
<1>3. Absent("tariff")' /\ Absent("export_credit")' /\ Absent("finance")'
  BY <1>1, <1>2 DEF Absent
<1>4. Streams'
  <2>1. \A t : Factor(t)' = Factor(t)
    BY DEF Factor, LinearCurve
  <2> QED BY <1>1, <1>2, <1>3, <2>1 DEF Money, Streams, Absent
<1>5. Billed'
  BY <1>3 DEF Billed
<1>6. Priced'
  <2>1. Len(<<>>) <= given.financial.years
    BY EngineAssumption, FinancialTypes DEF IInv, InputsOK
  <2> QED BY <1>1, <2>1 DEF Priced
<1>7. Amortized'
  <2>1. Term' = Term
    BY FlowsFrame
  <2> QED BY <1>1, <1>3, <2>1 DEF Money, Amortized
<1> QED BY <1>4, <1>5, <1>6, <1>7 DEF Money

LEMMA StreamMoney ==
  IInv /\ Money /\ (Produce \/ SnowLoss \/ Degrade \/ Dispatched) => Money'
<1> SUFFICES ASSUME IInv, Money, Produce \/ SnowLoss \/ Degrade \/ Dispatched PROVE Money'
  OBVIOUS
<1>1. ASSUME NEW k \in {"dc_production", "snow", "degradation", "battery_dispatch"}, NEW x,
             Running(k), Leave(k, x),
             k = "degradation" => x = [t \in 1..given.financial.years |-> Factor(t)],
             k = "battery_dispatch" => x = hours /\ Len(hours) = Hours
      PROVE  Money'
  <2>1. /\ at \in 1..7 /\ at' = at + 1
        /\ artifacts' = [j \in Keys |-> IF j = k THEN x ELSE artifacts[j]]
        /\ UNCHANGED <<given, hours, years, rows, bracket, raised>>
    BY <1>1, LeaveLemma, StepLemma
  <2>2. at \in 1..4
    BY <1>1, <2>1, StepLemma DEF Running
  <2> QED BY <1>1, <2>1, <2>2, EarlyMoney
<1>2. CASE Produce
  BY <1>1, <1>2 DEF Produce
<1>3. CASE SnowLoss
  BY <1>1, <1>3 DEF SnowLoss
<1>4. CASE Degrade
  BY <1>1, <1>4 DEF Degrade
<1>5. CASE Dispatched
  BY <1>1, <1>5 DEF Dispatched
<1> QED BY <1>2, <1>3, <1>4, <1>5

LEMMA HourMoney == IInv /\ Money /\ DispatchHour => Money'
<1> SUFFICES ASSUME IInv, Money, DispatchHour PROVE Money'
  OBVIOUS
<1>1. UNCHANGED <<given, at, artifacts, years, rows>> /\ at = 4
  BY StepLemma DEF DispatchHour, Running, IInv, TypeOK
<1>2. Absent("battery_dispatch")
  BY <1>1 DEF IInv, Standing
<1>3. Streams'
  <2>1. \A t : Factor(t)' = Factor(t)
    BY <1>1 DEF Factor, LinearCurve
  <2> QED BY <1>1, <1>2, <2>1 DEF Money, Streams, Absent
<1>4. Billed' /\ Priced' /\ Amortized'
  BY <1>1, BilledFrame, PricedFrame, AmortizedFrame DEF Money
<1> QED BY <1>3, <1>4 DEF Money

\* A schedule or an export regime that is given is one of the inputs'.
LEMMA GivenTypes ==
  ASSUME InputsOK
  PROVE  /\ given.schedule # None => given.schedule \in Schedule
         /\ given.export # None => given.export \in ExportConfig
         /\ given.financial.years \in Nat \ {0}
BY EngineAssumption, FinancialTypes DEF InputsOK

LEMMA CreditableLemma ==
  ASSUME InputsOK, given.export # None, NEW net, ~CreditRaises(given.export, given.schedule, net)
  PROVE  Creditable(given.export, given.schedule, net)
BY GivenTypes DEF CreditRaises, Creditable

LEMMA BillMoney == IInv /\ Money /\ (Bill \/ Credit) => Money'
<1> SUFFICES ASSUME IInv, Money, Bill \/ Credit PROVE Money'
  OBVIOUS
<1>1. ASSUME NEW k \in {"tariff", "export_credit"}, NEW x, Running(k), Leave(k, x),
             k = "tariff" => x = AnnualBill(given.schedule, NetLoad),
             k = "export_credit" => x = ExportCredit(given.export, given.schedule, NetLoad)
      PROVE  Money'
  <2>1. /\ at \in 1..7 /\ at' = at + 1
        /\ artifacts' = [j \in Keys |-> IF j = k THEN x ELSE artifacts[j]]
        /\ UNCHANGED <<given, hours, years, rows, bracket, raised>>
    BY <1>1, LeaveLemma, StepLemma
  <2>2. (k = "tariff" => at = 5) /\ (k = "export_credit" => at = 6)
    BY <1>1, <2>1, StepLemma DEF Running
  <2>3. /\ \A j \in {"consumption", "dc_production", "snow", "degradation",
                     "battery_dispatch", "finance"} : artifacts'[j] = artifacts[j]
        /\ artifacts'["tariff"] = IF k = "tariff" THEN x ELSE artifacts["tariff"]
        /\ artifacts'["export_credit"]
             = IF k = "export_credit" THEN x ELSE artifacts["export_credit"]
    BY <2>1, StepLemma
  <2>4. Priced' /\ Amortized'
    BY <2>1, <2>3, PricedFrame, AmortizedFrame DEF Money
  <2>5. Streams'
    <3>1. \A t : Factor(t)' = Factor(t)
      BY <2>1 DEF Factor, LinearCurve
    <3> QED BY <2>1, <2>2, <2>3, <3>1 DEF Money, Streams, Absent
  <2>6. NetLoad' = NetLoad /\ Production' = Production
    BY <2>3 DEF NetLoad, Production, Absent, NetOf
  <2>7. CASE k = "tariff"
    <3>1. ~Absent("dc_production") /\ given.schedule \in Schedule
          /\ ~Uncovered(given.schedule, ImportOf(NetLoad))
      BY <1>1, <2>7, GivenTypes DEF Running, Declines, Raises, IInv
    <3>2. Absent("export_credit")'
      BY <2>2, <2>3, <2>7 DEF Money, Streams, Absent
    <3>3. Billed'
      BY <1>1, <2>1, <2>3, <2>6, <2>7, <3>1, <3>2 DEF Billed, Absent
    <3> QED BY <2>4, <2>5, <3>3 DEF Money
  <2>8. CASE k = "export_credit"
    <3>1. ~Absent("dc_production") /\ Creditable(given.export, given.schedule, NetLoad)
      BY <1>1, <2>8, CreditableLemma DEF Running, Declines, Raises, IInv
    <3>2. Billed'
      BY <1>1, <2>1, <2>3, <2>6, <2>8, <3>1 DEF Money, Billed, Absent
    <3> QED BY <2>4, <2>5, <3>2 DEF Money
  <2> QED BY <2>7, <2>8
<1>2. CASE Bill
  BY <1>1, <1>2 DEF Bill
<1>3. CASE Credit
  BY <1>1, <1>3 DEF Credit
<1> QED BY <1>2, <1>3

LEMMA CloseMoney == IInv /\ Money /\ Close => Money'
<1> SUFFICES ASSUME IInv, Money, Close PROVE Money'
  OBVIOUS
<1>1. /\ at \in 1..7 /\ at' = at + 1
      /\ artifacts' = [j \in Keys |-> IF j = "finance" THEN Flows ELSE artifacts[j]]
      /\ UNCHANGED <<given, hours, years, rows, bracket, raised>>
  BY LeaveLemma, StepLemma DEF Close, Rolled
<1>2. at = 7
  BY <1>1, StepLemma DEF Close, Rolled, Running
<1>3. /\ \A j \in Keys \ {"degradation", "finance"} : artifacts'[j] = artifacts[j]
      /\ \A j \in {"consumption", "dc_production", "snow", "degradation", "battery_dispatch",
                   "tariff", "export_credit"} : artifacts'[j] = artifacts[j]
      /\ artifacts'["finance"] = Flows
  BY <1>1, StepLemma
<1>4. Billed'
  BY <1>1, <1>3, BilledFrame DEF Money
<1>5. Priced'
  BY <1>1, <1>3, PricedFrame DEF Money
<1>6. Amortized'
  <2>1. Flows' = Flows /\ Term' = Term
    BY <1>1, FlowsFrame
  <2>2. Len(years) = given.financial.years /\ Len(rows) = Term
    BY DEF Close, Rolled
  <2>3. \E t \in DOMAIN years : years[t].energy # 0
    <3>1. ~Declines("finance") /\ ~Raises("finance")
      BY DEF Close, Rolled, Running
    <3>2. ~Absent("dc_production")
      BY <3>1 DEF Declines
    <3>3. ~Barren
      BY <3>1, <3>2 DEF Raises
    <3> QED BY <2>2, <3>3 DEF Barren
  <2> QED BY <1>1, <1>3, <2>1, <2>2, <2>3 DEF Money, Amortized
<1>7. Streams'
  <2>1. \A t : Factor(t)' = Factor(t)
    BY <1>1 DEF Factor, LinearCurve
  <2> QED BY <1>1, <1>2, <1>3, <2>1 DEF Money, Streams, Absent
<1> QED BY <1>4, <1>5, <1>6, <1>7 DEF Money

\* A year's record is what YearLemma says it is.
LEMMA YearRecordType ==
  ASSUME NEW consumption \in [Hour -> Int], NEW production \in [Hour -> Nat],
         NEW s, NEW export,
         Billable(consumption, s, export, NetOf(consumption, production))
  PROVE  YearTerms(consumption, production, s, export) \in YearRecord
<1> DEFINE net == NetOf(consumption, production)
           terms == YearTerms(consumption, production, s, export)
           bill == AnnualBill(s, net)
           raw == ExportCredit(export, s, net)
<1>1. /\ net \in [Hour -> Int] /\ ~Uncovered(s, ImportOf(net))
      /\ YearCharge(s, consumption) \in Nat /\ YearCharge(s, net) \in Nat
      /\ terms.avoidance = YearCharge(s, consumption) - YearCharge(s, net)
      /\ terms.credit \in Int /\ terms.energy \in Nat
  BY YearLemma
<1>2. terms.avoidance \in Int
  <2> HIDE DEF terms, net
  <2> QED BY <1>1
<1>3. terms = [avoidance |-> terms.avoidance, settled |-> terms.settled,
               credit |-> terms.credit, energy |-> terms.energy]
  BY DEF YearTerms
<1>4. terms.settled \in [Month -> SettledMonth] \cup {<<>>}
  <2>1. CASE export # None /\ export.regime = "nem_three_nbt"
    <3>1. terms.settled = Settled(bill, raw)
      BY <2>1 DEF YearTerms
    <3>2. Creditable(export, s, net) /\ s \in Schedule
      BY <2>1 DEF Billable
    <3> HIDE DEF net
    <3>3. raw \in [Month -> Int]
      BY <1>1, <3>2, CreditType
    <3>4. \A m \in Month : bill[m].energy \in Nat
      BY <1>1, <3>2, BillTotals
    <3> HIDE DEF bill, raw, terms
    <3>5. Settled(bill, raw) \in [Month -> SettledMonth]
      BY <3>3, <3>4, SettledType
    <3> QED BY <3>1, <3>5
  <2>2. CASE ~(export # None /\ export.regime = "nem_three_nbt")
    <3>1. terms.settled = <<>>
      BY <2>2 DEF YearTerms
    <3> QED BY <3>1
  <2> QED BY <2>1, <2>2
<1> HIDE DEF terms
<1> QED BY <1>1, <1>2, <1>3, <1>4 DEF YearRecord, terms

LEMMA YearMoney == IInv /\ Money /\ FinanceYear => Money'
<1> SUFFICES ASSUME IInv, Money, FinanceYear PROVE Money'
  OBVIOUS
<1> DEFINE t == Len(years) + 1
           terms == YearTerms(artifacts["consumption"], FinanceProduction(t),
                              given.schedule, given.export)
<1>1. UNCHANGED <<given, at, artifacts, hours, rows>> /\ years' = Append(years, terms)
      /\ Len(years) < given.financial.years
  BY DEF FinanceYear
<1>2. at = 7 /\ ~Declines("finance") /\ ~Raises("finance")
  BY StepLemma DEF FinanceYear, Running, IInv, TypeOK
<1>3. /\ ~Absent("dc_production") /\ ~Absent("degradation") /\ given.schedule \in Schedule
      /\ given.financial.cost # None
  BY <1>2, GivenTypes DEF Declines, IInv
<1>4. years \in Seq(YearRecord) /\ t \in 1..given.financial.years
  BY <1>1, GivenTypes DEF Money, Priced, IInv
<1>5. Billable(artifacts["consumption"], given.schedule, given.export, YearNet(t))
  <2>1. ~Uncovered(given.schedule, artifacts["consumption"])
    BY <1>2, <1>3 DEF Raises
  <2>2. given.export # None => ~CreditRaises(given.export, given.schedule, YearNet(t))
    BY <1>1, <1>2, <1>3 DEF Raises
  <2>3. given.export # None => Creditable(given.export, given.schedule, YearNet(t))
    BY <2>2, CreditableLemma DEF IInv
  <2> QED BY <1>3, <2>1, <2>3 DEF Billable
<1>6. terms \in YearRecord
  <2>1. FinanceProduction(t) \in [Hour -> Nat]
    BY <1>3, <1>4, AgingLemma DEF IInv, Money
  <2>2. artifacts["consumption"] \in [Hour -> Int]
    BY DEF IInv, TypeOK
  <2> QED BY <1>5, <2>1, <2>2, YearRecordType DEF YearNet
<1>7. \A i : FinanceProduction(i)' = FinanceProduction(i) /\ YearNet(i)' = YearNet(i)
  BY <1>1, YearFrame
<1> HIDE DEF terms
<1>8. /\ years' \in Seq(YearRecord) /\ Len(years') = t
      /\ years'[t] = terms /\ \A i \in DOMAIN years : years'[i] = years[i]
      /\ DOMAIN years' = DOMAIN years \cup {t}
  BY <1>1, <1>4, <1>6
<1>9. Priced'
  <2>1. Len(years') <= given.financial.years
    BY <1>4, <1>8
  <2>2. ASSUME NEW i \in DOMAIN years'
        PROVE  /\ Billable(artifacts["consumption"], given.schedule, given.export, YearNet(i))
               /\ years'[i] = YearTerms(artifacts["consumption"], FinanceProduction(i),
                                        given.schedule, given.export)
    <3>1. CASE i = t
      BY <1>5, <1>8, <3>1 DEF terms
    <3>2. CASE i \in DOMAIN years
      BY <1>8, <3>2 DEF Money, Priced
    <3> QED BY <1>8, <3>1, <3>2
  <2> QED BY <1>1, <1>3, <1>7, <1>8, <2>1, <2>2 DEF Priced, Absent
<1>10. Billed'
  BY <1>1, BilledFrame DEF Money
<1>11. Streams'
  <2>1. \A i : Factor(i)' = Factor(i)
    BY <1>1 DEF Factor, LinearCurve
  <2> QED BY <1>1, <1>2, <2>1 DEF Money, Streams, Absent
<1>12. Amortized'
  <2>1. Absent("finance")'
    BY <1>1, <1>2 DEF Money, Streams, Absent
  <2>2. Term' = Term
    BY <1>1 DEF Term
  <2> QED BY <1>1, <2>1, <2>2 DEF Money, Amortized
<1> QED BY <1>9, <1>10, <1>11, <1>12 DEF Money

LEMMA LoanMoney == IInv /\ Money /\ LoanMonth => Money'
<1> SUFFICES ASSUME IInv, Money, LoanMonth PROVE Money'
  OBVIOUS
<1>1. UNCHANGED <<given, at, artifacts, hours, years>> /\ Len(rows) < Term
  BY DEF LoanMonth
<1>2. at = 7
  BY StepLemma DEF LoanMonth, Running, IInv, TypeOK
<1>3. rows \in Seq(RowRecord) /\ rows' \in Seq(RowRecord)
  BY LoanStep DEF IInv, TypeOK
<1>4. given.financial.loan # None /\ Term \in Nat
  BY EngineAssumption, FinancialTypes DEF LoanMonth, Term, IInv, TypeOK, InputsOK
<1>5. Owed = IF rows = <<>> THEN given.financial.loan.principal ELSE rows[Len(rows)].balance
  BY <1>3 DEF Owed, Last
<1>6. Owed \in Nat
  <2>1. CASE rows = <<>>
    BY <1>4, <1>5, <2>1, EngineAssumption, FinancialTypes DEF IInv, InputsOK
  <2>2. CASE rows # <<>>
    <3>1. Len(rows) \in DOMAIN rows
      BY <1>3, <2>2
    <3>2. rows[Len(rows)] \in RowRecord
      BY <1>3, <3>1, Element
    <3> QED BY <1>5, <2>2, <3>2 DEF RowRecord
  <2> QED BY <2>1, <2>2
<1> DEFINE n == Len(rows) + 1
<1>7. PICK principal \in 0..Owed, interest \in Nat :
        /\ rows' = Append(rows, [payment |-> principal + interest, interest |-> interest,
                                 principal |-> principal, balance |-> Owed - principal])
        /\ n = Term => principal = Owed
  <2>1. PICK principal \in Repaid(n), interest \in IF Owed = 0 THEN {0} ELSE Interests :
          rows' = Append(rows, [payment |-> principal + interest, interest |-> interest,
                                principal |-> principal, balance |-> Owed - principal])
    BY DEF LoanMonth
  <2>2. principal \in 0..Owed /\ (n = Term => principal = Owed)
    BY <1>6 DEF Repaid
  <2>3. interest \in Nat
    BY EngineAssumption
  <2> QED BY <2>1, <2>2, <2>3
<1>8. /\ Len(rows') = n /\ DOMAIN rows' = DOMAIN rows \cup {n} /\ n \in Nat
      /\ \A i \in DOMAIN rows : rows'[i] = rows[i]
      /\ rows'[n] = [payment |-> principal + interest, interest |-> interest,
                     principal |-> principal, balance |-> Owed - principal]
  BY <1>3, <1>7
<1>9. Amortized'
  <2>1. Absent("finance")' /\ Term' = Term
    BY <1>1, <1>2 DEF Money, Streams, Absent, Term
  <2>2. Len(rows') <= Term
    BY <1>1, <1>3, <1>4, <1>8
  <2>3. ASSUME NEW i \in DOMAIN rows'
        PROVE  /\ rows'[i].payment = rows'[i].principal + rows'[i].interest
               /\ rows'[i].balance + rows'[i].principal
                    = IF i = 1 THEN given.financial.loan.principal ELSE rows'[i - 1].balance
               /\ i = Term => rows'[i].balance = 0
    <3>1. CASE i = n
      <4>1. rows'[i].balance + rows'[i].principal = Owed
        BY <1>6, <1>7, <1>8, <3>1
      <4>2. n # 1 => n - 1 = Len(rows) /\ n - 1 \in DOMAIN rows /\ rows # <<>>
        BY <1>3
      <4>3. n = 1 => rows = <<>>
        BY <1>3
      <4>4. Owed = IF i = 1 THEN given.financial.loan.principal ELSE rows'[i - 1].balance
        BY <1>5, <1>8, <3>1, <4>2, <4>3
      <4> QED BY <1>6, <1>7, <1>8, <3>1, <4>1, <4>4
    <3>2. CASE i \in DOMAIN rows
      <4>1. i # 1 => i - 1 \in DOMAIN rows
        BY <1>3, <3>2
      <4> QED BY <1>8, <3>2, <4>1 DEF Money, Amortized
    <3> QED BY <1>8, <3>1, <3>2
  <2> QED BY <1>1, <2>1, <2>2, <2>3 DEF Amortized
<1>10. Billed' /\ Priced'
  BY <1>1, BilledFrame, PricedFrame DEF Money
<1>11. Streams'
  <2>1. \A i : Factor(i)' = Factor(i)
    BY <1>1 DEF Factor, LinearCurve
  <2> QED BY <1>1, <1>2, <2>1 DEF Money, Streams, Absent
<1> QED BY <1>9, <1>10, <1>11 DEF Money

\* Every step of a run keeps the money in order as well: each bill, credit and
\* year is the one its streams call for, and the loan's rows add up.
THEOREM MoneyInvariance == Spec => []Money
<1>1. Init => Money
  <2> SUFFICES ASSUME Init PROVE Money
    OBVIOUS
  <2>1. \A k \in Keys \ {"consumption"} : Absent(k)
    BY DEF Init, Absent
  <2>2. /\ Absent("tariff") /\ Absent("export_credit") /\ Absent("finance")
        /\ Absent("degradation") /\ Absent("battery_dispatch")
    BY <2>1, StepLemma
  <2>3. years = <<>> /\ rows = <<>>
    BY DEF Init
  <2>4. InputsOK
    BY InitLemma DEF IInv
  <2>5. given.financial.years \in Nat /\ Term \in Nat
    BY <2>4, EngineAssumption, FinancialTypes DEF InputsOK, Term
  <2>6. Streams /\ Billed
    BY <2>2, <2>3 DEF Streams, Billed
  <2>7. Priced /\ Amortized
    BY <2>2, <2>3, <2>5 DEF Priced, Amortized
  <2> QED BY <2>6, <2>7 DEF Money
<1>2. IInv /\ Money /\ [Next]_vars => Money'
  <2> SUFFICES ASSUME IInv, Money, [Next]_vars PROVE Money'
    OBVIOUS
  <2>1. CASE Skip \/ Raise
    <3>1. UNCHANGED <<given, artifacts, hours, years, rows>> /\ at' \in {at, at + 1}
      BY <2>1 DEF Skip, Raise
    <3> QED BY <3>1, StillMoney
  <2>2. CASE Produce \/ SnowLoss \/ Degrade \/ Dispatched
    BY <2>2, StreamMoney
  <2>3. CASE DispatchHour
    BY <2>3, HourMoney
  <2>4. CASE Bill \/ Credit
    BY <2>4, BillMoney
  <2>5. CASE FinanceYear
    BY <2>5, YearMoney
  <2>6. CASE LoanMonth
    BY <2>6, LoanMoney
  <2>7. CASE StartIrr \/ HalveIrr
    <3>1. UNCHANGED <<given, artifacts, hours, years, rows, at>>
      BY <2>7 DEF StartIrr, HalveIrr
    <3> QED BY <3>1, StillMoney
  <2>8. CASE Close
    BY <2>8, CloseMoney
  <2>9. CASE UNCHANGED vars
    BY <2>9, StillMoney DEF vars
  <2> QED BY <2>1, <2>2, <2>3, <2>4, <2>5, <2>6, <2>7, <2>8, <2>9 DEF Next, Ended
<1> QED BY <1>1, <1>2, Invariance, PTL DEF Spec

\* what the parts of the money say of a year
LEMMA YearFacts ==
  ASSUME IInv, Money, NEW t \in DOMAIN years
  PROVE  /\ t \in 1..given.financial.years /\ given.schedule \in Schedule
         /\ ~Absent("dc_production") /\ ~Absent("degradation")
         /\ artifacts["consumption"] \in [Hour -> Int]
         /\ FinanceProduction(t) \in [Hour -> Nat]
         /\ YearNet(t) = NetOf(artifacts["consumption"], FinanceProduction(t))
         /\ YearNet(t) \in [Hour -> Int]
         /\ Billable(artifacts["consumption"], given.schedule, given.export, YearNet(t))
         /\ ~Uncovered(given.schedule, ImportOf(YearNet(t)))
         /\ years[t] = YearTerms(artifacts["consumption"], FinanceProduction(t),
                                 given.schedule, given.export)
         /\ years[t] \in YearRecord
<1>1. years \in Seq(YearRecord) /\ Len(years) <= given.financial.years /\ years # <<>>
  BY DEF Money, Priced
<1>2. t \in 1..given.financial.years
  BY <1>1, GivenTypes DEF IInv
<1>3. ~Absent("dc_production") /\ ~Absent("degradation")
  BY <1>1 DEF Money, Priced
<1>4. FinanceProduction(t) \in [Hour -> Nat]
  BY <1>2, <1>3, AgingLemma DEF IInv, Money
<1>5. artifacts["consumption"] \in [Hour -> Int]
  BY DEF IInv, TypeOK
<1>6. /\ Billable(artifacts["consumption"], given.schedule, given.export, YearNet(t))
      /\ years[t] = YearTerms(artifacts["consumption"], FinanceProduction(t),
                              given.schedule, given.export)
  BY DEF Money, Priced
<1>7. YearNet(t) = NetOf(artifacts["consumption"], FinanceProduction(t))
  BY DEF YearNet
<1>8. YearNet(t) \in [Hour -> Int] /\ ~Uncovered(given.schedule, ImportOf(YearNet(t)))
  BY <1>4, <1>5, <1>6, <1>7, YearLemma
<1>9. years[t] \in YearRecord
  BY <1>1, Element
<1> QED BY <1>2, <1>3, <1>4, <1>5, <1>6, <1>7, <1>8, <1>9 DEF Billable

\* A year that nets has settled its own bill against its own credit.
LEMMA SettledTerms ==
  ASSUME NEW load, NEW production, NEW s, NEW export,
         YearTerms(load, production, s, export).settled # <<>>
  PROVE  /\ export # None
         /\ YearTerms(load, production, s, export).settled
              = Settled(AnnualBill(s, NetOf(load, production)),
                        ExportCredit(export, s, NetOf(load, production)))
<1> DEFINE net == NetOf(load, production)
           netting == export # None /\ export.regime = "nem_three_nbt"
           raw == IF export = None THEN [m \in Month |-> 0] ELSE ExportCredit(export, s, net)
<1>1. YearTerms(load, production, s, export).settled
        = IF netting THEN Settled(AnnualBill(s, net), raw) ELSE <<>>
  BY DEF YearTerms
<1>2. netting
  BY <1>1
<1>3. raw = ExportCredit(export, s, net)
  BY <1>2
<1> HIDE DEF raw
<1> QED BY <1>1, <1>2, <1>3

LEMMA CreditLemma == IInv /\ Money => CreditIsConserved
<1> SUFFICES ASSUME IInv, Money PROVE CreditIsConserved
  OBVIOUS
<1>1. RolloverConserves
  <2> SUFFICES ASSUME NEW t \in DOMAIN years, years[t].settled # <<>>
               PROVE  LET settled == years[t].settled
                          raw     == ExportCredit(given.export, given.schedule, YearNet(t))
                      IN \A m \in Month :
                           /\ settled[m].carry >= 0 /\ settled[m].net >= 0
                           /\ SumOver(1..m, [i \in Month |-> settled[i].applied]) + settled[m].carry
                                = SumOver(1..m, raw)
    BY DEF RolloverConserves
  <2> DEFINE bill == AnnualBill(given.schedule, YearNet(t))
             raw == ExportCredit(given.export, given.schedule, YearNet(t))
  <2>1. /\ given.export # None /\ years[t].settled = Settled(bill, raw)
    BY YearFacts, SettledTerms
  <2>2. raw \in [Month -> Int]
    BY <2>1, YearFacts, CreditType DEF Billable
  <2>3. \A m \in Month : bill[m].energy \in Nat
    BY YearFacts, BillTotals
  <2> HIDE DEF bill, raw
  <2> DEFINE settled == Settled(bill, raw)
  <2>4. settled \in [Month -> SettledMonth]
    BY <2>2, <2>3, SettledType
  <2>5. \A m \in Month : SumOver(1..m, [i \in Month |-> settled[i].applied]) + settled[m].carry
                           = SumOver(1..m, raw)
    BY <2>2, <2>3, YearConserves
  <2> HIDE DEF settled
  <2>6. \A m \in Month : settled[m].carry >= 0 /\ settled[m].net >= 0
    BY <2>4 DEF SettledMonth
  <2> QED BY <2>1, <2>5, <2>6 DEF settled, raw
<1>2. ASSUME ~Absent("tariff"), ~Absent("export_credit"),
             given.export.regime \in {"seg_flat", "seg_tou"}
      PROVE  LET bill    == artifacts["tariff"]
                 credit  == artifacts["export_credit"]
                 settled == SegSettlement(given.export.regime, bill, credit)
             IN /\ \A m \in Month : settled.applied[m] <= settled.parts * bill[m].energy
                /\ settled.unused >= 0
                /\ SumOver(Month, settled.applied) + settled.parts * settled.unused
                     = settled.parts * SumOver(Month, credit)
  <2>1. /\ given.schedule \in Schedule /\ ~Uncovered(given.schedule, ImportOf(NetLoad))
        /\ artifacts["tariff"] = AnnualBill(given.schedule, NetLoad)
        /\ Creditable(given.export, given.schedule, NetLoad) /\ ~Absent("dc_production")
        /\ artifacts["export_credit"] = ExportCredit(given.export, given.schedule, NetLoad)
    BY <1>2 DEF Money, Billed
  <2>2. NetLoad \in [Hour -> Int]
    BY <2>1, NetLoadType DEF IInv, Money
  <2>3. \A m \in Month : artifacts["tariff"][m].energy \in Nat
    BY <2>1, <2>2, BillTotals
  <2>4. /\ artifacts["export_credit"] \in [Month -> Int]
        /\ given.export.regime = "seg_flat" => artifacts["export_credit"] \in [Month -> Nat]
    BY <2>1, <2>2, CreditType
  <2> QED BY <2>3, <2>4, SegConserves
<1> QED BY <1>1, <1>2 DEF CreditIsConserved

\* Under every calendar, tariff and load the rollover of every year, and the
\* settlement of the forecast's own SEG year, makes and loses no credit.
THEOREM CreditConserved == Spec => []CreditIsConserved
BY CreditLemma, Invariance, MoneyInvariance, PTL

LEMMA BillsLemma == IInv /\ Money => BillsFollowTheCard
<1> SUFFICES ASSUME IInv, Money, NEW card \in DOMAIN CardSchedules,
                    given.schedule = CardSchedules[card]
             PROVE  /\ ~Absent("tariff") =>
                         \A m \in Month :
                           artifacts["tariff"][m].energy = CardCharge(card, ImportOf(NetLoad), m)
                    /\ /\ ~Absent("export_credit") /\ given.export.regime = "nem_one_for_one"
                       /\ given.schedule.structure = "tiered"
                       => \A m \in Month :
                            artifacts["export_credit"][m] =
                              SumOver((Netted(NetLoad, m) + 1)..MonthKwh(ImportOf(NetLoad), m),
                                      [k \in Nat |-> CardTier(card.structure[1], k)])
  BY DEF BillsFollowTheCard
<1> DEFINE s == Parsed(card)
           blocks == card.structure[1]
<1>1. None \notin Int /\ RateCard(card) /\ ~Malformed(card) /\ given.schedule = s
  BY EngineAssumption DEF CardSchedules
<1>2. ASSUME ~Absent("tariff"), NEW m \in Month
      PROVE  artifacts["tariff"][m].energy = CardCharge(card, ImportOf(NetLoad), m)
  <2>1. /\ ~Absent("dc_production") /\ s \in Schedule /\ ~Uncovered(s, ImportOf(NetLoad))
        /\ artifacts["tariff"] = AnnualBill(s, NetLoad)
    BY <1>1, <1>2 DEF Money, Billed
  <2>2. NetLoad \in [Hour -> Int]
    BY <2>1, NetLoadType DEF IInv, Money
  <2>3. artifacts["tariff"][m].energy = EnergyCharge(s, NetLoad, m)
    BY <2>1 DEF AnnualBill
  <2>4. EnergyCharge(s, NetLoad, m) = CardCharge(card, ImportOf(NetLoad), m)
    BY <1>1, <2>1, <2>2, ChargeFollowsTheCard
  <2> QED BY <2>3, <2>4
<1>3. ASSUME ~Absent("export_credit"), given.export.regime = "nem_one_for_one",
             given.schedule.structure = "tiered", NEW m \in Month
      PROVE  artifacts["export_credit"][m] =
               SumOver((Netted(NetLoad, m) + 1)..MonthKwh(ImportOf(NetLoad), m),
                       [k \in Nat |-> CardTier(card.structure[1], k)])
  <2> DEFINE to   == MonthKwh(ImportOf(NetLoad), m)
             from == Netted(NetLoad, m)
  <2>1. /\ ~Absent("dc_production")
        /\ artifacts["export_credit"] = ExportCredit(given.export, s, NetLoad)
    BY <1>1, <1>3 DEF Money, Billed
  <2>2. NetLoad \in [Hour -> Int]
    BY <2>1, NetLoadType DEF IInv, Money
  <2>3. /\ blocks \in CardBlocks
        /\ IsTou(card) => s.structure = "tou"
        /\ ~IsTou(card) /\ Len(blocks) = 1 => s.structure = "flat"
        /\ ~IsTou(card) /\ Len(blocks) # 1 => s.blocks = TieredBlocks(blocks)
        /\ ~IsTou(card) => Len(blocks) > 0
    BY <1>1, ParsedLemma
  <2>4. s.structure = "tiered"
    BY <1>1, <1>3
  <2>5. Len(blocks) # 1 /\ Len(blocks) > 0 /\ s.blocks = TieredBlocks(blocks)
    <3> HIDE DEF s, blocks
    <3> QED BY <2>3, <2>4
  <2>6. artifacts["export_credit"][m] = NemCredit(s, NetLoad, m)
    BY <1>3, <2>1 DEF ExportCredit
  <2>7. NemCredit(s, NetLoad, m) = TierCharge(to, s.blocks) - TierCharge(from, s.blocks)
    BY <2>4 DEF NemCredit
  <2>8. from \in Nat /\ to \in Nat /\ from <= to
    <3>1. MonthKwh(ExportOf(NetLoad), m) \in Nat /\ from \in Nat /\ to \in Nat
      BY <2>2, NettedType
    <3>2. from = Positive(to - MonthKwh(ExportOf(NetLoad), m))
      BY DEF Netted
    <3> DEFINE out == MonthKwh(ExportOf(NetLoad), m)
    <3> HIDE DEF from, to, out
    <3> QED BY <3>1, <3>2 DEF Positive, out
  <2> HIDE DEF from, to, s, blocks
  <2>9. TierCharge(to, TieredBlocks(blocks)) - TierCharge(from, TieredBlocks(blocks))
          = SumOver((from + 1)..to, PerKwh(blocks))
    BY <1>1, <2>3, <2>5, <2>8, RefundFollowsTheCard
  <2>10. artifacts["export_credit"][m] = SumOver((from + 1)..to, PerKwh(blocks))
    BY <2>5, <2>6, <2>7, <2>9
  <2> QED BY <2>10 DEF from, to, blocks, PerKwh
<1> QED BY <1>2, <1>3

\* Whatever card a schedule was parsed from, every month of the forecast's bill
\* is what the card charges for the load, and net metering on tiers refunds the
\* last kWh of the month that it displaced.
THEOREM BillsFollow == Spec => []BillsFollowTheCard
BY BillsLemma, Invariance, MoneyInvariance, PTL

LEMMA SavingsLemma == IInv /\ Money => SavingsBounded
<1> SUFFICES ASSUME IInv, Money PROVE SavingsBounded
  OBVIOUS
<1> DEFINE load == artifacts["consumption"]
<1>1. WithinBill
  <2> SUFFICES ASSUME NEW t \in DOMAIN years, KeptIn(given.export, given.schedule)
               PROVE  years[t].avoidance + years[t].credit
                        <= SumOver(Month, [m \in Month |-> Baseline[m].energy])
    BY DEF WithinBill, KeptIn
  <2>1. YearTerms(load, FinanceProduction(t), given.schedule, given.export).avoidance
          + YearTerms(load, FinanceProduction(t), given.schedule, given.export).credit
            <= SumOver(Month, [m \in Month |-> AnnualBill(given.schedule, load)[m].energy])
    BY YearFacts, SavingsWithinBill
  <2> QED BY <2>1, YearFacts DEF Baseline
<1>2. WithinTariff
  <2> SUFFICES ASSUME ~Absent("tariff"), Absent("battery_dispatch"), NEW t \in DOMAIN years
               PROVE  years[t].avoidance <= Total(Baseline) - Total(artifacts["tariff"])
    BY DEF WithinTariff
  <2>1. ~Absent("dc_production") /\ artifacts["tariff"] = AnnualBill(given.schedule, NetLoad)
    BY DEF Money, Billed
  <2>2. NetLoad \in [Hour -> Int] /\ NetLoad = NetOf(load, Production)
    BY <2>1, NetLoadType DEF IInv, Money, NetLoad
  <2>3. NeverAbove(NetLoad, YearNet(t))
    <3>1. Production \in [Hour -> Nat]
      BY <2>1, ProductionType DEF IInv
    <3>2. /\ load \in [Hour -> Int] /\ FinanceProduction(t) \in [Hour -> Nat]
          /\ YearNet(t) = NetOf(load, FinanceProduction(t))
          /\ \A h \in Hour : FinanceProduction(t)[h] <= Production[h]
      BY YearFacts, AgingLemma DEF IInv, Money
    <3>3. ASSUME NEW h \in Hour PROVE load[h] - Production[h] <= load[h] - FinanceProduction(t)[h]
      <4>1. load[h] \in Int /\ Production[h] \in Int /\ FinanceProduction(t)[h] \in Int
            /\ FinanceProduction(t)[h] <= Production[h]
        BY <3>1, <3>2
      <4> QED BY <4>1
    <3> QED BY <2>2, <3>2, <3>3 DEF NeverAbove, NetOf
  <2>4. YearTerms(load, FinanceProduction(t), given.schedule, given.export).avoidance
          <= Total(AnnualBill(given.schedule, load)) - Total(AnnualBill(given.schedule, NetLoad))
    <3>1. NeverAbove(NetLoad, NetOf(load, FinanceProduction(t)))
      BY <2>3, YearFacts
    <3> QED BY <2>2, <3>1, YearFacts, SavingsWithinTariff
  <2> QED BY <2>1, <2>4, YearFacts DEF Baseline
<1>3. Fading
  <2> SUFFICES ASSUME CalmExport, NEW t \in 2..Len(years)
               PROVE  /\ years[t].avoidance + years[t].credit
                           <= years[t - 1].avoidance + years[t - 1].credit
                      /\ years[t].energy <= years[t - 1].energy
    BY DEF Fading
  <2>1. t \in DOMAIN years /\ t - 1 \in DOMAIN years /\ t # 1
    BY DEF Money, Priced
  <2>2. \A h \in Hour : FinanceProduction(t)[h] <= FinanceProduction(t - 1)[h]
    BY <2>1, YearFacts, AgingLemma DEF IInv, Money
  <2>3. /\ FinanceProduction(t) \in [Hour -> Nat] /\ load \in [Hour -> Int]
        /\ Billable(load, given.schedule, given.export, NetOf(load, FinanceProduction(t)))
        /\ years[t] = YearTerms(load, FinanceProduction(t), given.schedule, given.export)
    BY <2>1, YearFacts
  <2> DEFINE u == t - 1
  <2>4. /\ FinanceProduction(u) \in [Hour -> Nat]
        /\ Billable(load, given.schedule, given.export, NetOf(load, FinanceProduction(u)))
        /\ years[u] = YearTerms(load, FinanceProduction(u), given.schedule, given.export)
    <3>1. u \in DOMAIN years
      BY <2>1
    <3> HIDE DEF u
    <3> QED BY <3>1, YearFacts
  <2>5. \A h \in Hour : FinanceProduction(t)[h] <= FinanceProduction(u)[h]
    BY <2>2
  <2>6. given.export = None \/ given.export.regime \in {"nem_one_for_one", "seg_flat"}
    BY DEF CalmExport
  <2> DEFINE late == FinanceProduction(t)
             early == FinanceProduction(u)
             s == given.schedule
             c == given.export
  <2> HIDE DEF u, late, early, load, s, c
  <2>7. /\ late \in [Hour -> Nat] /\ early \in [Hour -> Nat] /\ load \in [Hour -> Int]
        /\ \A h \in Hour : late[h] <= early[h]
        /\ c = None \/ c.regime \in {"nem_one_for_one", "seg_flat"}
        /\ Billable(load, s, c, NetOf(load, early)) /\ Billable(load, s, c, NetOf(load, late))
    BY <2>3, <2>4, <2>5, <2>6 DEF late, early, s, c
  <2>8. /\ YearTerms(load, late, s, c).avoidance + YearTerms(load, late, s, c).credit
             <= YearTerms(load, early, s, c).avoidance + YearTerms(load, early, s, c).credit
        /\ YearTerms(load, late, s, c).energy <= YearTerms(load, early, s, c).energy
    BY <2>7, SavingsFade
  <2> QED BY <2>3, <2>4, <2>8 DEF u, late, early, s, c
<1> QED BY <1>1, <1>2, <1>3 DEF SavingsBounded

\* A year saves no more than the energy the household used to buy, than the
\* tariff step's own bill says without a battery, and than the year before.
THEOREM SavingsStayBounded == Spec => []SavingsBounded
BY SavingsLemma, Invariance, MoneyInvariance, PTL

----------------------------------------------------------------------------
\* The loan and the sale

LEMMA RowTypes ==
  ASSUME IInv
  PROVE  /\ Len(rows) \in Nat /\ DOMAIN rows = 1..Len(rows) /\ IsFiniteSet(DOMAIN rows)
         /\ \A i \in DOMAIN rows : /\ rows[i].payment \in Nat /\ rows[i].interest \in Nat
                                   /\ rows[i].principal \in Nat /\ rows[i].balance \in Nat
<1>1. rows \in Seq(RowRecord)
  BY DEF IInv, TypeOK
<1>2. Len(rows) \in Nat /\ DOMAIN rows = 1..Len(rows)
  BY <1>1
<1>3. IsFiniteSet(DOMAIN rows)
  BY <1>2, FS_Interval
<1>4. \A i \in DOMAIN rows : rows[i] \in RowRecord
  BY <1>1, Element
<1> QED BY <1>2, <1>3, <1>4 DEF RowRecord

\* Up to any month the principal repaid and the balance left are the loan.
LEMMA PrincipalLemma ==
  ASSUME IInv, Money, NEW k \in DOMAIN rows
  PROVE  SumOver(1..k, [i \in DOMAIN rows |-> rows[i].principal]) + rows[k].balance
           = given.financial.loan.principal
<1> DEFINE f == [i \in DOMAIN rows |-> rows[i].principal]
           P == given.financial.loan.principal
           T == {n \in Nat : n + 1 \in DOMAIN rows =>
                               SumOver(1..(n + 1), f) + rows[n + 1].balance = P}
<1>1. /\ DOMAIN rows = 1..Len(rows) /\ Len(rows) \in Nat
      /\ \A i \in DOMAIN rows : f[i] \in Int /\ f[i] = rows[i].principal /\ rows[i].balance \in Int
  BY RowTypes
<1>2. \A i \in DOMAIN rows : rows[i].balance + rows[i].principal
                               = IF i = 1 THEN P ELSE rows[i - 1].balance
  BY DEF Money, Amortized
<1> HIDE DEF f, P
<1>3. 0 \in T
  <2> SUFFICES ASSUME 1 \in DOMAIN rows PROVE SumOver(1..1, f) + rows[1].balance = P
    OBVIOUS
  <2>1. SumOver(1..(0 + 1), f) = SumOver(1..0, f) + f[0 + 1]
    <3>1. \A x \in 1..(0 + 1) : f[x] \in Int
      BY <1>1
    <3> QED BY <3>1, SumNext
  <2>2. SumOver(1..0, f) = 0
    <3>1. 1..0 = {}
      OBVIOUS
    <3> QED BY <3>1, SumEmpty
  <2>3. SumOver(1..1, f) = f[1]
    BY <1>1, <2>1, <2>2
  <2> QED BY <1>1, <1>2, <2>3
<1>4. ASSUME NEW n \in T PROVE n + 1 \in T
  <2> DEFINE m == n + 1
  <2> SUFFICES ASSUME m + 1 \in DOMAIN rows PROVE SumOver(1..(m + 1), f) + rows[m + 1].balance = P
    OBVIOUS
  <2>1. m \in Nat /\ m \in DOMAIN rows /\ m + 1 # 1 /\ (m + 1) - 1 = m
        /\ \A x \in 1..(m + 1) : x \in DOMAIN rows
    BY <1>1
  <2>2. SumOver(1..m, f) + rows[m].balance = P
    BY <2>1
  <2> HIDE DEF m
  <2>3. SumOver(1..(m + 1), f) = SumOver(1..m, f) + f[m + 1]
    BY <1>1, <2>1, SumNext
  <2>4. rows[m + 1].balance + rows[m + 1].principal = rows[m].balance
    BY <1>2, <2>1
  <2>5. SumOver(1..m, f) \in Int
    <3>1. IsFiniteSet(1..m)
      BY <2>1, FS_Interval
    <3>2. \A x \in 1..m : x \in 1..(m + 1)
      BY <2>1
    <3>3. \A x \in 1..m : f[x] \in Int
      BY <1>1, <2>1, <3>2
    <3> QED BY <3>1, <3>3, SumType
  <2>6. \A a, b, c, d, e \in Int : a + b = e /\ c + d = b => (a + d) + c = e
    OBVIOUS
  <2>7. f[m + 1] = rows[m + 1].principal /\ f[m + 1] \in Int /\ rows[m + 1].balance \in Int
        /\ rows[m].balance \in Int
    BY <1>1, <2>1
  <2> QED BY <2>2, <2>3, <2>4, <2>5, <2>6, <2>7
<1>5. T \in SUBSET Nat
  OBVIOUS
<1> HIDE DEF T
<1>6. T = Nat
  BY <1>3, <1>4, <1>5, CountingUp
<1>7. k - 1 \in Nat /\ (k - 1) + 1 = k
  BY <1>1
<1>8. SumOver(1..k, f) + rows[k].balance = P
  BY <1>6, <1>7 DEF T
<1> QED BY <1>8 DEF f, P

\* the months of a schedule up to the end of a year
MonthsThrough(y) == {i \in DOMAIN rows : i <= y * Months}

\* The debt service of the first years is every payment of their months, once.
LEMMA ServiceLemma ==
  ASSUME IInv
  PROVE  /\ \A t \in Nat : DebtService(t) \in Int
         /\ \A y \in Nat : SumOver(1..y, [t \in Nat |-> DebtService(t)])
                             = SumOver(MonthsThrough(y), [i \in DOMAIN rows |-> rows[i].payment])
<1> DEFINE pay == [i \in DOMAIN rows |-> rows[i].payment]
           debt == [t \in Nat |-> DebtService(t)]
           In(t) == {i \in DOMAIN rows : (t - 1) * Months < i /\ i <= t * Months}
<1>1. /\ IsFiniteSet(DOMAIN rows) /\ \A i \in DOMAIN rows : pay[i] \in Int /\ i \in Nat \ {0}
  BY RowTypes
<1>2. \A t : IsFiniteSet(In(t)) /\ IsFiniteSet(MonthsThrough(t))
  <2>1. \A t : In(t) \subseteq DOMAIN rows /\ MonthsThrough(t) \subseteq DOMAIN rows
    BY DEF MonthsThrough
  <2> QED BY <1>1, <2>1, FS_Subset
<1>3. \A t \in Nat : debt[t] = SumOver(In(t), pay)
  BY DEF DebtService, Payments
<1>4. \A t \in Nat : debt[t] \in Int
  <2>1. \A t \in Nat : SumOver(In(t), pay) \in Int
    <3> TAKE t \in Nat
    <3>1. \A x \in In(t) : pay[x] \in Int
      BY <1>1
    <3> HIDE DEF In, pay
    <3> QED BY <1>2, <3>1, SumType
  <2> QED BY <1>3, <2>1
<1> DEFINE T == {y \in Nat : SumOver(1..y, debt) = SumOver(MonthsThrough(y), pay)}
<1>5. 0 \in T
  <2>1. 1..0 = {}
    OBVIOUS
  <2>2. MonthsThrough(0) = {}
    BY <1>1, MonthsAreFinite DEF MonthsThrough
  <2> HIDE DEF debt, pay
  <2> QED BY <2>1, <2>2, SumEmpty
<1>6. ASSUME NEW y \in T PROVE y + 1 \in T
  <2>1. MonthsThrough(y + 1) = MonthsThrough(y) \cup In(y + 1) /\ MonthsThrough(y) \cap In(y + 1) = {}
    <3>1. (y + 1) - 1 = y
      OBVIOUS
    <3>2. y * Months \in Nat /\ (y + 1) * Months \in Nat /\ y * Months <= (y + 1) * Months
      BY MonthsAreFinite
    <3>3. \A i \in DOMAIN rows : i \in In(y + 1) <=> (y * Months < i /\ i <= (y + 1) * Months)
      BY <3>1
    <3> DEFINE a == y * Months
               b == (y + 1) * Months
    <3>4. /\ \A i \in DOMAIN rows : i \in In(y + 1) <=> (a < i /\ i <= b)
          /\ \A i \in DOMAIN rows : i \in MonthsThrough(y) <=> i <= a
          /\ \A i \in DOMAIN rows : i \in MonthsThrough(y + 1) <=> i <= b
          /\ In(y + 1) \subseteq DOMAIN rows /\ MonthsThrough(y) \subseteq DOMAIN rows
          /\ MonthsThrough(y + 1) \subseteq DOMAIN rows
      BY <3>3 DEF MonthsThrough
    <3>5. a \in Nat /\ b \in Nat /\ a <= b
      BY <3>2
    <3> HIDE DEF a, b, In
    <3> QED BY <1>1, <3>4, <3>5
  <2>2. SumOver(MonthsThrough(y + 1), pay) = SumOver(MonthsThrough(y), pay) + SumOver(In(y + 1), pay)
    <3>1. \A x \in MonthsThrough(y) \cup In(y + 1) : pay[x] \in Int
      BY <1>1 DEF MonthsThrough
    <3> HIDE DEF pay, In
    <3> QED BY <1>2, <2>1, <3>1, SumUnion
  <2>3. SumOver(1..(y + 1), debt) = SumOver(1..y, debt) + debt[y + 1]
    <3>1. \A x \in 1..(y + 1) : debt[x] \in Int
      BY <1>4
    <3> HIDE DEF debt
    <3> QED BY <3>1, SumNext
  <2>4. debt[y + 1] = SumOver(In(y + 1), pay)
    BY <1>3
  <2> HIDE DEF debt, pay, In
  <2> QED BY <2>2, <2>3, <2>4
<1>7. T \in SUBSET Nat
  OBVIOUS
<1> HIDE DEF T
<1>8. T = Nat
  BY <1>5, <1>6, <1>7, CountingUp
<1>9. \A y \in Nat : SumOver(1..y, debt) = SumOver(MonthsThrough(y), pay)
  BY <1>8 DEF T
<1> QED BY <1>4, <1>9

\* What is paid off at the end of a year and what was repaid until then are
\* the whole loan.
LEMMA PayoffLemma ==
  ASSUME IInv, Money, Len(rows) = Term, NEW y \in 1..given.financial.years
  PROVE  /\ Payoff[y] \in Int
         /\ SumOver(MonthsThrough(y), [i \in DOMAIN rows |-> rows[i].principal]) + Payoff[y]
              = IF Term = 0 THEN 0 ELSE given.financial.loan.principal
<1> DEFINE f == [i \in DOMAIN rows |-> rows[i].principal]
           P == given.financial.loan.principal
<1>1. /\ DOMAIN rows = 1..Term /\ Term \in Nat
      /\ \A i \in DOMAIN rows : f[i] \in Int /\ rows[i].balance \in Int
  BY RowTypes
<1>2. y \in Nat \ {0} /\ y * Months \in Nat \ {0} /\ given.financial.years \in Nat
  <2>1. given.financial.years \in Nat
    BY FinancialTypes DEF IInv
  <2>2. y \in Nat \ {0}
    BY <2>1
  <2>3. \A a, b \in Nat \ {0} : a * b \in Nat \ {0}
    OBVIOUS
  <2> QED BY <2>1, <2>2, <2>3, MonthsAreFinite
<1>3. Payoff[y] = IF y * Months >= Term THEN 0 ELSE rows[y * Months].balance
  BY DEF Payoff
<1>4. \A k \in DOMAIN rows : SumOver(1..k, f) + rows[k].balance = P
  BY PrincipalLemma
<1>5. Term # 0 => rows[Term].balance = 0
  BY <1>1 DEF Money, Amortized
<1> DEFINE last == y * Months
<1>6. MonthsThrough(y) = {i \in DOMAIN rows : i <= last}
  BY DEF MonthsThrough
<1>7. last \in Nat \ {0}
  BY <1>2
<1>8. Payoff[y] = IF last >= Term THEN 0 ELSE rows[last].balance
  BY <1>3
<1> HIDE DEF f, P, last
<1>9. CASE Term = 0
  <2>1. MonthsThrough(y) = {}
    BY <1>1, <1>6, <1>9
  <2>2. Payoff[y] = 0
    BY <1>7, <1>8, <1>9
  <2>3. SumOver(MonthsThrough(y), f) = 0
    BY <2>1, SumEmpty
  <2> QED BY <1>9, <2>2, <2>3 DEF f
<1>10. CASE Term # 0 /\ last >= Term
  <2>1. MonthsThrough(y) = 1..Term
    BY <1>1, <1>6, <1>7, <1>10
  <2>2. Payoff[y] = 0
    BY <1>8, <1>10
  <2>3. Term \in DOMAIN rows
    BY <1>1, <1>10
  <2>4. SumOver(MonthsThrough(y), f) + rows[Term].balance = P
    BY <1>4, <2>1, <2>3
  <2> QED BY <1>5, <1>10, <2>2, <2>4 DEF f, P
<1>11. CASE last < Term
  <2>1. MonthsThrough(y) = 1..last /\ last \in DOMAIN rows /\ Term # 0
    BY <1>1, <1>6, <1>7, <1>11
  <2>2. Payoff[y] = rows[last].balance
    BY <1>1, <1>7, <1>8, <1>11
  <2>3. SumOver(MonthsThrough(y), f) + rows[last].balance = P
    BY <1>4, <2>1
  <2> QED BY <1>1, <2>1, <2>2, <2>3 DEF f, P
<1> QED BY <1>1, <1>7, <1>9, <1>10, <1>11

\* what a year has saved after its running costs
Saved(t) == years[t].avoidance + years[t].credit - given.financial.opex

\* The flows a run returns: the outlay, then what each year saves less its
\* debt service.
LEMMA FlowsLemma ==
  ASSUME IInv, Money, ~Absent("finance")
  PROVE  LET n     == given.financial.years
             flows == artifacts["finance"]
         IN /\ n \in Nat \ {0} /\ Len(years) = n /\ DOMAIN years = 1..n /\ Len(rows) = Term
            /\ DOMAIN flows = 0..n /\ Horizon(flows) = n
            /\ Upfront \in Nat /\ flows[0] = -Upfront
            /\ \A t \in 1..n : /\ Saved(t) \in Int /\ DebtService(t) \in Int
                               /\ flows[t] = Saved(t) - DebtService(t)
            /\ \A t \in 0..n : flows[t] \in Int
<1> DEFINE n == given.financial.years
           flows == artifacts["finance"]
<1>1. n \in Nat \ {0} /\ given.financial.opex \in Nat
  BY FinancialTypes DEF IInv
<1>2. flows = Flows /\ Len(years) = n /\ Len(rows) = Term
  BY DEF Money, Amortized
<1>3. years \in Seq(YearRecord)
  BY DEF Money, Priced
<1>4. DOMAIN years = 1..n
  BY <1>1, <1>2, <1>3
<1>5. \A t \in 1..n : years[t].avoidance \in Int /\ years[t].credit \in Int
  <2>1. \A t \in 1..n : years[t] \in YearRecord
    BY <1>3, <1>4, Element
  <2> QED BY <2>1 DEF YearRecord
<1>6. \A t \in 1..n : Saved(t) \in Int /\ DebtService(t) \in Int
  <2>1. \A t \in 1..n : t \in Nat
    BY <1>1
  <2> QED BY <1>1, <1>5, <2>1, ServiceLemma DEF Saved
<1>7. Upfront \in Nat
  <2>1. given.financial.cost # None
    BY <1>1, <1>4 DEF Money, Priced
  <2> QED BY <2>1, FinancialTypes DEF IInv, Upfront
<1>8. DOMAIN flows = 0..n /\ flows[0] = -Upfront
  BY <1>1, <1>2 DEF Flows
<1>9. \A t \in 1..n : flows[t] = Saved(t) - DebtService(t)
  <2>1. \A t \in 1..n : t \in 0..n /\ t # 0
    BY <1>1
  <2>2. \A t \in 0..n : Flows[t] = IF t = 0 THEN -Upfront
                                   ELSE years[t].avoidance + years[t].credit
                                          - given.financial.opex - DebtService(t)
    BY <1>2 DEF Flows
  <2>3. ASSUME NEW t \in 1..n PROVE flows[t] = Saved(t) - DebtService(t)
    <3>1. Flows[t] = years[t].avoidance + years[t].credit - given.financial.opex - DebtService(t)
      BY <2>1, <2>2
    <3>2. Flows[t] = Saved(t) - DebtService(t)
      <4>1. \A a, c, o, d \in Int : a + c - o - d = (a + c - o) - d
        OBVIOUS
      <4> QED BY <1>1, <1>5, <1>6, <3>1, <4>1 DEF Saved
    <3> HIDE DEF flows
    <3> QED BY <1>2, <3>2
  <2> QED BY <2>3
<1>10. \A t \in 0..n : flows[t] \in Int
  <2>1. \A t \in 0..n : t = 0 \/ t \in 1..n
    BY <1>1
  <2> HIDE DEF n, flows
  <2> QED BY <1>6, <1>7, <1>8, <1>9, <2>1
<1>11. Horizon(flows) = n
  BY <1>1, <1>8, HorizonLemma
<1> QED BY <1>1, <1>2, <1>4, <1>6, <1>7, <1>8, <1>9, <1>10, <1>11

\* What a sale in some year brings, undiscounted, is what is reckoned without
\* the rows of the loan.
LEMMA SaleLemma ==
  ASSUME IInv, Money, ~Absent("finance"),
         NEW s \in SaleScenarioInputs, NEW year \in Nat \ {0}
  PROVE  /\ SaleReckoned(s, year) \in Int
         /\ Npv(1, AtSale(artifacts["finance"], year, s, Payoff)) = Unit * SaleReckoned(s, year)
<1> DEFINE n == given.financial.years
           flows == artifacts["finance"]
           sold == Least(year, n)
           A == AtSale(flows, year, s, Payoff)
           up == Uplift(s, sold)
           closing == Closing(s, sold)
           saved == [t \in 1..sold |->
                       years[t].avoidance + years[t].credit - given.financial.opex]
           debt == [t \in Nat |-> DebtService(t)]
           pay == [i \in DOMAIN rows |-> rows[i].payment]
           int == [i \in DOMAIN rows |-> rows[i].interest]
           pri == [i \in DOMAIN rows |-> rows[i].principal]
           M == MonthsThrough(sold)
<1>1. /\ n \in Nat \ {0} /\ Len(rows) = Term
      /\ Horizon(flows) = n /\ Upfront \in Nat /\ flows[0] = -Upfront
      /\ \A t \in 1..n : Saved(t) \in Int /\ DebtService(t) \in Int
                         /\ flows[t] = Saved(t) - DebtService(t)
      /\ \A t \in 0..n : flows[t] \in Int
  BY FlowsLemma
<1>2. sold \in 1..n /\ sold \in Nat /\ sold = Least(year, Horizon(flows))
  BY <1>1 DEF Least
<1>3. up \in Int /\ closing \in Int
  <2>1. s.uplift \in Nat /\ s.decay \in Nat /\ s.closing \in Nat /\ Part \in Nat \ {0}
    BY FinanceAssumption DEF SaleScenarioInputs
  <2>2. \A x \in Int : x \div Part \in Int
    BY <2>1
  <2>3. s.decay * (sold - 1) \in Int
    BY <1>2, <2>1
  <2>4. Positive(Part - s.decay * (sold - 1)) \in Int
    BY <2>1, <2>3 DEF Positive
  <2>5. up \in Int
    <3>1. s.uplift \div Part \in Int
      BY <2>1, <2>2
    <3>2. \A x, y \in Int : x * y \in Int
      OBVIOUS
    <3> QED BY <2>4, <3>1, <3>2 DEF Uplift
  <2> HIDE DEF up
  <2>6. closing = (up \div Part) * s.closing
    BY DEF Closing, up
  <2>7. up \div Part \in Int
    BY <2>2, <2>5
  <2> QED BY <2>1, <2>5, <2>6, <2>7
<1>4. Payoff[sold] \in Int
      /\ SumOver(M, pri) + Payoff[sold] = IF Term = 0 THEN 0 ELSE given.financial.loan.principal
  BY <1>1, <1>2, PayoffLemma
<1> DEFINE X == up - closing - Payoff[sold]
<1>5. X \in Int
  BY <1>3, <1>4
<1>6. A = [t \in 0..sold |-> IF t < sold THEN flows[t] ELSE flows[sold] + up - closing - Payoff[sold]]
  <2> HIDE DEF flows, sold
  <2>1. A = [t \in 0..sold |-> IF t < sold THEN flows[t]
                               ELSE flows[t] + Uplift(s, sold) - Closing(s, sold) - Payoff[sold]]
    BY <1>2 DEF AtSale
  <2>2. \A t \in 0..sold : ~(t < sold) => t = sold
    BY <1>2
  <2> HIDE DEF A
  <2> QED BY <2>1, <2>2
<1> HIDE DEF A, up, closing, flows, sold, n, M
<1>7. /\ DOMAIN A = 0..sold /\ A[sold] = flows[sold] + X
      /\ \A t \in 0..sold : t # sold => A[t] = flows[t]
      /\ \A t \in 0..sold : flows[t] \in Int
  <2>1. DOMAIN A = 0..sold
    BY <1>6
  <2>2. A[sold] = flows[sold] + up - closing - Payoff[sold]
    BY <1>2, <1>6
  <2>3. \A t \in 0..sold : t \in 0..n
    BY <1>1, <1>2
  <2>4. \A f, u, c, p \in Int : f + u - c - p = f + (u - c - p)
    OBVIOUS
  <2>5. A[sold] = flows[sold] + X
    <3>1. flows[sold] \in Int
      BY <1>1, <1>2, <2>3
    <3> QED BY <1>3, <1>4, <2>2, <2>4, <3>1
  <2>6. \A t \in 0..sold : t # sold => A[t] = flows[t]
    <3>1. \A t \in 0..sold : t # sold => t < sold
      BY <1>2
    <3> QED BY <1>6, <3>1
  <2> QED BY <1>1, <2>1, <2>3, <2>5, <2>6
<1> HIDE DEF X
<1>8. sold \in 0..sold /\ 0 \in 0..sold /\ 1..sold = (0..sold) \ {0} /\ IsFiniteSet(0..sold)
      /\ IsFiniteSet(1..sold) /\ IsFiniteSet((0..sold) \ {sold})
  <2>1. sold \in 0..sold /\ 0 \in 0..sold /\ 1..sold = (0..sold) \ {0}
    BY <1>2
  <2>2. IsFiniteSet(0..sold) /\ IsFiniteSet(1..sold)
    BY <1>2, FS_Interval
  <2>3. IsFiniteSet((0..sold) \ {sold})
    BY <2>2, FS_Subset
  <2> QED BY <2>1, <2>2, <2>3
<1>9. SumOver(0..sold, A) = SumOver(0..sold, flows) + X
  <2>1. \A t \in 0..sold : A[t] \in Int
    BY <1>5, <1>7
  <2>2. SumOver(0..sold, A) = A[sold] + SumOver((0..sold) \ {sold}, A)
    BY <1>8, <2>1, SumTakeOut
  <2>3. SumOver(0..sold, flows) = flows[sold] + SumOver((0..sold) \ {sold}, flows)
    BY <1>7, <1>8, SumTakeOut
  <2>4. SumOver((0..sold) \ {sold}, A) = SumOver((0..sold) \ {sold}, flows)
    <3>1. \A t \in (0..sold) \ {sold} : A[t] = flows[t] /\ A[t] \in Int
      BY <1>7, <2>1
    <3> QED BY <1>8, <3>1, SumSame
  <2>5. SumOver((0..sold) \ {sold}, flows) \in Int
    <3>1. \A t \in (0..sold) \ {sold} : flows[t] \in Int
      BY <1>7
    <3> QED BY <1>8, <3>1, SumType
  <2>6. \A f, x, r \in Int : (f + x) + r = (f + r) + x
    OBVIOUS
  <2>7. flows[sold] \in Int
    BY <1>7, <1>8
  <2> QED BY <1>5, <1>7, <2>2, <2>3, <2>4, <2>5, <2>6, <2>7
<1>10. SumOver(0..sold, flows) = -Upfront + SumOver(1..sold, flows)
  <2>1. SumOver(0..sold, flows) = flows[0] + SumOver((0..sold) \ {0}, flows)
    BY <1>7, <1>8, SumTakeOut
  <2> QED BY <1>1, <1>8, <2>1
<1>11. \A t \in 1..sold : /\ flows[t] \in Int /\ debt[t] \in Int /\ saved[t] \in Int
                          /\ saved[t] = flows[t] + debt[t]
  <2>1. \A t \in 1..sold : t \in 1..n /\ t \in Nat
    BY <1>1, <1>2
  <2>2. \A t \in 1..sold : saved[t] = Saved(t) /\ debt[t] = DebtService(t)
    BY <2>1 DEF Saved
  <2>3. \A x, y, z \in Int : z = x - y => x = z + y
    OBVIOUS
  <2>4. ASSUME NEW t \in 1..sold
        PROVE  flows[t] \in Int /\ debt[t] \in Int /\ saved[t] \in Int /\ saved[t] = flows[t] + debt[t]
    <3>1. /\ Saved(t) \in Int /\ DebtService(t) \in Int /\ flows[t] = Saved(t) - DebtService(t)
      BY <1>1, <2>1
    <3> HIDE DEF saved, debt
    <3> QED BY <2>2, <2>3, <3>1
  <2> QED BY <2>4
<1>12. SumOver(1..sold, saved) = SumOver(1..sold, flows) + SumOver(1..sold, debt)
  <2> HIDE DEF saved, debt
  <2> QED BY <1>8, <1>11, SumPlus
<1>13. SumOver(1..sold, debt) = SumOver(M, pay)
  BY <1>2, ServiceLemma DEF M
<1>14. /\ IsFiniteSet(M)
       /\ \A i \in M : /\ pri[i] \in Int /\ int[i] \in Int /\ pay[i] = pri[i] + int[i]
  <2>1. M \subseteq DOMAIN rows
    BY DEF M, MonthsThrough
  <2>2. IsFiniteSet(M)
    BY <2>1, RowTypes, FS_Subset
  <2>3. \A i \in DOMAIN rows : rows[i].payment = rows[i].principal + rows[i].interest
    BY DEF Money, Amortized
  <2> QED BY <2>1, <2>2, <2>3, RowTypes
<1>15. SumOver(M, pay) = SumOver(M, pri) + SumOver(M, int)
  <2> HIDE DEF pay, pri, int
  <2> QED BY <1>14, SumPlus
<1>16. SumOver(M, pri) \in Int /\ SumOver(M, int) \in Int /\ SumOver(1..sold, flows) \in Int
       /\ SumOver(0..sold, flows) \in Int /\ SumOver(0..sold, A) \in Int
  <2> HIDE DEF pri, int
  <2>1. SumOver(M, pri) \in Int /\ SumOver(M, int) \in Int
    BY <1>14, SumType
  <2>2. SumOver(1..sold, flows) \in Int
    BY <1>8, <1>11, SumType
  <2>3. SumOver(0..sold, flows) \in Int
    BY <1>7, <1>8, SumType
  <2> QED BY <1>5, <1>9, <2>1, <2>2, <2>3
<1>17. InterestThrough(sold) = SumOver(M, int)
  BY DEF InterestThrough, M, MonthsThrough
<1> DEFINE owed == IF Term = 0 THEN 0 ELSE given.financial.loan.principal + InterestThrough(sold)
<1>18. owed = (SumOver(M, pri) + Payoff[sold]) + SumOver(M, int)
  <2>1. CASE Term = 0
    <3>1. M = {}
      <4>1. DOMAIN rows = {}
        BY <1>1, <2>1, RowTypes
      <4> QED BY <4>1 DEF M, MonthsThrough
    <3>2. SumOver(M, int) = 0
      BY <3>1, SumEmpty
    <3> QED BY <1>4, <2>1, <3>2
  <2>2. CASE Term # 0
    BY <1>4, <1>17, <2>2
  <2> QED BY <2>1, <2>2
<1>19. SaleReckoned(s, year) = SumOver(1..sold, saved) - Upfront + up - closing - owed
  <2>1. sold = Least(year, given.financial.years)
    BY DEF sold, n
  <2> QED BY <2>1 DEF SaleReckoned, up, closing
<1>20. SaleReckoned(s, year) = SumOver(0..sold, A)
  <2>1. \A F, D, P, J, Y, U, u, c \in Int :
          D = P + J => (F + D) - U + u - c - ((P + Y) + J) = ((-U) + F) + (u - c - Y)
    OBVIOUS
  <2> HIDE DEF saved, debt, pay, pri, int, owed
  <2> DEFINE F == SumOver(1..sold, flows)
             D == SumOver(1..sold, debt)
             P == SumOver(M, pri)
             J == SumOver(M, int)
             Y == Payoff[sold]
  <2>2. F \in Int /\ D = P + J /\ P \in Int /\ J \in Int /\ Y \in Int /\ D \in Int
    BY <1>4, <1>13, <1>15, <1>16
  <2>3. SaleReckoned(s, year) = (F + D) - Upfront + up - closing - ((P + Y) + J)
    BY <1>12, <1>18, <1>19
  <2>4. SumOver(0..sold, A) = ((-Upfront) + F) + (up - closing - Y)
    BY <1>9, <1>10 DEF X
  <2> HIDE DEF F, D, P, J, Y
  <2>5. Upfront \in Int
    BY <1>1
  <2>6. (F + D) - Upfront + up - closing - ((P + Y) + J)
          = ((-Upfront) + F) + (up - closing - Y)
    BY <1>3, <2>1, <2>2, <2>5
  <2> QED BY <2>3, <2>4, <2>6
<1>21. Npv(1, A) = Unit * SumOver(0..sold, A)
  <2>1. \A t \in 0..sold : A[t] \in Int
    BY <1>5, <1>7
  <2> QED BY <1>2, <1>7, <2>1, PlainNpv
<1> QED BY <1>16, <1>20, <1>21 DEF A, flows

\* The flows and the balances of every run cut the loan at the same months.
LEMMA SettlesLemma == IInv /\ Money => SaleSettlesTheLoan
<1> SUFFICES ASSUME IInv, Money, ~Absent("finance")
             PROVE  /\ 0 < Term /\ Term <= given.financial.years * Months => Last(rows).balance = 0
                    /\ \A s \in SaleScenarios :
                         ExpectedSale(1, artifacts["finance"], s, Payoff)
                           = Unit * SumOver(DOMAIN s.odds, [i \in DOMAIN s.odds |->
                                              s.odds[i].weight * SaleReckoned(s, s.odds[i].year)])
  BY DEF SaleSettlesTheLoan
<1>1. 0 < Term => Last(rows).balance = 0
  <2> SUFFICES ASSUME 0 < Term PROVE Last(rows).balance = 0
    OBVIOUS
  <2>1. Len(rows) = Term
    BY FlowsLemma
  <2>2. Term \in DOMAIN rows
    BY <2>1, RowTypes
  <2>3. rows[Term].balance = 0
    BY <2>2 DEF Money, Amortized
  <2> QED BY <2>1, <2>3 DEF Last
<1>2. ASSUME NEW s \in SaleScenarios
      PROVE  ExpectedSale(1, artifacts["finance"], s, Payoff)
               = Unit * SumOver(DOMAIN s.odds, [i \in DOMAIN s.odds |->
                                  s.odds[i].weight * SaleReckoned(s, s.odds[i].year)])
  <2>1. s \in SaleScenarioInputs
    BY EngineAssumption
  <2>2. s.odds \in Seq([year : Nat \ {0}, weight : Nat])
    BY <2>1 DEF SaleScenarioInputs
  <2>3. IsFiniteSet(DOMAIN s.odds)
    <3>1. Len(s.odds) \in Nat /\ DOMAIN s.odds = 1..Len(s.odds)
      BY <2>2
    <3> QED BY <3>1, FS_Interval
  <2>4. \A i \in DOMAIN s.odds : s.odds[i].year \in Nat \ {0} /\ s.odds[i].weight \in Nat
    <3>1. \A i \in DOMAIN s.odds : s.odds[i] \in [year : Nat \ {0}, weight : Nat]
      BY <2>2, Element
    <3> QED BY <3>1
  <2> DEFINE f == [i \in DOMAIN s.odds |-> s.odds[i].weight * SaleReckoned(s, s.odds[i].year)]
             h == [i \in DOMAIN s.odds |->
                     s.odds[i].weight
                       * Npv(1, AtSale(artifacts["finance"], s.odds[i].year, s, Payoff))]
  <2>5. ASSUME NEW i \in DOMAIN s.odds PROVE f[i] \in Int /\ h[i] = Unit * f[i]
    <3> DEFINE w == s.odds[i].weight
               r == SaleReckoned(s, s.odds[i].year)
               v == Npv(1, AtSale(artifacts["finance"], s.odds[i].year, s, Payoff))
    <3>1. w \in Int /\ r \in Int /\ v = Unit * r
      BY <2>1, <2>4, SaleLemma
    <3>2. f[i] = w * r /\ h[i] = w * v
      OBVIOUS
    <3>3. Unit \in Int
      BY FinanceAssumption
    <3> HIDE DEF f, h, w, r, v
    <3>4. \A x, y, z \in Int : x * (y * z) = y * (x * z)
      OBVIOUS
    <3> QED BY <3>1, <3>2, <3>3, <3>4
  <2>6. ExpectedSale(1, artifacts["finance"], s, Payoff) = SumOver(DOMAIN s.odds, h)
    BY DEF ExpectedSale
  <2> HIDE DEF f, h
  <2>7. Unit \in Int
    BY FinanceAssumption
  <2>8. SumOver(DOMAIN s.odds, h) = Unit * SumOver(DOMAIN s.odds, f)
    BY <2>3, <2>5, <2>7, SumTimes
  <2> QED BY <2>6, <2>8 DEF f
<1> QED BY <1>1, <1>2

\* Whatever loan, whatever rates of its months and whatever years a home may be
\* sold in, the loan is paid exactly once.
THEOREM SaleSettles == Spec => []SaleSettlesTheLoan
BY SettlesLemma, Invariance, MoneyInvariance, PTL

----------------------------------------------------------------------------
\* The headline metrics

\* Without a loan no year has debt service.
LEMMA NoService ==
  ASSUME IInv, Money, given.financial.loan = None, Len(rows) = Term
  PROVE  \A t : DebtService(t) = 0
<1>1. rows = <<>>
  <2>1. Term = 0 /\ rows \in Seq(RowRecord)
    BY DEF Term, IInv, TypeOK
  <2> QED BY <2>1
<1> TAKE t
<1> DEFINE S == {i \in DOMAIN rows : (t - 1) * Months < i /\ i <= t * Months}
<1>2. S = {}
  BY <1>1
<1>3. DebtService(t) = SumOver(S, [i \in DOMAIN rows |-> rows[i].payment])
  BY DEF DebtService, Payments
<1> HIDE DEF S
<1> QED BY <1>2, <1>3, SumEmpty

\* A run whose panels only ever replace a flat rate has a year like any other:
\* its flows, its bill and the energy of its years are of one rate.
LEMMA SelfUseLemma ==
  ASSUME IInv, Money, ~Absent("finance"), Unexported
  PROVE  LET f == given.financial
         IN /\ f.cost \in Nat /\ given.schedule.rate \in Nat
            /\ SelfUse(artifacts["finance"], f.years, f.cost, f.opex, given.schedule.rate,
                       [t \in DOMAIN years |-> years[t].energy])
            /\ BillKwh(Baseline) \in Nat \ {0}
            /\ BillEnergy(Baseline) = given.schedule.rate * BillKwh(Baseline)
<1> DEFINE n == given.financial.years
           opex == given.financial.opex
           cost == given.financial.cost
           rate == given.schedule.rate
           flows == artifacts["finance"]
           energy == [t \in DOMAIN years |-> years[t].energy]
<1>1. /\ n \in Nat \ {0} /\ DOMAIN years = 1..n /\ Len(rows) = Term
      /\ DOMAIN flows = 0..n /\ flows[0] = -Upfront /\ Upfront \in Nat
      /\ \A t \in 1..n : flows[t] = Saved(t) - DebtService(t)
  BY FlowsLemma
<1>2. opex \in Nat /\ Upfront = cost
  BY FinancialTypes DEF IInv, Unexported, Upfront
<1>3. \A t \in 1..n : DebtService(t) = 0
  BY <1>1, NoService DEF Unexported
<1>4. ASSUME NEW t \in 1..n
      PROVE  /\ given.schedule \in Schedule
             /\ years[t].avoidance \in Int /\ years[t].credit \in Int
             /\ years[t].avoidance + years[t].credit = rate * years[t].energy
             /\ years[t].energy \in Nat /\ BillKwh(Baseline) \in Nat
             /\ years[t].energy <= BillKwh(Baseline)
             /\ BillEnergy(Baseline) = rate * BillKwh(Baseline)
  <2> DEFINE load == artifacts["consumption"]
             made == FinanceProduction(t)
             s == given.schedule
             export == given.export
  <2>1. t \in DOMAIN years
    BY <1>1
  <2>2. /\ s \in Schedule /\ load \in [Hour -> Int] /\ made \in [Hour -> Nat]
        /\ YearNet(t) = NetOf(load, made) /\ Billable(load, s, export, YearNet(t))
        /\ years[t] = YearTerms(load, made, s, export)
    BY <2>1, YearFacts
  <2>3. years[t].avoidance \in Int /\ years[t].credit \in Int
    BY <2>1, YearFacts DEF YearRecord
  <2>4. s.structure = "flat" /\ \A h \in Hour : NetOf(load, made)[h] >= 0
    BY <2>1, <2>2 DEF Unexported
  <2>5. Baseline = AnnualBill(s, load)
    BY DEF Baseline
  <2> HIDE DEF load, made, s, export
  <2>6. LET terms == YearTerms(load, made, s, export)
            bill  == AnnualBill(s, load)
            kwh   == SumOver(Month, [m \in Month |-> bill[m].kwh])
        IN /\ terms.avoidance + terms.credit = s.rate * terms.energy
           /\ terms.energy \in Nat /\ kwh \in Nat /\ terms.energy <= kwh
           /\ SumOver(Month, [m \in Month |-> bill[m].energy]) = s.rate * kwh
    BY <2>2, <2>4, SelfConsumption
  <2> QED BY <2>2, <2>3, <2>5, <2>6 DEF BillKwh, BillEnergy, s
<1>5. rate \in Nat
  <2>1. 1 \in 1..n
    BY <1>1
  <2>2. given.schedule \in Schedule /\ given.schedule.structure = "flat"
    BY <1>4, <2>1 DEF Unexported
  <2> QED BY <2>2 DEF Schedule
<1>6. BillKwh(Baseline) \in Nat \ {0} /\ BillEnergy(Baseline) = rate * BillKwh(Baseline)
  <2>1. PICK t \in DOMAIN years : years[t].energy # 0
    BY DEF Money, Amortized
  <2>2. /\ years[t].energy \in Nat /\ BillKwh(Baseline) \in Nat
        /\ years[t].energy <= BillKwh(Baseline)
        /\ BillEnergy(Baseline) = rate * BillKwh(Baseline)
    BY <1>1, <1>4, <2>1
  <2> QED BY <2>1, <2>2
<1>7. SelfUse(flows, n, cost, opex, rate, energy)
  <2>1. DOMAIN energy = 1..n /\ \A t \in 1..n : energy[t] = years[t].energy /\ energy[t] \in Nat
    BY <1>1, <1>4
  <2>2. ASSUME NEW t \in 1..n PROVE flows[t] = rate * energy[t] - opex
    <3> DEFINE a == years[t].avoidance + years[t].credit
               b == rate * energy[t]
    <3>1. flows[t] = Saved(t) - DebtService(t) /\ DebtService(t) = 0
      BY <1>1, <1>3
    <3>2. Saved(t) = a - opex
      <4>1. \A i, j, k \in Int : i + j - k = (i + j) - k
        OBVIOUS
      <4> QED BY <1>2, <1>4, <4>1 DEF Saved
    <3>3. a = b
      BY <1>4, <2>1
    <3>4. b \in Int
      <4>1. \A i, j \in Int : i * j \in Int
        OBVIOUS
      <4>2. rate \in Int /\ energy[t] \in Int
        BY <1>5, <2>1
      <4> QED BY <4>1, <4>2
    <3> HIDE DEF a, b, flows, n
    <3>5. flows[t] = b - opex
      BY <1>2, <3>1, <3>2, <3>3, <3>4
    <3> QED BY <3>5 DEF b
  <2> HIDE DEF flows, energy
  <2> QED BY <1>1, <1>2, <2>1, <2>2 DEF SelfUse
<1>8. cost \in Nat
  BY <1>1, <1>2
<1> QED BY <1>5, <1>6, <1>7, <1>8

\* NPV, MIRR, payback, IRR and the crossover are reckoned each in its own way
\* from the flows of the run, and say the same of it.
LEMMA HeadlinesLemma == IInv /\ Money => HeadlinesAgree
<1> SUFFICES ASSUME IInv, Money, ~Absent("finance") PROVE HeadlinesAgree
  BY DEF HeadlinesAgree
<1> DEFINE f == given.financial
           n == f.years
           r == f.discount
           flows == artifacts["finance"]
           pays == Npv(r, flows) >= 0
           mirr == Mirr(r, r, flows)
           back == Payback(r, flows) # None
           lcoe == Lcoe(r, f.cost, f.opex, [t \in DOMAIN years |-> years[t].energy])
<1>1. /\ n \in Nat \ {0} /\ DOMAIN flows = 0..n /\ Horizon(flows) = n
      /\ \A t \in 0..n : flows[t] \in Int
  BY FlowsLemma
<1>2. r \in Nat \ {0} /\ f.opex \in Nat /\ f.escalation \in Nat \ {0}
  BY FinancialTypes DEF IInv, FinancialInputs
<1>3. Exact(r, n) /\ None \notin Int
  BY EngineAssumption DEF Exact, IInv, InputsOK
<1>4. n \in Nat
  BY <1>1
<1>5. Conventional(flows) => Pays(flows, n)
  BY <1>1 DEF Conventional, Pays
<1>6. mirr # None => (pays <=> Unit * mirr.earned >= AlternativeWealth(mirr.paid, r, n)[n])
  <2> HIDE DEF n, r, flows
  <2> QED BY <1>1, <1>2, <1>3, <1>4, MirrAgrees
<1>7. (pays => back) /\ (Conventional(flows) => (back => pays))
  <2> HIDE DEF n, r, flows
  <2>1. /\ Npv(r, flows) >= 0 => Payback(r, flows) # None
        /\ Pays(flows, n) /\ Payback(r, flows) # None => Npv(r, flows) >= 0
    BY <1>1, <1>2, <1>3, <1>4, PaybackAgrees
  <2> QED BY <1>5, <2>1
<1>8. ASSUME Conventional(flows), bracket # None
      PROVE  /\ Grid * r <= bracket.low => pays
             /\ Grid * r >= bracket.high => Npv(r, flows) <= 0
  <2> DEFINE low == bracket.low
             high == bracket.high
  <2>1. flows = Flows
    BY DEF Money, Amortized
  <2>2. bracket \in Bracket /\ Low <= low /\ low <= high /\ ~SameSide(low, high, flows)
    BY <1>8, <2>1 DEF IInv, TypeOK, RootIsBracketed
  <2>3. low \in Nat \ {0} /\ high \in Nat \ {0}
    <3>1. low \in Nat /\ high \in Nat
      BY <2>2 DEF Bracket
    <3> HIDE DEF low, high
    <3> QED BY <2>2, <3>1, FinanceAssumption
  <2>4. Pays(flows, n)
    BY <1>5, <1>8
  <2> HIDE DEF n, r, flows, low, high
  <2>5. /\ Grid * r <= low => Npv(r, flows) >= 0
        /\ Grid * r >= high => Npv(r, flows) <= 0
    BY <1>1, <1>2, <1>3, <1>4, <2>2, <2>3, <2>4, BracketAgrees
  <2> QED BY <2>5 DEF low, high
<1>9. ASSUME Unexported PROVE pays <=> Crossover(lcoe, Baseline, f.escalation, n) = 1
  <2> DEFINE energy == [t \in DOMAIN years |-> years[t].energy]
             rate == given.schedule.rate
             cost == f.cost
             opex == f.opex
             growth == f.escalation
             bill == Baseline
  <2>1. /\ f.cost \in Nat /\ rate \in Nat
        /\ SelfUse(flows, n, f.cost, f.opex, rate, energy)
        /\ BillKwh(Baseline) \in Nat \ {0} /\ BillEnergy(Baseline) = rate * BillKwh(Baseline)
    BY <1>9, SelfUseLemma
  <2>2. lcoe = Lcoe(r, f.cost, f.opex, energy)
    OBVIOUS
  <2>3. opex \in Nat /\ growth \in Nat \ {0} /\ r \in Nat \ {0} /\ n \in Nat \ {0}
    BY <1>1, <1>2
  <2>4. /\ cost \in Nat /\ rate \in Nat
        /\ SelfUse(flows, n, cost, opex, rate, energy)
        /\ BillKwh(bill) \in Nat \ {0} /\ BillEnergy(bill) = rate * BillKwh(bill)
    BY <2>1
  <2> HIDE DEF n, r, flows, energy, rate, lcoe, cost, opex, growth, bill
  <2>5. Npv(r, flows) >= 0 <=> Crossover(Lcoe(r, cost, opex, energy), bill, growth, n) = 1
    BY <1>3, <2>3, <2>4, CrossoverAgrees
  <2> QED BY <2>2, <2>5 DEF cost, opex, growth, bill
<1> QED BY <1>6, <1>7, <1>8, <1>9 DEF HeadlinesAgree

\* In every run the headline metrics agree about whether the project pays.
THEOREM HeadlinesHold == Spec => []HeadlinesAgree
BY HeadlinesLemma, Invariance, MoneyInvariance, PTL
=============================================================================
