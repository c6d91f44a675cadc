------------------------------- MODULE Analysis -------------------------------
(***************************************************************************)
(* The wrappers around a finished forecast: the tornado table and the      *)
(* Monte Carlo fan.  Both take the state run_forecast returned and run the *)
(* finance step again, with one input moved or with all of them drawn.     *)
(*                                                                         *)
(* Weather and cost move by halves, the other inputs by whole steps.       *)
(***************************************************************************)
EXTENDS Forecast

CONSTANTS
  Sensitivities,            \* TornadoSensitivity: how far each axis moves
  Draws,                    \* what the generator may return for a path
  WeatherMin,               \* MonteCarloSampling, in halves
  LossMin, LossCap,         \* annual_loss_min and _ANNUAL_LOSS_CAP
  EscalationBounds,         \* _RATE_ESCALATION_BOUNDS
  Paths                     \* n, the number of paths

VARIABLE call               \* the one call of a wrapper, None before

avars == <<vars, call>>

\* _AXES
AXES == <<"weather", "rate_escalation", "annual_loss",
          "hold_years", "system_cost", "discount_rate">>

AxisName == {AXES[i] : i \in DOMAIN AXES}

ASSUME AnalysisAssumption ==
  /\ Paths \in Nat \ {0}
  /\ Sensitivities \subseteq [AxisName -> Nat]
  /\ \A s \in Sensitivities : s["weather"] \in {0, 1} /\ s["system_cost"] \in {0, 1}
  /\ Draws \subseteq [weather : Int, escalation : Int, loss : Int, jitter : Int]
  /\ WeatherMin \in Nat /\ LossMin \in Nat /\ LossCap \in Nat
  /\ \A y \in Yields : \A h \in Hour : y[h] % (2 * Scale) = 0

Greatest(x, y) == IF x >= y THEN x ELSE y

----------------------------------------------------------------------------
\* run_finance over a bundle of its arguments (_AxisInputs)

Baseline0 == [dc |-> artifacts["dc_production"], loss |-> AnnualLoss,
              hold |-> given.financial.years, financial |-> given.financial]

\* _scaled_dc
Scaled(dc, halves) == [h \in Hour |-> (dc[h] * halves) \div 2]

BundleProduction(b, t) == Derated(b.dc, LinearCurve(b.loss, t))

\* run_finance raises: the curve is shorter than the horizon, the tariff has a
\* gap, or no year yields energy
Fails(b) ==
  \/ b.hold < b.financial.years
  \/ Uncovered(given.schedule, artifacts["consumption"])
  \/ \E t \in 1..b.financial.years :
       /\ given.export # None
       /\ CreditRaises(given.export, given.schedule,
                       NetOf(artifacts["consumption"], BundleProduction(b, t)))
  \/ \A t \in 1..b.financial.years : \A h \in Hour : BundleProduction(b, t)[h] = 0

\* per_year_cashflow; no axis moves a term of the loan
FlowsOf(b) ==
  [t \in 0..b.financial.years |->
     IF t = 0 THEN IF b.financial.loan = None THEN -b.financial.cost ELSE -b.financial.loan.down
     ELSE LET y == YearTerms(artifacts["consumption"], BundleProduction(b, t),
                             given.schedule, given.export)
          IN y.avoidance + y.credit - b.financial.opex - DebtService(t)]

\* _evaluate_npv
NpvOf(b) == Npv(b.financial.discount, FlowsOf(b))

\* what both wrappers ask of the state they are given
Refuses ==
  given.financial.cost = None \/ given.schedule = None \/ Absent("dc_production")

\* bound: the walk of a loan is the forecast's (Payments), so a household with a
\* loan goes to the wrappers only if its forecast had the finance step
LoanIsWalked == given.financial.loan = None \/ ~Absent("finance")

\* run_forecast has returned
Ready ==
  /\ ~raised /\ Step = "done" /\ call = None
  /\ UNCHANGED vars

Refuse ==
  /\ Ready /\ Refuses
  /\ \E w \in {"tornado", "monte_carlo"} : call' = [of |-> w, status |-> "raised"]

----------------------------------------------------------------------------
\* run_tornado

\* mutant of Perturbed: the hold axis keeps the curve of the baseline
PerturbedCurveKept(b, axis, by) ==
  CASE axis = "weather"         -> [b EXCEPT !.dc = Scaled(b.dc, 2 + by)]
    [] axis = "rate_escalation" -> [b EXCEPT !.financial.escalation = @ + by]
    [] axis = "annual_loss"     -> [b EXCEPT !.loss = Positive(@ + by)]
    [] axis = "hold_years"      -> [b EXCEPT !.financial.years = Greatest(1, @ + by)]
    [] axis = "system_cost"     -> [b EXCEPT !.financial.cost = (@ * (2 + by)) \div 2]
    [] axis = "discount_rate"   -> [b EXCEPT !.financial.discount = Greatest(1, @ + by)]

\* one axis moved by a signed step; a growth of 1 is a rate of 0
Perturbed(b, axis, by) ==
  CASE axis = "weather"         -> [b EXCEPT !.dc = Scaled(b.dc, 2 + by)]
    [] axis = "rate_escalation" -> [b EXCEPT !.financial.escalation = @ + by]
    [] axis = "annual_loss"     -> [b EXCEPT !.loss = Positive(@ + by)]
    [] axis = "hold_years"      -> LET hold == Greatest(1, b.financial.years + by)
                                   IN [b EXCEPT !.hold = hold, !.financial.years = hold]
    [] axis = "system_cost"     -> [b EXCEPT !.financial.cost = (@ * (2 + by)) \div 2]
    [] axis = "discount_rate"   -> [b EXCEPT !.financial.discount = Greatest(1, @ + by)]

\* the table starts with the baseline, which the run's own inputs may fail
StartTornado ==
  /\ Ready /\ ~Refuses /\ LoanIsWalked
  /\ \E s \in Sensitivities :
       call' = IF Fails(Baseline0) THEN [of |-> "tornado", status |-> "raised"]
               ELSE [of |-> "tornado", status |-> "running", sensitivity |-> s,
                     bundle |-> Baseline0, anchor |-> NpvOf(Baseline0),
                     axis |-> 1, rows |-> <<>>]

Tabulating == call # None /\ call.of = "tornado" /\ call.status = "running"

\* an axis whose delta is zero is left out
SkipAxis ==
  /\ Tabulating /\ call.axis \in DOMAIN AXES
  /\ call.sensitivity[AXES[call.axis]] = 0
  /\ call' = [call EXCEPT !.axis = @ + 1]
  /\ UNCHANGED vars

\* mutant of AfterRow: the axis works on the baseline itself, not on a copy
AfterRowLeaks(high) == high

\* replace(baseline): each axis has a copy of its own
AfterRow(high) == call.bundle

\* an exception of one axis ends the table
TornadoRow ==
  /\ Tabulating /\ call.axis \in DOMAIN AXES
  /\ LET name == AXES[call.axis]
         by   == call.sensitivity[name]
         low  == Perturbed(call.bundle, name, -by)
         high == Perturbed(call.bundle, name, by)
     IN /\ by > 0
        /\ call' = IF Fails(low) \/ Fails(high) THEN [of |-> "tornado", status |-> "raised"]
                   ELSE [call EXCEPT !.axis = @ + 1, !.bundle = AfterRow(high),
                           !.rows = Append(@, [name |-> name, low |-> NpvOf(low),
                                               high |-> NpvOf(high)])]
  /\ UNCHANGED vars

Swing(row) == Greatest(row.high - row.low, row.low - row.high)

\* how many keys come before one, equal ones as they stand: a stable sort
Place(keys, i) ==
  Cardinality({j \in DOMAIN keys : keys[j] < keys[i] \/ (keys[j] = keys[i] /\ j < i)})

InOrder(keys) == [n \in DOMAIN keys |-> CHOOSE i \in DOMAIN keys : Place(keys, i) = n - 1]

\* rows.sort by swing, descending
BySwing(rs) ==
  LET order == InOrder([i \in DOMAIN rs |-> -Swing(rs[i])])
  IN [i \in DOMAIN rs |-> rs[order[i]]]

FinishTornado ==
  /\ Tabulating /\ call.axis = Len(AXES) + 1
  /\ call' = [call EXCEPT !.status = "answered", !.rows = BySwing(@)]
  /\ UNCHANGED vars

----------------------------------------------------------------------------
\* run_monte_carlo

StartMonteCarlo ==
  /\ Ready /\ ~Refuses /\ LoanIsWalked
  /\ call' = [of |-> "monte_carlo", status |-> "running", drawn |-> 0,
              paths |-> <<>>, failed |-> 0, fan |-> None]

Sampling == call # None /\ call.of = "monte_carlo" /\ call.status = "running"

\* the bundle of a path: every draw is clamped
PathBundle(d) ==
  LET hold == Greatest(1, given.financial.years + d.jitter)
  IN [dc        |-> Scaled(artifacts["dc_production"], Greatest(WeatherMin, d.weather)),
      loss      |-> Least(LossCap, Greatest(LossMin, d.loss)),
      hold      |-> hold,
      financial |-> [given.financial EXCEPT
                       !.years = hold,
                       !.escalation = Greatest(EscalationBounds[1],
                                               Least(EscalationBounds[2], d.escalation))]]

PathOf(d) ==
  LET flows    == FlowsOf(PathBundle(d))
      discount == given.financial.discount
  IN [draw |-> d, npv |-> Npv(discount, flows), wealth |-> CumulativeWealth(flows),
      payback |-> Payback(discount, flows)]

\* a path that fails is counted and dropped
DrawPath ==
  /\ Sampling /\ call.drawn < Paths
  /\ \E d \in Draws :
       call' = IF Fails(PathBundle(d))
               THEN [call EXCEPT !.drawn = @ + 1, !.failed = @ + 1]
               ELSE [call EXCEPT !.drawn = @ + 1, !.paths = Append(@, PathOf(d))]
  /\ UNCHANGED vars

\* np.percentile, in tenths: linear between the two nearest ranks
Percentile(values, k) ==
  LET order == InOrder(values)
      place == (Len(values) - 1) * k
      below == values[order[(place \div 10) + 1]]
  IN IF place % 10 = 0 THEN 10 * below
     ELSE 10 * below + (place % 10) * (values[order[(place \div 10) + 2]] - below)

Percentiles(values) ==
  [p10 |-> Percentile(values, 1), p50 |-> Percentile(values, 5), p90 |-> Percentile(values, 9)]

\* mutant of Padded: a path that has ended is worth nothing
PaddedWithZero(wealth, t) == IF t \in DOMAIN wealth THEN wealth[t] ELSE 0

\* _aligned_cumulative: a path that has ended keeps its final value
Padded(wealth, t) == wealth[Least(t, Horizon(wealth))]

Fan(ps) ==
  LET paid    == SelectSeq(ps, LAMBDA p : p.payback # None)
      longest == Max({Horizon(ps[i].wealth) : i \in DOMAIN ps})
  IN [npv     |-> Percentiles([i \in DOMAIN ps |-> ps[i].npv]),
      payback |-> IF paid = <<>> THEN None
                  ELSE Percentiles([i \in DOMAIN paid |-> paid[i].payback]),
      wealth  |-> [t \in 0..longest |->
                     Percentiles([i \in DOMAIN ps |-> Padded(ps[i].wealth, t)])]]

FinishMonteCarlo ==
  /\ Sampling /\ call.drawn = Paths
  /\ call' = IF call.paths = <<>> THEN [call EXCEPT !.status = "raised"]
             ELSE [call EXCEPT !.status = "answered", !.fan = Fan(call.paths)]
  /\ UNCHANGED vars

----------------------------------------------------------------------------

AnalysisInit == Init /\ call = None

AnalysisNext ==
  \/ Next /\ UNCHANGED call
  \/ Refuse
  \/ StartTornado \/ SkipAxis \/ TornadoRow \/ FinishTornado
  \/ StartMonteCarlo \/ DrawPath \/ FinishMonteCarlo

AnalysisSpec == AnalysisInit /\ [][AnalysisNext]_avars

----------------------------------------------------------------------------
\* Properties

Answered(w) == call # None /\ call.of = w /\ call.status = "answered"

\* Where a row may lie around the anchor: the rows of cost and of escalation
\* whatever the household, those of the sun and of the loss where no hour of
\* export is worth less than nothing, and those of the hold and of the discount
\* where no year after the outlay costs anything.
PointsRight(row) ==
  LET by     == call.sensitivity[row.name]
      high   == Perturbed(Baseline0, row.name, by)
      inflow == \A t \in 1..high.financial.years : FlowsOf(high)[t] >= 0
      rising  == row.low <= call.anchor /\ call.anchor <= row.high
      falling == row.high <= call.anchor /\ call.anchor <= row.low
  IN CASE row.name = "weather"         -> CalmExport => rising
       [] row.name = "rate_escalation" -> rising
       [] row.name = "annual_loss"     -> CalmExport => falling
       [] row.name = "hold_years"      -> inflow => rising
       [] row.name = "system_cost"     -> falling
       [] row.name = "discount_rate"   -> inflow => falling

\* A tornado table has one row for every axis that was switched on, the widest
\* swing first and equal ones in the order of the catalogue; each row lies on
\* its right side of the anchor, so no axis is measured on top of another: more
\* cost never raises the NPV, more escalation never lowers it, nor do, where
\* exports are never worth less than nothing, more sun and less loss, and, where
\* no year after the outlay costs anything, a longer hold and less discount.
TornadoPointsRight ==
  Answered("tornado") =>
    LET place(name) == CHOOSE i \in DOMAIN AXES : AXES[i] = name
        on == {i \in DOMAIN AXES : call.sensitivity[AXES[i]] > 0}
    IN /\ {place(call.rows[i].name) : i \in DOMAIN call.rows} = on
       /\ \A i, j \in DOMAIN call.rows : i < j =>
            \/ Swing(call.rows[i]) > Swing(call.rows[j])
            \/ /\ Swing(call.rows[i]) = Swing(call.rows[j])
               /\ place(call.rows[i].name) < place(call.rows[j].name)
       /\ \A i \in DOMAIN call.rows : PointsRight(call.rows[i])

\* Where solar spares the household anything in a later year, a steeper rise of
\* the utility's rates is worth something ("escalation helps",
\* tests/test_engine_tornado.py).
EscalationHelps ==
  Answered("tornado") =>
    \A i \in DOMAIN call.rows :
      /\ call.rows[i].name = "rate_escalation"
      /\ \E t \in 2..given.financial.years :
           YearTerms(artifacts["consumption"], BundleProduction(Baseline0, t),
                     given.schedule, given.export).avoidance > 0
      => call.rows[i].low < call.rows[i].high

\* the wealth of a path at a year, from its flows; it ends with its hold
WealthAt(d, t) ==
  LET flows == FlowsOf(PathBundle(d))
  IN SumOver(0..Least(t, Horizon(flows)), flows)

\* two draws of one hold, the first at least as good in everything else
SameWeatherOrBetter(d, e) ==
  /\ d.jitter = e.jitter /\ d.weather >= e.weather /\ d.loss <= e.loss
  /\ d.escalation >= e.escalation

\* A Monte Carlo fan accounts for every draw: each is a path or is counted as
\* failed; the three lines keep their order and run, in every year, between the
\* poorest and the richest path, ended paths at their terminal wealth; they
\* start at the outlay; and where exports are never worth less than nothing, a
\* path with no more loss, no less sun and no less escalation is worth no less.
FanIsHonest ==
  Answered("monte_carlo") =>
    /\ Len(call.paths) + call.failed = Paths
    /\ \A t \in DOMAIN call.fan.wealth :
         LET at_t == {WealthAt(call.paths[i].draw, t) : i \in DOMAIN call.paths}
             line == call.fan.wealth[t]
         IN /\ 10 * Min(at_t) <= line.p10 /\ line.p10 <= line.p50
            /\ line.p50 <= line.p90 /\ line.p90 <= 10 * Max(at_t)
            /\ t = 0 => line.p10 = -10 * Upfront /\ line.p90 = -10 * Upfront
    /\ \A i, j \in DOMAIN call.paths :
         LET p == call.paths[i]  q == call.paths[j]
         IN CalmExport /\ SameWeatherOrBetter(p.draw, q.draw) => p.npv >= q.npv

\* A wrapper ends with an exception only if the state lacks what it asks for,
\* if the tariff has a gap, if the roof yields nothing, or, sampling, if every
\* path was drawn without sun: no perturbation or draw that the schemas admit
\* takes a household the engine can bill out of the finance step's domain.
WrappersAnswer ==
  call # None /\ call.status = "raised" =>
    \/ Refuses
    \/ /\ given.schedule.structure = "tou"
       /\ \E h \in Hour : TouRate(given.schedule.periods, Calendar[h]) = None
    \/ \A h \in Hour : artifacts["dc_production"][h] = 0
    \/ call.of = "monte_carlo" /\ WeatherMin = 0 /\ call.failed = Paths

\* The tornado is anchored at the forecast's own headline NPV.
AnchorIsHeadline ==
  Answered("tornado") /\ ~Absent("finance") =>
    call.anchor = Npv(given.financial.discount, artifacts["finance"])
=============================================================================
