---------------------------- MODULE AnalysisProofs ----------------------------
(***************************************************************************)
(* Proofs about the wrappers for every forecast, sensitivity and sampling: *)
(* they leave the forecast as it was, what can make one raise, how rows    *)
(* are sorted and samples ranked, on which side of the anchor each row of  *)
(* a tornado lies, and that a fan accounts for every draw.                 *)
(***************************************************************************)
EXTENDS Analysis, ForecastProofs

----------------------------------------------------------------------------
\* The forecast is left alone

\* The wrappers mutate nothing of the state they are given: a forecast with a
\* call on it is a forecast, so that all that is proved of one holds here too.
THEOREM StateIsKept == AnalysisSpec => Spec
<1>1. AnalysisInit => Init
  BY DEF AnalysisInit
<1>2. [AnalysisNext]_avars => [Next]_vars
  <2> SUFFICES ASSUME [AnalysisNext]_avars PROVE [Next]_vars
    OBVIOUS
  <2>1. CASE Refuse \/ StartTornado \/ StartMonteCarlo
    BY <2>1 DEF Refuse, StartTornado, StartMonteCarlo, Ready
  <2>2. CASE SkipAxis \/ TornadoRow \/ FinishTornado
    BY <2>2 DEF SkipAxis, TornadoRow, FinishTornado
  <2>3. CASE DrawPath \/ FinishMonteCarlo
    BY <2>3 DEF DrawPath, FinishMonteCarlo
  <2> QED BY <2>1, <2>2, <2>3 DEF AnalysisNext, avars
<1> QED BY <1>1, <1>2, PTL DEF AnalysisSpec, Spec

\* The bisection keeps its root in the run that goes on to the wrappers.
THEOREM RootKeptBehindCalls == AnalysisSpec => []RootIsBracketed
BY StateIsKept, RootKept, PTL

----------------------------------------------------------------------------
\* What can take a bundle out of the finance step's domain

\* some hour no period of the tariff covers
Gap ==
  /\ given.schedule.structure = "tou"
  /\ \E h \in Hour : TouRate(given.schedule.periods, Calendar[h]) = None

Dark == \A h \in Hour : artifacts["dc_production"][h] = 0

\* The yield is left as the weather made it.
YieldKept == Absent("dc_production") \/ artifacts["dc_production"] = given.yield

\* A sunny hour has a yield of an even number of steps, which scaling by a half
\* or more leaves positive.
LEMMA SunnyHour ==
  ASSUME NEW y \in Nat \ {0}, y % (2 * Scale) = 0, NEW k \in Nat \ {0}
  PROVE  y \div Scale \in Nat \ {0} /\ ((y * k) \div 2) \div Scale \in Nat \ {0}
<1>1. Scale \in Nat /\ Scale > 0
  BY FinanceAssumption
<1> DEFINE s == 2 * Scale
           n == y \div s
<1>2. n \in Nat /\ y = s * n
  <2>1. s \in Nat \ {0} /\ y % s = 0
    BY <1>1
  <2> HIDE DEF s
  <2> QED BY <2>1
<1> HIDE DEF n
<1>3. n > 0 /\ y = Scale * (2 * n)
  BY <1>1, <1>2
<1> DEFINE e == 2 * n
           m == n * k
<1>4. e \in Nat \ {0} /\ m \in Nat \ {0}
  BY <1>2, <1>3
<1>5. \A x \in Nat : (Scale * x) \div Scale = x
  BY <1>1
<1>6. y \div Scale = e
  BY <1>3, <1>4, <1>5
<1>7. y * k = 2 * (Scale * m)
  BY <1>1, <1>2, <1>3
<1> HIDE DEF m
<1>8. Scale * m \in Nat
  BY <1>1, <1>4
<1>9. \A x \in Nat : (2 * x) \div 2 = x
  OBVIOUS
<1>10. (y * k) \div 2 = Scale * m
  BY <1>7, <1>8, <1>9
<1> QED BY <1>4, <1>5, <1>6, <1>10

\* In the first year the panels have lost their first year's loss only.
LEMMA FirstFactor ==
  ASSUME NEW loss \in Int
  PROVE  LinearCurve(loss, 1) \in Nat /\ LinearCurve(loss, 1) > 0
BY EngineAssumption, FinanceAssumption DEF LinearCurve, Positive

\* A bundle whose curve reaches its horizon fails only for a gap in the tariff
\* or for want of any sun.
LEMMA BundleLemma ==
  ASSUME IInv, YieldKept, ~Refuses, ~Gap, ~Dark,
         NEW b, NEW k \in Nat \ {0},
         b.dc \in {artifacts["dc_production"], Scaled(artifacts["dc_production"], k)},
         b.loss \in Int, b.hold = b.financial.years, b.hold \in Nat \ {0}
  PROVE  ~Fails(b)
<1>1. ~(b.hold < b.financial.years)
  OBVIOUS
<1>2. \A kwh : ~Uncovered(given.schedule, kwh)
  BY GapLemma DEF Gap
<1>3. \A net : given.export # None => ~CreditRaises(given.export, given.schedule, net)
  BY <1>2 DEF CreditRaises, Refuses
<1>4. PICK h \in Hour : artifacts["dc_production"][h] # 0
  BY DEF Dark
<1>5. artifacts["dc_production"] = given.yield /\ given.yield \in Yields
  BY DEF YieldKept, Refuses, IInv, InputsOK
<1> DEFINE y == artifacts["dc_production"][h]
<1>6. y \in Nat \ {0} /\ y % (2 * Scale) = 0
  BY <1>4, <1>5, AnalysisAssumption, EngineAssumption
<1>7. b.dc[h] \in {y, (y * k) \div 2}
  BY <1>4 DEF Scaled
<1>8. b.dc[h] \div Scale \in Nat \ {0}
  <2> HIDE DEF y
  <2> QED BY <1>6, <1>7, SunnyHour
<1>9. BundleProduction(b, 1)[h] # 0
  <2> DEFINE m == b.dc[h] \div Scale
  <2>1. m \in Nat \ {0}
    BY <1>8
  <2>2. BundleProduction(b, 1)[h] = m * LinearCurve(b.loss, 1)
    BY <1>4 DEF BundleProduction, Derated
  <2> DEFINE f == LinearCurve(b.loss, 1)
  <2>3. f \in Nat /\ f > 0
    BY FirstFactor
  <2> HIDE DEF f, m
  <2>4. m * f # 0
    BY <2>1, <2>3
  <2> QED BY <2>2, <2>4 DEF f, m
<1>10. 1 \in 1..b.financial.years
  OBVIOUS
<1> QED BY <1>1, <1>2, <1>3, <1>4, <1>9, <1>10 DEF Fails

----------------------------------------------------------------------------
\* The bundles the wrappers build

LEMMA BaselineLemma ==
  ASSUME IInv, YieldKept, ~Refuses, ~Gap, ~Dark
  PROVE  ~Fails(Baseline0)
<1> DEFINE b == Baseline0
<1>1. /\ b.dc = artifacts["dc_production"] /\ b.loss = AnnualLoss
      /\ b.hold = given.financial.years /\ b.financial = given.financial
  BY DEF Baseline0
<1>2. given.financial.years \in Nat \ {0} /\ AnnualLoss \in Nat
  BY EngineAssumption, FinancialTypes DEF IInv
<1> HIDE DEF b
<1> QED BY <1>1, <1>2, BundleLemma DEF b

\* The baseline moved along an axis is such a bundle.
LEMMA PerturbedLemma ==
  ASSUME IInv, YieldKept, ~Refuses, ~Gap, ~Dark,
         NEW s \in Sensitivities, NEW axis \in AxisName,
         NEW by \in {s[axis], -s[axis]}
  PROVE  ~Fails(Perturbed(Baseline0, axis, by))
<1> DEFINE b == Baseline0
           c == Perturbed(Baseline0, axis, by)
<1>1. b = [dc |-> artifacts["dc_production"], loss |-> AnnualLoss,
           hold |-> given.financial.years, financial |-> given.financial]
  BY DEF Baseline0
<1>2. given.financial.years \in Nat \ {0} /\ AnnualLoss \in Nat
  BY EngineAssumption, FinancialTypes DEF IInv
<1>4. s[axis] \in Nat /\ by \in Int
  BY AnalysisAssumption
<1>5. ASSUME axis = "weather" PROVE ~Fails(c)
  <2>1. 2 + by \in Nat \ {0}
    BY <1>4, <1>5, AnalysisAssumption
  <2>2. /\ c.dc = Scaled(artifacts["dc_production"], 2 + by) /\ c.loss = AnnualLoss
        /\ c.hold = given.financial.years /\ c.financial = given.financial
    BY <1>1, <1>5 DEF Perturbed
  <2> HIDE DEF c
  <2> QED BY <1>2, <2>1, <2>2, BundleLemma
<1>6. ASSUME axis = "annual_loss" PROVE ~Fails(c)
  <2>1. /\ c.dc = artifacts["dc_production"] /\ c.loss = Positive(AnnualLoss + by)
        /\ c.hold = given.financial.years /\ c.financial = given.financial
    BY <1>1, <1>6 DEF Perturbed
  <2>2. Positive(AnnualLoss + by) \in Int
    BY <1>2, <1>4 DEF Positive
  <2> HIDE DEF c
  <2> QED BY <1>2, <2>1, <2>2, BundleLemma
<1>7. ASSUME axis = "hold_years" PROVE ~Fails(c)
  <2> DEFINE hold == Greatest(1, given.financial.years + by)
  <2>1. hold \in Nat \ {0}
    BY <1>2, <1>4 DEF Greatest
  <2>2. /\ c.dc = artifacts["dc_production"] /\ c.loss = AnnualLoss
        /\ c.hold = hold /\ c.financial = [given.financial EXCEPT !.years = hold]
    BY <1>1, <1>7 DEF Perturbed
  <2>3. c.financial.years = hold
    BY <2>2, FinancialTypes DEF IInv, InputsOK
  <2>4. c.loss \in Int /\ c.hold = c.financial.years /\ c.hold \in Nat \ {0}
    BY <1>2, <2>1, <2>2, <2>3
  <2>5. c.dc \in {artifacts["dc_production"], Scaled(artifacts["dc_production"], 1)}
    BY <2>2
  <2> HIDE DEF c
  <2> QED BY <2>4, <2>5, BundleLemma
<1>8. ASSUME axis \in {"rate_escalation", "system_cost", "discount_rate"} PROVE ~Fails(c)
  <2>1. /\ c.dc = artifacts["dc_production"] /\ c.loss = AnnualLoss
        /\ c.hold = given.financial.years /\ c.financial.years = given.financial.years
    BY <1>1, <1>8 DEF Perturbed
  <2> HIDE DEF c
  <2> QED BY <1>2, <2>1, BundleLemma
<1>9. axis \in {"weather", "rate_escalation", "annual_loss",
                "hold_years", "system_cost", "discount_rate"}
  BY DEF AxisName, AXES
<1> QED BY <1>5, <1>6, <1>7, <1>8, <1>9

\* So is the bundle of a draw, unless the weather may be clamped to no sun.
LEMMA PathLemma ==
  ASSUME IInv, YieldKept, ~Refuses, ~Gap, ~Dark, WeatherMin # 0, NEW d \in Draws
  PROVE  ~Fails(PathBundle(d))
<1> DEFINE c == PathBundle(d)
           k == Greatest(WeatherMin, d.weather)
           hold == Greatest(1, given.financial.years + d.jitter)
<1>1. /\ d.weather \in Int /\ d.loss \in Int /\ d.jitter \in Int
      /\ WeatherMin \in Nat \ {0} /\ LossMin \in Nat /\ LossCap \in Nat
  BY AnalysisAssumption
<1>2. given.financial.years \in Nat \ {0}
  BY FinancialTypes DEF IInv, InputsOK
<1>3. k \in Nat \ {0} /\ hold \in Nat \ {0}
  BY <1>1, <1>2 DEF Greatest
<1>4. /\ c.dc = Scaled(artifacts["dc_production"], k) /\ c.hold = hold
      /\ c.loss = Least(LossCap, Greatest(LossMin, d.loss))
  BY DEF PathBundle
<1>5. c.financial.years = hold
  <2>1. {"years", "escalation"} \subseteq DOMAIN given.financial
    BY FinancialTypes DEF IInv, FinancialInputs
  <2> DEFINE f == [given.financial EXCEPT !.years = hold]
             e == Greatest(EscalationBounds[1], Least(EscalationBounds[2], d.escalation))
  <2>2. c.financial = [f EXCEPT !.escalation = e]
    BY DEF PathBundle
  <2>3. f.years = hold /\ "years" \in DOMAIN f
    BY <2>1
  <2> HIDE DEF c, f, e
  <2> QED BY <2>2, <2>3
<1>6. c.loss \in Int
  BY <1>1, <1>4 DEF Least, Greatest
<1>7. c.dc \in {artifacts["dc_production"], Scaled(artifacts["dc_production"], k)}
  BY <1>4
<1>8. c.hold = c.financial.years /\ c.hold \in Nat \ {0}
  BY <1>3, <1>4, <1>5
<1> HIDE DEF c, k
<1> QED BY <1>3, <1>6, <1>7, <1>8, BundleLemma DEF c

----------------------------------------------------------------------------
\* The calls

TornadoOK ==
  Tabulating =>
    /\ ~Refuses
    /\ \E s \in Sensitivities : \E anchor, axis, rs :
         call = [of |-> "tornado", status |-> "running", sensitivity |-> s,
                 bundle |-> Baseline0, anchor |-> anchor, axis |-> axis, rows |-> rs]

\* What a sampling has drawn so far adds up, and what failed had its reason.
SamplingOK ==
  Sampling =>
    /\ ~Refuses
    /\ \E X : \E failed \in Nat, paths \in Seq(X) :
         /\ call = [of |-> "monte_carlo", status |-> "running", drawn |-> Len(paths) + failed,
                    paths |-> paths, failed |-> failed, fan |-> None]
         /\ failed > 0 => Gap \/ Dark \/ WeatherMin = 0

\* A call is made on a forecast that has returned, and answers or has a reason.
CallOK ==
  /\ call # None => Step = "done" /\ ~raised
  /\ TornadoOK /\ SamplingOK /\ WrappersAnswer

\* Everything here reads the call and the state it is made on.
LEMMA CallFrame ==
  ASSUME UNCHANGED vars
  PROVE  /\ Step' = Step /\ Baseline0' = Baseline0
         /\ Refuses' = Refuses /\ Gap' = Gap /\ Dark' = Dark
         /\ raised' = raised
BY DEF vars, Step, Baseline0, Refuses, Absent, Gap, Dark

\* Behind a call the forecast stands still.
LEMMA StandsStill == CallOK /\ call # None /\ Next => UNCHANGED vars
<1> SUFFICES ASSUME CallOK, call # None, Next PROVE UNCHANGED vars
  OBVIOUS
<1>1. Step = "done" /\ ~raised
  BY DEF CallOK
<1>2. ~Skip /\ ~Raise
  BY <1>1 DEF Skip, Raise, Raises
<1>3. \A k : Running(k) => k = "done"
  BY <1>1 DEF Running
<1>4. ~Produce /\ ~SnowLoss /\ ~Degrade /\ ~DispatchHour /\ ~Dispatched /\ ~Bill /\ ~Credit
  BY <1>3 DEF Produce, SnowLoss, Degrade, DispatchHour, Dispatched, Bill, Credit
<1>5. ~FinanceYear /\ ~LoanMonth /\ ~StartIrr /\ ~HalveIrr /\ ~Close
  BY <1>3 DEF FinanceYear, LoanMonth, StartIrr, HalveIrr, Close, Rolled
<1> QED BY <1>2, <1>4, <1>5 DEF Next, Ended

\* The forecast itself moves no call: before one there is none.
LEMMA ForecastStep == CallOK /\ Next /\ UNCHANGED call => CallOK'
<1> SUFFICES ASSUME CallOK, Next, UNCHANGED call PROVE CallOK'
  OBVIOUS
<1>1. CASE call = None
  BY <1>1 DEF CallOK, TornadoOK, SamplingOK, WrappersAnswer, Tabulating, Sampling
<1>2. CASE call # None
  <2>1. UNCHANGED vars /\ Step = "done" /\ ~raised
    BY <1>2, StandsStill DEF CallOK
  <2>2. TornadoOK' /\ SamplingOK'
    BY <2>1, CallFrame DEF CallOK, TornadoOK, SamplingOK, Tabulating, Sampling
  <2>3. WrappersAnswer'
    BY <2>1, CallFrame DEF CallOK, WrappersAnswer, vars
  <2> QED BY <2>1, <2>2, <2>3, CallFrame DEF CallOK
<1> QED BY <1>1, <1>2

LEMMA StartStep ==
  IInv /\ YieldKept /\ CallOK /\ (Refuse \/ StartTornado \/ StartMonteCarlo) => CallOK'
<1> SUFFICES ASSUME IInv, YieldKept, CallOK, Refuse \/ StartTornado \/ StartMonteCarlo
             PROVE  CallOK'
  OBVIOUS
<1>1. Ready
  BY DEF Refuse, StartTornado, StartMonteCarlo
<1>2. UNCHANGED vars /\ Step = "done" /\ ~raised
  BY <1>1 DEF Ready
<1>3. Step' = "done" /\ ~raised'
  BY <1>2, CallFrame
<1>4. CASE Refuse
  <2>1. Refuses' /\ call'.status = "raised" /\ call'.of \in {"tornado", "monte_carlo"}
    BY <1>2, <1>4, CallFrame DEF Refuse
  <2> QED BY <1>3, <2>1 DEF CallOK, TornadoOK, SamplingOK, WrappersAnswer, Tabulating, Sampling
<1>5. CASE StartTornado
  <2>1. ~Refuses
    BY <1>5 DEF StartTornado
  <2>2. PICK s \in Sensitivities :
          call' = IF Fails(Baseline0) THEN [of |-> "tornado", status |-> "raised"]
                  ELSE [of |-> "tornado", status |-> "running", sensitivity |-> s,
                        bundle |-> Baseline0, anchor |-> NpvOf(Baseline0),
                        axis |-> 1, rows |-> <<>>]
    BY <1>5 DEF StartTornado
  <2>3. CASE Fails(Baseline0)
    <3>1. Gap' \/ Dark'
      BY <1>2, <2>1, <2>3, BaselineLemma, CallFrame
    <3>2. call' = [of |-> "tornado", status |-> "raised"]
      BY <2>2, <2>3
    <3> QED BY <1>3, <3>1, <3>2
            DEF CallOK, TornadoOK, SamplingOK, WrappersAnswer, Tabulating, Sampling, Gap, Dark
  <2>4. CASE ~Fails(Baseline0)
    <3> DEFINE anchor == NpvOf(Baseline0)
    <3>1. call' = [of |-> "tornado", status |-> "running", sensitivity |-> s,
                   bundle |-> Baseline0, anchor |-> anchor, axis |-> 1, rows |-> <<>>]
      BY <2>2, <2>4
    <3> HIDE DEF anchor
    <3>2. TornadoOK'
      BY <1>2, <2>1, <3>1, CallFrame DEF TornadoOK
    <3> QED BY <1>3, <3>1, <3>2 DEF CallOK, SamplingOK, WrappersAnswer, Sampling
  <2> QED BY <2>3, <2>4
<1>6. CASE StartMonteCarlo
  <2>1. ~Refuses /\ call' = [of |-> "monte_carlo", status |-> "running", drawn |-> 0,
                             paths |-> <<>>, failed |-> 0, fan |-> None]
    BY <1>6 DEF StartMonteCarlo
  <2> DEFINE ps == <<>>
             none == 0
  <2>2. ps \in Seq({}) /\ Len(ps) + none = 0 /\ none \in Nat /\ ~(none > 0)
    OBVIOUS
  <2> HIDE DEF ps, none
  <2>3. ~Refuses' /\ call' = [of |-> "monte_carlo", status |-> "running",
                              drawn |-> Len(ps) + none, paths |-> ps, failed |-> none,
                              fan |-> None]
    BY <1>2, <2>1, <2>2, CallFrame DEF ps, none
  <2>4. SamplingOK'
    BY <2>2, <2>3 DEF SamplingOK
  <2> QED BY <1>3, <2>1, <2>4 DEF CallOK, TornadoOK, WrappersAnswer, Tabulating
<1> QED BY <1>4, <1>5, <1>6

LEMMA TornadoStep ==
  IInv /\ YieldKept /\ CallOK /\ (SkipAxis \/ TornadoRow \/ FinishTornado) => CallOK'
<1> SUFFICES ASSUME IInv, YieldKept, CallOK, SkipAxis \/ TornadoRow \/ FinishTornado
             PROVE  CallOK'
  OBVIOUS
<1>1. Tabulating /\ UNCHANGED vars
  BY DEF SkipAxis, TornadoRow, FinishTornado
<1>2. Step' = "done" /\ ~raised'
  BY <1>1, CallFrame DEF CallOK, Tabulating
<1>3. ~Refuses /\ ~Refuses' /\ Baseline0' = Baseline0
  BY <1>1, CallFrame DEF CallOK, TornadoOK
<1>4. PICK s, anchor, axis, rs :
        /\ s \in Sensitivities
        /\ call = [of |-> "tornado", status |-> "running", sensitivity |-> s,
                   bundle |-> Baseline0, anchor |-> anchor, axis |-> axis, rows |-> rs]
  BY <1>1 DEF CallOK, TornadoOK
<1>5. ASSUME NEW n, NEW rt, NEW status \in {"running", "answered"},
             call' = [of |-> "tornado", status |-> status, sensitivity |-> s,
                      bundle |-> Baseline0, anchor |-> anchor, axis |-> n, rows |-> rt]
      PROVE  CallOK'
  <2>1. TornadoOK'
    BY <1>3, <1>4, <1>5 DEF TornadoOK, Tabulating
  <2> QED BY <1>2, <1>5, <2>1 DEF CallOK, SamplingOK, WrappersAnswer, Sampling
<1>6. CASE SkipAxis
  <2> DEFINE n == axis + 1
  <2>1. call' = [call EXCEPT !.axis = n]
    BY <1>4, <1>6 DEF SkipAxis
  <2> HIDE DEF n
  <2> QED BY <2>1, <1>4, <1>5
<1>7. CASE FinishTornado
  <2> DEFINE rt == BySwing(rs)
  <2>1. call' = [call EXCEPT !.status = "answered", !.rows = rt]
    BY <1>4, <1>7 DEF FinishTornado
  <2> HIDE DEF rt
  <2> QED BY <2>1, <1>4, <1>5
<1>8. CASE TornadoRow
  <2> DEFINE name == AXES[axis]
             by   == s[name]
             low  == Perturbed(Baseline0, name, -by)
             high == Perturbed(Baseline0, name, by)
             rt   == Append(rs, [name |-> name, low |-> NpvOf(low), high |-> NpvOf(high)])
             n    == axis + 1
  <2>1. /\ axis \in DOMAIN AXES
        /\ call' = IF Fails(low) \/ Fails(high) THEN [of |-> "tornado", status |-> "raised"]
                   ELSE [call EXCEPT !.axis = n, !.bundle = Baseline0, !.rows = rt]
    BY <1>4, <1>8 DEF TornadoRow, AfterRow
  <2>2. CASE Fails(low) \/ Fails(high)
    <3>1. name \in AxisName
      BY <2>1 DEF AxisName
    <3>2. Gap' \/ Dark'
      BY <1>1, <1>3, <1>4, <2>2, <3>1, PerturbedLemma, CallFrame
    <3>3. call' = [of |-> "tornado", status |-> "raised"]
      BY <2>1, <2>2
    <3> QED BY <1>2, <3>2, <3>3
            DEF CallOK, TornadoOK, SamplingOK, WrappersAnswer, Tabulating, Sampling, Gap, Dark
  <2>3. CASE ~(Fails(low) \/ Fails(high))
    <3>1. call' = [call EXCEPT !.axis = n, !.bundle = Baseline0, !.rows = rt]
      BY <2>1, <2>3
    <3> HIDE DEF n, rt
    <3> QED BY <3>1, <1>4, <1>5
  <2> QED BY <2>2, <2>3
<1> QED BY <1>6, <1>7, <1>8

LEMMA SamplingStep ==
  IInv /\ YieldKept /\ CallOK /\ (DrawPath \/ FinishMonteCarlo) => CallOK'
<1> SUFFICES ASSUME IInv, YieldKept, CallOK, DrawPath \/ FinishMonteCarlo
             PROVE  CallOK'
  OBVIOUS
<1>1. Sampling /\ UNCHANGED vars
  BY DEF DrawPath, FinishMonteCarlo
<1>2. Step' = "done" /\ ~raised'
  BY <1>1, CallFrame DEF CallOK, Sampling
<1>3. ~Refuses /\ ~Refuses'
  BY <1>1, CallFrame DEF CallOK, SamplingOK
<1>4. PICK X : \E failed \in Nat, paths \in Seq(X) :
        /\ call = [of |-> "monte_carlo", status |-> "running", drawn |-> Len(paths) + failed,
                   paths |-> paths, failed |-> failed, fan |-> None]
        /\ failed > 0 => Gap \/ Dark \/ WeatherMin = 0
  BY <1>1 DEF CallOK, SamplingOK
<1>5. PICK failed \in Nat, paths \in Seq(X) :
        /\ call = [of |-> "monte_carlo", status |-> "running", drawn |-> Len(paths) + failed,
                   paths |-> paths, failed |-> failed, fan |-> None]
        /\ failed > 0 => Gap \/ Dark \/ WeatherMin = 0
  BY <1>4
<1>6. failed > 0 => Gap' \/ Dark' \/ WeatherMin = 0
  BY <1>1, <1>5, CallFrame
<1>7. Len(paths) \in Nat
  OBVIOUS
<1>8. CASE DrawPath
  <2>1. PICK d \in Draws :
          call' = IF Fails(PathBundle(d))
                  THEN [call EXCEPT !.drawn = @ + 1, !.failed = @ + 1]
                  ELSE [call EXCEPT !.drawn = @ + 1, !.paths = Append(@, PathOf(d))]
    BY <1>8 DEF DrawPath
  <2>2. CASE Fails(PathBundle(d))
    <3>1. Gap' \/ Dark' \/ WeatherMin = 0
      BY <1>1, <1>3, <2>2, PathLemma, CallFrame
    <3> DEFINE more == failed + 1
    <3>2. more \in Nat /\ (Len(paths) + failed) + 1 = Len(paths) + more
      BY <1>7
    <3>3. call' = [call EXCEPT !.drawn = @ + 1, !.failed = more]
      BY <1>5, <2>1, <2>2
    <3> HIDE DEF more
    <3>4. call' = [of |-> "monte_carlo", status |-> "running", drawn |-> Len(paths) + more,
                   paths |-> paths, failed |-> more, fan |-> None]
      BY <1>5, <3>2, <3>3
    <3>5. SamplingOK'
      BY <1>3, <3>1, <3>2, <3>4 DEF SamplingOK
    <3> QED BY <1>2, <3>4, <3>5 DEF CallOK, TornadoOK, WrappersAnswer, Tabulating
  <2>3. CASE ~Fails(PathBundle(d))
    <3> DEFINE p  == PathOf(d)
               ps == Append(paths, p)
               Y  == X \cup {p}
    <3>1. call' = [call EXCEPT !.drawn = @ + 1, !.paths = ps]
      BY <1>5, <2>1, <2>3
    <3> HIDE DEF p
    <3>2. paths \in Seq(Y) /\ p \in Y
      OBVIOUS
    <3>3. ps \in Seq(Y) /\ Len(ps) = Len(paths) + 1
      BY <3>2
    <3>4. (Len(paths) + failed) + 1 = Len(ps) + failed
      BY <1>7, <3>3
    <3> HIDE DEF ps
    <3>5. call' = [of |-> "monte_carlo", status |-> "running", drawn |-> Len(ps) + failed,
                   paths |-> ps, failed |-> failed, fan |-> None]
      BY <1>5, <3>1, <3>4
    <3>6. SamplingOK'
      BY <1>3, <1>6, <3>3, <3>5 DEF SamplingOK
    <3> QED BY <1>2, <3>5, <3>6 DEF CallOK, TornadoOK, WrappersAnswer, Tabulating
  <2> QED BY <2>2, <2>3
<1>9. CASE FinishMonteCarlo
  <2> DEFINE fan == Fan(paths)
  <2>1. /\ Len(paths) + failed = Paths
        /\ call' = IF paths = <<>> THEN [call EXCEPT !.status = "raised"]
                   ELSE [call EXCEPT !.status = "answered", !.fan = fan]
    BY <1>5, <1>9 DEF FinishMonteCarlo
  <2> HIDE DEF fan
  <2>2. CASE paths = <<>>
    <3>1. failed = Paths /\ failed > 0
      BY <2>1, <2>2, AnalysisAssumption
    <3>2. call'.of = "monte_carlo" /\ call'.status = "raised" /\ call'.failed = Paths
      BY <1>5, <2>1, <2>2, <3>1
    <3>3. WrappersAnswer'
      BY <1>6, <3>1, <3>2 DEF WrappersAnswer, Gap, Dark
    <3> QED BY <1>2, <3>2, <3>3 DEF CallOK, TornadoOK, SamplingOK, Tabulating, Sampling
  <2>3. CASE paths # <<>>
    <3>1. call'.status = "answered"
      BY <1>5, <2>1, <2>3
    <3> QED BY <1>2, <3>1 DEF CallOK, TornadoOK, SamplingOK, WrappersAnswer, Tabulating, Sampling
  <2> QED BY <2>2, <2>3
<1> QED BY <1>8, <1>9

----------------------------------------------------------------------------
\* The yield a run leaves is the one its wrappers scale.
LEMMA YieldStep == IInv /\ YieldKept /\ [Next]_vars => YieldKept'
<1> SUFFICES ASSUME IInv, YieldKept, [Next]_vars PROVE YieldKept'
  OBVIOUS
<1>1. CASE Produce
  <2>1. "dc_production" \in Keys
    BY StepLemma
  <2>2. artifacts'["dc_production"] = given.yield /\ given' = given
    BY <1>1, <2>1, LeaveLemma DEF Produce, Leave
  <2> QED BY <2>2 DEF YieldKept
<1>2. ASSUME NEW k \in Keys \ {"dc_production"}, NEW x, Running(k), Leave(k, x)
      PROVE  YieldKept'
  <2>1. "dc_production" \in Keys
    BY StepLemma
  <2>2. artifacts'["dc_production"] = artifacts["dc_production"] /\ given' = given
    BY <1>2, <2>1, LeaveLemma DEF Leave
  <2> QED BY <2>2 DEF YieldKept, Absent
<1>3. {"snow", "degradation", "battery_dispatch", "tariff", "export_credit", "finance"}
        \subseteq Keys \ {"dc_production"}
  BY StepLemma
<1>4. CASE SnowLoss \/ Degrade \/ Dispatched
  BY <1>2, <1>3, <1>4 DEF SnowLoss, Degrade, Dispatched
<1>5. CASE Bill \/ Credit
  BY <1>2, <1>3, <1>5 DEF Bill, Credit
<1>6. CASE Close
  <2>1. Running("finance") /\ Leave("finance", Flows)
    BY <1>6 DEF Close, Rolled
  <2> QED BY <1>2, <1>3, <2>1
<1>7. ASSUME UNCHANGED <<given, artifacts>> PROVE YieldKept'
  BY <1>7 DEF YieldKept, Absent
<1>8. CASE Skip \/ Raise \/ DispatchHour \/ FinanceYear \/ LoanMonth \/ StartIrr \/ HalveIrr
  BY <1>7, <1>8 DEF Skip, Raise, DispatchHour, FinanceYear, LoanMonth, StartIrr, HalveIrr
<1>9. CASE UNCHANGED vars
  BY <1>7, <1>9 DEF vars
<1> QED BY <1>1, <1>4, <1>5, <1>6, <1>8, <1>9 DEF Next, Ended

LEMMA CallsBegin == AnalysisInit => YieldKept /\ CallOK
<1> SUFFICES ASSUME AnalysisInit PROVE YieldKept /\ CallOK
  OBVIOUS
<1>1. artifacts["dc_production"] = None /\ call = None
  BY StepLemma DEF AnalysisInit, Init
<1> QED BY <1>1
        DEF YieldKept, Absent, CallOK, TornadoOK, SamplingOK, WrappersAnswer, Tabulating, Sampling

LEMMA CallsStep == IInv /\ YieldKept /\ CallOK /\ [AnalysisNext]_avars => YieldKept' /\ CallOK'
<1> SUFFICES ASSUME IInv, YieldKept, CallOK, [AnalysisNext]_avars PROVE YieldKept' /\ CallOK'
  OBVIOUS
<1>1. CASE Next /\ UNCHANGED call
  BY <1>1, ForecastStep, YieldStep
<1>2. CASE Refuse \/ StartTornado \/ StartMonteCarlo
  <2>1. UNCHANGED vars
    BY <1>2 DEF Refuse, StartTornado, StartMonteCarlo, Ready
  <2> QED BY <1>2, <2>1, StartStep, YieldStep
<1>3. CASE SkipAxis \/ TornadoRow \/ FinishTornado
  <2>1. UNCHANGED vars
    BY <1>3 DEF SkipAxis, TornadoRow, FinishTornado
  <2> QED BY <1>3, <2>1, TornadoStep, YieldStep
<1>4. CASE DrawPath \/ FinishMonteCarlo
  <2>1. UNCHANGED vars
    BY <1>4 DEF DrawPath, FinishMonteCarlo
  <2> QED BY <1>4, <2>1, SamplingStep, YieldStep
<1>5. CASE UNCHANGED avars
  <2>1. UNCHANGED vars /\ UNCHANGED call
    BY <1>5 DEF avars
  <2>2. CallOK'
    BY <2>1, CallFrame DEF CallOK, TornadoOK, SamplingOK, WrappersAnswer, Tabulating,
                           Sampling, Gap, Dark
  <2> QED BY <2>1, <2>2, YieldStep
<1> QED BY <1>1, <1>2, <1>3, <1>4, <1>5 DEF AnalysisNext

\* A tornado or a Monte Carlo run raises only for want of its inputs, for a gap
\* in the tariff, for a roof that yields nothing or, sampling, because every
\* path was drawn without sun: nothing else the axes and draws may move, by any
\* amount, makes run_finance raise.
THEOREM OnlyTheStateFails == AnalysisSpec => []WrappersAnswer
<1>1. CallOK => WrappersAnswer
  BY DEF CallOK
<1> QED BY <1>1, CallsBegin, CallsStep, StateIsKept, Invariance, PTL DEF AnalysisSpec

----------------------------------------------------------------------------
\* Sorting, and the lines of a fan

\* A stable sort puts every position in a place of its own, the keys ascending
\* and equal ones as they stand.
THEOREM SortIsStable ==
  ASSUME NEW n \in Nat, NEW keys, DOMAIN keys = 1..n, \A i \in 1..n : keys[i] \in Int
  PROVE  /\ DOMAIN InOrder(keys) = 1..n
         /\ \A k \in 1..n : InOrder(keys)[k] \in 1..n
         /\ \A i \in 1..n : \E k \in 1..n : InOrder(keys)[k] = i
         /\ \A k, l \in 1..n : k < l =>
              LET i == InOrder(keys)[k]
                  j == InOrder(keys)[l]
              IN keys[i] < keys[j] \/ (keys[i] = keys[j] /\ i < j)
<1> DEFINE D == 1..n
           Before0(i, j) == keys[i] < keys[j] \/ (keys[i] = keys[j] /\ i < j)
           R == {p \in D \X D : Before0(p[1], p[2])}
           order == InOrder(keys)
<1>1. \A i, j \in D : <<i, j>> \in R <=> Before0(i, j)
  OBVIOUS
<1>2. Linear(R, n)
  <2>1. \A i \in D : ~Before0(i, i)
    OBVIOUS
  <2>2. \A i, j \in D : i # j => Before0(i, j) \/ Before0(j, i)
    OBVIOUS
  <2>3. \A i, j, k \in D : Before0(i, j) /\ Before0(j, k) => Before0(i, k)
    OBVIOUS
  <2> HIDE DEF R, Before0
  <2> QED BY <1>1, <2>1, <2>2, <2>3 DEF Linear
<1>3. \A i \in D : Place(keys, i) = Cardinality(Ahead(R, n, i))
  <2> TAKE i \in D
  <2>1. {j \in DOMAIN keys : keys[j] < keys[i] \/ (keys[j] = keys[i] /\ j < i)} = Ahead(R, n, i)
    <3>1. \A j \in D : j \in Ahead(R, n, i) <=> Before0(j, i)
      <4> HIDE DEF R, Before0
      <4> QED BY <1>1 DEF Ahead
    <3>2. Ahead(R, n, i) \subseteq D
      BY DEF Ahead
    <3> HIDE DEF R
    <3> QED BY <3>1, <3>2
  <2> QED BY <2>1 DEF Place
<1> HIDE DEF R
<1>4. \A i, j \in D : Before0(i, j) => Place(keys, i) < Place(keys, j)
  <2> HIDE DEF Before0
  <2> QED BY <1>1, <1>2, <1>3, PlacesTaken
<1>9. \A i \in D : Place(keys, i) \in 0..(n - 1)
  BY <1>2, <1>3, PlacesTaken
<1>10. \A k \in D : \E i \in D : Place(keys, i) = k - 1
  BY <1>2, <1>3, PlacesTaken
<1>5. DOMAIN order = D
  BY DEF InOrder
<1>6. ASSUME NEW k \in D PROVE order[k] \in D /\ Place(keys, order[k]) = k - 1
  <2>1. order[k] = CHOOSE i \in DOMAIN keys : Place(keys, i) = k - 1
    BY DEF InOrder
  <2>2. \E i \in DOMAIN keys : Place(keys, i) = k - 1
    BY <1>10
  <2> HIDE DEF order
  <2> QED BY <2>1, <2>2
<1> HIDE DEF order
<1>7. ASSUME NEW i \in D PROVE \E k \in D : order[k] = i
  <2> DEFINE k == Place(keys, i) + 1
  <2>1. k \in D /\ k - 1 = Place(keys, i)
    <3>1. \A x \in 0..(n - 1) : x + 1 \in 1..n /\ (x + 1) - 1 = x
      OBVIOUS
    <3> QED BY <1>9, <3>1
  <2>2. order[k] \in D /\ Place(keys, order[k]) = Place(keys, i)
    BY <1>6, <2>1
  <2> HIDE DEF k
  <2>3. Before0(order[k], i) \/ Before0(i, order[k]) \/ order[k] = i
    BY <2>2
  <2>4. ~(Place(keys, i) < Place(keys, i))
    <3>1. \A x \in 0..(n - 1) : ~(x < x)
      OBVIOUS
    <3> QED BY <1>9, <3>1
  <2> HIDE DEF Before0, D
  <2>5. order[k] = i
    BY <1>4, <2>2, <2>3, <2>4
  <2> QED BY <2>1, <2>5
<1>8. ASSUME NEW k \in D, NEW l \in D, k < l PROVE Before0(order[k], order[l])
  <2>1. /\ order[k] \in D /\ order[l] \in D
        /\ Place(keys, order[k]) < Place(keys, order[l])
    <3>1. Place(keys, order[k]) = k - 1 /\ Place(keys, order[l]) = l - 1
      BY <1>6
    <3> QED BY <1>6, <1>8, <3>1
  <2>2. Before0(order[k], order[l]) \/ Before0(order[l], order[k]) \/ order[k] = order[l]
    BY <2>1
  <2>3. /\ ~(Place(keys, order[l]) < Place(keys, order[k]))
        /\ order[k] # order[l]
    <3>1. \A x, y \in 0..(n - 1) : x < y => ~(y < x) /\ x # y
      OBVIOUS
    <3>2. Place(keys, order[k]) \in 0..(n - 1) /\ Place(keys, order[l]) \in 0..(n - 1)
      BY <1>9, <2>1
    <3> HIDE DEF D
    <3> QED BY <2>1, <3>1, <3>2
  <2> HIDE DEF Before0, D
  <2> QED BY <1>4, <2>1, <2>2, <2>3
<1> QED BY <1>5, <1>6, <1>7, <1>8 DEF order

\* Sorted numbers rise, from the least to the greatest.
LEMMA SortedNumbers ==
  ASSUME NEW n \in Nat \ {0}, NEW keys, DOMAIN keys = 1..n, \A i \in 1..n : keys[i] \in Int
  PROVE  /\ \A k \in 1..n : InOrder(keys)[k] \in 1..n /\ keys[InOrder(keys)[k]] \in Int
         /\ \A k, l \in 1..n : k <= l => keys[InOrder(keys)[k]] <= keys[InOrder(keys)[l]]
         /\ \A i \in 1..n : /\ keys[InOrder(keys)[1]] <= keys[i]
                            /\ keys[i] <= keys[InOrder(keys)[n]]
<1> DEFINE o == InOrder(keys)
<1>1. /\ \A k \in 1..n : o[k] \in 1..n
      /\ \A i \in 1..n : \E k \in 1..n : o[k] = i
      /\ \A k, l \in 1..n : k < l =>
           keys[o[k]] < keys[o[l]] \/ (keys[o[k]] = keys[o[l]] /\ o[k] < o[l])
  BY SortIsStable
<1> HIDE DEF o
<1>2. \A k \in 1..n : keys[o[k]] \in Int
  BY <1>1
<1>3. ASSUME NEW k \in 1..n, NEW l \in 1..n, k <= l PROVE keys[o[k]] <= keys[o[l]]
  <2> DEFINE x == keys[o[k]]
             y == keys[o[l]]
  <2>1. x \in Int /\ y \in Int
    BY <1>2
  <2>2. CASE k = l
    BY <2>1, <2>2
  <2>3. CASE k < l
    <3>1. x < y \/ x = y
      BY <1>1, <2>3
    <3> HIDE DEF x, y
    <3>2. x <= y
      BY <2>1, <3>1
    <3> QED BY <3>2 DEF x, y
  <2> QED BY <1>3, <2>2, <2>3
<1>4. ASSUME NEW i \in 1..n PROVE keys[o[1]] <= keys[i] /\ keys[i] <= keys[o[n]]
  <2>1. PICK k \in 1..n : o[k] = i
    BY <1>1
  <2>2. 1 \in 1..n /\ n \in 1..n /\ 1 <= k /\ k <= n
    OBVIOUS
  <2>3. keys[o[1]] <= keys[o[k]] /\ keys[o[k]] <= keys[o[n]]
    BY <1>3, <2>2
  <2> QED BY <2>1, <2>3
<1> QED BY <1>1, <1>2, <1>3, <1>4 DEF o

\* The least and the greatest of some numbers are among them.
LEMMA Extremes ==
  ASSUME NEW n \in Nat \ {0}, NEW keys, DOMAIN keys = 1..n, \A i \in 1..n : keys[i] \in Int
  PROVE  LET S == {keys[i] : i \in 1..n}
         IN /\ Min(S) \in S /\ \A x \in S : Min(S) <= x
            /\ Max(S) \in S /\ \A x \in S : x <= Max(S)
<1> DEFINE S == {keys[i] : i \in 1..n}
           o == InOrder(keys)
<1>1. \A k \in 1..n : o[k] \in 1..n
  BY SortedNumbers
<1>4. \A i \in 1..n : keys[o[1]] <= keys[i] /\ keys[i] <= keys[o[n]]
  BY SortedNumbers
<1> HIDE DEF o
<1>2. 1 \in 1..n /\ n \in 1..n
  OBVIOUS
<1>3. keys[o[1]] \in S /\ keys[o[n]] \in S
  BY <1>1, <1>2
<1>5. (\A x \in S : keys[o[1]] <= x) /\ (\A x \in S : keys[o[n]] >= x)
  BY <1>1, <1>2, <1>4
<1> HIDE DEF S
<1>6. Min(S) \in S /\ \A x \in S : Min(S) <= x
  <2>1. \E x \in S : \A y \in S : x <= y
    BY <1>3, <1>5
  <2> QED BY <2>1 DEF Min
<1>7. Max(S) \in S /\ \A x \in S : Max(S) >= x
  <2>1. \E x \in S : \A y \in S : x >= y
    BY <1>3, <1>5
  <2> QED BY <2>1 DEF Max
<1>8. \A x \in S : x \in Int
  BY DEF S
<1> QED BY <1>6, <1>7, <1>8 DEF S

\* the line np.percentile reads its values off: v at whole tens, straight between
Line(v, p) ==
  IF p % 10 = 0 THEN 10 * v[(p \div 10) + 1]
  ELSE 10 * v[(p \div 10) + 1] + (p % 10) * (v[(p \div 10) + 2] - v[(p \div 10) + 1])

Rising(v, n) == /\ \A i \in 1..n : v[i] \in Int
                /\ \A i, j \in 1..n : i <= j => v[i] <= v[j]

\* Where the line stands at p: between two of its values.
StandsBetween(v, n, p) ==
  LET a == p \div 10
      x == p % 10
  IN /\ a \in Nat /\ x \in 0..9 /\ p = 10 * a + x
     /\ a + 1 \in 1..n /\ (x # 0 => a + 2 \in 1..n)
     /\ Line(v, p) \in Int /\ 10 * v[a + 1] <= Line(v, p)
     /\ x = 0 => Line(v, p) = 10 * v[a + 1]
     /\ x # 0 => /\ Line(v, p) <= 10 * v[a + 2]
                 /\ Line(v, p) = 10 * v[a + 1] + x * (v[a + 2] - v[a + 1])

\* Between two of its values the line stays between them.
LEMMA LineBetween ==
  ASSUME NEW n \in Nat \ {0}, NEW v, Rising(v, n), NEW p \in 0..(10 * (n - 1))
  PROVE  StandsBetween(v, n, p)
<1> DEFINE a == p \div 10
           x == p % 10
<1>1. a \in Nat /\ x \in 0..9 /\ p = 10 * a + x
  OBVIOUS
<1>2. Line(v, p) = IF x = 0 THEN 10 * v[a + 1] ELSE 10 * v[a + 1] + x * (v[a + 2] - v[a + 1])
  BY DEF Line
<1> HIDE DEF a, x
<1>3. a + 1 \in 1..n /\ (x # 0 => a + 2 \in 1..n)
  BY <1>1
<1>4. CASE x = 0
  <2>1. v[a + 1] \in Int
    BY <1>3 DEF Rising
  <2>2. Line(v, p) = 10 * v[a + 1]
    BY <1>2, <1>4
  <2> QED BY <1>1, <1>3, <1>4, <2>1, <2>2 DEF a, x, StandsBetween
<1>5. CASE x # 0
  <2> DEFINE l == v[a + 1]
             d == v[a + 2] - v[a + 1]
  <2>1. l \in Int /\ d \in Nat /\ v[a + 2] = l + d
    <3>1. v[a + 1] \in Int /\ v[a + 2] \in Int /\ v[a + 1] <= v[a + 2]
      <4>1. a + 1 <= a + 2
        BY <1>1
      <4> QED BY <1>3, <1>5, <4>1 DEF Rising
    <3> QED BY <3>1
  <2>2. Line(v, p) = 10 * l + x * d
    BY <1>2, <1>5
  <2>3. x * d \in Nat /\ x * d <= 10 * d
    <3>1. x \in Nat /\ x <= 10
      BY <1>1
    <3>2. x * d <= 10 * d /\ 0 * d <= x * d
      BY <2>1, <3>1, TimesLarger
    <3> QED BY <2>1, <3>1, <3>2
  <2>4. Line(v, p) \in Int /\ 10 * l <= Line(v, p) /\ Line(v, p) <= 10 * (l + d)
    <3> DEFINE w == x * d
    <3>1. w \in Nat /\ w <= 10 * d
      BY <2>3
    <3> HIDE DEF w, l, d
    <3>2. 10 * l + w \in Int /\ 10 * l <= 10 * l + w /\ 10 * l + w <= 10 * (l + d)
      BY <2>1, <3>1
    <3>3. Line(v, p) = 10 * l + w
      BY <2>2 DEF w
    <3> QED BY <3>2, <3>3
  <2> QED BY <1>1, <1>3, <1>5, <2>1, <2>2, <2>4 DEF a, x, StandsBetween
<1> QED BY <1>4, <1>5

LEMMA LineRises ==
  ASSUME NEW n \in Nat \ {0}, NEW v, Rising(v, n),
         NEW p \in 0..(10 * (n - 1)), NEW q \in 0..(10 * (n - 1)), p <= q
  PROVE  Line(v, p) <= Line(v, q)
<1> DEFINE a == p \div 10
           x == p % 10
           b == q \div 10
           y == q % 10
<1>1. /\ a \in Nat /\ x \in 0..9 /\ p = 10 * a + x /\ Line(v, p) \in Int
      /\ a + 1 \in 1..n /\ (x # 0 => a + 2 \in 1..n)
      /\ x = 0 => Line(v, p) = 10 * v[a + 1]
      /\ x # 0 => /\ Line(v, p) <= 10 * v[a + 2]
                  /\ Line(v, p) = 10 * v[a + 1] + x * (v[a + 2] - v[a + 1])
  <2>1. StandsBetween(v, n, p)
    BY LineBetween
  <2> QED BY <2>1 DEF StandsBetween
<1>2. /\ b \in Nat /\ y \in 0..9 /\ q = 10 * b + y /\ Line(v, q) \in Int
      /\ b + 1 \in 1..n /\ 10 * v[b + 1] <= Line(v, q)
      /\ y # 0 => Line(v, q) = 10 * v[b + 1] + y * (v[b + 2] - v[b + 1])
  <2>1. StandsBetween(v, n, q)
    BY LineBetween
  <2> QED BY <2>1 DEF StandsBetween
<1> HIDE DEF a, x, b, y
<1>3. a <= b /\ (a = b => x <= y)
  BY <1>1, <1>2
<1>4. \A i \in 1..n : v[i] \in Int
  BY DEF Rising
<1>5. CASE x = 0
  <2>1. v[a + 1] <= v[b + 1]
    BY <1>1, <1>2, <1>3 DEF Rising
  <2>2. v[a + 1] \in Int /\ v[b + 1] \in Int
    BY <1>1, <1>2, <1>4
  <2>3. \A i, j, k, l \in Int : i = 10 * k /\ k <= l /\ 10 * l <= j => i <= j
    OBVIOUS
  <2> QED BY <1>1, <1>2, <1>5, <2>1, <2>2, <2>3
<1>6. CASE x # 0 /\ a < b
  <2>1. v[a + 2] <= v[b + 1]
    <3>1. a + 2 <= b + 1
      BY <1>1, <1>2, <1>6
    <3> QED BY <1>1, <1>2, <1>6, <3>1 DEF Rising
  <2>2. v[a + 2] \in Int /\ v[b + 1] \in Int
    BY <1>1, <1>2, <1>4, <1>6
  <2>3. \A i, j, k, l \in Int : i <= 10 * k /\ k <= l /\ 10 * l <= j => i <= j
    OBVIOUS
  <2> QED BY <1>1, <1>2, <1>6, <2>1, <2>2, <2>3
<1>7. CASE x # 0 /\ a = b
  <2> DEFINE l == v[a + 1]
             d == v[a + 2] - v[a + 1]
  <2>1. l \in Int /\ d \in Nat
    <3>1. v[a + 1] \in Int /\ v[a + 2] \in Int /\ v[a + 1] <= v[a + 2]
      <4>1. a + 1 <= a + 2
        BY <1>1
      <4> QED BY <1>1, <1>7, <4>1 DEF Rising
    <3> QED BY <3>1
  <2>2. y # 0
    BY <1>1, <1>2, <1>3, <1>7
  <2>3. Line(v, p) = 10 * l + x * d /\ Line(v, q) = 10 * l + y * d
    BY <1>1, <1>2, <1>7, <2>2
  <2>4. x * d <= y * d /\ x * d \in Int /\ y * d \in Int
    <3>1. x \in Int /\ y \in Int /\ x <= y
      BY <1>1, <1>2, <1>3, <1>7
    <3> QED BY <2>1, <3>1, TimesLarger
  <2> HIDE DEF l, d
  <2>5. \A i, j, k \in Int : i <= j => k + i <= k + j
    OBVIOUS
  <2>6. 10 * l \in Int
    BY <2>1
  <2> QED BY <2>3, <2>4, <2>5, <2>6
<1> QED BY <1>1, <1>2, <1>3, <1>5, <1>6, <1>7

\* The percentiles of some numbers lie between the least and the greatest, and
\* a higher one is never lower.
THEOREM PercentilesInOrder ==
  ASSUME NEW n \in Nat \ {0}, NEW values \in [1..n -> Int], NEW lo \in Int, NEW hi \in Int,
         \A i \in 1..n : lo <= values[i] /\ values[i] <= hi
  PROVE  LET line == Percentiles(values)
         IN /\ line.p10 \in Int /\ line.p50 \in Int /\ line.p90 \in Int
            /\ 10 * lo <= line.p10 /\ line.p10 <= line.p50
            /\ line.p50 <= line.p90 /\ line.p90 <= 10 * hi
<1> DEFINE o == InOrder(values)
           v == [i \in 1..n |-> values[o[i]]]
<1>1. /\ DOMAIN values = 1..n /\ Len(values) = n
      /\ \A i \in 1..n : values[i] \in Int
  <2>1. values \in Seq(Int) /\ DOMAIN values = 1..n
    OBVIOUS
  <2> QED BY <2>1
<1>2. /\ \A k \in 1..n : o[k] \in 1..n /\ values[o[k]] \in Int
      /\ \A k, l \in 1..n : k <= l => values[o[k]] <= values[o[l]]
  BY <1>1, SortedNumbers
<1>3. ASSUME NEW k \in 1..9
      PROVE  /\ Percentile(values, k) = Line(v, (n - 1) * k)
             /\ (n - 1) * k \in 0..(10 * (n - 1))
  <2> DEFINE p == (n - 1) * k
  <2>1. p \in 0..(10 * (n - 1))
    <3> DEFINE m == n - 1
    <3>1. m \in Nat /\ k \in Nat /\ k <= 10
      OBVIOUS
    <3> HIDE DEF m
    <3>2. k * m <= 10 * m /\ 0 * m <= k * m /\ m * k = k * m
      BY <3>1, TimesLarger
    <3>3. m * k \in 0..(10 * m)
      BY <3>1, <3>2
    <3> QED BY <3>3 DEF m
  <2>2. /\ p \in Int /\ (p \div 10) + 1 \in 1..n
        /\ p % 10 # 0 => (p \div 10) + 2 \in 1..n
    <3>1. n \in Nat \ {0}
      OBVIOUS
    <3> HIDE DEF p
    <3> QED BY <2>1, <3>1
  <2>3. Percentile(values, k)
          = IF p % 10 = 0 THEN 10 * values[o[(p \div 10) + 1]]
            ELSE 10 * values[o[(p \div 10) + 1]]
                   + (p % 10) * (values[o[(p \div 10) + 2]] - values[o[(p \div 10) + 1]])
    BY <1>1 DEF Percentile
  <2>4. \A i \in 1..n : v[i] = values[o[i]]
    OBVIOUS
  <2> HIDE DEF p, v, o
  <2>5. Percentile(values, k) = Line(v, p)
    BY <2>2, <2>3, <2>4 DEF Line
  <2> QED BY <2>1, <2>5 DEF p
<1>4. Rising(v, n) /\ \A i \in 1..n : lo <= v[i] /\ v[i] <= hi
  <2> HIDE DEF o
  <2> QED BY <1>2 DEF Rising
<1> HIDE DEF v, o
<1> DEFINE P(k) == Percentile(values, k)
           place(k) == (n - 1) * k
<1>5. \A k \in 1..9 : P(k) \in Int /\ P(k) = Line(v, place(k))
  <2> TAKE k \in 1..9
  <2>1. P(k) = Line(v, place(k)) /\ place(k) \in 0..(10 * (n - 1))
    BY <1>3
  <2> HIDE DEF P, place
  <2> QED BY <1>4, <2>1, LineBetween DEF StandsBetween
<1>6. \A k \in 1..9 : 10 * lo <= P(k) /\ P(k) <= 10 * hi
  <2> TAKE k \in 1..9
  <2> DEFINE p == place(k)
             a == p \div 10
  <2>1. P(k) = Line(v, p) /\ P(k) \in Int /\ p \in 0..(10 * (n - 1))
    BY <1>3, <1>5
  <2> HIDE DEF p, P
  <2>2. /\ a + 1 \in 1..n /\ (p % 10 # 0 => a + 2 \in 1..n)
        /\ 10 * v[a + 1] <= P(k)
        /\ P(k) <= 10 * v[a + 1] \/ (p % 10 # 0 /\ P(k) <= 10 * v[a + 2])
    <3>1. /\ a + 1 \in 1..n /\ (p % 10 # 0 => a + 2 \in 1..n)
          /\ 10 * v[a + 1] <= Line(v, p)
          /\ p % 10 = 0 => Line(v, p) = 10 * v[a + 1]
          /\ p % 10 # 0 => Line(v, p) <= 10 * v[a + 2]
      BY <1>4, <2>1, LineBetween DEF StandsBetween
    <3> HIDE DEF a
    <3>2. CASE p % 10 = 0
      <4>1. P(k) = 10 * v[a + 1]
        BY <2>1, <3>1, <3>2
      <4>2. P(k) <= 10 * v[a + 1]
        BY <2>1, <4>1
      <4> QED BY <2>1, <3>1, <4>2
    <3>3. CASE p % 10 # 0
      BY <2>1, <3>1, <3>3
    <3> QED BY <3>2, <3>3
  <2> HIDE DEF a
  <2>3. \A i \in 1..n : v[i] \in Int /\ 10 * lo <= 10 * v[i] /\ 10 * v[i] <= 10 * hi
                        /\ 10 * v[i] \in Int
    <3> TAKE i \in 1..n
    <3>1. v[i] \in Int /\ lo <= v[i] /\ v[i] <= hi
      BY <1>4 DEF Rising
    <3> QED BY <3>1
  <2>4. \A i, j, k1 \in Int : i <= j /\ j <= k1 => i <= k1
    OBVIOUS
  <2>5. 10 * lo \in Int /\ 10 * hi \in Int
    OBVIOUS
  <2>6. 10 * lo <= P(k)
    <3>1. 10 * lo <= 10 * v[a + 1] /\ 10 * v[a + 1] \in Int
      BY <2>2, <2>3
    <3> QED BY <2>1, <2>2, <2>4, <2>5, <3>1
  <2>7. P(k) <= 10 * hi
    <3>1. 10 * v[a + 1] <= 10 * hi /\ 10 * v[a + 1] \in Int
      BY <2>2, <2>3
    <3>2. p % 10 # 0 => 10 * v[a + 2] <= 10 * hi /\ 10 * v[a + 2] \in Int
      BY <2>2, <2>3
    <3>3. CASE P(k) <= 10 * v[a + 1]
      BY <2>1, <2>4, <2>5, <3>1, <3>3
    <3>4. CASE p % 10 # 0 /\ P(k) <= 10 * v[a + 2]
      BY <2>1, <2>4, <2>5, <3>2, <3>4
    <3> QED BY <2>2, <3>3, <3>4
  <2> QED BY <2>6, <2>7
<1>7. P(1) <= P(5) /\ P(5) <= P(9)
  <2>1. place(1) <= place(5) /\ place(5) <= place(9)
    OBVIOUS
  <2>2. \A k \in 1..9 : place(k) \in 0..(10 * (n - 1)) /\ P(k) = Line(v, place(k))
    <3> TAKE k \in 1..9
    <3> QED BY <1>3
  <2>3. 1 \in 1..9 /\ 5 \in 1..9 /\ 9 \in 1..9
    OBVIOUS
  <2> HIDE DEF P, place
  <2> QED BY <1>4, <2>1, <2>2, <2>3, LineRises
<1>8. Percentiles(values) = [p10 |-> P(1), p50 |-> P(5), p90 |-> P(9)]
  BY DEF Percentiles
<1>9. 1 \in 1..9 /\ 5 \in 1..9 /\ 9 \in 1..9
  OBVIOUS
<1> HIDE DEF P
<1> QED BY <1>5, <1>6, <1>7, <1>8, <1>9

----------------------------------------------------------------------------
\* What the wrappers evaluate

\* a bundle that run_finance can be called with
Sound(b) ==
  /\ b.dc \in [Hour -> Nat] /\ b.loss \in Int
  /\ b.financial.years \in Nat \ {0} /\ b.financial.discount \in Nat \ {0}
  /\ b.financial.opex \in Nat /\ b.financial.cost \in Nat
  /\ b.financial.loan # None => b.financial.loan.down \in Nat
  /\ ~Fails(b)

Outlay(b) == IF b.financial.loan = None THEN b.financial.cost ELSE b.financial.loan.down

\* what year t of a bundle saves
Gain(b, t) ==
  LET y == YearTerms(artifacts["consumption"], BundleProduction(b, t),
                     given.schedule, given.export)
  IN y.avoidance + y.credit

LEMMA CurveFades ==
  ASSUME NEW loss \in Int, NEW more \in Int, loss <= more, NEW t \in Nat \ {0}
  PROVE  /\ LinearCurve(loss, t) \in Nat /\ LinearCurve(more, t) \in Nat
         /\ LinearCurve(more, t) <= LinearCurve(loss, t)
<1> DEFINE n == t - 1
           c == Scale - FirstLoss
           x == loss * n
           y == more * n
<1>1. n \in Nat /\ c \in Int
  BY EngineAssumption, FinanceAssumption
<1>2. x \in Int /\ y \in Int /\ x <= y
  <2> HIDE DEF n
  <2> QED BY <1>1, TimesLarger
<1>3. LinearCurve(loss, t) = Positive(c - x) /\ LinearCurve(more, t) = Positive(c - y)
  BY DEF LinearCurve
<1> HIDE DEF n, c, x, y
<1>4. Positive(c - x) \in Nat /\ Positive(c - y) \in Nat /\ Positive(c - y) <= Positive(c - x)
  BY <1>1, <1>2 DEF Positive
<1> QED BY <1>3, <1>4

\* A part of a larger whole.
LEMMA DivLarger ==
  ASSUME NEW a \in Nat, NEW b \in Nat, a <= b, NEW k \in Nat \ {0}
  PROVE  a \div k \in Nat /\ b \div k \in Nat /\ a \div k <= b \div k
<1> DEFINE x == a \div k
           y == b \div k
<1>1. /\ x \in Nat /\ a % k \in Nat /\ a = k * x + (a % k)
      /\ y \in Nat /\ b % k \in Nat /\ b % k < k /\ b = k * y + (b % k)
  OBVIOUS
<1> HIDE DEF x, y
<1>2. SUFFICES ASSUME x > y PROVE FALSE
  BY <1>1 DEF x, y
<1>3. (y + 1) * k <= x * k
  BY <1>1, <1>2, TimesLarger
<1>4. (y + 1) * k = k * y + k /\ x * k = k * x /\ k * x \in Int /\ k * y \in Int
  BY <1>1
<1> QED BY <1>1, <1>3, <1>4

LEMMA ScaledRises ==
  ASSUME NEW dc \in [Hour -> Nat], NEW k \in Nat, NEW l \in Nat, k <= l
  PROVE  /\ Scaled(dc, k) \in [Hour -> Nat] /\ Scaled(dc, l) \in [Hour -> Nat]
         /\ \A h \in Hour : Scaled(dc, k)[h] <= Scaled(dc, l)[h]
<1>1. ASSUME NEW h \in Hour
      PROVE  /\ (dc[h] * k) \div 2 \in Nat /\ (dc[h] * l) \div 2 \in Nat
             /\ (dc[h] * k) \div 2 <= (dc[h] * l) \div 2
  <2> DEFINE a == dc[h] * k
             b == dc[h] * l
  <2>1. a \in Nat /\ b \in Nat /\ a <= b
    <3>1. dc[h] \in Nat
      OBVIOUS
    <3>2. \A i, j \in Nat : i * j = j * i /\ i * j \in Nat
      OBVIOUS
    <3>3. k * dc[h] <= l * dc[h]
      BY <3>1, TimesLarger
    <3> QED BY <3>1, <3>2, <3>3
  <2> HIDE DEF a, b
  <2>2. a \div 2 \in Nat /\ b \div 2 \in Nat /\ a \div 2 <= b \div 2
    BY <2>1, DivLarger
  <2> QED BY <2>2 DEF a, b
<1> QED BY <1>1 DEF Scaled

LEMMA Unscaled ==
  ASSUME NEW dc \in [Hour -> Nat] PROVE Scaled(dc, 2) = dc
<1>1. \A x \in Nat : (x * 2) \div 2 = x
  OBVIOUS
<1>2. Scaled(dc, 2) = [h \in Hour |-> dc[h]]
  BY <1>1 DEF Scaled
<1> QED BY <1>2

\* Less sun and faster ageing leave no hour of no year more energy.
LEMMA ProductionFades ==
  ASSUME NEW b, NEW c, b.dc \in [Hour -> Nat], c.dc \in [Hour -> Nat],
         \A h \in Hour : c.dc[h] <= b.dc[h],
         b.loss \in Int, c.loss \in Int, b.loss <= c.loss, NEW t \in Nat \ {0}
  PROVE  /\ BundleProduction(b, t) \in [Hour -> Nat] /\ BundleProduction(c, t) \in [Hour -> Nat]
         /\ \A h \in Hour : BundleProduction(c, t)[h] <= BundleProduction(b, t)[h]
<1> DEFINE f == LinearCurve(b.loss, t)
           g == LinearCurve(c.loss, t)
<1>1. f \in Nat /\ g \in Nat /\ g <= f
  BY CurveFades
<1>2. Scale \in Nat \ {0}
  BY FinanceAssumption
<1> HIDE DEF f, g
<1>3. ASSUME NEW h \in Hour
      PROVE  /\ (b.dc[h] \div Scale) * f \in Nat /\ (c.dc[h] \div Scale) * g \in Nat
             /\ (c.dc[h] \div Scale) * g <= (b.dc[h] \div Scale) * f
  <2> DEFINE x == c.dc[h] \div Scale
             y == b.dc[h] \div Scale
  <2>1. x \in Nat /\ y \in Nat /\ x <= y
    <3>1. c.dc[h] \in Nat /\ b.dc[h] \in Nat /\ c.dc[h] <= b.dc[h]
      OBVIOUS
    <3> QED BY <1>2, <3>1, DivLarger
  <2> HIDE DEF x, y
  <2>2. x * g <= y * g /\ g * y <= f * y /\ g * y = y * g /\ f * y = y * f
    BY <1>1, <2>1, TimesLarger
  <2>3. x * g \in Nat /\ y * g \in Nat /\ y * f \in Nat
    BY <1>1, <2>1
  <2>4. x * g <= y * f
    BY <2>2, <2>3
  <2> QED BY <2>3, <2>4 DEF x, y
<1>4. \A h \in Hour : /\ BundleProduction(b, t)[h] = (b.dc[h] \div Scale) * f
                      /\ BundleProduction(c, t)[h] = (c.dc[h] \div Scale) * g
  BY DEF BundleProduction, Derated, f, g
<1>5. BundleProduction(b, t) \in [Hour -> Nat] /\ BundleProduction(c, t) \in [Hour -> Nat]
  BY <1>3 DEF BundleProduction, Derated, f, g
<1> QED BY <1>3, <1>4, <1>5

\* A bundle that does not fail can be billed and credited in every year.
LEMMA BundleYear ==
  ASSUME IInv, ~Refuses, NEW b, Sound(b), NEW t \in 1..b.financial.years
  PROVE  LET made == BundleProduction(b, t)
             y    == YearTerms(artifacts["consumption"], made, given.schedule, given.export)
         IN /\ made \in [Hour -> Nat] /\ artifacts["consumption"] \in [Hour -> Int]
            /\ Billable(artifacts["consumption"], given.schedule, given.export,
                        NetOf(artifacts["consumption"], made))
            /\ y.avoidance \in Int /\ y.credit \in Int
            /\ Gain(b, t) = y.avoidance + y.credit /\ Gain(b, t) \in Int
<1> DEFINE made == BundleProduction(b, t)
           load == artifacts["consumption"]
           y == YearTerms(load, made, given.schedule, given.export)
<1>1. t \in Nat \ {0}
  BY DEF Sound
<1>2. made \in [Hour -> Nat]
  <2>1. b.dc \in [Hour -> Nat] /\ b.loss \in Int /\ b.loss <= b.loss /\ \A h \in Hour : b.dc[h] <= b.dc[h]
    BY DEF Sound
  <2> QED BY <1>1, <2>1, ProductionFades
<1>3. load \in [Hour -> Int]
  BY DEF IInv, TypeOK
<1>4. /\ ~Uncovered(given.schedule, load)
      /\ given.export # None => ~CreditRaises(given.export, given.schedule, NetOf(load, made))
  BY DEF Sound, Fails
<1>5. given.schedule \in Schedule
  BY GivenTypes DEF IInv, Refuses
<1>6. given.export # None => Creditable(given.export, given.schedule, NetOf(load, made))
  BY <1>4, CreditableLemma DEF IInv
<1>7. Billable(load, given.schedule, given.export, NetOf(load, made))
  BY <1>4, <1>5, <1>6 DEF Billable
<1> HIDE DEF made
<1>8. y.avoidance \in Int /\ y.credit \in Int
  <2>1. /\ YearCharge(given.schedule, load) \in Nat
        /\ YearCharge(given.schedule, NetOf(load, made)) \in Nat
        /\ y.avoidance = YearCharge(given.schedule, load)
                           - YearCharge(given.schedule, NetOf(load, made))
        /\ y.credit \in Int
    BY <1>2, <1>3, <1>7, YearLemma
  <2> QED BY <2>1
<1>9. Gain(b, t) = y.avoidance + y.credit
  BY DEF Gain, made
<1>10. Gain(b, t) \in Int
  <2> HIDE DEF y
  <2> QED BY <1>8, <1>9
<1> QED BY <1>2, <1>3, <1>7, <1>8, <1>9, <1>10 DEF made, load, y

\* The flows of a bundle: the outlay, then what its years save.
LEMMA BundleFlows ==
  ASSUME IInv, ~Refuses, NEW b, Sound(b)
  PROVE  /\ DOMAIN FlowsOf(b) = 0..b.financial.years
         /\ FlowsOf(b)[0] = -Outlay(b) /\ Outlay(b) \in Nat
         /\ \A t \in 1..b.financial.years :
              /\ FlowsOf(b)[t] = Gain(b, t) - b.financial.opex - DebtService(t)
              /\ Gain(b, t) \in Int /\ DebtService(t) \in Int
         /\ \A t \in 0..b.financial.years : FlowsOf(b)[t] \in Int
<1> DEFINE n == b.financial.years
           flows == FlowsOf(b)
<1>1. n \in Nat \ {0} /\ b.financial.opex \in Nat
  BY DEF Sound
<1>2. Outlay(b) \in Nat
  BY DEF Sound, Outlay
<1>3. DOMAIN flows = 0..n
  BY DEF FlowsOf
<1>4. flows[0] = -Outlay(b)
  <2>1. 0 \in 0..n
    BY <1>1
  <2> QED BY <2>1 DEF FlowsOf, Outlay
<1>5. ASSUME NEW t \in 1..n
      PROVE  /\ flows[t] = Gain(b, t) - b.financial.opex - DebtService(t)
             /\ Gain(b, t) \in Int /\ DebtService(t) \in Int /\ flows[t] \in Int
  <2>1. t \in 0..n /\ t # 0 /\ t \in Nat
    BY <1>1
  <2> DEFINE y == YearTerms(artifacts["consumption"], BundleProduction(b, t),
                            given.schedule, given.export)
  <2>3. /\ Gain(b, t) \in Int /\ y.avoidance \in Int /\ y.credit \in Int
        /\ Gain(b, t) = y.avoidance + y.credit
    BY BundleYear
  <2>4. DebtService(t) \in Int
    BY <2>1, ServiceLemma
  <2>2. flows[t] = Gain(b, t) - b.financial.opex - DebtService(t)
    <3>1. flows[t] = y.avoidance + y.credit - b.financial.opex - DebtService(t)
      BY <2>1 DEF FlowsOf
    <3>2. \A i, j, k, l \in Int : i + j - k - l = (i + j) - k - l
      OBVIOUS
    <3> DEFINE saved == y.avoidance
               credit == y.credit
               opex == b.financial.opex
               debt == DebtService(t)
    <3>3. saved \in Int /\ credit \in Int /\ opex \in Int /\ debt \in Int
      BY <1>1, <2>3, <2>4
    <3>4. flows[t] = saved + credit - opex - debt /\ Gain(b, t) = saved + credit
      BY <2>3, <3>1
    <3> HIDE DEF saved, credit, opex, debt, flows
    <3>5. flows[t] = Gain(b, t) - opex - debt
      BY <3>2, <3>3, <3>4
    <3> QED BY <3>5 DEF opex, debt
  <2> HIDE DEF flows
  <2>5. flows[t] \in Int
    BY <1>1, <2>2, <2>3, <2>4
  <2> QED BY <2>2, <2>3, <2>4, <2>5
<1> HIDE DEF flows
<1>6. \A t \in 0..n : flows[t] \in Int
  <2> TAKE t \in 0..n
  <2>1. CASE t = 0
    BY <1>2, <1>4, <2>1
  <2>2. CASE t # 0
    <3>1. t \in 1..n
      BY <1>1, <2>2
    <3> QED BY <1>5, <3>1
  <2> QED BY <2>1, <2>2
<1> QED BY <1>2, <1>3, <1>4, <1>5, <1>6 DEF flows

\* Where export never costs money, a bundle whose panels yield no more in any
\* hour of any year has no flow that is higher.
LEMMA FlowsFade ==
  ASSUME IInv, ~Refuses, CalmExport, NEW b, NEW c, Sound(b), Sound(c),
         c.financial.years = b.financial.years, c.financial.opex = b.financial.opex,
         Outlay(c) = Outlay(b),
         \A h \in Hour : c.dc[h] <= b.dc[h], b.loss <= c.loss
  PROVE  \A t \in 0..b.financial.years : FlowsOf(c)[t] <= FlowsOf(b)[t]
<1> DEFINE n == b.financial.years
           load == artifacts["consumption"]
           s == given.schedule
           export == given.export
           f == FlowsOf(b)
           g == FlowsOf(c)
<1>1. /\ n \in Nat \ {0} /\ b.financial.opex \in Nat
      /\ b.dc \in [Hour -> Nat] /\ c.dc \in [Hour -> Nat] /\ b.loss \in Int /\ c.loss \in Int
  BY DEF Sound
<1>2. /\ f[0] = -Outlay(b) /\ Outlay(b) \in Nat
      /\ \A t \in 1..n : /\ f[t] = Gain(b, t) - b.financial.opex - DebtService(t)
                         /\ Gain(b, t) \in Int /\ DebtService(t) \in Int
  BY BundleFlows
<1>3. /\ g[0] = -Outlay(c)
      /\ \A t \in 1..n : /\ g[t] = Gain(c, t) - c.financial.opex - DebtService(t)
                         /\ Gain(c, t) \in Int
  BY BundleFlows
<1>4. export = None \/ export.regime \in {"nem_one_for_one", "seg_flat"}
  BY DEF CalmExport
<1>5. ASSUME NEW t \in 1..n PROVE Gain(c, t) <= Gain(b, t)
  <2> DEFINE early == BundleProduction(b, t)
             late == BundleProduction(c, t)
             e == YearTerms(load, early, s, export)
             l == YearTerms(load, late, s, export)
  <2>1. t \in Nat \ {0} /\ t \in 1..c.financial.years
    BY <1>1
  <2>2. /\ early \in [Hour -> Nat] /\ late \in [Hour -> Nat] /\ \A h \in Hour : late[h] <= early[h]
    BY <1>1, <2>1, ProductionFades
  <2>3. load \in [Hour -> Int] /\ Billable(load, s, export, NetOf(load, early))
        /\ Gain(b, t) = e.avoidance + e.credit
    BY BundleYear
  <2>4. Billable(load, s, export, NetOf(load, late)) /\ Gain(c, t) = l.avoidance + l.credit
    BY <2>1, BundleYear
  <2> HIDE DEF early, late, load, s, export
  <2>5. l.avoidance + l.credit <= e.avoidance + e.credit
    BY <1>4, <2>2, <2>3, <2>4, SavingsFade
  <2> HIDE DEF e, l
  <2> QED BY <2>3, <2>4, <2>5
<1>6. ASSUME NEW t \in 1..n PROVE g[t] <= f[t]
  <2>1. \A x, y, z, w \in Int : x <= y => x - z - w <= y - z - w
    OBVIOUS
  <2>2. /\ Gain(b, t) \in Int /\ Gain(c, t) \in Int /\ b.financial.opex \in Int
        /\ DebtService(t) \in Int
    BY <1>1, <1>2, <1>3
  <2>3. /\ f[t] = Gain(b, t) - b.financial.opex - DebtService(t)
        /\ g[t] = Gain(c, t) - b.financial.opex - DebtService(t)
    BY <1>2, <1>3
  <2> HIDE DEF f, g
  <2> QED BY <1>5, <2>1, <2>2, <2>3
<1> HIDE DEF f, g
<1>7. g[0] <= f[0]
  BY <1>2, <1>3
<1>8. \A t \in 0..n : t = 0 \/ t \in 1..n
  BY <1>1
<1> QED BY <1>6, <1>7, <1>8 DEF f, g

\* So its NPV is none the higher at any rate.
LEMMA NpvFades ==
  ASSUME IInv, ~Refuses, CalmExport, NEW b, NEW c, Sound(b), Sound(c),
         c.financial.years = b.financial.years, c.financial.opex = b.financial.opex,
         Outlay(c) = Outlay(b),
         \A h \in Hour : c.dc[h] <= b.dc[h], b.loss <= c.loss, NEW r \in Nat \ {0}
  PROVE  Npv(r, FlowsOf(c)) <= Npv(r, FlowsOf(b))
<1> DEFINE n == b.financial.years
           f == FlowsOf(b)
           g == FlowsOf(c)
<1>1. n \in Nat
  BY DEF Sound
<1>2. DOMAIN f = 0..n /\ \A t \in 0..n : f[t] \in Int
  BY BundleFlows
<1>3. DOMAIN g = 0..n /\ \A t \in 0..n : g[t] \in Int
  BY BundleFlows
<1>4. \A t \in 0..n : g[t] <= f[t]
  BY FlowsFade
<1> HIDE DEF n, f, g
<1> QED BY <1>1, <1>2, <1>3, <1>4, NpvRises DEF f, g

\* The flows are those of the bundle's fields; the escalation and the discount
\* are none of them.
LEMMA SameFlows ==
  ASSUME NEW b, NEW c, c.dc = b.dc, c.loss = b.loss,
         c.financial.years = b.financial.years, c.financial.opex = b.financial.opex,
         c.financial.loan = b.financial.loan, c.financial.cost = b.financial.cost
  PROVE  FlowsOf(c) = FlowsOf(b)
<1>1. \A t : BundleProduction(c, t) = BundleProduction(b, t)
  BY DEF BundleProduction
<1> QED BY <1>1 DEF FlowsOf

\* What a year saves is of the sun and the ageing only.
LEMMA SameGain ==
  ASSUME NEW b, NEW c, c.dc = b.dc, c.loss = b.loss
  PROVE  \A t : Gain(c, t) = Gain(b, t)
BY DEF Gain, BundleProduction

----------------------------------------------------------------------------
\* Rows of the tornado

BaseFacts ==
  /\ artifacts["dc_production"] \in [Hour -> Nat] /\ AnnualLoss \in Nat
  /\ given.financial \in FinancialInputs
  /\ given.financial.years \in Nat \ {0} /\ given.financial.discount \in Nat \ {0}
  /\ given.financial.opex \in Nat /\ given.financial.cost \in Nat
  /\ given.financial.loan # None => given.financial.loan.down \in Nat

LEMMA BaseLemma == IInv /\ ~Refuses => BaseFacts
<1> SUFFICES ASSUME IInv, ~Refuses PROVE BaseFacts
  OBVIOUS
<1>1. artifacts["dc_production"] \in [Hour -> Nat]
  BY DEF IInv, TypeOK, Refuses, Absent
<1>2. AnnualLoss \in Nat
  BY EngineAssumption
<1>3. /\ given.financial \in FinancialInputs
      /\ given.financial.years \in Nat \ {0} /\ given.financial.discount \in Nat \ {0}
      /\ given.financial.opex \in Nat /\ given.financial.cost \in Nat \cup {None}
      /\ given.financial.loan # None => given.financial.loan.down \in Nat
  BY FinancialTypes DEF IInv
<1>4. given.financial.cost # None
  BY DEF Refuses
<1> QED BY <1>1, <1>2, <1>3, <1>4 DEF BaseFacts

\* Each axis moves one field of the baseline, the hold its curve as well.
LEMMA PerturbedFields ==
  ASSUME BaseFacts, NEW axis \in AxisName, NEW by \in Int
  PROVE  LET c == Perturbed(Baseline0, axis, by)
             f == given.financial
             dc == artifacts["dc_production"]
         IN /\ c.dc = IF axis = "weather" THEN Scaled(dc, 2 + by) ELSE dc
            /\ c.loss = IF axis = "annual_loss" THEN Positive(AnnualLoss + by) ELSE AnnualLoss
            /\ c.financial.years = IF axis = "hold_years" THEN Greatest(1, f.years + by)
                                   ELSE f.years
            /\ c.financial.cost = IF axis = "system_cost" THEN (f.cost * (2 + by)) \div 2
                                  ELSE f.cost
            /\ c.financial.discount = IF axis = "discount_rate"
                                      THEN Greatest(1, f.discount + by) ELSE f.discount
            /\ c.financial.opex = f.opex /\ c.financial.loan = f.loan
<1> DEFINE b == Baseline0
           f == given.financial
           c == Perturbed(b, axis, by)
           dc == artifacts["dc_production"]
<1>1. b = [dc |-> dc, loss |-> AnnualLoss, hold |-> f.years, financial |-> f]
  BY DEF Baseline0
<1>2. f \in FinancialInputs
  BY DEF BaseFacts
<1>3. f = [cost |-> f.cost, opex |-> f.opex, years |-> f.years, discount |-> f.discount,
           escalation |-> f.escalation, loan |-> f.loan]
  BY <1>2 DEF FinancialInputs
<1>4. axis \in {"weather", "rate_escalation", "annual_loss",
                "hold_years", "system_cost", "discount_rate"}
  BY DEF AxisName, AXES
<1> HIDE DEF f, dc, b
<1>5. CASE axis = "weather"
  <2>1. c = [b EXCEPT !.dc = Scaled(b.dc, 2 + by)]
    BY <1>5 DEF Perturbed
  <2> HIDE DEF c
  <2> QED BY <1>1, <1>5, <2>1 DEF b, c, f, dc
<1>6. CASE axis = "rate_escalation"
  <2>1. c = [b EXCEPT !.financial.escalation = @ + by]
    BY <1>6 DEF Perturbed
  <2> HIDE DEF c
  <2>2. c = [dc |-> dc, loss |-> AnnualLoss, hold |-> f.years,
             financial |-> [f EXCEPT !.escalation = @ + by]]
    BY <1>1, <2>1
  <2> QED BY <1>3, <1>6, <2>2 DEF b, c, f, dc
<1>7. CASE axis = "annual_loss"
  <2>1. c = [b EXCEPT !.loss = Positive(@ + by)]
    BY <1>7 DEF Perturbed
  <2> HIDE DEF c
  <2> QED BY <1>1, <1>7, <2>1 DEF b, c, f, dc
<1>8. CASE axis = "hold_years"
  <2> DEFINE hold == Greatest(1, b.financial.years + by)
  <2>1. c = [b EXCEPT !.hold = hold, !.financial.years = hold]
    BY <1>8 DEF Perturbed
  <2>2. hold = Greatest(1, f.years + by)
    BY <1>1
  <2> HIDE DEF c, hold
  <2>3. c = [dc |-> dc, loss |-> AnnualLoss, hold |-> hold,
             financial |-> [f EXCEPT !.years = hold]]
    BY <1>1, <2>1
  <2> QED BY <1>3, <1>8, <2>2, <2>3 DEF b, c, f, dc
<1>9. CASE axis = "system_cost"
  <2>1. c = [b EXCEPT !.financial.cost = (@ * (2 + by)) \div 2]
    BY <1>9 DEF Perturbed
  <2> DEFINE cost == (f.cost * (2 + by)) \div 2
  <2>2. c = [dc |-> dc, loss |-> AnnualLoss, hold |-> f.years,
             financial |-> [f EXCEPT !.cost = cost]]
    BY <1>1, <2>1
  <2> HIDE DEF c, cost
  <2>3. c.financial.cost = cost /\ c.financial.years = f.years /\ c.dc = dc /\ c.loss = AnnualLoss
        /\ c.financial.discount = f.discount /\ c.financial.opex = f.opex
        /\ c.financial.loan = f.loan
    BY <1>3, <2>2
  <2> QED BY <1>9, <2>3 DEF b, c, f, dc, cost
<1>10. CASE axis = "discount_rate"
  <2>1. c = [b EXCEPT !.financial.discount = Greatest(1, @ + by)]
    BY <1>10 DEF Perturbed
  <2>2. c = [dc |-> dc, loss |-> AnnualLoss, hold |-> f.years,
             financial |-> [f EXCEPT !.discount = Greatest(1, f.discount + by)]]
    BY <1>1, <2>1
  <2> HIDE DEF c
  <2> QED BY <1>3, <1>10, <2>2 DEF b, c, f, dc
<1> QED BY <1>4, <1>5, <1>6, <1>7, <1>8, <1>9, <1>10

LEMMA BaselineSound ==
  ASSUME IInv, ~Refuses, ~Fails(Baseline0)
  PROVE  /\ Sound(Baseline0) /\ Baseline0.dc = artifacts["dc_production"]
         /\ Baseline0.loss = AnnualLoss /\ Baseline0.financial = given.financial
<1> DEFINE b == Baseline0
<1>1. /\ b.dc = artifacts["dc_production"] /\ b.loss = AnnualLoss
      /\ b.financial = given.financial
  BY DEF Baseline0
<1>2. BaseFacts /\ ~Fails(b)
  BY BaseLemma
<1> HIDE DEF b
<1> QED BY <1>1, <1>2 DEF Sound, BaseFacts, b

\* A baseline moved along an axis is a bundle like it, unless it fails.
LEMMA PerturbedSound ==
  ASSUME IInv, ~Refuses, NEW s \in Sensitivities, NEW axis \in AxisName,
         NEW by \in {s[axis], -s[axis]}, ~Fails(Perturbed(Baseline0, axis, by))
  PROVE  Sound(Perturbed(Baseline0, axis, by))
<1> DEFINE c == Perturbed(Baseline0, axis, by)
           f == given.financial
           dc == artifacts["dc_production"]
<1>1. /\ dc \in [Hour -> Nat] /\ AnnualLoss \in Nat
      /\ f.years \in Nat \ {0} /\ f.discount \in Nat \ {0}
      /\ f.opex \in Nat /\ f.cost \in Nat /\ (f.loan # None => f.loan.down \in Nat)
  BY BaseLemma DEF BaseFacts
<1>2. s[axis] \in Nat /\ by \in Int
  BY AnalysisAssumption
<1>3. axis \in {"weather", "system_cost"} => 2 + by \in Nat
  <2>1. s["weather"] \in {0, 1} /\ s["system_cost"] \in {0, 1}
    BY AnalysisAssumption
  <2> QED BY <2>1
<1>4. /\ c.dc = IF axis = "weather" THEN Scaled(dc, 2 + by) ELSE dc
      /\ c.loss = IF axis = "annual_loss" THEN Positive(AnnualLoss + by) ELSE AnnualLoss
      /\ c.financial.years = IF axis = "hold_years" THEN Greatest(1, f.years + by)
                             ELSE f.years
      /\ c.financial.cost = IF axis = "system_cost" THEN (f.cost * (2 + by)) \div 2
                            ELSE f.cost
      /\ c.financial.discount = IF axis = "discount_rate"
                                THEN Greatest(1, f.discount + by) ELSE f.discount
      /\ c.financial.opex = f.opex /\ c.financial.loan = f.loan
  BY <1>2, BaseLemma, PerturbedFields
<1>5. ~Fails(c)
  OBVIOUS
<1> HIDE DEF c, f, dc
<1>6. c.dc \in [Hour -> Nat]
  <2>1. axis = "weather" => Scaled(dc, 2 + by) \in [Hour -> Nat]
    <3> SUFFICES ASSUME axis = "weather" PROVE Scaled(dc, 2 + by) \in [Hour -> Nat]
      OBVIOUS
    <3>1. 2 + by \in Nat /\ 2 + by <= 2 + by
      BY <1>3
    <3> QED BY <1>1, <3>1, ScaledRises
  <2> QED BY <1>1, <1>4, <2>1
<1>7. c.loss \in Int
  BY <1>1, <1>2, <1>4 DEF Positive
<1>8. c.financial.years \in Nat \ {0} /\ c.financial.discount \in Nat \ {0}
  <2>1. \A x \in Nat : Greatest(1, x + by) \in Nat \ {0}
    BY <1>2 DEF Greatest
  <2> QED BY <1>1, <1>4, <2>1
<1>9. c.financial.cost \in Nat
  <2>1. axis = "system_cost" => (f.cost * (2 + by)) \div 2 \in Nat
    <3>1. \A x, y \in Nat : (x * y) \div 2 \in Nat
      <4>1. \A x, y \in Nat : x * y \in Nat
        OBVIOUS
      <4>2. \A x \in Nat : x \div 2 \in Nat
        OBVIOUS
      <4> QED BY <4>1, <4>2
    <3> QED BY <1>1, <1>3, <3>1
  <2> QED BY <1>1, <1>4, <2>1
<1>10. c.financial.opex \in Nat /\ (c.financial.loan # None => c.financial.loan.down \in Nat)
  BY <1>1, <1>4
<1>11. Sound(c)
  BY <1>5, <1>6, <1>7, <1>8, <1>9, <1>10 DEF Sound
<1> QED BY <1>11 DEF c

\* a row of the table, for an axis that is switched on
Row(s, name) == [name |-> name, low |-> NpvOf(Perturbed(Baseline0, name, -s[name])),
                 high |-> NpvOf(Perturbed(Baseline0, name, s[name]))]

Evaluated(s, name) ==
  /\ name \in AxisName /\ s[name] > 0
  /\ ~Fails(Perturbed(Baseline0, name, -s[name])) /\ ~Fails(Perturbed(Baseline0, name, s[name]))

LEMMA NpvOfSound ==
  ASSUME IInv, ~Refuses, NEW b, Sound(b)
  PROVE  NpvOf(b) \in Int
<1> DEFINE n == b.financial.years
           f == FlowsOf(b)
           r == b.financial.discount
<1>1. n \in Nat /\ r \in Nat \ {0}
  BY DEF Sound
<1>2. DOMAIN f = 0..n /\ \A t \in 0..n : f[t] \in Int
  BY BundleFlows
<1> HIDE DEF n, f, r
<1>3. Npv(r, f) \in Int
  BY <1>1, <1>2, NpvType
<1> QED BY <1>3 DEF NpvOf, r, f

\* what every row is compared by
LEMMA RowFields ==
  ASSUME IInv, ~Refuses, ~Fails(Baseline0), NEW s \in Sensitivities, NEW name,
         Evaluated(s, name)
  PROVE  LET low  == Perturbed(Baseline0, name, -s[name])
             high == Perturbed(Baseline0, name, s[name])
         IN /\ s[name] \in Nat \ {0} /\ -s[name] \in Int
            /\ Sound(Baseline0) /\ Sound(low) /\ Sound(high)
            /\ NpvOf(Baseline0) \in Int /\ NpvOf(low) \in Int /\ NpvOf(high) \in Int
<1> DEFINE low  == Perturbed(Baseline0, name, -s[name])
           high == Perturbed(Baseline0, name, s[name])
<1>1. s[name] \in Nat \ {0} /\ -s[name] \in Int /\ name \in AxisName
  BY AnalysisAssumption DEF Evaluated
<1>2. Sound(Baseline0)
  BY BaselineSound
<1>3. Sound(low) /\ Sound(high)
  <2>1. -s[name] \in {s[name], -s[name]} /\ s[name] \in {s[name], -s[name]}
    OBVIOUS
  <2>2. ~Fails(low) /\ ~Fails(high)
    BY DEF Evaluated
  <2> QED BY <1>1, <2>1, <2>2, PerturbedSound
<1> QED BY <1>1, <1>2, <1>3, NpvOfSound

\* Bundles that no field tells apart but the one a comparison is about.
Alike(b, c) ==
  /\ Sound(b) /\ Sound(c)
  /\ c.financial.years = b.financial.years /\ c.financial.opex = b.financial.opex
  /\ c.financial.loan = b.financial.loan /\ c.financial.cost = b.financial.cost
  /\ c.financial.discount = b.financial.discount

\* Less sun or faster ageing: none the higher.
LEMMA LessSun ==
  ASSUME IInv, ~Refuses, CalmExport, NEW b, NEW c, Alike(b, c),
         \A h \in Hour : c.dc[h] <= b.dc[h], b.loss <= c.loss
  PROVE  NpvOf(c) <= NpvOf(b)
<1> DEFINE r == b.financial.discount
<1>1. /\ Sound(b) /\ Sound(c) /\ c.financial.discount = r
      /\ c.financial.years = b.financial.years /\ c.financial.opex = b.financial.opex
      /\ Outlay(c) = Outlay(b)
  BY DEF Alike, Outlay
<1>2. r \in Nat \ {0}
  BY <1>1 DEF Sound
<1> HIDE DEF r
<1>3. Npv(r, FlowsOf(c)) <= Npv(r, FlowsOf(b))
  BY <1>1, <1>2, NpvFades
<1> QED BY <1>1, <1>3 DEF NpvOf, r

\* A longer hold repeats the years of a shorter one.
LEMMA SameYears ==
  ASSUME IInv, ~Refuses, NEW b, NEW c, Sound(b), Sound(c), c.dc = b.dc, c.loss = b.loss,
         b.financial.years <= c.financial.years, c.financial.opex = b.financial.opex,
         Outlay(c) = Outlay(b)
  PROVE  \A t \in 0..b.financial.years : FlowsOf(b)[t] = FlowsOf(c)[t]
<1> DEFINE n == b.financial.years
           m == c.financial.years
           f == FlowsOf(b)
           g == FlowsOf(c)
<1>1. n \in Nat \ {0} /\ m \in Nat \ {0}
  BY DEF Sound
<1>2. /\ f[0] = -Outlay(b)
      /\ \A t \in 1..n : f[t] = Gain(b, t) - b.financial.opex - DebtService(t)
  BY BundleFlows
<1>3. /\ g[0] = -Outlay(c)
      /\ \A t \in 1..m : g[t] = Gain(c, t) - c.financial.opex - DebtService(t)
  BY BundleFlows
<1>4. \A t : Gain(c, t) = Gain(b, t)
  BY SameGain
<1>5. g[0] = f[0] /\ c.financial.opex = b.financial.opex /\ n <= m
  BY <1>2, <1>3
<1> HIDE DEF n, m, f, g
<1>6. \A t \in 0..n : f[t] = g[t]
  <2> TAKE t \in 0..n
  <2>1. CASE t = 0
    BY <1>5, <2>1
  <2>2. CASE t # 0
    <3>1. t \in 1..n /\ t \in 1..m
      BY <1>1, <1>5, <2>2
    <3> QED BY <1>2, <1>3, <1>4, <1>5, <3>1
  <2> QED BY <2>1, <2>2
<1> QED BY <1>6 DEF n, f, g

\* More years that cost nothing: none the lower.
LEMMA LongerHold ==
  ASSUME IInv, ~Refuses, NEW b, NEW c, Sound(b), Sound(c), c.dc = b.dc, c.loss = b.loss,
         b.financial.years <= c.financial.years, c.financial.opex = b.financial.opex,
         Outlay(c) = Outlay(b), c.financial.discount = b.financial.discount,
         \A t \in (b.financial.years + 1)..c.financial.years : FlowsOf(c)[t] >= 0
  PROVE  NpvOf(b) <= NpvOf(c)
<1> DEFINE n == b.financial.years
           m == c.financial.years
           r == b.financial.discount
           f == FlowsOf(b)
           g == FlowsOf(c)
<1>1. n \in Nat \ {0} /\ m \in Nat \ {0} /\ r \in Nat \ {0}
  BY DEF Sound
<1>2. DOMAIN f = 0..n
  BY BundleFlows
<1>3. DOMAIN g = 0..m /\ \A t \in 0..m : g[t] \in Int
  BY BundleFlows
<1>4. NpvOf(b) = Npv(r, f) /\ NpvOf(c) = Npv(r, g)
  BY DEF NpvOf
<1>5. n <= m /\ \A t \in (n + 1)..m : g[t] >= 0
  OBVIOUS
<1>6. \A t \in 0..n : f[t] = g[t]
  BY SameYears
<1> HIDE DEF n, m, r, f, g
<1>7. Npv(r, f) <= Npv(r, g)
  BY <1>1, <1>2, <1>3, <1>5, <1>6, NpvGrows
<1> QED BY <1>4, <1>7

\* A higher outlay on the same years: none the higher.
LEMMA DearerOutlay ==
  ASSUME IInv, ~Refuses, NEW b, NEW c, Sound(b), Sound(c), c.dc = b.dc, c.loss = b.loss,
         c.financial.years = b.financial.years, c.financial.opex = b.financial.opex,
         Outlay(b) <= Outlay(c), c.financial.discount = b.financial.discount
  PROVE  NpvOf(c) <= NpvOf(b)
<1> DEFINE n == b.financial.years
           r == b.financial.discount
           f == FlowsOf(b)
           g == FlowsOf(c)
<1>1. n \in Nat \ {0} /\ r \in Nat \ {0}
  BY DEF Sound
<1>2. /\ DOMAIN f = 0..n /\ f[0] = -Outlay(b) /\ Outlay(b) \in Nat
      /\ \A t \in 1..n : f[t] = Gain(b, t) - b.financial.opex - DebtService(t)
      /\ \A t \in 0..n : f[t] \in Int
  BY BundleFlows
<1>3. /\ DOMAIN g = 0..n /\ g[0] = -Outlay(c) /\ Outlay(c) \in Nat
      /\ \A t \in 1..n : g[t] = Gain(c, t) - b.financial.opex - DebtService(t)
      /\ \A t \in 0..n : g[t] \in Int
  BY BundleFlows
<1>4. \A t : Gain(c, t) = Gain(b, t)
  BY SameGain
<1>5. NpvOf(b) = Npv(r, f) /\ NpvOf(c) = Npv(r, g)
  BY DEF NpvOf
<1>6. g[0] <= f[0]
  <2>1. \A x, y \in Nat : x <= y => -y <= -x
    OBVIOUS
  <2> HIDE DEF f, g
  <2> QED BY <1>2, <1>3, <2>1
<1> HIDE DEF n, r, f, g
<1>8. \A t \in 0..n : g[t] <= f[t]
  <2> TAKE t \in 0..n
  <2>1. CASE t = 0
    BY <1>6, <2>1
  <2>2. CASE t # 0
    <3>1. t \in 1..n
      BY <1>1, <2>2
    <3>2. f[t] = g[t]
      BY <1>2, <1>3, <1>4, <3>1
    <3> QED BY <1>2, <3>2
  <2> QED BY <2>1, <2>2
<1>9. Npv(r, g) <= Npv(r, f)
  BY <1>1, <1>2, <1>3, <1>8, NpvRises
<1> QED BY <1>5, <1>9

\* A higher rate on years that cost nothing: none the higher.
LEMMA DearerMoney ==
  ASSUME IInv, ~Refuses, NEW b, NEW c, Sound(b), Sound(c), FlowsOf(c) = FlowsOf(b),
         b.financial.discount <= c.financial.discount,
         \A t \in 1..b.financial.years : FlowsOf(b)[t] >= 0
  PROVE  NpvOf(c) <= NpvOf(b)
<1> DEFINE n == b.financial.years
           r == b.financial.discount
           q == c.financial.discount
           f == FlowsOf(b)
<1>1. n \in Nat \ {0} /\ r \in Nat \ {0} /\ q \in Nat \ {0}
  BY DEF Sound
<1>2. DOMAIN f = 0..n /\ \A t \in 0..n : f[t] \in Int
  BY BundleFlows
<1>3. NpvOf(b) = Npv(r, f) /\ NpvOf(c) = Npv(q, f)
  BY DEF NpvOf
<1>4. r <= q /\ \A t \in 1..n : f[t] >= 0
  OBVIOUS
<1> HIDE DEF n, r, q, f
<1>5. Npv(q, f) <= Npv(r, f)
  BY <1>1, <1>2, <1>4, NpvFallsWithRate
<1> QED BY <1>3, <1>5
\* the sides of the anchor a row may lie on
Rises(row) == row.low <= NpvOf(Baseline0) /\ NpvOf(Baseline0) <= row.high
Falls(row) == row.high <= NpvOf(Baseline0) /\ NpvOf(Baseline0) <= row.low

\* A row lies where its axis says, around the NPV of the baseline.
LEMMA RowPoints ==
  ASSUME IInv, ~Refuses, ~Fails(Baseline0), NEW s \in Sensitivities, NEW name, Evaluated(s, name)
  PROVE  LET row    == Row(s, name)
             high   == Perturbed(Baseline0, name, s[name])
             inflow == \A t \in 1..high.financial.years : FlowsOf(high)[t] >= 0
         IN /\ name = "weather" => (CalmExport => Rises(row))
            /\ name = "rate_escalation" => Rises(row)
            /\ name = "annual_loss" => (CalmExport => Falls(row))
            /\ name = "hold_years" => (inflow => Rises(row))
            /\ name = "system_cost" => Falls(row)
            /\ name = "discount_rate" => (inflow => Falls(row))
<1> DEFINE by   == s[name]
           base == Baseline0
           low  == Perturbed(Baseline0, name, -by)
           high == Perturbed(Baseline0, name, by)
           row  == Row(s, name)
           f    == given.financial
           dc   == artifacts["dc_production"]
           inflow == \A t \in 1..high.financial.years : FlowsOf(high)[t] >= 0
<1>1. by \in Nat \ {0} /\ -by \in Int /\ Sound(base) /\ Sound(low) /\ Sound(high)
  BY RowFields
<1>2. row.low = NpvOf(low) /\ row.high = NpvOf(high)
  BY DEF Row
<1>3. /\ base.dc = dc /\ base.loss = AnnualLoss /\ base.financial = f
      /\ dc \in [Hour -> Nat] /\ AnnualLoss \in Nat /\ f.years \in Nat \ {0}
      /\ f.discount \in Nat \ {0} /\ f.cost \in Nat
  BY BaselineSound, BaseLemma DEF BaseFacts
<1>4. name \in AxisName
  BY DEF Evaluated
<1>5. /\ low.dc = IF name = "weather" THEN Scaled(dc, 2 + (-by)) ELSE dc
      /\ low.loss = IF name = "annual_loss" THEN Positive(AnnualLoss + (-by)) ELSE AnnualLoss
      /\ low.financial.years = IF name = "hold_years" THEN Greatest(1, f.years + (-by))
                               ELSE f.years
      /\ low.financial.cost = IF name = "system_cost" THEN (f.cost * (2 + (-by))) \div 2
                              ELSE f.cost
      /\ low.financial.discount = IF name = "discount_rate"
                                  THEN Greatest(1, f.discount + (-by)) ELSE f.discount
      /\ low.financial.opex = f.opex /\ low.financial.loan = f.loan
  BY <1>1, <1>4, BaseLemma, PerturbedFields
<1>6. /\ high.dc = IF name = "weather" THEN Scaled(dc, 2 + by) ELSE dc
      /\ high.loss = IF name = "annual_loss" THEN Positive(AnnualLoss + by) ELSE AnnualLoss
      /\ high.financial.years = IF name = "hold_years" THEN Greatest(1, f.years + by)
                                ELSE f.years
      /\ high.financial.cost = IF name = "system_cost" THEN (f.cost * (2 + by)) \div 2
                               ELSE f.cost
      /\ high.financial.discount = IF name = "discount_rate"
                                   THEN Greatest(1, f.discount + by) ELSE f.discount
      /\ high.financial.opex = f.opex /\ high.financial.loan = f.loan
  BY <1>1, <1>4, BaseLemma, PerturbedFields
<1>7. name \in {"weather", "system_cost"} => by = 1
  <2>1. s["weather"] \in {0, 1} /\ s["system_cost"] \in {0, 1}
    BY AnalysisAssumption
  <2> QED BY <1>1, <2>1
<1> HIDE DEF by, base, low, high, row, f, dc
<1>8. ASSUME name = "weather", CalmExport PROVE Rises(row)
  <2>1. by = 1 /\ low.dc = Scaled(dc, 1) /\ base.dc = Scaled(dc, 2) /\ high.dc = Scaled(dc, 3)
    <3>1. by = 1 /\ 2 + (-by) = 1 /\ 2 + by = 3
      BY <1>7, <1>8
    <3>2. Scaled(dc, 2) = dc
      BY <1>3, Unscaled
    <3> QED BY <1>3, <1>5, <1>6, <1>8, <3>1, <3>2
  <2>2. /\ \A h \in Hour : low.dc[h] <= base.dc[h]
        /\ \A h \in Hour : base.dc[h] <= high.dc[h]
    <3>1. \A h \in Hour : Scaled(dc, 1)[h] <= Scaled(dc, 2)[h]
      BY <1>3, ScaledRises
    <3>2. \A h \in Hour : Scaled(dc, 2)[h] <= Scaled(dc, 3)[h]
      BY <1>3, ScaledRises
    <3> QED BY <2>1, <3>1, <3>2
  <2>3. Alike(base, low) /\ Alike(high, base)
    BY <1>1, <1>3, <1>5, <1>6, <1>8 DEF Alike
  <2>4. base.loss <= low.loss /\ high.loss <= base.loss
    BY <1>3, <1>5, <1>6, <1>8
  <2>5. NpvOf(low) <= NpvOf(base)
    BY <1>8, <2>2, <2>3, <2>4, LessSun
  <2>6. NpvOf(base) <= NpvOf(high)
    BY <1>8, <2>2, <2>3, <2>4, LessSun
  <2> QED BY <1>2, <2>5, <2>6 DEF Rises, base
<1>9. ASSUME name = "rate_escalation" PROVE Rises(row)
  <2>1. FlowsOf(low) = FlowsOf(base) /\ FlowsOf(high) = FlowsOf(base)
    BY <1>3, <1>5, <1>6, <1>9, SameFlows
  <2>2. low.financial.discount = base.financial.discount
        /\ high.financial.discount = base.financial.discount
    BY <1>3, <1>5, <1>6, <1>9
  <2>3. NpvOf(low) = NpvOf(base) /\ NpvOf(high) = NpvOf(base)
    BY <2>1, <2>2 DEF NpvOf
  <2>4. NpvOf(base) \in Int
    BY <1>1, NpvOfSound
  <2> QED BY <1>2, <2>3, <2>4 DEF Rises, base
<1>10. ASSUME name = "annual_loss", CalmExport PROVE Falls(row)
  <2>1. low.loss <= base.loss /\ base.loss <= high.loss
    BY <1>1, <1>3, <1>5, <1>6, <1>10 DEF Positive
  <2>2. Alike(low, base) /\ Alike(base, high)
    BY <1>1, <1>3, <1>5, <1>6, <1>10 DEF Alike
  <2>3. low.dc = dc /\ base.dc = dc /\ high.dc = dc /\ \A h \in Hour : dc[h] <= dc[h]
    BY <1>3, <1>5, <1>6, <1>10
  <2>4. NpvOf(base) <= NpvOf(low)
    BY <1>10, <2>1, <2>2, <2>3, LessSun
  <2>5. NpvOf(high) <= NpvOf(base)
    BY <1>10, <2>1, <2>2, <2>3, LessSun
  <2> QED BY <1>2, <2>4, <2>5 DEF Falls, base
<1>11. ASSUME name = "hold_years", inflow PROVE Rises(row)
  <2>1. /\ low.financial.years \in Nat \ {0} /\ high.financial.years \in Nat
        /\ low.financial.years <= base.financial.years
        /\ base.financial.years <= high.financial.years
    BY <1>1, <1>3, <1>5, <1>6, <1>11 DEF Greatest
  <2>2. /\ low.dc = base.dc /\ high.dc = base.dc /\ low.loss = base.loss /\ high.loss = base.loss
        /\ low.financial.opex = base.financial.opex /\ high.financial.opex = base.financial.opex
        /\ low.financial.discount = base.financial.discount
        /\ high.financial.discount = base.financial.discount
        /\ Outlay(low) = Outlay(base) /\ Outlay(high) = Outlay(base)
    BY <1>3, <1>5, <1>6, <1>11 DEF Outlay
  <2>3. \A t \in 0..base.financial.years : FlowsOf(base)[t] = FlowsOf(high)[t]
    BY <1>1, <2>1, <2>2, SameYears
  <2>4. base.financial.years \in Nat
    BY <1>3
  <2>5. /\ \A t \in (low.financial.years + 1)..base.financial.years :
             t \in 0..base.financial.years /\ t \in 1..high.financial.years
        /\ \A t \in (base.financial.years + 1)..high.financial.years :
             t \in 1..high.financial.years
    BY <2>1, <2>4
  <2>6. NpvOf(low) <= NpvOf(base)
    <3>1. \A t \in (low.financial.years + 1)..base.financial.years : FlowsOf(base)[t] >= 0
      BY <1>11, <2>3, <2>5
    <3> QED BY <1>1, <2>1, <2>2, <3>1, LongerHold
  <2>7. NpvOf(base) <= NpvOf(high)
    <3>1. \A t \in (base.financial.years + 1)..high.financial.years : FlowsOf(high)[t] >= 0
      BY <1>11, <2>5
    <3> QED BY <1>1, <2>1, <2>2, <3>1, LongerHold
  <2> QED BY <1>2, <2>6, <2>7 DEF Rises, base
<1>12. ASSUME name = "system_cost" PROVE Falls(row)
  <2>1. by = 1 /\ 2 + (-by) = 1 /\ 2 + by = 3
    BY <1>7, <1>12
  <2>2. \A x \in Nat : (x * 1) \div 2 <= x /\ x <= (x * 3) \div 2
    OBVIOUS
  <2>3. low.financial.cost <= f.cost /\ f.cost <= high.financial.cost
    BY <1>3, <1>5, <1>6, <1>12, <2>1, <2>2
  <2>4. Outlay(low) <= Outlay(base) /\ Outlay(base) <= Outlay(high)
    <3>1. f.loan # None => f.loan.down \in Nat
      BY <1>1, <1>3 DEF Sound
    <3> QED BY <1>3, <1>5, <1>6, <1>12, <2>3, <3>1 DEF Outlay
  <2>5. /\ low.dc = base.dc /\ high.dc = base.dc /\ low.loss = base.loss /\ high.loss = base.loss
        /\ low.financial.opex = base.financial.opex /\ high.financial.opex = base.financial.opex
        /\ low.financial.discount = base.financial.discount
        /\ high.financial.discount = base.financial.discount
        /\ low.financial.years = base.financial.years
        /\ high.financial.years = base.financial.years
    BY <1>3, <1>5, <1>6, <1>12
  <2>6. NpvOf(base) <= NpvOf(low)
    BY <1>1, <2>4, <2>5, DearerOutlay
  <2>7. NpvOf(high) <= NpvOf(base)
    BY <1>1, <2>4, <2>5, DearerOutlay
  <2> QED BY <1>2, <2>6, <2>7 DEF Falls, base
<1>13. ASSUME name = "discount_rate", inflow PROVE Falls(row)
  <2>1. FlowsOf(low) = FlowsOf(base) /\ FlowsOf(high) = FlowsOf(base)
    BY <1>3, <1>5, <1>6, <1>13, SameFlows
  <2>2. low.financial.discount <= base.financial.discount
        /\ base.financial.discount <= high.financial.discount
    BY <1>1, <1>3, <1>5, <1>6, <1>13 DEF Greatest
  <2>3. low.financial.years = base.financial.years /\ high.financial.years = base.financial.years
    BY <1>3, <1>5, <1>6, <1>13
  <2>4. \A t \in 1..base.financial.years : FlowsOf(base)[t] >= 0
    BY <1>13, <2>1, <2>3
  <2>5. NpvOf(base) <= NpvOf(low)
    BY <1>1, <2>1, <2>2, <2>3, <2>4, DearerMoney
  <2>6. NpvOf(high) <= NpvOf(base)
    BY <1>1, <2>1, <2>2, <2>3, <2>4, DearerMoney
  <2> QED BY <1>2, <2>5, <2>6 DEF Falls, base
<1> QED BY <1>8, <1>9, <1>10, <1>11, <1>12, <1>13 DEF row, high, base, by

----------------------------------------------------------------------------
\* The table

\* where the catalogue has an axis
Slot(name) == CHOOSE i \in DOMAIN AXES : AXES[i] = name

LEMMA Catalogue ==
  /\ DOMAIN AXES = 1..6 /\ Len(AXES) = 6
  /\ \A a \in 1..6 : AXES[a] \in AxisName /\ Slot(AXES[a]) = a
  /\ \A name \in AxisName : Slot(name) \in 1..6 /\ AXES[Slot(name)] = name
<1>1. DOMAIN AXES = 1..6 /\ Len(AXES) = 6
  BY DEF AXES
<1>2. \A a, b \in 1..6 : AXES[a] = AXES[b] => a = b
  <2>1. /\ AXES[1] = "weather" /\ AXES[2] = "rate_escalation" /\ AXES[3] = "annual_loss"
        /\ AXES[4] = "hold_years" /\ AXES[5] = "system_cost" /\ AXES[6] = "discount_rate"
    BY DEF AXES
  <2>2. \A a \in 1..6 : a = 1 \/ a = 2 \/ a = 3 \/ a = 4 \/ a = 5 \/ a = 6
    OBVIOUS
  <2> QED BY <2>1, <2>2
<1>3. \A a \in 1..6 : AXES[a] \in AxisName /\ Slot(AXES[a]) = a
  <2> TAKE a \in 1..6
  <2>1. \E i \in DOMAIN AXES : AXES[i] = AXES[a]
    BY <1>1
  <2>2. Slot(AXES[a]) \in 1..6 /\ AXES[Slot(AXES[a])] = AXES[a]
    BY <1>1, <2>1 DEF Slot
  <2> QED BY <1>1, <1>2, <2>2 DEF AxisName
<1>4. \A name \in AxisName : Slot(name) \in 1..6 /\ AXES[Slot(name)] = name
  BY <1>1, <1>3 DEF AxisName
<1> QED BY <1>1, <1>3, <1>4

Rows(s) == {Row(s, name) : name \in AxisName}

\* the rows of the axes before one, as they come in the catalogue
Tabled(s, axis, rs) ==
  /\ rs \in Seq(Rows(s))
  /\ \A i \in 1..Len(rs) :
       /\ Evaluated(s, rs[i].name) /\ rs[i] = Row(s, rs[i].name)
       /\ Slot(rs[i].name) < axis
  /\ \A i, j \in 1..Len(rs) : i < j => Slot(rs[i].name) < Slot(rs[j].name)
  /\ \A a \in 1..6 : a < axis /\ s[AXES[a]] > 0 => \E i \in 1..Len(rs) : rs[i].name = AXES[a]

Table(status, s, axis, rs) ==
  [of |-> "tornado", status |-> status, sensitivity |-> s, bundle |-> Baseline0,
   anchor |-> NpvOf(Baseline0), axis |-> axis, rows |-> rs]

\* A table is built up along the catalogue, every row on the baseline itself,
\* and is sorted when it is complete.
TableOK ==
  /\ Tabulating =>
       /\ ~Refuses /\ ~Fails(Baseline0)
       /\ \E s \in Sensitivities, axis \in 1..7 : \E rs :
            Tabled(s, axis, rs) /\ call = Table("running", s, axis, rs)
  /\ Answered("tornado") =>
       /\ ~Refuses /\ ~Fails(Baseline0)
       /\ \E s \in Sensitivities : \E rs :
            Tabled(s, 7, rs) /\ call = Table("answered", s, 7, BySwing(rs))

\* Sorting by swing keeps the rows, the widest first and equal ones as they came.
LEMMA Sorted ==
  ASSUME IInv, ~Refuses, ~Fails(Baseline0), NEW s \in Sensitivities, NEW axis, NEW rs,
         Tabled(s, axis, rs)
  PROVE  LET n      == Len(rs)
             sorted == BySwing(rs)
         IN /\ DOMAIN sorted = 1..n
            /\ \A k \in 1..n : \E i \in 1..n : sorted[k] = rs[i]
            /\ \A i \in 1..n : \E k \in 1..n : sorted[k] = rs[i]
            /\ \A k, l \in 1..n : k < l =>
                 \/ Swing(sorted[k]) > Swing(sorted[l])
                 \/ /\ Swing(sorted[k]) = Swing(sorted[l])
                    /\ Slot(sorted[k].name) < Slot(sorted[l].name)
<1> DEFINE n == Len(rs)
           keys == [i \in DOMAIN rs |-> -Swing(rs[i])]
           order == InOrder(keys)
           sorted == BySwing(rs)
<1>1. n \in Nat /\ DOMAIN rs = 1..n
  <2>1. rs \in Seq(Rows(s))
    BY DEF Tabled
  <2> QED BY <2>1
<1>2. ASSUME NEW i \in 1..n PROVE Swing(rs[i]) \in Int
  <2> DEFINE name == rs[i].name
  <2>1. Evaluated(s, name) /\ rs[i] = Row(s, name)
    BY <1>2 DEF Tabled
  <2> HIDE DEF name
  <2>2. Row(s, name).low \in Int /\ Row(s, name).high \in Int
    BY <2>1, RowFields DEF Row
  <2> QED BY <2>1, <2>2 DEF Swing, Greatest
<1>3. DOMAIN keys = 1..n /\ \A i \in 1..n : keys[i] = -Swing(rs[i]) /\ keys[i] \in Int
  BY <1>1, <1>2
<1>4. DOMAIN sorted = 1..n /\ \A k \in 1..n : sorted[k] = rs[order[k]]
  BY <1>1 DEF BySwing
<1>5. \A i, j \in 1..n : i < j => Slot(rs[i].name) < Slot(rs[j].name)
  BY DEF Tabled
<1> HIDE DEF n, keys, sorted
<1>6. /\ \A k \in 1..n : order[k] \in 1..n
      /\ \A i \in 1..n : \E k \in 1..n : order[k] = i
      /\ \A k, l \in 1..n : k < l =>
           \/ keys[order[k]] < keys[order[l]]
           \/ keys[order[k]] = keys[order[l]] /\ order[k] < order[l]
  BY <1>1, <1>3, SortIsStable
<1> HIDE DEF order
<1>7. ASSUME NEW k \in 1..n, NEW l \in 1..n, k < l
      PROVE  \/ Swing(sorted[k]) > Swing(sorted[l])
             \/ /\ Swing(sorted[k]) = Swing(sorted[l])
                /\ Slot(sorted[k].name) < Slot(sorted[l].name)
  <2> DEFINE i == order[k]
             j == order[l]
             x == Swing(rs[i])
             y == Swing(rs[j])
  <2>1. i \in 1..n /\ j \in 1..n /\ sorted[k] = rs[i] /\ sorted[l] = rs[j]
    BY <1>4, <1>6
  <2>2. keys[i] < keys[j] \/ (keys[i] = keys[j] /\ i < j)
    BY <1>6, <1>7
  <2>3. keys[i] = -x /\ keys[j] = -y /\ x \in Int /\ y \in Int
    BY <1>2, <1>3, <2>1
  <2> HIDE DEF i, j, x, y
  <2>4. x > y \/ (x = y /\ i < j)
    BY <2>2, <2>3
  <2> QED BY <1>5, <2>1, <2>4 DEF x, y
<1>8. \A i \in 1..n : \E k \in 1..n : sorted[k] = rs[i]
  BY <1>4, <1>6
<1>9. \A k \in 1..n : \E i \in 1..n : sorted[k] = rs[i]
  BY <1>4, <1>6
<1> QED BY <1>4, <1>7, <1>8, <1>9 DEF n, sorted

\* Such a table is the one the property asks for.
LEMMA TableRight == IInv /\ TableOK => TornadoPointsRight
<1> SUFFICES ASSUME IInv, TableOK, Answered("tornado") PROVE TornadoPointsRight
  BY DEF TornadoPointsRight
<1>1. ~Refuses /\ ~Fails(Baseline0)
  BY DEF TableOK
<1>2. PICK s, rs : /\ s \in Sensitivities /\ Tabled(s, 7, rs)
                    /\ call = Table("answered", s, 7, BySwing(rs))
  BY DEF TableOK
<1> DEFINE n == Len(rs)
           sorted == BySwing(rs)
           on == {i \in DOMAIN AXES : call.sensitivity[AXES[i]] > 0}
<1>3. call.sensitivity = s /\ call.rows = sorted /\ call.anchor = NpvOf(Baseline0)
  BY <1>2 DEF Table
<1>4. /\ DOMAIN sorted = 1..n
      /\ \A k \in 1..n : \E i \in 1..n : sorted[k] = rs[i]
      /\ \A i \in 1..n : \E k \in 1..n : sorted[k] = rs[i]
      /\ \A k, l \in 1..n : k < l =>
           \/ Swing(sorted[k]) > Swing(sorted[l])
           \/ /\ Swing(sorted[k]) = Swing(sorted[l])
              /\ Slot(sorted[k].name) < Slot(sorted[l].name)
  BY <1>1, <1>2, Sorted
<1>5. /\ \A i \in 1..n : Evaluated(s, rs[i].name) /\ rs[i] = Row(s, rs[i].name)
      /\ \A a \in 1..6 : a < 7 /\ s[AXES[a]] > 0 => \E i \in 1..n : rs[i].name = AXES[a]
  BY <1>2 DEF Tabled
<1> HIDE DEF n, sorted
<1>6. {Slot(call.rows[i].name) : i \in DOMAIN call.rows} = on
  <2>1. ASSUME NEW k \in 1..n PROVE Slot(sorted[k].name) \in on
    <3>1. PICK i \in 1..n : sorted[k] = rs[i]
      BY <1>4, <2>1
    <3>2. Evaluated(s, rs[i].name)
      BY <1>5
    <3> QED BY <1>3, <3>1, <3>2, Catalogue DEF Evaluated
  <2>2. ASSUME NEW a \in on PROVE \E k \in 1..n : Slot(sorted[k].name) = a
    <3>1. a \in 1..6 /\ s[AXES[a]] > 0
      BY <1>3, Catalogue
    <3>2. PICK i \in 1..n : rs[i].name = AXES[a]
      BY <1>5, <3>1
    <3>3. PICK k \in 1..n : sorted[k] = rs[i]
      BY <1>4, <3>2
    <3>4. Slot(AXES[a]) = a
      BY <3>1, Catalogue
    <3> QED BY <3>2, <3>3, <3>4
  <2> HIDE DEF on
  <2> QED BY <1>3, <1>4, <2>1, <2>2
<1>7. ASSUME NEW k \in 1..n PROVE PointsRight(sorted[k])
  <2>1. PICK i \in 1..n : sorted[k] = rs[i]
    BY <1>4, <1>7
  <2> DEFINE name == rs[i].name
             high == Perturbed(Baseline0, name, s[name])
             inflow == \A t \in 1..high.financial.years : FlowsOf(high)[t] >= 0
             row == Row(s, name)
  <2>2. Evaluated(s, name) /\ sorted[k] = row /\ row.name = name
    BY <1>5, <2>1 DEF Row
  <2> HIDE DEF name
  <2>3. /\ name = "weather" => (CalmExport => Rises(row))
        /\ name = "rate_escalation" => Rises(row)
        /\ name = "annual_loss" => (CalmExport => Falls(row))
        /\ name = "hold_years" => (inflow => Rises(row))
        /\ name = "system_cost" => Falls(row)
        /\ name = "discount_rate" => (inflow => Falls(row))
    BY <1>1, <1>2, <2>2, RowPoints
  <2>4. name \in {"weather", "rate_escalation", "annual_loss",
                  "hold_years", "system_cost", "discount_rate"}
    BY <2>2 DEF Evaluated, AxisName, AXES
  <2> HIDE DEF row
  <2>5. PointsRight(row)
    BY <1>3, <2>2, <2>3, <2>4 DEF PointsRight, Rises, Falls
  <2> QED BY <2>2, <2>5
<1>8. \A i, j \in DOMAIN call.rows : i < j =>
        \/ Swing(call.rows[i]) > Swing(call.rows[j])
        \/ /\ Swing(call.rows[i]) = Swing(call.rows[j])
           /\ Slot(call.rows[i].name) < Slot(call.rows[j].name)
  BY <1>3, <1>4
<1>9. \A i \in DOMAIN call.rows : PointsRight(call.rows[i])
  BY <1>3, <1>4, <1>7
<1> QED BY <1>6, <1>8, <1>9 DEF TornadoPointsRight, Slot

\* What the wrappers evaluate reads the state they are given only.
LEMMA BundleFrame ==
  ASSUME UNCHANGED vars
  PROVE  /\ \A b : FlowsOf(b)' = FlowsOf(b)
         /\ \A b : NpvOf(b)' = NpvOf(b)
         /\ \A b : Fails(b)' = Fails(b)
         /\ \A d : PathBundle(d)' = PathBundle(d)
         /\ \A d : PathOf(d)' = PathOf(d)
BY DEF vars, FlowsOf, NpvOf, Fails, PathBundle, PathOf, DebtService

LEMMA TableFrame ==
  ASSUME UNCHANGED vars
  PROVE  /\ Refuses' = Refuses /\ Fails(Baseline0)' = Fails(Baseline0)
         /\ \A s, axis, rs : Tabled(s, axis, rs)' = Tabled(s, axis, rs)
         /\ \A status, s, axis, rs : Table(status, s, axis, rs)' = Table(status, s, axis, rs)
<1>1. Baseline0' = Baseline0 /\ Refuses' = Refuses
  BY CallFrame
<1>2. (\A b : NpvOf(b)' = NpvOf(b)) /\ (\A b : Fails(b)' = Fails(b))
  BY BundleFrame
<1>3. Fails(Baseline0)' = Fails(Baseline0) /\ NpvOf(Baseline0)' = NpvOf(Baseline0)
  BY <1>1, <1>2 DEF Fails, NpvOf
<1>4. \A s, name : Row(s, name)' = Row(s, name) /\ Evaluated(s, name)' = Evaluated(s, name)
  BY <1>1, <1>2 DEF Row, Evaluated
<1>5. \A s, axis, rs : Tabled(s, axis, rs)' = Tabled(s, axis, rs)
  <2>1. \A s : Rows(s)' = Rows(s)
    BY <1>4 DEF Rows
  <2> QED BY <1>4, <2>1 DEF Tabled
<1>6. \A status, s, axis, rs : Table(status, s, axis, rs)' = Table(status, s, axis, rs)
  BY <1>1, <1>3 DEF Table
<1> QED BY <1>1, <1>3, <1>5, <1>6

\* The table begins empty; an axis adds nothing, or its row.
LEMMA TabledNone == ASSUME NEW s PROVE Tabled(s, 1, <<>>)
<1> DEFINE rs == <<>>
<1>1. rs \in Seq(Rows(s)) /\ Len(rs) = 0
  OBVIOUS
<1>2. \A a \in 1..6 : ~(a < 1)
  OBVIOUS
<1> HIDE DEF rs
<1>3. Tabled(s, 1, rs)
  BY <1>1, <1>2 DEF Tabled
<1> QED BY <1>3 DEF rs

LEMMA TabledSkip ==
  ASSUME NEW s, NEW axis \in 1..6, NEW rs, Tabled(s, axis, rs), s[AXES[axis]] = 0
  PROVE  Tabled(s, axis + 1, rs)
<1> DEFINE n == Len(rs)
<1>1. rs \in Seq(Rows(s)) /\ n \in Nat
  BY DEF Tabled
<1>2. ASSUME NEW i \in 1..n
      PROVE  /\ Evaluated(s, rs[i].name) /\ rs[i] = Row(s, rs[i].name)
             /\ Slot(rs[i].name) < axis + 1
  <2>1. /\ Evaluated(s, rs[i].name) /\ rs[i] = Row(s, rs[i].name)
        /\ Slot(rs[i].name) < axis
    BY <1>2 DEF Tabled
  <2>2. Slot(rs[i].name) \in 1..6
    BY <2>1, Catalogue DEF Evaluated
  <2> QED BY <2>1, <2>2
<1>3. ASSUME NEW a \in 1..6, a < axis + 1, s[AXES[a]] > 0 PROVE \E i \in 1..n : rs[i].name = AXES[a]
  <2>1. a < axis
    <3>1. a # axis
      BY <1>3
    <3> QED BY <1>3, <3>1
  <2> QED BY <1>3, <2>1 DEF Tabled
<1>4. \A i, j \in 1..n : i < j => Slot(rs[i].name) < Slot(rs[j].name)
  BY DEF Tabled
<1> QED BY <1>1, <1>2, <1>3, <1>4 DEF Tabled

LEMMA TabledRow ==
  ASSUME NEW s, NEW axis \in 1..6, NEW rs, Tabled(s, axis, rs), Evaluated(s, AXES[axis])
  PROVE  Tabled(s, axis + 1, Append(rs, Row(s, AXES[axis])))
<1> DEFINE n   == Len(rs)
           row == Row(s, AXES[axis])
           ext == Append(rs, row)
<1>1. rs \in Seq(Rows(s)) /\ n \in Nat
  BY DEF Tabled
<1>2. row \in Rows(s) /\ row.name = AXES[axis] /\ Slot(AXES[axis]) = axis
  BY Catalogue DEF Row, Rows
<1> HIDE DEF row
<1>3. /\ ext \in Seq(Rows(s)) /\ Len(ext) = n + 1 /\ ext[n + 1] = row
      /\ \A i \in 1..n : ext[i] = rs[i]
  BY <1>1, <1>2
<1> HIDE DEF ext, n
<1>4. /\ \A i \in 1..n : /\ Evaluated(s, rs[i].name) /\ rs[i] = Row(s, rs[i].name)
                         /\ Slot(rs[i].name) < axis
      /\ \A i, j \in 1..n : i < j => Slot(rs[i].name) < Slot(rs[j].name)
      /\ \A a \in 1..6 : a < axis /\ s[AXES[a]] > 0 => \E i \in 1..n : rs[i].name = AXES[a]
  BY DEF Tabled, n
<1>5. \A i \in 1..(n + 1) : i \in 1..n \/ i = n + 1
  BY <1>1
<1>6. ASSUME NEW i \in 1..(n + 1)
      PROVE  /\ Evaluated(s, ext[i].name) /\ ext[i] = Row(s, ext[i].name)
             /\ Slot(ext[i].name) < axis + 1
  <2>1. CASE i \in 1..n
    <3>1. Evaluated(s, ext[i].name) /\ ext[i] = Row(s, ext[i].name) /\ Slot(ext[i].name) < axis
      BY <1>3, <1>4, <2>1
    <3>2. Slot(ext[i].name) \in 1..6
      BY <3>1, Catalogue DEF Evaluated
    <3> QED BY <3>1, <3>2
  <2>2. CASE i = n + 1
    BY <1>2, <1>3, <2>2 DEF row
  <2> QED BY <1>5, <2>1, <2>2
<1>7. ASSUME NEW i \in 1..(n + 1), NEW j \in 1..(n + 1), i < j
      PROVE  Slot(ext[i].name) < Slot(ext[j].name)
  <2>1. i \in 1..n
    BY <1>1, <1>7
  <2>2. CASE j \in 1..n
    BY <1>3, <1>4, <1>7, <2>1, <2>2
  <2>3. CASE j = n + 1
    BY <1>2, <1>3, <1>4, <2>1, <2>3
  <2> QED BY <1>5, <2>2, <2>3
<1>8. ASSUME NEW a \in 1..6, a < axis + 1, s[AXES[a]] > 0
      PROVE  \E i \in 1..(n + 1) : ext[i].name = AXES[a]
  <2>1. CASE a = axis
    <3>1. n + 1 \in 1..(n + 1)
      BY <1>1
    <3> QED BY <1>2, <1>3, <2>1, <3>1
  <2>2. CASE a # axis
    <3>1. a < axis
      BY <1>8, <2>2
    <3>2. PICK i \in 1..n : rs[i].name = AXES[a]
      BY <1>4, <1>8, <3>1
    <3>3. i \in 1..(n + 1)
      BY <1>1
    <3> QED BY <1>3, <3>2, <3>3
  <2> QED BY <2>1, <2>2
<1>9. Tabled(s, axis + 1, ext)
  BY <1>3, <1>6, <1>7, <1>8 DEF Tabled
<1> QED BY <1>9 DEF ext, row

LEMMA TableStep ==
  IInv /\ CallOK /\ TableOK /\ [AnalysisNext]_avars => TableOK'
<1> SUFFICES ASSUME IInv, CallOK, TableOK, [AnalysisNext]_avars PROVE TableOK'
  OBVIOUS
<1>1. ASSUME UNCHANGED vars
      PROVE  /\ Refuses' = Refuses /\ Fails(Baseline0)' = Fails(Baseline0)
             /\ \A s, axis, rs : Tabled(s, axis, rs)' = Tabled(s, axis, rs)
             /\ \A status, s, axis, rs : Table(status, s, axis, rs)' = Table(status, s, axis, rs)
  BY <1>1, TableFrame
<1>2. ASSUME UNCHANGED vars, UNCHANGED call PROVE TableOK'
  BY <1>1, <1>2 DEF TableOK, Tabulating, Answered
<1>3. ASSUME call' = None \/ call'.of = "monte_carlo" \/ call'.status = "raised" PROVE TableOK'
  BY <1>3 DEF TableOK, Tabulating, Answered
<1>4. CASE Next /\ UNCHANGED call
  <2>1. call # None => UNCHANGED vars
    BY <1>4, StandsStill
  <2> QED BY <1>2, <1>3, <1>4, <2>1
<1>5. CASE Refuse \/ StartMonteCarlo
  <2>1. call'.of = "monte_carlo" \/ call'.status = "raised"
    BY <1>5 DEF Refuse, StartMonteCarlo
  <2> QED BY <1>3, <2>1
<1>6. CASE DrawPath \/ FinishMonteCarlo
  <2>1. SamplingOK /\ Sampling
    BY <1>6 DEF CallOK, DrawPath, FinishMonteCarlo
  <2>2. PICK X : \E failed \in Nat, paths \in Seq(X) :
          call = [of |-> "monte_carlo", status |-> "running", drawn |-> Len(paths) + failed,
                  paths |-> paths, failed |-> failed, fan |-> None]
    BY <2>1 DEF SamplingOK
  <2>3. DOMAIN call = {"of", "status", "drawn", "paths", "failed", "fan"} /\ call.of = "monte_carlo"
    BY <2>2
  <2>4. call'.of = "monte_carlo"
    BY <1>6, <2>3 DEF DrawPath, FinishMonteCarlo
  <2> QED BY <1>3, <2>4
<1>7. CASE StartTornado
  <2>1. ~Refuses /\ UNCHANGED vars
    BY <1>7 DEF StartTornado, Ready
  <2>2. PICK s \in Sensitivities :
          call' = IF Fails(Baseline0) THEN [of |-> "tornado", status |-> "raised"]
                  ELSE Table("running", s, 1, <<>>)
    BY <1>7 DEF StartTornado, Table
  <2>3. CASE Fails(Baseline0)
    BY <1>3, <2>2, <2>3
  <2>4. CASE ~Fails(Baseline0)
    <3> DEFINE rs == <<>>
    <3>1. Tabled(s, 1, rs) /\ call' = Table("running", s, 1, rs) /\ 1 \in 1..7
      BY <2>2, <2>4, TabledNone
    <3> HIDE DEF rs
    <3>2. call'.status = "running"
      BY <3>1 DEF Table
    <3> QED BY <1>1, <2>1, <2>4, <3>1, <3>2 DEF TableOK, Tabulating, Answered
  <2> QED BY <2>3, <2>4
<1>8. CASE SkipAxis \/ TornadoRow \/ FinishTornado
  <2>1. Tabulating /\ UNCHANGED vars
    BY <1>8 DEF SkipAxis, TornadoRow, FinishTornado
  <2>2. ~Refuses /\ ~Fails(Baseline0)
    BY <2>1 DEF TableOK
  <2>3. PICK s \in Sensitivities, axis \in 1..7 : \E rs :
          Tabled(s, axis, rs) /\ call = Table("running", s, axis, rs)
    BY <2>1 DEF TableOK
  <2>4. PICK rs : Tabled(s, axis, rs) /\ call = Table("running", s, axis, rs)
    BY <2>3
  <2> DEFINE anchor == NpvOf(Baseline0)
             base == Baseline0
  <2>5. call = [of |-> "tornado", status |-> "running", sensitivity |-> s, bundle |-> base,
                anchor |-> anchor, axis |-> axis, rows |-> rs]
    BY <2>4 DEF Table
  <2>6. \A status, n, rt : Table(status, s, n, rt) =
          [of |-> "tornado", status |-> status, sensitivity |-> s, bundle |-> base,
           anchor |-> anchor, axis |-> n, rows |-> rt]
    BY DEF Table
  <2> HIDE DEF anchor, base
  <2>7. ASSUME NEW n \in 1..7, NEW rt, Tabled(s, n, rt), call' = Table("running", s, n, rt)
        PROVE  TableOK'
    <3>1. call'.status = "running"
      BY <2>7 DEF Table
    <3> QED BY <1>1, <2>1, <2>2, <2>7, <3>1 DEF TableOK, Tabulating, Answered
  <2>8. CASE SkipAxis
    <3>1. axis \in 1..6 /\ s[AXES[axis]] = 0 /\ call' = [call EXCEPT !.axis = axis + 1]
      BY <2>5, <2>8, Catalogue DEF SkipAxis
    <3> DEFINE n == axis + 1
    <3>2. n \in 1..7 /\ Tabled(s, n, rs)
      BY <2>4, <3>1, TabledSkip
    <3>3. call' = [call EXCEPT !.axis = n]
      BY <3>1
    <3> HIDE DEF n
    <3>4. call' = Table("running", s, n, rs)
      BY <2>5, <2>6, <3>3
    <3> QED BY <2>7, <3>2, <3>4
  <2>9. CASE TornadoRow
    <3> DEFINE name == AXES[axis]
               low  == Perturbed(base, name, -s[name])
               high == Perturbed(base, name, s[name])
               row  == [name |-> name, low |-> NpvOf(low), high |-> NpvOf(high)]
               n    == axis + 1
               rt   == Append(rs, row)
    <3>1. /\ axis \in 1..6 /\ s[name] > 0
          /\ call' = IF Fails(low) \/ Fails(high) THEN [of |-> "tornado", status |-> "raised"]
                     ELSE [call EXCEPT !.axis = n, !.bundle = base, !.rows = rt]
      BY <2>5, <2>9, Catalogue DEF TornadoRow, AfterRow
    <3>2. CASE Fails(low) \/ Fails(high)
      BY <1>3, <3>1, <3>2
    <3>3. CASE ~(Fails(low) \/ Fails(high))
      <4>1. Evaluated(s, name) /\ row = Row(s, name)
        BY <3>1, <3>3, Catalogue DEF Evaluated, Row, base
      <4>2. n \in 1..7 /\ Tabled(s, n, rt)
        BY <2>4, <3>1, <4>1, TabledRow
      <4>3. call' = [call EXCEPT !.axis = n, !.bundle = base, !.rows = rt]
        BY <3>1, <3>3
      <4> HIDE DEF n, rt
      <4>4. call' = Table("running", s, n, rt)
        <5>1. call' = [of |-> "tornado", status |-> "running", sensitivity |-> s,
                       bundle |-> base, anchor |-> anchor, axis |-> n, rows |-> rt]
          BY <2>5, <4>3
        <5> QED BY <2>6, <5>1
      <4> QED BY <2>7, <4>2, <4>4
    <3> QED BY <3>2, <3>3
  <2>10. CASE FinishTornado
    <3> DEFINE rt == BySwing(rs)
    <3>1. axis = 7 /\ call' = [call EXCEPT !.status = "answered", !.rows = rt]
      BY <2>5, <2>10, Catalogue DEF FinishTornado
    <3> HIDE DEF rt
    <3>2. call' = Table("answered", s, 7, rt)
      <4>1. call' = [of |-> "tornado", status |-> "answered", sensitivity |-> s,
                     bundle |-> base, anchor |-> anchor, axis |-> 7, rows |-> rt]
        BY <2>5, <3>1
      <4> QED BY <2>6, <4>1
    <3>3. call'.status = "answered" /\ Tabled(s, 7, rs)
      BY <2>4, <3>1, <3>2 DEF Table
    <3> QED BY <1>1, <2>1, <2>2, <3>2, <3>3 DEF TableOK, Tabulating, Answered, rt
  <2> QED BY <1>8, <2>8, <2>9, <2>10
<1>9. CASE UNCHANGED avars
  BY <1>2, <1>9 DEF avars
<1> QED BY <1>4, <1>5, <1>6, <1>7, <1>8, <1>9 DEF AnalysisNext

----------------------------------------------------------------------------
\* The fan

\* A draw moves the sun, the ageing and the hold; the rest is the household's.
LEMMA PathFields ==
  ASSUME BaseFacts, NEW d \in Draws
  PROVE  LET c == PathBundle(d)
             f == given.financial
         IN /\ c.dc = Scaled(artifacts["dc_production"], Greatest(WeatherMin, d.weather))
            /\ c.loss = Least(LossCap, Greatest(LossMin, d.loss))
            /\ c.financial.years = Greatest(1, f.years + d.jitter)
            /\ c.financial.cost = f.cost /\ c.financial.opex = f.opex
            /\ c.financial.discount = f.discount /\ c.financial.loan = f.loan
<1> DEFINE f == given.financial
           c == PathBundle(d)
           hold == Greatest(1, f.years + d.jitter)
           e == Greatest(EscalationBounds[1], Least(EscalationBounds[2], d.escalation))
           x == Scaled(artifacts["dc_production"], Greatest(WeatherMin, d.weather))
           y == Least(LossCap, Greatest(LossMin, d.loss))
<1>1. f \in FinancialInputs
  BY DEF BaseFacts
<1>2. f = [cost |-> f.cost, opex |-> f.opex, years |-> f.years, discount |-> f.discount,
           escalation |-> f.escalation, loan |-> f.loan]
  BY <1>1 DEF FinancialInputs
<1>3. c = [dc |-> x, loss |-> y, hold |-> hold,
           financial |-> [f EXCEPT !.years = hold, !.escalation = e]]
  BY DEF PathBundle
<1> DEFINE g == [f EXCEPT !.years = hold, !.escalation = e]
<1> HIDE DEF f, hold, e, x, y
<1>4. /\ g.years = hold /\ g.cost = f.cost /\ g.opex = f.opex
      /\ g.discount = f.discount /\ g.loan = f.loan
  BY <1>2
<1>5. c.dc = x /\ c.loss = y /\ c.financial = g
  BY <1>3
<1> HIDE DEF c, g
<1>6. /\ c.financial.years = hold /\ c.financial.cost = f.cost /\ c.financial.opex = f.opex
      /\ c.financial.discount = f.discount /\ c.financial.loan = f.loan
  BY <1>4, <1>5
<1> QED BY <1>5, <1>6 DEF c, f, hold, x, y

LEMMA PathSound ==
  ASSUME IInv, ~Refuses, NEW d \in Draws, ~Fails(PathBundle(d))
  PROVE  Sound(PathBundle(d)) /\ Outlay(PathBundle(d)) = Upfront
<1> DEFINE c == PathBundle(d)
           f == given.financial
           dc == artifacts["dc_production"]
           k == Greatest(WeatherMin, d.weather)
<1>1. /\ dc \in [Hour -> Nat] /\ f.years \in Nat \ {0} /\ f.discount \in Nat \ {0}
      /\ f.opex \in Nat /\ f.cost \in Nat /\ (f.loan # None => f.loan.down \in Nat)
  BY BaseLemma DEF BaseFacts
<1>2. /\ d.weather \in Int /\ d.loss \in Int /\ d.jitter \in Int
      /\ WeatherMin \in Nat /\ LossMin \in Nat /\ LossCap \in Nat
  BY AnalysisAssumption
<1>3. /\ c.dc = Scaled(dc, k) /\ c.loss = Least(LossCap, Greatest(LossMin, d.loss))
      /\ c.financial.years = Greatest(1, f.years + d.jitter)
      /\ c.financial.cost = f.cost /\ c.financial.opex = f.opex
      /\ c.financial.discount = f.discount /\ c.financial.loan = f.loan
  BY BaseLemma, PathFields
<1>4. ~Fails(c)
  OBVIOUS
<1>5. k \in Nat /\ k <= k
  BY <1>2 DEF Greatest
<1>6. Outlay(c) = Upfront
  BY <1>3 DEF Outlay, Upfront
<1> HIDE DEF c, f, dc, k
<1>7. c.dc \in [Hour -> Nat]
  BY <1>1, <1>3, <1>5, ScaledRises
<1>8. c.loss \in Int
  BY <1>2, <1>3 DEF Least, Greatest
<1>9. c.financial.years \in Nat \ {0}
  BY <1>1, <1>2, <1>3 DEF Greatest
<1>10. Sound(c)
  BY <1>1, <1>3, <1>4, <1>7, <1>8, <1>9 DEF Sound
<1> QED BY <1>6, <1>10 DEF c

\* a path that did not fail
LivePath == {PathOf(d) : d \in {e \in Draws : ~Fails(PathBundle(e))}}

\* What a path reports: its NPV is that of its bundle, and its wealth runs from
\* the outlay to the end of its hold.
LEMMA PathReports ==
  ASSUME IInv, ~Refuses, NEW p \in LivePath
  PROVE  /\ p.draw \in Draws /\ ~Fails(PathBundle(p.draw)) /\ p = PathOf(p.draw)
         /\ p.npv = NpvOf(PathBundle(p.draw))
         /\ Horizon(p.wealth) \in Nat
         /\ \A t \in Nat : /\ Padded(p.wealth, t) = WealthAt(p.draw, t)
                           /\ WealthAt(p.draw, t) \in Int
         /\ WealthAt(p.draw, 0) = -Upfront /\ Upfront \in Nat
<1>1. PICK d \in Draws : ~Fails(PathBundle(d)) /\ p = PathOf(d)
  BY DEF LivePath
<1> DEFINE b == PathBundle(d)
           f == FlowsOf(b)
           w == CumulativeWealth(f)
           n == b.financial.years
<1>2. p.draw = d /\ p.npv = Npv(given.financial.discount, f) /\ p.wealth = w
  BY <1>1 DEF PathOf
<1>3. Sound(b) /\ Outlay(b) = Upfront
  BY <1>1, PathSound
<1>4. /\ DOMAIN f = 0..n /\ f[0] = -Outlay(b) /\ Outlay(b) \in Nat
      /\ \A t \in 0..n : f[t] \in Int
  BY <1>3, BundleFlows
<1>5. b.financial.discount = given.financial.discount
  BY BaseLemma, PathFields
<1>6. p.npv = NpvOf(b)
  BY <1>2, <1>5 DEF NpvOf
<1>7. n \in Nat
  BY <1>3 DEF Sound
<1>8. DOMAIN w = 0..n /\ \A t \in 0..n : w[t] = SumOver(0..t, f)
  BY <1>4 DEF CumulativeWealth
<1> HIDE DEF b, f, w, n
<1>9. Horizon(f) = n /\ Horizon(w) = n
  BY <1>4, <1>7, <1>8, HorizonLemma
<1>10. ASSUME NEW t \in Nat
       PROVE  /\ Padded(w, t) = SumOver(0..Least(t, n), f) /\ SumOver(0..Least(t, n), f) \in Int
              /\ WealthAt(d, t) = SumOver(0..Least(t, n), f)
  <2>1. Least(t, n) \in 0..n
    BY <1>7 DEF Least
  <2>2. SumOver(0..Least(t, n), f) \in Int
    <3> DEFINE S == 0..Least(t, n)
    <3>1. IsFiniteSet(S)
      BY <1>7, <2>1, FS_Interval
    <3>2. \A i \in S : f[i] \in Int
      BY <1>4, <1>7, <2>1
    <3> HIDE DEF S
    <3> QED BY <3>1, <3>2, SumType DEF S
  <2> QED BY <1>8, <1>9, <2>1, <2>2 DEF Padded, WealthAt, f, b
<1>11. WealthAt(d, 0) = -Upfront
  <2>1. WealthAt(d, 0) = SumOver(0..0, f)
    <3>1. 0 \in Nat /\ Least(0, n) = 0
      BY <1>7 DEF Least
    <3> QED BY <1>10, <3>1
  <2>2. 0..0 = {} \cup {0} /\ f[0] \in Int
    BY <1>4, <1>7
  <2>3. SumOver({} \cup {0}, f) = SumOver({}, f) + f[0]
    BY <2>2, SumAdd, FS_EmptySet
  <2> QED BY <1>3, <1>4, <2>1, <2>2, <2>3, SumEmpty
<1> QED BY <1>1, <1>2, <1>3, <1>4, <1>6, <1>7, <1>9, <1>10, <1>11 DEF b

\* A draw with no less sun, escalation and no more loss is worth no less.
LEMMA BetterDraw ==
  ASSUME IInv, ~Refuses, CalmExport, NEW d \in Draws, NEW e \in Draws,
         ~Fails(PathBundle(d)), ~Fails(PathBundle(e)), SameWeatherOrBetter(d, e)
  PROVE  NpvOf(PathBundle(e)) <= NpvOf(PathBundle(d))
<1> DEFINE b == PathBundle(d)
           c == PathBundle(e)
           f == given.financial
           dc == artifacts["dc_production"]
           k == Greatest(WeatherMin, e.weather)
           l == Greatest(WeatherMin, d.weather)
<1>1. /\ d.weather \in Int /\ d.loss \in Int /\ e.weather \in Int /\ e.loss \in Int
      /\ WeatherMin \in Nat /\ LossMin \in Nat /\ LossCap \in Nat
  BY AnalysisAssumption
<1>2. d.jitter = e.jitter /\ d.weather >= e.weather /\ d.loss <= e.loss
  BY DEF SameWeatherOrBetter
<1>3. /\ b.dc = Scaled(dc, l) /\ b.loss = Least(LossCap, Greatest(LossMin, d.loss))
      /\ b.financial.years = Greatest(1, f.years + d.jitter)
      /\ b.financial.cost = f.cost /\ b.financial.opex = f.opex
      /\ b.financial.discount = f.discount /\ b.financial.loan = f.loan
  BY BaseLemma, PathFields
<1>4. /\ c.dc = Scaled(dc, k) /\ c.loss = Least(LossCap, Greatest(LossMin, e.loss))
      /\ c.financial.years = Greatest(1, f.years + e.jitter)
      /\ c.financial.cost = f.cost /\ c.financial.opex = f.opex
      /\ c.financial.discount = f.discount /\ c.financial.loan = f.loan
  BY BaseLemma, PathFields
<1>5. Sound(b) /\ Sound(c) /\ dc \in [Hour -> Nat]
  BY PathSound, BaseLemma DEF BaseFacts
<1>6. k \in Nat /\ l \in Nat /\ k <= l
  BY <1>1, <1>2 DEF Greatest
<1> HIDE DEF b, c, f, dc, k, l
<1>7. \A h \in Hour : c.dc[h] <= b.dc[h]
  BY <1>3, <1>4, <1>5, <1>6, ScaledRises
<1>8. b.loss <= c.loss
  BY <1>1, <1>2, <1>3, <1>4 DEF Least, Greatest
<1>9. Alike(b, c)
  BY <1>2, <1>3, <1>4, <1>5 DEF Alike
<1>10. NpvOf(c) <= NpvOf(b)
  BY <1>7, <1>8, <1>9, LessSun
<1> QED BY <1>10 DEF b, c

\* The lines of a fan run between the poorest and the richest path.
LEMMA FanLines ==
  ASSUME IInv, ~Refuses, NEW ps \in Seq(LivePath), ps # <<>>, NEW t \in DOMAIN Fan(ps).wealth
  PROVE  LET at_t == {WealthAt(ps[i].draw, t) : i \in DOMAIN ps}
             line == Fan(ps).wealth[t]
         IN /\ 10 * Min(at_t) <= line.p10 /\ line.p10 <= line.p50
            /\ line.p50 <= line.p90 /\ line.p90 <= 10 * Max(at_t)
            /\ t = 0 => line.p10 = -10 * Upfront /\ line.p90 = -10 * Upfront
<1> DEFINE n == Len(ps)
           longest == Max({Horizon(ps[i].wealth) : i \in DOMAIN ps})
           wealth == [u \in 0..longest |->
                        Percentiles([i \in DOMAIN ps |-> Padded(ps[i].wealth, u)])]
           line == Fan(ps).wealth[t]
<1>1. n \in Nat \ {0} /\ DOMAIN ps = 1..n /\ \A i \in 1..n : ps[i] \in LivePath
  <2>1. DOMAIN ps = 1..n /\ n \in Nat /\ n # 0
    OBVIOUS
  <2> QED BY <2>1, Element
<1>2. \A i \in 1..n : /\ Horizon(ps[i].wealth) \in Nat
                      /\ \A u \in Nat : /\ Padded(ps[i].wealth, u) = WealthAt(ps[i].draw, u)
                                        /\ WealthAt(ps[i].draw, u) \in Int
                      /\ WealthAt(ps[i].draw, 0) = -Upfront /\ Upfront \in Nat
  BY <1>1, PathReports
<1>3. Fan(ps).wealth = wealth
  BY DEF Fan
<1> HIDE DEF n, line
<1>4. longest \in Nat
  <2> DEFINE keys == [i \in 1..n |-> Horizon(ps[i].wealth)]
             S == {keys[i] : i \in 1..n}
  <2>1. DOMAIN keys = 1..n /\ \A i \in 1..n : keys[i] \in Int
    BY <1>2
  <2>2. {Horizon(ps[i].wealth) : i \in DOMAIN ps} = S
    BY <1>1
  <2>3. \A x \in S : x \in Nat
    BY <1>2
  <2> HIDE DEF keys
  <2>4. Max(S) \in S
    BY <1>1, <2>1, Extremes
  <2> QED BY <2>2, <2>3, <2>4
<1> HIDE DEF longest
<1>5. t \in Nat /\ line = Percentiles([i \in DOMAIN ps |-> Padded(ps[i].wealth, t)])
  BY <1>3, <1>4 DEF line
<1> DEFINE values == [i \in 1..n |-> WealthAt(ps[i].draw, t)]
           at_t == {values[i] : i \in 1..n}
<1>6. [i \in DOMAIN ps |-> Padded(ps[i].wealth, t)] = values
  BY <1>1, <1>2, <1>5
<1>7. values \in [1..n -> Int] /\ \A i \in 1..n : values[i] = WealthAt(ps[i].draw, t)
  BY <1>2, <1>5
<1>8. {WealthAt(ps[i].draw, t) : i \in DOMAIN ps} = at_t
  BY <1>1, <1>7
<1> HIDE DEF values, wealth
<1>9. DOMAIN values = 1..n /\ \A i \in 1..n : values[i] \in Int
  BY <1>7
<1>10. /\ Min(at_t) \in at_t /\ \A x \in at_t : Min(at_t) <= x
       /\ Max(at_t) \in at_t /\ \A x \in at_t : x <= Max(at_t)
  BY <1>1, <1>9, Extremes
<1>11. /\ Min(at_t) \in Int /\ Max(at_t) \in Int
       /\ \A i \in 1..n : Min(at_t) <= values[i] /\ values[i] <= Max(at_t)
  BY <1>9, <1>10
<1>12. /\ line.p10 \in Int /\ line.p50 \in Int /\ line.p90 \in Int
       /\ 10 * Min(at_t) <= line.p10 /\ line.p10 <= line.p50
       /\ line.p50 <= line.p90 /\ line.p90 <= 10 * Max(at_t)
  <2> DEFINE lo == Min(at_t)
             hi == Max(at_t)
  <2>1. lo \in Int /\ hi \in Int /\ \A i \in 1..n : lo <= values[i] /\ values[i] <= hi
    BY <1>11
  <2>2. line = Percentiles(values)
    BY <1>5, <1>6
  <2> HIDE DEF lo, hi
  <2>3. /\ line.p10 \in Int /\ line.p50 \in Int /\ line.p90 \in Int
        /\ 10 * lo <= line.p10 /\ line.p10 <= line.p50
        /\ line.p50 <= line.p90 /\ line.p90 <= 10 * hi
    BY <1>1, <1>7, <2>1, <2>2, PercentilesInOrder
  <2> QED BY <2>3 DEF lo, hi
<1>13. ASSUME t = 0 PROVE line.p10 = -10 * Upfront /\ line.p90 = -10 * Upfront
  <2> DEFINE lo == -Upfront
  <2>1. lo \in Int /\ \A i \in 1..n : lo <= values[i] /\ values[i] <= lo
    BY <1>1, <1>2, <1>7, <1>13
  <2>2. line = Percentiles(values)
    BY <1>5, <1>6
  <2>3. Upfront \in Nat
    BY <1>1, <1>2
  <2> HIDE DEF lo
  <2>4. 10 * lo <= line.p10 /\ line.p10 <= line.p50 /\ line.p50 <= line.p90 /\ line.p90 <= 10 * lo
    BY <1>1, <1>7, <2>1, <2>2, PercentilesInOrder
  <2>5. \A x, y, z, u \in Int : 10 * u <= x /\ x <= y /\ y <= z /\ z <= 10 * u
          => x = 10 * u /\ z = 10 * u
    OBVIOUS
  <2>6. line.p10 = 10 * lo /\ line.p90 = 10 * lo
    BY <1>12, <2>1, <2>4, <2>5
  <2> QED BY <2>3, <2>6 DEF lo
<1> QED BY <1>8, <1>12, <1>13 DEF line

Sample(status, paths, failed, fan) ==
  [of |-> "monte_carlo", status |-> status, drawn |-> Len(paths) + failed, paths |-> paths,
   failed |-> failed, fan |-> fan]

\* A sampling holds the paths of the draws that did not fail, and a fan is
\* theirs.
FanOK ==
  /\ Sampling =>
       /\ ~Refuses
       /\ \E failed \in Nat, paths \in Seq(LivePath) :
            call = Sample("running", paths, failed, None)
  /\ Answered("monte_carlo") =>
       /\ ~Refuses
       /\ \E failed \in Nat, paths \in Seq(LivePath) :
            /\ call = Sample("answered", paths, failed, Fan(paths))
            /\ Len(paths) + failed = Paths /\ paths # <<>>

\* Such a fan is the one the property asks for.
LEMMA FanRight == IInv /\ FanOK => FanIsHonest
<1> SUFFICES ASSUME IInv, FanOK, Answered("monte_carlo") PROVE FanIsHonest
  BY DEF FanIsHonest
<1>1. ~Refuses
  BY DEF FanOK
<1>2. PICK failed \in Nat, paths \in Seq(LivePath) :
        /\ call = Sample("answered", paths, failed, Fan(paths))
        /\ Len(paths) + failed = Paths /\ paths # <<>>
  BY DEF FanOK
<1> DEFINE fan == Fan(paths)
<1>3. call.paths = paths /\ call.failed = failed /\ call.fan = fan
  BY <1>2 DEF Sample
<1>4. ASSUME NEW t \in DOMAIN fan.wealth
      PROVE  LET at_t == {WealthAt(paths[i].draw, t) : i \in DOMAIN paths}
                 line == fan.wealth[t]
             IN /\ 10 * Min(at_t) <= line.p10 /\ line.p10 <= line.p50
                /\ line.p50 <= line.p90 /\ line.p90 <= 10 * Max(at_t)
                /\ t = 0 => line.p10 = -10 * Upfront /\ line.p90 = -10 * Upfront
  BY <1>1, <1>2, <1>4, FanLines
<1> HIDE DEF fan
<1>5. ASSUME NEW i \in DOMAIN paths
      PROVE  /\ paths[i].draw \in Draws /\ ~Fails(PathBundle(paths[i].draw))
             /\ paths[i].npv = NpvOf(PathBundle(paths[i].draw))
  <2>1. paths[i] \in LivePath
    BY <1>5, Element
  <2> QED BY <1>1, <2>1, PathReports
<1>6. ASSUME NEW i \in DOMAIN paths, NEW j \in DOMAIN paths,
             CalmExport, SameWeatherOrBetter(paths[i].draw, paths[j].draw)
      PROVE  paths[i].npv >= paths[j].npv
  <2> DEFINE d == paths[i].draw
             e == paths[j].draw
             x == NpvOf(PathBundle(d))
             y == NpvOf(PathBundle(e))
  <2>1. /\ d \in Draws /\ ~Fails(PathBundle(d)) /\ paths[i].npv = x
        /\ e \in Draws /\ ~Fails(PathBundle(e)) /\ paths[j].npv = y
    BY <1>5
  <2>2. SameWeatherOrBetter(d, e)
    BY <1>6
  <2> HIDE DEF d, e
  <2>3. y <= x
    BY <1>1, <1>6, <2>1, <2>2, BetterDraw
  <2>4. x \in Int /\ y \in Int
    BY <1>1, <2>1, PathSound, NpvOfSound
  <2> HIDE DEF x, y
  <2> QED BY <2>1, <2>3, <2>4
<1> DEFINE A == Len(call.paths) + call.failed = Paths
           B == \A t \in DOMAIN call.fan.wealth :
                  LET at_t == {WealthAt(call.paths[i].draw, t) : i \in DOMAIN call.paths}
                      line == call.fan.wealth[t]
                  IN /\ 10 * Min(at_t) <= line.p10 /\ line.p10 <= line.p50
                     /\ line.p50 <= line.p90 /\ line.p90 <= 10 * Max(at_t)
                     /\ t = 0 => line.p10 = -10 * Upfront /\ line.p90 = -10 * Upfront
           C == \A i, j \in DOMAIN call.paths :
                  LET p == call.paths[i]  q == call.paths[j]
                  IN CalmExport /\ SameWeatherOrBetter(p.draw, q.draw) => p.npv >= q.npv
<1>8. A
  BY <1>2, <1>3
<1>9. B
  BY <1>3, <1>4
<1>10. C
  BY <1>3, <1>6
<1>11. FanIsHonest <=> (Answered("monte_carlo") => A /\ B /\ C)
  BY DEF FanIsHonest
<1> HIDE DEF A, B, C
<1> QED BY <1>8, <1>9, <1>10, <1>11

LEMMA FanFrame ==
  ASSUME UNCHANGED vars
  PROVE  Refuses' = Refuses /\ LivePath' = LivePath
<1>1. Refuses' = Refuses
  BY CallFrame
<1>2. \A d : PathOf(d)' = PathOf(d) /\ PathBundle(d)' = PathBundle(d)
  BY BundleFrame
<1>3. \A b : Fails(b)' = Fails(b)
  BY BundleFrame
<1>4. \A d : Fails(PathBundle(d))' <=> Fails(PathBundle(d))
  <2>1. \A d : Fails(PathBundle(d))' = Fails(PathBundle(d))
    BY <1>1, BundleFrame DEF Fails, vars
  <2> QED BY <2>1
<1>5. LivePath' = LivePath
  BY <1>2, <1>4 DEF LivePath
<1> QED BY <1>1, <1>5

LEMMA FanStep ==
  IInv /\ CallOK /\ FanOK /\ [AnalysisNext]_avars => FanOK'
<1> SUFFICES ASSUME IInv, CallOK, FanOK, [AnalysisNext]_avars PROVE FanOK'
  OBVIOUS
<1>1. ASSUME UNCHANGED vars PROVE Refuses' = Refuses /\ LivePath' = LivePath
  BY <1>1, FanFrame
<1>2. ASSUME UNCHANGED vars, UNCHANGED call PROVE FanOK'
  BY <1>1, <1>2 DEF FanOK, Sampling, Answered
<1>3. ASSUME call' = None \/ call'.of = "tornado" \/ call'.status = "raised" PROVE FanOK'
  BY <1>3 DEF FanOK, Sampling, Answered
<1>4. CASE Next /\ UNCHANGED call
  <2>1. call # None => UNCHANGED vars
    BY <1>4, StandsStill
  <2> QED BY <1>2, <1>3, <1>4, <2>1
<1>5. CASE Refuse \/ StartTornado
  <2>1. call'.of = "tornado" \/ call'.status = "raised"
    BY <1>5 DEF Refuse, StartTornado
  <2> QED BY <1>3, <2>1
<1>6. CASE SkipAxis \/ TornadoRow \/ FinishTornado
  <2>1. TornadoOK /\ Tabulating
    BY <1>6 DEF CallOK, SkipAxis, TornadoRow, FinishTornado
  <2>2. PICK s, anchor, axis, rs :
          call = [of |-> "tornado", status |-> "running", sensitivity |-> s,
                  bundle |-> Baseline0, anchor |-> anchor, axis |-> axis, rows |-> rs]
    BY <2>1 DEF TornadoOK
  <2>3. DOMAIN call = {"of", "status", "sensitivity", "bundle", "anchor", "axis", "rows"}
        /\ call.of = "tornado"
    BY <2>2
  <2>4. CASE SkipAxis
    <3>1. \E n : call' = [call EXCEPT !.axis = n]
      BY <2>4 DEF SkipAxis
    <3> QED BY <1>3, <2>3, <3>1
  <2>5. CASE TornadoRow
    <3>1. \/ call' = [of |-> "tornado", status |-> "raised"]
          \/ \E n, b, rt : call' = [call EXCEPT !.axis = n, !.bundle = b, !.rows = rt]
      BY <2>2, <2>5 DEF TornadoRow
    <3>2. CASE call' = [of |-> "tornado", status |-> "raised"]
      BY <1>3, <3>2
    <3>3. ASSUME NEW n, NEW b, NEW rt,
                 call' = [call EXCEPT !.axis = n, !.bundle = b, !.rows = rt]
          PROVE  FanOK'
      <4>1. call'.of = "tornado"
        BY <2>3, <3>3
      <4> QED BY <1>3, <4>1
    <3> QED BY <3>1, <3>2, <3>3
  <2>6. CASE FinishTornado
    <3>1. \E rt : call' = [call EXCEPT !.status = "answered", !.rows = rt]
      BY <2>6 DEF FinishTornado
    <3> QED BY <1>3, <2>3, <3>1
  <2> QED BY <1>6, <2>4, <2>5, <2>6
<1>7. CASE StartMonteCarlo
  <2> DEFINE ps == <<>>
             none == 0
  <2>1. ~Refuses /\ UNCHANGED vars
    BY <1>7 DEF StartMonteCarlo, Ready
  <2>2. ps \in Seq(LivePath) /\ none \in Nat /\ Len(ps) + none = 0
    OBVIOUS
  <2>3. call' = [of |-> "monte_carlo", status |-> "running", drawn |-> 0,
                 paths |-> ps, failed |-> none, fan |-> None]
    BY <1>7 DEF StartMonteCarlo
  <2> HIDE DEF ps, none
  <2>4. call' = Sample("running", ps, none, None) /\ call'.status = "running"
    BY <2>2, <2>3 DEF Sample
  <2> QED BY <1>1, <2>1, <2>2, <2>4 DEF FanOK, Sampling, Answered
<1>8. CASE DrawPath \/ FinishMonteCarlo
  <2>1. Sampling /\ UNCHANGED vars
    BY <1>8 DEF DrawPath, FinishMonteCarlo
  <2>2. ~Refuses
    BY <2>1 DEF FanOK
  <2>3. PICK failed \in Nat, paths \in Seq(LivePath) :
          call = Sample("running", paths, failed, None)
    BY <2>1 DEF FanOK
  <2>4. Len(paths) \in Nat
    OBVIOUS
  <2>5. call = [of |-> "monte_carlo", status |-> "running", drawn |-> Len(paths) + failed,
                paths |-> paths, failed |-> failed, fan |-> None]
    BY <2>3 DEF Sample
  <2>6. ASSUME NEW more \in Nat, NEW ps \in Seq(LivePath), call' = Sample("running", ps, more, None)
        PROVE  FanOK'
    <3>1. call'.status = "running"
      BY <2>6 DEF Sample
    <3> QED BY <1>1, <2>1, <2>2, <2>6, <3>1 DEF FanOK, Sampling, Answered
  <2>7. CASE DrawPath
    <3>1. PICK d \in Draws :
            call' = IF Fails(PathBundle(d))
                    THEN [call EXCEPT !.drawn = @ + 1, !.failed = @ + 1]
                    ELSE [call EXCEPT !.drawn = @ + 1, !.paths = Append(@, PathOf(d))]
      BY <2>7 DEF DrawPath
    <3>2. CASE Fails(PathBundle(d))
      <4> DEFINE more == failed + 1
      <4>1. more \in Nat /\ (Len(paths) + failed) + 1 = Len(paths) + more
        BY <2>4
      <4>2. call' = [call EXCEPT !.drawn = @ + 1, !.failed = more]
        BY <2>5, <3>1, <3>2
      <4> HIDE DEF more
      <4>3. call' = [of |-> "monte_carlo", status |-> "running", drawn |-> Len(paths) + more,
                     paths |-> paths, failed |-> more, fan |-> None]
        BY <2>5, <4>1, <4>2
      <4>4. call' = Sample("running", paths, more, None)
        BY <4>3 DEF Sample
      <4> QED BY <2>6, <4>1, <4>4
    <3>3. CASE ~Fails(PathBundle(d))
      <4> DEFINE p  == PathOf(d)
                 ps == Append(paths, p)
      <4>1. p \in LivePath
        BY <3>3 DEF LivePath
      <4>2. call' = [call EXCEPT !.drawn = @ + 1, !.paths = ps]
        BY <2>5, <3>1, <3>3
      <4> HIDE DEF p
      <4>3. ps \in Seq(LivePath) /\ Len(ps) = Len(paths) + 1
        BY <4>1
      <4>4. (Len(paths) + failed) + 1 = Len(ps) + failed
        BY <2>4, <4>3
      <4> HIDE DEF ps
      <4>5. call' = [of |-> "monte_carlo", status |-> "running", drawn |-> Len(ps) + failed,
                     paths |-> ps, failed |-> failed, fan |-> None]
        BY <2>5, <4>2, <4>4
      <4>6. call' = Sample("running", ps, failed, None)
        BY <4>5 DEF Sample
      <4> QED BY <2>6, <4>3, <4>6
    <3> QED BY <3>2, <3>3
  <2>8. CASE FinishMonteCarlo
    <3> DEFINE fan == Fan(paths)
    <3>1. /\ Len(paths) + failed = Paths
          /\ call' = IF paths = <<>> THEN [call EXCEPT !.status = "raised"]
                     ELSE [call EXCEPT !.status = "answered", !.fan = fan]
      BY <2>5, <2>8 DEF FinishMonteCarlo
    <3> HIDE DEF fan
    <3>2. CASE paths = <<>>
      <4>1. call'.status = "raised"
        BY <2>5, <3>1, <3>2
      <4> QED BY <1>3, <4>1
    <3>3. CASE paths # <<>>
      <4>1. call' = [of |-> "monte_carlo", status |-> "answered", drawn |-> Len(paths) + failed,
                     paths |-> paths, failed |-> failed, fan |-> fan]
        BY <2>5, <3>1, <3>3
      <4>2. call' = Sample("answered", paths, failed, fan) /\ call'.status = "answered"
        BY <4>1 DEF Sample
      <4> QED BY <1>1, <2>1, <2>2, <3>1, <3>3, <4>2 DEF FanOK, Sampling, Answered, fan
    <3> QED BY <3>2, <3>3
  <2> QED BY <1>8, <2>7, <2>8
<1>9. CASE UNCHANGED avars
  BY <1>2, <1>9 DEF avars
<1> QED BY <1>4, <1>5, <1>6, <1>7, <1>8, <1>9 DEF AnalysisNext

----------------------------------------------------------------------------
\* What the wrappers answer

\* A tornado has the rows of the axes that were switched on, sorted by swing
\* and, among equals, as the catalogue has them, and each lies on its side of
\* the NPV of the baseline: whatever the schemas admit as a household, a tariff
\* and a set of deltas.
THEOREM TableIsRight == AnalysisSpec => []TornadoPointsRight
<1>1. AnalysisInit => YieldKept /\ CallOK /\ TableOK
  <2> SUFFICES ASSUME AnalysisInit PROVE YieldKept /\ CallOK /\ TableOK
    OBVIOUS
  <2>1. call = None
    BY DEF AnalysisInit
  <2>2. TableOK
    BY <2>1 DEF TableOK, Tabulating, Answered
  <2> QED BY <2>2, CallsBegin
<1>2. IInv /\ YieldKept /\ CallOK /\ TableOK /\ [AnalysisNext]_avars
        => YieldKept' /\ CallOK' /\ TableOK'
  BY CallsStep, TableStep
<1>3. IInv /\ TableOK => TornadoPointsRight
  BY TableRight
<1> QED BY <1>1, <1>2, <1>3, StateIsKept, Invariance, PTL DEF AnalysisSpec

\* A fan accounts for every draw; its lines keep their order, start at the
\* outlay and run between the poorest and the richest path of every year; and
\* where exports are never worth less than nothing, more sun, more escalation and
\* less loss never make a path poorer.
THEOREM FanHolds == AnalysisSpec => []FanIsHonest
<1>1. AnalysisInit => YieldKept /\ CallOK /\ FanOK
  <2> SUFFICES ASSUME AnalysisInit PROVE YieldKept /\ CallOK /\ FanOK
    OBVIOUS
  <2>1. call = None
    BY DEF AnalysisInit
  <2>2. FanOK
    BY <2>1 DEF FanOK, Sampling, Answered
  <2> QED BY <2>2, CallsBegin
<1>2. IInv /\ YieldKept /\ CallOK /\ FanOK /\ [AnalysisNext]_avars
        => YieldKept' /\ CallOK' /\ FanOK'
  BY CallsStep, FanStep
<1>3. IInv /\ FanOK => FanIsHonest
  BY FanRight
<1> QED BY <1>1, <1>2, <1>3, StateIsKept, Invariance, PTL DEF AnalysisSpec
=============================================================================
