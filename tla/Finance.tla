------------------------------- MODULE Finance -------------------------------
(***************************************************************************)
(* The arithmetic of the finance step and of the helpers around it: what a *)
(* year saves, and what NPV, IRR, MIRR, payback, LCOE, the crossover year  *)
(* and a sale make of a stream of years.                                   *)
(*                                                                         *)
(* A cash flow is a function on 0..n.  A rate r is its growth 1 + r: a     *)
(* number for discounting and escalation, a number of Grid-ths for irr.    *)
(* A present value is a number of Unit-ths, Unit being a multiple of every *)
(* power that is divided by; what is a quotient or a root in the code is   *)
(* kept as the pair it is made of.                                         *)
(***************************************************************************)
EXTENDS Tariffs

CONSTANTS
  Scale,              \* a capacity factor is a number of Scale-ths
  Unit,
  Grid, Low, High,    \* irr searches the growths Low..High, in Grid-ths
  Part                \* fractions of a sale are numbers of Part-ths

ASSUME FinanceAssumption ==
  /\ Scale \in Nat \ {0} /\ Unit \in Nat \ {0} /\ Part \in Nat \ {0}
  /\ Grid \in Nat \ {0} /\ Low \in Nat \ {0} /\ High \in Nat /\ Low < High

----------------------------------------------------------------------------
\* What finance is given: growths of at least one, amounts never below zero.  The
\* schema admits an escalation down to -10 % too, which is left out; it enters
\* the crossover year alone.

LoanInputs == [principal : Nat \ {0}, term : Nat \ {0}, down : Nat]

FinancialInputs ==
  [cost : Nat \cup {None}, opex : Nat, years : Nat \ {0}, discount : Nat \ {0},
   escalation : Nat \ {0}, loan : LoanInputs \cup {None}]

SaleScenarioInputs ==
  [uplift : Nat, decay : Nat, closing : Nat, odds : Seq([year : Nat \ {0}, weight : Nat])]

----------------------------------------------------------------------------
\* A year of finance

NetOf(consumption, production) == [h \in Hour |-> consumption[h] - production[h]]

Derated(production, factor) ==
  [h \in Hour |-> (production[h] \div Scale) * factor]

\* _finance_year_terms, and the year's energy
YearTerms(consumption, production, schedule, export) ==
  LET net     == NetOf(consumption, production)
      bill    == AnnualBill(schedule, net)
      raw     == IF export = None THEN [m \in Month |-> 0]
                 ELSE ExportCredit(export, schedule, net)
      netting == export # None /\ export.regime = "nem_three_nbt"
      settled == IF netting THEN Settled(bill, raw) ELSE <<>>
  IN [avoidance |-> Total(AnnualBill(schedule, consumption)) - Total(bill),
      settled   |-> settled,
      credit    |-> IF netting THEN SumOver(Month, [m \in Month |-> settled[m].applied])
                    ELSE SumOver(Month, raw),
      energy    |-> SumOver(Hour, production)]

----------------------------------------------------------------------------
\* cashflow.py

Horizon(flows) == Max(DOMAIN flows)

Power(x, n) ==
  LET power[i \in Nat] == IF i = 0 THEN 1 ELSE x * power[i - 1]
  IN power[n]

Discounted(growth, flow, t) == flow * (Unit \div Power(growth, t))

PresentValues(growth, flows) == [t \in DOMAIN flows |-> Discounted(growth, flows[t], t)]

Npv(growth, flows) == SumOver(DOMAIN flows, PresentValues(growth, flows))

\* the year by whose end the discounted flows have made up for the outlay
Payback(growth, flows) ==
  LET even == {t \in DOMAIN flows :
                 SumOver(0..t, PresentValues(growth, flows)) >= 0}
  IN IF even = {} THEN None ELSE Min(even)

\* mirr is the n-th root of earned over paid, less one
Mirr(finance, reinvest, flows) ==
  LET n      == Horizon(flows)
      paid   == SumOver(DOMAIN flows, [t \in DOMAIN flows |->
                  Discounted(finance, Positive(-flows[t]), t)])
      earned == SumOver(DOMAIN flows, [t \in DOMAIN flows |->
                  Positive(flows[t]) * Power(reinvest, n - t)])
  IN IF paid = 0 \/ earned = 0 THEN None ELSE [paid |-> paid, earned |-> earned]

\* alternative_wealth_path: the outlay invested elsewhere
AlternativeWealth(outlay, growth, n) == [t \in 0..n |-> outlay * Power(growth, t)]

\* cumulative_solar_wealth
CumulativeWealth(flows) == [t \in DOMAIN flows |-> SumOver(0..t, flows)]

\* mutant of Lcoe: the energy of the first year is not discounted
LcoeFromYearZero(growth, capex, opex, energy) ==
  [cost   |-> Discounted(growth, capex, 0) + Npv(growth, [t \in DOMAIN energy |-> opex]),
   energy |-> SumOver(DOMAIN energy,
                      [t \in DOMAIN energy |-> Discounted(growth, energy[t], t - 1)])]

\* lcoe is cost over energy
Lcoe(growth, capex, opex, energy) ==
  [cost   |-> Discounted(growth, capex, 0) + Npv(growth, [t \in DOMAIN energy |-> opex]),
   energy |-> Npv(growth, energy)]

\* the first year in which the bill's average rate has escalated to the lcoe
Crossover(lcoe, bill, escalation, n) ==
  LET kwh    == SumOver(Month, [m \in Month |-> bill[m].kwh])
      charge == SumOver(Month, [m \in Month |-> bill[m].energy])
      dearer == {y \in 1..n :
                   charge * Power(escalation, y - 1) * lcoe.energy >= lcoe.cost * kwh}
  IN IF kwh = 0 \/ dearer = {} THEN None ELSE Min(dearer)

----------------------------------------------------------------------------
\* irr

Sign(x) == IF x > 0 THEN 1 ELSE IF x < 0 THEN -1 ELSE 0

\* the sign of the NPV at a growth of g Grid-ths
NpvSign(g, flows) ==
  Sign(SumOver(DOMAIN flows, [t \in DOMAIN flows |->
                 flows[t] * Power(g, Horizon(flows) - t) * Power(Grid, t)]))

\* two ends lie on the same side of the root
SameSide(a, b, flows) == NpvSign(a, flows) # 0 /\ NpvSign(a, flows) = NpvSign(b, flows)

\* irr raises unless the flows have both signs and the guesses a root between
HasIrr(flows) ==
  /\ \E t \in DOMAIN flows : flows[t] > 0
  /\ \E t \in DOMAIN flows : flows[t] < 0
  /\ ~SameSide(Low, High, flows)

\* mutant of Halved: the half is chosen by the upper end
HalvedByHigh(b, flows) ==
  LET mid == (b.low + b.high) \div 2
  IN IF NpvSign(mid, flows) = 0 THEN [low |-> mid, high |-> mid]
     ELSE IF SameSide(mid, b.high, flows) THEN [b EXCEPT !.low = mid]
     ELSE [b EXCEPT !.high = mid]

\* one turn of _bisect
Halved(b, flows) ==
  LET mid == (b.low + b.high) \div 2
  IN IF NpvSign(mid, flows) = 0 THEN [low |-> mid, high |-> mid]
     ELSE IF SameSide(mid, b.low, flows) THEN [b EXCEPT !.low = mid]
     ELSE [b EXCEPT !.high = mid]

----------------------------------------------------------------------------
\* sale.py: a scenario has an uplift (a multiple of Part * Part), a decay and
\* a closing cost in Part-ths, and odds, a sequence of years and weights

Uplift(s, year) == (s.uplift \div Part) * Positive(Part - s.decay * (year - 1))

Closing(s, year) == (Uplift(s, year) \div Part) * s.closing

\* mutant of AtSale: only the flows are cut at the horizon
AtSaleUncapped(flows, year, s, payoff) ==
  LET sold == Least(year, Horizon(flows))
  IN [t \in 0..sold |->
        IF t < sold THEN flows[t]
        ELSE flows[t] + Uplift(s, year) - Closing(s, year) - payoff[sold]]

\* a sale beyond the horizon is one at the horizon
AtSale(flows, year, s, payoff) ==
  LET sold == Least(year, Horizon(flows))
  IN [t \in 0..sold |->
        IF t < sold THEN flows[t]
        ELSE flows[t] + Uplift(s, sold) - Closing(s, sold) - payoff[sold]]

\* expected_sale_npv, in Part-ths
ExpectedSale(growth, flows, s, payoff) ==
  SumOver(DOMAIN s.odds, [i \in DOMAIN s.odds |->
            s.odds[i].weight * Npv(growth, AtSale(flows, s.odds[i].year, s, payoff))])
=============================================================================
