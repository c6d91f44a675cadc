------------------------------- MODULE Dispatch -------------------------------
(***************************************************************************)
(* One hour of the rule-based battery dispatch.  A battery is a record of  *)
(* its usable capacity, the floor it keeps for backup, and the most it     *)
(* takes and gives in an hour.  Energy is counted in whole units; of what  *)
(* the bank holds above its floor, less than one Loss may stay in it.      *)
(***************************************************************************)
EXTENDS Finance

CONSTANT Loss       \* 1 / round_trip_efficiency

ASSUME LossAssumption == Loss \in Nat \ {0}

Battery == {b \in [usable : Nat, floor : Nat, maxCharge : Nat \ {0},
                   maxDischarge : Nat \ {0},
                   strategy : {"self_consumption", "tou_arbitrage"}] :
              b.floor <= b.usable}

\* what a discharge takes out of the bank
Drawn(discharge) == Loss * discharge

\* kWh the bank can deliver without going below its floor
Available(b, soc) == Positive(soc - b.floor) \div Loss

Room(b, soc) == Least(b.maxCharge, b.usable - soc)

\* mutant of GridCharge: the grid also fills up behind a solar surplus
GridChargeBesideSun(b, arbitrage, onPeak, net, soc) ==
  IF arbitrage /\ ~onPeak THEN Room(b, soc) ELSE 0

\* off-peak hours without a solar surplus charge from the grid
GridCharge(b, arbitrage, onPeak, net, soc) ==
  IF arbitrage /\ ~onPeak /\ net >= 0 THEN Room(b, soc) ELSE 0

SolarCharge(b, arbitrage, onPeak, net, soc) ==
  IF net < 0 /\ ~(arbitrage /\ onPeak) THEN Least(-net, Room(b, soc)) ELSE 0

Discharge(b, arbitrage, onPeak, net, soc) ==
  IF net > 0 /\ (arbitrage => onPeak)
  THEN Least(net, Least(b.maxDischarge, Available(b, soc)))
  ELSE 0

Clamped(b, soc) ==
  IF soc < b.floor THEN b.floor ELSE IF soc > b.usable THEN b.usable ELSE soc

\* the loop body of dispatch_battery
HourOutcome(b, arbitrage, onPeak, net, soc) ==
  LET grid  == GridCharge(b, arbitrage, onPeak, net, soc)
      solar == SolarCharge(b, arbitrage, onPeak, net, soc)
      out   == Discharge(b, arbitrage, onPeak, net, soc)
  IN [charge    |-> grid + solar,
      discharge |-> out,
      soc       |-> Clamped(b, soc + grid + solar - Drawn(out)),
      import    |-> Positive(Positive(net) - out + grid),
      export    |-> Positive(Positive(-net) - Least(solar, Positive(-net)))]
=============================================================================
