------------------------------ MODULE UrdbParse ------------------------------
(***************************************************************************)
(* parse_urdb_response: from a URDB rate card to the schedule the engine   *)
(* bills by.  A card is a record of                                        *)
(*   fixed      fixedchargefirstmeter                                      *)
(*   structure  energyratestructure: the blocks of each period, empty if   *)
(*              they are malformed or no objects; a block has a max, a rate *)
(*   weekday,   the period of each month and slot, None unless the matrix  *)
(*   weekend    is 12 by 24; a slot is of weekdays or of weekends          *)
(***************************************************************************)
EXTENDS Tariffs

HasMatrices(card) == Len(card.structure) > 1 /\ card.weekday # None /\ card.weekend # None

\* no rate is negative (TariffSchedule refuses such a card), and every hour has
\* its column in one of the matrices
RateCard(card) ==
  /\ card.structure \in Seq(Seq([max : Nat \cup {None}, rate : Nat]))
  /\ HasMatrices(card) =>
       \A h \in Hour : LET cell == Calendar[h]
                       IN cell.slot \in DOMAIN card.weekday[cell.month]
                          <=> cell.slot \notin DOMAIN card.weekend[cell.month]

\* the slots of a month that a period has
Mask(matrix, period, m) == {slot \in DOMAIN matrix[m] : matrix[m][slot] = period}

\* mutant of Bands: all the months of a period share its hours
BandsAllYear(card, matrix, period) ==
  <<[months |-> Month, slots |-> UNION {Mask(matrix, period, m) : m \in Month},
     rate |-> card.structure[period][1].rate]>>

\* the months with the hours of one of them, at the rate of the first block
Band(card, matrix, period, m) ==
  [months |-> {k \in Month : Mask(matrix, period, k) = Mask(matrix, period, m)},
   slots  |-> Mask(matrix, period, m),
   rate   |-> card.structure[period][1].rate]

\* a month with hours of the period, and the first with just these
Opens(matrix, period, m) ==
  /\ Mask(matrix, period, m) # {}
  /\ \A k \in 1..(m - 1) : Mask(matrix, period, k) # Mask(matrix, period, m)

\* a period on weekdays or on weekends: one band for the months with the same
\* hours
Bands(card, matrix, period) ==
  FlattenSeq([m \in Month |-> IF Opens(matrix, period, m)
                              THEN <<Band(card, matrix, period, m)>> ELSE <<>>])

\* _build_tou_periods passes a malformed period over
TouPeriods(card) ==
  FlattenSeq([period \in DOMAIN card.structure |->
                IF card.structure[period] = <<>> THEN <<>>
                ELSE Bands(card, card.weekday, period) \o Bands(card, card.weekend, period)])

\* two matrices, and something in them; else the first period is all there is
IsTou(card) == HasMatrices(card) /\ TouPeriods(card) # <<>>

\* a block without a max, or with a max of zero, is the catch-all
TieredBlocks(blocks) ==
  [i \in DOMAIN blocks |-> [rate |-> blocks[i].rate,
                            upTo |-> IF blocks[i].max = 0 THEN None ELSE blocks[i].max]]

\* no schedule: a ValueError, and fetch falls back to the seed; or, where a block
\* it reads is no object, an AttributeError, which fetch lets through
Malformed(card) ==
  \/ card.structure = <<>>
  \/ card.structure[1] = <<>> /\ ~IsTou(card)

Parsed(card) ==
  LET plan   == [structure |-> "flat", fixed |-> card.fixed, rate |-> None,
                 blocks |-> <<>>, periods |-> <<>>]
      blocks == card.structure[1]
  IN CASE IsTou(card) ->
            [plan EXCEPT !.structure = "tou", !.periods = TouPeriods(card)]
       [] ~IsTou(card) /\ Len(blocks) = 1 ->
            [plan EXCEPT !.rate = blocks[1].rate]
       [] ~IsTou(card) /\ Len(blocks) # 1 ->
            [plan EXCEPT !.structure = "tiered", !.blocks = TieredBlocks(blocks)]

----------------------------------------------------------------------------
\* The reference, read off the card without the schedule

\* the rate of the period the matrices name for an hour, if it is well formed
CardRate(card, cell) ==
  LET matrix == IF cell.slot \in DOMAIN card.weekday[cell.month] THEN card.weekday ELSE card.weekend
      period == matrix[cell.month][cell.slot]
  IN IF period \in DOMAIN card.structure /\ card.structure[period] # <<>>
     THEN card.structure[period][1].rate ELSE None

\* the rate of the k-th kWh of a month: of the lowest tier that reaches it, the
\* first such as they are written
CardTier(blocks, k) ==
  LET reach  == {i \in DOMAIN blocks : blocks[i].max # None /\ blocks[i].max >= k}
      lowest == {i \in reach : \A j \in reach : blocks[i].max <= blocks[j].max}
      open   == {i \in DOMAIN blocks : blocks[i].max \in {0, None}}
  IN CASE Len(blocks) = 1                            -> blocks[1].rate
       [] Len(blocks) # 1 /\ reach # {}               -> blocks[Min(lowest)].rate
       [] Len(blocks) # 1 /\ reach = {} /\ open # {} -> blocks[Min(open)].rate
       [] OTHER                                      -> 0

\* None if the card leaves an hour of the month without a rate
CardCharge(card, kwh, m) ==
  LET used == {h \in HoursOf(m) : kwh[h] > 0}
  IN IF IsTou(card)
     THEN IF \E h \in used : CardRate(card, Calendar[h]) = None THEN None
          ELSE SumOver(used, [h \in used |-> kwh[h] * CardRate(card, Calendar[h])])
     ELSE SumOver(1..MonthKwh(kwh, m), [k \in Nat |-> CardTier(card.structure[1], k)])
=============================================================================
