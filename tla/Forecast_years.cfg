SPECIFICATION Spec
CONSTANTS
  None = None
  Hours = 4
  Months = 2
  Calendar <- MCCalendar
  Loss = 2
  Scale = 4
  Unit = 1296
  Grid = 2
  Low = 1
  High = 9
  Part = 4
  FirstLoss = 2
  AnnualLoss = 1
  Consumptions <- MCConsumptions
  Yields <- MCYields
  SnowLosses <- MCSnowLosses
  Batteries <- MCBatteries
  Schedules <- MCSchedules
  RateCards <- MCRateCards
  ExportConfigs <- MCExportConfigs
  Financials <- MCFinancials
  Requests <- MCRequests
  SaleScenarios <- MCSaleScenarios
  Interests = {0, 1}
INVARIANTS
  TypeOK
  BatteryBalances
  BillsFollowTheCard
  CreditIsConserved
  SavingsBounded
  SaleSettlesTheLoan
  OnlyGapsRaise
