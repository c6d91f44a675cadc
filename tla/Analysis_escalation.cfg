SPECIFICATION AnalysisSpec
CONSTANTS
  None = None
  Hours = 4
  Months = 2
  Calendar <- MCCalendar
  Loss = 2
  Scale = 4
  Unit = 46656
  Grid = 2
  Low = 1
  High = 9
  Part = 4
  FirstLoss = 1
  AnnualLoss = 1
  Consumptions <- MCConsumptions
  Yields <- MCYields
  SnowLosses <- MCSnowLosses
  Batteries <- MCBatteries
  Schedules <- MCSchedules
  RateCards = {}
  ExportConfigs <- MCExportConfigs
  Financials <- MCFinancials
  Requests <- MCRequests
  SaleScenarios <- MCSaleScenarios
  Interests = {1}
  Sensitivities <- MCSensitivities
  Draws <- MCDraws
  WeatherMin = 0
  LossMin = 0
  LossCap = 2
  EscalationBounds <- MCEscalationBounds
  Paths = 2
CHECK_DEADLOCK FALSE
INVARIANT EscalationHelps
