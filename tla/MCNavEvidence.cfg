SPECIFICATION Spec
CONSTANTS
  Dates <- Days
  MonthOf <- Month
  YearOf <- Year
  Amount <- FlowAmount
  NavScale = 100
  None = None
  Flows = {"in", "out"}
  Runs = {r1}
  FirstCash = 70
  FirstStock = 30
  Prices <- SomePrices
  Budgets <- SomeBudgets
INVARIANTS NoReturnWithoutMove
PROPERTIES CountsWhatItValues SharesKeepAddingUp
CHECK_DEADLOCK FALSE
