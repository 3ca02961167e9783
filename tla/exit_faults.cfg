SPECIFICATION Spec
CONSTANTS
  p1 = p1  p2 = p2  job = job  manual = manual  loop = loop
  NoSignal = NoSignal  NoPosition = NoPosition
  Positions <- OneRow
  Lot <- Four
  Percents <- HalfOrMore
  Signals <- TwoSignals
  Jobs <- TwoJobs
  Loop = loop
  LegacyExit = TRUE
  Manual = FALSE
  Faults = TRUE
CHECK_DEADLOCK FALSE
INVARIANTS ExitsBounded OrdersLogged
