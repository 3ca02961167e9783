SPECIFICATION Spec
CONSTANTS
  p1 = p1  p2 = p2  job = job  manual = manual  loop = loop
  NoSignal = NoSignal  NoPosition = NoPosition
  Positions <- OneRow
  Lot <- Four
  Percents <- Half
  Signals <- OneSignal
  Jobs <- TwoJobs
  Loop = loop
  LegacyExit = TRUE
  Manual = TRUE
  Faults = FALSE
CHECK_DEADLOCK FALSE
INVARIANTS SalesCovered
