SPECIFICATION Spec
CONSTANTS
  p1 = p1  p2 = p2  job = job  manual = manual  loop = loop
  NoSignal = NoSignal  NoPosition = NoPosition
  Positions <- OneRow
  Lot <- Single
  Percents <- Half
  Signals <- OneSignal
  Jobs <- OneJob
  Loop = loop
  LegacyExit = FALSE
  Manual = FALSE
  Faults = FALSE
CHECK_DEADLOCK FALSE
INVARIANTS NeverOversold
