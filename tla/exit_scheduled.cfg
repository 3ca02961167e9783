SPECIFICATION FairSpec
CONSTANTS
  p1 = p1  p2 = p2  job = job  manual = manual  loop = loop
  NoSignal = NoSignal  NoPosition = NoPosition
  Positions <- TwoRows
  Lot <- TwoFour
  Percents <- HalfOrMore
  Signals <- OneSignal
  Jobs <- OneJob
  Loop = loop
  LegacyExit = FALSE
  Manual = FALSE
  Faults = FALSE
CHECK_DEADLOCK FALSE
INVARIANTS SalesExact
PROPERTIES CondemnedCloses ChecksEnd
