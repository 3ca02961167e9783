SPECIFICATION FairSpec
CONSTANTS
  AAA = AAA  BBB = BBB  CCC = CCC  tech = tech  loop = loop  job = job
  NoSignal = NoSignal  NoPosition = NoPosition  NoSector = NoSector
  Signals <- ThreeSignals
  Positions <- ThreeRows
  Symbols <- ThreeSymbols
  Sectors <- Tech
  SymbolOf <- Distinct
  SectorOf <- BBBUnknown
  Workers <- LoopOnly
  Loop = loop
  MaxPositions = 2
  MaxDaily = 2
  MaxPerSector = 2
  Base = 3
  Cap = 5
  HedgeEnabled = TRUE
  HedgeSize = 4
  Faults = FALSE
  Reverts = FALSE
INVARIANTS ExposureCapped OneEntryPerSignal DailyCountBounded
PROPERTIES ApprovedPasses WorkersFinish
