SPECIFICATION Spec
CONSTANTS
  AAA = AAA  BBB = BBB  CCC = CCC  tech = tech  loop = loop  job = job
  NoSignal = NoSignal  NoPosition = NoPosition  NoSector = NoSector
  Signals <- TwoSignals
  Positions <- ThreeRows
  Symbols <- ThreeSymbols
  Sectors <- Tech
  SymbolOf <- Distinct
  SectorOf <- AllTech
  Workers <- LoopAndJob
  Loop = loop
  MaxPositions = 1
  MaxDaily = 1
  MaxPerSector = 0
  Base = 1
  Cap = 3
  HedgeEnabled = FALSE
  HedgeSize = 1
  Faults = FALSE
  Reverts = FALSE
INVARIANTS PositionsBounded
PROPERTIES BookSpec
