SPECIFICATION Spec
CONSTANTS
  AAA = AAA  BBB = BBB  CCC = CCC  tech = tech  loop = loop  job = job
  NoSignal = NoSignal  NoPosition = NoPosition  NoSector = NoSector
  Signals <- OneSignal
  Positions <- ThreeRows
  Symbols <- ThreeSymbols
  Sectors <- Tech
  SymbolOf <- SameSymbol
  SectorOf <- AllTech
  Workers <- LoopAndJob
  Loop = loop
  MaxPositions = 2
  MaxDaily = 1
  MaxPerSector = 0
  Base = 1
  Cap = 3
  HedgeEnabled = FALSE
  HedgeSize = 1
  Faults = TRUE
  Reverts = TRUE
INVARIANTS SymbolBounded ApprovedOwned EntriesLogged
