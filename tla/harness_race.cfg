SPECIFICATION Spec
CONSTANTS
  thread = thread  script = script
  Loop = loop  RollbackJob = rollback  SwitchJob = switch
  NoVariant = NoVariant
  Variants <- ThreeRows
  Keys <- TwoKeys
  Values <- Numbers
  Diff <- TwoKeyDiffs
  Regimes <- Labels
  Preset <- NoPresets
  Baseline <- PlainTwo
  FirstRegime = "neutral"
  Validators <- Two
  Scripts <- None
  MaxPerRun = 1
  Single = TRUE
  Forced = TRUE
  Switches = FALSE
  MaxDeploys = 1
  MaxFaults = 1
SYMMETRY ThreadSymmetry
INVARIANTS SlotBounded Restorable
