SPECIFICATION Spec
CONSTANTS
  thread = thread  script = script
  Loop = loop  RollbackJob = rollback  SwitchJob = switch
  NoVariant = NoVariant
  Variants <- TwoRows
  Keys <- ThreeKeys
  Values <- Numbers
  Diff <- Diffs
  Regimes <- Labels
  Preset <- Presets
  Baseline <- Plain
  FirstRegime = "neutral"
  Validators <- Two
  Scripts <- OnlyScript
  MaxPerRun = 5
  Single = FALSE
  Forced = FALSE
  Switches = FALSE
  MaxDeploys = 1
  MaxFaults = 0
INVARIANTS BaselineRestored
