SPECIFICATION FairSpec
CONSTANTS
  thread = thread  script = script
  Loop = loop  RollbackJob = rollback  SwitchJob = switch
  NoVariant = NoVariant
  Variants <- TwoRows
  Keys <- ThreeKeys
  Values <- Numbers
  Diff <- Diffs
  Regimes <- Labels
  Preset <- Presets
  Baseline <- Plain
  FirstRegime = "neutral"
  Validators <- OnlyScript
  Scripts <- OnlyScript
  MaxPerRun = 5
  Single = FALSE
  Forced = FALSE
  Switches = TRUE
  MaxDeploys = 2
  MaxFaults = 1
INVARIANTS OneDeployed BaselineRestored
PROPERTIES TestingPasses
