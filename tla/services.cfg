SPECIFICATION ServicesSpec
CONSTANTS
  daily = daily
  manual = manual
  NoOrder = NoOrder
  Values = {100, 84, 79}
  CooldownDays = 1
  MaxDays = 2
  Symbols = {1, 2}
  Wishes <- BuyAndPair
  Slices = 2
  MaxFilled = 1
  DailyFaults = 1
  Messages = 3
  Text = {1}
  Commands = {2}
  MaxBatch = 2
  BotFaults = 2
  BotStops = 2
INVARIANTS ServicesSafe
PROPERTIES Liquidated MessagesHandled
CHECK_DEADLOCK FALSE
