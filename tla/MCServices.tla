------------------------------ MODULE MCServices ------------------------------
(***************************************************************************)
(* Two services that share no state: the daily pipeline of the previous    *)
(* engine with its kill switch, and the Telegram bot.  A behaviour is one  *)
(* of one service, chosen at the start; the bot uses x1 .. x10 only.       *)
(***************************************************************************)
EXTENDS Integers

CONSTANTS
  daily, manual,        \* the two runs
  NoOrder,
  Values, CooldownDays, MaxDays, Symbols, Wishes, Slices, MaxFilled, DailyFaults,
  Messages, Text, Commands, MaxBatch, BotFaults, BotStops

VARIABLES part, x1, x2, x3, x4, x5, x6, x7, x8, x9, x10, x11, x12, x13, x14, x15, x16

all == <<part, x1, x2, x3, x4, x5, x6, x7, x8, x9, x10, x11, x12, x13, x14, x15, x16>>

\* A momentum strategy buys one symbol, the pair strategy sells another.
Wish(strategy, symbol, side) == [strategy |-> strategy, symbol |-> symbol, side |-> side]
BuyAndPair == {Wish("vol_momentum", 1, "buy"), Wish("pairs_trading", 2, "sell")}

P == INSTANCE DailyPipeline WITH
       Runs <- {daily, manual}, Scheduled <- daily, Signals <- Wishes, MaxFaults <- DailyFaults,
       peak <- x1, current <- x2, level <- x3, cooldown <- x4, today <- x5, step <- x6,
       view <- x7, todo <- x8, order <- x9, left <- x10, got <- x11, held <- x12,
       filled <- x13, recorded <- x14, overtaken <- x15, faults <- x16

T == INSTANCE TelegramBot WITH
       MaxUpdate <- Messages, MaxFaults <- BotFaults, MaxStops <- BotStops,
       sent <- x1, kept <- x2, running <- x3, pc <- x4, offset <- x5, batch <- x6, queue <- x7,
       taken <- x8, faults <- x9, stops <- x10

(***************************************************************************)
(* One service at a time.                                                  *)
(***************************************************************************)
Spare == <<x11, x12, x13, x14, x15, x16>>

ServicesInit ==
  \/ part = "pipeline" /\ P!Init
  \/ part = "bot" /\ T!Init /\ x11 = 0 /\ x12 = 0 /\ x13 = 0 /\ x14 = 0 /\ x15 = 0 /\ x16 = 0

Alone(name) == part = name /\ UNCHANGED part
PipelineStep == Alone("pipeline") /\ P!Next
BotStep      == Alone("bot") /\ T!Next /\ UNCHANGED Spare

ServicesNext == PipelineStep \/ BotStep

\* The fairness of DailyPipeline's FairSpec and of the bot's FairSpec.
ServicesSpec ==
  /\ ServicesInit /\ [][ServicesNext]_all
  /\ WF_all(Alone("pipeline") /\ (P!Begin(daily) \/ P!Step(daily)))
  /\ WF_all(Alone("bot") /\ T!Task /\ UNCHANGED Spare)

(***************************************************************************)
(* The services' properties.                                               *)
(***************************************************************************)
\* DailyPipeline: the kill switch is as severe as the drawdown asks for, an
\* emergency stops what is decided after it, the fills are recorded.
\* TelegramBot: Telegram drops only what some task has begun to handle, and nothing is
\* stored more often than the bot was started.
ServicesSafe ==
  /\ part = "pipeline" => P!PipelineSafe
  /\ part = "bot" => T!DroppedTaken /\ T!StoredOncePerTask
\* DailyPipeline: an emergency empties the account.
Liquidated ==
  (part = "pipeline" /\ P!Emergency) ~> (part = "pipeline" /\ (~P!Emergency \/ P!Emptied))
\* TelegramBot: every message is handled in the end, crashes and failures or not.
MessagesHandled == \A u \in 1 .. Messages : (part = "bot" /\ u <= x1) ~> (part = "bot" /\ u \in x8)
===============================================================================
