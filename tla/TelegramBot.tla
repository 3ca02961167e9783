----------------------------- MODULE TelegramBot -----------------------------
(***************************************************************************)
(* The two-way Telegram bot of engine_v4: one task of the event loop polls   *)
(* getUpdates and handles the updates of an answer one by one; free text     *)
(* becomes a row of swing_analysis_queue.  The next update to ask for is     *)
(* kept in memory only.  Telegram drops an update when a later one is asked  *)
(* for, and sends it again until then.                                       *)
(***************************************************************************)
EXTENDS Integers, Sequences

CONSTANTS
  MaxUpdate,   \* the last update_id (the bound of a run)
  Text,        \* those that are free text of the allowed chat
  Commands,    \* those that are commands of it; the others are of strangers
  MaxBatch, MaxFaults, MaxStops  \* bounds of a run

Updates == 1 .. MaxUpdate   \* update_ids, in the order they were sent

VARIABLES
  sent,      \* the last update a user has sent
  kept,      \* updates Telegram still keeps
  running,   \* _running and the task
  pc,        \* where the task awaits: "poll", "handle", "reply", "backoff"; "off"
  offset,    \* _offset
  batch,     \* the rest of the answer
  queue,     \* rows of swing_analysis_queue per update
  taken,     \* updates some task has begun to handle
  faults, stops

bot == <<running, pc, offset, batch>>
world == <<sent, kept, faults, stops>>
vars == <<bot, world, queue, taken>>

Init ==
  /\ sent = 0 /\ kept = {} /\ faults = 0 /\ stops = 0
  /\ running = FALSE /\ pc = "off" /\ offset = 0 /\ batch = <<>>
  /\ queue = [u \in Updates |-> 0] /\ taken = {}

Send ==
  /\ sent + 1 \in Updates /\ sent' = sent + 1 /\ kept' = kept \cup {sent + 1}
  /\ UNCHANGED <<bot, faults, stops, queue, taken>>

SkipPending == sent + 1
FirstOffset == 0
\* start(): a new TelegramBot when the service is up again.
Start ==
  /\ pc = "off" /\ running' = TRUE /\ pc' = "poll" /\ offset' = FirstOffset /\ batch' = <<>>
  /\ UNCHANGED <<world, queue, taken>>

(***************************************************************************)
(* _poll_loop                                                               *)
(***************************************************************************)
\* Telegram answers with what it keeps from the offset on, oldest first.
Later(o) == {u \in kept : u >= o}
Answers ==
  {b \in UNION {[1 .. n -> Later(offset)] : n \in 1 .. MaxBatch} :
     \A i \in DOMAIN b : {u \in Later(offset) : u < b[i]} = {b[j] : j \in 1 .. i - 1}}

\* An empty answer ends the wait of thirty seconds; the loop asks again.
GetUpdates ==
  /\ pc = "poll" /\ running /\ Later(offset) # {}
  /\ kept' = Later(offset)
  /\ batch' \in Answers
  /\ pc' = "handle"
  /\ UNCHANGED <<sent, running, offset, queue, taken, faults, stops>>

\* No answer, or not 200: wait and ask again.
PollFails ==
  /\ pc = "poll" /\ faults < MaxFaults /\ faults' = faults + 1 /\ pc' = "backoff"
  /\ UNCHANGED <<sent, kept, stops, running, offset, batch, queue, taken>>

Backoff ==
  /\ pc = "backoff" /\ pc' = "poll"
  /\ UNCHANGED <<world, running, offset, batch, queue, taken>>

\* The offset moves on before the update is handled, one update at a time.
NextOffset(u) == u + 1

\* _handle_update: strangers and empty messages are dropped, a command is
\* answered, free text is stored and then answered.
Handle ==
  /\ pc = "handle" /\ batch # <<>>
  /\ LET u == Head(batch) IN
     /\ offset' = NextOffset(u) /\ taken' = taken \cup {u}
     /\ queue' = IF u \in Text THEN [queue EXCEPT ![u] = @ + 1] ELSE queue
     /\ pc' = IF u \in Text \cup Commands THEN "reply" ELSE "handle"
  /\ batch' = Tail(batch)
  /\ UNCHANGED <<world, running>>

\* The INSERT raises: the chat is told so, and the update is done with.
HandleFails ==
  /\ pc = "handle" /\ batch # <<>> /\ Head(batch) \in Text
  /\ faults < MaxFaults /\ faults' = faults + 1
  /\ offset' = NextOffset(Head(batch)) /\ taken' = taken \cup {Head(batch)}
  /\ batch' = Tail(batch) /\ pc' = "reply"
  /\ UNCHANGED <<sent, kept, stops, running, queue>>

\* _send never raises.
Reply ==
  /\ pc = "reply" /\ pc' = "handle"
  /\ UNCHANGED <<world, running, offset, batch, queue, taken>>

EndBatch ==
  /\ pc = "handle" /\ batch = <<>> /\ pc' = "poll"
  /\ UNCHANGED <<world, running, offset, batch, queue, taken>>

(***************************************************************************)
(* The end of the task                                                      *)
(***************************************************************************)
\* stop(): CancelledError reaches the task where it awaits.
Cancel ==
  /\ pc \in {"poll", "backoff", "reply"} /\ stops < MaxStops /\ stops' = stops + 1
  /\ running' = FALSE /\ pc' = "off" /\ batch' = <<>>
  /\ UNCHANGED <<sent, kept, faults, offset, queue, taken>>

\* The process is killed.
Crash ==
  /\ pc # "off" /\ stops < MaxStops /\ stops' = stops + 1
  /\ running' = FALSE /\ pc' = "off" /\ batch' = <<>>
  /\ UNCHANGED <<sent, kept, faults, offset, queue, taken>>

Task == Start \/ GetUpdates \/ Backoff \/ Handle \/ Reply \/ EndBatch
Next == Task \/ Send \/ PollFails \/ HandleFails \/ Cancel \/ Crash
Spec == Init /\ [][Next]_vars
\* systemd starts the service again; a wait and a sleep end.
FairSpec == Spec /\ WF_vars(Task)

(***************************************************************************)
(* Properties                                                               *)
(***************************************************************************)
\* Telegram drops an update only after some task has begun to handle it: none
\* is lost by a crash, a cancelled task or a failed poll (_poll_loop).
DroppedTaken == \A u \in 1 .. sent : u \in kept \/ u \in taken

\* A message is stored again only by a bot started again: at most once more than it
\* was stopped (_enqueue_for_claude).
StoredOncePerTask == \A u \in Updates : queue[u] <= 1 + stops

\* Every message sent is handled in the end.
MessagesHandled == \A u \in Updates : sent >= u ~> u \in taken

(***************************************************************************)
(* Why the first two hold: the rest of an answer leaves out nothing that   *)
(* no task has begun to handle, and all of it is asked for from the offset *)
(* on.                                                                     *)
(***************************************************************************)
BatchSound ==
  /\ batch \in Seq(1 .. sent)
  /\ \A i \in DOMAIN batch :
       /\ offset <= batch[i] /\ \A j \in 1 .. i - 1 : batch[j] < batch[i]
       /\ \A u \in 1 .. batch[i] - 1 : u \in taken \/ \E j \in 1 .. i - 1 : u = batch[j]
BotSound ==
  /\ sent \in Nat /\ sent <= MaxUpdate /\ kept \subseteq 1 .. sent
  /\ offset \in 0 .. sent + 1 /\ stops \in Nat
  /\ queue \in [Updates -> Nat]
  /\ BatchSound /\ (pc = "off" => batch = <<>>)
  /\ \A u \in 1 .. offset - 1 : u \in taken
  /\ \A u \in Updates : queue[u] <= stops + IF pc # "off" /\ u < offset THEN 1 ELSE 0
  /\ DroppedTaken
=============================================================================
