------------------------------ MODULE Sentiment ------------------------------
(***************************************************************************)
(* The analysis of pending signals by a language model                     *)
(* (engine_v4/ai/sentiment.py): Claude, else a local model found when the  *)
(* process started, else rules; by the pipeline after its scan, by         *)
(* POST /signals/analyze-pending and by POST /signals/{id}/analyze, the    *)
(* latter two behind one shared progress entry.                            *)
(***************************************************************************)
EXTENDS Integers, Sequences, FiniteSets

CONSTANTS
  Signals,              \* signal_id
  Flags,                \* what a signal may rest on: trend, breakout, volume, rank
  Answers,              \* scores a model may give, in text or not at all
  Batches,              \* the pipeline and the requests for all
  Singles,              \* requests for one
  Limit,                \* signals listed, newest first
  MaxSingles            \* bound

VARIABLES
  rows,                 \* swing_signals
  client, ollama,       \* _client, _ollama_available
  todo,                 \* thread -> signals left
  read,                 \* thread -> the row it has read
  status,               \* "ai_analyze_result"
  analyses,             \* history: scores given by batches
  singles
vars == <<rows, client, ollama, todo, read, status, analyses, singles>>

Threads == Batches \cup Singles
NoScore == 0
None == [score |-> -1]
Unreadable == -1

\* The answer: a number, cut to 1 .. 10; 5 for text without one.
Cut(x) == IF x < 1 THEN 1 ELSE IF x > 10 THEN 10 ELSE x
Answered(a) == IF a = Unreadable THEN 5 ELSE Cut(a)
\* _mock_analysis: a rank of .9 counts no more than one of .8, whose test comes first.
Mock(f) == Cut(5 + Cardinality(f \cap {"trend", "breakout", "volume", "rank80"}))
\* What an analysis may give: a call that fails falls back to the rules.
Scores(f) ==
  (IF client \/ ollama THEN {Answered(a) : a \in Answers} ELSE {}) \cup {Mock(f)}

Pending == {i \in Signals : rows[i].status = "pending"}
Newest == {i \in Pending : Cardinality({j \in Pending : j > i}) < Limit}
\* Mutant: those with a score too.
UnscoredOrNot == Newest
Unscored == {i \in Newest : rows[i].score = NoScore}

-----------------------------------------------------------------------------
Shows(s, left) == [status |-> s, left |-> left]
\* analyze_pending_signals: the list is read once.
List(t) ==
  /\ t \in Batches /\ todo[t] = {} /\ read[t] = None /\ Unscored # {}
  /\ todo' = [todo EXCEPT ![t] = Unscored]
  /\ status' = IF t = "pipeline" THEN status ELSE Shows("running", Cardinality(Unscored))
  /\ UNCHANGED <<rows, client, ollama, read, analyses, singles>>
One(t) ==
  /\ t \in Singles /\ todo[t] = {} /\ read[t] = None /\ singles < MaxSingles
  /\ singles' = singles + 1
  /\ \E i \in {i \in Signals : rows[i].status # "none"} : todo' = [todo EXCEPT ![t] = {i}]
  /\ status' = Shows("running", 1)
  /\ UNCHANGED <<rows, client, ollama, read, analyses>>
\* analyze_signal: the row as it is now, whatever became of it.
NextOf(t) == CHOOSE i \in todo[t] : \A j \in todo[t] : j <= i
ReadRow(t) ==
  /\ todo[t] # {} /\ read[t] = None
  /\ read' = [read EXCEPT ![t] = rows[NextOf(t)]]
  /\ UNCHANGED <<rows, client, ollama, todo, status, analyses, singles>>

After(t, left) ==
  IF t = "pipeline" THEN status ELSE IF left = {} THEN Shows("done", 0) ELSE Shows("running", Cardinality(left))
Advance(t, outcome) ==
  LET left == todo[t] \ {NextOf(t)}
  IN /\ todo' = [todo EXCEPT ![t] = left]
     /\ read' = [read EXCEPT ![t] = None]
     /\ status' = IF outcome = "error" /\ t \in Singles THEN Shows("error", 0) ELSE After(t, left)
Write(t) ==
  /\ read[t] # None
  /\ \E s \in Scores(read[t].flags) : rows' = [rows EXCEPT ![NextOf(t)].score = s]
  /\ analyses' = IF t \in Batches THEN [analyses EXCEPT ![NextOf(t)] = @ + 1] ELSE analyses
  /\ Advance(t, "done")
  /\ UNCHANGED <<client, ollama, singles>>
\* The indicators or the update fail: the signal stays as it is.
Fails(t) ==
  /\ read[t] # None
  /\ Advance(t, "error")
  /\ UNCHANGED <<rows, client, ollama, analyses, singles>>

\* The scan inserts a signal, a person decides one, the progress entry expires.
Insert(i) ==
  /\ rows[i].status = "none" /\ \A j \in Signals : j < i => rows[j].status # "none"
  /\ \E f \in Flags : rows' = [rows EXCEPT ![i] = [status |-> "pending", flags |-> f, score |-> NoScore]]
  /\ UNCHANGED <<client, ollama, todo, read, status, analyses, singles>>
Decide(i) ==
  /\ rows[i].status = "pending" /\ rows' = [rows EXCEPT ![i].status = "decided"]
  /\ UNCHANGED <<client, ollama, todo, read, status, analyses, singles>>
Expire ==
  /\ status.status # "idle" /\ status' = Shows("idle", 0)
  /\ UNCHANGED <<rows, client, ollama, todo, read, analyses, singles>>

Init ==
  /\ rows = [i \in Signals |-> [status |-> "none", flags |-> {}, score |-> NoScore]]
  /\ client \in BOOLEAN /\ ollama \in IF client THEN {FALSE} ELSE BOOLEAN
  /\ todo = [t \in Threads |-> {}] /\ read = [t \in Threads |-> None]
  /\ status = Shows("idle", 0) /\ analyses = [i \in Signals |-> 0] /\ singles = 0
Next ==
  \/ Expire
  \/ \E i \in Signals : Insert(i) \/ Decide(i)
  \/ \E t \in Threads : List(t) \/ One(t) \/ ReadRow(t) \/ Write(t) \/ Fails(t)
Spec == Init /\ [][Next]_vars

(***************************************************************************)
(* Properties.                                                             *)
(***************************************************************************)
\* However often the batches run and whatever fails, they score a signal no more often
\* than batches overlap; a score is one of ten, and by rules alone never above nine.
AnalysedOncePerBatch ==
  \A i \in Signals :
    /\ analyses[i] <= Cardinality(Batches)
    /\ rows[i].score \in NoScore .. 10
    /\ ~client /\ ~ollama => rows[i].score <= 9
=============================================================================
