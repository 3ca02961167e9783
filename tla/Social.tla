-------------------------------- MODULE Social --------------------------------
(***************************************************************************)
(* What is said about a symbol (engine_v4/ai/social_sentiment.py): the     *)
(* messages of StockTwits and the posts of Reddit, each cached for an      *)
(* hour, combined for a score or for the daily collection, which stores    *)
(* both (Scheduler._job_social_collect, POST /social/collect).             *)
(*                                                                         *)
(* Scores of a source in tenths of a point, combined ones in hundredths.   *)
(***************************************************************************)
EXTENDS Integers, Sequences, Sums

CONSTANTS
  Streams,              \* votes of the messages of StockTwits, none when it fails
  Boards,               \* subreddit -> posts, none when it fails
  Verdicts,             \* votes the local model may read in the first posts
  CacheSteps,           \* ttl 3600
  MaxTime, MaxRows      \* bounds

VARIABLES
  now,
  stream, board,        \* what the sources show
  client,               \* there are credentials for Reddit
  said,                 \* source -> time -> scores it gives
  cache,                \* "stocktwits:<symbol>", "reddit:<symbol>"
  pc, found,            \* callers between the two sources
  rows,                 \* swing_social_sentiment
  answer                \* last answer of get_social_sentiment

vars == <<now, stream, board, client, said, cache, pc, found, rows, answer>>

Callers == {"scorer", "collector"}
Sources == {"stocktwits", "reddit"}
NoEntry == [until |-> 0]
Votes(b, r, n) == [bulls |-> b, bears |-> r, neutral |-> n]
Mentions(v) == v.bulls + v.bears + v.neutral

\* From all bears, -100, to all bulls, 100; 0 without a vote.
Score(v) == LET cast == v.bulls + v.bears IN IF cast = 0 THEN 0 ELSE (2000 * v.bulls) \div cast - 1000

\* A reading of a source: unavailable when it fails or has nothing to say.
Unavailable == [available |-> FALSE, score |-> 0, mentions |-> 0]
Reading(v, n) == [available |-> TRUE, score |-> Score(v), mentions |-> n]

\* get_stocktwits
Twits(votes) == IF Mentions(votes) = 0 THEN Unavailable ELSE Reading(votes, Mentions(votes))

\* get_reddit: posts of the last day that name the symbol, on the boards that
\* answer, by their words or as the local model reads the first of them.
Counted(shown) == {p \in UNION {shown[b] : b \in DOMAIN shown} : p.fresh /\ p.named}
Number(posts) == Sum([p \in posts |-> p.n])
ByWords(posts) ==
  LET Leaning(l) == Number({p \in posts : p.leans = l})
  IN Votes(Leaning("bull"), Leaning("bear"), Leaning("neutral"))
Posts(shown) ==
  LET posts == Counted(shown)
  IN IF ~client \/ posts = {} THEN {Unavailable}
     ELSE {Reading(v, Number(posts)) : v \in Verdicts \cup {ByWords(posts)}}

\* Mutant: what is not there is cached like the rest.
KeptAnyway(r) == TRUE
Kept(r) == r.available

\* get_social_sentiment: Reddit 60, StockTwits 40; a crowd too sure is damped.
\* Mutant: a source that is not there counts as neutral.
MixedAnyway(t, r) == 6 * r.score + 4 * t.score
Mixed(t, r) ==
  CASE r.available /\ t.available   -> 6 * r.score + 4 * t.score
    [] r.available /\ ~t.available  -> 10 * r.score
    [] ~r.available /\ t.available  -> 10 * t.score
    [] ~r.available /\ ~t.available -> 0
Combined(t, r) ==
  LET all == t.mentions + r.mentions
      mixed == Mixed(t, r)
  IN [stocktwits |-> t, reddit |-> r, mentions |-> all,
      score |-> IF mixed > 8000 /\ all > 30 THEN (4 * mixed) \div 5 ELSE mixed]

-----------------------------------------------------------------------------
Live(s) == now < cache[s].until
Store(s, r) ==
  cache' = IF ~Live(s) /\ Kept(r) THEN [cache EXCEPT ![s] = [reading |-> r, until |-> now + CacheSteps]] ELSE cache
\* What a caller may read of a source: the cached reading, or a new one.
Readable(s, readings) == IF Live(s) THEN {cache[s].reading} ELSE readings
Ask(c) ==
  /\ pc[c] = "idle"
  /\ \E r \in Readable("stocktwits", {Twits(stream)}) :
       /\ Store("stocktwits", r)
       /\ found' = [found EXCEPT ![c] = [reading |-> r, at |-> now]]
  /\ pc' = [pc EXCEPT ![c] = "reddit"]
  /\ UNCHANGED <<now, stream, board, client, said, rows, answer>>

\* save_sentiment: a row for each source that is there, unless the insert fails.
Saved(a) ==
  LET row(s) == IF a[s].available THEN <<[source |-> s, score |-> a[s].score]>> ELSE <<>>
  IN {rows, rows \o row("reddit") \o row("stocktwits")}
Finish(c) ==
  /\ pc[c] = "reddit"
  /\ \E r \in Readable("reddit", Posts(board)) :
       LET a == Combined(found[c].reading, r)
       IN /\ Store("reddit", r)
          /\ answer' = [a EXCEPT !.stocktwits = [reading |-> @, at |-> found[c].at],
                                 !.reddit = [reading |-> @, at |-> now]]
          /\ rows' \in IF c = "collector" /\ a.mentions > 0 /\ Len(rows) < MaxRows THEN Saved(a) ELSE {rows}
  /\ pc' = [pc EXCEPT ![c] = "idle"]
  /\ found' = [found EXCEPT ![c] = NoEntry]
  /\ UNCHANGED <<now, stream, board, client, said>>

-----------------------------------------------------------------------------
\* Time passes and the sources say something else, or nothing.
Saying(votes, shown) == [stocktwits |-> {Twits(votes)}, reddit |-> Posts(shown)]
Pass ==
  /\ now < MaxTime /\ now' = now + 1
  /\ \E votes \in Streams, shown \in Boards :
       /\ stream' = votes /\ board' = shown
       /\ said' = [s \in Sources |-> Append(said[s], Saying(votes, shown)[s])]
  /\ UNCHANGED <<client, cache, pc, found, rows, answer>>

Init ==
  /\ now = 1 /\ stream \in Streams /\ board \in Boards /\ client \in BOOLEAN
  /\ said = [s \in Sources |-> <<Saying(stream, board)[s]>>]
  /\ cache = [s \in Sources |-> NoEntry]
  /\ pc = [c \in Callers |-> "idle"] /\ found = [c \in Callers |-> NoEntry]
  /\ rows = <<>>
  /\ answer = [score |-> 0, mentions |-> 0,
               stocktwits |-> [reading |-> Unavailable, at |-> 0], reddit |-> [reading |-> Unavailable, at |-> 0]]
Next == Pass \/ \E c \in Callers : Ask(c) \/ Finish(c)
Spec == Init /\ [][Next]_vars

(***************************************************************************)
(* Properties.                                                             *)
(***************************************************************************)
\* Each half of an answer is what its source said within the cache's life before it was
\* asked, and a source counts as absent only when it said nothing at that very moment: a
\* failure is never remembered, whichever of the two callers met it.  The whole lies
\* between the halves there are, or is damped below them.
Heard(s) ==
  LET half == answer[s]
  IN half.at > 0 =>
       IF half.reading.available
       THEN \E t \in DOMAIN said[s] : t \in half.at - CacheSteps + 1 .. half.at /\ half.reading \in said[s][t]
       ELSE Unavailable \in said[s][half.at]
Between ==
  LET there == {10 * answer[s].reading.score : s \in {s \in Sources : answer[s].reading.available}}
  IN IF there = {} THEN answer.score = 0
     ELSE \/ \E a, b \in there : a <= answer.score /\ answer.score <= b
          \/ answer.mentions > 30 /\ 6400 < answer.score /\ answer.score <= 8000
AnswersHeard == Between /\ \A s \in Sources : Heard(s)
===============================================================================
