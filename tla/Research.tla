------------------------------- MODULE Research ------------------------------
(* The research arm of the strategy harness: the weekly run that fetches     *)
(* articles into the knowledge base (engine_v4/harness/researcher.py and     *)
(* knowledge.py), the extraction of signal formulas from the papers          *)
(* (formula_extractor.py) and their validation on the price history          *)
(* (formula_lab.py).                                                         *)
(*                                                                           *)
(* A language model reads each article; its grade, the formulas it proposes  *)
(* and their correlations on the two halves of the history are inputs.       *)
EXTENDS Integers, Sequences, FiniteSets

CONSTANTS
  Urls,           \* the articles the sources list
  Grades,         \* applicability scores
  Expressions,    \* what a proposal may say; Legal is what the whitelist takes
  Legal,
  Limit,          \* rows list_knowledge returns to the deduplication
  ShortList,      \* the default of that limit
  MaxItems,       \* articles one run reads
  LowGrade,       \* articles below it are left out
  MaxRows,        \* bound: rows of the knowledge base
  MaxRuns         \* bound: weekly runs

VARIABLES
  base,           \* swing_knowledge: [url, grade, run]
  pc, queue, known, size,   \* the run: step, items to read, the URLs and the
                            \* number of rows it saw at its start
  runs,
  tried,          \* swing_formula_extraction: indices of base
  formulas        \* swing_signal_formulas: status of each expression

vars == <<base, pc, queue, known, size, runs, tried, formulas>>

Init ==
  /\ base = <<>>
  /\ pc = "idle" /\ queue = <<>> /\ known = {} /\ size = 0
  /\ runs = 0
  /\ tried = {}
  /\ formulas = [e \in Expressions |-> "none"]

-----------------------------------------------------------------------------
(* run_research                                                              *)

\* list_knowledge orders by grade, the newest first among equals.
Before(i, j) ==
  base[i].grade > base[j].grade \/ (base[i].grade = base[j].grade /\ i > j)
Listing(n) ==
  {base[i].url : i \in {k \in DOMAIN base :
                         Cardinality({j \in DOMAIN base : Before(j, k)}) < n}}
KnownOfDefault == Listing(ShortList)
Known == Listing(Limit)

\* Fetching: the sources list some articles, in any order, and one article may
\* be listed by two of them; those of the known ones are passed over.
Lists(urls) == UNION {[1..n -> urls] : n \in 0..2}

Fetch ==
  /\ pc = "idle" /\ runs < MaxRuns
  /\ runs' = runs + 1
  /\ known' = Known
  /\ size' = Len(base)
  /\ \E list \in Lists(Urls \ Known) :
       queue' = SubSeq(list, 1, IF Len(list) < MaxItems THEN Len(list) ELSE MaxItems)
  /\ pc' = "read"
  /\ UNCHANGED <<base, tried, formulas>>

\* The model's summary is missing or its grade too low: nothing is written, so
\* the article is new again next week.
Skip ==
  /\ pc = "read" /\ queue # <<>>
  /\ queue' = Tail(queue)
  /\ UNCHANGED <<base, pc, known, size, runs, tried, formulas>>

AddKnowledge ==
  /\ pc = "read" /\ queue # <<>> /\ Len(base) < MaxRows
  /\ \E g \in Grades :
       /\ g >= LowGrade
       /\ base' = Append(base, [url |-> Head(queue), grade |-> g, run |-> runs])
  /\ queue' = Tail(queue)
  /\ UNCHANGED <<pc, known, size, runs, tried, formulas>>

\* The run ends, or the service restarts in the middle of it.
End ==
  /\ pc = "read"
  /\ pc' = "idle" /\ queue' = <<>>
  /\ UNCHANGED <<base, known, size, runs, tried, formulas>>

-----------------------------------------------------------------------------
(* extract_pending                                                           *)

\* The insert leaves a row with the same expression alone.
Store(e) == [formulas EXCEPT ![e] = IF @ = "none" THEN "pending" ELSE @]

\* extract_from_knowledge: an expression the whitelist refuses is not stored;
\* the attempt is recorded after the proposals, whatever came of them.
Extract(i) ==
  /\ i \notin tried
  /\ \E e \in Expressions :
       formulas' = IF e \in Legal THEN Store(e) ELSE formulas
  /\ tried' = tried \cup {i}
  /\ UNCHANGED <<base, pc, queue, known, size, runs>>

\* The model proposed nothing or did not answer: recorded all the same.
ExtractNothing(i) ==
  /\ i \notin tried
  /\ tried' = tried \cup {i}
  /\ UNCHANGED <<base, pc, queue, known, size, runs, formulas>>

\* A restart between the proposal's commit and the attempt's.
ExtractCut(i) ==
  /\ i \notin tried
  /\ \E e \in Legal : formulas' = Store(e)
  /\ UNCHANGED <<base, pc, queue, known, size, runs, tried>>

-----------------------------------------------------------------------------
(* validate_all_pending                                                      *)

\* Both halves of the history must reach the threshold; a correlation that
\* cannot be measured rejects.
Validate(e) ==
  /\ formulas[e] = "pending"
  /\ \E train, test \in {"good", "poor", "unmeasured"} :
       formulas' = [formulas EXCEPT ![e] =
                      IF train = "good" /\ test = "good" THEN "validated" ELSE "rejected"]
  /\ UNCHANGED <<base, pc, queue, known, size, runs, tried>>

Next ==
  \/ Fetch \/ Skip \/ AddKnowledge \/ End
  \/ \E i \in DOMAIN base : Extract(i) \/ ExtractNothing(i) \/ ExtractCut(i)
  \/ \E e \in Expressions : Validate(e)

Spec == Init /\ [][Next]_vars

-----------------------------------------------------------------------------
(* An article gets a second row only when two sources listed it in one run,  *)
(* or when the base had outgrown the list the deduplication reads: otherwise *)
(* no number of weekly runs, skipped articles and cut runs repeats it.       *)
RepeatedOnlyBeyondListStep ==
  \A u \in Urls :
    Len(base') > Len(base) /\ base'[Len(base')].url = u /\ (\E i \in DOMAIN base : base[i].url = u)
      => \/ \E i \in DOMAIN base : base[i].url = u /\ base[i].run = runs
         \/ size > Limit
RepeatedOnlyBeyondList == [][RepeatedOnlyBeyondListStep]_vars

-----------------------------------------------------------------------------
(* Why it holds: a run reads nothing of what it saw at its start, which is   *)
(* every row while the base fits the list; the later rows are its own.       *)
Knowledge == [url : Urls, grade : Grades, run : Int]
ReadingSound ==
  /\ base \in Seq(Knowledge) /\ queue \in Seq(Urls) /\ runs \in Int
  /\ size \in 0..Len(base)
  /\ size <= Limit => \A i \in 1..size : base[i].url \in known
  /\ pc = "read" => /\ \A i \in DOMAIN queue : queue[i] \notin known
                    /\ \A i \in DOMAIN base : i > size => base[i].run = runs
=============================================================================
