------------------------------- MODULE LlmGate -------------------------------
(* The language-model gate of the automatic approval                         *)
(* (engine_v4/strategy/llm_gate.py): evaluate_signals_parallel asks about    *)
(* several signals at once; each evaluation looks in the cache, asks Claude, *)
(* falls back to Ollama and, when neither answers, approves.                 *)
(*                                                                           *)
(* Time passes in steps of which CacheSteps make the cache's hour.  A model  *)
(* may give any verdict, or fail by a timeout, an HTTP error or an answer    *)
(* that does not parse; the text of a verdict is left out.                   *)
EXTENDS Integers, FiniteSets

CONSTANTS
  Signals,        \* pending signals of different symbols
  HasKey,         \* an Anthropic key is configured
  CacheSteps,     \* CACHE_TTL_SECONDS
  MaxTime,        \* bound: time steps
  MaxAsked        \* bound: evaluations of one signal

VARIABLES
  now,
  regime, open,   \* what the context reads: macro regime, open positions
  cache,          \* verdicts by key, with the time they were stored
  pc, ctx,        \* an evaluation's step, the context it gathered
  result,         \* the verdict of the last evaluation of a signal
  asked,          \* evaluations so far
  answers         \* every verdict a model gave: [key, decision, time]

vars == <<now, regime, open, cache, pc, ctx, result, asked, answers>>

Decisions == {"APPROVE", "REJECT", "DEFER"}
Key(s, c) == <<s, c.regime, c.open>>
\* A key that forgets the circumstances.
KeyOfSymbol(s, c) == <<s>>
\* _cache_key: symbol, score, regime and number of open positions.  The score
\* of a signal is written once.
CacheKey(s, c) == Key(s, c)
None == [decision |-> "none", mode |-> "none"]
Context == [regime |-> regime, open |-> open]

Init ==
  /\ now = 0
  /\ regime \in {"RISK_ON", "RISK_OFF"} /\ open \in 0..1
  /\ cache = {}
  /\ pc = [s \in Signals |-> "idle"]
  /\ ctx = [s \in Signals |-> Context]
  /\ result = [s \in Signals |-> None]
  /\ asked = [s \in Signals |-> 0]
  /\ answers = {}

Goto(s, step) == pc' = [pc EXCEPT ![s] = step]
HandOn(s, decision, mode) ==
  /\ result' = [result EXCEPT ![s] = [decision |-> decision, mode |-> mode]]
  /\ Goto(s, "idle")

\* _gather_context.
Gather(s) ==
  /\ pc[s] = "idle" /\ asked[s] < MaxAsked
  /\ Goto(s, "lookup")
  /\ ctx' = [ctx EXCEPT ![s] = Context]
  /\ asked' = [asked EXCEPT ![s] = @ + 1]
  /\ UNCHANGED <<now, regime, open, cache, result, answers>>

\* Anything raised in an evaluation defers its signal, and no other one's.
EvaluationFails(s) ==
  /\ pc[s] # "idle"
  /\ HandOn(s, "DEFER", "error")
  /\ UNCHANGED <<now, regime, open, cache, ctx, asked, answers>>

Live(e) == now - e.time < CacheSteps
Hits(s) == {e \in cache : e.key = CacheKey(s, ctx[s]) /\ Live(e)}

CacheHit(s) ==
  /\ pc[s] = "lookup"
  /\ \E e \in Hits(s) : HandOn(s, e.decision, "cache")
  /\ UNCHANGED <<now, regime, open, cache, ctx, asked, answers>>

CacheMiss(s) ==
  /\ pc[s] = "lookup" /\ Hits(s) = {}
  /\ Goto(s, IF HasKey THEN "claude" ELSE "ollama")
  /\ UNCHANGED <<now, regime, open, cache, ctx, result, asked, answers>>

\* set_json replaces the key's entry.
Put(key, decision) ==
  {e \in cache : e.key # key} \cup {[key |-> key, decision |-> decision, time |-> now]}

\* A model answers: the verdict is stored and returned.
Answer(s) ==
  /\ pc[s] \in {"claude", "ollama"}
  /\ \E d \in Decisions :
       /\ HandOn(s, d, pc[s])
       /\ cache' = Put(CacheKey(s, ctx[s]), d)
       /\ answers' = answers \cup {[key |-> Key(s, ctx[s]), decision |-> d, time |-> now]}
  /\ UNCHANGED <<now, regime, open, ctx, asked>>

ClaudeFails(s) ==
  /\ pc[s] = "claude"
  /\ Goto(s, "ollama")
  /\ UNCHANGED <<now, regime, open, cache, ctx, result, asked, answers>>

\* The last resort's approval is not stored.
AfterFallback(s) == cache

\* Neither model answered: approve, with low confidence.
OllamaFails(s) ==
  /\ pc[s] = "ollama"
  /\ HandOn(s, "APPROVE", "fallback_approve")
  /\ cache' = AfterFallback(s)
  /\ UNCHANGED <<now, regime, open, ctx, asked, answers>>

\* The market and the book move on while the models think.
Move ==
  /\ regime' \in {"RISK_ON", "RISK_OFF"} /\ open' \in 0..1
  /\ UNCHANGED <<now, cache, pc, ctx, result, asked, answers>>

Tick ==
  /\ now < MaxTime
  /\ now' = now + 1
  /\ UNCHANGED <<regime, open, cache, pc, ctx, result, asked, answers>>

Next ==
  \/ \E s \in Signals :
       \/ Gather(s) \/ CacheHit(s) \/ CacheMiss(s) \/ Answer(s) \/ ClaudeFails(s) \/ OllamaFails(s)
       \/ EvaluationFails(s)
  \/ Move \/ Tick

Spec == Init /\ [][Next]_vars

-----------------------------------------------------------------------------
(* An evaluation never returns an approval nobody gave: it comes from a      *)
(* model that was asked about this symbol under this regime and this number  *)
(* of open positions, now or within the cache's hour, or from an evaluation  *)
(* in which every model asked failed; in particular an approval that was     *)
(* only the last resort is not served again while a model could be asked.    *)
ApprovalGroundedStep ==
  \A s \in Signals :
       pc[s] # "idle" /\ pc'[s] = "idle" /\ result'[s].decision = "APPROVE" =>
         \/ result'[s].mode = "fallback_approve"
         \/ \E a \in answers' : /\ a.decision = "APPROVE" /\ a.key = Key(s, ctx[s])
                                /\ now - a.time < CacheSteps
ApprovalGrounded == [][ApprovalGroundedStep]_vars

-----------------------------------------------------------------------------
(* Why it holds: what is cached was answered.                                *)
Grounded ==
  /\ now \in Nat
  /\ DOMAIN pc = Signals /\ DOMAIN result = Signals
  /\ cache \subseteq answers
=============================================================================
