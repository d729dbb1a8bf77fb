----------------------------- MODULE LlmAnalysis -----------------------------
(***************************************************************************)
(* Paid analyses of one match under a daily token budget.                  *)
(*                                                                         *)
(* A request looks for a cached text, checks the day's budget in Redis,    *)
(* pays the provider for a new text, charges the tokens to the budget and  *)
(* commits the text with a row of the spend journal.  Nothing is reserved  *)
(* before the call, so requests in flight overspend; all of a request's    *)
(* bookkeeping is on the day on which it began.  The prompt, the prices    *)
(* and the text are left out.                                              *)
(***************************************************************************)
EXTENDS Naturals, FiniteSets

CONSTANTS
  Request,   \* requests served at the same time (bound)
  Budgets,   \* values of daily_token_budget
  MaxTokens, \* what a call uses at most: the prompt and max_tokens
  CacheTtl,  \* cache_ttl_seconds, in ticks
  DayLength, \* ticks in a day
  MaxClock, MaxCalls  \* bounds

ASSUME LlmAssumption ==
  /\ IsFiniteSet(Request) /\ IsFiniteSet(Budgets) /\ Budgets \subseteq Nat /\ Budgets # {}
  /\ Request # {} /\ MaxTokens \in Nat \ {0} /\ CacheTtl \in Nat /\ DayLength \in Nat \ {0}
  /\ MaxClock \in Nat /\ MaxCalls \in Nat

VARIABLES
  clock,
  config,   \* llm_config: whether enabled, the budget
  cache,    \* llm_analyses: when the cached text was begun
  key,      \* the budget keys of Redis, by day
  req,      \* the requests
  journal,  \* llm_generations: tokens by day
  charged,  \* history: tokens charged, by the day on which the request began
  calls,    \* history: calls made
  died      \* history: a request died between the charge and the expiry

history == <<charged, calls, died>>
llmVars == <<clock, config, cache, key, req, journal, history>>

DayOf(t) == t \div DayLength
Days == 0..DayOf(MaxClock)
NotCached == MaxClock + 1
NoKey == [n |-> 0, ttl |-> "no key"]
Config == [enabled : BOOLEAN, budget : Budgets]
Idle == [at |-> "idle", now |-> 0, tokens |-> 0]

LlmTypeOK ==
  /\ clock \in 0..MaxClock
  /\ config \in Config
  /\ cache \in 0..NotCached
  /\ key \in [Days -> [n : Nat, ttl : {"no key", "none", "midnight"}]]
  /\ journal \in [Days -> Nat] /\ charged \in [Days -> Nat] /\ calls \in 0..MaxCalls
  /\ \A r \in Request : /\ req[r].at \in {"idle", "check", "call", "charge", "expire", "commit"}
                        /\ req[r].now <= clock /\ req[r].tokens <= MaxTokens

LlmInit ==
  /\ clock = 0
  /\ config \in Config
  /\ cache = NotCached
  /\ key = [d \in Days |-> NoKey]
  /\ req = [r \in Request |-> Idle]
  /\ journal = [d \in Days |-> 0] /\ charged = [d \in Days |-> 0]
  /\ calls = 0 /\ died = FALSE

SetRequest(r, s) == req' = [req EXCEPT ![r] = s]
Goto(r, step) == SetRequest(r, [req[r] EXCEPT !.at = step])

\* A cached text is served while it is fresh.
Fresh == cache # NotCached /\ clock - cache < CacheTtl

\* get_analysis, up to the budget check; everything else is answered at once.
GetAnalysis(r) ==
  /\ req[r].at = "idle" /\ config.enabled /\ ~Fresh
  /\ SetRequest(r, [Idle EXCEPT !.at = "check", !.now = clock])
  /\ UNCHANGED <<clock, config, cache, key, journal, history>>

\* _budget_key: of the day on which the request began.
BudgetKeyNow(r) == DayOf(clock)
BudgetKey(r) == DayOf(req[r].now)

Used(d) == key[d].n
SpentOneMore(d) == Used(d) > config.budget
Spent(d) == Used(d) >= config.budget

\* The hard stop: exhausted, no data to describe, or the call goes out and will
\* use some tokens (the configuration is the one the request read).
CheckBudget(r, tokens) ==
  /\ req[r].at = "check"
  /\ IF Spent(BudgetKey(r)) THEN SetRequest(r, Idle) /\ UNCHANGED calls
     ELSE /\ calls < MaxCalls /\ calls' = calls + 1
          /\ SetRequest(r, [req[r] EXCEPT !.at = "call", !.tokens = tokens])
  /\ UNCHANGED <<clock, config, cache, key, journal, charged, died>>

\* generate_completion: answers, or raises.
Answer(r) ==
  /\ req[r].at = "call"
  /\ Goto(r, "charge")
  /\ UNCHANGED <<clock, config, cache, key, journal, history>>

\* INCRBY, then EXPIREAT by the request that created the key.
Charge(r) ==
  /\ req[r].at = "charge"
  /\ LET d == BudgetKey(r) IN
     /\ key' = [key EXCEPT ![d].n = @ + req[r].tokens, ![d].ttl = IF key[d] = NoKey THEN "none" ELSE @]
     /\ Goto(r, IF Used(d) = 0 THEN "expire" ELSE "commit")
  /\ charged' = [charged EXCEPT ![DayOf(req[r].now)] = @ + req[r].tokens]
  /\ UNCHANGED <<clock, config, cache, journal, calls, died>>

\* EXPIREAT the next midnight: at once when that is past.
ExpireAt(r) ==
  /\ req[r].at = "expire"
  /\ LET d == BudgetKey(r) IN
     key' = [key EXCEPT ![d] = IF @ = NoKey \/ d < DayOf(clock) THEN NoKey
                               ELSE [@ EXCEPT !.ttl = "midnight"]]
  /\ Goto(r, "commit")
  /\ UNCHANGED <<clock, config, cache, journal, history>>

\* The cached text (the last one to commit) and the journal row, together.
Commit(r) ==
  /\ req[r].at = "commit"
  /\ cache' = req[r].now
  /\ journal' = [journal EXCEPT ![DayOf(req[r].now)] = @ + req[r].tokens]
  /\ SetRequest(r, Idle)
  /\ UNCHANGED <<clock, config, key, history>>

\* The call raises, the process dies, the transaction fails.
Fail(r) ==
  /\ req[r].at # "idle"
  /\ SetRequest(r, Idle)
  /\ died' = (died \/ req[r].at = "expire")
  /\ UNCHANGED <<clock, config, cache, key, journal, charged, calls>>

\* get_spend: the report adds the journal up by the day of its rows.
DailySpend(d) == journal[d]

-----------------------------------------------------------------------------
UpdateConfig(new) ==
  /\ new # config
  /\ config' = new
  /\ UNCHANGED <<clock, cache, key, req, journal, history>>

\* At midnight the keys that expire do.
LlmTick ==
  /\ clock < MaxClock
  /\ clock' = clock + 1
  /\ key' = [d \in Days |-> IF d < DayOf(clock') /\ key[d].ttl = "midnight" THEN NoKey
                          ELSE key[d]]
  /\ UNCHANGED <<config, cache, req, journal, history>>

LlmNext ==
  \/ \E r \in Request :
       \/ GetAnalysis(r)
       \/ \E tokens \in 0..MaxTokens : CheckBudget(r, tokens)
       \/ Answer(r) \/ Charge(r) \/ ExpireAt(r) \/ Commit(r) \/ Fail(r)
  \/ \E new \in Config : UpdateConfig(new)
  \/ LlmTick

LlmSpec == LlmInit /\ [][LlmNext]_llmVars

-----------------------------------------------------------------------------
(* Properties.                                                              *)

\* How far a day can be overspent: one call for each request that is in flight
\* when the budget is reached, and one more for each that began before midnight
\* and finds the key expired (get_or_create_analysis, the hard stop).
OverspendBounded ==
  \A d \in Days : \E b \in Budgets :
    charged[d] < b + 2 * Cardinality(Request) * MaxTokens

\* The budget of the day counts what the requests of that day were charged and
\* nothing that yesterday's requests still bring in (_budget_key).
BudgetCountsToday == key[DayOf(clock)].n = charged[DayOf(clock)]

\* No text and no journal row without its charge: the spend report never shows
\* more than the budget was charged.
SpendIsCharged == \A d \in Days : DailySpend(d) <= charged[d]

\* Yesterday's key is gone, unless a request died before it set the expiry or is
\* about to set it.
PastKeysAreGone ==
  \A d \in Days :
    d < DayOf(clock) /\ key[d] # NoKey =>
      died \/ \E r \in Request : req[r].at = "expire" /\ BudgetKey(r) = d

\* A day's key counts that day and ends with it, and the journal counts no more.
LedgersAgree == BudgetCountsToday /\ PastKeysAreGone /\ SpendIsCharged

=============================================================================
