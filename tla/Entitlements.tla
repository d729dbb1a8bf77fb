---------------------------- MODULE Entitlements ----------------------------
(***************************************************************************)
(* What a user may do, and how it changes under them: promo codes and an   *)
(* admin's grants put subscriptions on top of the base tier; the tier's    *)
(* definition is edited by admins and cached in Redis; the tier's limit    *)
(* meters the match cards the user opens in a day.                         *)
(*                                                                         *)
(* Every handler is a request that runs beside the others, one database    *)
(* statement or Redis command at a time.  PostgreSQL is at READ COMMITTED: *)
(* a row lock is held from the statement that takes it to the end of the   *)
(* transaction, and other transactions see a row when it is committed.     *)
(* There are one batch with one code, one tier that can be granted (pro)   *)
(* above the base tier (free), and signed-in users only.  A tick is a      *)
(* second where it matters that Redis counts a key's life in whole ones.   *)
(***************************************************************************)
EXTENDS Naturals, Sequences, FiniteSets

CONSTANTS
  Request,         \* HTTP requests (bound)
  User,
  Card,            \* match cards
  Offers,          \* what the batch grants: [type, expires] (bound)
  MaxActivations,  \* of the code: one of 1..MaxActivations (bound)
  RedeemLimit,     \* rate_limit_promo_per_hour
  TrialDays,       \* the value of a trial, in ticks
  Limits,          \* matches_per_day an admin may set (bound)
  Edited,          \* the tiers an admin edits (bound)
  TTL,             \* _CACHE_TTL_SECONDS, in ticks
  MaxRequest,      \* the longest request, in ticks (bound)
  HourLength, DayLength,
  MaxClock         \* bound

Tier == {"free", "pro"}
Forever == MaxClock + TrialDays + TTL + 1
Unlimited == 99  \* -1 in the code

ASSUME EntitlementAssumption ==
  /\ MaxActivations \in Nat \ {0} /\ RedeemLimit \in Nat \ {0}
  /\ TrialDays \in Nat \ {0} /\ TTL \in Nat \ {0} /\ MaxRequest \in Nat
  /\ HourLength \in Nat \ {0} /\ DayLength \in Nat \ {0} /\ MaxClock \in Nat
  /\ Limits \subseteq Nat \ {Unlimited} /\ Edited \subseteq Tier
  /\ Offers \subseteq [type : {"trial", "upgrade", "discount"}, expires : 1..Forever]

VARIABLES
  clock,
  req,       \* the requests
  offer,     \* promo_batches: what the batch grants and until when it is valid
  batch,     \* promo_batches.status
  code,      \* promo_codes: activations_used, max_activations, status
  redeemed,  \* promo_redemptions: who has redeemed the code
  sub,       \* subscriptions: when each user's pro grant ends; 0: none
  tier,      \* tiers: matches_per_day, and when it was changed (history)
  cache,     \* tier:{name}: the cached limit and when the key expires
  viewed     \* limits:[seen:]{user}:{day}: the cards charged and when the keys
             \* expire; before: how many earlier keys of the day had (history)

promo == <<offer, batch, code, redeemed, sub>>
tiers == <<tier, cache>>
vars == <<clock, req, promo, tiers, viewed>>

Day == 0..(MaxClock \div DayLength)
DayOf(t) == t \div DayLength
HourOf(t) == t \div HourLength
Midnight(t) == t - (t % DayLength) + DayLength
LastSecond(t) == Midnight(t) - t = 1

Ended == {"served", "refused", "missing", "failed"}
Steps == {"idle", "read", "claim", "apply", "commit", "kill", "edit",
          "db", "set", "consume"} \cup Ended
Idle == [at |-> "idle", kind |-> "none", user |-> "none", item |-> "none",
         since |-> 0, now |-> 0, lim |-> 0, ver |-> 0, tier |-> "free"]

TypeOK ==
  /\ clock \in 0..MaxClock
  /\ \A r \in Request :
       /\ req[r].at \in Steps /\ req[r].since \in 0..clock
       /\ req[r].user \in User \cup {"none"} /\ req[r].now \in 0..MaxClock
       /\ req[r].item \in Card \cup {"none"} /\ req[r].tier \in Tier
  /\ offer \in Offers /\ batch \in {"active", "disabled"}
  /\ code \in [used : 0..MaxActivations, max : 1..MaxActivations,
               status : {"active", "redeemed", "disabled"}]
  /\ redeemed \subseteq User /\ sub \in [User -> 0..Forever]
  /\ \A t \in Tier : /\ tier[t].lim \in Limits \cup {Unlimited}
                     /\ tier[t].changed \in Seq(0..MaxClock)
                     /\ cache[t].ver \in 0..Len(tier[t].changed)
  /\ viewed \in [User -> [Day -> [cards : SUBSET Card, ends : Nat, before : Nat]]]

Init ==
  /\ clock = 0
  /\ req = [r \in Request |-> Idle]
  /\ offer \in Offers
  /\ batch = "active"
  /\ code \in [used : {0}, max : 1..MaxActivations, status : {"active"}]
  /\ redeemed = {}
  /\ sub = [u \in User |-> 0]
  /\ tier \in {[t \in Tier |-> [lim |-> IF t = "pro" THEN Unlimited ELSE l,
                                changed |-> << >>, edits |-> 0]] : l \in Limits}
  /\ cache = [t \in Tier |-> [lim |-> 0, ver |-> 0, gen |-> 0, ends |-> 0]]
  /\ viewed = [u \in User |-> [d \in Day |-> [cards |-> {}, ends |-> 0, before |-> 0]]]

Put(r, s) == req' = [req EXCEPT ![r] = s]
\* Of a request that has ended only a redemption attempt is remembered.
End(r, result) == Put(r,
  IF req[r].kind = "redeem"
  THEN [Idle EXCEPT !.at = result, !.kind = "redeem", !.user = req[r].user,
                    !.since = req[r].since]
  ELSE [Idle EXCEPT !.at = result])
Begin(kind, u, step) ==
  [Idle EXCEPT !.at = step, !.kind = kind, !.user = u, !.since = clock]

-----------------------------------------------------------------------------
(* Promo codes.                                                             *)

\* The transactions that hold the lock of the code's row.
Holds(r) == req[r].at \in {"apply", "commit", "kill"}
CodeUnlocked == \A r \in Request : ~Holds(r)

\* The hour's counter: every attempt counts, refused ones included.  Its key lives
\* whole seconds, so in the hour's last one the count may have started again.
Attempts(u) == Cardinality({r \in Request :
  /\ req[r].kind = "redeem" /\ req[r].user = u
  /\ HourOf(req[r].since) = HourOf(clock)})

HourEnds == HourOf(clock + 1) # HourOf(clock)

BeginRedeem(r, u) ==
  /\ req[r].at = "idle"
  /\ \/ Attempts(u) + 1 > RedeemLimit /\ Put(r, Begin("redeem", u, "refused"))
     \/ (Attempts(u) + 1 <= RedeemLimit \/ HourEnds) /\ Put(r, Begin("redeem", u, "read"))
  /\ UNCHANGED <<clock, promo, tiers, viewed>>

\* The checks of redeem, on rows read without a lock.
ReadCode(r) ==
  /\ req[r].at = "read"
  /\ IF batch = "disabled" \/ code.status = "disabled" \/ offer.expires <= clock
     THEN End(r, "refused")
     ELSE Put(r, [req[r] EXCEPT !.at = "claim"])
  /\ UNCHANGED <<clock, promo, tiers, viewed>>

\* The guarded UPDATE that claims an activation; it waits for the row and
\* evaluates its guard on what the last transaction left.
ClaimAnyStatus(r) ==
  /\ req[r].at = "claim" /\ CodeUnlocked
  /\ IF code.used < code.max
     THEN Put(r, [req[r] EXCEPT !.at = "apply"])
     ELSE End(r, "refused")
  /\ UNCHANGED <<clock, promo, tiers, viewed>>
Claim(r) ==
  /\ req[r].at = "claim" /\ CodeUnlocked
  /\ IF code.status = "active" /\ code.used < code.max
     THEN Put(r, [req[r] EXCEPT !.at = "apply"])
     ELSE End(r, "refused")
  /\ UNCHANGED <<clock, promo, tiers, viewed>>

\* _apply_effect and the flush: the grant's end is fixed here, and a second
\* redemption by the same user breaks the unique key and rolls back.
GrantEnds == IF offer.type = "trial" THEN clock + TrialDays ELSE offer.expires
Apply(r) ==
  /\ req[r].at = "apply"
  /\ IF req[r].user \in redeemed
     THEN End(r, "refused")
     ELSE Put(r, [req[r] EXCEPT !.at = "commit", !.lim = GrantEnds])
  /\ UNCHANGED <<clock, promo, tiers, viewed>>

Upsert(u, ends) == sub' = [sub EXCEPT ![u] = ends]

CommitRedeem(r) ==
  /\ req[r].at = "commit"
  /\ code' = [code EXCEPT !.used = @ + 1,
                          !.status = IF code.used + 1 >= code.max THEN "redeemed" ELSE @]
  /\ redeemed' = redeemed \cup {req[r].user}
  /\ IF offer.type = "discount" THEN UNCHANGED sub
     ELSE Upsert(req[r].user, req[r].lim)
  /\ End(r, "served")
  /\ UNCHANGED <<clock, offer, batch, tiers, viewed>>

\* kill_batch: the UPDATE of the codes waits for the row; then the batch is
\* flushed and both are committed together.
KillUpdate(r) ==
  /\ req[r].at = "idle" /\ CodeUnlocked
  /\ Put(r, Begin("kill", "none", "kill"))
  /\ UNCHANGED <<clock, promo, tiers, viewed>>
CommitKill(r) ==
  /\ req[r].at = "kill"
  /\ batch' = "disabled"
  /\ code' = [code EXCEPT !.status = "disabled"]
  /\ End(r, "served")
  /\ UNCHANGED <<clock, offer, redeemed, sub, tiers, viewed>>

\* assign_tier: the upsert waits for a redemption that wrote the same row.
AssignTier(u, ends) ==
  /\ \A o \in Request : ~(req[o].at = "commit" /\ req[o].user = u)
  /\ Upsert(u, ends)

\* An admin grants pro for a while or for good.
Assign(r, u, ends) ==
  /\ req[r].at = "idle"
  /\ AssignTier(u, ends)
  /\ Put(r, [Idle EXCEPT !.at = "served"])
  /\ UNCHANGED <<clock, offer, batch, code, redeemed, tiers, viewed>>

-----------------------------------------------------------------------------
(* The tier a request acts under.                                           *)

Cached(t) == clock < cache[t].ends
Version(t) == Len(tier[t].changed)

\* resolve_effective_tier_name: an active subscription beats the base tier.
EffectiveTier(u) == IF sub[u] > clock THEN "pro" ELSE "free"

\* update_tier: the row is flushed (and locked), then the cached tier is
\* deleted, then the row is committed.
EditForgettingCache(r, t, l) ==
  /\ req[r].at = "idle"
  /\ \A o \in Request : ~(req[o].at = "edit" /\ req[o].tier = t)
  /\ tier' = [tier EXCEPT ![t].edits = @ + 1]
  /\ Put(r, [Begin("edit", "none", "edit") EXCEPT !.tier = t, !.lim = l])
  /\ UNCHANGED <<clock, promo, cache, viewed>>
Edit(r, t, l) ==
  /\ req[r].at = "idle"
  /\ \A o \in Request : ~(req[o].at = "edit" /\ req[o].tier = t)
  /\ tier' = [tier EXCEPT ![t].edits = @ + 1]
  /\ cache' = [cache EXCEPT ![t].ends = 0]
  /\ Put(r, [Begin("edit", "none", "edit") EXCEPT !.tier = t, !.lim = l])
  /\ UNCHANGED <<clock, promo, viewed>>
CommitEdit(r) ==
  /\ req[r].at = "edit"
  /\ tier' = [tier EXCEPT ![req[r].tier].lim = req[r].lim,
                          ![req[r].tier].changed = Append(@, clock)]
  /\ End(r, "served")
  /\ UNCHANGED <<clock, promo, cache, viewed>>

\* get_tier_context: the name of the tier, then its definition if it is
\* cached, and on to the handler, which reads its clock first.
BeginView(r, u, i) ==
  /\ req[r].at = "idle"
  /\ LET t == EffectiveTier(u)  view == [Begin("view", u, "db") EXCEPT !.item = i, !.tier = t]
     IN IF Cached(t)
        THEN Put(r, [view EXCEPT !.at = "consume", !.lim = cache[t].lim,
                                 !.ver = cache[t].ver, !.now = clock])
        ELSE Put(r, view)
  /\ UNCHANGED <<clock, promo, tiers, viewed>>
ReadTier(r) ==
  /\ req[r].at = "db"
  /\ Put(r, [req[r] EXCEPT !.at = "set", !.lim = tier[req[r].tier].lim,
                           !.ver = Version(req[r].tier)])
  /\ UNCHANGED <<clock, promo, tiers, viewed>>
SetCache(r) ==
  /\ req[r].at = "set"
  /\ cache' = [cache EXCEPT ![req[r].tier] =
       [lim |-> req[r].lim, ver |-> req[r].ver, gen |-> tier[req[r].tier].edits,
        ends |-> clock + TTL]]
  /\ Put(r, [req[r] EXCEPT !.at = "consume", !.now = clock])
  /\ UNCHANGED <<clock, promo, tier, viewed>>

-----------------------------------------------------------------------------
(* The daily limit of match cards.                                          *)

\* The day of the request; its keys count until they expire.
DayKey(r) == DayOf(req[r].now)
Counts(u, d) == clock < viewed[u][d].ends
Seen(r) ==
  IF Counts(req[r].user, DayKey(r)) THEN viewed[req[r].user][DayKey(r)].cards ELSE {}

\* seconds_until_utc_midnight at a moment within the tick t: whole seconds,
\* and one at least.  Keys may so be gone in the last second of their day.
TimesToLive(t) == {n \in {Midnight(t) - t - 1, Midnight(t) - t} : n >= 1}

Charge(r) ==
  LET u == req[r].user  d == DayKey(r)  key == viewed[u][d] IN
  \E ttl \in TimesToLive(req[r].now) :
    viewed' = [viewed EXCEPT ![u][d] =
      IF Counts(u, d) THEN [key EXCEPT !.cards = key.cards \cup {req[r].item}]
      ELSE [cards |-> {req[r].item}, ends |-> clock + ttl,
            before |-> key.before + Cardinality(key.cards)]]

\* A card that does not exist costs nothing.
Missing(r) ==
  /\ req[r].at = "consume" /\ req[r].item = "none"
  /\ End(r, "missing")
  /\ UNCHANGED <<clock, promo, tiers, viewed>>

\* consume_match_view: one script.
ConsumeLimitFirst(r) ==
  /\ req[r].at = "consume" /\ req[r].item # "none"
  /\ \/ req[r].lim = Unlimited /\ End(r, "served") /\ UNCHANGED viewed
     \/ /\ req[r].lim # Unlimited /\ Cardinality(Seen(r)) < req[r].lim
        /\ Charge(r) /\ End(r, "served")
     \/ /\ req[r].lim # Unlimited /\ Cardinality(Seen(r)) >= req[r].lim
        /\ End(r, "refused") /\ UNCHANGED viewed
  /\ UNCHANGED <<clock, promo, tiers>>
Consume(r) ==
  /\ req[r].at = "consume" /\ req[r].item # "none"
  /\ \/ /\ req[r].lim = Unlimited \/ req[r].item \in Seen(r)
        /\ End(r, "served") /\ UNCHANGED viewed
     \/ /\ req[r].lim # Unlimited /\ req[r].item \notin Seen(r)
        /\ Cardinality(Seen(r)) < req[r].lim
        /\ Charge(r) /\ End(r, "served")
     \/ /\ req[r].lim # Unlimited /\ req[r].item \notin Seen(r)
        /\ Cardinality(Seen(r)) >= req[r].lim
        /\ End(r, "refused") /\ UNCHANGED viewed
  /\ UNCHANGED <<clock, promo, tiers>>

-----------------------------------------------------------------------------
\* A request that dies: its transaction is rolled back.
Running(r) == req[r].at \notin Ended \cup {"idle"}
Abort(r) ==
  /\ Running(r)
  /\ End(r, "failed")
  /\ UNCHANGED <<clock, promo, tiers, viewed>>

Tick ==
  /\ clock < MaxClock
  /\ \A r \in Request : Running(r) => clock < req[r].since + MaxRequest
  /\ clock' = clock + 1
  /\ UNCHANGED <<req, promo, tiers, viewed>>

\* Every request has ended and the clock has stopped.
Over ==
  /\ clock = MaxClock /\ \A r \in Request : req[r].at \in Ended
  /\ UNCHANGED vars

Next ==
  \/ \E r \in Request :
       \/ \E u \in User : \/ BeginRedeem(r, u)
                          \/ \E ends \in {clock + 1, Forever} : Assign(r, u, ends)
                          \/ \E i \in Card \cup {"none"} : BeginView(r, u, i)
       \/ ReadCode(r) \/ Claim(r) \/ Apply(r) \/ CommitRedeem(r)
       \/ KillUpdate(r) \/ CommitKill(r)
       \/ \E t \in Edited, l \in Limits : Edit(r, t, l)
       \/ CommitEdit(r) \/ ReadTier(r) \/ SetCache(r)
       \/ Missing(r) \/ Consume(r) \/ Abort(r)
  \/ Tick \/ Over

Spec == Init /\ [][Next]_vars

-----------------------------------------------------------------------------
(* Properties.                                                              *)

\* An activation is spent exactly when a redemption is recorded, and never
\* more of them than the code has: concurrent redeemers, a user's second
\* attempt and rolled-back claims leave the counter and the rows in step
\* (redeem).
ActivationsMatchRedemptions ==
  /\ code.used = Cardinality(redeemed)
  /\ code.used <= code.max
  /\ code.status = "redeemed" => code.used = code.max

\* Once a kill is committed the code is dead for good: no redemption that had
\* passed its checks before commits after it, and none wakes the code up.
KilledStaysDead ==
  batch = "disabled" =>
    batch' = "disabled" /\ code'.status = "disabled" /\ redeemed' = redeemed

\* In every step: what redeemers get is counted, and a kill is final.
RedemptionsHold == [][ActivationsMatchRedemptions' /\ KilledStaysDead]_vars

\* A cached tier is older than the committed one only for a bounded time: the
\* entry's own and that of the request that wrote it (get_resolved_tier).
StaleEntryEnds ==
  \A t \in Tier :
    Cached(t) /\ cache[t].ver < Version(t) =>
      clock < tier[t].changed[cache[t].ver + 1] + TTL + MaxRequest

\* A cached tier older than the committed one was written after the last edit
\* deleted the entry, by a request that had read the row before its commit:
\* no entry that was there before an edit survives it (update_tier).
StaleEntryOutran ==
  \A t \in Tier :
    Cached(t) /\ cache[t].ver < Version(t) => cache[t].gen = tier[t].edits

\* The cache is wrong only by a race, and for a bounded time.
StalenessIsBounded == StaleEntryEnds /\ StaleEntryOutran

\* However many requests run at once and however the tier changes between
\* them, a day's keys count no more cards for a user than the largest limit
\* that was ever set, and the first ones count up to the day's last second; in
\* that second they may be replaced, once (consume_match_view).
DailyViewsBounded ==
  \A u \in User, d \in Day :
    \E l \in Limits :
      /\ Cardinality(viewed[u][d].cards) <= l
      /\ d = DayOf(clock) => viewed[u][d].before <= (IF LastSecond(clock) THEN l ELSE 0)

\* A card charged today is not refused later today, before the last second of
\* the day, whatever happened to the tier, its limit or the day's budget.
OpenedStaysOpen ==
  \A r \in Request :
    /\ req[r].at = "consume" /\ req'[r].at = "refused"
    /\ DayKey(r) = DayOf(clock) /\ ~LastSecond(clock)
    => req[r].item \notin viewed[req[r].user][DayKey(r)].cards

\* In every step: the day's budget is a cap, and what it has bought stays bought.
ViewsHold == [][DailyViewsBounded' /\ OpenedStaysOpen]_vars

\* The claim of limits.py: the budget resets exactly at UTC midnight, so what
\* was charged today counts today.
ResetsAtMidnight ==
  \A u \in User : viewed[u][DayOf(clock)].cards # {} => Counts(u, DayOf(clock))

\* The claim of update_tier: an edit takes effect on the next request.
EditTakesEffect ==
  \A t \in Tier : Cached(t) => cache[t].ver = Version(t)
=============================================================================
