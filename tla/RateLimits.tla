------------------------------ MODULE RateLimits ------------------------------
(***************************************************************************)
(* The request limits in Redis: a counter with an expiry for each caller   *)
(* and scope, which lets a number of requests through in a window of time. *)
(*                                                                         *)
(* A request counts in one script and reads the key's TTL in a second call *)
(* when it is over the limit.  Public routes count before any database     *)
(* read, by what the access token says, and look the caller up afterwards. *)
(* PerSecond ticks are a second.  Left out: tokens without the credentials *)
(* claim, which were issued before it existed.  Disabling an account       *)
(* changes its stamp like a password change.                               *)
(***************************************************************************)
EXTENDS Naturals, FiniteSets

CONSTANTS
  Source, Prefix,    \* client addresses, and the bucket of each: itself or its /64
  Member,            \* users
  Scopes,            \* the limits of the instance
  Limit, WindowSeconds,     \* requests per window, and its seconds, by scope
  PerSecond, LastTick, MaxAsked, MaxStamp   \* ticks of the clock in a second; bounds

AddressScopes == {"login", "refresh", "admin_mutation"}
PublicScopes == {"match_list", "match_detail", "llm_analysis"}
AccountScopes == {"password_change", "totp_code", "totp_setup"}

ASSUME LimitAssumption ==
  /\ Scopes \subseteq AddressScopes \cup PublicScopes \cup AccountScopes
  /\ Limit \in [Scopes -> Nat] /\ WindowSeconds \in [Scopes -> Nat \ {0}]
  /\ PerSecond \in Nat \ {0} /\ LastTick \in Nat /\ MaxAsked \in Nat

VARIABLES
  moment,    \* the clock
  counter,   \* the keys rl:{scope}:{identity}; "since" is history
  asking,    \* requests in the order in which they arrive
  stamp      \* credentials_changed_at of each user

limitVars == <<moment, counter, asking, stamp>>

Call == 1..MaxAsked
Bucket(address) == Prefix[address]
Identity == {Bucket(a) : a \in Source} \cup Member
LimitKey == Scopes \X Identity

Absent == [n |-> 0, left |-> 0, since |-> 0]
NoAccess == [sub |-> "nobody", stamp |-> 0]
NotCalled == [pc |-> "unsent"]

\* Access tokens that verify; any other one is no token.
AccessToken == {[sub |-> u, stamp |-> s] : u \in Member, s \in 0..MaxStamp} \cup {NoAccess}

LimitInit ==
  /\ moment = 0 /\ counter = [k \in LimitKey |-> Absent]
  /\ asking = [c \in Call |-> NotCalled] /\ stamp = [u \in Member |-> 0]

-----------------------------------------------------------------------------
(* Who is counted.                                                          *)

\* token_state.
RevokedToken(token) == token.stamp # stamp[token.sub]

\* rate_limit_identity: no database is read.
RateLimitIdentity(address, token) ==
  IF token = NoAccess THEN Bucket(address) ELSE token.sub

\* get_optional_user: whom the tier and the daily quota belong to.  It decodes the
\* token again, which may have lapsed since the limit counted its user.
QuotaIdentity(bucket, token, lapsed) ==
  IF token = NoAccess \/ lapsed THEN bucket
  ELSE IF RevokedToken(token) THEN "session revoked" ELSE token.sub

\* public_rate_limit.
PublicKey(scope, address, token) == <<scope, RateLimitIdentity(address, token)>>

\* _enforce_account_limit, for a user that get_current_user has found.
AccountKey(scope, token) == <<scope, token.sub>>

\* enforce_admin_mutation_rate_limit, and the login and the refresh.
AddressKey(scope, address) == <<scope, Bucket(address)>>

KeyOf(scope, address, token) ==
  IF scope \in AddressScopes THEN AddressKey(scope, address)
  ELSE IF scope \in AccountScopes THEN AccountKey(scope, token)
  ELSE PublicKey(scope, address, token)

-----------------------------------------------------------------------------
(* Redis.                                                                   *)

\* _INCR_WITH_TTL: a key that lives keeps its expiry.
Incremented(k, seconds) ==
  IF k.n = 0 THEN [n |-> 1, left |-> seconds * PerSecond, since |-> moment]
  ELSE [k EXCEPT !.n = @ + 1]
IncrWithTtl(key) ==
  [counter EXCEPT ![key] = Incremented(@, WindowSeconds[key[1]])]

\* TTL rounds to the nearest second.
Ttl(key) == (2 * counter[key].left + PerSecond) \div (2 * PerSecond)

-----------------------------------------------------------------------------
(* enforce_fixed_window, one call of Redis at a time.                       *)

\* The next request comes, with a token that was issued.
Arrives(c, scope, token) ==
  /\ asking[c] = NotCalled /\ \A d \in 1..(c - 1) : asking[d] # NotCalled
  /\ token # NoAccess => token.stamp <= stamp[token.sub]
  /\ scope \in AccountScopes => token # NoAccess /\ ~RevokedToken(token)

OverLimitLater(scope, count) == count > Limit[scope] + 1
OverLimit(scope, count) == count > Limit[scope]

\* What a request goes on with.
Outcome(scope, address, token, counted) ==
  LET key == KeyOf(scope, address, token)
      since == counted[key].since
  IN IF OverLimit(scope, counted[key].n)
       THEN [pc |-> "over", key |-> key, since |-> since]
     ELSE IF scope \in PublicScopes
       THEN [pc |-> "passed", key |-> key, since |-> since, at |-> moment,
             bucket |-> Bucket(address), token |-> token]
     ELSE [pc |-> "served", key |-> key, since |-> since, at |-> moment,
           bucket |-> Bucket(address), lapsed |-> FALSE, quota |-> key[2]]

Count(c, scope, address, token) ==
  /\ Arrives(c, scope, token)
  /\ counter' = IncrWithTtl(KeyOf(scope, address, token))
  /\ asking' = [asking EXCEPT ![c] = Outcome(scope, address, token, counter')]
  /\ UNCHANGED <<moment, stamp>>

\* The refusal, with its Retry-After.
ReadTtl(c) ==
  /\ asking[c].pc = "over"
  /\ LET key == asking[c].key
         after == IF Ttl(key) > 0 THEN Ttl(key) ELSE WindowSeconds[key[1]]
     IN asking' = [asking EXCEPT ![c] =
          [pc |-> "refused", key |-> key, since |-> @.since,
           until |-> moment + after * PerSecond + PerSecond \div 2]]
  /\ UNCHANGED <<moment, counter, stamp>>

\* enforce_refresh_ip_limit fails open, every other limit with an error.
WhenUnanswered(scope) == [pc |-> IF scope = "refresh" THEN "unlimited" ELSE "failed"]

\* Redis cannot be reached, or its answer is late: the script may have run.
CountUnanswered(c, scope, address, token) ==
  /\ Arrives(c, scope, token)
  /\ counter' \in {counter, IncrWithTtl(KeyOf(scope, address, token))}
  /\ asking' = [asking EXCEPT ![c] = WhenUnanswered(scope)]
  /\ UNCHANGED <<moment, stamp>>

TtlUnanswered(c) ==
  /\ asking[c].pc = "over"
  /\ asking' = [asking EXCEPT ![c] = WhenUnanswered(asking[c].key[1])]
  /\ UNCHANGED <<moment, counter, stamp>>

\* get_tier_context of a public route, after its limit; lapsed is history.
LookUp(c, lapsed) ==
  /\ asking[c].pc = "passed"
  /\ lapsed => asking[c].token # NoAccess
  /\ asking' = [asking EXCEPT ![c] =
       [pc |-> "served", key |-> @.key, at |-> @.at, since |-> @.since, bucket |-> @.bucket,
        lapsed |-> lapsed, quota |-> QuotaIdentity(@.bucket, @.token, lapsed)]]
  /\ UNCHANGED <<moment, counter, stamp>>

\* mark_credentials_changed.
ChangeStamp(u) ==
  /\ stamp[u] < MaxStamp
  /\ stamp' = [stamp EXCEPT ![u] = @ + 1]
  /\ UNCHANGED <<moment, counter, asking>>

Pass ==
  /\ moment < LastTick /\ moment' = moment + 1
  /\ counter' = [k \in LimitKey |->
       IF counter[k].left <= 1 THEN Absent ELSE [counter[k] EXCEPT !.left = @ - 1]]
  /\ UNCHANGED <<asking, stamp>>

Closed == moment = LastTick /\ UNCHANGED limitVars

LimitNext ==
  \/ \E c \in Call, scope \in Scopes, address \in Source, token \in AccessToken :
       Count(c, scope, address, token) \/ CountUnanswered(c, scope, address, token)
  \/ \E c \in Call : ReadTtl(c) \/ TtlUnanswered(c) \/ \E lapsed \in BOOLEAN : LookUp(c, lapsed)
  \/ \E u \in Member : ChangeStamp(u)
  \/ Pass \/ Closed

LimitSpec == LimitInit /\ [][LimitNext]_limitVars

-----------------------------------------------------------------------------

PassedBy(key) == {c \in Call : asking[c].pc \in {"passed", "served"} /\ asking[c].key = key}

\* However requests are timed, a limit lets at most two windows' worth through
\* in any span of one window's length, and one window's worth in a window
\* (enforce_fixed_window).
BurstIsBounded ==
  \A key \in LimitKey :
    LET limit == Limit[key[1]]
        span == WindowSeconds[key[1]] * PerSecond
    IN /\ \A t \in 0..LastTick :
            Cardinality({c \in PassedBy(key) : asking[c].at \in t..(t + span - 1)}) <= 2 * limit
       /\ \A c \in PassedBy(key) :
            Cardinality({d \in PassedBy(key) : asking[d].since = asking[c].since}) <= limit

\* Whoever waits for the Retry-After of a refusal, and half a second for its
\* rounding, is not refused by the same window again, however often anyone
\* asked in the meantime (incr_with_ttl: fixed windows do not slide).
RefusalsEnd ==
  \A c \in Call :
    asking[c].pc = "refused" /\ moment >= asking[c].until =>
      LET k == counter[asking[c].key] IN k.n = 0 \/ k.since # asking[c].since

\* A public route charges the daily quota of whom it counted before it looked
\* the caller up, or answers that the session is revoked, whatever changed in
\* between; only a caller whose token lapsed there is charged as the guest of its
\* own address (rate_limit_identity, get_optional_user).
QuotaFollowsLimit ==
  \A c \in Call :
    LET a == asking[c] IN
    a.pc = "served" =>
      IF a.lapsed THEN a.quota = a.bucket ELSE a.quota \in {a.key[2], "session revoked"}

\* The claim of rate_limit_identity: the strings of the limit are those of the
\* daily quota.
SameStrings ==
  \A c \in Call :
    asking[c].pc = "served" => asking[c].quota \in {asking[c].key[2], "session revoked"}

LimitsHold == BurstIsBounded /\ RefusalsEnd /\ QuotaFollowsLimit
=============================================================================
