------------------------ MODULE EntitlementsProofs ------------------------
(***************************************************************************)
(* Theorems about Entitlements, for any number of requests, users, cards,  *)
(* limits and offers.                                                      *)
(***************************************************************************)
EXTENDS Entitlements, FiniteSetTheorems, SequenceTheorems, TLAPS

\* What a request carries, with the types of all its fields.
RequestRecord ==
  [at : Steps, kind : {"none", "redeem", "kill", "edit", "view"},
   user : User \cup {"none"}, item : Card \cup {"none"}, since : Nat,
   now : 0..MaxClock, lim : Nat, ver : Nat, tier : Tier]

TierRecord == [lim : Limits \cup {Unlimited}, changed : Seq(0..MaxClock), edits : Nat]
CacheRecord == [lim : Nat, ver : Nat, gen : Nat, ends : Nat]
ViewRecord == [cards : {c \in SUBSET Card : IsFiniteSet(c)}, ends : Nat, before : Nat]

TypeInv ==
  /\ clock \in 0..MaxClock
  /\ req \in [Request -> RequestRecord]
  /\ offer \in Offers /\ batch \in {"active", "disabled"}
  /\ code \in [used : Nat, max : 1..MaxActivations,
               status : {"active", "redeemed", "disabled"}]
  /\ redeemed \subseteq User /\ IsFiniteSet(redeemed) /\ sub \in [User -> 0..Forever]
  /\ tier \in [Tier -> TierRecord]
  /\ cache \in [Tier -> CacheRecord]
  /\ viewed \in [User -> [Day -> ViewRecord]]

\* What each request may rely on: the row lock of the code keeps it claimable,
\* and a limit read from the database is not older than the request.
RequestOK(r) ==
  /\ req[r].since <= clock
  /\ Running(r) => clock <= req[r].since + MaxRequest
  /\ req[r].at \in {"read", "claim", "apply", "commit", "db", "set", "consume"} =>
       req[r].user \in User
  /\ req[r].at \in {"apply", "commit"} => code.status = "active" /\ code.used < code.max
  /\ req[r].at = "commit" => req[r].user \notin redeemed /\ req[r].lim <= Forever
  /\ req[r].at = "edit" => req[r].lim \in Limits
  /\ req[r].at \in {"set", "consume"} => req[r].lim \in Limits \cup {Unlimited}
  /\ req[r].at = "consume" => req[r].now <= clock
  /\ req[r].at = "set" =>
       /\ req[r].ver <= Version(req[r].tier)
       /\ req[r].ver < Version(req[r].tier) =>
            req[r].since <= tier[req[r].tier].changed[req[r].ver + 1]

\* A cached tier was written after the last edit, and ends in time after the
\* change it missed.
CacheOK(t) ==
  /\ cache[t].ver <= Version(t)
  /\ cache[t].ends <= clock + TTL
  /\ cache[t].ends # 0 =>
       /\ cache[t].lim \in Limits \cup {Unlimited}
       /\ cache[t].gen = tier[t].edits
       /\ cache[t].ver < Version(t) =>
            cache[t].ends <= tier[t].changed[cache[t].ver + 1] + TTL + MaxRequest

\* The code, its redemptions and its lock.
PromoOK ==
  /\ ActivationsMatchRedemptions
  /\ \A r, s \in Request : Holds(r) /\ Holds(s) => r = s
  /\ batch = "disabled" => code.status = "disabled"

\* The keys of a day that is not over.  The first ones live up to the day's
\* last second at least; the ones that replace them in it outlive the day.
EndOf(d) == (d + 1) * DayLength
Limited(n) == \E l \in Limits : n <= l
FirstKeys(u, d) ==
  /\ viewed[u][d].before = 0
  /\ (viewed[u][d].cards = {} /\ viewed[u][d].ends = 0) \/ EndOf(d) <= viewed[u][d].ends + 1
NextKeys(u, d) ==
  /\ EndOf(d) <= clock + 1 /\ EndOf(d) <= viewed[u][d].ends
  /\ Limited(viewed[u][d].before)
KeysOK ==
  \A u \in User, d \in Day :
    /\ Limited(Cardinality(viewed[u][d].cards))
    /\ DayOf(clock) <= d => FirstKeys(u, d) \/ NextKeys(u, d)

EntInv ==
  /\ TypeInv
  /\ \A r \in Request : RequestOK(r)
  /\ \A t \in Tier : CacheOK(t)
  /\ PromoOK
  /\ KeysOK

\* A time of the run falls on one of its days.
LEMMA DayType ==
  ASSUME NEW c \in 0..MaxClock
  PROVE  DayOf(c) \in Day
  BY EntitlementAssumption DEF DayOf, Day

\* Midnight is the end of the day, and at most a day away.
LEMMA Midnights ==
  ASSUME NEW t \in Nat
  PROVE  /\ DayOf(t) \in Nat /\ Midnight(t) = EndOf(DayOf(t)) /\ Midnight(t) \in Nat
         /\ t < Midnight(t)
<1> DEFINE q == t \div DayLength
           m == t % DayLength
<1>1. q \in Nat /\ m \in 0..(DayLength - 1) /\ t = DayLength * q + m
  BY EntitlementAssumption
<1>2. DayOf(t) = q /\ Midnight(t) = t - m + DayLength
  BY DEF DayOf, Midnight
<1> HIDE DEF q, m
<1>3. (q + 1) * DayLength = DayLength * q + DayLength
  BY <1>1, EntitlementAssumption
<1>. QED BY <1>1, <1>2, <1>3, EntitlementAssumption DEF EndOf

\* Days follow one another as times do.
LEMMA DaysGrow ==
  ASSUME NEW s \in Nat, NEW t \in Nat, s <= t
  PROVE  DayOf(s) <= DayOf(t)
<1>1. DayOf(s) \in Nat /\ DayOf(t) \in Nat /\ t < EndOf(DayOf(t))
  BY Midnights
<1>2. CASE DayOf(t) < DayOf(s)
  <2>1. s = DayLength * DayOf(s) + (s % DayLength) /\ s % DayLength \in Nat
    BY EntitlementAssumption DEF DayOf
  <2>2. ASSUME NEW a \in Nat, NEW b \in Nat, a < b, NEW D \in Nat
        PROVE  (a + 1) * D <= D * b /\ (a + 1) * D \in Nat /\ D * b \in Nat
    BY <2>2
  <2>3. EndOf(DayOf(t)) <= DayLength * DayOf(s) /\ EndOf(DayOf(t)) \in Nat
        /\ DayLength * DayOf(s) \in Nat
    BY <1>1, <1>2, <2>2, EntitlementAssumption DEF EndOf
  <2>. QED BY <1>1, <2>1, <2>3
<1>. QED BY <1>1, <1>2

\* A key lives for a second at least, and up to the last one before midnight.
LEMMA KeysLive ==
  ASSUME NEW t \in Nat, NEW ttl \in TimesToLive(t)
  PROVE  /\ ttl \in Nat /\ 1 <= ttl
         /\ EndOf(DayOf(t)) <= t + ttl + 1 /\ EndOf(DayOf(t)) \in Nat
<1>1. Midnight(t) = EndOf(DayOf(t)) /\ Midnight(t) \in Nat /\ t < Midnight(t)
  BY Midnights
<1>2. (ttl = Midnight(t) - t - 1 \/ ttl = Midnight(t) - t) /\ ttl >= 1
  BY DEF TimesToLive
<1>. QED BY <1>1, <1>2

\* Keys that no step touches.
LEMMA KeysKept ==
  ASSUME KeysOK, viewed' = viewed, clock' = clock
  PROVE  KeysOK'
BY DEF KeysOK, FirstKeys, NextKeys, Limited, EndOf

\* The day's bounds on what is charged.
LEMMA KeysBound ==
  ASSUME TypeInv, KeysOK
  PROVE  DailyViewsBounded
<1> SUFFICES ASSUME NEW u \in User, NEW d \in Day
             PROVE  \E l \in Limits :
                      /\ Cardinality(viewed[u][d].cards) <= l
                      /\ d = DayOf(clock) =>
                           viewed[u][d].before <= (IF LastSecond(clock) THEN l ELSE 0)
  BY DEF DailyViewsBounded
<1>1. PICK l \in Limits : Cardinality(viewed[u][d].cards) <= l
  BY DEF KeysOK, Limited
<1>2. clock \in Nat /\ l \in Nat /\ Limits \subseteq Nat
  BY EntitlementAssumption DEF TypeInv
<1>3. viewed[u][d] \in ViewRecord
  BY DEF TypeInv
<1>4. viewed[u][d].before \in Nat /\ Cardinality(viewed[u][d].cards) \in Nat
  BY <1>3, FS_CardinalityType DEF ViewRecord
<1>5. CASE d # DayOf(clock)
  BY <1>1, <1>5
<1>6. CASE d = DayOf(clock)
  <2>1. Midnight(clock) = EndOf(d) /\ EndOf(d) \in Nat /\ clock < EndOf(d) /\ d \in Nat
    BY <1>2, <1>6, Midnights
  <2>2. CASE FirstKeys(u, d)
    BY <1>1, <1>2, <2>2 DEF FirstKeys
  <2>3. CASE NextKeys(u, d)
    <3>1. LastSecond(clock)
      BY <1>2, <2>1, <2>3 DEF NextKeys, LastSecond
    <3>2. PICK m \in Limits : viewed[u][d].before <= m
      BY <2>3 DEF NextKeys, Limited
    <3>3. m \in Nat /\ (l <= m \/ m < l)
      BY <1>2
    <3>4. CASE l <= m
      BY <1>1, <1>2, <1>4, <3>1, <3>2, <3>3, <3>4
    <3>5. CASE m < l
      BY <1>1, <1>2, <1>4, <3>1, <3>2, <3>3, <3>5
    <3>. QED BY <3>3, <3>4, <3>5
  <2>. QED BY <1>6, <2>1, <2>2, <2>3 DEF KeysOK
<1>. QED BY <1>5, <1>6

\* Limits, and the numbers in a tier, are numbers.
LEMMA LimitsAreNat == Limits \cup {Unlimited} \subseteq Nat
<1>1. Limits \subseteq Nat \ {Unlimited}
  BY EntitlementAssumption
<1>2. Unlimited \in Nat
  BY DEF Unlimited
<1>. QED BY <1>1, <1>2

\* A tier's versions and the times of its changes are numbers.
LEMMA ChangedType ==
  ASSUME TypeInv, NEW t \in Tier
  PROVE  /\ Version(t) \in Nat /\ tier[t].changed \in Seq(0..MaxClock)
         /\ \A i \in 1..Version(t) : tier[t].changed[i] \in Nat
<1>1. tier[t].changed \in Seq(0..MaxClock)
  BY DEF TypeInv, TierRecord
<1>2. \A i \in 1..Len(tier[t].changed) : tier[t].changed[i] \in 0..MaxClock
  BY <1>1, ElementOfSeq
<1>3. Len(tier[t].changed) \in Nat
  BY <1>1
<1>. QED BY <1>1, <1>2, <1>3 DEF Version

\* The initial state.
LEMMA InitEnt == Init => EntInv
<1> SUFFICES ASSUME Init PROVE EntInv
  OBVIOUS
<1>1. Idle \in RequestRecord /\ Idle.at = "idle" /\ Idle.since = 0
  <2>. QED BY EntitlementAssumption DEF Idle, RequestRecord, Steps, Tier
<1>2. PICK l \in Limits : tier = [t \in Tier |-> [lim |-> IF t = "pro" THEN Unlimited ELSE l,
                                changed |-> << >>, edits |-> 0]]
  BY DEF Init
<1>3. Forever \in Nat /\ Limits \subseteq Nat /\ Unlimited \in Nat
  BY EntitlementAssumption DEF Forever, Unlimited
<1>4. TypeInv
  <2>1. code \in [used : Nat, max : 1..MaxActivations,
               status : {"active", "redeemed", "disabled"}]
    BY DEF Init
  <2>2. tier \in [Tier -> TierRecord]
    BY <1>2 DEF TierRecord
  <2>3. viewed \in [User -> [Day -> ViewRecord]]
    BY FS_EmptySet DEF Init, ViewRecord
  <2>. QED BY <1>1, <1>3, <2>1, <2>2, <2>3, EntitlementAssumption, FS_EmptySet
       DEF Init, TypeInv, CacheRecord
<1>5. \A r \in Request : RequestOK(r)
  BY <1>1 DEF Init, RequestOK, Running
<1>6. \A t \in Tier : CacheOK(t)
  BY <1>2, EntitlementAssumption DEF Init, CacheOK, Version
<1>7. PromoOK
  BY <1>1, FS_EmptySet DEF Init, PromoOK, ActivationsMatchRedemptions, Holds
<1>8. KeysOK
  <2>1. \A u \in User, d \in Day : viewed[u][d] = [cards |-> {}, ends |-> 0, before |-> 0]
    BY DEF Init
  <2>2. Limited(0)
    BY <1>2, <1>3 DEF Limited
  <2>3. \A u \in User, d \in Day : /\ Cardinality(viewed[u][d].cards) = 0
                                   /\ FirstKeys(u, d)
    BY <2>1, FS_EmptySet DEF FirstKeys
  <2>. QED BY <2>2, <2>3 DEF KeysOK
<1>. QED BY <1>4, <1>5, <1>6, <1>7, <1>8 DEF EntInv

-----------------------------------------------------------------------------
(* Requests.                                                                *)

\* One request is written; the others stay as they are.
LEMMA PutReq ==
  ASSUME TypeInv, NEW r \in Request, NEW s, Put(r, s)
  PROVE  req'[r] = s /\ \A q \in Request : q # r => req'[q] = req[q]
  BY DEF TypeInv, Put

\* A request that ends keeps, at most, when it began.
LEMMA EndReq ==
  ASSUME TypeInv, NEW r \in Request, NEW result \in Ended, End(r, result)
  PROVE  \E s \in RequestRecord :
           Put(r, s) /\ s.at = result /\ (s.since = 0 \/ s.since = req[r].since)
<1> DEFINE s == IF req[r].kind = "redeem"
                THEN [Idle EXCEPT !.at = result, !.kind = "redeem", !.user = req[r].user,
                                  !.since = req[r].since]
                ELSE [Idle EXCEPT !.at = result]
<1>1. Put(r, s)
  BY DEF End
<1>2. req[r] \in RequestRecord /\ 0 \in 0..MaxClock
  BY EntitlementAssumption DEF TypeInv
<1>3. result \in Steps /\ "free" \in Tier
  BY DEF Steps, Ended, Tier
<1>4. CASE req[r].kind = "redeem"
  <2>1. s = [at |-> result, kind |-> "redeem", user |-> req[r].user, item |-> "none",
             since |-> req[r].since, now |-> 0, lim |-> 0, ver |-> 0, tier |-> "free"]
    BY <1>4 DEF Idle
  <2> HIDE DEF s
  <2>. QED BY <1>1, <1>2, <1>3, <2>1 DEF RequestRecord
<1>5. CASE req[r].kind # "redeem"
  <2>1. s = [at |-> result, kind |-> "none", user |-> "none", item |-> "none",
             since |-> 0, now |-> 0, lim |-> 0, ver |-> 0, tier |-> "free"]
    BY <1>5 DEF Idle
  <2> HIDE DEF s
  <2>. QED BY <1>1, <1>2, <1>3, <2>1 DEF RequestRecord
<1>. QED BY <1>4, <1>5

\* A step of one request that writes nothing else.  It takes the lock of the
\* code's row only when nobody holds it.
LEMMA RequestStep ==
  ASSUME EntInv, NEW r \in Request, NEW s \in RequestRecord, Put(r, s),
         UNCHANGED <<clock, promo, tiers, viewed>>,
         RequestOK(r)', Holds(r)' => CodeUnlocked \/ Holds(r)
  PROVE  EntInv'
<1> USE DEF promo, tiers
<1>1. \A q \in Request : q # r => req'[q] = req[q]
  BY PutReq DEF EntInv
<1>2. TypeInv'
  BY DEF EntInv, TypeInv, Put
<1>3. \A q \in Request : RequestOK(q)'
  BY <1>1 DEF EntInv, RequestOK, Running, Version
<1>4. \A t \in Tier : CacheOK(t)'
  BY DEF EntInv, CacheOK, Version
<1>5. PromoOK'
  BY <1>1 DEF EntInv, PromoOK, ActivationsMatchRedemptions, Holds, CodeUnlocked
<1>6. KeysOK'
  BY KeysKept DEF EntInv
<1>. QED BY <1>2, <1>3, <1>4, <1>5, <1>6 DEF EntInv

\* The part of the invariant about a request that has ended.
LEMMA EndedOK ==
  ASSUME EntInv, NEW r \in Request, NEW result \in Ended, End(r, result),
         clock' = clock
  PROVE  /\ RequestOK(r)' /\ req'[r] \in RequestRecord /\ req'[r].at \in Ended
         /\ \A q \in Request : q # r => req'[q] = req[q]
<1>1. PICK s \in RequestRecord :
        Put(r, s) /\ s.at = result /\ (s.since = 0 \/ s.since = req[r].since)
  BY EndReq DEF EntInv
<1>2. req'[r] = s /\ \A q \in Request : q # r => req'[q] = req[q]
  BY <1>1, PutReq DEF EntInv
<1>3. req'[r].since <= clock
  BY <1>1, <1>2 DEF EntInv, RequestOK, TypeInv
<1>. QED BY <1>1, <1>2, <1>3 DEF RequestOK, Ended, Running

\* A request that ends and writes nothing.
LEMMA EndStep ==
  ASSUME EntInv, NEW r \in Request, NEW result \in Ended, End(r, result),
         UNCHANGED <<clock, promo, tiers, viewed>>
  PROVE  EntInv'
<1>1. PICK s \in RequestRecord : Put(r, s) /\ s.at = result
  BY EndReq DEF EntInv
<1>2. RequestOK(r)' /\ req'[r].at \in Ended
  BY EndedOK
<1>3. ~Holds(r)'
  BY <1>2 DEF Holds, Ended
<1>. QED BY <1>1, <1>2, <1>3, RequestStep

\* A request that begins.
LEMMA BeginRecord ==
  ASSUME NEW kind, NEW u, NEW step
  PROVE  LET b == Begin(kind, u, step) IN
         /\ b.at = step /\ b.kind = kind /\ b.user = u /\ b.since = clock
         /\ TypeInv /\ kind \in {"redeem", "kill", "edit", "view"} /\ step \in Steps
            /\ u \in User \cup {"none"} => b \in RequestRecord
<1>1. TypeInv => 0 \in 0..MaxClock /\ clock \in Nat
  BY EntitlementAssumption DEF TypeInv
<1>. QED BY <1>1 DEF Begin, Idle, RequestRecord, Tier

\* A redemption begins, or is refused by the hour's counter.
LEMMA BeginRedeemInv ==
  ASSUME EntInv, NEW r \in Request, NEW u \in User, BeginRedeem(r, u)
  PROVE  EntInv'
<1>0. PICK step \in {"refused", "read"} : Put(r, Begin("redeem", u, step))
  BY DEF BeginRedeem
<1> DEFINE s == Begin("redeem", u, step)
<1>1. step \in {"refused", "read"} /\ step \in Steps
  BY DEF Steps, Ended
<1>2. s \in RequestRecord /\ s.at = step /\ s.user = u /\ s.since = clock
  BY <1>1, BeginRecord DEF EntInv
<1>3. Put(r, s) /\ UNCHANGED <<clock, promo, tiers, viewed>>
  BY <1>0 DEF BeginRedeem
<1>4. req'[r] = s
  BY <1>3, PutReq DEF EntInv
<1> HIDE DEF s
<1>5. RequestOK(r)' /\ ~Holds(r)'
  BY <1>1, <1>2, <1>3, <1>4, EntitlementAssumption
     DEF EntInv, TypeInv, RequestOK, Running, Ended, Holds
<1>. QED BY <1>2, <1>3, <1>5, RequestStep

\* A request that goes on to its next step, keeping what it carries.
LEMMA Advance ==
  ASSUME EntInv, NEW r \in Request, NEW step \in Steps, Running(r),
         Put(r, [req[r] EXCEPT !.at = step]),
         UNCHANGED <<clock, promo, tiers, viewed>>,
         step \in {"claim", "apply"}, req[r].user \in User,
         step = "apply" => code.status = "active" /\ code.used < code.max /\ CodeUnlocked
  PROVE  EntInv'
<1> DEFINE s == [req[r] EXCEPT !.at = step]
<1>1. s \in RequestRecord /\ s.at = step /\ s.user = req[r].user /\ s.since = req[r].since
  <2>1. req[r] \in RequestRecord
    BY DEF EntInv, TypeInv
  <2>. QED BY <2>1 DEF RequestRecord
<1>2. req'[r] = s
  BY PutReq DEF EntInv
<1> HIDE DEF s
<1>3. RequestOK(r)' /\ (Holds(r)' => CodeUnlocked)
  BY <1>1, <1>2 DEF EntInv, RequestOK, Running, Holds, promo
<1>. QED BY <1>1, <1>3, RequestStep DEF s

\* The checks on rows read without a lock.
LEMMA ReadCodeInv ==
  ASSUME EntInv, NEW r \in Request, ReadCode(r)
  PROVE  EntInv'
<1>1. req[r].user \in User /\ Running(r)
  BY DEF ReadCode, EntInv, RequestOK, Running, Ended
<1>2. CASE End(r, "refused")
  BY <1>2, EndStep DEF ReadCode, Ended
<1>3. CASE ~End(r, "refused")
  BY <1>1, <1>3, Advance DEF ReadCode, Steps
<1>. QED BY <1>2, <1>3

\* The claim takes the row lock of a code that is still active and not used up.
LEMMA ClaimInv ==
  ASSUME EntInv, NEW r \in Request, Claim(r)
  PROVE  EntInv'
<1>1. req[r].user \in User /\ Running(r)
  BY DEF Claim, EntInv, RequestOK, Running, Ended
<1>2. CASE code.status = "active" /\ code.used < code.max
  BY <1>1, <1>2, Advance DEF Claim, Steps
<1>3. CASE ~(code.status = "active" /\ code.used < code.max)
  BY <1>3, EndStep DEF Claim, Ended
<1>. QED BY <1>2, <1>3

\* The grant is fixed for a user who has not redeemed the code.
LEMMA ApplyInv ==
  ASSUME EntInv, NEW r \in Request, Apply(r)
  PROVE  EntInv'
<1>1. CASE req[r].user \in redeemed
  BY <1>1, EndStep DEF Apply, Ended
<1>2. CASE req[r].user \notin redeemed
  <2> DEFINE s == [req[r] EXCEPT !.at = "commit", !.lim = GrantEnds]
  <2>1. GrantEnds \in Nat /\ GrantEnds <= Forever
    BY EntitlementAssumption DEF GrantEnds, Forever, EntInv, TypeInv
  <2>2. /\ s \in RequestRecord /\ s.at = "commit" /\ s.lim = GrantEnds
        /\ s.user = req[r].user /\ s.since = req[r].since
    <3>1. req[r] \in RequestRecord /\ "commit" \in Steps
      BY DEF EntInv, TypeInv, Steps
    <3>2. PICK g \in Nat : g = GrantEnds
      BY <2>1
    <3>. QED BY <3>1, <3>2 DEF RequestRecord
  <2>3. Put(r, s) /\ UNCHANGED <<clock, promo, tiers, viewed>> /\ req[r].at = "apply"
    BY <1>2 DEF Apply
  <2>4. req'[r] = s
    BY <2>3, PutReq DEF EntInv
  <2> HIDE DEF s
  <2>5. RequestOK(r)'
    <3>1. RequestOK(r) /\ Running(r) /\ UNCHANGED <<code, redeemed, clock>> /\ Forever' = Forever
      BY <2>3 DEF EntInv, Running, Ended, promo, Forever
    <3>. QED BY <1>2, <2>1, <2>2, <2>3, <2>4, <3>1 DEF RequestOK, Running
  <2>6. Holds(r)
    BY <2>3 DEF Holds
  <2>. QED BY <2>2, <2>3, <2>5, <2>6, RequestStep
<1>. QED BY <1>1, <1>2

\* A kill takes the row lock when nobody holds it.
LEMMA KillUpdateInv ==
  ASSUME EntInv, NEW r \in Request, KillUpdate(r)
  PROVE  EntInv'
<1> DEFINE s == Begin("kill", "none", "kill")
<1>1. s \in RequestRecord /\ s.at = "kill" /\ s.since = clock
  BY BeginRecord DEF EntInv, Steps
<1>2. Put(r, s) /\ UNCHANGED <<clock, promo, tiers, viewed>> /\ CodeUnlocked
  BY DEF KillUpdate
<1>3. req'[r] = s
  BY <1>2, PutReq DEF EntInv
<1> HIDE DEF s
<1>4. RequestOK(r)'
  BY <1>1, <1>2, <1>3, EntitlementAssumption DEF EntInv, TypeInv, RequestOK, Running
<1>. QED BY <1>1, <1>2, <1>4, RequestStep

-----------------------------------------------------------------------------
(* Promo codes.                                                             *)

\* A redemption commits: it is the only one that holds the code's row, which
\* is still active and not used up, and its user has not redeemed before.
LEMMA CommitRedeemInv ==
  ASSUME EntInv, NEW r \in Request, CommitRedeem(r)
  PROVE  EntInv'
<1>1. /\ req[r].at = "commit" /\ Holds(r)
      /\ req[r].user \in User /\ req[r].user \notin redeemed
      /\ req[r].lim \in 0..Forever
      /\ code.status = "active" /\ code.used < code.max
  BY DEF CommitRedeem, EntInv, TypeInv, RequestOK, RequestRecord, Holds
<1>2. /\ code' = [code EXCEPT !.used = @ + 1,
                   !.status = IF code.used + 1 >= code.max THEN "redeemed" ELSE @]
      /\ redeemed' = redeemed \cup {req[r].user}
      /\ End(r, "served")
      /\ UNCHANGED <<clock, offer, batch, tiers, viewed>>
      /\ sub' = sub \/ sub' = [sub EXCEPT ![req[r].user] = req[r].lim]
  BY DEF CommitRedeem, Upsert
<1>3. /\ RequestOK(r)' /\ req'[r] \in RequestRecord /\ req'[r].at \in Ended
      /\ \A q \in Request : q # r => req'[q] = req[q]
  BY <1>2, EndedOK DEF Ended
<1>4. /\ code'.used = code.used + 1 /\ code'.max = code.max
      /\ code'.status = IF code.used + 1 >= code.max THEN "redeemed" ELSE "active"
      /\ code' \in [used : Nat, max : 1..MaxActivations,
                    status : {"active", "redeemed", "disabled"}]
  <2>1. code \in [used : Nat, max : 1..MaxActivations,
                  status : {"active", "redeemed", "disabled"}]
    BY DEF EntInv, TypeInv
  <2> DEFINE status == IF code.used + 1 >= code.max THEN "redeemed" ELSE "active"
             used == code.used + 1
  <2>2. used \in Nat /\ status \in {"active", "redeemed", "disabled"}
    BY <2>1
  <2>3. code' = [code EXCEPT !.used = used, !.status = status]
    BY <1>1, <1>2, <2>1
  <2> HIDE DEF used, status
  <2>4. /\ code'.used = used /\ code'.max = code.max /\ code'.status = status
        /\ code' \in [used : Nat, max : 1..MaxActivations,
                      status : {"active", "redeemed", "disabled"}]
    BY <2>1, <2>2, <2>3
  <2>. QED BY <2>4 DEF used, status
<1>5. \A q \in Request : q # r => ~Holds(q)
  BY <1>1 DEF EntInv, PromoOK
<1>6. IsFiniteSet(redeemed') /\ Cardinality(redeemed') = Cardinality(redeemed) + 1
  BY <1>1, <1>2, FS_AddElement DEF EntInv, TypeInv
<1>7. TypeInv'
  <2>1. req' \in [Request -> RequestRecord]
    BY <1>2, <1>3 DEF EntInv, TypeInv, End, Put
  <2>2. sub' \in [User -> 0..Forever] /\ redeemed' \subseteq User
    BY <1>1, <1>2 DEF EntInv, TypeInv
  <2>. QED BY <1>2, <1>4, <1>6, <2>1, <2>2 DEF EntInv, TypeInv, tiers, Forever
<1>8. \A q \in Request : RequestOK(q)'
  BY <1>2, <1>3, <1>5 DEF EntInv, RequestOK, Running, Version, Holds, tiers, Forever
<1>9. \A t \in Tier : CacheOK(t)'
  BY <1>2 DEF EntInv, CacheOK, Version, tiers
<1>10. PromoOK'
  <2>1. code.used = Cardinality(redeemed) /\ code.used \in Nat /\ code.max \in Nat
    BY DEF EntInv, PromoOK, ActivationsMatchRedemptions, TypeInv
  <2>2. ActivationsMatchRedemptions'
    BY <1>1, <1>4, <1>6, <2>1 DEF ActivationsMatchRedemptions
  <2>3. \A q \in Request : ~Holds(q)'
    BY <1>3, <1>5 DEF Holds, Ended
  <2>. QED BY <1>1, <1>2, <2>2, <2>3 DEF EntInv, PromoOK
<1>11. KeysOK'
  BY <1>2, KeysKept DEF EntInv
<1>. QED BY <1>7, <1>8, <1>9, <1>10, <1>11 DEF EntInv

\* A kill commits under the lock of the code's row.
LEMMA CommitKillInv ==
  ASSUME EntInv, NEW r \in Request, CommitKill(r)
  PROVE  EntInv'
<1>1. req[r].at = "kill" /\ Holds(r)
  BY DEF CommitKill, Holds
<1>2. /\ batch' = "disabled" /\ code' = [code EXCEPT !.status = "disabled"]
      /\ End(r, "served")
      /\ UNCHANGED <<clock, offer, redeemed, sub, tiers, viewed>>
  BY DEF CommitKill
<1>3. /\ RequestOK(r)' /\ req'[r] \in RequestRecord /\ req'[r].at \in Ended
      /\ \A q \in Request : q # r => req'[q] = req[q]
  BY <1>2, EndedOK DEF Ended
<1>4. /\ code'.used = code.used /\ code'.max = code.max /\ code'.status = "disabled"
      /\ code' \in [used : Nat, max : 1..MaxActivations,
                    status : {"active", "redeemed", "disabled"}]
  BY <1>2 DEF EntInv, TypeInv
<1>5. \A q \in Request : q # r => ~Holds(q)
  BY <1>1 DEF EntInv, PromoOK
<1>6. TypeInv'
  <2>1. req' \in [Request -> RequestRecord]
    BY <1>2, <1>3 DEF EntInv, TypeInv, End, Put
  <2>. QED BY <1>2, <1>4, <2>1 DEF EntInv, TypeInv, tiers, Forever
<1>7. \A q \in Request : RequestOK(q)'
  BY <1>2, <1>3, <1>5 DEF EntInv, RequestOK, Running, Version, Holds, tiers, Forever
<1>8. \A t \in Tier : CacheOK(t)'
  BY <1>2 DEF EntInv, CacheOK, Version, tiers
<1>9. PromoOK'
  <2>1. \A q \in Request : ~Holds(q)'
    BY <1>3, <1>5 DEF Holds, Ended
  <2>. QED BY <1>2, <1>4, <2>1 DEF EntInv, PromoOK, ActivationsMatchRedemptions
<1>10. KeysOK'
  BY <1>2, KeysKept DEF EntInv
<1>. QED BY <1>6, <1>7, <1>8, <1>9, <1>10 DEF EntInv

\* An admin grants a tier.
LEMMA AssignInv ==
  ASSUME EntInv, NEW r \in Request, NEW u \in User,
         NEW ends \in {clock + 1, Forever}, Assign(r, u, ends)
  PROVE  EntInv'
<1> DEFINE s == [Idle EXCEPT !.at = "served"]
<1>1. s \in RequestRecord /\ s.at = "served" /\ s.since = 0
  <2>. QED BY EntitlementAssumption DEF Idle, RequestRecord, Steps, Ended, Tier
<1>2. Put(r, s) /\ sub' = [sub EXCEPT ![u] = ends]
      /\ UNCHANGED <<clock, offer, batch, code, redeemed, tiers, viewed>>
  BY DEF Assign, AssignTier, Upsert
<1>3. req'[r] = s /\ \A q \in Request : q # r => req'[q] = req[q]
  BY <1>2, PutReq DEF EntInv
<1>4. ends \in 0..Forever
  BY EntitlementAssumption DEF Forever, EntInv, TypeInv
<1> HIDE DEF s
<1>5. TypeInv'
  BY <1>1, <1>2, <1>4 DEF EntInv, TypeInv, Put, tiers, Forever
<1>6. \A q \in Request : RequestOK(q)'
  <2>1. RequestOK(r)'
    BY <1>1, <1>2, <1>3 DEF EntInv, TypeInv, RequestOK, Running, Ended
  <2>2. \A q \in Request : q # r => RequestOK(q)'
    BY <1>2, <1>3 DEF EntInv, RequestOK, Running, Version, tiers, Forever
  <2>. QED BY <2>1, <2>2
<1>7. \A t \in Tier : CacheOK(t)'
  BY <1>2 DEF EntInv, CacheOK, Version, tiers
<1>8. PromoOK'
  BY <1>1, <1>2, <1>3 DEF EntInv, PromoOK, ActivationsMatchRedemptions, Holds
<1>9. KeysOK'
  BY <1>2, KeysKept DEF EntInv
<1>. QED BY <1>5, <1>6, <1>7, <1>8, <1>9 DEF EntInv

-----------------------------------------------------------------------------
(* Tiers.                                                                   *)

\* The limit is read with the version it belongs to.
LEMMA ReadTierInv ==
  ASSUME EntInv, NEW r \in Request, ReadTier(r)
  PROVE  EntInv'
<1> DEFINE t == req[r].tier
           lim == tier[t].lim
           s == [req[r] EXCEPT !.at = "set", !.lim = lim, !.ver = Version(t)]
<1>1. /\ req[r].at = "db" /\ Put(r, s) /\ UNCHANGED <<clock, promo, tiers, viewed>>
      /\ RequestOK(r) /\ req[r] \in RequestRecord /\ t \in Tier
  BY DEF ReadTier, EntInv, TypeInv, RequestRecord
<1>2. lim \in Limits \cup {Unlimited} /\ lim \in Nat /\ Version(t) \in Nat
  <2>1. tier[t] \in TierRecord
    BY <1>1 DEF EntInv, TypeInv
  <2>2. tier[t].changed \in Seq(0..MaxClock) /\ lim \in Limits \cup {Unlimited}
    BY <2>1 DEF TierRecord
  <2>3. Version(t) \in Nat
    BY <2>2 DEF Version
  <2>. QED BY <2>2, <2>3, LimitsAreNat
<1>3. /\ s \in RequestRecord /\ s.at = "set" /\ s.lim = lim /\ s.ver = Version(t)
      /\ s.user = req[r].user /\ s.since = req[r].since /\ s.tier = t
  <2> HIDE DEF lim
  <2>1. req[r] \in RequestRecord /\ "set" \in Steps
    BY <1>1 DEF Steps
  <2>. QED BY <1>2, <2>1 DEF RequestRecord
<1>4. req'[r] = s
  BY <1>1, PutReq DEF EntInv
<1>5. Version(t)' = Version(t)
  BY <1>1, <1>3, <1>4 DEF Version, tiers
<1> HIDE DEF s, lim
<1>6. RequestOK(r)'
  <2>1. Running(r)
    BY <1>1 DEF Running, Ended
  <2>. QED BY <1>1, <1>2, <1>3, <1>4, <1>5, <2>1 DEF RequestOK, Running, Ended
<1>7. ~Holds(r)'
  BY <1>3, <1>4 DEF Holds
<1>. QED BY <1>1, <1>3, <1>6, <1>7, RequestStep

\* A view starts from a cached limit, or will read the row.
LEMMA BeginViewInv ==
  ASSUME EntInv, NEW r \in Request, NEW u \in User, NEW i \in Card \cup {"none"},
         BeginView(r, u, i)
  PROVE  EntInv'
<1> DEFINE t == EffectiveTier(u)
           b == Begin("view", u, "db")
           lim == cache[t].lim
           ver == cache[t].ver
           view == [b EXCEPT !.item = i, !.tier = t]
           hit == [view EXCEPT !.at = "consume", !.lim = lim, !.ver = ver, !.now = clock]
<1>1. t \in Tier /\ UNCHANGED <<clock, promo, tiers, viewed>>
      /\ (Cached(t) => Put(r, hit)) /\ (~Cached(t) => Put(r, view))
  BY DEF BeginView, EffectiveTier, Tier
<1>2. /\ b \in RequestRecord /\ b.at = "db" /\ b.user = u /\ b.since = clock
  BY BeginRecord DEF EntInv, Steps
<1>3. /\ view \in RequestRecord /\ view.at = "db" /\ view.user = u /\ view.since = clock
  <2> HIDE DEF b, t
  <2>. QED BY <1>1, <1>2 DEF RequestRecord
<1>4. CASE ~Cached(t)
  <2>1. Put(r, view) /\ req'[r] = view
    BY <1>1, <1>4, PutReq DEF EntInv
  <2> HIDE DEF view
  <2>2. RequestOK(r)' /\ ~Holds(r)'
    BY <1>1, <1>3, <2>1, EntitlementAssumption DEF EntInv, TypeInv, RequestOK, Running, Holds
  <2>. QED BY <1>1, <1>3, <2>1, <2>2, RequestStep
<1>5. CASE Cached(t)
  <2>1. lim \in Limits \cup {Unlimited} /\ lim \in Nat /\ ver \in Nat /\ clock \in 0..MaxClock
    <3>1. cache[t].ends # 0 /\ CacheOK(t)
      BY <1>1, <1>5, EntitlementAssumption DEF Cached, EntInv, TypeInv
    <3>2. cache[t] \in CacheRecord
      BY <1>1 DEF EntInv, TypeInv
    <3>3. lim \in Limits \cup {Unlimited}
      BY <3>1 DEF CacheOK
    <3>4. lim \in Nat /\ ver \in Nat
      BY <3>2 DEF CacheRecord
    <3>. QED BY <3>3, <3>4 DEF EntInv, TypeInv
  <2>2. Put(r, hit) /\ req'[r] = hit
    BY <1>1, <1>5, PutReq DEF EntInv
  <2>3. /\ hit \in RequestRecord /\ hit.at = "consume" /\ hit.user = u /\ hit.since = clock
        /\ hit.lim = lim /\ hit.now = clock
    <3> HIDE DEF view, lim, ver
    <3>1. "consume" \in Steps
      BY DEF Steps
    <3>. QED BY <1>3, <2>1, <3>1 DEF RequestRecord
  <2> HIDE DEF hit, lim
  <2>4. RequestOK(r)' /\ ~Holds(r)'
    BY <1>1, <2>1, <2>2, <2>3, EntitlementAssumption DEF EntInv, TypeInv, RequestOK, Running, Holds
  <2>. QED BY <1>1, <2>2, <2>3, <2>4, RequestStep
<1>. QED BY <1>4, <1>5

\* The entry is written with the limit its request has read, and within the
\* longest request of that.
LEMMA SetCacheInv ==
  ASSUME EntInv, NEW r \in Request, SetCache(r)
  PROVE  EntInv'
<1> DEFINE s == [req[r] EXCEPT !.at = "consume", !.now = clock]
           entry == [lim |-> req[r].lim, ver |-> req[r].ver,
                     gen |-> tier[req[r].tier].edits, ends |-> clock + TTL]
<1>1. PICK t \in Tier : t = req[r].tier
  BY DEF EntInv, TypeInv, RequestRecord
<1>2. /\ req[r].at = "set" /\ Put(r, s) /\ cache' = [cache EXCEPT ![t] = entry]
      /\ UNCHANGED <<clock, promo, tier, viewed>>
      /\ RequestOK(r) /\ req[r] \in RequestRecord
  BY <1>1 DEF SetCache, EntInv, TypeInv
<1>3. clock \in Nat /\ TTL \in Nat /\ MaxRequest \in Nat
      /\ clock \in 0..MaxClock
  BY EntitlementAssumption DEF EntInv, TypeInv
<1>4. /\ s \in RequestRecord /\ s.at = "consume" /\ s.user = req[r].user
      /\ s.since = req[r].since /\ s.lim = req[r].lim /\ s.now = clock
  <2>1. "consume" \in Steps
    BY DEF Steps
  <2>. QED BY <1>2, <1>3, <2>1 DEF RequestRecord
<1>5. req'[r] = s /\ \A q \in Request : q # r => req'[q] = req[q]
  BY <1>2, PutReq DEF EntInv
<1>6. entry \in CacheRecord
  <2>1. /\ req[r].lim \in Nat /\ req[r].ver \in Nat
        /\ tier[req[r].tier].edits \in Nat /\ clock + TTL \in Nat
    BY <1>1, <1>2, <1>3 DEF EntInv, TypeInv, RequestRecord, TierRecord
  <2>. QED BY <2>1 DEF CacheRecord
<1>7. cache'[t] = entry /\ \A u \in Tier : u # t => cache'[u] = cache[u]
  BY <1>2 DEF EntInv, TypeInv
<1>8. TypeInv'
  <2> HIDE DEF s, entry
  <2>1. req' \in [Request -> RequestRecord]
    BY <1>2, <1>4 DEF EntInv, TypeInv, Put
  <2>. QED BY <1>2, <1>6, <2>1 DEF EntInv, TypeInv, promo, Forever
<1>9. \A q \in Request : RequestOK(q)'
  <2> HIDE DEF s, entry
  <2>1. Running(r)
    BY <1>2 DEF Running, Ended
  <2>2. RequestOK(r)'
    BY <1>2, <1>3, <1>4, <1>5, <2>1 DEF RequestOK, Running
  <2>3. \A q \in Request : q # r => RequestOK(q)'
    BY <1>2, <1>5 DEF EntInv, RequestOK, Running, Version, promo, Forever
  <2>. QED BY <2>2, <2>3
<1>10. CacheOK(t)'
  <2>1. cache'[t].ver = req[r].ver /\ cache'[t].lim = req[r].lim
        /\ cache'[t].ends = clock + TTL /\ cache'[t].gen = tier[t].edits
    BY <1>1, <1>7
  <2>2. Version(t)' = Version(t) /\ tier' = tier /\ clock' = clock
    BY <1>2 DEF Version
  <2>3. clock <= req[r].since + MaxRequest /\ req[r].since \in Nat
    BY <1>2 DEF RequestOK, Running, Ended, RequestRecord
  <2>4. /\ req[r].ver <= Version(t)
        /\ req[r].ver < Version(t) => req[r].since <= tier[t].changed[req[r].ver + 1]
        /\ req[r].lim \in Limits \cup {Unlimited}
    BY <1>1, <1>2 DEF RequestOK
  <2>5. req[r].ver \in Nat /\ Version(t) \in Nat
    BY <1>2 DEF RequestRecord, Version, EntInv, TypeInv
  <2>6. req[r].ver < Version(t) => tier[t].changed[req[r].ver + 1] \in Nat
    BY <2>5, ChangedType DEF EntInv
  <2>. QED BY <1>3, <2>1, <2>2, <2>3, <2>4, <2>6 DEF CacheOK
<1>11. \A u \in Tier : u # t => CacheOK(u)'
  BY <1>2, <1>7 DEF EntInv, CacheOK, Version
<1>12. PromoOK'
  BY <1>2, <1>4, <1>5 DEF EntInv, PromoOK, ActivationsMatchRedemptions, Holds, promo
<1>13. KeysOK'
  BY <1>2, KeysKept DEF EntInv
<1>. QED BY <1>8, <1>9, <1>10, <1>11, <1>12, <1>13 DEF EntInv

\* An edit deletes the entry before it commits.
LEMMA EditInv ==
  ASSUME EntInv, NEW r \in Request, NEW t \in Edited, NEW l \in Limits, Edit(r, t, l)
  PROVE  EntInv'
<1> DEFINE b == Begin("edit", "none", "edit")
           s == [b EXCEPT !.tier = t, !.lim = l]
<1>1. /\ Put(r, s) /\ UNCHANGED <<clock, promo, viewed>>
      /\ tier' = [tier EXCEPT ![t].edits = @ + 1]
      /\ cache' = [cache EXCEPT ![t].ends = 0]
  BY DEF Edit
<1>2. t \in Tier /\ l \in Nat /\ TTL \in Nat /\ clock \in Nat /\ MaxRequest \in Nat
  BY LimitsAreNat, EntitlementAssumption DEF EntInv, TypeInv
<1>3. b \in RequestRecord /\ b.at = "edit" /\ b.since = clock
  BY BeginRecord DEF EntInv, Steps
<1>4. s \in RequestRecord /\ s.at = "edit" /\ s.since = clock /\ s.lim = l
  <2> HIDE DEF b
  <2>. QED BY <1>2, <1>3 DEF RequestRecord
<1>5. req'[r] = s /\ \A q \in Request : q # r => req'[q] = req[q]
  BY <1>1, PutReq DEF EntInv
<1> HIDE DEF s
<1>6. /\ tier' \in [Tier -> TierRecord]
      /\ \A u \in Tier : tier'[u].changed = tier[u].changed
      /\ \A u \in Tier : u # t => tier'[u] = tier[u]
  <2>1. tier \in [Tier -> TierRecord] /\ t \in Tier
    BY <1>2 DEF EntInv, TypeInv
  <2> DEFINE edits == tier[t].edits + 1
             row == [tier[t] EXCEPT !.edits = edits]
  <2>2. tier[t] \in TierRecord
    BY <2>1
  <2>3. edits \in Nat
    BY <2>2 DEF TierRecord
  <2>4. tier' = [tier EXCEPT ![t] = row]
    BY <1>1, <2>1
  <2>5. row \in TierRecord /\ row.changed = tier[t].changed
    <3> HIDE DEF edits
    <3>. QED BY <2>2, <2>3 DEF TierRecord
  <2> HIDE DEF row
  <2>. QED BY <2>1, <2>4, <2>5
<1>7. /\ cache' \in [Tier -> CacheRecord]
      /\ cache'[t].ends = 0 /\ cache'[t].ver = cache[t].ver
      /\ \A u \in Tier : u # t => cache'[u] = cache[u]
  <2>1. cache \in [Tier -> CacheRecord]
    BY DEF EntInv, TypeInv
  <2>2. /\ cache'[t] = [cache[t] EXCEPT !.ends = 0]
        /\ \A u \in Tier : u # t => cache'[u] = cache[u]
        /\ cache' = [u \in Tier |-> cache'[u]]
    BY <1>1, <1>2, <2>1
  <2>3. cache'[t] \in CacheRecord /\ cache'[t].ends = 0 /\ cache'[t].ver = cache[t].ver
    BY <1>2, <2>1, <2>2 DEF CacheRecord
  <2>. QED BY <2>1, <2>2, <2>3
<1>8. \A u \in Tier : Version(u)' = Version(u)
  BY <1>6 DEF Version
<1>9. TypeInv'
  <2>1. req' \in [Request -> RequestRecord]
    BY <1>1, <1>4 DEF EntInv, TypeInv, Put
  <2>. QED BY <1>1, <1>6, <1>7, <2>1 DEF EntInv, TypeInv, promo, Forever
<1>10. \A q \in Request : RequestOK(q)'
  <2>1. RequestOK(r)'
    BY <1>1, <1>2, <1>4, <1>5 DEF RequestOK, Running
  <2>2. ASSUME NEW q \in Request, q # r PROVE RequestOK(q)'
    <3>1. req'[q] = req[q] /\ RequestOK(q) /\ req[q].tier \in Tier
      BY <1>5, <2>2 DEF EntInv, TypeInv, RequestRecord
    <3>. QED BY <1>1, <1>6, <1>8, <3>1 DEF RequestOK, Running, promo, Forever
  <2>. QED BY <2>1, <2>2
<1>11. \A u \in Tier : CacheOK(u)'
  <2>1. CacheOK(t)'
    BY <1>1, <1>2, <1>7, <1>8 DEF EntInv, CacheOK
  <2>2. \A u \in Tier : u # t => CacheOK(u)'
    BY <1>1, <1>6, <1>7, <1>8 DEF EntInv, CacheOK
  <2>. QED BY <2>1, <2>2
<1>12. PromoOK'
  BY <1>1, <1>4, <1>5 DEF EntInv, PromoOK, ActivationsMatchRedemptions, Holds, promo
<1>13. KeysOK'
  BY <1>1, KeysKept DEF EntInv
<1>. QED BY <1>9, <1>10, <1>11, <1>12, <1>13 DEF EntInv

\* The commit of an edit: what was read before is one version behind, and not
\* older than its request or its entry.
LEMMA CommitEditInv ==
  ASSUME EntInv, NEW r \in Request, CommitEdit(r)
  PROVE  EntInv'
<1>1. PICK t \in Tier : t = req[r].tier
  BY DEF EntInv, TypeInv, RequestRecord
<1> DEFINE now == clock
           log == Append(tier[t].changed, clock)
           lim == req[r].lim
<1>2. /\ req[r].at = "edit" /\ End(r, "served") /\ UNCHANGED <<clock, promo, cache, viewed>>
      /\ tier' = [tier EXCEPT ![t].lim = lim, ![t].changed = log]
  BY <1>1 DEF CommitEdit, EntInv, TypeInv
<1>3. lim \in Limits /\ clock \in 0..MaxClock /\ clock \in Nat /\ TTL \in Nat /\ MaxRequest \in Nat
  BY <1>2, EntitlementAssumption DEF EntInv, TypeInv, RequestOK
<1>4. /\ RequestOK(r)' /\ req'[r] \in RequestRecord /\ req'[r].at \in Ended
      /\ \A q \in Request : q # r => req'[q] = req[q]
  BY <1>2, EndedOK DEF Ended
<1>5. /\ log \in Seq(0..MaxClock) /\ Len(log) = Version(t) + 1
      /\ log[Version(t) + 1] = clock
      /\ \A i \in 1..Version(t) : log[i] = tier[t].changed[i]
      /\ Version(t) \in Nat
  BY <1>3, ChangedType, AppendProperties DEF EntInv, Version
<1>6. /\ tier' \in [Tier -> TierRecord]
      /\ tier'[t].changed = log /\ tier'[t].edits = tier[t].edits
      /\ \A u \in Tier : u # t => tier'[u] = tier[u]
  <2> HIDE DEF log, lim
  <2>1. tier \in [Tier -> TierRecord]
    BY DEF EntInv, TypeInv
  <2> DEFINE mid == [tier EXCEPT ![t].lim = lim]
  <2>2. tier' = [mid EXCEPT ![t].changed = log]
    BY <1>2, <2>1
  <2>3. /\ mid[t] = [tier[t] EXCEPT !.lim = lim]
        /\ \A u \in Tier : u # t => mid[u] = tier[u]
        /\ mid = [u \in Tier |-> mid[u]]
    <3>1. mid[t] = [tier[t] EXCEPT !.lim = lim]
      BY <2>1
    <3>2. \A u \in Tier : u # t => mid[u] = tier[u]
      BY <2>1
    <3>3. mid = [u \in Tier |-> mid[u]]
      BY <2>1
    <3>. QED BY <3>1, <3>2, <3>3
  <2> HIDE DEF mid
  <2>4. mid[t] \in TierRecord /\ mid[t].edits = tier[t].edits
    <3>1. PICK old \in TierRecord : old = tier[t]
      BY <2>1
    <3>2. [old EXCEPT !.lim = lim] \in TierRecord
          /\ [old EXCEPT !.lim = lim].edits = old.edits
      BY <1>3, <3>1 DEF TierRecord
    <3>. QED BY <2>3, <3>1, <3>2
  <2>5. /\ tier'[t] = [mid[t] EXCEPT !.changed = log]
        /\ \A u \in Tier : u # t => tier'[u] = mid[u]
        /\ tier' = [u \in Tier |-> tier'[u]]
    BY <2>2, <2>3
  <2>6. tier'[t] \in TierRecord /\ tier'[t].edits = tier[t].edits /\ tier'[t].changed = log
    <3>1. PICK m \in TierRecord : m = mid[t]
      BY <2>4
    <3>2. [m EXCEPT !.changed = log] \in TierRecord
          /\ [m EXCEPT !.changed = log].edits = m.edits
          /\ [m EXCEPT !.changed = log].changed = log
      BY <1>5, <3>1 DEF TierRecord
    <3>. QED BY <2>4, <2>5, <3>1, <3>2
  <2>. QED BY <2>1, <2>3, <2>5, <2>6
<1> HIDE DEF log, lim
<1>7. Version(t)' = Version(t) + 1 /\ \A u \in Tier : u # t => Version(u)' = Version(u)
  BY <1>5, <1>6 DEF Version
<1>8. TypeInv'
  <2>1. req' \in [Request -> RequestRecord]
    BY <1>2, <1>4 DEF EntInv, TypeInv, End, Put
  <2>. QED BY <1>2, <1>6, <2>1 DEF EntInv, TypeInv, promo, Forever
<1>9. ASSUME NEW q \in Request, q # r PROVE RequestOK(q)'
  <2>1. req'[q] = req[q] /\ RequestOK(q) /\ req[q] \in RequestRecord
    BY <1>4, <1>9 DEF EntInv, TypeInv
  <2>2. PICK u \in Tier : u = req[q].tier
    BY <2>1 DEF RequestRecord
  <2>3. CASE u # t
    <3>1. Version(u)' = Version(u) /\ tier'[u] = tier[u]
      BY <1>6, <1>7, <2>3
    <3>. QED BY <1>2, <2>1, <2>2, <3>1 DEF RequestOK, Running, promo, Forever, Version
  <2>4. CASE u = t /\ req[q].at = "set"
    <3>1. req[q].ver \in Nat /\ req[q].ver <= Version(t) /\ req[q].since <= clock
      BY <2>1, <2>2, <2>4 DEF RequestOK, RequestRecord
    <3>2. req[q].since <= tier'[t].changed[req[q].ver + 1]
      <4>1. CASE req[q].ver = Version(t)
        BY <1>5, <1>6, <3>1, <4>1
      <4>2. CASE req[q].ver < Version(t)
        <5>1. req[q].since <= tier[t].changed[req[q].ver + 1]
          BY <2>1, <2>2, <2>4, <4>2 DEF RequestOK
        <5>2. req[q].ver + 1 \in 1..Version(t)
          BY <1>5, <3>1, <4>2
        <5>. QED BY <1>5, <1>6, <5>1, <5>2
      <4>. QED BY <1>5, <3>1, <4>1, <4>2
    <3>3. req'[q].tier = t /\ req[q].ver <= Version(t)'
      BY <1>5, <1>7, <2>1, <2>2, <2>4, <3>1
    <3>. QED BY <1>2, <2>1, <2>4, <3>2, <3>3 DEF RequestOK, Running, promo, Forever
  <2>5. CASE req[q].at # "set"
    BY <1>2, <2>1, <2>5 DEF RequestOK, Running, promo, Forever
  <2>. QED BY <2>3, <2>4, <2>5
<1>10. CacheOK(t)'
  <2>1. /\ CacheOK(t) /\ UNCHANGED cache /\ clock' = clock
        /\ cache[t] \in CacheRecord
    BY <1>2 DEF EntInv, TypeInv
  <2>2. cache[t].ver <= Version(t) /\ cache[t].ver \in Nat /\ cache[t].ends \in Nat
    BY <2>1 DEF CacheOK, CacheRecord
  <2>3. CASE cache[t].ver = Version(t)
    <3>1. tier'[t].changed[cache[t].ver + 1] = clock
      BY <1>5, <1>6, <2>3
    <3>. QED BY <1>3, <1>5, <1>6, <1>7, <2>1, <2>2, <3>1 DEF CacheOK
  <2>4. CASE cache[t].ver < Version(t)
    <3>1. cache[t].ver + 1 \in 1..Version(t)
      BY <1>5, <2>2, <2>4
    <3>2. tier'[t].changed[cache[t].ver + 1] = tier[t].changed[cache[t].ver + 1]
      BY <1>5, <1>6, <3>1
    <3>. QED BY <1>5, <1>6, <1>7, <2>1, <2>2, <2>4, <3>2 DEF CacheOK
  <2>. QED BY <1>5, <2>2, <2>3, <2>4
<1>11. \A u \in Tier : u # t => CacheOK(u)'
  BY <1>2, <1>6, <1>7 DEF EntInv, CacheOK
<1>12. PromoOK'
  BY <1>2, <1>4 DEF EntInv, PromoOK, ActivationsMatchRedemptions, Holds, Ended, promo
<1>13. KeysOK'
  BY <1>2, KeysKept DEF EntInv
<1>. QED BY <1>4, <1>8, <1>9, <1>10, <1>11, <1>12, <1>13 DEF EntInv

-----------------------------------------------------------------------------
(* Match cards.                                                             *)

\* One card more.
LEMMA OneMore ==
  ASSUME NEW S, IsFiniteSet(S), NEW x
  PROVE  /\ Cardinality(S \cup {x}) \in Nat /\ Cardinality(S) \in Nat
         /\ Cardinality(S \cup {x}) <= Cardinality(S) + 1
<1>1. Cardinality(S) \in Nat
  BY FS_CardinalityType
<1>2. \/ Cardinality(S \cup {x}) = Cardinality(S)
      \/ Cardinality(S \cup {x}) = Cardinality(S) + 1
  BY FS_AddElement
<1>. QED BY <1>1, <1>2

\* The keys of a charge: a day that is not over counts on, or, in its last
\* second, once more from the start.
LEMMA ChargeKeys ==
  ASSUME EntInv, NEW r \in Request, req[r].at = "consume", req[r].item \in Card, Charge(r),
         req[r].lim \in Limits, Cardinality(Seen(r)) < req[r].lim, clock' = clock
  PROVE  viewed' \in [User -> [Day -> ViewRecord]] /\ KeysOK'
<1>1. /\ req[r].user \in User /\ req[r].now \in 0..MaxClock /\ req[r].now <= clock
      /\ clock \in Nat /\ req[r].now \in Nat
  BY EntitlementAssumption DEF EntInv, TypeInv, RequestOK, RequestRecord
<1>2. PICK u \in User, d \in Day, c \in Card :
        u = req[r].user /\ d = DayKey(r) /\ c = req[r].item /\ d = DayOf(req[r].now)
  BY <1>1, DayType DEF DayKey
<1>3. PICK v \in ViewRecord : v = viewed[u][d]
  <2>1. viewed[u][d] \in ViewRecord
    BY DEF EntInv, TypeInv
  <2>. QED BY <2>1, Zenon
<1>4. PICK ttl \in TimesToLive(req[r].now) :
        viewed' = [viewed EXCEPT ![u][d] =
          IF Counts(u, d) THEN [viewed[u][d] EXCEPT !.cards = viewed[u][d].cards \cup {c}]
          ELSE [cards |-> {c}, ends |-> clock + ttl,
                before |-> viewed[u][d].before + Cardinality(viewed[u][d].cards)]]
  BY <1>2 DEF Charge
<1>5. /\ ttl \in Nat /\ 1 <= ttl /\ EndOf(d) <= req[r].now + ttl + 1 /\ EndOf(d) \in Nat
  BY <1>1, <1>2, KeysLive
<1>6. /\ v.cards \subseteq Card /\ IsFiniteSet(v.cards) /\ Cardinality(v.cards) \in Nat
      /\ v.ends \in Nat /\ v.before \in Nat
  BY FS_CardinalityType DEF ViewRecord
<1> DEFINE more == [viewed[u][d] EXCEPT !.cards = viewed[u][d].cards \cup {c}]
           new == [cards |-> {c}, ends |-> clock + ttl,
                   before |-> viewed[u][d].before + Cardinality(viewed[u][d].cards)]
           w == IF Counts(u, d) THEN more ELSE new
<1>7. more \in ViewRecord /\ more.cards = v.cards \cup {c} /\ more.ends = v.ends
      /\ more.before = v.before
  <2>1. v.cards \cup {c} \in {x \in SUBSET Card : IsFiniteSet(x)}
    BY <1>6, FS_AddElement
  <2>. QED BY <1>3, <2>1 DEF ViewRecord
<1>8. /\ new \in ViewRecord /\ new.cards = {c} /\ new.ends = clock + ttl
      /\ new.before = v.before + Cardinality(v.cards)
  <2>1. {c} \in {x \in SUBSET Card : IsFiniteSet(x)}
    BY FS_Singleton
  <2>. QED BY <1>1, <1>3, <1>5, <1>6, <2>1 DEF ViewRecord
<1>9. viewed' = [viewed EXCEPT ![u][d] = w]
  BY <1>4
<1>. HIDE DEF more, new
<1>10. /\ viewed' \in [User -> [Day -> ViewRecord]] /\ viewed'[u][d] = w
       /\ \A x \in User, e \in Day : <<x, e>> # <<u, d>> => viewed'[x][e] = viewed[x][e]
  <2>1. viewed \in [User -> [Day -> ViewRecord]] /\ w \in ViewRecord
    BY <1>7, <1>8 DEF EntInv, TypeInv
  <2> HIDE DEF w
  <2>. QED BY <1>9, <2>1
<1>15. (Counts(u, d) => w = more) /\ (~Counts(u, d) => w = new)
  OBVIOUS
<1>. HIDE DEF w
<1>11. ASSUME NEW x \in User, NEW e \in Day, <<x, e>> # <<u, d>>
       PROVE  /\ Limited(Cardinality(viewed'[x][e].cards))
              /\ DayOf(clock') <= e => FirstKeys(x, e)' \/ NextKeys(x, e)'
  <2>1. viewed'[x][e] = viewed[x][e]
    BY <1>10, <1>11
  <2>. QED BY <2>1 DEF EntInv, KeysOK, FirstKeys, NextKeys, Limited, EndOf
<1>12. Limited(Cardinality(w.cards))
  <2>1. Limits \subseteq Nat
    BY EntitlementAssumption
  <2>2. CASE Counts(u, d)
    <3>1. w.cards = Seen(r) \cup {c} /\ IsFiniteSet(Seen(r))
      BY <1>2, <1>3, <1>6, <1>7, <1>15, <2>2 DEF Seen
    <3>2. Cardinality(w.cards) <= Cardinality(Seen(r)) + 1 /\ Cardinality(w.cards) \in Nat
          /\ Cardinality(Seen(r)) \in Nat
      BY <3>1, OneMore
    <3>3. Cardinality(w.cards) <= req[r].lim
      <4>1. req[r].lim \in Nat
        BY <2>1
      <4>. QED BY <3>2, <4>1
    <3>. QED BY <3>3, Zenon DEF Limited
  <2>3. CASE ~Counts(u, d)
    <3>1. Seen(r) = {} /\ w.cards = {c}
      BY <1>2, <1>8, <1>15, <2>3 DEF Seen
    <3>2. Cardinality(Seen(r)) = 0 /\ Cardinality(w.cards) = 1
      BY <3>1, FS_EmptySet, FS_Singleton
    <3>3. 1 <= req[r].lim
      BY <2>1, <3>2
    <3>. QED BY <3>2, <3>3 DEF Limited
  <2>. QED BY <2>2, <2>3
<1>13. DayOf(clock) <= d => FirstKeys(u, d)' \/ NextKeys(u, d)'
  <2> SUFFICES ASSUME DayOf(clock) <= d PROVE FirstKeys(u, d)' \/ NextKeys(u, d)'
    OBVIOUS
  <2>1. d = DayOf(clock) /\ clock < EndOf(d)
    <3>1. DayOf(req[r].now) <= DayOf(clock) /\ DayOf(clock) \in Nat /\ DayOf(req[r].now) \in Nat
      BY <1>1, DaysGrow, Midnights
    <3>2. d = DayOf(clock)
      BY <1>2, <3>1
    <3>. QED BY <1>1, <3>2, Midnights
  <2>2. FirstKeys(u, d) \/ NextKeys(u, d)
    BY DEF EntInv, KeysOK
  <2>3. CASE Counts(u, d)
    <3>1. viewed'[u][d].ends = v.ends /\ viewed'[u][d].before = v.before /\ v.ends # 0
      BY <1>1, <1>3, <1>6, <1>7, <1>10, <1>15, <2>3 DEF Counts
    <3>2. FirstKeys(u, d) => FirstKeys(u, d)'
      BY <1>3, <3>1 DEF FirstKeys, EndOf
    <3>3. NextKeys(u, d) => NextKeys(u, d)'
      BY <1>3, <3>1 DEF NextKeys, Limited, EndOf
    <3>. QED BY <2>2, <3>2, <3>3
  <2>4. CASE ~Counts(u, d)
    <3>1. /\ viewed'[u][d].ends = clock + ttl
          /\ viewed'[u][d].before = v.before + Cardinality(v.cards) /\ v.ends <= clock
      BY <1>1, <1>3, <1>6, <1>8, <1>10, <1>15, <2>4 DEF Counts
    <3>2. FirstKeys(u, d)
      BY <1>1, <1>3, <1>5, <1>6, <2>1, <2>2, <3>1 DEF NextKeys
    <3>3. CASE v.cards = {} /\ v.ends = 0
      <4>1. viewed'[u][d].before = 0
        BY <1>3, <3>1, <3>2, <3>3, FS_EmptySet DEF FirstKeys
      <4>2. EndOf(d) <= viewed'[u][d].ends + 1
        BY <1>1, <1>5, <3>1
      <4>. QED BY <4>1, <4>2 DEF FirstKeys, EndOf
    <3>4. CASE EndOf(d) <= v.ends + 1
      <4>1. EndOf(d) <= clock + 1 /\ EndOf(d) <= viewed'[u][d].ends
        BY <1>1, <1>5, <1>6, <3>1, <3>4
      <4>2. Limited(viewed'[u][d].before)
        <5>1. viewed'[u][d].before = Cardinality(v.cards)
          BY <1>3, <1>6, <3>1, <3>2 DEF FirstKeys
        <5>. QED BY <1>3, <5>1 DEF EntInv, KeysOK
      <4>. QED BY <4>1, <4>2 DEF NextKeys, Limited, EndOf
    <3>. QED BY <1>3, <3>2, <3>3, <3>4 DEF FirstKeys
  <2>. QED BY <2>3, <2>4
<1>14. ASSUME NEW x \in User, NEW e \in Day
       PROVE  /\ Limited(Cardinality(viewed'[x][e].cards))
              /\ DayOf(clock') <= e => FirstKeys(x, e)' \/ NextKeys(x, e)'
  <2>1. CASE x = u /\ e = d
    BY <1>10, <1>12, <1>13, <2>1
  <2>2. CASE ~(x = u /\ e = d)
    BY <1>11, <2>2
  <2>. QED BY <2>1, <2>2
<1>. QED BY <1>10, <1>14 DEF KeysOK, Limited

\* A card is charged only below the limit the request carries, which an admin
\* has set.
LEMMA ConsumeInv ==
  ASSUME EntInv, NEW r \in Request, Consume(r)
  PROVE  EntInv'
<1>1. CASE UNCHANGED viewed
  <2>1. UNCHANGED <<clock, promo, tiers, viewed>> /\ (End(r, "served") \/ End(r, "refused"))
    BY <1>1 DEF Consume
  <2>. QED BY <2>1, EndStep DEF Ended
<1>2. CASE ~UNCHANGED viewed
  <2>1. /\ req[r].at = "consume" /\ req[r].item # "none" /\ End(r, "served")
        /\ UNCHANGED <<clock, promo, tiers>>
        /\ req[r].lim # Unlimited /\ Cardinality(Seen(r)) < req[r].lim /\ Charge(r)
    BY <1>2 DEF Consume
  <2>2. /\ RequestOK(r)' /\ req'[r] \in RequestRecord /\ req'[r].at \in Ended
        /\ \A q \in Request : q # r => req'[q] = req[q]
    BY <2>1, EndedOK DEF Ended
  <2>3. req[r].lim \in Limits /\ req[r].item \in Card
    BY <2>1 DEF EntInv, TypeInv, RequestOK, RequestRecord
  <2>4. viewed' \in [User -> [Day -> ViewRecord]] /\ KeysOK'
    BY <2>1, <2>3, ChargeKeys
  <2>5. TypeInv'
    <3>1. req' \in [Request -> RequestRecord]
      BY <2>1, <2>2 DEF EntInv, TypeInv, End, Put
    <3>. QED BY <2>1, <2>4, <3>1 DEF EntInv, TypeInv, promo, tiers, Forever
  <2>6. \A q \in Request : RequestOK(q)'
    BY <2>1, <2>2 DEF EntInv, RequestOK, Running, Version, promo, tiers, Forever
  <2>7. \A t \in Tier : CacheOK(t)'
    BY <2>1 DEF EntInv, CacheOK, Version, tiers
  <2>8. PromoOK'
    BY <2>1, <2>2 DEF EntInv, PromoOK, ActivationsMatchRedemptions, Holds, Ended, promo
  <2>. QED BY <2>4, <2>5, <2>6, <2>7, <2>8 DEF EntInv
<1>. QED BY <1>1, <1>2

\* The clock passes no running request's longest time.
LEMMA TickInv ==
  ASSUME EntInv, Tick
  PROVE  EntInv'
<1>1. /\ clock' = clock + 1 /\ clock < MaxClock /\ clock \in Nat /\ clock' \in 0..MaxClock
      /\ UNCHANGED <<req, promo, tiers, viewed>>
  BY EntitlementAssumption DEF Tick, EntInv, TypeInv
<1>2. TypeInv'
  BY <1>1 DEF EntInv, TypeInv, promo, tiers, Forever
<1>3. ASSUME NEW r \in Request PROVE RequestOK(r)'
  <2>1. RequestOK(r) /\ req[r].since \in Nat /\ MaxRequest \in Nat
    BY EntitlementAssumption DEF EntInv, TypeInv, RequestRecord
  <2>2. Running(r) => clock < req[r].since + MaxRequest
    BY DEF Tick
  <2>3. req'[r].since <= clock' /\ (Running(r)' => clock' <= req'[r].since + MaxRequest)
    BY <1>1, <2>1, <2>2 DEF RequestOK, Running
  <2>4. req'[r].at = "consume" => req'[r].now <= clock'
    <3>1. req[r].now \in Nat
      BY DEF EntInv, TypeInv, RequestRecord
    <3>. QED BY <1>1, <2>1, <3>1 DEF RequestOK
  <2>5. req' = req /\ tier' = tier /\ code' = code /\ redeemed' = redeemed
    BY <1>1 DEF promo, tiers
  <2>. QED BY <2>1, <2>3, <2>4, <2>5 DEF RequestOK, Version, Forever
<1>4. ASSUME NEW t \in Tier PROVE CacheOK(t)'
  <2>1. CacheOK(t) /\ cache[t] \in CacheRecord /\ TTL \in Nat
    BY EntitlementAssumption DEF EntInv, TypeInv
  <2>2. cache[t].ends \in Nat
    BY <2>1 DEF CacheRecord
  <2>3. cache' = cache /\ tier' = tier
    BY <1>1 DEF tiers
  <2>4. cache'[t].ends <= clock' + TTL
    BY <1>1, <2>1, <2>2, <2>3 DEF CacheOK
  <2>. QED BY <2>1, <2>3, <2>4 DEF CacheOK, Version
<1>5. PromoOK'
  BY <1>1 DEF EntInv, PromoOK, ActivationsMatchRedemptions, Holds, promo
<1>6. KeysOK'
  <2> SUFFICES ASSUME NEW u \in User, NEW d \in Day, DayOf(clock') <= d
               PROVE  FirstKeys(u, d)' \/ NextKeys(u, d)'
    BY <1>1 DEF EntInv, KeysOK, Limited
  <2>1. DayOf(clock) <= DayOf(clock') /\ DayOf(clock) \in Nat /\ DayOf(clock') \in Nat
    BY <1>1, DaysGrow, Midnights
  <2>2. FirstKeys(u, d) \/ NextKeys(u, d)
    BY <2>1 DEF EntInv, KeysOK, Day
  <2>3. EndOf(d) \in Int
    BY EntitlementAssumption DEF EndOf, Day
  <2>. QED BY <1>1, <2>2, <2>3 DEF FirstKeys, NextKeys, Limited, EndOf
<1>. QED BY <1>2, <1>3, <1>4, <1>5, <1>6 DEF EntInv

\* A step that changes nothing, and then any step.
LEMMA StutterEnt ==
  ASSUME EntInv, UNCHANGED vars
  PROVE  EntInv'
BY DEF EntInv, TypeInv, RequestOK, CacheOK, PromoOK, ActivationsMatchRedemptions, Holds,
       Running, Version, KeysOK, FirstKeys, NextKeys, Limited, EndOf, Forever, vars, promo,
       tiers

\* Every step keeps the invariant.
LEMMA NextEnt ==
  ASSUME EntInv, [Next]_vars
  PROVE  EntInv'
<1>1. CASE \E r \in Request, u \in User : BeginRedeem(r, u)
  BY <1>1, BeginRedeemInv
<1>2. CASE \E r \in Request, u \in User : \E ends \in {clock + 1, Forever} : Assign(r, u, ends)
  BY <1>2, AssignInv
<1>3. CASE \E r \in Request, u \in User : \E i \in Card \cup {"none"} : BeginView(r, u, i)
  BY <1>3, BeginViewInv
<1>4. CASE \E r \in Request : ReadCode(r) \/ Claim(r) \/ Apply(r) \/ CommitRedeem(r)
  BY <1>4, ReadCodeInv, ClaimInv, ApplyInv, CommitRedeemInv
<1>5. CASE \E r \in Request : KillUpdate(r) \/ CommitKill(r)
  BY <1>5, KillUpdateInv, CommitKillInv
<1>6. CASE \E r \in Request : \E t \in Edited, l \in Limits : Edit(r, t, l)
  BY <1>6, EditInv
<1>7. CASE \E r \in Request : CommitEdit(r) \/ ReadTier(r) \/ SetCache(r)
  BY <1>7, CommitEditInv, ReadTierInv, SetCacheInv
<1>8. CASE \E r \in Request : Consume(r)
  BY <1>8, ConsumeInv
<1>9. CASE \E r \in Request : Missing(r) \/ Abort(r)
  BY <1>9, EndStep DEF Missing, Abort, Ended
<1>10. CASE Tick
  BY <1>10, TickInv
<1>11. CASE Over \/ UNCHANGED vars
  BY <1>11, StutterEnt DEF Over
<1>. QED BY <1>1, <1>2, <1>3, <1>4, <1>5, <1>6, <1>7, <1>8, <1>9, <1>10, <1>11 DEF Next

\* The invariant holds in every state, however the handlers interleave.
THEOREM EntHolds == Spec => []EntInv
BY InitEnt, NextEnt, PTL DEF Spec

-----------------------------------------------------------------------------
(* What the invariant gives.                                                *)

\* A cached limit older than the committed one is bounded in time, and was
\* written by a request that outran the edit: no entry survives an edit.
LEMMA StalenessInv == EntInv => StalenessIsBounded
<1> SUFFICES ASSUME EntInv, NEW t \in Tier, Cached(t), cache[t].ver < Version(t)
             PROVE  /\ clock < tier[t].changed[cache[t].ver + 1] + TTL + MaxRequest
                    /\ cache[t].gen = tier[t].edits
  BY DEF StalenessIsBounded, StaleEntryEnds, StaleEntryOutran
<1>1. /\ clock \in Nat /\ cache[t] \in CacheRecord /\ CacheOK(t)
      /\ TTL \in Nat /\ MaxRequest \in Nat
  BY EntitlementAssumption DEF EntInv, TypeInv
<1>2. cache[t].ver \in Nat /\ cache[t].ends \in Nat
  BY <1>1 DEF CacheRecord
<1>3. clock < cache[t].ends /\ cache[t].ends # 0
  BY <1>1, <1>2 DEF Cached
<1>4. /\ cache[t].gen = tier[t].edits
      /\ cache[t].ends <= tier[t].changed[cache[t].ver + 1] + TTL + MaxRequest
  BY <1>3, <1>1 DEF CacheOK
<1>5. cache[t].ver + 1 \in 1..Version(t)
  BY <1>2, ChangedType DEF EntInv
<1>6. tier[t].changed[cache[t].ver + 1] \in Nat
  BY <1>5, ChangedType DEF EntInv
<1>. QED BY <1>1, <1>2, <1>3, <1>4, <1>6

\* The cache of tiers is wrong only by a race, and for no longer than an
\* entry and a request live (get_resolved_tier, update_tier).
THEOREM StalenessBounded == Spec => []StalenessIsBounded
BY EntHolds, StalenessInv, PTL

\* The invariant bounds the fields that the type invariant bounds.
LEMMA TypeFollows == EntInv => TypeOK
<1> SUFFICES ASSUME EntInv PROVE TypeOK
  OBVIOUS
<1>1. clock \in 0..MaxClock /\ clock \in Nat
  BY EntitlementAssumption DEF EntInv, TypeInv
<1>2. ASSUME NEW r \in Request
      PROVE  /\ req[r].at \in Steps /\ req[r].since \in 0..clock
             /\ req[r].user \in User \cup {"none"} /\ req[r].now \in 0..MaxClock
             /\ req[r].item \in Card \cup {"none"} /\ req[r].tier \in Tier
  <2>1. req[r] \in RequestRecord /\ req[r].since <= clock
    BY DEF EntInv, TypeInv, RequestOK
  <2>. QED BY <1>1, <2>1 DEF RequestRecord
<1>3. code \in [used : 0..MaxActivations, max : 1..MaxActivations,
                status : {"active", "redeemed", "disabled"}]
  <2>1. code \in [used : Nat, max : 1..MaxActivations,
                  status : {"active", "redeemed", "disabled"}]
        /\ code.used <= code.max /\ MaxActivations \in Nat
    BY EntitlementAssumption DEF EntInv, TypeInv, PromoOK, ActivationsMatchRedemptions
  <2>. QED BY <2>1
<1>4. ASSUME NEW t \in Tier
      PROVE  /\ tier[t].lim \in Limits \cup {Unlimited}
             /\ tier[t].changed \in Seq(0..MaxClock)
             /\ cache[t].ver \in 0..Len(tier[t].changed)
  <2>1. tier[t] \in TierRecord /\ cache[t] \in CacheRecord /\ cache[t].ver <= Version(t)
    BY DEF EntInv, TypeInv, CacheOK
  <2>2. Version(t) \in Nat
    BY ChangedType DEF EntInv
  <2>3. cache[t].ver \in Nat
    BY <2>1 DEF CacheRecord
  <2>4. tier[t].lim \in Limits \cup {Unlimited} /\ tier[t].changed \in Seq(0..MaxClock)
    BY <2>1 DEF TierRecord
  <2>. QED BY <2>1, <2>2, <2>3, <2>4 DEF Version
<1>5. viewed \in [User -> [Day -> [cards : SUBSET Card, ends : Nat, before : Nat]]]
  <2>1. ViewRecord \subseteq [cards : SUBSET Card, ends : Nat, before : Nat]
    BY DEF ViewRecord
  <2>. QED BY <2>1 DEF EntInv, TypeInv
<1>. QED BY <1>1, <1>2, <1>3, <1>4, <1>5 DEF TypeOK, EntInv, TypeInv

\* Every variable has its type in every state.
THEOREM EntitlementsTyped == Spec => []TypeOK
<1>1. EntInv => TypeOK
  BY TypeFollows
<1>. QED BY <1>1, EntHolds, PTL

\* Nobody commits a redemption of a killed code: the lock that the kill waited
\* for is the one a redemption holds from its claim to its commit.
LEMMA KilledStep ==
  ASSUME EntInv, Next
  PROVE  KilledStaysDead
<1> SUFFICES ASSUME batch = "disabled"
             PROVE  batch' = "disabled" /\ code'.status = "disabled" /\ redeemed' = redeemed
  BY DEF KilledStaysDead
<1>1. code.status = "disabled" /\ "status" \in DOMAIN code
  <2>1. PromoOK
    BY DEF EntInv
  <2>2. code \in [used : Nat, max : 1..MaxActivations,
                  status : {"active", "redeemed", "disabled"}]
    BY DEF EntInv, TypeInv
  <2>. QED BY <2>1, <2>2 DEF PromoOK
<1>2. CASE \E r \in Request : CommitRedeem(r)
  BY <1>1, <1>2 DEF CommitRedeem, EntInv, RequestOK
<1>3. CASE \E r \in Request : CommitKill(r)
  <2>1. /\ batch' = "disabled" /\ code' = [code EXCEPT !.status = "disabled"]
        /\ redeemed' = redeemed
    BY <1>3 DEF CommitKill
  <2>2. [code EXCEPT !.status = "disabled"].status = "disabled"
    BY <1>1
  <2>3. batch' = "disabled" /\ code'.status = "disabled" /\ redeemed' = redeemed
    BY <2>1, <2>2, Zenon
  <2>. QED BY <2>3, Zenon
<1>4. CASE UNCHANGED <<batch, code, redeemed>>
  BY <1>1, <1>4
<1> DEFINE Still == UNCHANGED <<batch, code, redeemed>>
<1>5. ASSUME NEW r \in Request, NEW u \in User
      PROVE  /\ BeginRedeem(r, u) => Still
             /\ \A ends \in {clock + 1, Forever} : Assign(r, u, ends) => Still
             /\ \A i \in Card \cup {"none"} : BeginView(r, u, i) => Still
  BY DEF BeginRedeem, Assign, BeginView, promo
<1>6. ASSUME NEW r \in Request, \/ ReadCode(r) \/ Claim(r) \/ Apply(r) \/ KillUpdate(r)
                               \/ CommitEdit(r) \/ ReadTier(r) \/ SetCache(r)
      PROVE  Still
  BY <1>6 DEF ReadCode, Claim, Apply, KillUpdate, CommitEdit, ReadTier, SetCache, promo
<1>7. ASSUME NEW r \in Request, Missing(r) \/ Consume(r) \/ Abort(r) PROVE Still
  BY <1>7 DEF Missing, Consume, Abort, promo
<1>8. ASSUME NEW r \in Request, NEW t \in Edited, NEW l \in Limits, Edit(r, t, l)
      PROVE  Still
  BY <1>8 DEF Edit, promo
<1>9. Tick \/ Over => Still
  BY DEF Tick, Over, promo, vars
<1> HIDE DEF Still
<1>10. \/ Still
       \/ \E r \in Request : CommitRedeem(r) \/ CommitKill(r)
  BY <1>5, <1>6, <1>7, <1>8, <1>9 DEF Next
<1>. QED BY <1>2, <1>3, <1>4, <1>10 DEF Still

\* What redeemers get is counted and never more than the code has, and a kill
\* is final (redeem, kill_batch).
THEOREM RedemptionsAreCounted == Spec => RedemptionsHold
<1>1. EntInv /\ EntInv' /\ [Next]_vars => [ActivationsMatchRedemptions' /\ KilledStaysDead]_vars
  <2>1. EntInv' => ActivationsMatchRedemptions'
    BY DEF EntInv, PromoOK
  <2>. QED BY <2>1, KilledStep
<1>. QED BY <1>1, EntHolds, PTL DEF Spec, RedemptionsHold

\* A view is refused only for a card that is not among those charged today,
\* whose keys count up to the last second of the day.
LEMMA OpenedStep ==
  ASSUME EntInv, [Next]_vars
  PROVE  OpenedStaysOpen
<1> SUFFICES ASSUME NEW r \in Request, req[r].at = "consume", req'[r].at = "refused",
                    DayKey(r) = DayOf(clock), ~LastSecond(clock)
             PROVE  req[r].item \notin viewed[req[r].user][DayKey(r)].cards
  BY DEF OpenedStaysOpen
<1>1. ASSUME NEW q \in Request, NEW s, Put(q, s), q # r PROVE FALSE
  BY <1>1, PutReq DEF EntInv
<1>2. ASSUME NEW q \in Request, NEW result, End(q, result), q # r PROVE FALSE
  BY <1>2, <1>1 DEF End
<1>3. ASSUME NEW result \in Ended, End(r, result) PROVE result = "refused"
  <2>1. PICK s \in RequestRecord : Put(r, s) /\ s.at = result
    BY <1>3, EndReq DEF EntInv
  <2>. QED BY <2>1, PutReq DEF EntInv
<1>4. Consume(r)
  <2>1. req' # req
    <3>1. req[r].at # req'[r].at
      OBVIOUS
    <3>. QED BY <3>1, Zenon
  <2>2. ASSUME NEW q \in Request, NEW u \in User
        PROVE  ~BeginRedeem(q, u) /\ (\A ends : ~Assign(q, u, ends)) /\ (\A i : ~BeginView(q, u, i))
    BY <1>1 DEF BeginRedeem, Assign, BeginView
  <2>3. ASSUME NEW q \in Request
        PROVE  ~(ReadCode(q) \/ Claim(q) \/ Apply(q) \/ CommitRedeem(q) \/ KillUpdate(q)
                 \/ CommitKill(q) \/ CommitEdit(q) \/ ReadTier(q) \/ SetCache(q))
    BY <1>1, <1>2 DEF ReadCode, Claim, Apply, CommitRedeem, KillUpdate, CommitKill,
       CommitEdit, ReadTier, SetCache
  <2>4. ASSUME NEW q \in Request PROVE \A t, l : ~Edit(q, t, l)
    BY <1>1 DEF Edit
  <2>5. ASSUME NEW q \in Request PROVE ~Missing(q) /\ ~Abort(q)
    BY <1>2, <1>3 DEF Missing, Abort, Ended
  <2>6. ASSUME NEW q \in Request, Consume(q) PROVE q = r
    BY <1>2, <2>6 DEF Consume
  <2>7. ~Tick /\ ~Over /\ ~UNCHANGED vars
    BY <2>1 DEF Tick, Over, vars
  <2>. QED BY <2>2, <2>3, <2>4, <2>5, <2>6, <2>7 DEF Next
<1>5. End(r, "served") => FALSE
  BY <1>3 DEF Ended
<1>6. req[r].item \notin Seen(r)
  BY <1>4, <1>5 DEF Consume
<1>7. PICK u \in User, d \in Day : u = req[r].user /\ d = DayKey(r) /\ d = DayOf(clock)
  <2>1. req[r].user \in User /\ clock \in 0..MaxClock
    BY DEF EntInv, TypeInv, RequestOK
  <2>. QED BY <2>1, DayType
<1>8. Counts(u, d) \/ viewed[u][d].cards = {}
  <2>1. clock \in Nat /\ Midnight(clock) = EndOf(d) /\ EndOf(d) \in Nat /\ clock < EndOf(d)
        /\ d \in Nat
    BY <1>7, Midnights, EntitlementAssumption DEF EntInv, TypeInv
  <2>2. EndOf(d) > clock + 1
    BY <2>1 DEF LastSecond
  <2>3. FirstKeys(u, d)
    BY <1>7, <2>1, <2>2 DEF EntInv, KeysOK, NextKeys
  <2>4. viewed[u][d].ends \in Nat
    BY DEF EntInv, TypeInv, ViewRecord
  <2>. QED BY <2>1, <2>2, <2>3, <2>4 DEF FirstKeys, Counts
<1>. QED BY <1>6, <1>7, <1>8 DEF Seen

\* A day's budget is a cap, that counts once more from the start in the day's
\* last second at most, and a card charged today is not refused before that
\* (consume_match_view).
THEOREM ViewsAreKept == Spec => ViewsHold
<1>1. EntInv /\ EntInv' /\ [Next]_vars => [DailyViewsBounded' /\ OpenedStaysOpen]_vars
  <2>1. EntInv' => DailyViewsBounded'
    <3>1. EntInv => DailyViewsBounded
      BY KeysBound DEF EntInv
    <3>. QED BY <3>1, PTL
  <2>. QED BY <2>1, OpenedStep
<1>. QED BY <1>1, EntHolds, PTL DEF Spec, ViewsHold
=============================================================================
