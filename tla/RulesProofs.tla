----------------------------- MODULE RulesProofs -----------------------------
(***************************************************************************)
(* Theorems about the parts that meet no other one.                        *)
(***************************************************************************)
EXTENDS LlmAnalysis, TelegramLink, RateLimits, TeamIdentity, ClientIdentity, BrowserSession,
        IdentityMigration, MatchCard, Backtest, FiniteSetTheorems, SequenceTheorems,
        WellFoundedInduction, TLAPS

-----------------------------------------------------------------------------
(* Paid analyses, for any requests, budgets, prices of a call and lengths  *)
(* of a day.                                                               *)

RequestRecord ==
  [at : {"idle", "check", "call", "charge", "expire", "commit"},
   now : 0..MaxClock, tokens : 0..MaxTokens]
KeyRecord == [n : Nat, ttl : {"no key", "none", "midnight"}]

LlmTypeInv ==
  /\ clock \in 0..MaxClock /\ config \in Config /\ cache \in 0..NotCached
  /\ key \in [Days -> KeyRecord]
  /\ req \in [Request -> RequestRecord] /\ \A r \in Request : req[r].now <= clock
  /\ journal \in [Days -> Nat] /\ charged \in [Days -> Nat]
  /\ calls \in 0..MaxCalls /\ died \in BOOLEAN

\* What a request may still cost a day: a call that is out, a check that may
\* let one out, and tokens that are charged and not in the journal.
Pays(s, d) == IF s.at \in {"call", "charge"} /\ DayOf(s.now) = d THEN 1 ELSE 0
Checks(s, d) == IF s.at = "check" /\ DayOf(s.now) = d THEN 1 ELSE 0
Owes(s, d) == IF s.at \in {"expire", "commit"} /\ DayOf(s.now) = d THEN s.tokens ELSE 0

Paying(d) == {r \in Request : req[r].at \in {"call", "charge"} /\ DayOf(req[r].now) = d}
Checking(d) == {r \in Request : req[r].at = "check" /\ DayOf(req[r].now) = d}
\* A sum as a number of pairs.
Owed(d) == {p \in Request \X (1..MaxTokens) : p[2] <= Owes(req[p[1]], d)}

Now == DayOf(clock)
InFlight == Cardinality(Request) * MaxTokens
Highest == CHOOSE b \in Budgets : \A c \in Budgets : c <= b

\* The journal and what it is owed are charged; a key without an expiry has a
\* request that is to set it, or lost the one that was.  A day's calls are
\* limited by its count as long as it lasts, and by its requests afterwards.
DayOK(d) ==
  /\ journal[d] + Cardinality(Owed(d)) <= charged[d]
  /\ key[d].ttl = "no key" => key[d].n = 0
  /\ key[d].ttl = "none" =>
       died \/ \E r \in Request : req[r].at = "expire" /\ DayOf(req[r].now) = d
  /\ Now <= d =>
       /\ key[d].n = charged[d]
       /\ charged[d] + MaxTokens * Cardinality(Paying(d)) < Highest + InFlight
  /\ d < Now =>
       /\ key[d].ttl # "midnight"
       /\ charged[d] + MaxTokens * (Cardinality(Paying(d)) + Cardinality(Checking(d)))
            < Highest + 2 * InFlight

LlmInv == LlmTypeInv /\ \A d \in Days : DayOK(d)

-----------------------------------------------------------------------------
(* Numbers.                                                                 *)

\* Every set of numbers that has one has a least one: the library's principle
\* for well-founded relations, on sets.
LEMMA LeastNumber ==
  ASSUME NEW T, T \subseteq Nat, T # {}
  PROVE  \E x \in T : \A y \in T : x <= y
<1> DEFINE R == OpToRel(<, Nat)
<1>1. R = {ss \in Nat \X Nat : ss[1] < ss[2]}
  BY DEF OpToRel
<1>2. IsWellFoundedOn(R, Nat)
  BY NatLessThanWellFounded
<1> HIDE DEF R
<1>3. PICK x \in T : \A y \in T : ~ (<<y, x>> \in R)
  BY <1>2, WFMin
<1>4. ASSUME NEW y \in T PROVE x <= y
  <2>1. <<y, x>> \in Nat \X Nat
    OBVIOUS
  <2>2. ~(y < x)
    BY <1>1, <1>3, <2>1
  <2>. QED BY <2>2
<1>. QED BY <1>4

\* And a bounded one has a greatest.
LEMMA GreatestNumber ==
  ASSUME NEW T, T \subseteq Nat, T # {}, NEW n \in Nat, \A x \in T : x <= n
  PROVE  \E x \in T : \A y \in T : y <= x
<1> DEFINE Down == {n - x : x \in T}
<1>1. Down \subseteq Nat /\ Down # {}
  <2>1. \A x \in T : n - x \in Nat
    OBVIOUS
  <2>2. Down \subseteq Nat
    BY <2>1
  <2>3. Down # {}
    OBVIOUS
  <2>. QED BY <2>2, <2>3
<1>2. PICK d \in Down : \A e \in Down : d <= e
  BY <1>1, LeastNumber
<1>3. PICK x \in T : d = n - x
  OBVIOUS
<1>4. ASSUME NEW y \in T PROVE y <= x
  <2>1. n - y \in Down
    OBVIOUS
  <2>. QED BY <1>2, <1>3, <2>1
<1>. QED BY <1>4

\* Of finitely many budgets one is the highest.
LEMMA HighestBudget == Highest \in Budgets /\ \A c \in Budgets : c <= Highest
<1> DEFINE Above == {Cardinality({c \in Budgets : b < c}) : b \in Budgets}
<1>1. \A b \in Budgets : /\ IsFiniteSet({c \in Budgets : b < c})
                         /\ Cardinality({c \in Budgets : b < c}) \in Nat
  BY LlmAssumption, FS_Subset, FS_CardinalityType
<1>2. Above \subseteq Nat /\ Above # {}
  BY <1>1, LlmAssumption
<1>3. PICK x \in Above : \A y \in Above : x <= y
  BY <1>2, LeastNumber
<1>4. PICK b \in Budgets : x = Cardinality({c \in Budgets : b < c})
  OBVIOUS
<1>5. ASSUME NEW c \in Budgets, b < c PROVE FALSE
  <2> DEFINE B == {e \in Budgets : b < e}
             C == {e \in Budgets : c < e}
  <2>1. b \in Nat /\ c \in Nat /\ Budgets \subseteq Nat
    BY LlmAssumption
  <2>2. C \subseteq B /\ c \in B /\ c \notin C
    <3>1. \A e \in Budgets : c < e => b < e
      BY <1>5, <2>1
    <3>2. ~ (c < c)
      BY <2>1
    <3>. QED BY <1>5, <3>1, <3>2
  <2>3. Cardinality(C) < Cardinality(B)
    BY <1>1, <2>2, FS_Subset
  <2>4. Cardinality(C) \in Nat /\ Cardinality(B) \in Nat
    BY <1>1
  <2>5. Cardinality(C) \in Above
    OBVIOUS
  <2>6. x <= Cardinality(C)
    BY <1>3, <2>5
  <2>. QED BY <1>4, <2>3, <2>4, <2>6
<1>6. \A c \in Budgets : c <= b
  <2>1. b \in Nat /\ Budgets \subseteq Nat
    BY LlmAssumption
  <2>. QED BY <1>5, <2>1
<1>. QED BY <1>6 DEF Highest

\* Sets that differ in one element at most.
LEMMA OneMoves ==
  ASSUME NEW S, NEW T, IsFiniteSet(S), NEW x, S \ {x} = T \ {x}
  PROVE  /\ IsFiniteSet(T) /\ Cardinality(S) \in Nat /\ Cardinality(T) \in Nat
         /\ Cardinality(T) = Cardinality(S) - (IF x \in S THEN 1 ELSE 0)
                                            + (IF x \in T THEN 1 ELSE 0)
<1> DEFINE U == S \ {x}
<1>1. IsFiniteSet(U) /\ x \notin U /\ Cardinality(U) \in Nat
  BY FS_Subset, FS_CardinalityType
<1>2. IsFiniteSet(U \cup {x}) /\ Cardinality(U \cup {x}) = Cardinality(U) + 1
  BY <1>1, FS_AddElement
<1>3. S = IF x \in S THEN U \cup {x} ELSE U
  OBVIOUS
<1>4. T = IF x \in T THEN U \cup {x} ELSE U
  OBVIOUS
<1> HIDE DEF U
<1>5. Cardinality(S) = Cardinality(U) + (IF x \in S THEN 1 ELSE 0)
  BY <1>2, <1>3, <1>1
<1>6. Cardinality(T) = Cardinality(U) + (IF x \in T THEN 1 ELSE 0)
  BY <1>2, <1>4, <1>1
<1>7. IsFiniteSet(T)
  <2>1. CASE x \in T
    BY <1>2, <1>4, <2>1
  <2>2. CASE x \notin T
    BY <1>1, <1>4, <2>2
  <2>. QED BY <2>1, <2>2
<1>. QED BY <1>1, <1>5, <1>6, <1>7

\* The day of a time has a key, and days follow one another as times do.
LEMMA LlmDays ==
  ASSUME NEW t \in 0..MaxClock
  PROVE  /\ DayOf(t) \in Days /\ DayOf(t) \in Nat
         /\ \A s \in 0..MaxClock : s <= t => DayOf(s) <= DayOf(t)
<1>1. ASSUME NEW a \in Nat, NEW b \in Nat, a <= b
      PROVE  DayOf(a) \in Nat /\ DayOf(b) \in Nat /\ DayOf(a) <= DayOf(b)
  <2>1. /\ a \div DayLength \in Nat /\ a % DayLength \in 0..(DayLength - 1)
        /\ a = DayLength * (a \div DayLength) + (a % DayLength)
        /\ b \div DayLength \in Nat /\ b % DayLength \in 0..(DayLength - 1)
        /\ b = DayLength * (b \div DayLength) + (b % DayLength)
    BY LlmAssumption
  <2>2. ASSUME NEW p \in Nat, NEW q \in Nat, NEW D \in Nat, q < p PROVE D * q + D <= D * p
    BY <2>2
  <2>3. CASE b \div DayLength < a \div DayLength
    <3>1. DayLength * (b \div DayLength) + DayLength <= DayLength * (a \div DayLength)
      BY <2>1, <2>2, <2>3, LlmAssumption
    <3>2. DayLength * (b \div DayLength) \in Nat /\ DayLength * (a \div DayLength) \in Nat
      BY <2>1, LlmAssumption
    <3>. QED BY <1>1, <2>1, <3>1, <3>2, LlmAssumption
  <2>. QED BY <2>1, <2>3 DEF DayOf
<1>2. t \in Nat /\ MaxClock \in Nat /\ t <= MaxClock
  BY LlmAssumption
<1>. QED BY <1>1, <1>2 DEF Days

\* What a day is still to pay moves with the request that moves.
LEMMA RequestMoves ==
  ASSUME LlmTypeInv, NEW r \in Request, NEW s \in RequestRecord,
         req' = [req EXCEPT ![r] = s], NEW d \in Days
  PROVE  /\ Cardinality(Paying(d)') = Cardinality(Paying(d)) - Pays(req[r], d) + Pays(s, d)
         /\ Cardinality(Checking(d)') = Cardinality(Checking(d)) - Checks(req[r], d) + Checks(s, d)
         /\ Cardinality(Owed(d)') = Cardinality(Owed(d)) - Owes(req[r], d) + Owes(s, d)
         /\ Cardinality(Paying(d)) \in Nat /\ Cardinality(Checking(d)) \in Nat
         /\ Cardinality(Owed(d)) \in Nat
         /\ Cardinality(Paying(d)') \in Nat /\ Cardinality(Checking(d)') \in Nat
         /\ Cardinality(Owed(d)') \in Nat
<1>1. /\ req'[r] = s /\ \A q \in Request \ {r} : req'[q] = req[q]
      /\ req[r] \in RequestRecord
  BY DEF LlmTypeInv
<1>2. IsFiniteSet(Request) /\ MaxTokens \in Nat
  BY LlmAssumption
<1>3. /\ Cardinality(Paying(d)') = Cardinality(Paying(d)) - Pays(req[r], d) + Pays(s, d)
      /\ Cardinality(Paying(d)) \in Nat /\ Cardinality(Paying(d)') \in Nat
  <2>0. IsFiniteSet(Paying(d)) /\ Paying(d) \ {r} = Paying(d)' \ {r}
    BY <1>1, <1>2, FS_Subset DEF Paying
  <2>1. /\ Cardinality(Paying(d)) \in Nat /\ Cardinality(Paying(d)') \in Nat
        /\ Cardinality(Paying(d)') = Cardinality(Paying(d)) - (IF r \in Paying(d) THEN 1 ELSE 0)
                                   + (IF r \in Paying(d)' THEN 1 ELSE 0)
    BY <2>0, OneMoves
  <2>2. (IF r \in Paying(d) THEN 1 ELSE 0) = Pays(req[r], d)
    BY DEF Paying, Pays
  <2>3. (IF r \in Paying(d)' THEN 1 ELSE 0) = Pays(s, d)
    BY <1>1 DEF Paying, Pays
  <2>. QED BY <2>1, <2>2, <2>3
<1>4. /\ Cardinality(Checking(d)') = Cardinality(Checking(d)) - Checks(req[r], d) + Checks(s, d)
      /\ Cardinality(Checking(d)) \in Nat /\ Cardinality(Checking(d)') \in Nat
  <2>0. IsFiniteSet(Checking(d)) /\ Checking(d) \ {r} = Checking(d)' \ {r}
    BY <1>1, <1>2, FS_Subset DEF Checking
  <2>1. /\ Cardinality(Checking(d)) \in Nat /\ Cardinality(Checking(d)') \in Nat
        /\ Cardinality(Checking(d)') = Cardinality(Checking(d)) - (IF r \in Checking(d) THEN 1 ELSE 0)
                                   + (IF r \in Checking(d)' THEN 1 ELSE 0)
    BY <2>0, OneMoves
  <2>2. (IF r \in Checking(d) THEN 1 ELSE 0) = Checks(req[r], d)
    BY DEF Checking, Checks
  <2>3. (IF r \in Checking(d)' THEN 1 ELSE 0) = Checks(s, d)
    BY <1>1 DEF Checking, Checks
  <2>. QED BY <2>1, <2>2, <2>3
<1>5. /\ Cardinality(Owed(d)') = Cardinality(Owed(d)) - Owes(req[r], d) + Owes(s, d)
      /\ Cardinality(Owed(d)) \in Nat /\ Cardinality(Owed(d)') \in Nat
  <2> DEFINE Own == {r} \X (1..Owes(req[r], d))
             New == {r} \X (1..Owes(s, d))
             Rest == Owed(d) \ Own
  <2>1. Owes(req[r], d) \in 0..MaxTokens /\ Owes(s, d) \in 0..MaxTokens
    BY <1>1, <1>2 DEF Owes, RequestRecord
  <2>2. IsFiniteSet(Owed(d))
    <3>1. IsFiniteSet(Request \X (1..MaxTokens))
      <4>1. IsFiniteSet(1..MaxTokens)
        BY <1>2, FS_Interval
      <4>. QED BY <1>2, <4>1, FS_Product
    <3>2. Owed(d) \subseteq Request \X (1..MaxTokens)
      BY DEF Owed
    <3>. QED BY <3>1, <3>2, FS_Subset
  <2>3. ASSUME NEW n \in 0..MaxTokens
        PROVE  IsFiniteSet({r} \X (1..n)) /\ Cardinality({r} \X (1..n)) = n
    <3>1. IsFiniteSet(1..n) /\ Cardinality(1..n) = n
      BY <1>2, FS_Interval
    <3>2. IsFiniteSet({r}) /\ Cardinality({r}) = 1
      BY FS_Singleton
    <3>3. /\ IsFiniteSet({r} \X (1..n))
          /\ Cardinality({r} \X (1..n)) = Cardinality({r}) * Cardinality(1..n)
      BY <3>1, <3>2, FS_Product
    <3>. QED BY <1>2, <3>1, <3>2, <3>3
  <2>4. Own \subseteq Request \X (1..MaxTokens) /\ New \subseteq Request \X (1..MaxTokens)
    <3>1. 1..Owes(req[r], d) \subseteq 1..MaxTokens /\ 1..Owes(s, d) \subseteq 1..MaxTokens
      BY <1>2, <2>1
    <3>. QED BY <3>1
  <2>5. ASSUME NEW q \in Request, NEW n \in 1..MaxTokens
        PROVE  /\ <<q, n>> \in Owed(d) <=> n <= Owes(req[q], d)
               /\ <<q, n>> \in Owed(d)' <=> n <= Owes(req'[q], d)
               /\ <<q, n>> \in Own <=> q = r /\ n <= Owes(req[r], d)
               /\ <<q, n>> \in New <=> q = r /\ n <= Owes(s, d)
    <3>1. <<q, n>> \in Owed(d) <=> n <= Owes(req[q], d)
      BY DEF Owed
    <3>2. <<q, n>> \in Owed(d)' <=> n <= Owes(req'[q], d)
      BY DEF Owed, Owes
    <3>3. n \in 1..Owes(req[r], d) <=> n <= Owes(req[r], d)
      BY <1>2, <2>1
    <3>4. n \in 1..Owes(s, d) <=> n <= Owes(s, d)
      BY <1>2, <2>1
    <3>. QED BY <3>1, <3>2, <3>3, <3>4
  <2>6. Owed(d) \subseteq Request \X (1..MaxTokens) /\ Owed(d)' \subseteq Request \X (1..MaxTokens)
    BY DEF Owed
  <2> HIDE DEF Own, New
  <2>7. Owed(d) = Rest \cup Own /\ Rest \cap Own = {}
    <3>1. Own \subseteq Owed(d)
      BY <2>4, <2>5
    <3>. QED BY <3>1
  <2>8. Owed(d)' = Rest \cup New /\ Rest \cap New = {}
    <3>1. ASSUME NEW q \in Request, NEW n \in 1..MaxTokens
          PROVE  /\ <<q, n>> \in Owed(d)' <=> <<q, n>> \in Rest \/ <<q, n>> \in New
                 /\ ~ (<<q, n>> \in Rest /\ <<q, n>> \in New)
      <4>1. CASE q = r
        BY <1>1, <2>5, <4>1
      <4>2. CASE q # r
        BY <1>1, <2>5, <4>2
      <4>. QED BY <4>1, <4>2
    <3>2. Rest \subseteq Request \X (1..MaxTokens)
      BY <2>6
    <3> HIDE DEF Rest
    <3>. QED BY <2>4, <2>6, <3>1, <3>2
  <2>9. /\ IsFiniteSet(Own) /\ Cardinality(Own) = Owes(req[r], d)
        /\ IsFiniteSet(New) /\ Cardinality(New) = Owes(s, d)
    BY <2>1, <2>3 DEF Own, New
  <2>10. IsFiniteSet(Rest) /\ Cardinality(Rest) \in Nat /\ Cardinality({}) = 0
    BY <2>2, FS_Subset, FS_CardinalityType, FS_EmptySet
  <2> HIDE DEF Rest
  <2>11. Cardinality(Rest \cup Own) = Cardinality(Rest) + Cardinality(Own) - Cardinality({})
    BY <2>7, <2>9, <2>10, FS_Union
  <2>12. Cardinality(Rest \cup New) = Cardinality(Rest) + Cardinality(New) - Cardinality({})
    BY <2>8, <2>9, <2>10, FS_Union
  <2>13. /\ Cardinality(Owed(d)) = Cardinality(Rest) + Owes(req[r], d)
         /\ Cardinality(Owed(d)') = Cardinality(Rest) + Owes(s, d)
    BY <1>2, <2>1, <2>7, <2>8, <2>9, <2>10, <2>11, <2>12
  <2>. QED BY <1>2, <2>1, <2>10, <2>13
<1>. QED BY <1>3, <1>4, <1>5

-----------------------------------------------------------------------------
(* The steps of the requests.                                               *)

LEMMA MoreCostsMore ==
  ASSUME NEW a \in Nat, NEW b \in Nat, a <= b
  PROVE  MaxTokens * a <= MaxTokens * b /\ MaxTokens * a \in Nat /\ MaxTokens * b \in Nat
<1>1. \A m, x, y \in Nat : x <= y => m * x <= m * y /\ m * x \in Nat /\ m * y \in Nat
  OBVIOUS
<1>. QED BY <1>1, LlmAssumption

\* The day's bound is made of constants.
LEMMA BoundStays == Highest' = Highest /\ InFlight' = InFlight
  BY DEF Highest, InFlight

\* The numbers of the day's bound.
LEMMA BoundTypes ==
  /\ Highest \in Nat /\ InFlight \in Nat /\ InFlight >= 1
  /\ InFlight = MaxTokens * Cardinality(Request) /\ Cardinality(Request) \in Nat
<1>1. Cardinality(Request) \in Nat /\ Cardinality(Request) >= 1
  <2>1. Cardinality(Request) \in Nat /\ Cardinality(Request) # 0
    BY LlmAssumption, FS_EmptySet, FS_CardinalityType
  <2>. QED BY <2>1
<1>2. \A a, b \in Nat \ {0} : a * b = b * a /\ a * b \in Nat /\ a * b >= 1
  OBVIOUS
<1>3. Highest \in Nat
  BY HighestBudget, LlmAssumption
<1>4. Cardinality(Request) \in Nat \ {0} /\ MaxTokens \in Nat \ {0}
  BY <1>1, LlmAssumption
<1>. QED BY <1>2, <1>3, <1>4 DEF InFlight

\* A step of a request keeps the types.
LEMMA TypesKept ==
  ASSUME LlmTypeInv, NEW r \in Request, NEW s \in RequestRecord, s.now <= clock,
         req' = [req EXCEPT ![r] = s], UNCHANGED <<clock, config>>,
         cache' \in 0..NotCached, key' \in [Days -> KeyRecord], journal' \in [Days -> Nat],
         charged' \in [Days -> Nat], calls' \in 0..MaxCalls, died' \in BOOLEAN
  PROVE  LlmTypeInv'
BY DEF LlmTypeInv

\* What a day has counted stays, and what it may still count does not grow.
LEMMA DayKept ==
  ASSUME LlmTypeInv, NEW d \in Days, DayOK(d), NEW r \in Request, NEW s \in RequestRecord,
         req' = [req EXCEPT ![r] = s],
         clock' = clock, key'[d] = key[d], journal'[d] = journal[d], charged'[d] = charged[d],
         died => died',
         req[r].at = "expire" /\ DayOf(req[r].now) = d => died',
         Owes(s, d) <= Owes(req[r], d),
         Now <= d => Pays(s, d) <= Pays(req[r], d),
         d < Now => Pays(s, d) + Checks(s, d) <= Pays(req[r], d) + Checks(req[r], d)
  PROVE  DayOK(d)'
<1> DEFINE P == Cardinality(Paying(d))
           C == Cardinality(Checking(d))
           O == Cardinality(Owed(d))
<1>1. PICK p, c, o \in Nat : /\ p = Cardinality(Paying(d)') /\ p = P - Pays(req[r], d) + Pays(s, d)
                             /\ c = Cardinality(Checking(d)')
                             /\ c = C - Checks(req[r], d) + Checks(s, d)
                             /\ o = Cardinality(Owed(d)') /\ o = O - Owes(req[r], d) + Owes(s, d)
                             /\ P \in Nat /\ C \in Nat /\ O \in Nat
  BY RequestMoves
<1>2. /\ journal[d] \in Nat /\ charged[d] \in Nat /\ key[d] \in KeyRecord /\ Now \in Nat /\ d \in Nat
      /\ req[r] \in RequestRecord
  BY LlmDays DEF LlmTypeInv, Now, Days
<1>3. /\ Pays(s, d) \in Nat /\ Pays(req[r], d) \in Nat /\ Checks(s, d) \in Nat
      /\ Checks(req[r], d) \in Nat /\ Owes(s, d) \in Nat /\ Owes(req[r], d) \in Nat
  BY <1>2, LlmAssumption DEF Pays, Checks, Owes, RequestRecord
<1>4. Now' = Now
  BY DEF Now
<1>5. journal[d] + o <= charged[d]
  <2>1. journal[d] + O <= charged[d]
    BY DEF DayOK
  <2> HIDE DEF P, C, O
  <2>. QED BY <1>1, <1>2, <1>3, <2>1
<1>6. key[d].ttl = "none" =>
        died' \/ \E q \in Request : req'[q].at = "expire" /\ DayOf(req'[q].now) = d
  <2> SUFFICES ASSUME key[d].ttl = "none", ~ died'
               PROVE  \E q \in Request : req'[q].at = "expire" /\ DayOf(req'[q].now) = d
    OBVIOUS
  <2>1. PICK q \in Request : req[q].at = "expire" /\ DayOf(req[q].now) = d
    BY DEF DayOK
  <2>2. q # r
    BY <2>1
  <2>. QED BY <2>1, <2>2 DEF LlmTypeInv
<1>7. ASSUME Now <= d
      PROVE  charged[d] + MaxTokens * p < Highest + InFlight
  <2>1. MaxTokens * p <= MaxTokens * P /\ MaxTokens * p \in Nat /\ MaxTokens * P \in Nat
    BY <1>1, <1>3, <1>7, MoreCostsMore
  <2>2. charged[d] + MaxTokens * P < Highest + InFlight
    BY <1>7 DEF DayOK
  <2> HIDE DEF P
  <2>. QED BY <1>2, <2>1, <2>2, BoundTypes
<1>8. ASSUME d < Now
      PROVE  charged[d] + MaxTokens * (p + c) < Highest + 2 * InFlight
  <2>1. p + c \in Nat /\ P + C \in Nat /\ p + c <= P + C
    BY <1>1, <1>3, <1>8
  <2>2. /\ MaxTokens * (p + c) <= MaxTokens * (P + C) /\ MaxTokens * (p + c) \in Nat
        /\ MaxTokens * (P + C) \in Nat
    BY <2>1, MoreCostsMore
  <2>3. charged[d] + MaxTokens * (P + C) < Highest + 2 * InFlight
    BY <1>8 DEF DayOK
  <2> HIDE DEF P, C
  <2>. QED BY <1>2, <2>2, <2>3, BoundTypes
<1> HIDE DEF P, C, O
<1>. QED BY <1>1, <1>4, <1>5, <1>6, <1>7, <1>8 DEF DayOK, InFlight, Highest

\* A request begins: it may pay for its own day only.
LEMMA GetAnalysisInv ==
  ASSUME LlmInv, NEW r \in Request, GetAnalysis(r)
  PROVE  LlmInv'
<1> DEFINE a == [Idle EXCEPT !.at = "check"]
           s == [Idle EXCEPT !.at = "check", !.now = clock]
<1>1. /\ req[r].at = "idle" /\ req' = [req EXCEPT ![r] = s]
      /\ UNCHANGED <<clock, config, cache, key, journal, charged, calls, died>>
  BY DEF GetAnalysis, SetRequest, history
<1>2. s \in RequestRecord /\ s.at = "check" /\ s.now = clock /\ s.now <= clock
  <2>1. s = [a EXCEPT !.now = clock]
    BY DEF Idle
  <2>2. a = [at |-> "check", now |-> 0, tokens |-> 0]
    BY DEF Idle
  <2> HIDE DEF a, s
  <2>3. s = [at |-> "check", now |-> clock, tokens |-> 0]
    BY <2>1, <2>2
  <2>. QED BY <2>3, LlmAssumption DEF LlmInv, LlmTypeInv, RequestRecord
<1> HIDE DEF s
<1>3. LlmTypeInv'
  BY <1>1, <1>2, TypesKept DEF LlmInv, LlmTypeInv
<1>4. ASSUME NEW d \in Days PROVE DayOK(d)'
  <2>1. /\ Owes(s, d) = 0 /\ Owes(req[r], d) = 0 /\ Pays(s, d) = 0 /\ Pays(req[r], d) = 0
        /\ Checks(req[r], d) = 0
        /\ d < Now => Checks(s, d) = 0
    <3>1. Now \in Nat /\ d \in Nat
      BY LlmDays DEF LlmInv, LlmTypeInv, Now, Days
    <3>. QED BY <1>1, <1>2, <3>1 DEF Owes, Pays, Checks, Now
  <2>2. /\ Owes(s, d) <= Owes(req[r], d)
        /\ Now <= d => Pays(s, d) <= Pays(req[r], d)
        /\ d < Now => Pays(s, d) + Checks(s, d) <= Pays(req[r], d) + Checks(req[r], d)
    BY <2>1
  <2>. QED BY <1>1, <1>2, <2>2, DayKept DEF LlmInv
<1>. QED BY <1>3, <1>4 DEF LlmInv

\* A request that ends, or whose call is answered, has no more to pay.
LEMMA LessToPay ==
  ASSUME LlmInv, NEW r \in Request, NEW s \in RequestRecord, s.now <= clock,
         req' = [req EXCEPT ![r] = s],
         UNCHANGED <<clock, config, cache, key, journal, charged, calls>>,
         died' = (died \/ req[r].at = "expire"),
         s.at = "idle" \/ (req[r].at = "call" /\ s.at = "charge" /\ s.now = req[r].now)
  PROVE  LlmInv'
<1>1. LlmTypeInv'
  BY TypesKept DEF LlmInv, LlmTypeInv
<1>2. ASSUME NEW d \in Days PROVE DayOK(d)'
  <2>1. req[r] \in RequestRecord
    BY DEF LlmInv, LlmTypeInv
  <2>2. /\ Owes(s, d) <= Owes(req[r], d) /\ Pays(s, d) <= Pays(req[r], d)
        /\ Pays(s, d) + Checks(s, d) <= Pays(req[r], d) + Checks(req[r], d)
    BY <2>1, LlmAssumption DEF Owes, Pays, Checks, RequestRecord
  <2>. QED BY <2>2, DayKept DEF LlmInv
<1>. QED BY <1>1, <1>2 DEF LlmInv

\* A request takes its next step.
LEMMA GoesTo ==
  ASSUME LlmTypeInv, NEW r \in Request, NEW step \in {"call", "charge", "commit", "expire"},
         NEW s, s = [req[r] EXCEPT !.at = step]
  PROVE  /\ s \in RequestRecord /\ s.at = step /\ s.now = req[r].now /\ s.now <= clock
         /\ s.now \in 0..MaxClock /\ s.tokens = req[r].tokens
<1>1. req[r] \in RequestRecord /\ req[r].now <= clock
  BY DEF LlmTypeInv
<1>. QED BY <1>1 DEF RequestRecord

\* Its call goes out, and will use so many tokens.
LEMMA CallsOut ==
  ASSUME LlmTypeInv, NEW r \in Request, NEW n \in 0..MaxTokens,
         NEW s, s = [req[r] EXCEPT !.at = "call", !.tokens = n]
  PROVE  /\ s \in RequestRecord /\ s.at = "call" /\ s.now = req[r].now /\ s.now <= clock
         /\ s.now \in 0..MaxClock
<1> DEFINE a == [req[r] EXCEPT !.at = "call"]
<1>1. /\ a \in RequestRecord /\ a.at = "call" /\ a.now = req[r].now /\ a.now <= clock
      /\ a.now \in 0..MaxClock
  <2>1. "call" \in {"call", "charge", "commit", "expire"}
    OBVIOUS
  <2>. QED BY <2>1, GoesTo
<1>2. s = [a EXCEPT !.tokens = n]
  BY DEF LlmTypeInv, RequestRecord
<1> HIDE DEF a
<1>. QED BY <1>1, <1>2 DEF RequestRecord

\* A call goes out while the count of its day is below the budget of the
\* moment.  On its own day that count is all that was charged; a call of an
\* earlier day takes the place of its check.
LEMMA CheckBudgetInv ==
  ASSUME LlmInv, NEW r \in Request, NEW n \in 0..MaxTokens, CheckBudget(r, n)
  PROVE  LlmInv'
<1> DEFINE s == [req[r] EXCEPT !.at = "call", !.tokens = n]
           e == BudgetKey(r)
<1>1. req[r].at = "check" /\ UNCHANGED <<clock, config, cache, key, journal, charged, died>>
  BY Zenon DEF CheckBudget
<1>2. CASE Spent(e)
  <2>1. req' = [req EXCEPT ![r] = Idle] /\ calls' = calls
    BY <1>2 DEF CheckBudget, SetRequest
  <2>2. Idle \in RequestRecord /\ Idle.at = "idle" /\ Idle.now <= clock
    BY LlmAssumption DEF Idle, RequestRecord, LlmInv, LlmTypeInv
  <2>3. died' = (died \/ req[r].at = "expire")
    BY <1>1 DEF LlmInv, LlmTypeInv
  <2>. QED BY <1>1, <2>1, <2>2, <2>3, LessToPay
<1>3. CASE ~ Spent(e)
  <2>1. req' = [req EXCEPT ![r] = s] /\ calls < MaxCalls /\ calls' = calls + 1
    BY <1>3 DEF CheckBudget, SetRequest
  <2>2. /\ s \in RequestRecord /\ s.at = "call" /\ s.now = req[r].now /\ s.now <= clock
        /\ s.now \in 0..MaxClock
    <3>1. LlmTypeInv /\ s = [req[r] EXCEPT !.at = "call", !.tokens = n]
      BY DEF LlmInv
    <3> HIDE DEF s
    <3>. QED BY <3>1, CallsOut
  <2> HIDE DEF s
  <2>3. LlmTypeInv'
    <3>1. calls' \in 0..MaxCalls
      BY <2>1, LlmAssumption DEF LlmInv, LlmTypeInv
    <3>. QED BY <1>1, <2>1, <2>2, <3>1, TypesKept DEF LlmInv, LlmTypeInv
  <2>4. /\ e \in Days /\ e = DayOf(req[r].now) /\ e \in Nat /\ Now \in Nat /\ e <= Now
    BY <2>2, LlmDays DEF BudgetKey, Now, LlmInv, LlmTypeInv
  <2>5. ASSUME NEW d \in Days PROVE DayOK(d)'
    <3>1. /\ Owes(s, d) = 0 /\ Owes(req[r], d) = 0 /\ Pays(req[r], d) = 0
          /\ Checks(s, d) = 0 /\ Pays(s, d) = Checks(req[r], d) /\ Pays(s, d) \in {0, 1}
          /\ d # e => Pays(s, d) = 0
      BY <1>1, <2>2, <2>4 DEF Owes, Pays, Checks
    <3>2. CASE d # e \/ e < Now
      <4>1. /\ Owes(s, d) <= Owes(req[r], d)
            /\ Now <= d => Pays(s, d) <= Pays(req[r], d)
            /\ d < Now => Pays(s, d) + Checks(s, d) <= Pays(req[r], d) + Checks(req[r], d)
        BY <2>4, <3>1, <3>2
      <4>. QED BY <1>1, <2>1, <2>2, <4>1, DayKept DEF LlmInv
    <3>3. CASE d = e /\ e = Now
      <4>1. DayOK(d) /\ key[d].n = charged[d] /\ charged[d] < Highest
        <5>1. key[d].n < config.budget /\ config.budget \in Budgets
          <6>1. config.budget \in Budgets
            BY DEF LlmInv, LlmTypeInv, Config
          <6>2. key[d] \in KeyRecord
            BY DEF LlmInv, LlmTypeInv
          <6>3. ~ (key[d].n >= config.budget)
            BY <1>3, <3>3 DEF Spent, Used
          <6>4. key[d].n \in Nat
            BY <6>2 DEF KeyRecord
          <6>5. config.budget \in Nat
            BY <6>1, LlmAssumption
          <6>6. \A x, y \in Nat : ~ (x >= y) => x < y
            OBVIOUS
          <6>. QED BY <6>1, <6>3, <6>4, <6>5, <6>6
        <5>2. DayOK(d) /\ key[d].n = charged[d] /\ charged[d] \in Nat
          BY <2>4, <3>3 DEF LlmInv, DayOK, LlmTypeInv
        <5>3. charged[d] < config.budget /\ config.budget \in Nat /\ config.budget <= Highest
          BY <5>1, <5>2, HighestBudget, LlmAssumption
        <5>4. Highest \in Nat
          BY BoundTypes
        <5>5. \A x, y, z \in Nat : x < y /\ y <= z => x < z
          OBVIOUS
        <5>6. charged[d] < Highest
          BY <5>2, <5>3, <5>4, <5>5
        <5>7. DayOK(d) /\ key[d].n = charged[d]
          BY <5>2
        <5>. QED BY <5>6, <5>7
      <4>2. PICK p, o \in Nat : /\ p = Cardinality(Paying(d)') /\ o = Cardinality(Owed(d)')
                                /\ o = Cardinality(Owed(d))
        <5>1. /\ Cardinality(Paying(d)') \in Nat /\ Cardinality(Owed(d)') \in Nat
              /\ Cardinality(Owed(d)') = Cardinality(Owed(d)) - Owes(req[r], d) + Owes(s, d)
              /\ Cardinality(Owed(d)) \in Nat
          BY <2>1, <2>2, RequestMoves DEF LlmInv
        <5>2. Cardinality(Owed(d)') = Cardinality(Owed(d))
          BY <3>1, <5>1
        <5>. QED BY <5>1, <5>2
      <4>3. p <= Cardinality(Request)
        <5>1. Paying(d)' \subseteq Request
          BY DEF Paying
        <5>. QED BY <4>2, <5>1, FS_Subset, LlmAssumption
      <4>4. MaxTokens * p <= InFlight /\ MaxTokens * p \in Nat
        BY <4>3, BoundTypes, MoreCostsMore
      <4>5. charged[d] + MaxTokens * p < Highest + InFlight
        <5>1. charged[d] \in Nat
          BY DEF LlmInv, LlmTypeInv
        <5>. QED BY <4>1, <4>4, <5>1, BoundTypes
      <4>6. key[d].ttl = "none" =>
              died \/ \E q \in Request : req'[q].at = "expire" /\ DayOf(req'[q].now) = d
        <5>1. \A q \in Request : req[q].at = "expire" => req'[q] = req[q]
          BY <1>1, <2>1 DEF LlmInv, LlmTypeInv
        <5>. QED BY <4>1, <5>1 DEF DayOK
      <4>7. journal[d] + o <= charged[d]
        BY <4>1, <4>2 DEF DayOK
      <4>8. Now' = Now /\ ~ (d < Now)
        BY <1>1, <2>4, <3>3 DEF Now
      <4>9. /\ journal'[d] + Cardinality(Owed(d)') <= charged'[d]
            /\ key'[d].ttl = "no key" => key'[d].n = 0
            /\ key'[d].n = charged'[d]
            /\ charged'[d] + MaxTokens * Cardinality(Paying(d)') < Highest + InFlight
        BY <1>1, <4>1, <4>2, <4>5, <4>7 DEF DayOK
      <4>10. key'[d].ttl = "none" =>
               died' \/ \E q \in Request : req'[q].at = "expire" /\ DayOf(req'[q].now) = d
        BY <1>1, <4>6, Zenon
      <4>. QED BY <4>8, <4>9, <4>10, BoundStays DEF DayOK
    <3>. QED BY <2>4, <3>2, <3>3
  <2>. QED BY <2>3, <2>5 DEF LlmInv
<1>. QED BY <1>2, <1>3

LEMMA AnswerInv ==
  ASSUME LlmInv, NEW r \in Request, Answer(r)
  PROVE  LlmInv'
<1> DEFINE s == [req[r] EXCEPT !.at = "charge"]
<1>1. /\ req[r].at = "call" /\ req' = [req EXCEPT ![r] = s]
      /\ UNCHANGED <<clock, config, cache, key, journal, charged, calls, died>>
  BY DEF Answer, Goto, SetRequest, history
<1>2. /\ s \in RequestRecord /\ s.at = "charge" /\ s.now = req[r].now /\ s.now <= clock
  <2>1. LlmTypeInv /\ s = [req[r] EXCEPT !.at = "charge"]
    BY DEF LlmInv
  <2>2. "charge" \in {"call", "charge", "commit", "expire"}
    OBVIOUS
  <2> HIDE DEF s
  <2>. QED BY <2>1, <2>2, GoesTo
<1> HIDE DEF s
<1>3. died' = (died \/ req[r].at = "expire")
  BY <1>1 DEF LlmInv, LlmTypeInv
<1>. QED BY <1>1, <1>2, <1>3, LessToPay

LEMMA FailInv ==
  ASSUME LlmInv, NEW r \in Request, Fail(r)
  PROVE  LlmInv'
<1>1. /\ req' = [req EXCEPT ![r] = Idle] /\ died' = (died \/ req[r].at = "expire")
      /\ UNCHANGED <<clock, config, cache, key, journal, charged, calls>>
  BY DEF Fail, SetRequest
<1>2. Idle \in RequestRecord /\ Idle.at = "idle" /\ Idle.now <= clock
  BY LlmAssumption DEF Idle, RequestRecord, LlmInv, LlmTypeInv
<1>. QED BY <1>1, <1>2, LessToPay

\* The call's tokens are charged to its day, and the journal is owed them.
LEMMA ChargeInv ==
  ASSUME LlmInv, NEW r \in Request, Charge(r)
  PROVE  LlmInv'
<1> DEFINE e == DayOf(req[r].now)
<1>1. PICK step \in {"expire", "commit"} :
        /\ req[r].at = "charge" /\ req' = [req EXCEPT ![r] = [req[r] EXCEPT !.at = step]]
        /\ step = "expire" <=> key[e].n = 0
  <2>1. CASE Used(e) = 0
    BY <2>1 DEF Charge, BudgetKey, Goto, SetRequest, Used
  <2>2. CASE Used(e) # 0
    BY <2>2 DEF Charge, BudgetKey, Goto, SetRequest, Used
  <2>. QED BY <2>1, <2>2
<1> DEFINE s == [req[r] EXCEPT !.at = step]
<1>2. /\ s \in RequestRecord /\ s.at = step /\ s.now = req[r].now /\ s.now <= clock
      /\ s.now \in 0..MaxClock /\ s.tokens = req[r].tokens
  <2>1. LlmTypeInv /\ s = [req[r] EXCEPT !.at = step]
    BY DEF LlmInv
  <2>2. step \in {"call", "charge", "commit", "expire"}
    OBVIOUS
  <2> HIDE DEF s
  <2>. QED BY <2>1, <2>2, GoesTo
<1>3. req' = [req EXCEPT ![r] = s]
  BY <1>1
<1> HIDE DEF s
<1>4. PICK t \in 0..MaxTokens : t = req[r].tokens /\ s.tokens = t /\ t \in Nat
  BY <1>2, LlmAssumption DEF LlmInv, LlmTypeInv, RequestRecord
<1>5. /\ e \in Days /\ e \in Nat /\ Now \in Nat /\ e <= Now
  BY <1>2, LlmDays DEF Now, LlmInv, LlmTypeInv
<1>6. UNCHANGED <<clock, config, cache, journal, calls, died>>
  BY DEF Charge
<1>7. charged' = [charged EXCEPT ![e] = @ + t]
  BY <1>4 DEF Charge
<1>8. PICK k : /\ key' = [key EXCEPT ![e] = k] /\ k \in KeyRecord /\ k.n = key[e].n + t
               /\ k.ttl = IF key[e] = NoKey THEN "none" ELSE key[e].ttl
  <2> DEFINE l == IF key[e] = NoKey THEN "none" ELSE key[e].ttl
             a == [key[e] EXCEPT !.n = @ + t]
             k == [a EXCEPT !.ttl = l]
  <2>1. key[e] \in KeyRecord
    BY <1>5 DEF LlmInv, LlmTypeInv
  <2>2. a \in KeyRecord /\ a.n = key[e].n + t /\ a.ttl = key[e].ttl
    <3>1. PICK m \in Nat : m = key[e].n + t
      <4>1. key[e].n \in Nat
        BY <2>1 DEF KeyRecord
      <4>2. \A i, j \in Nat : i + j \in Nat
        OBVIOUS
      <4>. QED BY <1>4, <4>1, <4>2
    <3>2. a = [key[e] EXCEPT !.n = m]
      BY <3>1
    <3> HIDE DEF a
    <3>. QED BY <2>1, <3>1, <3>2 DEF KeyRecord
  <2>3. l \in {"no key", "none", "midnight"}
    BY <2>1 DEF KeyRecord
  <2>4. key' = [key EXCEPT ![e].n = @ + t, ![e].ttl = IF key[e] = NoKey THEN "none" ELSE @]
    BY <1>4 DEF Charge, BudgetKey
  <2>5. key' = [key EXCEPT ![e] = k]
    BY <1>5, <2>1, <2>4 DEF LlmInv, LlmTypeInv, KeyRecord
  <2> HIDE DEF a, l
  <2>6. k \in KeyRecord /\ k.n = a.n /\ k.ttl = l
    BY <2>2, <2>3 DEF KeyRecord
  <2> HIDE DEF k
  <2>. QED BY <2>2, <2>5, <2>6 DEF l
<1>9. LlmTypeInv'
  <2>1. /\ key' \in [Days -> KeyRecord] /\ charged' \in [Days -> Nat]
    BY <1>4, <1>5, <1>7, <1>8 DEF LlmInv, LlmTypeInv
  <2>. QED BY <1>2, <1>3, <1>6, <2>1, TypesKept DEF LlmInv, LlmTypeInv
<1>10. ASSUME NEW d \in Days PROVE DayOK(d)'
  <2>1. /\ Owes(req[r], d) = 0 /\ Owes(s, d) = (IF d = e THEN t ELSE 0)
        /\ Pays(s, d) = 0 /\ Pays(req[r], d) = (IF d = e THEN 1 ELSE 0)
        /\ Checks(s, d) = 0 /\ Checks(req[r], d) = 0
    BY <1>1, <1>2, <1>4 DEF Owes, Pays, Checks
  <2>2. CASE d # e
    <3>1. key'[d] = key[d] /\ charged'[d] = charged[d] /\ journal'[d] = journal[d]
      BY <1>6, <1>7, <1>8, <2>2 DEF LlmInv, LlmTypeInv
    <3>2. /\ Owes(s, d) <= Owes(req[r], d)
          /\ Now <= d => Pays(s, d) <= Pays(req[r], d)
          /\ d < Now => Pays(s, d) + Checks(s, d) <= Pays(req[r], d) + Checks(req[r], d)
          /\ req[r].at = "expire" /\ DayOf(req[r].now) = d => died'
      BY <1>1, <2>1, <2>2
    <3>3. LlmTypeInv /\ DayOK(d) /\ clock' = clock /\ (died => died')
      BY <1>6 DEF LlmInv
    <3>. QED BY <1>2, <1>3, <3>1, <3>2, <3>3, DayKept
  <2>3. CASE d = e
    <3>0. DayOK(d) /\ LlmTypeInv
      BY DEF LlmInv
    <3> DEFINE P == Cardinality(Paying(d))
               C == Cardinality(Checking(d))
               O == Cardinality(Owed(d))
    <3>1. PICK p, c, o \in Nat :
            /\ p = Cardinality(Paying(d)') /\ c = Cardinality(Checking(d)')
            /\ o = Cardinality(Owed(d)')
            /\ P = p + 1 /\ c = C /\ o = O + t /\ P \in Nat /\ C \in Nat /\ O \in Nat
      <4>1. /\ Cardinality(Paying(d)') = P - 1 + 0
            /\ Cardinality(Checking(d)') = C - 0 + 0
            /\ Cardinality(Owed(d)') = O - 0 + t
            /\ P \in Nat /\ C \in Nat /\ O \in Nat
            /\ Cardinality(Paying(d)') \in Nat /\ Cardinality(Checking(d)') \in Nat
            /\ Cardinality(Owed(d)') \in Nat
        <5>1. /\ Owes(req[r], d) = 0 /\ Owes(s, d) = t /\ Pays(s, d) = 0 /\ Pays(req[r], d) = 1
              /\ Checks(s, d) = 0 /\ Checks(req[r], d) = 0
          BY <2>1, <2>3
        <5>. QED BY <1>2, <1>3, <3>0, <5>1, RequestMoves
      <4> HIDE DEF P, C, O
      <4>2. ASSUME NEW a \in Nat, NEW b \in Nat, a = b - 1 + 0 PROVE b = a + 1
        BY <4>2
      <4>3. ASSUME NEW a \in Nat, NEW b \in Nat, a = b - 0 + 0 PROVE a = b
        BY <4>3
      <4>4. ASSUME NEW a \in Nat, NEW b \in Nat, a = b - 0 + t PROVE a = b + t
        BY <1>4, <4>4
      <4>5. P = Cardinality(Paying(d)') + 1
        BY <4>1, <4>2
      <4>6. Cardinality(Checking(d)') = C
        BY <4>1, <4>3
      <4>7. Cardinality(Owed(d)') = O + t
        BY <4>1, <4>4
      <4>. QED BY <4>1, <4>5, <4>6, <4>7
    <3>2. PICK x, y, n \in Nat : x = charged[d] /\ y = journal[d] /\ n = key[d].n
      BY DEF LlmInv, LlmTypeInv, KeyRecord
    <3>3. charged'[d] = x + t /\ journal'[d] = y /\ key'[d] = k /\ k.n = n + t /\ Now' = Now
      BY <1>5, <1>6, <1>7, <1>8, <2>3, <3>2 DEF LlmInv, LlmTypeInv, Now
    <3>4. /\ key[d].ttl = "no key" => n = 0
          /\ key[d].ttl = "none" =>
               died \/ \E q \in Request : req[q].at = "expire" /\ DayOf(req[q].now) = d
          /\ y + O <= x
      BY <3>0, <3>2 DEF DayOK
    <3>5. key[d] = NoKey <=> key[d].ttl = "no key"
      <4>1. key[d] \in KeyRecord
        BY DEF LlmInv, LlmTypeInv
      <4>2. key[d] = [n |-> key[d].n, ttl |-> key[d].ttl]
        BY <4>1 DEF KeyRecord
      <4>3. CASE key[d].ttl = "no key"
        <5>1. key[d].n = 0
          BY <3>2, <3>4, <4>3
        <5>. QED BY <4>2, <4>3, <5>1 DEF NoKey
      <4>4. CASE key[d].ttl # "no key"
        <5>1. NoKey.ttl = "no key"
          BY DEF NoKey
        <5>. QED BY <4>4, <5>1
      <4>. QED BY <4>3, <4>4
    <3>6. k.ttl # "no key"
      BY <1>8, <2>3, <3>5
    <3>7. k.ttl = "none" =>
            died' \/ \E q \in Request : req'[q].at = "expire" /\ DayOf(req'[q].now) = d
      <4>1. CASE key[d].ttl = "no key"
        <5>1. step = "expire"
          BY <1>1, <2>3, <3>2, <3>4, <4>1
        <5>2. req'[r] = s
          BY <1>3 DEF LlmInv, LlmTypeInv
        <5>. QED BY <1>2, <2>3, <5>1, <5>2
      <4>2. CASE key[d].ttl # "no key"
        <5> SUFFICES ASSUME key[d].ttl = "none", ~ died
                     PROVE  \E q \in Request : req'[q].at = "expire" /\ DayOf(req'[q].now) = d
          BY <1>6, <1>8, <2>3, <3>5, <4>2
        <5>1. PICK q \in Request : req[q].at = "expire" /\ DayOf(req[q].now) = d
          BY <3>4
        <5>2. q # r
          BY <1>1, <5>1
        <5>3. req'[q] = req[q]
          BY <1>3, <5>2 DEF LlmInv, LlmTypeInv
        <5>. QED BY <5>1, <5>3
      <4>. QED BY <4>1, <4>2
    <3>8. MaxTokens * P = MaxTokens * p + MaxTokens /\ MaxTokens * p \in Nat
      <4>1. \A m, i \in Nat : m * (i + 1) = m * i + m /\ m * i \in Nat
        OBVIOUS
      <4>2. P = p + 1 /\ MaxTokens \in Nat
        BY <3>1, LlmAssumption
      <4> HIDE DEF P
      <4>. QED BY <3>1, <4>1, <4>2
    <3>9. MaxTokens * (P + C) = MaxTokens * (p + c) + MaxTokens /\ MaxTokens * (p + c) \in Nat
      <4>1. \A m, i \in Nat : m * (i + 1) = m * i + m /\ m * i \in Nat
        OBVIOUS
      <4>2. P + C = (p + c) + 1 /\ p + c \in Nat /\ MaxTokens \in Nat
        <5>1. P = p + 1 /\ C = c /\ MaxTokens \in Nat
          BY <3>1, LlmAssumption
        <5> HIDE DEF P, C
        <5>. QED BY <3>1, <5>1
      <4> HIDE DEF P, C
      <4>. QED BY <4>1, <4>2
    <3>10. t <= MaxTokens /\ MaxTokens \in Nat
      BY <1>4, LlmAssumption
    <3>11. Now <= d => /\ k.n = charged'[d]
                       /\ charged'[d] + MaxTokens * p < Highest + InFlight
      <4> SUFFICES ASSUME Now <= d
                   PROVE  n + t = x + t /\ x + t + MaxTokens * p < Highest + InFlight
        BY <3>3
      <4>1. n = x /\ x + MaxTokens * P < Highest + InFlight
        BY <3>0, <3>2 DEF DayOK
      <4>2. x + (MaxTokens * p + MaxTokens) < Highest + InFlight
        BY <3>8, <4>1
      <4>. QED BY <1>4, <3>2, <3>8, <3>10, <4>1, <4>2, BoundTypes
    <3>12. d < Now => /\ k.ttl # "midnight"
                      /\ charged'[d] + MaxTokens * (p + c) < Highest + 2 * InFlight
      <4> SUFFICES ASSUME d < Now
                   PROVE  k.ttl # "midnight" /\ x + t + MaxTokens * (p + c) < Highest + 2 * InFlight
        BY <3>3
      <4>1. key[d].ttl # "midnight" /\ x + MaxTokens * (P + C) < Highest + 2 * InFlight
        BY <3>0, <3>2 DEF DayOK
      <4>2. x + (MaxTokens * (p + c) + MaxTokens) < Highest + 2 * InFlight
        BY <3>9, <4>1
      <4>3. k.ttl # "midnight"
        BY <1>8, <2>3, <4>1
      <4>. QED BY <1>4, <3>2, <3>9, <3>10, <4>2, <4>3, BoundTypes
    <3>13. y + o <= x + t
      <4>1. o = O + t /\ O \in Nat /\ y + O <= x
        BY <3>1, <3>4
      <4>2. \A i, j, m, l \in Nat : i + m <= j => i + (m + l) <= j + l
        OBVIOUS
      <4> HIDE DEF O
      <4>. QED BY <1>4, <3>2, <4>1, <4>2
    <3> HIDE DEF P, C, O
    <3>. QED BY <3>1, <3>3, <3>6, <3>7, <3>11, <3>12, <3>13 DEF DayOK, InFlight, Highest
  <2>. QED BY <2>2, <2>3
<1>. QED BY <1>9, <1>10 DEF LlmInv

\* The expiry is set; past its midnight it takes the key away.
LEMMA ExpireAtInv ==
  ASSUME LlmInv, NEW r \in Request, ExpireAt(r)
  PROVE  LlmInv'
<1> DEFINE e == DayOf(req[r].now)
           s == [req[r] EXCEPT !.at = "commit"]
<1>1. /\ req[r].at = "expire" /\ req' = [req EXCEPT ![r] = s]
      /\ UNCHANGED <<clock, config, cache, journal, charged, calls, died>>
  BY DEF ExpireAt, Goto, SetRequest, history
<1>2. /\ s \in RequestRecord /\ s.at = "commit" /\ s.now = req[r].now /\ s.now <= clock
      /\ s.now \in 0..MaxClock /\ s.tokens = req[r].tokens
  <2>1. LlmTypeInv /\ s = [req[r] EXCEPT !.at = "commit"]
    BY DEF LlmInv
  <2>2. "commit" \in {"call", "charge", "commit", "expire"}
    OBVIOUS
  <2> HIDE DEF s
  <2>. QED BY <2>1, <2>2, GoesTo
<1> HIDE DEF s
<1>3. /\ e \in Days /\ e \in Nat /\ Now \in Nat /\ e <= Now
  BY <1>2, LlmDays DEF Now, LlmInv, LlmTypeInv
<1>4. key[e] \in KeyRecord /\ key[e].n \in Nat
  BY <1>3 DEF LlmInv, LlmTypeInv, KeyRecord
<1>5. PICK k : /\ key' = [key EXCEPT ![e] = k] /\ k \in KeyRecord
               /\ k.ttl = "midnight" => Now <= e
               /\ k.ttl = "none" => FALSE
               /\ k.ttl = "no key" => k.n = 0
               /\ Now <= e => k.n = key[e].n
  <2> DEFINE k == IF key[e] = NoKey \/ e < Now THEN NoKey ELSE [key[e] EXCEPT !.ttl = "midnight"]
  <2>1. key' = [key EXCEPT ![e] = k]
    BY DEF ExpireAt, BudgetKey, Now
  <2>2. NoKey \in KeyRecord /\ NoKey.ttl = "no key" /\ NoKey.n = 0
    BY DEF NoKey, KeyRecord
  <2>3. CASE key[e] = NoKey \/ e < Now
    <3>1. k = NoKey
      BY <2>3
    <3>2. Now <= e => NoKey.n = key[e].n
      BY <1>3, <2>3
    <3> HIDE DEF k
    <3>. QED BY <2>1, <2>2, <3>1, <3>2
  <2>4. CASE ~ (key[e] = NoKey \/ e < Now)
    <3>1. k = [key[e] EXCEPT !.ttl = "midnight"]
      BY <2>4
    <3> HIDE DEF k
    <3>2. k \in KeyRecord /\ k.ttl = "midnight" /\ k.n = key[e].n
      BY <1>4, <3>1 DEF KeyRecord
    <3>3. Now <= e
      BY <1>3, <2>4
    <3>. QED BY <2>1, <3>2, <3>3
  <2>. QED BY <2>3, <2>4
<1>6. LlmTypeInv'
  <2>1. key' \in [Days -> KeyRecord]
    BY <1>3, <1>5 DEF LlmInv, LlmTypeInv
  <2>. QED BY <1>1, <1>2, <2>1, TypesKept DEF LlmInv, LlmTypeInv
<1>7. ASSUME NEW d \in Days PROVE DayOK(d)'
  <2>0. /\ DayOK(d) /\ LlmTypeInv /\ journal'[d] = journal[d] /\ charged'[d] = charged[d]
        /\ Now' = Now
    BY <1>1 DEF LlmInv, Now
  <2>1. /\ Owes(s, d) = Owes(req[r], d) /\ Pays(s, d) = 0 /\ Pays(req[r], d) = 0
        /\ Checks(s, d) = 0 /\ Checks(req[r], d) = 0 /\ Owes(s, d) \in Nat
    <3>1. s.tokens \in Nat
      BY <1>2, LlmAssumption DEF RequestRecord
    <3>. QED BY <1>1, <1>2, <3>1 DEF Owes, Pays, Checks
  <2>2. CASE d # e
    <3>1. key'[d] = key[d]
      BY <1>5, <2>2 DEF LlmInv, LlmTypeInv
    <3>2. /\ Owes(s, d) <= Owes(req[r], d)
          /\ Now <= d => Pays(s, d) <= Pays(req[r], d)
          /\ d < Now => Pays(s, d) + Checks(s, d) <= Pays(req[r], d) + Checks(req[r], d)
          /\ req[r].at = "expire" /\ DayOf(req[r].now) = d => died'
      BY <2>1, <2>2
    <3>3. clock' = clock /\ (died => died')
      BY <1>1
    <3>. QED BY <1>1, <1>2, <2>0, <3>1, <3>2, <3>3, DayKept
  <2>3. CASE d = e
    <3>1. /\ Cardinality(Paying(d)') = Cardinality(Paying(d))
          /\ Cardinality(Checking(d)') = Cardinality(Checking(d))
          /\ Cardinality(Owed(d)') = Cardinality(Owed(d))
      <4>1. /\ Cardinality(Paying(d)') = Cardinality(Paying(d)) - 0 + 0
            /\ Cardinality(Checking(d)') = Cardinality(Checking(d)) - 0 + 0
            /\ Cardinality(Owed(d)') = Cardinality(Owed(d)) - Owes(s, d) + Owes(s, d)
            /\ Cardinality(Paying(d)) \in Nat /\ Cardinality(Checking(d)) \in Nat
            /\ Cardinality(Owed(d)) \in Nat
        <5>1. req' = [req EXCEPT ![r] = s] /\ LlmTypeInv
          BY <1>1, <2>0
        <5>. QED BY <1>2, <2>1, <5>1, RequestMoves
      <4>2. \A i \in Nat : i - 0 + 0 = i
        OBVIOUS
      <4>3. \A i, j \in Nat : i - j + j = i
        OBVIOUS
      <4>. QED BY <2>1, <4>1, <4>2, <4>3
    <3>2. key'[d] = k
      BY <1>5, <2>3 DEF LlmInv, LlmTypeInv
    <3>3. ~ (d < Now /\ Now <= e)
      BY <1>3, <2>3
    <3>4. Now <= d => k.n = charged[d]
      BY <1>5, <2>0, <2>3 DEF DayOK
    <3>. QED BY <1>5, <2>0, <2>3, <3>1, <3>2, <3>3, <3>4 DEF DayOK, InFlight, Highest
  <2>. QED BY <2>2, <2>3
<1>. QED BY <1>6, <1>7 DEF LlmInv

\* The journal gets what it was owed.
LEMMA CommitInv ==
  ASSUME LlmInv, NEW r \in Request, Commit(r)
  PROVE  LlmInv'
<1> DEFINE e == DayOf(req[r].now)
<1>1. /\ req[r].at = "commit" /\ req' = [req EXCEPT ![r] = Idle] /\ cache' = req[r].now
      /\ UNCHANGED <<clock, config, key, charged, calls, died>>
  BY DEF Commit, SetRequest, history
<1>2. Idle \in RequestRecord /\ Idle.at = "idle" /\ Idle.now <= clock
  BY LlmAssumption DEF Idle, RequestRecord, LlmInv, LlmTypeInv
<1>3. /\ req[r] \in RequestRecord /\ req[r].now \in 0..MaxClock /\ req[r].now <= clock
  BY DEF LlmInv, LlmTypeInv, RequestRecord
<1>4. PICK t \in Nat : t = req[r].tokens
  BY <1>3, LlmAssumption DEF RequestRecord
<1>5. e \in Days
  BY <1>3, LlmDays
<1>6. journal' = [journal EXCEPT ![e] = @ + t]
  BY <1>4 DEF Commit
<1>7. LlmTypeInv'
  <2>1. journal' \in [Days -> Nat]
    BY <1>4, <1>5, <1>6 DEF LlmInv, LlmTypeInv
  <2>2. cache' \in 0..NotCached
    BY <1>1, <1>3, LlmAssumption DEF NotCached
  <2>. QED BY <1>1, <1>2, <2>1, <2>2, TypesKept DEF LlmInv, LlmTypeInv
<1>8. ASSUME NEW d \in Days PROVE DayOK(d)'
  <2>0. /\ DayOK(d) /\ LlmTypeInv /\ key'[d] = key[d] /\ charged'[d] = charged[d]
        /\ Now' = Now /\ clock' = clock /\ died' = died
    BY <1>1 DEF LlmInv, Now
  <2>1. /\ Owes(Idle, d) = 0 /\ Owes(req[r], d) = (IF d = e THEN t ELSE 0)
        /\ Pays(Idle, d) = 0 /\ Pays(req[r], d) = 0
        /\ Checks(Idle, d) = 0 /\ Checks(req[r], d) = 0
    BY <1>1, <1>2, <1>4 DEF Owes, Pays, Checks
  <2>2. CASE d # e
    <3>1. journal'[d] = journal[d]
      BY <1>6, <2>2 DEF LlmInv, LlmTypeInv
    <3>2. /\ Owes(Idle, d) <= Owes(req[r], d)
          /\ Now <= d => Pays(Idle, d) <= Pays(req[r], d)
          /\ d < Now => Pays(Idle, d) + Checks(Idle, d) <= Pays(req[r], d) + Checks(req[r], d)
          /\ req[r].at = "expire" /\ DayOf(req[r].now) = d => died'
      BY <1>1, <2>1, <2>2
    <3>3. died => died'
      BY <2>0
    <3>. QED BY <1>1, <1>2, <2>0, <3>1, <3>2, <3>3, DayKept
  <2>3. CASE d = e
    <3> DEFINE O == Cardinality(Owed(d))
    <3>1. /\ Cardinality(Paying(d)') = Cardinality(Paying(d))
          /\ Cardinality(Checking(d)') = Cardinality(Checking(d))
          /\ Cardinality(Owed(d)') = O - t /\ Cardinality(Owed(d)') \in Nat /\ O \in Nat
      <4>1. /\ Cardinality(Paying(d)') = Cardinality(Paying(d)) - 0 + 0
            /\ Cardinality(Checking(d)') = Cardinality(Checking(d)) - 0 + 0
            /\ Cardinality(Owed(d)') = O - t + 0
            /\ Cardinality(Paying(d)) \in Nat /\ Cardinality(Checking(d)) \in Nat
            /\ Cardinality(Owed(d)') \in Nat /\ O \in Nat
        <5>1. req' = [req EXCEPT ![r] = Idle] /\ LlmTypeInv
          BY <1>1, <2>0
        <5>2. Owes(req[r], d) = t
          BY <2>1, <2>3
        <5>. QED BY <1>2, <2>1, <5>1, <5>2, RequestMoves
      <4>2. \A i \in Nat : i - 0 + 0 = i
        OBVIOUS
      <4>3. \A i, j \in Nat : i - j + 0 = i - j
        OBVIOUS
      <4> HIDE DEF O
      <4>. QED BY <1>4, <4>1, <4>2, <4>3
    <3>2. PICK x, y \in Nat : x = charged[d] /\ y = journal[d]
      BY DEF LlmInv, LlmTypeInv
    <3>3. journal'[d] = y + t
      BY <1>5, <1>6, <2>3, <3>2 DEF LlmInv, LlmTypeInv
    <3>4. journal'[d] + Cardinality(Owed(d)') <= charged'[d]
      <4>1. y + O <= x
        BY <2>0, <3>2 DEF DayOK
      <4>2. \A i, j, m, l \in Nat : i + m <= j /\ m - l \in Nat => (i + l) + (m - l) <= j
        OBVIOUS
      <4> HIDE DEF O
      <4>. QED BY <1>4, <2>0, <3>1, <3>2, <3>3, <4>1, <4>2
    <3>5. key[d].ttl = "none" =>
            died' \/ \E q \in Request : req'[q].at = "expire" /\ DayOf(req'[q].now) = d
      <4>1. \A q \in Request : req[q].at = "expire" => req'[q] = req[q]
        BY <1>1 DEF LlmInv, LlmTypeInv
      <4>. QED BY <2>0, <4>1 DEF DayOK
    <3>. QED BY <2>0, <3>1, <3>4, <3>5 DEF DayOK, InFlight, Highest
  <2>. QED BY <2>2, <2>3
<1>. QED BY <1>7, <1>8 DEF LlmInv

\* The budget may change at any time: no day's bound names it.
LEMMA UpdateConfigInv ==
  ASSUME LlmInv, NEW new \in Config, UpdateConfig(new)
  PROVE  LlmInv'
<1>1. config' = new /\ UNCHANGED <<clock, cache, key, req, journal, charged, calls, died>>
  BY DEF UpdateConfig, history
<1>2. LlmTypeInv'
  BY <1>1 DEF LlmInv, LlmTypeInv
<1>3. ASSUME NEW d \in Days PROVE DayOK(d)'
  BY <1>1 DEF LlmInv, DayOK, Now, Paying, Checking, Owed, Owes, InFlight, Highest
<1>. QED BY <1>2, <1>3 DEF LlmInv

\* Midnight: the day that ends is bounded by its checks as well, which may
\* still let a call out on a key that is gone.
LEMMA LlmTickInv ==
  ASSUME LlmInv, LlmTick
  PROVE  LlmInv'
<1>1. /\ clock \in 0..MaxClock /\ clock < MaxClock /\ clock' = clock + 1
      /\ UNCHANGED <<config, cache, req, journal, charged, calls, died>>
  BY DEF LlmTick, history, LlmInv, LlmTypeInv
<1>2. clock' \in 0..MaxClock /\ clock <= clock'
  BY <1>1, LlmAssumption
<1>3. Now' = DayOf(clock') /\ Now \in Nat /\ Now' \in Nat /\ Now <= Now'
  <2>1. Now' = DayOf(clock')
    BY DEF Now, DayOf
  <2>. QED BY <1>1, <1>2, <2>1, LlmDays DEF Now
<1>4. key' = [d \in Days |-> IF d < Now' /\ key[d].ttl = "midnight" THEN NoKey ELSE key[d]]
  BY <1>3 DEF LlmTick
<1>5. NoKey \in KeyRecord /\ NoKey.ttl = "no key" /\ NoKey.n = 0
  BY DEF NoKey, KeyRecord
<1>6. LlmTypeInv'
  <2>1. \A d \in Days : key[d] \in KeyRecord
    BY DEF LlmInv, LlmTypeInv
  <2>2. key' \in [Days -> KeyRecord]
    BY <1>4, <1>5, <2>1
  <2>3. req' \in [Request -> RequestRecord] /\ \A r \in Request : req'[r].now <= clock'
    <3>1. ASSUME NEW r \in Request PROVE req[r].now <= clock'
      <4>1. req[r].now \in 0..MaxClock /\ req[r].now <= clock
        BY DEF LlmInv, LlmTypeInv, RequestRecord
      <4>. QED BY <1>1, <4>1, LlmAssumption
    <3>. QED BY <1>1, <3>1 DEF LlmInv, LlmTypeInv
  <2>. QED BY <1>1, <1>2, <2>2, <2>3 DEF LlmInv, LlmTypeInv
<1>7. ASSUME NEW d \in Days PROVE DayOK(d)'
  <2>1. /\ Cardinality(Paying(d)') = Cardinality(Paying(d))
        /\ Cardinality(Checking(d)') = Cardinality(Checking(d))
        /\ Cardinality(Owed(d)') = Cardinality(Owed(d))
    BY <1>1 DEF Paying, Checking, Owed, Owes
  <2>2. PICK p, c \in Nat :
          /\ p = Cardinality(Paying(d)) /\ c = Cardinality(Checking(d))
          /\ p <= Cardinality(Request) /\ c <= Cardinality(Request)
    <3>1. Paying(d) \subseteq Request /\ Checking(d) \subseteq Request
      BY DEF Paying, Checking
    <3>2. /\ IsFiniteSet(Paying(d)) /\ Cardinality(Paying(d)) <= Cardinality(Request)
          /\ IsFiniteSet(Checking(d)) /\ Cardinality(Checking(d)) <= Cardinality(Request)
      BY <3>1, FS_Subset, LlmAssumption
    <3>. QED BY <3>2, FS_CardinalityType
  <2>3. /\ d \in Nat /\ charged[d] \in Nat /\ key[d] \in KeyRecord
    BY LlmDays DEF LlmInv, LlmTypeInv, Days
  <2>4. /\ DayOK(d) /\ charged'[d] = charged[d] /\ journal'[d] = journal[d] /\ died' = died
        /\ req' = req
    BY <1>1 DEF LlmInv
  <2>5. CASE Now' <= d
    <3>1. key'[d] = key[d] /\ Now <= d /\ ~ (d < Now')
      <4>1. ~ (d < Now') /\ Now <= d
        BY <1>3, <2>3, <2>5
      <4>. QED BY <1>4, <4>1
    <3>. QED BY <2>1, <2>4, <3>1 DEF DayOK, InFlight, Highest
  <2>6. CASE d < Now'
    <3>1. PICK k : /\ key'[d] = k /\ k.ttl # "midnight"
                   /\ k.ttl = "no key" => k.n = 0
                   /\ k.ttl = "none" => key[d].ttl = "none"
      <4>1. CASE key[d].ttl = "midnight"
        <5>1. key'[d] = NoKey
          BY <1>4, <2>6, <4>1
        <5>. QED BY <1>5, <5>1
      <4>2. CASE key[d].ttl # "midnight"
        <5>1. key'[d] = key[d]
          BY <1>4, <4>2
        <5>. QED BY <2>4, <4>2, <5>1 DEF DayOK
      <4>. QED BY <4>1, <4>2
    <3>2. charged[d] + MaxTokens * (p + c) < Highest + 2 * InFlight
      <4>1. CASE d < Now
        BY <2>2, <2>4, <4>1 DEF DayOK
      <4>2. CASE ~ (d < Now)
        <5>1. Now <= d
          BY <1>3, <2>3, <4>2
        <5>2. charged[d] + MaxTokens * p < Highest + InFlight
          BY <2>2, <2>4, <5>1 DEF DayOK
        <5>3. MaxTokens * c <= InFlight /\ MaxTokens * c \in Nat
          BY <2>2, BoundTypes, MoreCostsMore
        <5>4. MaxTokens * (p + c) = MaxTokens * p + MaxTokens * c /\ MaxTokens * p \in Nat
          <6>1. \A m, i, j \in Nat : m * (i + j) = m * i + m * j /\ m * i \in Nat
            OBVIOUS
          <6>. QED BY <6>1, LlmAssumption
        <5>5. charged[d] + (MaxTokens * p + MaxTokens * c) < Highest + 2 * InFlight
          BY <2>3, <5>2, <5>3, <5>4, BoundTypes
        <5>. QED BY <5>4, <5>5
      <4>. QED BY <4>1, <4>2
    <3>3. ~ (Now' <= d)
      BY <1>3, <2>3, <2>6
    <3>4. k.ttl = "none" =>
            died' \/ \E q \in Request : req'[q].at = "expire" /\ DayOf(req'[q].now) = d
      BY <2>4, <3>1 DEF DayOK
    <3>. QED BY <2>1, <2>2, <2>4, <3>1, <3>2, <3>3, <3>4 DEF DayOK, InFlight, Highest
  <2>. QED BY <1>3, <2>3, <2>5, <2>6
<1>. QED BY <1>6, <1>7 DEF LlmInv

-----------------------------------------------------------------------------
LEMMA LlmInitInv == LlmInit => LlmInv
<1> SUFFICES ASSUME LlmInit PROVE LlmInv
  OBVIOUS
<1>1. Idle \in RequestRecord /\ Idle.now <= 0 /\ Idle.at = "idle"
  BY LlmAssumption DEF Idle, RequestRecord
<1>2. NoKey \in KeyRecord /\ NoKey.ttl = "no key" /\ NoKey.n = 0
  BY DEF NoKey, KeyRecord
<1>3. LlmTypeInv
  <2>1. clock \in 0..MaxClock /\ cache \in 0..NotCached /\ calls \in 0..MaxCalls
    BY LlmAssumption DEF LlmInit, NotCached
  <2>2. key \in [Days -> KeyRecord] /\ journal \in [Days -> Nat] /\ charged \in [Days -> Nat]
    BY <1>2 DEF LlmInit
  <2>3. req \in [Request -> RequestRecord] /\ \A r \in Request : req[r].now <= clock
    BY <1>1 DEF LlmInit
  <2>4. config \in Config /\ died \in BOOLEAN
    BY DEF LlmInit
  <2>. QED BY <2>1, <2>2, <2>3, <2>4 DEF LlmTypeInv
<1>4. ASSUME NEW d \in Days PROVE DayOK(d)
  <2>1. Paying(d) = {} /\ Checking(d) = {}
    BY <1>1 DEF LlmInit, Paying, Checking
  <2>2. Owed(d) = {}
    <3>1. \A r \in Request : Owes(req[r], d) = 0
      BY <1>1 DEF LlmInit, Owes
    <3>2. \A n \in 1..MaxTokens : ~ (n <= 0)
      BY LlmAssumption
    <3>. QED BY <3>1, <3>2 DEF Owed
  <2>3. Cardinality({}) = 0
    BY FS_EmptySet
  <2>4. /\ Cardinality(Paying(d)) = 0 /\ Cardinality(Checking(d)) = 0
        /\ Cardinality(Owed(d)) = 0
    BY <2>1, <2>2, <2>3
  <2>5. key[d] = NoKey /\ journal[d] = 0 /\ charged[d] = 0
    BY DEF LlmInit
  <2>6. MaxTokens * 0 = 0 /\ MaxTokens * (0 + 0) = 0
    BY LlmAssumption
  <2>7. 0 + 0 < Highest + InFlight /\ 0 + 0 < Highest + 2 * InFlight
    BY BoundTypes
  <2>8. /\ charged[d] + MaxTokens * Cardinality(Paying(d)) < Highest + InFlight
        /\ charged[d] + MaxTokens * (Cardinality(Paying(d)) + Cardinality(Checking(d)))
             < Highest + 2 * InFlight
        /\ journal[d] + Cardinality(Owed(d)) <= charged[d]
    BY <2>4, <2>5, <2>6, <2>7
  <2>9. key[d].ttl = "no key" /\ key[d].n = charged[d] /\ key[d].n = 0
    BY <1>2, <2>5
  <2>. QED BY <2>8, <2>9 DEF DayOK
<1>. QED BY <1>3, <1>4 DEF LlmInv

LEMMA LlmNextInv == LlmInv /\ [LlmNext]_llmVars => LlmInv'
<1> SUFFICES ASSUME LlmInv, [LlmNext]_llmVars PROVE LlmInv'
  OBVIOUS
<1>1. CASE UNCHANGED llmVars
  <2>1. /\ clock' = clock /\ config' = config /\ cache' = cache /\ key' = key /\ req' = req
        /\ journal' = journal /\ charged' = charged /\ calls' = calls /\ died' = died
    BY <1>1 DEF llmVars, history
  <2>2. LlmTypeInv'
    BY <2>1 DEF LlmInv, LlmTypeInv
  <2>3. ASSUME NEW d \in Days PROVE DayOK(d)'
    <3>1. Paying(d)' = Paying(d) /\ Checking(d)' = Checking(d)
      BY <2>1 DEF Paying, Checking
    <3>2. Owed(d)' = Owed(d) /\ Now' = Now
      BY <2>1 DEF Owed, Owes, Now
    <3>3. DayOK(d)
      BY DEF LlmInv
    <3>. QED BY <2>1, <3>1, <3>2, <3>3 DEF DayOK, InFlight, Highest
  <2>. QED BY <2>2, <2>3 DEF LlmInv
<1>2. CASE LlmNext
  BY <1>2, GetAnalysisInv, CheckBudgetInv, AnswerInv, ChargeInv, ExpireAtInv, CommitInv,
     FailInv, UpdateConfigInv, LlmTickInv DEF LlmNext
<1>. QED BY <1>1, <1>2

-----------------------------------------------------------------------------
(* Theorems.                                                                *)

\* The invariant of the budget holds in every state, whatever calls fail.
THEOREM LlmHolds == LlmSpec => []LlmInv
BY LlmInitInv, LlmNextInv, PTL DEF LlmSpec

\* Every variable has its type in every state.
THEOREM LlmTyped == LlmSpec => []LlmTypeOK
<1>1. LlmInv => LlmTypeOK
  <2> SUFFICES ASSUME LlmTypeInv PROVE LlmTypeOK
    BY DEF LlmInv
  <2>1. ASSUME NEW r \in Request
        PROVE  /\ req[r].at \in {"idle", "check", "call", "charge", "expire", "commit"}
               /\ req[r].now <= clock /\ req[r].tokens <= MaxTokens
    <3>1. req[r] \in RequestRecord /\ req[r].now <= clock
      BY DEF LlmTypeInv
    <3>. QED BY <3>1, LlmAssumption DEF RequestRecord
  <2>. QED BY <2>1 DEF LlmTypeInv, LlmTypeOK, KeyRecord
<1>. QED BY <1>1, LlmHolds, PTL

\* A day is overspent by no more than the calls of the requests in flight when
\* its budget is reached and of those that find its key gone
\* (get_or_create_analysis, the hard stop).
THEOREM OverspendIsBounded == LlmSpec => []OverspendBounded
<1>1. LlmInv => OverspendBounded
  <2> SUFFICES ASSUME LlmInv, NEW d \in Days
               PROVE  \E b \in Budgets : charged[d] < b + 2 * Cardinality(Request) * MaxTokens
    BY DEF OverspendBounded
  <2>1. /\ DayOK(d) /\ charged[d] \in Nat /\ Now \in Nat /\ d \in Nat
    BY LlmDays DEF LlmInv, LlmTypeInv, Now, Days
  <2>2. PICK p, c \in Nat : p = Cardinality(Paying(d)) /\ c = Cardinality(Checking(d))
    <3>1. Paying(d) \subseteq Request /\ Checking(d) \subseteq Request
      BY DEF Paying, Checking
    <3>. QED BY <3>1, FS_Subset, FS_CardinalityType, LlmAssumption
  <2>3. \A m, i \in Nat : m * i \in Nat
    OBVIOUS
  <2>4. MaxTokens * p \in Nat /\ MaxTokens * (p + c) \in Nat
    BY <2>2, <2>3, LlmAssumption
  <2>5. charged[d] < Highest + 2 * InFlight
    <3>1. CASE Now <= d
      <4>1. charged[d] + MaxTokens * p < Highest + InFlight
        BY <2>1, <2>2, <3>1 DEF DayOK
      <4>. QED BY <2>1, <2>4, <4>1, BoundTypes
    <3>2. CASE d < Now
      <4>1. charged[d] + MaxTokens * (p + c) < Highest + 2 * InFlight
        BY <2>1, <2>2, <3>2 DEF DayOK
      <4>. QED BY <2>1, <2>4, <4>1, BoundTypes
    <3>. QED BY <2>1, <3>1, <3>2
  <2>6. 2 * InFlight = 2 * Cardinality(Request) * MaxTokens
    <3>1. \A i, m \in Nat : 2 * (i * m) = 2 * i * m
      OBVIOUS
    <3>2. Cardinality(Request) \in Nat /\ MaxTokens \in Nat
      BY BoundTypes, LlmAssumption
    <3>. QED BY <3>1, <3>2 DEF InFlight
  <2>. QED BY <2>5, <2>6, HighestBudget
<1>. QED BY <1>1, LlmHolds, PTL

\* A day's key counts that day and ends with it, and the journal never counts
\* more than was charged (_budget_key, get_spend).
THEOREM LedgersStayTrue == LlmSpec => []LedgersAgree
<1>1. LlmInv => LedgersAgree
  <2> SUFFICES ASSUME LlmInv PROVE LedgersAgree
    OBVIOUS
  <2>1. Now \in Days /\ Now \in Nat /\ LlmTypeInv /\ \A d \in Days : DayOK(d)
    BY LlmDays DEF LlmInv, LlmTypeInv, Now
  <2>2. BudgetCountsToday
    <3>1. Now <= Now
      BY <2>1
    <3>2. key[Now].n = charged[Now]
      BY <2>1, <3>1 DEF DayOK
    <3>. QED BY <3>2 DEF BudgetCountsToday, Now
  <2>3. SpendIsCharged
    <3> SUFFICES ASSUME NEW d \in Days PROVE journal[d] <= charged[d]
      BY DEF SpendIsCharged, DailySpend
    <3>1. PICK o \in Nat : o = Cardinality(Owed(d))
      <4>1. Owed(d) \subseteq Request \X (1..MaxTokens)
        BY DEF Owed
      <4>2. IsFiniteSet(Request \X (1..MaxTokens))
        <5>1. IsFiniteSet(1..MaxTokens)
          <6>1. 1 \in Int /\ MaxTokens \in Int
            BY LlmAssumption
          <6>. QED BY <6>1, FS_Interval
        <5>. QED BY <5>1, FS_Product, LlmAssumption
      <4>. QED BY <4>1, <4>2, FS_Subset, FS_CardinalityType
    <3>2. journal[d] + o <= charged[d] /\ journal[d] \in Nat /\ charged[d] \in Nat
      BY <2>1, <3>1 DEF DayOK, LlmTypeInv
    <3>. QED BY <3>2
  <2>4. PastKeysAreGone
    <3> SUFFICES ASSUME NEW d \in Days, d < Now, key[d] # NoKey
                 PROVE  died \/ \E r \in Request : req[r].at = "expire" /\ DayOf(req[r].now) = d
      BY DEF PastKeysAreGone, BudgetKey, Now
    <3>1. key[d] \in KeyRecord /\ key[d].ttl # "midnight" /\ (key[d].ttl = "no key" => key[d].n = 0)
      BY <2>1 DEF DayOK, LlmTypeInv
    <3>2. key[d] = [n |-> key[d].n, ttl |-> key[d].ttl]
      BY <3>1 DEF KeyRecord
    <3>3. key[d].ttl # "no key"
      BY <3>1, <3>2 DEF NoKey
    <3>4. key[d].ttl = "none"
      BY <3>1, <3>3 DEF KeyRecord
    <3>. QED BY <2>1, <3>4 DEF DayOK
  <2>. QED BY <2>2, <2>3, <2>4 DEF LedgersAgree
<1>. QED BY <1>1, LlmHolds, PTL

-----------------------------------------------------------------------------
(* The Telegram link, for any users, chats, links and webhook calls.        *)
(*                                                                          *)
(* The argument is about the burnt token: a call that linked has marked     *)
(* its token used, so a call that finds the token unused reads before       *)
(* every call of that token that links.                                     *)

Minted == [owner : Owner, expires : Nat \ {0}, used : Nat]
Opened == [at : {"read", "linked"}, token : Token, chat : Chat, now : Nat, past : SUBSET Delivery]
Quiet == {Unsent, [Unsent EXCEPT !.at = "ignored"]}

TelegramTypeOK ==
  /\ minute \in 0..LastMinute
  /\ token \in [Token -> Minted \cup {NotMinted}]
  /\ delivery \in [Delivery -> Opened \cup Quiet]
  /\ connected \subseteq Owner \X Chat

IsOpen(d) == delivery[d].at \in {"read", "linked"}

\* A call that passed the check did so in the life of a token of its own.
OpenedInTime ==
  \A d \in Delivery : IsOpen(d) =>
    /\ delivery[d].now <= minute
    /\ token[delivery[d].token] # NotMinted
    /\ delivery[d].now < token[delivery[d].token].expires

\* A call that linked burnt its token.
LinkedIsBurnt ==
  \A d \in Delivery : delivery[d].at = "linked" => token[delivery[d].token].used # Never

\* The calls that linked before a call was opened were of other links.
PastIsOther ==
  \A d \in Delivery : IsOpen(d) =>
    \A e \in delivery[d].past :
      delivery[e].at = "linked" /\ delivery[e].token # delivery[d].token

\* A chat is connected by a call that linked it.
ConnectedByLink ==
  \A c \in connected : \E d \in Delivery :
    /\ delivery[d].at = "linked" /\ delivery[d].chat = c[2]
    /\ token[delivery[d].token].owner = c[1]

LinkInv ==
  /\ TelegramTypeOK /\ OpenedInTime /\ LinkedIsBurnt /\ PastIsOther /\ ConnectedByLink

LEMMA LinkInvInit == TelegramInit => LinkInv
  BY TelegramAssumption
  DEF TelegramInit, LinkInv, TelegramTypeOK, OpenedInTime, LinkedIsBurnt, PastIsOther,
      ConnectedByLink, IsOpen, Quiet, Unsent

\* What a call is follows from where it is.
LEMMA OpenIsOpened ==
  ASSUME TelegramTypeOK, NEW d \in Delivery, IsOpen(d)
  PROVE  delivery[d] \in Opened
  BY DEF TelegramTypeOK, IsOpen, Quiet, Unsent

LEMMA MintedRow ==
  ASSUME TelegramTypeOK, NEW t \in Token, token[t] # NotMinted
  PROVE  token[t] \in Minted
  BY DEF TelegramTypeOK

\* A call that has not linked anything may be forgotten.
LEMMA SilencedInv ==
  ASSUME LinkInv, NEW d \in Delivery, delivery[d].at # "linked",
         delivery' = [delivery EXCEPT ![d] = [Unsent EXCEPT !.at = "ignored"]],
         UNCHANGED <<minute, token, connected>>
  PROVE  LinkInv'
<1> DEFINE quiet == [Unsent EXCEPT !.at = "ignored"]
<1>0. TelegramTypeOK /\ OpenedInTime /\ LinkedIsBurnt /\ PastIsOther /\ ConnectedByLink
  BY DEF LinkInv
<1>1. quiet \in Quiet /\ quiet.at = "ignored" /\ delivery' = [delivery EXCEPT ![d] = quiet]
  BY DEF Quiet, Unsent
<1> HIDE DEF quiet
<1>2. delivery'[d] = quiet /\ \A e \in Delivery : e # d => delivery'[e] = delivery[e]
  BY <1>0, <1>1 DEF TelegramTypeOK
<1>3. TelegramTypeOK'
  BY <1>0, <1>1 DEF TelegramTypeOK
<1>4. \A e \in Delivery : IsOpen(e)' => e # d /\ IsOpen(e)
  BY <1>1, <1>2 DEF IsOpen
<1>5. \A e \in Delivery : delivery[e].at = "linked" => delivery'[e] = delivery[e]
  BY <1>2
<1>6. OpenedInTime' /\ LinkedIsBurnt'
  BY <1>0, <1>1, <1>2, <1>4 DEF OpenedInTime, LinkedIsBurnt
<1>7. PastIsOther'
  <2> SUFFICES ASSUME NEW g \in Delivery, IsOpen(g)', NEW e \in delivery'[g].past
               PROVE  delivery'[e].at = "linked" /\ delivery'[e].token # delivery'[g].token
    BY DEF PastIsOther
  <2>1. IsOpen(g) /\ delivery'[g] = delivery[g]
    BY <1>2, <1>4
  <2>2. e \in Delivery
    BY <1>0, <2>1, OpenIsOpened DEF Opened
  <2>3. delivery[e].at = "linked" /\ delivery[e].token # delivery[g].token
    <3>1. PastIsOther /\ e \in delivery[g].past
      BY <1>0, <2>1
    <3> QED BY <2>1, <3>1 DEF PastIsOther
  <2>4. delivery'[e] = delivery[e]
    BY <1>5, <2>2, <2>3
  <2> QED BY <2>1, <2>3, <2>4
<1>8. ConnectedByLink'
  BY <1>0, <1>5 DEF ConnectedByLink
<1> QED BY <1>3, <1>6, <1>7, <1>8 DEF LinkInv

LEMMA LinkInvStep == LinkInv /\ [TelegramNext]_telegramVars => LinkInv'
<1> SUFFICES ASSUME LinkInv, [TelegramNext]_telegramVars PROVE LinkInv'
  OBVIOUS
<1> USE TelegramAssumption
<1>0. TelegramTypeOK /\ OpenedInTime /\ LinkedIsBurnt /\ PastIsOther /\ ConnectedByLink
  BY DEF LinkInv
<1>1. ASSUME NEW u \in Owner, NEW t \in Token, Mint(u, t) PROVE LinkInv'
  <2> DEFINE entry == [owner |-> u, expires |-> minute + TokenTtl, used |-> Never]
  <2>1. entry \in Minted
    BY <1>0 DEF TelegramTypeOK, Minted, Never
  <2>2. token' = [token EXCEPT ![t] = entry] /\ UNCHANGED <<minute, delivery, connected>>
    BY <1>1 DEF Mint
  <2>3. \A d \in Delivery : IsOpen(d) => delivery[d].token # t
    BY <1>0, <1>1 DEF OpenedInTime, Mint
  <2>4. \A d \in Delivery : IsOpen(d) =>
          delivery[d].token \in Token /\ token'[delivery[d].token] = token[delivery[d].token]
    BY <1>0, <2>2, <2>3, OpenIsOpened DEF TelegramTypeOK, Opened
  <2> HIDE DEF entry
  <2>5. TelegramTypeOK'
    BY <1>0, <2>1, <2>2 DEF TelegramTypeOK
  <2>6. OpenedInTime' /\ LinkedIsBurnt' /\ PastIsOther'
    BY <1>0, <2>2, <2>4 DEF OpenedInTime, LinkedIsBurnt, PastIsOther, IsOpen
  <2>7. ConnectedByLink'
    BY <1>0, <2>2, <2>4 DEF ConnectedByLink, IsOpen
  <2> QED BY <2>5, <2>6, <2>7 DEF LinkInv
<1>2. ASSUME NEW d \in Delivery, NEW t \in Token, NEW chat \in Chat, Open(d, t, chat)
      PROVE  LinkInv'
  <2> DEFINE fresh == [at |-> "read", token |-> t, chat |-> chat, now |-> minute,
                       past |-> {e \in Delivery : delivery[e].at = "linked"}]
  <2>1. delivery[d] = Unsent /\ ~IsOpen(d) /\ UNCHANGED <<minute, token, connected>>
    BY <1>2 DEF Open, IsOpen, Unsent
  <2>2. CASE Redeemable(token[t])
    <3>1. delivery' = [delivery EXCEPT ![d] = fresh]
      BY <1>2, <2>2 DEF Open
    <3>2. fresh \in Opened
      BY <1>0 DEF Opened, TelegramTypeOK
    <3>3. token[t] # NotMinted /\ token[t].used = Never /\ minute < token[t].expires
      BY <1>0, <2>2 DEF Redeemable, TelegramTypeOK, Minted
    <3>4. \A e \in fresh.past : e # d /\ delivery[e].at = "linked" /\ delivery[e].token # t
      BY <1>0, <2>1, <3>3 DEF LinkedIsBurnt, IsOpen
    <3>5. fresh.at = "read" /\ fresh.token = t /\ fresh.now = minute
      OBVIOUS
    <3> HIDE DEF fresh
    <3>6. /\ \A e \in Delivery : e # d => delivery'[e] = delivery[e]
          /\ delivery'[d] = fresh
      BY <1>0, <3>1 DEF TelegramTypeOK
    <3>7. TelegramTypeOK'
      BY <1>0, <2>1, <3>1, <3>2 DEF TelegramTypeOK
    <3>8. OpenedInTime'
      BY <1>0, <2>1, <3>3, <3>5, <3>6 DEF OpenedInTime, IsOpen, TelegramTypeOK
    <3>9. LinkedIsBurnt'
      BY <1>0, <2>1, <3>5, <3>6 DEF LinkedIsBurnt
    <3>10. PastIsOther'
      <4> SUFFICES ASSUME NEW g \in Delivery, IsOpen(g)', NEW e \in delivery'[g].past
                   PROVE  delivery'[e].at = "linked" /\ delivery'[e].token # delivery'[g].token
        BY DEF PastIsOther
      <4>1. e \in Delivery
        BY <3>7, OpenIsOpened DEF IsOpen, TelegramTypeOK, Opened, Quiet, Unsent
      <4>2. CASE g = d
        BY <3>4, <3>5, <3>6, <4>1, <4>2
      <4>3. CASE g # d
        <5>1. IsOpen(g) /\ e \in delivery[g].past
          BY <3>6, <4>3 DEF IsOpen
        <5>2. delivery[e].at = "linked" /\ delivery[e].token # delivery[g].token
          BY <1>0, <5>1 DEF PastIsOther
        <5>3. e # d
          BY <2>1, <5>2 DEF IsOpen
        <5> QED BY <3>6, <4>1, <4>3, <5>2, <5>3
      <4> QED BY <4>2, <4>3
    <3>11. ConnectedByLink'
      <4> SUFFICES ASSUME NEW c \in connected
                   PROVE  \E e \in Delivery :
                            /\ delivery'[e].at = "linked" /\ delivery'[e].chat = c[2]
                            /\ token[delivery'[e].token].owner = c[1]
        BY <2>1 DEF ConnectedByLink
      <4>1. PICK e \in Delivery : /\ delivery[e].at = "linked" /\ delivery[e].chat = c[2]
                                  /\ token[delivery[e].token].owner = c[1]
        BY <1>0 DEF ConnectedByLink
      <4>2. e # d
        BY <2>1, <4>1 DEF IsOpen
      <4> QED BY <3>6, <4>1, <4>2
    <3> QED BY <3>7, <3>8, <3>9, <3>10, <3>11 DEF LinkInv
  <2>3. CASE ~Redeemable(token[t])
    <3>1. delivery' = [delivery EXCEPT ![d] = [Unsent EXCEPT !.at = "ignored"]]
      BY <1>2, <2>3 DEF Open
    <3>2. delivery[d].at # "linked"
      BY <2>1 DEF IsOpen
    <3> QED BY ONLY LinkInv, <2>1, <3>1, <3>2, SilencedInv
  <2> QED BY <2>2, <2>3
<1>3. ASSUME NEW d \in Delivery, Link(d) PROVE LinkInv'
  <2> DEFINE t == delivery[d].token
             chat == delivery[d].chat
             burnt == [token[t] EXCEPT !.used = delivery[d].now]
             linked == [delivery[d] EXCEPT !.at = "linked"]
  <2>1. delivery[d].at = "read" /\ IsOpen(d) /\ delivery[d] \in Opened
    BY <1>0, <1>3, OpenIsOpened DEF Link, IsOpen
  <2>2. t \in Token /\ chat \in Chat /\ delivery[d].now \in 0..minute
    BY <1>0, <2>1 DEF OpenedInTime, Opened
  <2>3. token[t] # NotMinted /\ token[t] \in Minted
    BY <1>0, <2>1, <2>2, MintedRow DEF OpenedInTime
  <2>4. /\ burnt \in Minted /\ burnt.owner = token[t].owner /\ burnt.expires = token[t].expires
        /\ burnt.used # Never /\ burnt # NotMinted
    BY <1>0, <2>2, <2>3 DEF Minted, Never, TelegramTypeOK, NotMinted
  <2>5. linked \in Opened /\ linked = [delivery[d] EXCEPT !.at = "linked"]
    BY <2>1 DEF Opened
  <2>6. /\ linked.at = "linked" /\ linked.token = t /\ linked.chat = chat
        /\ linked.now = delivery[d].now /\ linked.past = delivery[d].past
    BY <2>1 DEF Opened
  <2>7. /\ token' = [token EXCEPT ![t] = burnt] /\ delivery' = [delivery EXCEPT ![d] = linked]
        /\ connected' = connected \cup {<<token[t].owner, chat>>} /\ minute' = minute
    BY <1>3 DEF Link
  <2> HIDE DEF burnt, linked
  <2>8. /\ delivery'[d] = linked /\ \A e \in Delivery : e # d => delivery'[e] = delivery[e]
        /\ token'[t] = burnt /\ \A u \in Token : u # t => token'[u] = token[u]
    BY <1>0, <2>2, <2>7 DEF TelegramTypeOK
  <2>9. \A e \in Delivery : /\ IsOpen(e)' => IsOpen(e)
                            /\ delivery'[e].token = delivery[e].token
                            /\ delivery'[e].chat = delivery[e].chat
                            /\ delivery'[e].now = delivery[e].now
                            /\ delivery'[e].past = delivery[e].past
                            /\ delivery[e].at = "linked" => delivery'[e].at = "linked"
    BY <2>1, <2>6, <2>8 DEF IsOpen
  <2>10. \A u \in Token : token[u] # NotMinted =>
           /\ token'[u] # NotMinted /\ token'[u].owner = token[u].owner
           /\ token'[u].expires = token[u].expires
    BY <2>4, <2>8
  <2>11. \A e \in Delivery : IsOpen(e) => delivery[e].token \in Token
    BY <1>0, OpenIsOpened DEF Opened
  <2>12. TelegramTypeOK'
    <3>1. <<token[t].owner, chat>> \in Owner \X Chat
      BY <2>2, <2>3 DEF Minted
    <3> QED BY <1>0, <2>4, <2>5, <2>7, <3>1 DEF TelegramTypeOK
  <2>13. OpenedInTime'
    BY <1>0, <2>7, <2>9, <2>10, <2>11 DEF OpenedInTime
  <2>14. LinkedIsBurnt'
    <3> SUFFICES ASSUME NEW e \in Delivery, delivery'[e].at = "linked"
                 PROVE  token'[delivery'[e].token].used # Never
      BY DEF LinkedIsBurnt
    <3>1. CASE delivery[e].token = t
      BY <2>4, <2>8, <2>9, <3>1
    <3>2. CASE delivery[e].token # t
      <4>1. e # d /\ IsOpen(e) /\ delivery[e].at = "linked"
        BY <2>8, <3>2 DEF IsOpen
      <4> QED BY <1>0, <2>8, <2>9, <2>11, <3>2, <4>1 DEF LinkedIsBurnt
    <3> QED BY <3>1, <3>2
  <2>15. PastIsOther'
    <3> SUFFICES ASSUME NEW g \in Delivery, IsOpen(g)', NEW e \in delivery'[g].past
                 PROVE  delivery'[e].at = "linked" /\ delivery'[e].token # delivery'[g].token
      BY DEF PastIsOther
    <3>1. IsOpen(g) /\ e \in delivery[g].past
      BY <2>9
    <3>2. e \in Delivery
      BY <1>0, <3>1, OpenIsOpened DEF Opened
    <3> QED BY <1>0, <2>9, <3>1, <3>2 DEF PastIsOther
  <2>16. ConnectedByLink'
    <3> SUFFICES ASSUME NEW c \in connected'
                 PROVE  \E e \in Delivery :
                          /\ delivery'[e].at = "linked" /\ delivery'[e].chat = c[2]
                          /\ token'[delivery'[e].token].owner = c[1]
      BY DEF ConnectedByLink
    <3>1. CASE c \in connected
      <4>1. PICK e \in Delivery : /\ delivery[e].at = "linked" /\ delivery[e].chat = c[2]
                                  /\ token[delivery[e].token].owner = c[1]
        BY <1>0, <3>1 DEF ConnectedByLink
      <4>2. IsOpen(e) /\ token[delivery[e].token] # NotMinted /\ delivery[e].token \in Token
        BY <1>0, <2>11, <4>1 DEF IsOpen, OpenedInTime
      <4> QED BY <2>9, <2>10, <4>1, <4>2
    <3>2. CASE c = <<token[t].owner, chat>>
      BY <2>4, <2>6, <2>8, <3>2
    <3> QED BY <2>7, <3>1, <3>2
  <2> QED BY <2>12, <2>13, <2>14, <2>15, <2>16 DEF LinkInv
<1>4. ASSUME NEW d \in Delivery, Drop(d) PROVE LinkInv'
  <2>1. delivery[d].at # "linked"
    BY <1>4 DEF Drop
  <2> QED BY <1>4, <2>1, SilencedInv DEF Drop
<1>5. ASSUME NEW u \in Owner, Disconnect(u) PROVE LinkInv'
  <2>1. connected' \subseteq connected /\ UNCHANGED <<minute, token, delivery>>
    BY <1>5 DEF Disconnect
  <2> QED BY <1>0, <2>1 DEF LinkInv, TelegramTypeOK, OpenedInTime, LinkedIsBurnt, PastIsOther,
                            ConnectedByLink, IsOpen
<1>6. CASE Wait
  <2>1. minute' = minute + 1 /\ minute' \in 0..LastMinute
        /\ UNCHANGED <<token, delivery, connected>>
    BY <1>0, <1>6 DEF Wait, TelegramTypeOK
  <2>2. \A d \in Delivery : IsOpen(d) => delivery[d].now \in Nat
    BY <1>0, OpenIsOpened DEF Opened
  <2>3. OpenedInTime'
    BY <1>0, <2>1, <2>2 DEF OpenedInTime, IsOpen, TelegramTypeOK
  <2> QED BY <1>0, <2>1, <2>3 DEF LinkInv, TelegramTypeOK, LinkedIsBurnt, PastIsOther,
                                  ConnectedByLink, IsOpen
<1>7. CASE UNCHANGED telegramVars
  BY <1>0, <1>7 DEF telegramVars, LinkInv, TelegramTypeOK, OpenedInTime, LinkedIsBurnt,
                    PastIsOther, ConnectedByLink, IsOpen
<1> QED BY <1>1, <1>2, <1>3, <1>4, <1>5, <1>6, <1>7 DEF TelegramNext

LEMMA LinkInvHolds == TelegramSpec => []LinkInv
  BY LinkInvInit, LinkInvStep, PTL DEF TelegramSpec

\* Type correctness of the Telegram link (telegram_link.py, api/push.py).
THEOREM TelegramTypeCorrect == TelegramSpec => []TelegramTypeOK
  BY LinkInvHolds, PTL DEF LinkInv

LEMMA LinkInvEarns == LinkInv => LinksAreEarned
<1> SUFFICES ASSUME LinkInv PROVE LinksAreEarned
  OBVIOUS
<1>0. TelegramTypeOK /\ OpenedInTime /\ PastIsOther /\ ConnectedByLink
  BY DEF LinkInv
<1>1. ASSUME NEW c \in connected
      PROVE  \E t \in Token : \E d \in Linked(t) :
               /\ token[t].owner = c[1] /\ delivery[d].chat = c[2]
               /\ delivery[d].now < token[t].expires
  <2>1. PICK d \in Delivery : /\ delivery[d].at = "linked" /\ delivery[d].chat = c[2]
                              /\ token[delivery[d].token].owner = c[1]
    BY <1>0 DEF ConnectedByLink
  <2>2. IsOpen(d) /\ delivery[d].token \in Token
    BY <1>0, <2>1, OpenIsOpened DEF IsOpen, Opened
  <2>3. d \in Linked(delivery[d].token)
    BY <2>1 DEF Linked
  <2>4. delivery[d].now < token[delivery[d].token].expires
    BY <1>0, <2>2 DEF OpenedInTime
  <2> QED BY <2>1, <2>2, <2>3, <2>4
<1>2. ASSUME NEW t \in Token, NEW d \in Linked(t), NEW e \in Linked(t)
      PROVE  e \notin delivery[d].past
  BY <1>0 DEF PastIsOther, Linked, IsOpen
<1> QED BY <1>1, <1>2 DEF LinksAreEarned

\* A chat is connected only to the user who minted a link it opened in time,
\* and no call that opens a link after another call linked with it links again,
\* for any number of links and calls (consume_link_token, telegram_webhook).
THEOREM LinksEarned == TelegramSpec => []LinksAreEarned
  BY LinkInvHolds, LinkInvEarns, PTL

-----------------------------------------------------------------------------
(* The request limits, for any callers, scopes, limits and lengths of a     *)
(* window.                                                                  *)

Span(k) == WindowSeconds[k[1]] * PerSecond
Counted(c) == asking[c].pc \in {"over", "refused", "passed", "served"}
Through(k, s) == {c \in PassedBy(k) : asking[c].since = s}

CounterRecord == [n : Nat, left : Nat, since : Nat]
LimitTypeInv ==
  /\ moment \in Nat
  /\ counter \in [LimitKey -> CounterRecord]
  /\ asking = [c \in Call |-> asking[c]]

\* The window of a key that lives.
CounterOK(k) ==
  IF counter[k].n = 0 THEN counter[k].left = 0
  ELSE /\ counter[k].left > 0 /\ counter[k].since <= moment
       /\ counter[k].left + moment = counter[k].since + Span(k)

\* When the window that counts now began, or would begin.
NextWindow(k) == IF counter[k].n = 0 THEN moment ELSE counter[k].since

\* The window a request was counted in lives or is over, and a refusal lasts
\* until it is; a public route keeps whom it counted.
AskedOK(c) ==
  LET a == asking[c] IN
  /\ Counted(c) =>
       /\ a.key \in LimitKey /\ a.since \in Nat
       /\ \/ a.since + Span(a.key) <= NextWindow(a.key)
          \/ counter[a.key].n > 0 /\ counter[a.key].since = a.since
  /\ a.pc \in {"passed", "served"} =>
       a.at \in Nat /\ a.since <= a.at /\ a.at <= moment /\ a.at < a.since + Span(a.key)
  /\ a.pc = "refused" => a.until \in Nat /\ a.since + Span(a.key) <= a.until
  /\ a.pc = "passed" => a.key[2] = IF a.token = NoAccess THEN a.bucket ELSE a.token.sub
  /\ a.pc = "served" =>
       IF a.lapsed THEN a.quota = a.bucket ELSE a.quota \in {a.key[2], "session revoked"}

\* Windows of a key follow one another, and its count covers those who got through.
WindowsApart ==
  \A c, d \in Call :
    Counted(c) /\ Counted(d) /\ asking[c].key = asking[d].key /\ asking[c].since < asking[d].since =>
      asking[c].since + Span(asking[c].key) <= asking[d].since
CountsCover(k) ==
  /\ \A s \in Nat : Cardinality(Through(k, s)) <= Limit[k[1]]
  /\ counter[k].n > 0 => Cardinality(Through(k, counter[k].since)) <= counter[k].n

LimitInv ==
  /\ LimitTypeInv
  /\ \A k \in LimitKey : CounterOK(k)
  /\ \A c \in Call : AskedOK(c)
  /\ WindowsApart
  /\ \A k \in LimitKey : CountsCover(k)

\* A window has a length.
LEMMA SpanType ==
  ASSUME NEW k \in LimitKey
  PROVE  Span(k) \in Nat /\ Span(k) >= 1 /\ Limit[k[1]] \in Nat
<1>1. k[1] \in Scopes
  BY DEF LimitKey
<1>2. WindowSeconds[k[1]] \in Nat \ {0} /\ PerSecond \in Nat \ {0} /\ Limit[k[1]] \in Nat
  BY <1>1, LimitAssumption
<1>3. \A a, b \in Nat \ {0} : a * b \in Nat /\ a * b >= 1
  OBVIOUS
<1>. QED BY <1>2, <1>3 DEF Span

\* Who got through one window of a key, when one request moves.
LEMMA ThroughMoves ==
  ASSUME LimitInv, NEW c \in Call, NEW a, asking' = [asking EXCEPT ![c] = a],
         NEW k \in LimitKey, NEW s \in Nat
  PROVE  /\ IsFiniteSet(Through(k, s)) /\ IsFiniteSet(Through(k, s)')
         /\ Cardinality(Through(k, s)) \in Nat /\ Cardinality(Through(k, s)') \in Nat
         /\ Cardinality(Through(k, s)') =
              Cardinality(Through(k, s)) - (IF c \in Through(k, s) THEN 1 ELSE 0)
                                         + (IF c \in Through(k, s)' THEN 1 ELSE 0)
<1>1. \A d \in Call \ {c} : asking'[d] = asking[d]
  BY DEF LimitInv, LimitTypeInv
<1>2. IsFiniteSet(Call)
  <2>1. 1 \in Int /\ MaxAsked \in Int
    BY LimitAssumption
  <2>. QED BY <2>1, FS_Interval DEF Call
<1>3. Through(k, s) \subseteq Call
  BY DEF Through, PassedBy
<1>4. Through(k, s)' \ {c} = Through(k, s) \ {c}
  BY <1>1 DEF Through, PassedBy
<1>5. IsFiniteSet(Through(k, s))
  BY <1>2, <1>3, FS_Subset
<1>6. /\ IsFiniteSet(Through(k, s)')
      /\ Cardinality(Through(k, s)) \in Nat /\ Cardinality(Through(k, s)') \in Nat
      /\ Cardinality(Through(k, s)') =
           Cardinality(Through(k, s)) - (IF c \in Through(k, s) THEN 1 ELSE 0)
                                      + (IF c \in Through(k, s)' THEN 1 ELSE 0)
  <2>1. PICK S, T : S = Through(k, s) /\ T = Through(k, s)'
    OBVIOUS
  <2>2. IsFiniteSet(S) /\ S \ {c} = T \ {c}
    BY <1>4, <1>5, <2>1
  <2>3. /\ IsFiniteSet(T) /\ Cardinality(S) \in Nat /\ Cardinality(T) \in Nat
        /\ Cardinality(T) = Cardinality(S) - (IF c \in S THEN 1 ELSE 0)
                                           + (IF c \in T THEN 1 ELSE 0)
    BY <2>2, OneMoves
  <2>. QED BY <2>1, <2>3
<1>. QED BY <1>5, <1>6

\* The window that counts now covers those it let through.
LEMMA Covered ==
  ASSUME LimitInv, NEW k \in LimitKey
  PROVE  /\ NextWindow(k) \in Nat /\ counter[k].n \in Nat
         /\ Cardinality(Through(k, NextWindow(k))) <= counter[k].n
<1>1. counter[k] \in CounterRecord /\ moment \in Nat
  BY DEF LimitInv, LimitTypeInv
<1>2. counter[k].n \in Nat /\ NextWindow(k) \in Nat
  BY <1>1 DEF CounterRecord, NextWindow
<1>3. CASE counter[k].n = 0
  <2>1. NextWindow(k) = moment
    BY <1>3 DEF NextWindow
  <2>2. ASSUME NEW d \in Through(k, moment) PROVE FALSE
    <3>1. /\ d \in Call /\ asking[d].pc \in {"passed", "served"} /\ asking[d].key = k
          /\ asking[d].since = moment
      BY DEF Through, PassedBy
    <3>2. AskedOK(d) /\ Counted(d) /\ ~ (counter[k].n > 0)
      BY <1>3, <3>1 DEF LimitInv, Counted
    <3>3. asking[d].since + Span(k) <= moment
      BY <2>1, <3>1, <3>2 DEF AskedOK
    <3>4. moment + Span(k) <= moment /\ Span(k) \in Nat /\ Span(k) >= 1
      BY <3>1, <3>3, SpanType
    <3>. QED BY <1>1, <3>4
  <2>3. Cardinality(Through(k, moment)) = 0
    BY <2>2, FS_EmptySet
  <2>. QED BY <1>2, <1>3, <2>1, <2>3
<1>4. CASE counter[k].n # 0
  <2>1. NextWindow(k) = counter[k].since /\ counter[k].n > 0
    BY <1>2, <1>4 DEF NextWindow
  <2>. QED BY <1>2, <2>1 DEF LimitInv, CountsCover
<1>. QED BY <1>3, <1>4

\* The script counts one more, in the window that lives or in a new one.
LEMMA Increments ==
  ASSUME LimitInv, NEW k \in LimitKey, counter' = IncrWithTtl(k), moment' = moment
  PROVE  /\ counter' \in [LimitKey -> CounterRecord]
         /\ counter'[k].n = counter[k].n + 1 /\ counter'[k].since = NextWindow(k)
         /\ \A j \in LimitKey :
              /\ CounterOK(j)' /\ NextWindow(j)' = NextWindow(j)
              /\ counter[j].n > 0 => counter'[j].n > 0 /\ counter'[j].since = counter[j].since
              /\ j # k => counter'[j] = counter[j]
<1>1. /\ counter[k] \in CounterRecord /\ moment \in Nat /\ counter[k].n \in Nat
      /\ counter[k].left \in Nat /\ counter[k].since \in Nat
  BY DEF LimitInv, LimitTypeInv, CounterRecord
<1>2. /\ Span(k) = WindowSeconds[k[1]] * PerSecond /\ Span(k) \in Nat /\ Span(k) >= 1
  BY SpanType DEF Span
<1> DEFINE v == Incremented(counter[k], WindowSeconds[k[1]])
<1>3. counter' = [counter EXCEPT ![k] = v]
  BY DEF IncrWithTtl
<1>4. /\ v \in CounterRecord /\ v.n = counter[k].n + 1 /\ v.since = NextWindow(k)
      /\ v.left > 0 /\ v.since <= moment /\ v.left + moment = v.since + Span(k)
  <2>1. CASE counter[k].n = 0
    <3>1. v = [n |-> 1, left |-> Span(k), since |-> moment]
      BY <1>2, <2>1 DEF Incremented
    <3> HIDE DEF v
    <3>. QED BY <1>1, <1>2, <2>1, <3>1 DEF CounterRecord, NextWindow
  <2>2. CASE counter[k].n # 0
    <3>1. v = [counter[k] EXCEPT !.n = @ + 1]
      BY <2>2 DEF Incremented
    <3>2. PICK m \in Nat : m = counter[k].n + 1
      BY <1>1
    <3>3. v = [counter[k] EXCEPT !.n = m]
      BY <3>1, <3>2
    <3> HIDE DEF v
    <3>4. v \in CounterRecord /\ v.n = m /\ v.since = counter[k].since /\ v.left = counter[k].left
      BY <1>1, <3>3 DEF CounterRecord
    <3>5. CounterOK(k)
      BY DEF LimitInv
    <3>. QED BY <2>2, <3>2, <3>4, <3>5 DEF NextWindow, CounterOK
  <2>. QED BY <2>1, <2>2
<1> HIDE DEF v
<1>5. counter'[k] = v /\ \A j \in LimitKey : j # k => counter'[j] = counter[j]
  BY <1>3 DEF LimitInv, LimitTypeInv
<1>6. counter' \in [LimitKey -> CounterRecord]
  BY <1>3, <1>4 DEF LimitInv, LimitTypeInv
<1>7. ASSUME NEW j \in LimitKey
      PROVE  /\ CounterOK(j)' /\ NextWindow(j)' = NextWindow(j)
             /\ counter[j].n > 0 => counter'[j].n > 0 /\ counter'[j].since = counter[j].since
  <2>1. CASE j = k
    <3>1. v.n # 0 /\ v.n > 0
      BY <1>1, <1>4
    <3>2. counter[k].n > 0 => v.since = counter[k].since
      BY <1>1, <1>4 DEF NextWindow
    <3>. QED BY <1>4, <1>5, <2>1, <3>1, <3>2 DEF CounterOK, NextWindow, Span
  <2>2. CASE j # k
    <3>1. CounterOK(j) /\ counter'[j] = counter[j]
      BY <1>5, <2>2 DEF LimitInv
    <3>. QED BY <3>1 DEF CounterOK, NextWindow, Span
  <2>. QED BY <2>1, <2>2
<1>. QED BY <1>4, <1>5, <1>6, <1>7

\* What a request was told stays true while others ask and time passes.
LEMMA AskedKept ==
  ASSUME LimitInv, NEW d \in Call, asking'[d] = asking[d], moment <= moment', moment' \in Nat,
         \A j \in LimitKey :
           /\ NextWindow(j)' \in Nat /\ NextWindow(j) <= NextWindow(j)'
           /\ counter[j].n > 0 =>
                \/ counter'[j].n > 0 /\ counter'[j].since = counter[j].since
                \/ counter[j].since + Span(j) <= NextWindow(j)'
  PROVE  AskedOK(d)'
<1> DEFINE a == asking[d]
<1>1. AskedOK(d) /\ moment \in Nat
  BY DEF LimitInv, LimitTypeInv
<1>2. ASSUME Counted(d)
      PROVE  \/ a.since + Span(a.key) <= NextWindow(a.key)'
             \/ counter'[a.key].n > 0 /\ counter'[a.key].since = a.since
  <2>1. a.key \in LimitKey /\ a.since \in Nat /\ Span(a.key) \in Nat /\ NextWindow(a.key) \in Nat
    BY <1>1, <1>2, SpanType, Covered DEF AskedOK
  <2>2. CASE a.since + Span(a.key) <= NextWindow(a.key)
    BY <2>1, <2>2
  <2>3. CASE counter[a.key].n > 0 /\ counter[a.key].since = a.since
    BY <2>1, <2>3
  <2>. QED BY <1>1, <1>2, <2>2, <2>3 DEF AskedOK
<1>3. a.pc \in {"passed", "served"} => a.at \in Nat /\ a.at <= moment'
  <2>1. a.pc \in {"passed", "served"} => a.at \in Nat /\ a.at <= moment
    BY <1>1 DEF AskedOK
  <2>2. \A x \in Nat : x <= moment => x <= moment'
    BY <1>1
  <2>. QED BY <2>1, <2>2
<1>. QED BY <1>1, <1>2, <1>3 DEF AskedOK, Counted, Span

\* A request that arrives is counted in the window of its key.
LEMMA CountedStep ==
  ASSUME LimitInv, NEW c \in Call, ~ Counted(c), NEW k \in LimitKey,
         moment' = moment, counter' = IncrWithTtl(k),
         NEW a, asking' = [asking EXCEPT ![c] = a],
         Counted(c)' => asking'[c].key = k /\ asking'[c].since = counter'[k].since,
         asking'[c].pc \in {"passed", "served"} => counter'[k].n <= Limit[k[1]],
         AskedOK(c)'
  PROVE  LimitInv'
<1>1. /\ counter' \in [LimitKey -> CounterRecord]
      /\ counter'[k].n = counter[k].n + 1 /\ counter'[k].since = NextWindow(k)
      /\ \A j \in LimitKey :
           /\ CounterOK(j)' /\ NextWindow(j)' = NextWindow(j)
           /\ counter[j].n > 0 => counter'[j].n > 0 /\ counter'[j].since = counter[j].since
           /\ j # k => counter'[j] = counter[j]
  BY Increments
<1>2. LimitTypeInv'
  BY <1>1 DEF LimitInv, LimitTypeInv
<1>3. \A d \in Call \ {c} : asking'[d] = asking[d]
  BY DEF LimitInv, LimitTypeInv
<1>4. ASSUME NEW d \in Call PROVE AskedOK(d)'
  <2>1. CASE d = c
    BY <2>1
  <2>2. CASE d # c
    <3>1. moment \in Nat /\ moment <= moment' /\ moment' \in Nat /\ asking'[d] = asking[d]
      BY <1>3, <2>2 DEF LimitInv, LimitTypeInv
    <3>2. ASSUME NEW j \in LimitKey
          PROVE  /\ NextWindow(j)' \in Nat /\ NextWindow(j) <= NextWindow(j)'
                 /\ counter[j].n > 0 =>
                      \/ counter'[j].n > 0 /\ counter'[j].since = counter[j].since
                      \/ counter[j].since + Span(j) <= NextWindow(j)'
      <4>1. NextWindow(j) \in Nat /\ NextWindow(j)' = NextWindow(j)
        BY <1>1, Covered
      <4>. QED BY <1>1, <4>1
    <3>. QED BY <3>1, <3>2, AskedKept
  <2>. QED BY <2>1, <2>2
<1>5. ASSUME NEW d \in Call \ {c}, Counted(d), asking[d].key = k
      PROVE  /\ asking[d].since \in Nat /\ NextWindow(k) \in Nat
             /\ \/ asking[d].since + Span(k) <= NextWindow(k)
                \/ asking[d].since = NextWindow(k)
  <2>1. AskedOK(d) /\ counter[k].n \in Nat
    BY <1>5, Covered DEF LimitInv
  <2>2. /\ asking[d].since \in Nat
        /\ \/ asking[d].since + Span(k) <= NextWindow(k)
           \/ counter[k].n > 0 /\ counter[k].since = asking[d].since
    BY <1>5, <2>1 DEF AskedOK
  <2>3. counter[k].n > 0 => NextWindow(k) = counter[k].since
    BY <2>1 DEF NextWindow
  <2>. QED BY <1>5, <2>2, <2>3, Covered
<1>6. WindowsApart'
  <2> SUFFICES ASSUME NEW x \in Call, NEW y \in Call, Counted(x)', Counted(y)',
                      asking'[x].key = asking'[y].key, asking'[x].since < asking'[y].since
               PROVE  asking'[x].since + Span(asking'[x].key) <= asking'[y].since
    BY DEF WindowsApart, Span
  <2>1. CASE x # c /\ y # c
    <3>1. asking'[x] = asking[x] /\ asking'[y] = asking[y]
      BY <1>3, <2>1
    <3>2. Counted(x) /\ Counted(y)
      BY <3>1 DEF Counted
    <3>. QED BY <3>1, <3>2 DEF LimitInv, WindowsApart
  <2>2. CASE x # c /\ y = c
    <3>1. asking'[x] = asking[x] /\ Counted(x) /\ asking[x].key = k /\ asking'[y].since = NextWindow(k)
      BY <1>1, <1>3, <2>2 DEF Counted
    <3>2. /\ asking[x].since \in Nat /\ NextWindow(k) \in Nat
          /\ \/ asking[x].since + Span(k) <= NextWindow(k)
             \/ asking[x].since = NextWindow(k)
      BY <1>5, <2>2, <3>1
    <3>. QED BY <3>1, <3>2
  <2>3. CASE x = c /\ y # c
    <3>1. asking'[y] = asking[y] /\ Counted(y) /\ asking[y].key = k /\ asking'[x].since = NextWindow(k)
      BY <1>1, <1>3, <2>3 DEF Counted
    <3>2. /\ asking[y].since \in Nat /\ NextWindow(k) \in Nat
          /\ \/ asking[y].since + Span(k) <= NextWindow(k)
             \/ asking[y].since = NextWindow(k)
      BY <1>5, <2>3, <3>1
    <3>3. Span(k) \in Nat
      BY SpanType
    <3>4. NextWindow(k) < asking[y].since
      BY <3>1
    <3>. QED BY <3>2, <3>3, <3>4
  <2>4. CASE x = c /\ y = c
    <3>1. asking'[c].since = NextWindow(k) /\ NextWindow(k) \in Nat
      BY <1>1, <2>4, Covered
    <3>2. NextWindow(k) < NextWindow(k)
      BY <2>4, <3>1
    <3>. QED BY <3>1, <3>2
  <2>. QED BY <2>1, <2>2, <2>3, <2>4
<1>7. ASSUME NEW j \in LimitKey PROVE CountsCover(j)'
  <2> DEFINE w == NextWindow(k)
  <2>1. /\ w \in Nat /\ counter[k].n \in Nat /\ Cardinality(Through(k, w)) <= counter[k].n
        /\ Limit[j[1]] \in Nat /\ Limit[k[1]] \in Nat
    BY Covered, SpanType
  <2>2. ASSUME NEW s \in Nat
        PROVE  /\ Cardinality(Through(j, s)) \in Nat /\ Cardinality(Through(j, s)') \in Nat
               /\ Cardinality(Through(j, s)) <= Limit[j[1]]
               /\ Cardinality(Through(j, s)') = Cardinality(Through(j, s))
                    \/ /\ j = k /\ s = w /\ asking'[c].pc \in {"passed", "served"}
                       /\ Cardinality(Through(j, s)') = Cardinality(Through(j, s)) + 1
    <3>1. PICK n, m \in Nat :
            /\ n = Cardinality(Through(j, s)) /\ m = Cardinality(Through(j, s)')
            /\ m = n - (IF c \in Through(j, s) THEN 1 ELSE 0) + (IF c \in Through(j, s)' THEN 1 ELSE 0)
      BY ThroughMoves
    <3>2. c \notin Through(j, s)
      BY DEF Through, PassedBy, Counted
    <3>3. Cardinality(Through(j, s)) <= Limit[j[1]]
      BY DEF LimitInv, CountsCover
    <3>4. CASE c \notin Through(j, s)'
      <4>1. m = n
        BY <3>1, <3>2, <3>4
      <4>. QED BY <3>1, <3>3, <4>1
    <3>5. CASE c \in Through(j, s)'
      <4>1. /\ asking'[c].pc \in {"passed", "served"} /\ asking'[c].key = j
            /\ asking'[c].since = s
        BY <3>5 DEF Through, PassedBy
      <4>2. j = k /\ s = w
        BY <1>1, <4>1 DEF Counted
      <4>3. m = n + 1
        BY <3>1, <3>2, <3>5
      <4>. QED BY <3>1, <3>3, <4>1, <4>2, <4>3
    <3>. QED BY <3>4, <3>5
  <2>3. ASSUME NEW s \in Nat PROVE Cardinality(Through(j, s)') <= Limit[j[1]]
    <3>1. CASE Cardinality(Through(j, s)') = Cardinality(Through(j, s))
      BY <2>2, <3>1
    <3>2. CASE /\ j = k /\ s = w /\ asking'[c].pc \in {"passed", "served"}
               /\ Cardinality(Through(j, s)') = Cardinality(Through(j, s)) + 1
      <4>1. counter[k].n + 1 <= Limit[k[1]]
        BY <1>1, <3>2
      <4>2. Cardinality(Through(j, s)) <= counter[k].n /\ Cardinality(Through(j, s)) \in Nat
        BY <2>1, <2>2, <3>2
      <4>. QED BY <2>1, <3>2, <4>1, <4>2
    <3>. QED BY <2>2, <3>1, <3>2
  <2>4. ASSUME counter'[j].n > 0, NEW s \in Nat, s = counter'[j].since
        PROVE  Cardinality(Through(j, s)') <= counter'[j].n
    <3>2. s = counter'[j].since
      BY <2>4
    <3>3. CASE j = k
      <4>1. s = w /\ counter'[j].n = counter[k].n + 1
        BY <1>1, <3>2, <3>3
      <4>2. /\ Cardinality(Through(j, s)) <= counter[k].n /\ Cardinality(Through(j, s)) \in Nat
            /\ Cardinality(Through(j, s)') \in Nat
            /\ Cardinality(Through(j, s)') <= Cardinality(Through(j, s)) + 1
        BY <2>1, <2>2, <3>3, <4>1
      <4>3. Cardinality(Through(j, s)') <= counter[k].n + 1
        BY <2>1, <4>2
      <4>. QED BY <3>2, <4>1, <4>3
    <3>4. CASE j # k
      <4>1. counter'[j] = counter[j]
        BY <1>1, <3>4
      <4>2. Cardinality(Through(j, s)) <= counter[j].n
        BY <2>4, <3>2, <4>1 DEF LimitInv, CountsCover
      <4>3. Cardinality(Through(j, s)') = Cardinality(Through(j, s))
        BY <2>2, <3>4
      <4>. QED BY <3>2, <4>1, <4>2, <4>3
    <3>. QED BY <3>3, <3>4
  <2>5. counter'[j].since \in Nat
    BY <1>1 DEF CounterRecord
  <2>. QED BY <2>3, <2>4, <2>5 DEF CountsCover
<1>. QED BY <1>1, <1>2, <1>4, <1>6, <1>7 DEF LimitInv

\* A request goes on, in the window in which it was counted.
LEMMA QuietStep ==
  ASSUME LimitInv, NEW c \in Call, UNCHANGED <<moment, counter>>,
         NEW a, asking' = [asking EXCEPT ![c] = a],
         Counted(c)' => /\ Counted(c) /\ asking'[c].key = asking[c].key
                      /\ asking'[c].since = asking[c].since,
         asking'[c].pc \in {"passed", "served"} <=> asking[c].pc \in {"passed", "served"},
         AskedOK(c)'
  PROVE  LimitInv'
<1>1. LimitTypeInv'
  BY DEF LimitInv, LimitTypeInv
<1>2. \A d \in Call \ {c} : asking'[d] = asking[d]
  BY DEF LimitInv, LimitTypeInv
<1>3. ASSUME NEW d \in Call PROVE AskedOK(d)'
  <2>1. CASE d = c
    BY <2>1
  <2>2. CASE d # c
    <3>1. asking'[d] = asking[d] /\ AskedOK(d)
      BY <1>2, <2>2 DEF LimitInv
    <3>. QED BY <3>1 DEF AskedOK, Counted, NextWindow, Span
  <2>. QED BY <2>1, <2>2
<1>4. ASSUME NEW d \in Call, Counted(d)'
      PROVE  Counted(d) /\ asking'[d].key = asking[d].key /\ asking'[d].since = asking[d].since
  BY <1>2, <1>4 DEF Counted
<1>5. WindowsApart'
  <2> SUFFICES ASSUME NEW x \in Call, NEW y \in Call, Counted(x)', Counted(y)',
                      asking'[x].key = asking'[y].key, asking'[x].since < asking'[y].since
               PROVE  asking'[x].since + Span(asking'[x].key) <= asking'[y].since
    BY DEF WindowsApart, Span
  <2>. QED BY <1>4 DEF LimitInv, WindowsApart
<1>6. ASSUME NEW j \in LimitKey PROVE CountsCover(j)'
  <2>1. ASSUME NEW s PROVE Through(j, s)' = Through(j, s)
    <3>1. ASSUME NEW d \in Call PROVE d \in Through(j, s)' <=> d \in Through(j, s)
      <4>1. CASE d # c
        BY <1>2, <4>1 DEF Through, PassedBy
      <4>2. CASE d = c
        BY <1>4, <4>2 DEF Through, PassedBy, Counted
      <4>. QED BY <4>1, <4>2
    <3>2. Through(j, s) \subseteq Call /\ Through(j, s)' \subseteq Call
      BY DEF Through, PassedBy
    <3>. QED BY <3>1, <3>2
  <2>2. CountsCover(j)
    BY DEF LimitInv
  <2>3. \A s \in Nat : Cardinality(Through(j, s)') <= Limit[j[1]]
    BY <2>1, <2>2 DEF CountsCover
  <2>4. counter[j].n > 0 => Cardinality(Through(j, counter[j].since)') <= counter[j].n
    BY <2>1, <2>2 DEF CountsCover
  <2>. QED BY <2>3, <2>4 DEF CountsCover
<1>7. \A j \in LimitKey : CounterOK(j)'
  BY DEF LimitInv, CounterOK, Span
<1>. QED BY <1>1, <1>3, <1>5, <1>6, <1>7 DEF LimitInv

\* The key that a request is counted on.
LEMMA KeyType ==
  ASSUME NEW scope \in Scopes, NEW address \in Source, NEW access \in AccessToken,
         scope \in AccountScopes => access # NoAccess
  PROVE  /\ KeyOf(scope, address, access) \in LimitKey
         /\ scope \in PublicScopes =>
              KeyOf(scope, address, access)[2] = IF access = NoAccess THEN Bucket(address) ELSE access.sub
<1>1. Bucket(address) \in Identity
  BY DEF Identity
<1>2. access # NoAccess => access.sub \in Identity
  BY DEF AccessToken, Identity
<1>3. scope \in PublicScopes => scope \notin AddressScopes /\ scope \notin AccountScopes
  BY DEF PublicScopes, AddressScopes, AccountScopes
<1>. QED BY <1>1, <1>2, <1>3
     DEF KeyOf, AddressKey, AccountKey, PublicKey, RateLimitIdentity, LimitKey

\* Redis rounds what is left of a key to seconds, by half a second at most.
LEMMA TtlRounds ==
  ASSUME NEW left \in Nat, NEW p \in Nat \ {0}, NEW t, t = (2 * left + p) \div (2 * p)
  PROVE  t \in Nat /\ t * p \in Nat /\ p \div 2 \in Nat /\ left <= t * p + p \div 2
<1>1. PICK x \in Nat, d \in Nat \ {0} : x = 2 * left + p /\ d = 2 * p
  OBVIOUS
<1>2. t = x \div d
  BY <1>1
<1>3. \A y \in Nat, e \in Nat \ {0} : y \div e \in Nat /\ y < e * (y \div e) + e
  OBVIOUS
<1>4. t \in Nat /\ x < d * t + d
  BY <1>2, <1>3
<1>5. PICK m \in Nat : m = t * p
  BY <1>4
<1>6. d * t = 2 * m
  BY <1>1, <1>4, <1>5
<1>7. p \div 2 \in Nat /\ p <= 2 * (p \div 2) + 1
  OBVIOUS
<1>8. 2 * left + p < 2 * m + 2 * p
  BY <1>1, <1>4, <1>6
<1>. QED BY <1>4, <1>5, <1>7, <1>8

\* The window that counts began, and is not over.
LEMMA WindowNow ==
  ASSUME LimitInv, NEW k \in LimitKey
  PROVE  /\ NextWindow(k) \in Nat /\ moment \in Nat /\ NextWindow(k) <= moment
         /\ counter[k].n \in Nat /\ counter[k].left \in Nat /\ counter[k].since \in Nat
         /\ counter[k].left <= Span(k)
<1>1. counter[k] \in CounterRecord /\ moment \in Nat /\ CounterOK(k)
  BY DEF LimitInv, LimitTypeInv
<1>2. counter[k].n \in Nat /\ counter[k].left \in Nat /\ counter[k].since \in Nat
  BY <1>1 DEF CounterRecord
<1>3. Span(k) \in Nat
  BY SpanType
<1>. QED BY <1>1, <1>2, <1>3 DEF CounterOK, NextWindow

LEMMA CountInv ==
  ASSUME LimitInv, NEW c \in Call, NEW scope \in Scopes, NEW address \in Source,
         NEW access \in AccessToken, Count(c, scope, address, access)
  PROVE  LimitInv'
<1>1. PICK k : k = KeyOf(scope, address, access)
  OBVIOUS
<1>2. /\ k \in LimitKey
      /\ scope \in PublicScopes => k[2] = IF access = NoAccess THEN Bucket(address) ELSE access.sub
  BY <1>1, KeyType DEF Count, Arrives
<1>3. /\ moment' = moment /\ counter' = IncrWithTtl(k)
      /\ asking' = [asking EXCEPT ![c] = Outcome(scope, address, access, counter')]
      /\ asking[c] = NotCalled
  BY <1>1 DEF Count, Arrives
<1>4. /\ counter' \in [LimitKey -> CounterRecord] /\ CounterOK(k)'
      /\ counter'[k].n = counter[k].n + 1
  BY <1>2, <1>3, Increments
<1>5. /\ moment' \in Nat /\ counter'[k].n > 0 /\ counter'[k].n \in Nat /\ counter'[k].since \in Nat
      /\ counter'[k].since <= moment' /\ moment' < counter'[k].since + Span(k)
  <2>1. counter'[k] \in CounterRecord /\ moment \in Nat /\ counter[k].n \in Nat
    BY <1>2, <1>4, Covered DEF LimitInv, LimitTypeInv
  <2>2. /\ counter'[k].n \in Nat /\ counter'[k].since \in Nat /\ counter'[k].left \in Nat
        /\ counter'[k].n > 0 /\ counter'[k].n # 0
    BY <1>4, <2>1 DEF CounterRecord
  <2>3. /\ counter'[k].since <= moment' /\ counter'[k].left > 0
        /\ counter'[k].left + moment' = counter'[k].since + Span(k)
    BY <1>4, <2>2 DEF CounterOK, Span
  <2>4. Span(k) \in Nat
    BY <1>2, SpanType
  <2>. QED BY <1>3, <2>1, <2>2, <2>3, <2>4
<1>6. ~ Counted(c)
  BY <1>3 DEF Counted, NotCalled
<1>7. asking'[c] = Outcome(scope, address, access, counter')
  BY <1>3 DEF LimitInv, LimitTypeInv
<1>8. scope = k[1]
  BY <1>1 DEF KeyOf, AddressKey, AccountKey, PublicKey
<1>9. CASE OverLimit(scope, counter'[k].n)
  <2>1. asking'[c] = [pc |-> "over", key |-> k, since |-> counter'[k].since]
    BY <1>1, <1>7, <1>9 DEF Outcome
  <2>2. /\ asking'[c].pc = "over" /\ asking'[c].key = k /\ asking'[c].since = counter'[k].since
    BY <2>1
  <2>3. AskedOK(c)'
    BY <1>2, <1>5, <2>2 DEF AskedOK, Counted
  <2>. QED BY <1>2, <1>3, <1>6, <2>2, <2>3, CountedStep
<1>10. CASE ~ OverLimit(scope, counter'[k].n) /\ scope \in PublicScopes
  <2>1. asking'[c] = [pc |-> "passed", key |-> k, since |-> counter'[k].since, at |-> moment,
                      bucket |-> Bucket(address), token |-> access]
    BY <1>1, <1>7, <1>10 DEF Outcome
  <2>2. /\ asking'[c].pc = "passed" /\ asking'[c].key = k /\ asking'[c].since = counter'[k].since
        /\ asking'[c].at = moment' /\ asking'[c].bucket = Bucket(address) /\ asking'[c].token = access
    BY <1>3, <2>1
  <2>3. AskedOK(c)'
    BY <1>2, <1>5, <1>10, <2>2 DEF AskedOK, Counted, Span
  <2>4. counter'[k].n <= Limit[k[1]]
    BY <1>2, <1>5, <1>8, <1>10, SpanType DEF OverLimit
  <2>. QED BY <1>2, <1>3, <1>6, <2>2, <2>3, <2>4, CountedStep
<1>11. CASE ~ OverLimit(scope, counter'[k].n) /\ scope \notin PublicScopes
  <2>1. asking'[c] = [pc |-> "served", key |-> k, since |-> counter'[k].since, at |-> moment,
                      bucket |-> Bucket(address), lapsed |-> FALSE, quota |-> k[2]]
    BY <1>1, <1>7, <1>11 DEF Outcome
  <2>2. /\ asking'[c].pc = "served" /\ asking'[c].key = k /\ asking'[c].since = counter'[k].since
        /\ asking'[c].at = moment' /\ asking'[c].quota = k[2] /\ ~asking'[c].lapsed
    BY <1>3, <2>1
  <2>3. AskedOK(c)'
    BY <1>2, <1>5, <2>2 DEF AskedOK, Counted, Span
  <2>4. counter'[k].n <= Limit[k[1]]
    BY <1>2, <1>5, <1>8, <1>11, SpanType DEF OverLimit
  <2>. QED BY <1>2, <1>3, <1>6, <2>2, <2>3, <2>4, CountedStep
<1>. QED BY <1>9, <1>10, <1>11

LEMMA CountUnansweredInv ==
  ASSUME LimitInv, NEW c \in Call, NEW scope \in Scopes, NEW address \in Source,
         NEW access \in AccessToken, CountUnanswered(c, scope, address, access)
  PROVE  LimitInv'
<1>1. PICK k : k = KeyOf(scope, address, access)
  OBVIOUS
<1>2. k \in LimitKey
  BY <1>1, KeyType DEF CountUnanswered, Arrives
<1>3. /\ moment' = moment /\ (counter' = counter \/ counter' = IncrWithTtl(k))
      /\ asking' = [asking EXCEPT ![c] = WhenUnanswered(scope)] /\ asking[c] = NotCalled
  BY <1>1 DEF CountUnanswered, Arrives
<1>4. asking'[c].pc \in {"unlimited", "failed"}
  BY <1>3 DEF WhenUnanswered, LimitInv, LimitTypeInv
<1>5. /\ ~ Counted(c) /\ ~ Counted(c)' /\ AskedOK(c)'
      /\ asking[c].pc \notin {"passed", "served"} /\ asking'[c].pc \notin {"passed", "served"}
  <2>1. asking'[c].pc \notin {"over", "refused", "passed", "served"} /\ asking[c].pc = "unsent"
    BY <1>3, <1>4 DEF NotCalled
  <2>2. ~ Counted(c) /\ ~ Counted(c)'
    BY <2>1 DEF Counted
  <2>3. AskedOK(c)'
    BY <2>1, <2>2 DEF AskedOK
  <2>. QED BY <2>1, <2>2, <2>3
<1>6. CASE counter' = counter
  BY <1>3, <1>5, <1>6, QuietStep
<1>7. CASE counter' = IncrWithTtl(k)
  BY <1>2, <1>3, <1>5, <1>7, CountedStep
<1>. QED BY <1>3, <1>6, <1>7

LEMMA ReadTtlInv ==
  ASSUME LimitInv, NEW c \in Call, ReadTtl(c)
  PROVE  LimitInv'
<1>1. PICK k : k = asking[c].key
  OBVIOUS
<1>2. PICK s : s = asking[c].since
  OBVIOUS
<1>3. /\ asking[c].pc = "over" /\ Counted(c) /\ k \in LimitKey /\ s \in Nat
      /\ \/ s + Span(k) <= NextWindow(k)
         \/ counter[k].n > 0 /\ counter[k].since = s
  BY <1>1, <1>2 DEF ReadTtl, LimitInv, AskedOK, Counted
<1>4. PICK after : after = IF Ttl(k) > 0 THEN Ttl(k) ELSE WindowSeconds[k[1]]
  OBVIOUS
<1>5. PICK u : u = moment + after * PerSecond + PerSecond \div 2
  OBVIOUS
<1>6. /\ asking' = [asking EXCEPT ![c] =
           [pc |-> "refused", key |-> k, since |-> s, until |-> u]]
      /\ UNCHANGED <<moment, counter>>
  BY <1>1, <1>2, <1>4, <1>5 DEF ReadTtl
<1>7. u \in Nat /\ s + Span(k) <= u
  <2>1. /\ moment \in Nat /\ NextWindow(k) \in Nat /\ NextWindow(k) <= moment
        /\ counter[k].left \in Nat /\ counter[k].left <= Span(k) /\ Span(k) \in Nat
    BY <1>3, WindowNow, SpanType
  <2>2. PerSecond \in Nat \ {0} /\ Ttl(k) = (2 * counter[k].left + PerSecond) \div (2 * PerSecond)
    BY LimitAssumption DEF Ttl
  <2>3. /\ Ttl(k) \in Nat /\ Ttl(k) * PerSecond \in Nat /\ PerSecond \div 2 \in Nat
        /\ counter[k].left <= Ttl(k) * PerSecond + PerSecond \div 2
    BY <2>1, <2>2, TtlRounds
  <2>4. /\ after * PerSecond \in Nat
        /\ counter[k].left <= after * PerSecond + PerSecond \div 2
    <3>1. CASE Ttl(k) > 0
      BY <1>4, <2>3, <3>1
    <3>2. CASE ~ (Ttl(k) > 0)
      <4>1. after * PerSecond = Span(k)
        BY <1>4, <3>2 DEF Span
      <4>. QED BY <2>1, <2>3, <4>1
    <3>. QED BY <3>1, <3>2
  <2>5. PICK x \in Nat : x = after * PerSecond
    BY <2>4
  <2>6. CASE s + Span(k) <= NextWindow(k)
    BY <1>3, <1>5, <2>1, <2>3, <2>5, <2>6
  <2>7. CASE counter[k].n > 0 /\ counter[k].since = s
    <3>1. CounterOK(k) /\ counter[k].n # 0
      BY <1>3, <2>7 DEF LimitInv
    <3>2. counter[k].left + moment = s + Span(k)
      BY <2>7, <3>1 DEF CounterOK
    <3>. QED BY <1>3, <1>5, <2>1, <2>3, <2>4, <2>5, <3>2
  <2>. QED BY <1>3, <2>6, <2>7
<1>8. /\ asking'[c].pc = "refused" /\ asking'[c].key = k /\ asking'[c].since = s
      /\ asking'[c].until = u
  BY <1>6 DEF LimitInv, LimitTypeInv
<1>9. AskedOK(c)'
  BY <1>3, <1>6, <1>7, <1>8 DEF AskedOK, Counted, Span, NextWindow
<1>. QED BY <1>1, <1>2, <1>3, <1>6, <1>8, <1>9, QuietStep

LEMMA TtlUnansweredInv ==
  ASSUME LimitInv, NEW c \in Call, TtlUnanswered(c)
  PROVE  LimitInv'
<1>1. PICK a : a = WhenUnanswered(asking[c].key[1])
  OBVIOUS
<1>2. asking' = [asking EXCEPT ![c] = a] /\ UNCHANGED <<moment, counter>> /\ asking[c].pc = "over"
  BY <1>1 DEF TtlUnanswered
<1>3. asking'[c] = a /\ a.pc \notin {"over", "refused", "passed", "served"}
  BY <1>1, <1>2 DEF WhenUnanswered, LimitInv, LimitTypeInv
<1>4. ~ Counted(c)'
  BY <1>3 DEF Counted
<1>5. AskedOK(c)'
  BY <1>3, <1>4 DEF AskedOK
<1>. QED BY <1>2, <1>3, <1>4, <1>5, QuietStep

LEMMA LookUpInv ==
  ASSUME LimitInv, NEW c \in Call, NEW lapsed \in BOOLEAN, LookUp(c, lapsed)
  PROVE  LimitInv'
<1>1. PICK q : q = QuotaIdentity(asking[c].bucket, asking[c].token, lapsed)
  OBVIOUS
<1>2. PICK a : a = [pc |-> "served", key |-> asking[c].key, at |-> asking[c].at,
                    since |-> asking[c].since, bucket |-> asking[c].bucket,
                    lapsed |-> lapsed, quota |-> q]
  OBVIOUS
<1>3. asking' = [asking EXCEPT ![c] = a] /\ UNCHANGED <<moment, counter>> /\ asking[c].pc = "passed"
  BY <1>1, <1>2 DEF LookUp
<1>4. /\ asking'[c].pc = "served" /\ asking'[c].key = asking[c].key /\ asking'[c].at = asking[c].at
      /\ asking'[c].since = asking[c].since /\ asking'[c].quota = q
      /\ asking'[c].bucket = asking[c].bucket /\ asking'[c].lapsed = lapsed
  BY <1>2, <1>3 DEF LimitInv, LimitTypeInv
<1>5. Counted(c) /\ AskedOK(c)
  BY <1>3 DEF LimitInv, Counted
<1>6. IF lapsed THEN q = asking[c].bucket ELSE q \in {asking[c].key[2], "session revoked"}
  BY <1>1, <1>3, <1>5 DEF AskedOK, QuotaIdentity
<1>7. AskedOK(c)'
  BY <1>3, <1>4, <1>5, <1>6 DEF AskedOK, Counted, Span, NextWindow
<1>. QED BY <1>3, <1>4, <1>5, <1>7, QuietStep

\* What does not move a request or the clock.
LEMMA StillInv ==
  ASSUME LimitInv, UNCHANGED <<moment, counter, asking>>
  PROVE  LimitInv'
<1>1. LimitTypeInv' /\ WindowsApart'
  BY DEF LimitInv, LimitTypeInv, WindowsApart, Counted, Span
<1>2. \A k \in LimitKey : CounterOK(k)'
  BY DEF LimitInv, CounterOK, Span
<1>3. \A c \in Call : AskedOK(c)'
  BY DEF LimitInv, AskedOK, Counted, Span, NextWindow
<1>4. \A k \in LimitKey : CountsCover(k)'
  BY DEF LimitInv, CountsCover, Through, PassedBy
<1>. QED BY <1>1, <1>2, <1>3, <1>4 DEF LimitInv

LEMMA PassInv ==
  ASSUME LimitInv, Pass
  PROVE  LimitInv'
<1>1. /\ moment \in Nat /\ moment' = moment + 1 /\ asking' = asking
      /\ counter' = [k \in LimitKey |->
           IF counter[k].left <= 1 THEN Absent ELSE [counter[k] EXCEPT !.left = @ - 1]]
  BY DEF Pass, LimitInv, LimitTypeInv
<1>2. ASSUME NEW k \in LimitKey
      PROVE  /\ counter'[k] \in CounterRecord /\ CounterOK(k)'
             /\ NextWindow(k)' \in Nat /\ NextWindow(k) <= NextWindow(k)'
             /\ \/ counter'[k].n = counter[k].n /\ counter'[k].since = counter[k].since
                \/ counter'[k].n = 0
             /\ counter[k].n > 0 =>
                  \/ counter'[k].n > 0 /\ counter'[k].since = counter[k].since
                  \/ counter[k].since + Span(k) <= NextWindow(k)'
  <2>1. /\ NextWindow(k) \in Nat /\ NextWindow(k) <= moment /\ Span(k) \in Nat
        /\ counter[k].n \in Nat /\ counter[k].left \in Nat /\ counter[k].since \in Nat
        /\ counter[k] \in CounterRecord /\ CounterOK(k)
    BY WindowNow, SpanType DEF LimitInv, LimitTypeInv
  <2>2. CASE counter[k].left <= 1
    <3>1. counter'[k] = Absent
      BY <1>1, <2>2
    <3>2. counter'[k] \in CounterRecord /\ counter'[k].n = 0 /\ counter'[k].left = 0
      BY <3>1 DEF Absent, CounterRecord
    <3>3. CounterOK(k)' /\ NextWindow(k)' = moment + 1
      BY <1>1, <3>2 DEF CounterOK, NextWindow
    <3>4. counter[k].n > 0 => counter[k].since + Span(k) <= moment + 1
      BY <1>1, <2>1, <2>2 DEF CounterOK
    <3>5. moment + 1 \in Nat /\ NextWindow(k) <= moment + 1
      BY <1>1, <2>1
    <3>. QED BY <3>2, <3>3, <3>4, <3>5
  <2>3. CASE ~ (counter[k].left <= 1)
    <3>1. PICK m \in Nat : m = counter[k].left - 1 /\ m > 0
      BY <2>1, <2>3
    <3>2. counter'[k] = [counter[k] EXCEPT !.left = m]
      BY <1>1, <2>3, <3>1
    <3>3. /\ counter'[k] \in CounterRecord /\ counter'[k].n = counter[k].n
          /\ counter'[k].left = m /\ counter'[k].since = counter[k].since
      BY <2>1, <3>2 DEF CounterRecord
    <3>4. counter[k].n # 0
      BY <2>1, <2>3 DEF CounterOK
    <3>5. CounterOK(k)'
      <4>1. m + moment' = counter[k].since + Span(k) /\ counter[k].since <= moment'
        BY <1>1, <2>1, <3>1, <3>4 DEF CounterOK
      <4>. QED BY <3>1, <3>3, <3>4, <4>1 DEF CounterOK, Span
    <3>6. NextWindow(k)' = counter[k].since /\ NextWindow(k) = counter[k].since
      BY <3>3, <3>4 DEF NextWindow
    <3>. QED BY <2>1, <3>3, <3>5, <3>6
  <2>. QED BY <2>2, <2>3
<1>3. counter' \in [LimitKey -> CounterRecord] /\ moment' \in Nat /\ moment <= moment'
  <2>1. counter' = [k \in LimitKey |-> counter'[k]]
    BY <1>1
  <2>2. \A k \in LimitKey : counter'[k] \in CounterRecord
    BY <1>2
  <2>3. moment' \in Nat /\ moment <= moment'
    BY <1>1
  <2>. QED BY <2>1, <2>2, <2>3
<1>4. LimitTypeInv'
  BY <1>1, <1>3 DEF LimitInv, LimitTypeInv
<1>5. ASSUME NEW d \in Call PROVE AskedOK(d)'
  <2>1. asking'[d] = asking[d]
    BY <1>1
  <2>. QED BY <1>2, <1>3, <2>1, AskedKept
<1>6. WindowsApart'
  BY <1>1 DEF LimitInv, WindowsApart, Counted, Span
<1>7. ASSUME NEW k \in LimitKey PROVE CountsCover(k)'
  <2>1. \A s : Through(k, s)' = Through(k, s)
    BY <1>1 DEF Through, PassedBy
  <2>2. CountsCover(k)
    BY DEF LimitInv
  <2>3. CASE counter'[k].n = counter[k].n /\ counter'[k].since = counter[k].since
    BY <2>1, <2>2, <2>3 DEF CountsCover
  <2>4. CASE counter'[k].n = 0
    BY <2>1, <2>2, <2>4 DEF CountsCover
  <2>. QED BY <1>2, <2>3, <2>4
<1>. QED BY <1>2, <1>4, <1>5, <1>6, <1>7 DEF LimitInv

LEMMA LimitInitInv == LimitInit => LimitInv
<1> SUFFICES ASSUME LimitInit PROVE LimitInv
  OBVIOUS
<1>1. moment = 0 /\ counter = [k \in LimitKey |-> Absent] /\ asking = [c \in Call |-> NotCalled]
  BY DEF LimitInit
<1>2. LimitTypeInv
  BY <1>1 DEF LimitTypeInv, CounterRecord, Absent
<1>3. \A c \in Call : asking[c].pc = "unsent"
  BY <1>1 DEF NotCalled
<1>4. \A c \in Call : ~ Counted(c) /\ AskedOK(c)
  BY <1>3 DEF Counted, AskedOK
<1>5. WindowsApart
  BY <1>4 DEF WindowsApart
<1>6. ASSUME NEW k \in LimitKey PROVE CounterOK(k) /\ CountsCover(k)
  <2>1. counter[k].n = 0 /\ counter[k].left = 0
    BY <1>1 DEF Absent
  <2>2. ASSUME NEW s \in Nat PROVE Cardinality(Through(k, s)) <= Limit[k[1]]
    <3>1. Through(k, s) = {}
      BY <1>3 DEF Through, PassedBy
    <3>. QED BY <3>1, FS_EmptySet, SpanType
  <2>. QED BY <2>1, <2>2 DEF CounterOK, CountsCover
<1>. QED BY <1>2, <1>4, <1>5, <1>6 DEF LimitInv

LEMMA LimitNextInv == LimitInv /\ [LimitNext]_limitVars => LimitInv'
<1> SUFFICES ASSUME LimitInv, [LimitNext]_limitVars PROVE LimitInv'
  OBVIOUS
<1>1. ASSUME NEW c \in Call, NEW scope \in Scopes, NEW address \in Source,
             NEW access \in AccessToken,
             Count(c, scope, address, access) \/ CountUnanswered(c, scope, address, access)
      PROVE  LimitInv'
  BY <1>1, CountInv, CountUnansweredInv
<1>2. ASSUME NEW c \in Call, ReadTtl(c) \/ TtlUnanswered(c) \/ \E lapsed \in BOOLEAN : LookUp(c, lapsed)
      PROVE  LimitInv'
  BY <1>2, ReadTtlInv, TtlUnansweredInv, LookUpInv
<1>3. ASSUME NEW u \in Member, ChangeStamp(u)
      PROVE  LimitInv'
  BY <1>3, StillInv DEF ChangeStamp
<1>4. CASE Pass
  BY <1>4, PassInv
<1>5. CASE Closed \/ UNCHANGED limitVars
  BY <1>5, StillInv DEF Closed, limitVars
<1>. QED BY <1>1, <1>2, <1>3, <1>4, <1>5 DEF LimitNext

\* Any span of one window's length meets two windows of a key at most.
LEMMA TwoWindowsMeet ==
  ASSUME LimitInv, NEW k \in LimitKey, NEW t \in Nat,
         NEW S, S = {c \in PassedBy(k) : asking[c].at \in t..(t + Span(k) - 1)}
  PROVE  Cardinality(S) <= 2 * Limit[k[1]]
<1>1. Span(k) \in Nat /\ Span(k) >= 1 /\ Limit[k[1]] \in Nat
  BY SpanType
<1>2. ASSUME NEW c \in S
      PROVE  /\ c \in Call /\ Counted(c) /\ asking[c].key = k /\ asking[c].since \in Nat
             /\ c \in Through(k, asking[c].since)
             /\ asking[c].since < t + Span(k) /\ t < asking[c].since + Span(k)
  <2>1. /\ c \in Call /\ asking[c].pc \in {"passed", "served"} /\ asking[c].key = k
        /\ asking[c].at \in t..(t + Span(k) - 1)
    BY DEF PassedBy
  <2>2. Counted(c) /\ AskedOK(c)
    BY <2>1 DEF LimitInv, Counted
  <2>3. /\ asking[c].since \in Nat /\ asking[c].at \in Nat /\ asking[c].since <= asking[c].at
        /\ asking[c].at < asking[c].since + Span(k)
    BY <2>1, <2>2 DEF AskedOK
  <2>4. t <= asking[c].at /\ asking[c].at <= t + Span(k) - 1
    BY <1>1, <2>1, <2>3
  <2>. QED BY <1>1, <2>1, <2>2, <2>3, <2>4 DEF Through, PassedBy
<1>3. ASSUME NEW c \in S, NEW d \in S, asking[c].since # asking[d].since
      PROVE  \/ asking[c].since + Span(k) <= asking[d].since
             \/ asking[d].since + Span(k) <= asking[c].since
  <2>1. asking[c].since < asking[d].since \/ asking[d].since < asking[c].since
    BY <1>2, <1>3
  <2>. QED BY <1>2, <2>1 DEF LimitInv, WindowsApart
<1>4. ASSUME NEW c \in S, NEW d \in S, NEW e \in S, asking[c].since # asking[d].since,
             asking[c].since # asking[e].since, asking[d].since # asking[e].since
      PROVE  FALSE
  <2>1. PICK x \in Nat, y \in Nat, z \in Nat :
          x = asking[c].since /\ y = asking[d].since /\ z = asking[e].since
    BY <1>2
  <2>2. /\ x + Span(k) <= y \/ y + Span(k) <= x
        /\ x + Span(k) <= z \/ z + Span(k) <= x
        /\ y + Span(k) <= z \/ z + Span(k) <= y
    BY <1>3, <1>4, <2>1
  <2>3. /\ x < t + Span(k) /\ t < x + Span(k) /\ y < t + Span(k) /\ t < y + Span(k)
        /\ z < t + Span(k) /\ t < z + Span(k)
    BY <1>2, <2>1
  <2>. QED BY <1>1, <2>2, <2>3
<1>5. ASSUME NEW s \in Nat
      PROVE  /\ IsFiniteSet(Through(k, s)) /\ Cardinality(Through(k, s)) \in Nat
             /\ Cardinality(Through(k, s)) <= Limit[k[1]]
  <2>1. 1 \in Int /\ MaxAsked \in Int
    BY LimitAssumption
  <2>2. IsFiniteSet(Call) /\ Through(k, s) \subseteq Call
    BY <2>1, FS_Interval DEF Call, Through, PassedBy
  <2>3. IsFiniteSet(Through(k, s)) /\ Cardinality(Through(k, s)) \in Nat
    BY <2>2, FS_Subset, FS_CardinalityType
  <2>. QED BY <2>3 DEF LimitInv, CountsCover
<1>6. CASE S = {}
  <2>1. Cardinality(S) = 0
    BY <1>6, FS_EmptySet
  <2>. QED BY <1>1, <2>1
<1>7. CASE S # {}
  <2>1. PICK c \in S, d \in S :
          asking[d].since # asking[c].since \/ \A e \in S : asking[e].since = asking[c].since
    BY <1>7
  <2>2. PICK x \in Nat, y \in Nat : x = asking[c].since /\ y = asking[d].since
    BY <1>2
  <2>3. \A e \in S : asking[e].since = x \/ asking[e].since = y
    BY <1>4, <2>1, <2>2
  <2>4. PICK A, B : A = Through(k, x) /\ B = Through(k, y)
    OBVIOUS
  <2>5. S \subseteq A \cup B
    BY <1>2, <2>3, <2>4
  <2>6. /\ IsFiniteSet(A) /\ IsFiniteSet(B) /\ Cardinality(A) \in Nat /\ Cardinality(B) \in Nat
        /\ Cardinality(A) <= Limit[k[1]] /\ Cardinality(B) <= Limit[k[1]]
    BY <1>5, <2>2, <2>4
  <2>7. /\ IsFiniteSet(A \cup B) /\ IsFiniteSet(A \cap B)
        /\ Cardinality(A \cup B) = Cardinality(A) + Cardinality(B) - Cardinality(A \cap B)
    BY <2>6, FS_Union, FS_Intersection
  <2>8. Cardinality(A \cap B) \in Nat
    BY <2>7, FS_CardinalityType
  <2>9. Cardinality(S) \in Nat /\ Cardinality(S) <= Cardinality(A \cup B)
    BY <2>5, <2>7, FS_Subset, FS_CardinalityType
  <2>. QED BY <1>1, <2>6, <2>7, <2>8, <2>9
<1>. QED BY <1>6, <1>7

-----------------------------------------------------------------------------

\* The invariant of the limits holds in every state.
THEOREM CountersHold == LimitSpec => []LimitInv
BY LimitInitInv, LimitNextInv, PTL DEF LimitSpec

\* However requests are timed, a limit lets two windows' worth through in any span
\* of a window's length at most, a refusal ends with its Retry-After, and a route
\* charges the quota of whom it counted, or of the guest at that address when the
\* token lapsed in between (enforce_fixed_window, rate_limit_identity,
\* get_optional_user).
THEOREM LimitsAreHonoured == LimitSpec => []LimitsHold
<1>1. LimitInv => LimitsHold
  <2> SUFFICES ASSUME LimitInv PROVE LimitsHold
    OBVIOUS
  <2>1. BurstIsBounded
    <3> SUFFICES ASSUME NEW k \in LimitKey
                 PROVE /\ \A t \in 0..LastTick :
                            Cardinality({c \in PassedBy(k) : asking[c].at \in t..(t + Span(k) - 1)})
                              <= 2 * Limit[k[1]]
                       /\ \A c \in PassedBy(k) :
                            Cardinality({d \in PassedBy(k) : asking[d].since = asking[c].since})
                              <= Limit[k[1]]
      BY DEF BurstIsBounded, Span
    <3>1. ASSUME NEW t \in 0..LastTick
          PROVE  Cardinality({c \in PassedBy(k) : asking[c].at \in t..(t + Span(k) - 1)})
                   <= 2 * Limit[k[1]]
      <4>1. t \in Nat
        BY LimitAssumption
      <4>. QED BY <4>1, TwoWindowsMeet
    <3>2. ASSUME NEW c \in PassedBy(k)
          PROVE  Cardinality({d \in PassedBy(k) : asking[d].since = asking[c].since})
                   <= Limit[k[1]]
      <4>1. c \in Call /\ Counted(c) /\ AskedOK(c)
        BY DEF PassedBy, Counted, LimitInv
      <4>2. asking[c].since \in Nat
        BY <4>1 DEF AskedOK
      <4>3. Cardinality(Through(k, asking[c].since)) <= Limit[k[1]]
        BY <4>2 DEF LimitInv, CountsCover
      <4>. QED BY <4>3 DEF Through
    <3>. QED BY <3>1, <3>2
  <2>2. RefusalsEnd
    <3> SUFFICES ASSUME NEW c \in Call, asking[c].pc = "refused", moment >= asking[c].until,
                        counter[asking[c].key].n # 0,
                        counter[asking[c].key].since = asking[c].since
                 PROVE  FALSE
      BY DEF RefusalsEnd
    <3>1. Counted(c) /\ AskedOK(c)
      BY DEF Counted, LimitInv
    <3>2. PICK k \in LimitKey : k = asking[c].key
      BY <3>1 DEF AskedOK
    <3>3. asking[c].until \in Nat /\ asking[c].since + Span(k) <= asking[c].until
      BY <3>1, <3>2 DEF AskedOK
    <3>4. /\ counter[k].left > 0 /\ counter[k].left \in Nat /\ counter[k].since \in Nat
          /\ counter[k].left + moment = counter[k].since + Span(k) /\ moment \in Nat
      BY <3>2, WindowNow DEF LimitInv, CounterOK
    <3>5. Span(k) \in Nat
      BY SpanType
    <3>. QED BY <3>2, <3>3, <3>4, <3>5
  <2>3. QuotaFollowsLimit
    BY DEF LimitInv, AskedOK, QuotaFollowsLimit
  <2>. QED BY <2>1, <2>2, <2>3 DEF LimitsHold
<1>. QED BY <1>1, CountersHold, PTL

-----------------------------------------------------------------------------
(* The identity of teams, for any clubs and names.                          *)

\* A row that learnt an id is bound to the club of that id; one that has not is
\* bound to the club that has its name, if a club has it.
IdentityInv ==
  /\ called \in [Club -> Name] /\ Injective(called)
  /\ alias \in [Name -> Alias] /\ confused \in BOOLEAN
  /\ ~confused =>
       /\ \A n \in Name : alias[n].ext # NoId => alias[n].team = alias[n].ext
       /\ \A c \in Club :
            alias[called[c]].ext = NoId => alias[called[c]].team \in {c, NoTeam}

LEMMA IdentityInitInv == IdentityInit => IdentityInv
<1> SUFFICES ASSUME IdentityInit PROVE IdentityInv
  OBVIOUS
<1>1. called \in [Club -> Name] /\ Injective(called) /\ confused = FALSE
  BY DEF IdentityInit
<1>2. NoAlias \in Alias /\ NoAlias.ext = NoId /\ NoAlias.team = NoTeam
  BY DEF NoAlias, Alias
<1>3. alias = [n \in Name |-> NoAlias]
  BY DEF IdentityInit
<1>. QED BY <1>1, <1>2, <1>3 DEF IdentityInv

LEMMA IdentityNextInv == IdentityInv /\ [IdentityNext]_identityVars => IdentityInv'
<1> SUFFICES ASSUME IdentityInv, [IdentityNext]_identityVars PROVE IdentityInv'
  OBVIOUS
<1>1. ASSUME UNCHANGED <<called, alias, confused>> PROVE IdentityInv'
  BY <1>1 DEF IdentityInv, Injective
<1>2. ASSUME NEW c \in Club, Seed(c) PROVE IdentityInv'
  BY <1>1, <1>2 DEF Seed
<1>3. ASSUME NEW c \in Club, NEW n \in Name, Rename(c, n) PROVE IdentityInv'
  <2>1. /\ called' = [called EXCEPT ![c] = n] /\ alias' = alias
        /\ \A d \in Club : called[d] # n
        /\ confused' = (confused \/ (alias[n].team \notin {c, NoTeam} /\ alias[n].ext = NoId))
    BY <1>3 DEF Rename
  <2>2. called' \in [Club -> Name] /\ Injective(called)' /\ confused' \in BOOLEAN
    BY <2>1 DEF IdentityInv, Injective
  <2>3. ASSUME ~confused', NEW d \in Club, alias[called'[d]].ext = NoId
        PROVE  alias[called'[d]].team \in {d, NoTeam}
    <3>1. CASE d = c
      BY <2>1, <2>3, <3>1 DEF IdentityInv
    <3>2. CASE d # c
      BY <2>1, <2>3, <3>2 DEF IdentityInv
    <3>. QED BY <3>1, <3>2
  <2>. QED BY <2>1, <2>2, <2>3 DEF IdentityInv
<1>4. ASSUME NEW c \in Club, NEW id \in {c, NoId}, Resolve(called[c], id)
      PROVE  IdentityInv'
  <2>1. PICK entry : entry = Found(called[c], id)
    OBVIOUS
  <2>2. /\ alias[entry] # NoAlias /\ UNCHANGED <<called, confused>>
        /\ alias' = IF id # NoId /\ alias[entry].ext = NoId
                      THEN [alias EXCEPT ![entry].ext = id] ELSE alias
    BY <1>4, <2>1 DEF Resolve
  <2>3. CASE id # NoId /\ alias[entry].ext = NoId
    <3>1. id = c /\ c # NoId
      BY <2>3
    <3>2. entry = called[c] /\ entry \in Name
      BY <2>1, <2>3, <3>1 DEF Found, Owns, IdentityInv
    <3>3. alias[entry] \in Alias
      BY <3>2 DEF IdentityInv
    <3>4. PICK team \in Club \cup {NoTeam} : alias[entry] = [team |-> team, ext |-> NoId]
      <4>1. alias[entry] \in [team : Club \cup {NoTeam}, ext : Club \cup {NoId}]
        BY <3>3 DEF Alias
      <4>2. /\ alias[entry].team \in Club \cup {NoTeam}
            /\ alias[entry] = [team |-> alias[entry].team, ext |-> alias[entry].ext]
        BY <4>1
      <4>. QED BY <2>3, <4>2
    <3>5. team # NoTeam
      BY <2>2, <3>4 DEF NoAlias
    <3>6. alias' = [alias EXCEPT ![entry] = [team |-> team, ext |-> c]]
      <4>1. alias' = [alias EXCEPT ![entry] = [alias[entry] EXCEPT !.ext = c]]
        BY <2>2, <2>3, <3>1
      <4>2. [[team |-> team, ext |-> NoId] EXCEPT !.ext = c] = [team |-> team, ext |-> c]
        OBVIOUS
      <4>. QED BY <3>4, <4>1, <4>2
    <3>7. alias' \in [Name -> Alias]
      BY <3>2, <3>4, <3>6 DEF Alias, IdentityInv
    <3>8. /\ alias'[entry].team = team /\ alias'[entry].ext = c
          /\ \A n \in Name \ {entry} : alias'[n] = alias[n]
      BY <3>2, <3>6 DEF IdentityInv
    <3>9. ~confused => team = c
      BY <2>3, <3>2, <3>4, <3>5 DEF IdentityInv
    <3>10. ASSUME ~confused, NEW d \in Club, alias'[called[d]].ext = NoId
           PROVE  alias'[called[d]].team \in {d, NoTeam}
      <4>1. called[d] # entry /\ called[d] \in Name
        BY <3>1, <3>8, <3>10 DEF IdentityInv
      <4>. QED BY <3>8, <3>10, <4>1 DEF IdentityInv
    <3>11. ASSUME ~confused, NEW n \in Name, alias'[n].ext # NoId
           PROVE  alias'[n].team = alias'[n].ext
      BY <3>8, <3>9, <3>11 DEF IdentityInv
    <3>. QED BY <2>2, <3>7, <3>10, <3>11 DEF IdentityInv, Injective
  <2>4. CASE ~ (id # NoId /\ alias[entry].ext = NoId)
    BY <1>1, <2>2, <2>4
  <2>. QED BY <2>3, <2>4
<1>5. ASSUME NEW c \in Club, NEW id \in {c, NoId}, RecordUnmapped(called[c], id)
      PROVE  IdentityInv'
  BY <1>1, <1>5 DEF RecordUnmapped
<1>6. ASSUME NEW c \in Club, NEW id \in {c, NoId}, Map(called[c], c, id)
      PROVE  IdentityInv'
  <2>1. PICK n \in Name : n = called[c]
    BY DEF IdentityInv
  <2>2. PICK ext : ext = IF id # NoId THEN id ELSE alias[n].ext
    OBVIOUS
  <2>3. /\ alias' = [alias EXCEPT ![n] = [team |-> c, ext |-> ext]] /\ called' = called
        /\ confused' = (confused \/ (id = NoId /\ alias[n].ext \notin {c, NoId}))
    BY <1>6, <2>1, <2>2 DEF Map
  <2>4. ext \in Club \cup {NoId} /\ alias[n].ext \in Club \cup {NoId}
    BY <2>1, <2>2 DEF IdentityInv, Alias
  <2>5. alias' \in [Name -> Alias] /\ confused' \in BOOLEAN
    BY <2>1, <2>3, <2>4 DEF IdentityInv, Alias
  <2>6. /\ alias'[n].team = c /\ alias'[n].ext = ext
        /\ \A m \in Name \ {n} : alias'[m] = alias[m]
    BY <2>3 DEF IdentityInv
  <2>7. ~confused' => ~confused /\ ext \in {c, NoId}
    BY <2>2, <2>3
  <2>8. ASSUME ~confused', NEW m \in Name, alias'[m].ext # NoId
        PROVE  alias'[m].team = alias'[m].ext
    BY <2>6, <2>7, <2>8 DEF IdentityInv
  <2>9. ASSUME ~confused', NEW d \in Club, alias'[called'[d]].ext = NoId
        PROVE  alias'[called'[d]].team \in {d, NoTeam}
    <3>1. CASE d = c
      BY <2>1, <2>3, <2>6, <3>1
    <3>2. CASE d # c
      <4>1. called'[d] \in Name /\ called'[d] # n /\ called'[d] = called[d]
        BY <2>1, <2>3, <3>2 DEF IdentityInv, Injective
      <4>. QED BY <2>6, <2>7, <2>9, <4>1 DEF IdentityInv
    <3>. QED BY <3>1, <3>2
  <2>. QED BY <2>3, <2>5, <2>8, <2>9 DEF IdentityInv, Injective
<1>7. CASE UNCHANGED identityVars
  BY <1>1, <1>7 DEF identityVars
<1>. QED BY <1>2, <1>3, <1>4, <1>5, <1>6, <1>7 DEF IdentityNext

\* A club whose stable id is in some row resolves to its own team, whatever clubs
\* take which names, for any number of them (resolve_team, map_team).
THEOREM IdentitySurvives == IdentitySpec => []IdentityKept
<1>1. IdentityInv => IdentityKept
  <2> SUFFICES ASSUME IdentityInv, ~confused, NEW c \in Club, NEW n \in Name, alias[n].ext = c
               PROVE  alias[Found(called[c], c)].team = c
    BY DEF IdentityKept
  <2>1. Owns(n, c)
    BY ClubAssumption DEF Owns
  <2>2. PICK m \in Name : m = Found(called[c], c) /\ Owns(m, c)
    BY <2>1 DEF Found
  <2>. QED BY <2>2 DEF Owns, IdentityInv
<1>2. IdentitySpec => []IdentityInv
  BY IdentityInitInv, IdentityNextInv, PTL DEF IdentitySpec
<1>. QED BY <1>1, <1>2, PTL

-----------------------------------------------------------------------------
(* Client addresses and the watch, for any addresses, any forged header and *)
(* any number of sightings.                                                 *)

\* A function on the first numbers is a sequence of that length.
LEMMA AsSequence ==
  ASSUME NEW S, NEW m \in Nat, NEW f \in [1..m -> S]
  PROVE  f \in Seq(S) /\ Len(f) = m
<1>1. f \in Seq(S)
  BY SeqDef
<1>2. PICK l \in Nat : l = Len(f)
  BY <1>1, LenProperties
<1>3. 1..l = 1..m
  BY <1>1, <1>2, LenProperties
<1>4. \A a, b \in Nat : (\A i \in Int : i \in 1..a <=> i \in 1..b) => a <= b
  <2> SUFFICES ASSUME NEW a \in Nat, NEW b \in Nat, \A i \in Int : i \in 1..a <=> i \in 1..b
               PROVE  a <= b
    OBVIOUS
  <2>1. CASE a = 0
    BY <2>1
  <2>2. CASE a # 0
    <3>1. a \in Int /\ a \in 1..a
      BY <2>2
    <3>. QED BY <3>1
  <2>. QED BY <2>1, <2>2
<1>5. l <= m /\ m <= l
  BY <1>3, <1>4
<1>6. l = m
  BY <1>5
<1>. QED BY <1>1, <1>2, <1>6

\* A path has a sender, and proxies after it.
LEMMA PathShape ==
  ASSUME NEW path \in Path
  PROVE  /\ path \in Seq(Written) /\ Len(path) \in Nat \ {0}
         /\ \A i \in 1..Len(path) : path[i] \in Written
         /\ \A i \in 2..Len(path) : path[i].ip \in Proxies
<1>1. PICK sender \in Written, relays \in Relays : path = <<sender>> \o relays
  <2>1. PICK sender \in Written : path \in {<<sender>> \o relays : relays \in Relays}
    BY DEF Path
  <2>. QED BY <2>1
<1>2. PICK m \in Nat : relays \in [1..m -> {w \in Written : w.ip \in Proxies}]
  <2>1. PICK m \in 0..2 : relays \in [1..m -> {w \in Written : w.ip \in Proxies}]
    BY DEF Relays
  <2>2. m \in Nat
    OBVIOUS
  <2>. QED BY <2>1, <2>2
<1>3. relays \in Seq(Written) /\ Len(relays) = m /\ \A i \in 1..m : relays[i].ip \in Proxies
  <2>1. \A i \in 1..m : relays[i] \in Written /\ relays[i].ip \in Proxies
    BY <1>2
  <2>2. relays \in [1..m -> Written]
    BY <1>2, <2>1
  <2>3. relays \in Seq(Written) /\ Len(relays) = m
    BY <2>2, AsSequence
  <2>. QED BY <2>1, <2>3
<1>4. <<sender>> \in Seq(Written) /\ Len(<<sender>>) = 1 /\ <<sender>>[1] = sender
  OBVIOUS
<1>5. /\ path \in Seq(Written) /\ Len(path) = 1 + m
      /\ \A i \in 1..(1 + m) : path[i] = IF i <= 1 THEN <<sender>>[i] ELSE relays[i - 1]
  BY <1>1, <1>3, <1>4, ConcatProperties
<1>6. ASSUME NEW i \in 2..(1 + m) PROVE path[i].ip \in Proxies
  <2>1. path[i] = relays[i - 1] /\ i - 1 \in 1..m
    BY <1>5
  <2>. QED BY <1>3, <2>1
<1>7. \A i \in 1..Len(path) : path[i] \in Written
  BY <1>5, ElementOfSeq
<1>. QED BY <1>5, <1>6, <1>7

\* A header that a client may have begun is a list of hops.
LEMMA ForgedShape ==
  ASSUME NEW forged \in Forged
  PROVE  forged \in Seq(Hop) /\ Len(forged) \in Nat
<1>1. PICK m \in Nat : forged \in [1..m -> Hop]
  BY AddressAssumption DEF Forged
<1>2. forged \in Seq(Hop)
  BY <1>1, SeqDef
<1>. QED BY <1>2, LenProperties

\* The walk passes the proxies of the path, and ends at its sender.
LEMMA WalkEndsAtSender ==
  ASSUME NEW path \in Path, NEW forged \in Forged, NEW n, n = Len(path),
         NEW header, header = forged \o SubSeq(path, 1, n - 1), path[1].ip \notin Trusted
  PROVE  ResolveClientIp(path[n], header) = path[1].ip
<1>1. /\ n \in Nat \ {0} /\ \A i \in 1..n : path[i] \in Written
      /\ \A i \in 2..n : path[i].ip \in Proxies
  BY PathShape
<1>2. \A i \in 1..n : path[i].ip \in Address /\ path[i].ip # Garbage
  BY <1>1, AddressAssumption DEF Written
<1>3. CASE n = 1
  BY <1>2, <1>3 DEF ResolveClientIp, Parse
<1>4. CASE n # 1
  <2>1. PICK f \in Nat : f = Len(forged) /\ forged \in Seq(Hop)
    BY ForgedShape
  <2>2. PICK sub : sub = SubSeq(path, 1, n - 1)
    OBVIOUS
  <2>3. /\ sub \in Seq(Hop) /\ Len(sub) = n - 1
        /\ \A i \in 1..(n - 1) : sub[i] = path[i]
    <3>1. 1 \in Int /\ n - 1 \in Int /\ 1 <= n - 1
      BY <1>1, <1>4
    <3>2. \A i \in 1..(n - 1) : path[i] \in Hop
      BY <1>1 DEF Hop
    <3>3. /\ sub \in Seq(Hop) /\ Len(sub) = IF 1 <= n - 1 THEN n - 1 - 1 + 1 ELSE 0
          /\ \A i \in 1..(n - 1 - 1 + 1) : sub[i] = path[1 + i - 1]
      BY <2>2, <3>1, <3>2, SubSeqProperties
    <3>4. n - 1 - 1 + 1 = n - 1 /\ \A i \in 1..(n - 1) : 1 + i - 1 = i
      BY <1>1
    <3>. QED BY <3>1, <3>3, <3>4
  <2>4. /\ header \in Seq(Hop) /\ Len(header) = f + (n - 1)
        /\ \A i \in 1..(f + (n - 1)) : header[i] = IF i <= f THEN forged[i] ELSE sub[i - f]
    BY <2>1, <2>2, <2>3, ConcatProperties
  <2>5. DOMAIN header = 1..(f + n - 1)
    <3>1. DOMAIN header = 1..Len(header)
      BY <2>4, LenProperties
    <3>. QED BY <1>1, <2>4, <3>1
  <2> DEFINE Hops == [i \in DOMAIN header |-> Parse(header[Len(header) + 1 - i])]
             reached == {i \in DOMAIN Hops : /\ \A j \in 1..i : Hops[j] # Garbage
                                             /\ \A j \in 1..(i - 1) : Hops[j] \in Trusted}
  <2>6. Walk(header) = [i \in reached |-> Hops[i]]
    BY DEF Walk
  <2>7. DOMAIN Hops = 1..(f + n - 1)
    BY <2>5
  <2>8. \A i \in 1..(n - 1) : i \in 1..(f + n - 1) /\ Hops[i] = path[n - i].ip
    <3> SUFFICES ASSUME NEW i \in 1..(n - 1)
                 PROVE  i \in 1..(f + n - 1) /\ Hops[i] = path[n - i].ip
      OBVIOUS
    <3>1. PICK x \in Nat : x = f + (n - i)
      <4>1. f + (n - i) \in Nat
        BY <1>1, <2>1
      <4>. QED BY <4>1
    <3>2. i \in 1..(f + n - 1) /\ Len(header) + 1 - i = x
      BY <1>1, <2>1, <2>4, <3>1
    <3>3. Hops[i] = Parse(header[x])
      BY <2>5, <3>2
    <3>4. /\ x \in 1..(f + (n - 1)) /\ ~ (x <= f) /\ n - i \in 1..(n - 1) /\ x - f = n - i
      BY <1>1, <2>1, <3>1
    <3>5. header[x] = sub[x - f]
      BY <2>4, <3>4, Zenon
    <3>6. sub[n - i] = path[n - i]
      BY <2>3, <3>4
    <3>. QED BY <3>2, <3>3, <3>4, <3>5, <3>6 DEF Parse
  <2> HIDE DEF Hops
  <2>9. \A i \in 1..(n - 1) : Hops[i] # Garbage
    BY <1>1, <1>2, <2>8
  <2>10. \A i \in 1..(n - 2) : Hops[i] \in Trusted
    <3> SUFFICES ASSUME NEW i \in 1..(n - 2) PROVE Hops[i] \in Trusted
      OBVIOUS
    <3>1. n - i \in 2..n /\ i \in 1..(n - 1)
      BY <1>1
    <3>. QED BY <1>1, <2>8, <3>1 DEF Trusted
  <2>11. Hops[n - 1] = path[1].ip
    <3>1. n - 1 \in 1..(n - 1) /\ n - (n - 1) = 1
      BY <1>1, <1>4
    <3>. QED BY <2>8, <3>1
  <2>12. reached = 1..(n - 1)
    <3>1. ASSUME NEW i \in reached PROVE i \in 1..(n - 1)
      <4>1. i \in 1..(f + n - 1) /\ \A j \in 1..(i - 1) : Hops[j] \in Trusted
        BY <2>7
      <4>2. ~ (n - 1 \in 1..(i - 1))
        BY <2>11, <4>1
      <4>. QED BY <1>1, <1>4, <2>1, <4>1, <4>2
    <3>2. ASSUME NEW i \in 1..(n - 1) PROVE i \in reached
      <4>1. i \in DOMAIN Hops
        BY <2>7, <2>8
      <4>2. \A j \in 1..i : j \in 1..(n - 1)
        BY <1>1
      <4>3. \A j \in 1..(i - 1) : j \in 1..(n - 2)
        BY <1>1
      <4>. QED BY <2>9, <2>10, <4>1, <4>2, <4>3
    <3>. QED BY <3>1, <3>2
  <2> HIDE DEF reached
  <2>13. Cardinality(reached) = n - 1
    <3>1. 1 \in Int /\ n - 1 \in Int /\ 1 <= n - 1
      BY <1>1, <1>4
    <3>2. Cardinality(1..(n - 1)) = IF 1 > n - 1 THEN 0 ELSE n - 1 - 1 + 1
      BY <3>1, FS_Interval
    <3>. QED BY <1>1, <2>12, <3>1, <3>2
  <2>14. n - 1 \in reached /\ reached # {}
    <3>1. n - 1 \in 1..(n - 1)
      BY <1>1, <1>4
    <3>. QED BY <2>12, <3>1
  <2>15. DOMAIN Walk(header) = reached /\ Walk(header)[n - 1] = path[1].ip
    BY <2>6, <2>11, <2>14
  <2>16. path[n].ip \in Trusted /\ path[n].ip # Garbage
    BY <1>1, <1>2, <1>4 DEF Trusted
  <2>. QED BY <2>13, <2>14, <2>15, <2>16 DEF ResolveClientIp, Parse
<1>. QED BY <1>3, <1>4

\* While no write is under way none was started within the interval unless it
\* ended; what is not recorded is pending or on its way.
ClientInv ==
  /\ pending \in Nat /\ recorded \in Nat /\ sighted \in Nat /\ recent \in BOOLEAN
  /\ flushing \in [count : Nat, applied : BOOLEAN]
  /\ ~recent => flushing = NoFlush
  /\ SightingsConserved
  /\ CallerIsWhoConnected

LEMMA ClientInitInv == ClientInit => ClientInv
<1> SUFFICES ASSUME ClientInit PROVE ClientInv
  OBVIOUS
<1>1. /\ pending = 0 /\ recorded = 0 /\ sighted = 0 /\ recent = FALSE /\ flushing = NoFlush
      /\ request = NoRequest
  BY DEF ClientInit
<1>2. NoFlush \in [count : Nat, applied : BOOLEAN] /\ NoFlush.count = 0 /\ ~NoFlush.applied
  BY DEF NoFlush
<1>3. SightingsConserved
  BY <1>1, <1>2 DEF SightingsConserved
<1>4. CallerIsWhoConnected
  BY <1>1 DEF CallerIsWhoConnected
<1>. QED BY <1>1, <1>2, <1>3, <1>4 DEF ClientInv

LEMMA ClientNextInv == ClientInv /\ [ClientNext]_clientVars => ClientInv'
<1> SUFFICES ASSUME ClientInv, [ClientNext]_clientVars PROVE ClientInv'
  OBVIOUS
<1>1. /\ pending \in Nat /\ recorded \in Nat /\ sighted \in Nat
      /\ flushing \in [count : Nat, applied : BOOLEAN]
      /\ recorded + pending + (IF flushing.applied THEN 0 ELSE flushing.count) >= sighted
      /\ NoFlush \in [count : Nat, applied : BOOLEAN] /\ NoFlush.count = 0 /\ ~NoFlush.applied
  BY DEF ClientInv, SightingsConserved, NoFlush
<1>2. flushing.count \in Nat /\ flushing.applied \in BOOLEAN
  BY <1>1
<1>3. ASSUME UNCHANGED watchVars, request' = NoRequest \/ UNCHANGED request
      PROVE  ClientInv'
  BY <1>3 DEF ClientInv, SightingsConserved, CallerIsWhoConnected, watchVars
<1>4. ASSUME UNCHANGED request PROVE CallerIsWhoConnected'
  BY <1>4 DEF ClientInv, CallerIsWhoConnected
<1>5. CASE Arrive
  <2>0. PICK path \in Path, forged \in Forged :
          LET n == Len(path)
              header == forged \o SubSeq(path, 1, n - 1)
          IN /\ request' = [path |-> path, forwardedFor |-> header,
                            client |-> ResolveClientIp(path[n], header)]
             /\ IF InternalClient(path[n], header)
                  THEN sighted' = sighted + 1 /\ Start(pending + 1) /\ UNCHANGED recorded
                  ELSE UNCHANGED watchVars
    BY <1>5 DEF Arrive
  <2>1. PICK n, header :
          /\ n = Len(path) /\ header = forged \o SubSeq(path, 1, n - 1)
          /\ request' = [path |-> path, forwardedFor |-> header,
                         client |-> ResolveClientIp(path[n], header)]
          /\ IF InternalClient(path[n], header)
               THEN sighted' = sighted + 1 /\ Start(pending + 1) /\ UNCHANGED recorded
               ELSE UNCHANGED watchVars
    BY <2>0
  <2>2. request'.path = path /\ request'.client = ResolveClientIp(path[n], header)
    BY <2>1
  <2>3. CallerIsWhoConnected'
    <3>1. path[1].ip \notin Trusted => ResolveClientIp(path[n], header) = path[1].ip
      BY <2>1, WalkEndsAtSender
    <3>. QED BY <2>2, <3>1 DEF CallerIsWhoConnected
  <2>4. CASE InternalClient(path[n], header)
    <3>1. sighted' = sighted + 1 /\ Start(pending + 1) /\ recorded' = recorded
      BY <2>1, <2>4
    <3>2. CASE recent
      <4>1. pending' = pending + 1 /\ recent' = recent /\ flushing' = flushing
        BY <3>1, <3>2 DEF Start
      <4>2. recorded' + pending' + (IF flushing.applied THEN 0 ELSE flushing.count) >= sighted'
        BY <1>1, <1>2, <3>1, <4>1
      <4>. QED BY <1>1, <2>3, <3>1, <4>1, <4>2 DEF ClientInv, SightingsConserved
    <3>3. CASE ~recent
      <4>1. /\ flushing = NoFlush /\ recent \in BOOLEAN /\ pending' = 0 /\ recent' = TRUE
            /\ flushing' = [count |-> pending + 1, applied |-> FALSE]
        BY <3>1, <3>3 DEF Start, ClientInv
      <4>2. flushing'.count = pending + 1 /\ ~flushing'.applied
        BY <4>1
      <4>3. flushing' \in [count : Nat, applied : BOOLEAN]
        BY <1>1, <4>1
      <4>4. recorded + pending >= sighted
        BY <1>1, <4>1
      <4>5. recorded' + pending' + flushing'.count >= sighted'
        BY <1>1, <3>1, <4>1, <4>2, <4>4
      <4>. QED BY <1>1, <2>3, <3>1, <4>1, <4>2, <4>3, <4>5 DEF ClientInv, SightingsConserved
    <3>. QED BY <3>2, <3>3
  <2>5. CASE ~InternalClient(path[n], header)
    <3>1. UNCHANGED watchVars
      BY <2>1, <2>5
    <3>. QED BY <2>3, <3>1 DEF ClientInv, SightingsConserved, watchVars
  <2>. QED BY <2>4, <2>5
<1>6. CASE Serve
  BY <1>3, <1>6 DEF Serve
<1>7. CASE Apply
  <2>1. /\ ~flushing.applied /\ recorded' = recorded + flushing.count /\ recent' = recent
        /\ flushing' = [flushing EXCEPT !.applied = TRUE] /\ request' = request
        /\ pending' = pending /\ sighted' = sighted /\ flushing # NoFlush
    BY <1>7 DEF Apply
  <2>2. flushing' \in [count : Nat, applied : BOOLEAN] /\ flushing'.applied
    BY <1>1, <2>1
  <2>3. recorded' \in Nat /\ recorded' + pending' + 0 >= sighted'
    BY <1>1, <1>2, <2>1
  <2>. QED BY <1>1, <1>4, <2>1, <2>2, <2>3 DEF ClientInv, SightingsConserved
<1>8. CASE Flushed
  <2>1. flushing.applied /\ flushing' = NoFlush /\ UNCHANGED <<request, pending, recent, recorded, sighted>>
    BY <1>8 DEF Flushed
  <2>. QED BY <1>1, <1>4, <2>1 DEF ClientInv, SightingsConserved
<1>9. CASE FlushFails
  <2>1. /\ flushing' = NoFlush /\ pending' = pending + flushing.count
        /\ UNCHANGED <<request, recent, recorded, sighted>>
    BY <1>9 DEF FlushFails, RestorePending
  <2>2. pending' \in Nat /\ recorded + pending' + 0 >= sighted
    BY <1>1, <1>2, <2>1
  <2>. QED BY <1>1, <1>4, <2>1, <2>2 DEF ClientInv, SightingsConserved
<1>10. CASE MinutePasses
  BY <1>1, <1>4, <1>10 DEF MinutePasses, ClientInv, SightingsConserved
<1>11. CASE UNCHANGED clientVars
  BY <1>3, <1>11 DEF clientVars, watchVars
<1>. QED BY <1>5, <1>6, <1>7, <1>8, <1>9, <1>10, <1>11 DEF ClientNext

\* Whatever stands in front of the header, the header makes nobody of the client but
\* the address that the outermost proxy saw, and no sighting is lost while the
\* process lives (resolve_client_ip, CollapseWatch).
THEOREM CallersKnown == ClientSpec => []CallersAreKnown
<1>1. ClientInv => CallersAreKnown
  BY DEF ClientInv, CallersAreKnown
<1>2. ClientSpec => []ClientInv
  BY ClientInitInv, ClientNextInv, PTL DEF ClientSpec
<1>. QED BY <1>1, <1>2, PTL

-----------------------------------------------------------------------------
(* The session of a tab, for any accounts, answers and other tabs.          *)

Who == Account \cup {Nobody}
AskedRecord ==
  [kind : {"refresh", "login", "logout", "none"}, who : Who, at : {"sent", "body", "done"},
   waiter : {"page", "late", "none"}, epoch : Nat, applied : Nat,
   stale : BOOLEAN, outdated : BOOLEAN]
TabRecord ==
  [token : Nat, user : Who, age : {"none", "fresh", "near", "expired"},
   hydrated : {"no", "running", "yes"}, expired : BOOLEAN, renewAt : BOOLEAN,
   retryAt : BOOLEAN, limited : BOOLEAN, epoch : Nat, applied : Nat, mixed : BOOLEAN]
RunRecord ==
  [at : {"none", "first", "second", "sleep"}, req : Nat, epoch : Nat, applied : Nat]
CallRecord ==
  [at : {"idle", "hydrate", "renew", "sent", "again", "renewAgain", "replay"},
   kind : {"api", "me"}, settled : {"no", "resolved", "rejected"}, token : Nat,
   user : Who, who : Who, as : Who, epoch : Nat]

\* What ended, or was applied, since the waiting for q began shows in the counts.
Dated(q, epoch, applied, t) ==
  /\ epoch <= t.epoch /\ applied <= t.applied
  /\ q.stale => epoch < t.epoch
  /\ q.outdated => applied < t.applied

\* The request q at place i, beside the run n and the tab t.
AskOK(q, i, n, t) ==
  /\ q.kind # "refresh" => ~q.stale /\ ~q.outdated
  /\ q.kind = "none" => q.at = "done"
  /\ q.at = "body" => q.waiter \in {"page", "late"} /\ q.kind \in {"refresh", "login"}
  /\ q.at # "done" /\ q.kind = "refresh" /\ q.waiter = "page" =>
       n.at \in {"first", "second"} /\ n.req = i
  /\ q.at # "done" /\ q.waiter = "late" => q.kind = "refresh" /\ Dated(q, q.epoch, q.applied, t)

\* A run waits for its own request; one that sleeps has its answer.
RunOK(list, n, t) ==
  /\ n.at = "none" => n = NoRun
  /\ n.at # "none" =>
       n.req \in 1..Len(list) /\ n.epoch <= t.epoch /\ n.applied <= t.applied
  /\ n.at = "sleep" => list[n.req].at = "done"
  /\ n.at \in {"first", "second"} =>
       LET q == list[n.req] IN
       q.kind = "refresh" /\ q.waiter = "page" /\ q.at # "done" /\ Dated(q, n.epoch, n.applied, t)

\* The token of the tab was brought by a request that nothing overtook, and
\* stands beside its account unless reloadUser has written another one.
TokenOK(list, t) ==
  t.token # NoToken =>
    /\ t.token \in 1..Len(list)
    /\ LET q == list[t.token] IN
       /\ q.at = "done" /\ ~q.stale /\ (q.waiter = "late" => ~q.outdated)
       /\ ~t.mixed => t.user = q.who

SessionOK(list, n, t) ==
  /\ list \in Seq(AskedRecord) /\ n \in RunRecord /\ t \in TabRecord
  /\ \A i \in 1..Len(list) : AskOK(list[i], i, n, t)
  /\ RunOK(list, n, t) /\ TokenOK(list, t)

\* What a call remembers of its two attempts, in a page that was mixed or not.
CallOK(c, mixed) ==
  /\ c \in CallRecord
  /\ c.at \in {"again", "renewAgain", "replay"} => c.token # NoToken
  /\ ~mixed => c.user = c.who /\ (c.at = "replay" => c.as = c.who)

BrowserInv == jar \in Who /\ SessionOK(asked, run, tab) /\ CallOK(call, tab.mixed)

\* A list of requests with the same places.
LEMMA SamePlaces ==
  ASSUME NEW list \in Seq(AskedRecord), NEW after,
         after = [i \in DOMAIN list |-> after[i]],
         \A i \in 1..Len(list) : after[i] \in AskedRecord
  PROVE  after \in Seq(AskedRecord) /\ Len(after) = Len(list)
<1>1. Len(list) \in Nat /\ DOMAIN list = 1..Len(list)
  BY LenProperties
<1>2. after \in [1..Len(list) -> AskedRecord]
  BY <1>1
<1>. QED BY <1>1, <1>2, AsSequence

LEMMA ForgottenType ==
  /\ Forgotten \in AskedRecord /\ Forgotten.kind = "none" /\ Forgotten.at = "done"
  /\ Forgotten.waiter = "page" /\ ~Forgotten.stale /\ ~Forgotten.outdated
<1>1. PICK q : q = Asked("none", Nobody)
  OBVIOUS
<1>2. q = [kind |-> "none", who |-> Nobody, at |-> "sent", waiter |-> "page",
           epoch |-> 0, applied |-> 0, stale |-> FALSE, outdated |-> FALSE]
  BY <1>1 DEF Asked
<1>3. Nobody \in Who
  BY DEF Who
<1>4. q \in AskedRecord /\ q.kind = "none" /\ q.waiter = "page" /\ ~q.stale /\ ~q.outdated
  BY <1>2, <1>3 DEF AskedRecord
<1>5. Forgotten = [q EXCEPT !.at = "done"]
  BY <1>1 DEF Forgotten
<1>. QED BY <1>4, <1>5 DEF AskedRecord

\* A change of the tab's other fields.
LEMMA TabKeeps ==
  ASSUME NEW list, NEW n, NEW t, SessionOK(list, n, t), NEW u \in TabRecord,
         u.token = t.token, u.epoch = t.epoch, u.applied = t.applied, u.user = t.user,
         u.mixed = t.mixed
  PROVE  SessionOK(list, n, u)
BY DEF SessionOK, AskOK, RunOK, TokenOK, Dated

\* The answer to a request that is not the run's, or that the run has.
LEMMA ForgetKeeps ==
  ASSUME NEW list, NEW n, NEW t, SessionOK(list, n, t), NEW r \in 1..Len(list),
         list[r].at # "done", NEW m \in RunRecord,
         \/ m = n /\ ~ (n.at \in {"first", "second"} /\ n.req = r)
         \/ m = NoRun /\ (n.at = "none" \/ n.req = r)
         \/ m.at = "sleep" /\ m.req = r /\ n.req = r /\ n.at # "none"
            /\ m.epoch = n.epoch /\ m.applied = n.applied
  PROVE  SessionOK([list EXCEPT ![r] = Forgotten], m, t)
<1>1. PICK after : after = [list EXCEPT ![r] = Forgotten]
  OBVIOUS
<1>2. /\ list \in Seq(AskedRecord) /\ Len(list) \in Nat /\ DOMAIN list = 1..Len(list)
      /\ \A i \in 1..Len(list) : list[i] \in AskedRecord
  BY LenProperties, ElementOfSeq DEF SessionOK
<1>3. /\ after[r] = Forgotten /\ \A i \in 1..Len(list) : i # r => after[i] = list[i]
      /\ after = [i \in DOMAIN list |-> after[i]]
  BY <1>1, <1>2
<1>4. after \in Seq(AskedRecord) /\ Len(after) = Len(list)
  BY <1>2, <1>3, ForgottenType, SamePlaces
<1>5. ASSUME NEW i \in 1..Len(list) PROVE AskOK(after[i], i, m, t)
  <2>1. CASE i = r
    BY <1>3, <2>1, ForgottenType DEF AskOK
  <2>2. CASE i # r
    <3>1. after[i] = list[i] /\ AskOK(list[i], i, n, t)
      BY <1>3, <2>2 DEF SessionOK
    <3>2. n.at \in {"first", "second"} /\ n.req = i => m = n
      BY <2>2
    <3>. QED BY <3>1, <3>2 DEF AskOK
  <2>. QED BY <2>1, <2>2
<1>6. RunOK(after, m, t)
  <2>1. CASE m = n /\ ~ (n.at \in {"first", "second"} /\ n.req = r)
    BY <1>3, <1>4, <2>1, ForgottenType DEF SessionOK, RunOK
  <2>2. CASE m = NoRun
    BY <2>2 DEF RunOK, NoRun
  <2>3. CASE m.at = "sleep" /\ m.req = r /\ n.req = r /\ n.at # "none"
             /\ m.epoch = n.epoch /\ m.applied = n.applied
    BY <1>3, <1>4, <2>3, ForgottenType DEF SessionOK, RunOK
  <2>. QED BY <2>1, <2>2, <2>3
<1>7. TokenOK(after, t)
  <2>1. t.token # NoToken => after[t.token] = list[t.token]
    BY <1>3 DEF SessionOK, TokenOK
  <2>. QED BY <1>4, <2>1 DEF SessionOK, TokenOK
<1>. QED BY <1>1, <1>4, <1>5, <1>6, <1>7 DEF SessionOK

\* The session ends.
LEMMA StaleKeeps ==
  ASSUME NEW list, NEW n, NEW t, SessionOK(list, n, t), NEW u \in TabRecord,
         u.token = NoToken, u.epoch = t.epoch + 1, u.applied = t.applied
  PROVE  SessionOK(Stale(list), n, u)
<1>1. PICK after : after = Stale(list)
  OBVIOUS
<1>2. /\ list \in Seq(AskedRecord) /\ Len(list) \in Nat /\ DOMAIN list = 1..Len(list)
      /\ \A i \in 1..Len(list) : list[i] \in AskedRecord
      /\ t.epoch \in Nat /\ t.applied \in Nat
  BY LenProperties, ElementOfSeq DEF SessionOK, TabRecord
<1>3. ASSUME NEW i \in 1..Len(list)
      PROVE  /\ after[i] \in AskedRecord
             /\ IF list[i].at = "done" THEN after[i] = Forgotten
                ELSE /\ after[i].kind = list[i].kind /\ after[i].at = list[i].at
                     /\ after[i].waiter = list[i].waiter /\ after[i].epoch = list[i].epoch
                     /\ after[i].applied = list[i].applied
                     /\ after[i].outdated = list[i].outdated
                     /\ after[i].stale = (list[i].stale \/ list[i].kind = "refresh")
  <2>1. after[i] = IF list[i].at = "done" THEN Forgotten
                   ELSE [list[i] EXCEPT !.stale = @ \/ Out(list[i])]
    BY <1>1, <1>2 DEF Stale
  <2>2. CASE list[i].at = "done"
    BY <2>1, <2>2, ForgottenType
  <2>3. CASE list[i].at # "done"
    <3>1. PICK b \in BOOLEAN : b = (list[i].stale \/ list[i].kind = "refresh")
      OBVIOUS
    <3>2. after[i] = [list[i] EXCEPT !.stale = b]
      BY <2>1, <2>3, <3>1 DEF Out
    <3>3. list[i] \in AskedRecord
      BY <1>2
    <3>. QED BY <2>3, <3>1, <3>2, <3>3 DEF AskedRecord
  <2>. QED BY <2>2, <2>3
<1>4. after \in Seq(AskedRecord) /\ Len(after) = Len(list)
  <2>1. after = [i \in DOMAIN list |-> after[i]]
    BY <1>1 DEF Stale
  <2>. QED BY <1>2, <1>3, <2>1, SamePlaces
<1>5. ASSUME NEW i \in 1..Len(list) PROVE AskOK(after[i], i, n, u)
  <2>1. AskOK(list[i], i, n, t) /\ list[i] \in AskedRecord
    BY <1>2 DEF SessionOK
  <2>2. CASE list[i].at = "done"
    BY <1>3, <2>2, ForgottenType DEF AskOK
  <2>3. CASE list[i].at # "done"
    <3>1. list[i].epoch \in Nat /\ list[i].applied \in Nat
      BY <2>1 DEF AskedRecord
    <3>2. Dated(list[i], list[i].epoch, list[i].applied, t) =>
            Dated(after[i], after[i].epoch, after[i].applied, u)
      BY <1>2, <1>3, <2>3, <3>1 DEF Dated
    <3>. QED BY <1>3, <2>1, <2>3, <3>2 DEF AskOK
  <2>. QED BY <2>2, <2>3
<1>6. RunOK(after, n, u)
  <2>1. n.epoch \in Nat /\ n.applied \in Nat /\ RunOK(list, n, t)
    BY DEF SessionOK, RunRecord
  <2>2. n.at # "none" =>
          n.req \in 1..Len(list) /\ n.epoch <= u.epoch /\ n.applied <= u.applied
    BY <1>2, <2>1 DEF RunOK
  <2>3. n.at = "sleep" => after[n.req].at = "done"
    BY <1>3, <2>1, ForgottenType DEF RunOK
  <2>4. ASSUME n.at \in {"first", "second"}
        PROVE  LET q == after[n.req] IN
               q.kind = "refresh" /\ q.waiter = "page" /\ q.at # "done" /\ Dated(q, n.epoch, n.applied, u)
    <3>1. PICK i \in 1..Len(list) : i = n.req
      BY <2>1, <2>4 DEF RunOK
    <3>2. /\ list[i].kind = "refresh" /\ list[i].waiter = "page" /\ list[i].at # "done"
          /\ Dated(list[i], n.epoch, n.applied, t)
      BY <2>1, <2>4, <3>1 DEF RunOK
    <3>3. Dated(after[i], n.epoch, n.applied, u)
      BY <1>2, <1>3, <2>1, <3>2 DEF Dated
    <3>. QED BY <1>3, <3>1, <3>2, <3>3
  <2>. QED BY <1>4, <2>1, <2>2, <2>3, <2>4 DEF RunOK
<1>7. TokenOK(after, u)
  BY DEF TokenOK
<1>. QED BY <1>1, <1>4, <1>5, <1>6, <1>7 DEF SessionOK

\* Something was applied: by the answer to request r, or (0) by the user.
LEMMA OutdateKeeps ==
  ASSUME NEW list, NEW n, NEW t, SessionOK(list, n, t), NEW r \in Nat,
         NEW m \in RunRecord, NEW u \in TabRecord,
         u.epoch = t.epoch, u.applied = t.applied + 1,
         \/ /\ r = 0 /\ m = n /\ u.token = t.token
            /\ u.token # NoToken /\ ~u.mixed => u.user = list[u.token].who
         \/ /\ r \in 1..Len(list) /\ u.token = r /\ u.user = list[r].who
            /\ ~list[r].stale /\ (list[r].waiter = "late" => ~list[r].outdated)
            /\ \/ m = n /\ n.req # r
               \/ m = NoRun /\ (n.at = "none" \/ n.req = r)
  PROVE  SessionOK(Outdate(list, r), m, u)
<1>1. PICK after : after = Outdate(list, r)
  OBVIOUS
<1>2. /\ list \in Seq(AskedRecord) /\ Len(list) \in Nat /\ DOMAIN list = 1..Len(list)
      /\ \A i \in 1..Len(list) : list[i] \in AskedRecord
      /\ t.epoch \in Nat /\ t.applied \in Nat
  BY LenProperties, ElementOfSeq DEF SessionOK, TabRecord
<1>3. ASSUME NEW i \in 1..Len(list)
      PROVE  /\ after[i] \in AskedRecord
             /\ \/ /\ i = r /\ after[i].at = "done" /\ after[i].who = list[i].who
                   /\ after[i].kind = list[i].kind /\ after[i].waiter = list[i].waiter
                   /\ after[i].stale = list[i].stale /\ after[i].outdated = list[i].outdated
                \/ list[i].at = "done" /\ i # r /\ r # 0 /\ after[i] = Forgotten
                \/ /\ i # r /\ (list[i].at = "done" => r = 0)
                   /\ after[i].kind = list[i].kind /\ after[i].at = list[i].at
                   /\ after[i].waiter = list[i].waiter /\ after[i].epoch = list[i].epoch
                   /\ after[i].applied = list[i].applied /\ after[i].who = list[i].who
                   /\ after[i].stale = list[i].stale
                   /\ after[i].outdated =
                        (list[i].outdated \/ (list[i].kind = "refresh" /\ list[i].at # "done"))
  <2>1. after[i] = IF i = r THEN [list[i] EXCEPT !.at = "done"]
                   ELSE IF list[i].at = "done" /\ r # 0 THEN Forgotten
                   ELSE [list[i] EXCEPT !.outdated = @ \/ Out(list[i])]
    BY <1>1, <1>2 DEF Outdate
  <2>2. list[i] \in AskedRecord
    BY <1>2
  <2>3. CASE i = r
    <3>1. after[i] = [list[i] EXCEPT !.at = "done"]
      BY <2>1, <2>3
    <3>. QED BY <2>2, <2>3, <3>1 DEF AskedRecord
  <2>4. CASE i # r /\ list[i].at = "done" /\ r # 0
    BY <2>1, <2>4, ForgottenType
  <2>5. CASE i # r /\ ~ (list[i].at = "done" /\ r # 0)
    <3>1. PICK b \in BOOLEAN :
            b = (list[i].outdated \/ (list[i].kind = "refresh" /\ list[i].at # "done"))
      OBVIOUS
    <3>4. after[i] = [list[i] EXCEPT !.outdated = @ \/ Out(list[i])]
      BY <2>1, <2>5
    <3>5. (list[i].outdated \/ Out(list[i])) = b
      BY <3>1 DEF Out
    <3>2. after[i] = [list[i] EXCEPT !.outdated = b]
      BY <3>4, <3>5
    <3>3. /\ after[i] \in AskedRecord
          /\ after[i].kind = list[i].kind /\ after[i].at = list[i].at
          /\ after[i].waiter = list[i].waiter /\ after[i].epoch = list[i].epoch
          /\ after[i].applied = list[i].applied /\ after[i].who = list[i].who
          /\ after[i].stale = list[i].stale /\ after[i].outdated = b
      BY <2>2, <3>2 DEF AskedRecord
    <3>. QED BY <2>5, <3>1, <3>3
  <2>. QED BY <2>3, <2>4, <2>5
<1>4. after \in Seq(AskedRecord) /\ Len(after) = Len(list)
  <2>1. after = [i \in DOMAIN list |-> after[i]]
    BY <1>1 DEF Outdate
  <2>. QED BY <1>2, <1>3, <2>1, SamePlaces
<1>5. ASSUME NEW i \in 1..Len(list) PROVE AskOK(after[i], i, m, u)
  <2>1. AskOK(list[i], i, n, t) /\ list[i] \in AskedRecord
    BY <1>2 DEF SessionOK
  <2>2. CASE i = r
    BY <1>3, <2>1, <2>2 DEF AskOK
  <2>3. CASE list[i].at = "done" /\ i # r
    BY <1>3, <2>1, <2>3, ForgottenType DEF AskOK
  <2>4. CASE list[i].at # "done" /\ i # r
    <3>1. list[i].epoch \in Nat /\ list[i].applied \in Nat
      BY <2>1 DEF AskedRecord
    <3>2. Dated(list[i], list[i].epoch, list[i].applied, t) =>
            Dated(after[i], after[i].epoch, after[i].applied, u)
      BY <1>2, <1>3, <2>4, <3>1 DEF Dated
    <3>3. list[i].kind = "refresh" /\ list[i].waiter = "page" => m = n
      BY <2>1, <2>4 DEF AskOK
    <3>. QED BY <1>3, <2>1, <2>4, <3>2, <3>3 DEF AskOK
  <2>. QED BY <2>2, <2>3, <2>4
<1>6. RunOK(after, m, u)
  <2>1. CASE m = NoRun
    BY <2>1 DEF RunOK, NoRun
  <2>2. CASE m = n /\ (n.req # r \/ r = 0)
    <3>1. /\ n.epoch \in Nat /\ n.applied \in Nat /\ RunOK(list, n, t) /\ m = n
      BY <2>2 DEF SessionOK, RunRecord
    <3>2. n.at # "none" =>
            /\ n.req \in 1..Len(list) /\ n.req # r
            /\ n.epoch <= u.epoch /\ n.applied <= u.applied
      BY <1>2, <2>2, <3>1 DEF RunOK
    <3>3. n.at = "sleep" => after[n.req].at = "done"
      BY <1>3, <3>1, <3>2, ForgottenType DEF RunOK
    <3>4. ASSUME n.at \in {"first", "second"}
          PROVE  LET q == after[n.req] IN
                 q.kind = "refresh" /\ q.waiter = "page" /\ q.at # "done" /\ Dated(q, n.epoch, n.applied, u)
      <4>1. PICK i \in 1..Len(list) : i = n.req /\ i # r
        BY <3>2, <3>4
      <4>2. /\ list[i].kind = "refresh" /\ list[i].waiter = "page" /\ list[i].at # "done"
            /\ Dated(list[i], n.epoch, n.applied, t)
        BY <3>1, <3>4, <4>1 DEF RunOK
      <4>3. /\ after[i].kind = "refresh" /\ after[i].waiter = "page" /\ after[i].at # "done"
            /\ after[i].stale = list[i].stale
        BY <1>3, <4>1, <4>2
      <4>4. Dated(after[i], n.epoch, n.applied, u)
        BY <1>2, <3>1, <4>2, <4>3 DEF Dated
      <4>. QED BY <4>1, <4>3, <4>4
    <3>5. (n.at = "none" => n = NoRun) /\ (n.at \in {"sleep", "first", "second"} => n.at # "none")
      BY <3>1 DEF RunOK
    <3>6. RunOK(after, n, u)
      BY <1>4, <3>2, <3>3, <3>4, <3>5 DEF RunOK
    <3>. QED BY <3>1, <3>6
  <2>. QED BY <2>1, <2>2
<1>7. TokenOK(after, u)
  <2>1. CASE u.token = r /\ r \in 1..Len(list)
    BY <1>3, <1>4, <2>1 DEF TokenOK
  <2>2. CASE /\ r = 0 /\ u.token = t.token
             /\ u.token # NoToken /\ ~u.mixed => u.user = list[u.token].who
    <3>. SUFFICES ASSUME t.token # NoToken PROVE TokenOK(after, u)
      BY <2>2 DEF TokenOK
    <3>1. PICK i \in 1..Len(list) : i = t.token
      BY DEF SessionOK, TokenOK
    <3>2. list[i].at = "done" /\ ~list[i].stale /\ (list[i].waiter = "late" => ~list[i].outdated)
      BY <3>1 DEF SessionOK, TokenOK
    <3>3. i # r
      BY <2>2
    <3>4. /\ after[i].at = "done" /\ ~after[i].stale /\ after[i].waiter = list[i].waiter
          /\ after[i].who = list[i].who
          /\ after[i].outdated => list[i].outdated
      BY <1>3, <2>2, <3>2, <3>3
    <3>. QED
      <4>1. /\ u.token = i /\ i \in 1..Len(after) /\ after[i].at = "done" /\ ~after[i].stale
            /\ after[i].waiter = "late" => ~after[i].outdated
            /\ ~u.mixed => u.user = after[i].who
        BY <1>4, <2>2, <3>1, <3>2, <3>4
      <4>. QED BY <4>1 DEF TokenOK
  <2>. QED BY <2>1, <2>2
<1>. QED BY <1>1, <1>4, <1>5, <1>6, <1>7 DEF SessionOK

\* A request goes out; a refresh, for a run that waits for nothing else.
LEMMA AskKeeps ==
  ASSUME NEW list, NEW n, NEW t, SessionOK(list, n, t), NEW m \in RunRecord, NEW who \in Who,
         NEW kind \in {"refresh", "login", "logout"},
         \/ kind # "refresh" /\ m = n
         \/ /\ kind = "refresh" /\ n.at \in {"none", "sleep"} /\ m.at \in {"first", "second"}
            /\ m.req = Len(list) + 1 /\ m.epoch <= t.epoch /\ m.applied <= t.applied
  PROVE  SessionOK(Append(list, Asked(kind, who)), m, t)
<1>1. PICK q : q = Asked(kind, who)
  OBVIOUS
<1>2. /\ q \in AskedRecord /\ q.kind = kind /\ q.at = "sent" /\ q.waiter = "page"
      /\ ~q.stale /\ ~q.outdated
  BY <1>1 DEF Asked, AskedRecord
<1>3. PICK after : after = Append(list, q)
  OBVIOUS
<1>4. PICK l \in Nat : l = Len(list)
  BY LenProperties DEF SessionOK
<1>5. /\ after \in Seq(AskedRecord) /\ Len(after) = l + 1 /\ after[l + 1] = q
      /\ \A i \in 1..l : after[i] = list[i]
  BY <1>2, <1>3, <1>4, AppendProperties DEF SessionOK
<1>6. ASSUME NEW i \in 1..l + 1 PROVE AskOK(after[i], i, m, t)
  <2>1. CASE i = l + 1
    BY <1>2, <1>4, <1>5, <2>1 DEF AskOK
  <2>2. CASE i # l + 1
    <3>1. i \in 1..l
      BY <2>2
    <3>2. after[i] = list[i] /\ AskOK(list[i], i, n, t)
      BY <1>4, <1>5, <3>1 DEF SessionOK
    <3>. QED BY <3>2 DEF AskOK
  <2>. QED BY <2>1, <2>2
<1>7. RunOK(after, m, t)
  <2>1. CASE kind # "refresh" /\ m = n
    <3>1. RunOK(list, n, t) /\ (n.at # "none" => n.req \in 1..l)
      BY <1>4 DEF SessionOK, RunOK
    <3>2. n.at # "none" => n.req \in 1..l + 1 /\ after[n.req] = list[n.req]
      BY <1>5, <3>1
    <3>3. n.at \in {"sleep", "first", "second"} => n.at # "none"
      OBVIOUS
    <3>. QED BY <1>5, <2>1, <3>1, <3>2, <3>3 DEF RunOK
  <2>2. CASE kind = "refresh" /\ m.at \in {"first", "second"}
             /\ m.req = Len(list) + 1 /\ m.epoch <= t.epoch /\ m.applied <= t.applied
    <3>1. m.req = l + 1 /\ m.req \in 1..l + 1 /\ after[m.req] = q
      BY <1>4, <1>5, <2>2
    <3>2. Dated(q, m.epoch, m.applied, t)
      BY <1>2, <2>2 DEF Dated
    <3>. QED BY <1>2, <1>5, <2>2, <3>1, <3>2 DEF RunOK
  <2>. QED BY <2>1, <2>2
<1>8. TokenOK(after, t)
  <2>1. t.token # NoToken => t.token \in 1..l /\ t.token \in 1..l + 1 /\ after[t.token] = list[t.token]
    BY <1>4, <1>5 DEF SessionOK, TokenOK
  <2>. QED BY <1>5, <2>1 DEF SessionOK, TokenOK
<1>. QED BY <1>1, <1>3, <1>5, <1>6, <1>7, <1>8 DEF SessionOK

\* The headers of an ok answer are there.
LEMMA BodyKeeps ==
  ASSUME NEW list, NEW n, NEW t, SessionOK(list, n, t), NEW r \in 1..Len(list),
         list[r].at = "sent", list[r].waiter # "none", list[r].kind # "logout"
  PROVE  SessionOK([list EXCEPT ![r].at = "body"], n, t)
<1>1. PICK after : after = [list EXCEPT ![r].at = "body"]
  OBVIOUS
<1>2. /\ list \in Seq(AskedRecord) /\ Len(list) \in Nat /\ DOMAIN list = 1..Len(list)
      /\ \A i \in 1..Len(list) : list[i] \in AskedRecord
  BY LenProperties, ElementOfSeq DEF SessionOK
<1>3. /\ after[r] = [list[r] EXCEPT !.at = "body"]
      /\ \A i \in 1..Len(list) : i # r => after[i] = list[i]
      /\ after = [i \in DOMAIN list |-> after[i]]
  BY <1>1, <1>2
<1>4. /\ after[r] \in AskedRecord /\ after[r].at = "body"
      /\ after[r].kind = list[r].kind /\ after[r].waiter = list[r].waiter
      /\ after[r].epoch = list[r].epoch /\ after[r].applied = list[r].applied
      /\ after[r].stale = list[r].stale /\ after[r].outdated = list[r].outdated
  <2>1. list[r] \in AskedRecord
    BY <1>2
  <2>. QED BY <1>3, <2>1 DEF AskedRecord
<1>5. after \in Seq(AskedRecord) /\ Len(after) = Len(list)
  <2>1. \A i \in 1..Len(list) : after[i] \in AskedRecord
    BY <1>2, <1>3, <1>4
  <2>. QED BY <1>2, <1>3, <2>1, SamePlaces
<1>6. Dated(list[r], list[r].epoch, list[r].applied, t) =>
        Dated(after[r], after[r].epoch, after[r].applied, t)
  BY <1>4 DEF Dated
<1>7. ASSUME NEW i \in 1..Len(list) PROVE AskOK(after[i], i, n, t)
  <2>1. AskOK(list[i], i, n, t) /\ list[i] \in AskedRecord
    BY <1>2 DEF SessionOK
  <2>2. CASE i = r
    <3>1. list[r].waiter \in {"page", "late"} /\ list[r].kind \in {"refresh", "login"}
      BY <2>1, <2>2 DEF AskedRecord, AskOK
    <3>. QED BY <1>4, <1>6, <2>1, <2>2, <3>1 DEF AskOK
  <2>3. CASE i # r
    BY <1>3, <2>1, <2>3
  <2>. QED BY <2>2, <2>3
<1>8. RunOK(after, n, t)
  <2>1. RunOK(list, n, t)
    BY DEF SessionOK
  <2>2. n.at # "none" => n.req \in 1..Len(after) /\ (n.req # r => after[n.req] = list[n.req])
    BY <1>3, <1>5, <2>1 DEF RunOK
  <2>3. n.at = "sleep" => n.req # r
    BY <2>1 DEF RunOK
  <2>4. Dated(list[r], n.epoch, n.applied, t) => Dated(after[r], n.epoch, n.applied, t)
    BY <1>4 DEF Dated
  <2>5. ASSUME n.at \in {"first", "second"}
        PROVE  LET q == after[n.req] IN
               q.kind = "refresh" /\ q.waiter = "page" /\ q.at # "done" /\ Dated(q, n.epoch, n.applied, t)
    <3>1. CASE n.req = r
      BY <1>4, <2>1, <2>4, <2>5, <3>1 DEF RunOK
    <3>2. CASE n.req # r
      BY <2>1, <2>2, <2>5, <3>2 DEF RunOK
    <3>. QED BY <3>1, <3>2
  <2>. QED BY <2>1, <2>2, <2>3, <2>5 DEF RunOK
<1>9. TokenOK(after, t)
  <2>1. t.token # NoToken => t.token # r /\ t.token \in 1..Len(list)
    BY DEF SessionOK, TokenOK
  <2>. QED BY <1>3, <1>5, <2>1 DEF SessionOK, TokenOK
<1>. QED BY <1>1, <1>5, <1>7, <1>8, <1>9 DEF SessionOK

\* The run gives up on its answer, which keeps the counts of the run.
LEMMA LateKeeps ==
  ASSUME NEW list, NEW n, NEW t, SessionOK(list, n, t), n.at \in {"first", "second"}
  PROVE  SessionOK([list EXCEPT ![n.req] =
                      [@ EXCEPT !.waiter = "late", !.epoch = n.epoch, !.applied = n.applied]],
                   NoRun, t)
<1>1. PICK r \in 1..Len(list) : r = n.req
  BY DEF SessionOK, RunOK
<1>2. PICK after : after = [list EXCEPT ![r] =
                     [@ EXCEPT !.waiter = "late", !.epoch = n.epoch, !.applied = n.applied]]
  OBVIOUS
<1>3. /\ list \in Seq(AskedRecord) /\ Len(list) \in Nat /\ DOMAIN list = 1..Len(list)
      /\ \A i \in 1..Len(list) : list[i] \in AskedRecord
      /\ n.epoch \in Nat /\ n.applied \in Nat
  BY LenProperties, ElementOfSeq DEF SessionOK, RunRecord
<1>4. /\ after[r] = [list[r] EXCEPT !.waiter = "late", !.epoch = n.epoch, !.applied = n.applied]
      /\ \A i \in 1..Len(list) : i # r => after[i] = list[i]
      /\ after = [i \in DOMAIN list |-> after[i]]
  BY <1>2, <1>3
<1>5. /\ after[r] \in AskedRecord /\ after[r].at = list[r].at
      /\ after[r].kind = list[r].kind /\ after[r].waiter = "late"
      /\ after[r].epoch = n.epoch /\ after[r].applied = n.applied
      /\ after[r].stale = list[r].stale /\ after[r].outdated = list[r].outdated
  <2>1. list[r] \in AskedRecord
    BY <1>3
  <2>. QED BY <1>3, <1>4, <2>1 DEF AskedRecord
<1>6. after \in Seq(AskedRecord) /\ Len(after) = Len(list)
  <2>1. \A i \in 1..Len(list) : after[i] \in AskedRecord
    BY <1>3, <1>4, <1>5
  <2>. QED BY <1>3, <1>4, <2>1, SamePlaces
<1>7. /\ list[r].kind = "refresh" /\ list[r].at # "done" /\ Dated(list[r], n.epoch, n.applied, t)
  BY <1>1 DEF SessionOK, RunOK
<1>8. Dated(after[r], after[r].epoch, after[r].applied, t)
  BY <1>5, <1>7 DEF Dated
<1>9. ASSUME NEW i \in 1..Len(list) PROVE AskOK(after[i], i, NoRun, t)
  <2>1. AskOK(list[i], i, n, t)
    BY DEF SessionOK
  <2>2. CASE i = r
    BY <1>5, <1>7, <1>8, <2>1, <2>2 DEF AskOK
  <2>3. CASE i # r
    <3>1. after[i] = list[i]
      BY <1>4, <2>3
    <3>. QED BY <1>1, <2>1, <2>3, <3>1 DEF AskOK
  <2>. QED BY <2>2, <2>3
<1>10. RunOK(after, NoRun, t)
  BY DEF RunOK, NoRun
<1>11. TokenOK(after, t)
  <2>1. t.token # NoToken => t.token # r /\ t.token \in 1..Len(list)
    BY <1>7 DEF SessionOK, TokenOK
  <2>. QED BY <1>4, <1>6, <2>1 DEF SessionOK, TokenOK
<1>12. NoRun \in RunRecord
  BY DEF NoRun, RunRecord
<1>. QED BY <1>1, <1>2, <1>6, <1>9, <1>10, <1>11, <1>12 DEF SessionOK

\* A new page: whoever waited is gone.
LEMMA ReloadKeeps ==
  ASSUME NEW list, NEW n, NEW t, SessionOK(list, n, t)
  PROVE  SessionOK([i \in DOMAIN list |->
                      IF list[i].at = "sent" THEN [list[i] EXCEPT !.waiter = "none"] ELSE Forgotten],
                   NoRun, NewPage)
<1>1. PICK after : after = [i \in DOMAIN list |->
                     IF list[i].at = "sent" THEN [list[i] EXCEPT !.waiter = "none"] ELSE Forgotten]
  OBVIOUS
<1>2. /\ list \in Seq(AskedRecord) /\ Len(list) \in Nat /\ DOMAIN list = 1..Len(list)
      /\ \A i \in 1..Len(list) : list[i] \in AskedRecord
  BY LenProperties, ElementOfSeq DEF SessionOK
<1>3. ASSUME NEW i \in 1..Len(list)
      PROVE  /\ after[i] \in AskedRecord
             /\ \/ after[i] = Forgotten
                \/ /\ list[i].at = "sent" /\ after[i].at = "sent" /\ after[i].waiter = "none"
                   /\ after[i].kind = list[i].kind
                   /\ after[i].stale = list[i].stale /\ after[i].outdated = list[i].outdated
  <2>1. after[i] = IF list[i].at = "sent" THEN [list[i] EXCEPT !.waiter = "none"] ELSE Forgotten
    BY <1>1, <1>2
  <2>2. list[i] \in AskedRecord
    BY <1>2
  <2>3. CASE list[i].at = "sent"
    <3>1. after[i] = [list[i] EXCEPT !.waiter = "none"]
      BY <2>1, <2>3
    <3>. QED BY <2>2, <2>3, <3>1 DEF AskedRecord
  <2>4. CASE list[i].at # "sent"
    BY <2>1, <2>4, ForgottenType
  <2>. QED BY <2>3, <2>4
<1>4. after \in Seq(AskedRecord) /\ Len(after) = Len(list)
  <2>1. after = [i \in DOMAIN list |-> after[i]]
    BY <1>1
  <2>. QED BY <1>2, <1>3, <2>1, SamePlaces
<1>5. ASSUME NEW i \in 1..Len(list) PROVE AskOK(after[i], i, NoRun, NewPage)
  BY <1>3, ForgottenType DEF SessionOK, AskOK
<1>6. RunOK(after, NoRun, NewPage) /\ TokenOK(after, NewPage)
  BY DEF RunOK, NoRun, TokenOK, NewPage
<1>7. NoRun \in RunRecord
  BY DEF NoRun, RunRecord
<1>8. NewPage \in TabRecord
  BY DEF NewPage, TabRecord, Who, NoToken
<1>. QED BY <1>1, <1>4, <1>5, <1>6, <1>7, <1>8 DEF SessionOK

\* The fields of the tab.
LEMMA ClearedFields ==
  ASSUME NEW t \in TabRecord, NEW expired \in BOOLEAN
  PROVE  /\ Cleared(t, expired) \in TabRecord /\ Cleared(t, expired).token = NoToken
         /\ Cleared(t, expired).epoch = t.epoch + 1 /\ Cleared(t, expired).applied = t.applied
         /\ Cleared(t, expired).mixed = t.mixed
<1>1. PICK b \in BOOLEAN : b = (expired /\ (t.token # NoToken \/ t.user # Nobody))
  OBVIOUS
<1>2. PICK e \in Nat : e = t.epoch
  BY DEF TabRecord
<1>3. PICK u : u = Cleared(t, expired)
  OBVIOUS
<1>4. u = [t EXCEPT !.token = NoToken, !.user = Nobody, !.age = "none", !.renewAt = FALSE,
                    !.retryAt = FALSE, !.limited = FALSE, !.epoch = e + 1, !.expired = b]
  BY <1>1, <1>2, <1>3 DEF Cleared
<1>5. NoToken \in Nat /\ Nobody \in Who /\ e + 1 \in Nat
  BY <1>2 DEF NoToken, Who
<1>6. PICK v : v = [t EXCEPT !.token = NoToken, !.user = Nobody, !.age = "none", !.renewAt = FALSE]
  OBVIOUS
<1>7. v \in TabRecord /\ v.token = NoToken /\ v.applied = t.applied /\ v.mixed = t.mixed
  BY <1>5, <1>6 DEF TabRecord
<1>8. u = [v EXCEPT !.retryAt = FALSE, !.limited = FALSE, !.epoch = e + 1, !.expired = b]
  BY <1>4, <1>6 DEF TabRecord
<1>9. /\ u \in TabRecord /\ u.token = v.token /\ u.applied = v.applied /\ u.epoch = e + 1
      /\ u.mixed = v.mixed
  BY <1>5, <1>7, <1>8 DEF TabRecord
<1>. QED BY <1>2, <1>3, <1>7, <1>9

LEMMA AppliedFields ==
  ASSUME NEW t \in TabRecord, NEW r \in Nat, asked[r].who \in Who
  PROVE  /\ Applied(t, r) \in TabRecord /\ Applied(t, r).token = r
         /\ Applied(t, r).epoch = t.epoch /\ Applied(t, r).applied = t.applied + 1
         /\ Applied(t, r).user = asked[r].who /\ Applied(t, r).mixed = t.mixed
<1>1. PICK w \in Who : w = asked[r].who
  OBVIOUS
<1>2. PICK a \in Nat : a = t.applied
  BY DEF TabRecord
<1>3. PICK u : u = Applied(t, r)
  OBVIOUS
<1>4. u = [t EXCEPT !.token = r, !.user = w, !.age = "fresh", !.expired = FALSE,
                    !.renewAt = TRUE, !.retryAt = FALSE, !.limited = FALSE, !.applied = a + 1]
  BY <1>1, <1>2, <1>3 DEF Applied
<1>5. PICK v : v = [t EXCEPT !.token = r, !.user = w, !.age = "fresh", !.expired = FALSE]
  OBVIOUS
<1>6. v \in TabRecord /\ v.token = r /\ v.epoch = t.epoch /\ v.user = w /\ v.mixed = t.mixed
  BY <1>5 DEF TabRecord
<1>7. u = [v EXCEPT !.renewAt = TRUE, !.retryAt = FALSE, !.limited = FALSE, !.applied = a + 1]
  BY <1>4, <1>5 DEF TabRecord
<1>8. a + 1 \in Nat
  BY <1>2
<1>9. /\ u \in TabRecord /\ u.token = v.token /\ u.epoch = v.epoch /\ u.applied = a + 1
      /\ u.user = v.user /\ u.mixed = v.mixed
  BY <1>6, <1>7, <1>8 DEF TabRecord
<1>. QED BY <1>1, <1>2, <1>3, <1>6, <1>9

\* The tab has the session, the counts and the type of another one.
SameSession(u, t) ==
  /\ u \in TabRecord /\ u.token = t.token /\ u.epoch = t.epoch /\ u.applied = t.applied
  /\ u.user = t.user /\ u.mixed = t.mixed

LEMMA SettleFields ==
  ASSUME NEW t \in TabRecord, CallOK(call, t.mixed), NEW outcome \in {"resolved", "rejected"},
         SettleRun(t, outcome)
  PROVE  run' = NoRun /\ SameSession(tab', t) /\ CallOK(call', tab'.mixed)
<1>1. PICK h \in {"no", "running", "yes"} : h = IF t.hydrated = "running" THEN "yes" ELSE t.hydrated
  BY DEF TabRecord
<1>2. tab' = [t EXCEPT !.hydrated = h]
  BY <1>1 DEF SettleRun
<1>3. SameSession(tab', t)
  BY <1>2 DEF TabRecord, SameSession
<1>4. CASE call' = call
  BY <1>3, <1>4 DEF SettleRun, SameSession
<1>5. CASE call.at # "replay" /\ call' = [call EXCEPT !.settled = outcome]
  <2>1. /\ call' \in CallRecord /\ call'.at = call.at /\ call'.token = call.token
        /\ call'.user = call.user /\ call'.who = call.who
    BY <1>5 DEF CallOK, CallRecord
  <2>2. tab'.mixed = t.mixed
    BY <1>3 DEF SameSession
  <2>3. CallOK(call', tab'.mixed)
    BY <1>5, <2>1, <2>2 DEF CallOK
  <2>. QED BY <1>3, <2>3 DEF SettleRun
<1>. QED BY <1>4, <1>5 DEF SettleRun

LEMMA RetryFields ==
  ASSUME NEW t \in TabRecord, NEW b \in BOOLEAN
  PROVE  /\ SameSession(ScheduleRetry(t), t)
         /\ SameSession([ScheduleRetry(t) EXCEPT !.limited = b], t)
<1>1. PICK u : u = ScheduleRetry(t)
  OBVIOUS
<1>2. SameSession(u, t)
  BY <1>1 DEF ScheduleRetry, TabRecord, SameSession
<1>3. SameSession([u EXCEPT !.limited = b], u)
  BY <1>2 DEF SameSession, TabRecord
<1>. QED BY <1>1, <1>2, <1>3 DEF SameSession

LEMMA WaitsFields ==
  ASSUME NEW m \in BOOLEAN, CallOK(call, m), NEW at \in {"hydrate", "renew", "again", "renewAgain"},
         at \in {"again", "renewAgain"} => call.token # NoToken,
         NEW now \in {"no", "resolved", "rejected"}, Waits(at, now)
  PROVE  CallOK(call', m)
<1>1. call' = [call EXCEPT !.at = at, !.settled = now]
  BY DEF Waits
<1>2. /\ call' \in CallRecord /\ call'.at = at /\ call'.token = call.token
      /\ call'.user = call.user /\ call'.who = call.who
  BY <1>1 DEF CallOK, CallRecord
<1>. QED BY <1>2 DEF CallOK

LEMMA NoCallFields ==
  /\ NoCall \in CallRecord /\ NoCall.at = "idle" /\ NoCall.user = Nobody /\ NoCall.who = Nobody
  /\ NoCall.token = NoToken
  BY DEF NoCall, CallRecord, Who, NoToken

LEMMA EndsFields ==
  ASSUME NEW m, Ends
  PROVE  CallOK(call', m)
BY NoCallFields DEF Ends, CallOK

LEMMA BeginsFields ==
  ASSUME NEW m, NEW kind \in {"api", "me"}, NEW now \in {"no", "resolved"}, Begins(kind, now)
  PROVE  CallOK(call', m)
<1>1. call' = [NoCall EXCEPT !.at = "hydrate", !.kind = kind, !.settled = now]
  BY DEF Begins
<1>2. /\ call' \in CallRecord /\ call'.at = "hydrate"
      /\ call'.user = Nobody /\ call'.who = Nobody
  BY <1>1, NoCallFields DEF CallRecord
<1>. QED BY <1>2 DEF CallOK

\* The account of the tab's token, and the one beside it.
LEMMA HolderFields ==
  ASSUME BrowserInv
  PROVE  Holder \in Who /\ ShownUser \in Who /\ (~tab.mixed => ShownUser = Holder)
<1>1. tab \in TabRecord /\ TokenOK(asked, tab) /\ asked \in Seq(AskedRecord)
  BY DEF BrowserInv, SessionOK
<1>2. Nobody \in Who /\ tab.user \in Who
  BY <1>1 DEF Who, TabRecord
<1>3. CASE tab.token = NoToken
  BY <1>2, <1>3 DEF Holder, ShownUser
<1>4. CASE tab.token # NoToken
  <2>1. tab.token \in 1..Len(asked) /\ (~tab.mixed => tab.user = asked[tab.token].who)
    BY <1>1, <1>4 DEF TokenOK
  <2>2. asked[tab.token] \in AskedRecord
    BY <1>1, <2>1, ElementOfSeq
  <2>3. asked[tab.token].who \in Who
    BY <2>2 DEF AskedRecord
  <2>. QED BY <1>2, <1>4, <2>1, <2>3 DEF Holder, ShownUser
<1>. QED BY <1>3, <1>4

LEMMA SendFields ==
  ASSUME BrowserInv, \/ SendFirst
                     \/ SendAgain /\ SameAccount /\ call.at \in {"again", "renewAgain"}
  PROVE  CallOK(call', tab.mixed)
<1>1. /\ tab.token \in Nat /\ tab.user \in Who /\ tab.epoch \in Nat /\ call \in CallRecord
      /\ CallOK(call, tab.mixed)
  BY DEF BrowserInv, SessionOK, TabRecord, CallOK
<1>2. PICK held \in Who, shown \in Who :
        held = Holder /\ shown = ShownUser /\ (~tab.mixed => shown = held)
  BY HolderFields
<1>3. CASE SendFirst
  <2>1. call' = [call EXCEPT !.at = "sent", !.settled = "no", !.token = tab.token, !.user = shown,
                             !.who = held]
    BY <1>2, <1>3 DEF SendFirst
  <2>2. call' \in CallRecord /\ call'.at = "sent" /\ call'.user = shown /\ call'.who = held
    BY <1>1, <2>1 DEF CallRecord
  <2>. QED BY <1>2, <2>2 DEF CallOK
<1>4. CASE SendAgain /\ SameAccount /\ call.at \in {"again", "renewAgain"}
  <2>1. PICK c : c = [call EXCEPT !.at = "replay", !.settled = "no", !.token = tab.token]
    OBVIOUS
  <2>2. /\ c \in CallRecord /\ c.at = "replay" /\ c.user = call.user /\ c.who = call.who
        /\ c.token = tab.token
    BY <1>1, <2>1 DEF CallRecord
  <2>3. call' = [c EXCEPT !.as = held, !.epoch = tab.epoch]
    BY <1>1, <1>2, <1>4, <2>1 DEF SendAgain, CallRecord
  <2>4. /\ call' \in CallRecord /\ call'.at = "replay" /\ call'.user = c.user /\ call'.who = c.who
        /\ call'.token = c.token /\ call'.as = held
    BY <1>1, <2>2, <2>3 DEF CallRecord
  <2>5. tab.token # NoToken /\ shown = call.user
    BY <1>2, <1>4 DEF SameAccount, ShownUser
  <2>. QED BY <1>1, <1>2, <2>2, <2>4, <2>5 DEF CallOK
<1>. QED BY <1>3, <1>4

\* refreshSession begins a run or changes nothing.
LEMMA StartKeeps ==
  ASSUME BrowserInv, StartRun(tab)
  PROVE  SessionOK(asked', run', tab)
<1>1. CASE run' = run /\ asked' = asked
  BY <1>1 DEF BrowserInv
<1>2. CASE /\ run = NoRun
           /\ asked' = Append(asked, Asked("refresh", jar))
           /\ run' = [at |-> "first", req |-> Len(asked) + 1,
                      epoch |-> tab.epoch, applied |-> tab.applied]
  <2>1. Len(asked) \in Nat /\ tab.epoch \in Nat /\ tab.applied \in Nat
    BY LenProperties DEF BrowserInv, SessionOK, TabRecord
  <2>2. PICK l \in Nat : l = Len(asked) + 1
    BY <2>1
  <2>3. /\ run' \in RunRecord /\ run'.at = "first" /\ run'.req = Len(asked) + 1
        /\ run'.epoch <= tab.epoch /\ run'.applied <= tab.applied
    BY <1>2, <2>1, <2>2 DEF RunRecord
  <2>4. run.at = "none"
    BY <1>2 DEF NoRun
  <2>. QED BY <1>2, <2>3, <2>4, AskKeeps DEF BrowserInv
<1>. QED BY <1>1, <1>2 DEF StartRun

\* The fields of the tab that no session depends on.
LEMMA TabField ==
  ASSUME NEW t \in TabRecord, NEW h \in {"no", "running", "yes"}, NEW b \in BOOLEAN,
         NEW a \in {"none", "fresh", "near", "expired"}
  PROVE  /\ SameSession([t EXCEPT !.hydrated = h], t)
         /\ SameSession([t EXCEPT !.renewAt = b], t)
         /\ SameSession([t EXCEPT !.retryAt = b], t)
         /\ SameSession([t EXCEPT !.limited = b], t)
         /\ SameSession([t EXCEPT !.age = a], t)
BY DEF SameSession, TabRecord

LEMMA SameKeeps ==
  ASSUME NEW list, NEW n, NEW t, SessionOK(list, n, t), NEW u, SameSession(u, t)
  PROVE  SessionOK(list, n, u)
BY TabKeeps DEF SameSession

\* What starts a renewal.
LEMMA RenewalsKeep ==
  ASSUME BrowserInv, Hydrate \/ RenewTimer \/ RetryTimer \/ TabReturns \/ WindowEnds \/ TokenAges
  PROVE  BrowserInv'
<1>1. tab \in TabRecord /\ SessionOK(asked, run, tab)
  BY DEF BrowserInv, SessionOK
<1>2. jar' = jar /\ call' = call
  BY DEF Hydrate, RenewTimer, RetryTimer, TabReturns, WindowEnds, TokenAges
<1>3. (run' = run /\ asked' = asked) \/ StartRun(tab)
  BY DEF Hydrate, RenewTimer, RetryTimer, TabReturns, WindowEnds, TokenAges
<1>4. SessionOK(asked', run', tab)
  BY <1>1, <1>3, StartKeeps
<1>5. SameSession(tab', tab)
  <2>1. CASE Hydrate
    BY <1>1, <2>1, TabField DEF Hydrate
  <2>2. CASE RenewTimer
    BY <1>1, <2>2, TabField DEF RenewTimer
  <2>3. CASE RetryTimer
    BY <1>1, <2>3, TabField DEF RetryTimer
  <2>4. CASE TabReturns
    BY <1>1, <2>4 DEF TabReturns, SameSession
  <2>5. CASE WindowEnds
    BY <1>1, <2>5, TabField DEF WindowEnds
  <2>6. CASE TokenAges
    <3>1. PICK a \in {"near", "expired"} : a = IF tab.age = "fresh" THEN "near" ELSE "expired"
      OBVIOUS
    <3>. QED BY <1>1, <2>6, <3>1, TabField DEF TokenAges
  <2>. QED BY <2>1, <2>2, <2>3, <2>4, <2>5, <2>6
<1>6. CallOK(call', tab'.mixed)
  BY <1>2, <1>5 DEF BrowserInv, SameSession
<1>. QED BY <1>2, <1>4, <1>5, <1>6, SameKeeps DEF BrowserInv

\* A place of the list.
LEMMA Place ==
  ASSUME BrowserInv, NEW r \in DOMAIN asked
  PROVE  /\ r \in 1..Len(asked) /\ r \in Nat /\ asked[r] \in AskedRecord
         /\ AskOK(asked[r], r, run, tab) /\ RunOK(asked, run, tab)
         /\ tab \in TabRecord /\ run \in RunRecord
<1>1. asked \in Seq(AskedRecord) /\ DOMAIN asked = 1..Len(asked) /\ Len(asked) \in Nat
  BY LenProperties DEF BrowserInv, SessionOK
<1>2. asked[r] \in AskedRecord
  BY <1>1, ElementOfSeq
<1>. QED BY <1>1, <1>2 DEF BrowserInv, SessionOK

\* The session of the tab ends.
LEMMA EndKeeps ==
  ASSUME NEW n, NEW expired \in BOOLEAN,
         NEW list, SessionOK(list, n, tab)
  PROVE  /\ SessionOK(Stale(list), n, Cleared(tab, expired))
         /\ Cleared(tab, expired).mixed = tab.mixed
<1>1. tab \in TabRecord
  BY DEF SessionOK
<1>2. PICK u : u = Cleared(tab, expired)
  OBVIOUS
<1>3. /\ u \in TabRecord /\ u.token = NoToken /\ u.epoch = tab.epoch + 1
      /\ u.applied = tab.applied /\ u.mixed = tab.mixed
  BY <1>1, <1>2, ClearedFields
<1>. QED BY <1>2, <1>3, StaleKeeps

LEMMA HeadersKeep ==
  ASSUME BrowserInv, NEW r \in DOMAIN asked, NEW answer \in Answers, HeadersArrive(r, answer)
  PROVE  BrowserInv'
<1>1. /\ r \in 1..Len(asked) /\ asked[r] \in AskedRecord
      /\ AskOK(asked[r], r, run, tab) /\ RunOK(asked, run, tab)
      /\ tab \in TabRecord /\ SessionOK(asked, run, tab) /\ CallOK(call, tab.mixed) /\ jar \in Who
      /\ run \in RunRecord
  BY Place DEF BrowserInv
<1>2. /\ asked[r].at = "sent"
      /\ asked[r].kind # "refresh" => answer = "ok"
      /\ asked[r].kind # "none"
  BY <1>1 DEF HeadersArrive, AskOK
<1>3. jar' \in Who
  <2>1. asked[r].who \in Who /\ Nobody \in Who
    BY <1>1 DEF AskedRecord, Who
  <2>2. jar' = JarAfter(asked[r], answer)
    BY DEF HeadersArrive
  <2>3. JarAfter(asked[r], answer) \in {asked[r].who, Nobody, jar}
    BY DEF JarAfter
  <2>. QED BY <1>1, <2>1, <2>2, <2>3
<1>4. SessionOK(asked', run', tab') /\ CallOK(call', tab'.mixed)
  <2>1. CASE /\ asked[r].waiter = "none" \/ asked[r].waiter = "late"
             /\ asked' = Done(r) /\ UNCHANGED <<tab, run, call>>
    <3>1. ~ (run.at \in {"first", "second"} /\ run.req = r)
      BY <1>1, <2>1 DEF RunOK
    <3>. QED BY <1>1, <1>2, <2>1, <3>1, ForgetKeeps DEF Done
  <2>2. CASE /\ asked[r].kind = "logout"
             /\ asked' = Stale(Done(r)) /\ tab' = Cleared(tab, FALSE) /\ UNCHANGED <<run, call>>
    <3>1. ~ (run.at \in {"first", "second"} /\ run.req = r)
      BY <1>1, <2>2 DEF RunOK
    <3>2. SessionOK(Done(r), run, tab)
      BY <1>1, <1>2, <3>1, ForgetKeeps DEF Done
    <3>3. /\ SessionOK(Stale(Done(r)), run, Cleared(tab, FALSE))
          /\ Cleared(tab, FALSE).mixed = tab.mixed
      BY <3>2, EndKeeps
    <3>. QED BY <1>1, <2>2, <3>3
  <2>3. CASE /\ asked[r].waiter # "none" /\ asked[r].kind # "logout"
             /\ asked' = [asked EXCEPT ![r].at = "body"] /\ UNCHANGED <<tab, run, call>>
    BY <1>1, <1>2, <2>3, BodyKeeps
  <2>4. CASE /\ asked[r].waiter = "page" /\ asked[r].kind # "logout" /\ answer # "ok"
             /\ RunAnswered(r, answer)
    <3>1. asked[r].kind = "refresh" /\ run.at \in {"first", "second"} /\ run.req = r
      BY <1>1, <1>2, <2>4 DEF AskOK
    <3>2. CASE /\ run' = [run EXCEPT !.at = "sleep"] /\ asked' = Done(r)
               /\ UNCHANGED <<tab, call>>
      <4>1. /\ run' \in RunRecord /\ run'.at = "sleep" /\ run'.req = run.req
            /\ run'.epoch = run.epoch /\ run'.applied = run.applied
        BY <1>1, <3>2 DEF RunRecord
      <4>2. SessionOK(Done(r), run', tab)
        BY <1>1, <1>2, <3>1, <4>1, ForgetKeeps DEF Done
      <4>. QED BY <1>1, <3>2, <4>2
    <3>3. NoRun \in RunRecord
      BY DEF NoRun, RunRecord
    <3>4. SessionOK(Done(r), NoRun, tab)
      BY <1>1, <1>2, <3>1, <3>3, ForgetKeeps DEF Done
    <3>5. CASE asked' = Done(r) /\ SettleRun(tab, "resolved")
      <4>1. run' = NoRun /\ SameSession(tab', tab) /\ CallOK(call', tab'.mixed)
        BY <1>1, <3>5, SettleFields
      <4>. QED BY <3>4, <3>5, <4>1, SameKeeps
    <3>6. CASE asked' = Stale(Done(r)) /\ SettleRun(Cleared(tab, TRUE), "resolved")
      <4>1. PICK u : u = Cleared(tab, TRUE)
        OBVIOUS
      <4>2. u \in TabRecord /\ u.mixed = tab.mixed
        BY <1>1, <4>1, ClearedFields
      <4>3. run' = NoRun /\ SameSession(tab', u) /\ CallOK(call', tab'.mixed)
        BY <1>1, <3>6, <4>1, <4>2, SettleFields
      <4>4. SessionOK(Stale(Done(r)), NoRun, u)
        BY <3>4, <4>1, EndKeeps
      <4>. QED BY <3>6, <4>3, <4>4, SameKeeps
    <3>7. CASE /\ asked' = Done(r)
               /\ SettleRun([ScheduleRetry(tab) EXCEPT !.limited = @ \/ answer = "limited"], "rejected")
      <4>1. PICK b \in BOOLEAN : b = (ScheduleRetry(tab).limited \/ answer = "limited")
        OBVIOUS
      <4>2. PICK u : u = [ScheduleRetry(tab) EXCEPT !.limited = b]
        OBVIOUS
      <4>3. SettleRun(u, "rejected")
        BY <3>7, <4>1, <4>2
      <4>4. SameSession(u, tab)
        BY <1>1, <4>2, RetryFields
      <4>5. run' = NoRun /\ SameSession(tab', u) /\ CallOK(call', tab'.mixed)
        BY <1>1, <4>3, <4>4, SettleFields DEF SameSession
      <4>. QED BY <3>4, <3>7, <4>4, <4>5, SameKeeps
    <3>. QED BY <2>4, <3>2, <3>5, <3>6, <3>7 DEF RunAnswered
  <2>5. asked[r].waiter \in {"page", "late", "none"}
    BY <1>1 DEF AskedRecord
  <2>. QED BY <2>1, <2>2, <2>3, <2>4, <2>5 DEF HeadersArrive
<1>. QED BY <1>3, <1>4 DEF BrowserInv

LEMMA BodyArrivalKeeps ==
  ASSUME BrowserInv, NEW r \in DOMAIN asked, NEW whole \in BOOLEAN, BodyArrives(r, whole)
  PROVE  BrowserInv'
<1>1. /\ r \in 1..Len(asked) /\ r \in Nat /\ asked[r] \in AskedRecord
      /\ AskOK(asked[r], r, run, tab) /\ RunOK(asked, run, tab)
      /\ tab \in TabRecord /\ SessionOK(asked, run, tab) /\ CallOK(call, tab.mixed) /\ jar \in Who
      /\ run \in RunRecord /\ NoRun \in RunRecord
  BY Place DEF BrowserInv, NoRun, RunRecord
<1>2. /\ asked[r].at = "body" /\ jar' = jar /\ asked[r].who \in Who
      /\ asked[r].waiter \in {"page", "late"} /\ asked[r].kind \in {"refresh", "login"}
  BY <1>1 DEF BodyArrives, AskOK, AskedRecord
<1>3. run.req = r => run.at \in {"first", "second"}
  BY <1>1, <1>2 DEF RunOK, RunRecord, NoRun
<1>4. PICK w \in BOOLEAN : w = (CASE asked[r].kind = "login" -> TRUE
                                  [] run.req = r -> run.epoch = tab.epoch
                                  [] OTHER -> LateWanted(asked[r]))
  <2>1. (CASE asked[r].kind = "login" -> TRUE
           [] run.req = r -> run.epoch = tab.epoch
           [] OTHER -> LateWanted(asked[r])) \in BOOLEAN
    BY DEF LateWanted, StillWanted
  <2>. QED BY <2>1
<1>5. PICK u : u = IF whole /\ w THEN Applied(tab, r) ELSE tab
  OBVIOUS
<1>6. /\ asked' = IF whole /\ w THEN Outdate(asked, r) ELSE Done(r)
      /\ \/ run.req = r /\ \E outcome \in {"resolved", "rejected"} : SettleRun(u, outcome)
         \/ /\ run.req # r /\ UNCHANGED <<run, call>>
            /\ tab' = u \/ tab' = [u EXCEPT !.hydrated = "yes"]
  BY <1>4, <1>5 DEF BodyArrives
<1>7. PICK m \in RunRecord : m = IF run.req = r THEN NoRun ELSE run
  BY <1>1
<1>8. SessionOK(asked', m, u)
  <2>1. CASE whole /\ w
    <3>1. asked' = Outdate(asked, r) /\ u = Applied(tab, r)
      BY <1>5, <1>6, <2>1
    <3>2. ~asked[r].stale /\ (asked[r].waiter = "late" => ~asked[r].outdated)
      <4>1. CASE asked[r].kind = "login"
        BY <1>1, <4>1 DEF AskOK
      <4>2. CASE asked[r].kind # "login" /\ run.req = r
        <5>1. run.epoch = tab.epoch
          BY <1>4, <2>1, <4>2
        <5>2. Dated(asked[r], run.epoch, run.applied, tab) /\ asked[r].waiter = "page"
          BY <1>1, <1>3, <4>2 DEF RunOK
        <5>3. ~ (run.epoch < tab.epoch)
          BY <1>1, <5>1 DEF RunRecord, TabRecord
        <5>. QED BY <5>2, <5>3 DEF Dated
      <4>3. CASE asked[r].kind # "login" /\ run.req # r
        <5>1. asked[r].epoch = tab.epoch /\ asked[r].applied = tab.applied
          BY <1>4, <2>1, <4>3 DEF LateWanted, StillWanted
        <5>2. asked[r].waiter = "late"
          BY <1>1, <1>2, <4>3 DEF AskOK
        <5>3. Dated(asked[r], asked[r].epoch, asked[r].applied, tab)
          BY <1>1, <1>2, <5>2 DEF AskOK
        <5>4. tab.epoch \in Nat /\ tab.applied \in Nat
          BY <1>1 DEF TabRecord
        <5>5. ~ (asked[r].epoch < tab.epoch) /\ ~ (asked[r].applied < tab.applied)
          BY <5>1, <5>4
        <5>. QED BY <5>3, <5>5 DEF Dated
      <4>. QED BY <4>1, <4>2, <4>3
    <3>3. /\ u \in TabRecord /\ u.token = r /\ u.epoch = tab.epoch /\ u.applied = tab.applied + 1
          /\ u.user = asked[r].who
      BY <1>1, <1>2, <3>1, AppliedFields
    <3>. QED BY <1>1, <1>7, <3>1, <3>2, <3>3, OutdateKeeps
  <2>2. CASE ~ (whole /\ w)
    <3>1. asked' = [asked EXCEPT ![r] = Forgotten] /\ u = tab
      BY <1>5, <1>6, <2>2 DEF Done
    <3>. QED BY <1>1, <1>2, <1>7, <3>1, ForgetKeeps
  <2>. QED BY <2>1, <2>2
<1>9. u \in TabRecord /\ u.mixed = tab.mixed
  BY <1>1, <1>2, <1>5, AppliedFields
<1>10. CASE run.req = r
  <2>1. PICK outcome \in {"resolved", "rejected"} : SettleRun(u, outcome)
    BY <1>6, <1>10
  <2>2. run' = NoRun /\ SameSession(tab', u) /\ CallOK(call', tab'.mixed)
    BY <1>1, <1>9, <2>1, SettleFields
  <2>. QED BY <1>1, <1>2, <1>7, <1>8, <1>10, <2>2, SameKeeps DEF BrowserInv
<1>11. CASE run.req # r
  <2>2. SameSession(u, u) /\ SameSession([u EXCEPT !.hydrated = "yes"], u)
    BY <1>9 DEF SameSession, TabRecord
  <2>1. run' = run /\ call' = call /\ SameSession(tab', u)
    BY <1>6, <1>11, <2>2
  <2>3. CallOK(call', tab'.mixed)
    BY <1>1, <1>9, <2>1 DEF SameSession
  <2>. QED BY <1>1, <1>2, <1>7, <1>8, <1>11, <2>1, <2>3, SameKeeps DEF BrowserInv
<1>. QED BY <1>10, <1>11

LEMMA RunStepsKeep ==
  ASSUME BrowserInv, RunTimesOut \/ ConflictRetry
  PROVE  BrowserInv'
<1>1. SessionOK(asked, run, tab) /\ tab \in TabRecord /\ CallOK(call, tab.mixed) /\ run \in RunRecord
  BY DEF BrowserInv, SessionOK
<1>2. CASE RunTimesOut
  <2>1. SessionOK(asked', NoRun, tab)
    BY <1>1, <1>2, LateKeeps DEF RunTimesOut
  <2>2. PICK u : u = IF run.epoch = tab.epoch THEN ScheduleRetry(tab) ELSE tab
    OBVIOUS
  <2>3. SameSession(u, tab)
    BY <1>1, <2>2, RetryFields DEF SameSession
  <2>4. SettleRun(u, "rejected") /\ jar' = jar
    BY <1>2, <2>2 DEF RunTimesOut
  <2>5. run' = NoRun /\ SameSession(tab', u) /\ CallOK(call', tab'.mixed)
    BY <1>1, <2>3, <2>4, SettleFields DEF SameSession
  <2>. QED BY <2>1, <2>3, <2>4, <2>5, SameKeeps DEF BrowserInv
<1>3. CASE ConflictRetry
  <2>1. Len(asked) \in Nat
    BY LenProperties, <1>1 DEF SessionOK
  <2>2. PICK l \in Nat : l = Len(asked) + 1
    BY <2>1
  <2>3. run' = [run EXCEPT !.at = "second", !.req = l]
    BY <1>3, <2>2 DEF ConflictRetry
  <2>4. /\ run' \in RunRecord /\ run'.at = "second" /\ run'.req = Len(asked) + 1
        /\ run'.epoch = run.epoch /\ run'.applied = run.applied
    BY <1>1, <2>2, <2>3 DEF RunRecord
  <2>5. run.at = "sleep" /\ run.epoch <= tab.epoch /\ run.applied <= tab.applied
    BY <1>1, <1>3 DEF ConflictRetry, SessionOK, RunOK
  <2>6. asked' = Append(asked, Asked("refresh", jar)) /\ jar' = jar /\ tab' = tab /\ call' = call
    BY <1>3 DEF ConflictRetry
  <2>7. SessionOK(Append(asked, Asked("refresh", jar)), run', tab)
    BY <1>1, <2>4, <2>5, AskKeeps DEF BrowserInv
  <2>. QED BY <2>6, <2>7 DEF BrowserInv
<1>. QED BY <1>2, <1>3

LEMMA UserKeeps ==
  ASSUME BrowserInv,
         \/ Logout \/ Reload \/ Told
         \/ \E u \in Account : Login(u)
         \/ \E w \in Who : OtherTab(w)
         \/ \E r \in DOMAIN asked : LogoutFails(r)
  PROVE  BrowserInv'
<1>1. /\ SessionOK(asked, run, tab) /\ tab \in TabRecord /\ CallOK(call, tab.mixed) /\ run \in RunRecord
      /\ jar \in Who
  BY DEF BrowserInv, SessionOK
<1>2. CASE Logout
  BY <1>1, <1>2, AskKeeps DEF Logout, BrowserInv
<1>3. ASSUME NEW u \in Account, Login(u) PROVE BrowserInv'
  <2>1. u \in Who
    BY DEF Who
  <2>. QED BY <1>1, <1>3, <2>1, AskKeeps DEF Login, BrowserInv
<1>5. CASE Reload
  <2>2. CallOK(call', tab'.mixed)
    BY <1>5, NoCallFields DEF Reload, CallOK
  <2>3. SessionOK(asked', run', tab')
    BY <1>1, <1>5, ReloadKeeps DEF Reload
  <2>. QED BY <1>1, <1>5, <2>2, <2>3 DEF Reload, BrowserInv
<1>6. CASE Told
  <2>1. SessionOK(Stale(asked), run, Cleared(tab, FALSE)) /\ Cleared(tab, FALSE).mixed = tab.mixed
    BY <1>1, EndKeeps
  <2>. QED BY <1>1, <1>6, <2>1 DEF Told, BrowserInv
<1>7. ASSUME NEW w \in Who, OtherTab(w) PROVE BrowserInv'
  BY <1>1, <1>7 DEF OtherTab, BrowserInv
<1>8. ASSUME NEW r \in DOMAIN asked, LogoutFails(r) PROVE BrowserInv'
  <2>1. r \in 1..Len(asked) /\ RunOK(asked, run, tab)
    BY Place
  <2>2. ~ (run.at \in {"first", "second"} /\ run.req = r)
    BY <1>8, <2>1 DEF LogoutFails, RunOK
  <2>3. SessionOK(Done(r), run, tab)
    BY <1>1, <1>8, <2>1, <2>2, ForgetKeeps DEF Done, LogoutFails
  <2>4. /\ SessionOK(Stale(Done(r)), run, Cleared(tab, FALSE))
        /\ Cleared(tab, FALSE).mixed = tab.mixed
    BY <2>3, EndKeeps
  <2>. QED BY <1>1, <1>8, <2>4 DEF LogoutFails, BrowserInv
<1>. QED BY <1>2, <1>3, <1>5, <1>6, <1>7, <1>8

LEMMA CallsKeep ==
  ASSUME BrowserInv,
         \/ Resume \/ ReloadUser \/ \E kind \in {"api", "me"} : CallApi(kind)
         \/ \E revoked \in BOOLEAN : CallAnswered(revoked) \/ ReplayAnswered(revoked)
  PROVE  BrowserInv'
<1>1. /\ SessionOK(asked, run, tab) /\ tab \in TabRecord /\ CallOK(call, tab.mixed) /\ run \in RunRecord
      /\ jar \in Who /\ tab.mixed \in BOOLEAN
  BY DEF BrowserInv, SessionOK, TabRecord
<1>2. ASSUME NEW kind \in {"api", "me"}, CallApi(kind) PROVE BrowserInv'
  <2>6. CallOK(call', tab.mixed) /\ jar' = jar
    BY <1>1, <1>2, BeginsFields DEF CallApi
  <2>5. \A h \in {"running", "yes"} :
          SameSession(tab, tab) /\ SameSession([tab EXCEPT !.hydrated = h], tab)
    BY <1>1 DEF SameSession, TabRecord
  <2>2. SameSession(tab', tab)
    BY <1>2, <2>5 DEF CallApi
  <2>3. StartRun(tab) \/ (run' = run /\ asked' = asked)
    BY <1>2 DEF CallApi
  <2>4. SessionOK(asked', run', tab)
    BY <1>1, <2>3, StartKeeps
  <2>1. CallOK(call', tab'.mixed)
    BY <2>2, <2>6 DEF SameSession
  <2>. QED BY <1>1, <2>1, <2>2, <2>4, <2>6, SameKeeps DEF BrowserInv
<1>3. CASE Resume
  <2>1. jar' = jar /\ tab' = tab
    BY <1>3 DEF Resume
  <2>2. StartRun(tab) \/ (run' = run /\ asked' = asked)
    BY <1>3 DEF Resume
  <2>3. CallOK(call', tab.mixed)
    <3>1. ASSUME NEW at \in {"renew", "renewAgain"}, NEW b \in BOOLEAN,
                 at = "renewAgain" => call.at = "again",
                 Waits(at, IF b THEN "rejected" ELSE "no")
          PROVE  CallOK(call', tab.mixed)
      <4>1. PICK now \in {"no", "rejected"} : now = IF b THEN "rejected" ELSE "no"
        OBVIOUS
      <4>2. at \in {"again", "renewAgain"} => call.token # NoToken
        BY <1>1, <3>1 DEF CallOK
      <4>. QED BY <1>1, <3>1, <4>1, <4>2, WaitsFields
    <3>2. Refused(tab) \in BOOLEAN
      BY <1>1 DEF Refused, TabRecord
    <3>3. CASE Ends
      BY <3>3, EndsFields
    <3>4. CASE SendFirst
      BY <3>4, SendFields
    <3>5. CASE SendAgain /\ SameAccount /\ call.at \in {"again", "renewAgain"}
      BY <3>5, SendFields
    <3>. QED BY <1>3, <3>1, <3>2, <3>3, <3>4, <3>5 DEF Resume, ReplayAllowed
  <2>4. SessionOK(asked', run', tab)
    BY <1>1, <2>2, StartKeeps
  <2>. QED BY <1>1, <2>1, <2>3, <2>4 DEF BrowserInv
<1>4. ASSUME NEW revoked \in BOOLEAN, CallAnswered(revoked) PROVE BrowserInv'
  <2>1. jar' = jar /\ tab' = tab
    BY <1>4 DEF CallAnswered
  <2>2. StartRun(tab) \/ (run' = run /\ asked' = asked)
    BY <1>4 DEF CallAnswered
  <2>3. CallOK(call', tab.mixed)
    <3>1. CASE Ends
      BY <3>1, EndsFields
    <3>2. ASSUME call.token # NoToken, NEW now \in {"no", "rejected", "resolved"}, Waits("again", now)
          PROVE  CallOK(call', tab.mixed)
      BY <1>1, <3>2, WaitsFields
    <3>3. \/ Ends
          \/ call.token # NoToken /\ Waits("again", "resolved")
          \/ call.token # NoToken /\ Waits("again", IF Refused(tab) THEN "rejected" ELSE "no")
      BY <1>4 DEF CallAnswered
    <3>4. (IF Refused(tab) THEN "rejected" ELSE "no") \in {"no", "rejected", "resolved"}
      OBVIOUS
    <3>. QED BY <3>1, <3>2, <3>3, <3>4
  <2>4. SessionOK(asked', run', tab)
    BY <1>1, <2>2, StartKeeps
  <2>. QED BY <1>1, <2>1, <2>3, <2>4 DEF BrowserInv
<1>5. ASSUME NEW revoked \in BOOLEAN, ReplayAnswered(revoked) PROVE BrowserInv'
  <2>1. CallOK(call', tab'.mixed) /\ jar' = jar /\ run' = run
    BY <1>5, EndsFields DEF ReplayAnswered
  <2>2. SessionOK(Stale(asked), run, Cleared(tab, TRUE))
    BY <1>1, EndKeeps
  <2>3. \/ tab' = Cleared(tab, TRUE) /\ asked' = Stale(asked)
        \/ tab' = tab /\ asked' = asked
    BY <1>5 DEF ReplayAnswered
  <2>. QED BY <1>1, <2>1, <2>2, <2>3 DEF BrowserInv
<1>6. CASE ReloadUser
  <2>1. PICK held \in Who : held = Holder
    BY HolderFields
  <2>2. PICK who \in Who : who = IF call.at = "sent" THEN call.who ELSE call.as
    BY <1>1 DEF CallOK, CallRecord
  <2>3. PICK a \in Nat : a = tab.applied
    BY <1>1 DEF TabRecord
  <2>4. PICK b \in BOOLEAN : b = (tab.mixed \/ (tab.token # NoToken /\ who # held))
    OBVIOUS
  <2>5. tab' = [tab EXCEPT !.user = who, !.applied = a + 1, !.mixed = b]
    BY <1>6, <2>1, <2>2, <2>3, <2>4 DEF ReloadUser
  <2>6. a + 1 \in Nat
    BY <2>3
  <2>7. /\ tab' \in TabRecord /\ tab'.token = tab.token /\ tab'.epoch = tab.epoch
        /\ tab'.applied = tab.applied + 1 /\ tab'.user = who /\ tab'.mixed = b
    BY <1>1, <2>3, <2>5, <2>6 DEF TabRecord
  <2>8. tab'.token # NoToken /\ ~tab'.mixed => tab'.user = asked[tab'.token].who
    BY <2>1, <2>4, <2>7 DEF Holder
  <2>9. SessionOK(Outdate(asked, 0), run, tab')
    BY <1>1, <2>7, <2>8, OutdateKeeps
  <2>10. CallOK(call', tab'.mixed) /\ jar' = jar /\ run' = run /\ asked' = Outdate(asked, 0)
    BY <1>6, EndsFields DEF ReloadUser
  <2>. QED BY <1>1, <2>9, <2>10 DEF BrowserInv
<1>. QED BY <1>2, <1>3, <1>4, <1>5, <1>6

LEMMA BrowserInitInv == BrowserInit => BrowserInv
<1>. SUFFICES ASSUME BrowserInit PROVE BrowserInv
  OBVIOUS
<1>1. asked = << >> /\ asked \in Seq(AskedRecord) /\ Len(asked) = 0
  BY EmptySeq DEF BrowserInit
<1>2. run \in RunRecord /\ run.at = "none" /\ run = NoRun
  BY DEF BrowserInit, NoRun, RunRecord
<1>3. tab \in TabRecord /\ tab.token = NoToken
  BY DEF BrowserInit, NewPage, TabRecord, Who, NoToken
<1>4. CallOK(call, tab.mixed)
  BY NoCallFields DEF BrowserInit, CallOK
<1>5. RunOK(asked, run, tab) /\ TokenOK(asked, tab)
  BY <1>2, <1>3 DEF RunOK, TokenOK
<1>6. \A i \in 1..Len(asked) : AskOK(asked[i], i, run, tab)
  BY <1>1
<1>7. SessionOK(asked, run, tab)
  BY <1>1, <1>2, <1>3, <1>5, <1>6 DEF SessionOK
<1>8. jar \in Who
  BY DEF BrowserInit, Who
<1>. QED BY <1>4, <1>7, <1>8 DEF BrowserInv

LEMMA BrowserNextInv == BrowserInv /\ [BrowserNext]_browserVars => BrowserInv'
<1>. SUFFICES ASSUME BrowserInv, [BrowserNext]_browserVars PROVE BrowserInv'
  OBVIOUS
<1>1. CASE UNCHANGED browserVars
  BY <1>1 DEF browserVars, BrowserInv
<1>2. CASE \/ Resume \/ ReloadUser \/ \E kind \in {"api", "me"} : CallApi(kind)
           \/ \E revoked \in BOOLEAN : CallAnswered(revoked) \/ ReplayAnswered(revoked)
  BY <1>2, CallsKeep
<1>3. CASE Hydrate \/ RenewTimer \/ RetryTimer \/ TabReturns \/ WindowEnds \/ TokenAges
  BY <1>3, RenewalsKeep
<1>4. ASSUME NEW r \in DOMAIN asked, NEW answer \in Answers, HeadersArrive(r, answer)
      PROVE  BrowserInv'
  BY <1>4, HeadersKeep
<1>5. ASSUME NEW r \in DOMAIN asked, NEW whole \in BOOLEAN, BodyArrives(r, whole)
      PROVE  BrowserInv'
  BY <1>5, BodyArrivalKeeps
<1>6. CASE RunTimesOut \/ ConflictRetry
  BY <1>6, RunStepsKeep
<1>7. CASE \/ Logout \/ Reload \/ Told
           \/ \E u \in Account : Login(u)
           \/ \E w \in Account \cup {Nobody} : OtherTab(w)
           \/ \E r \in DOMAIN asked : LogoutFails(r)
  BY <1>7, UserKeeps DEF Who
<1>. QED BY <1>1, <1>2, <1>3, <1>4, <1>5, <1>6, <1>7 DEF BrowserNext

\* The types of the tab, of its run and of its requests, and that what ended or
\* was applied since a refresh left shows in the two counts, always hold.
THEOREM BrowserHolds == BrowserSpec => []BrowserInv
  BY BrowserInitInv, BrowserNextInv, PTL DEF BrowserSpec

\* A session that ended in this tab is not brought back by a refresh that was
\* out when it did, a refresh its waiters gave up on replaces nothing that was
\* applied since, and a request is replayed only with a token of the account it
\* first went out for, unless reloadUser wrote one account beside the token of
\* another: whatever the other tabs do and in whatever order answers arrive
\* (store.ts: applyLate, runRefresh, clearSession, authFetch).
THEOREM SessionsKept == BrowserSpec => []SessionsAreKept
<1>1. BrowserInv => SessionsAreKept
  BY DEF BrowserInv, SessionOK, TokenOK, CallOK, SessionsAreKept, EndedStaysEnded,
         ReplayKeepsAccount
<1>. QED BY <1>1, BrowserHolds, PTL

\* What keeps the renewals of a signed-in tab going.  A run of an earlier session
\* schedules nothing when it ends; until then the session's own timer is set or
\* lost to it, and the run waits for a body or is older than the token.
RenewOK(body, n, t, c) ==
  /\ t.limited => t.retryAt
  /\ t.token # NoToken => t.renewAt \/ t.retryAt \/ (n # NoRun /\ n.epoch = t.epoch) \/ c
  /\ t.token # NoToken /\ n # NoRun /\ n.epoch # t.epoch =>
       /\ t.renewAt \/ c
       /\ body \/ (t.age = "fresh" /\ n.applied # t.applied)

RenewInv == RenewOK(BodyAwaited, run, tab, lost)

\* A run that waits for a body waits on while other requests come and go.
LEMMA BodyStays ==
  ASSUME BrowserInv, BodyAwaited, run' = run, NEW r \in Nat, NEW q,
         \/ asked' = asked \/ asked' = Append(asked, q)
         \/ r # run.req /\ asked' = Outdate(asked, r)
         \/ r # run.req /\ asked' = [asked EXCEPT ![r] = q]
  PROVE  BodyAwaited'
<1>1. /\ asked \in Seq(AskedRecord) /\ Len(asked) \in Nat /\ DOMAIN asked = 1..Len(asked)
      /\ run \in RunRecord /\ RunOK(asked, run, tab)
  BY LenProperties DEF BrowserInv, SessionOK
<1>2. PICK i \in 1..Len(asked) : i = run.req /\ asked[i].at = "body" /\ run # NoRun
  BY <1>1 DEF BodyAwaited, RunOK
<1>3. CASE asked' = asked
  BY <1>3 DEF BodyAwaited
<1>4. CASE asked' = Append(asked, q)
  <2>1. asked'[i] = asked[i]
    BY <1>1, <1>2, <1>4
  <2>. QED BY <1>2, <2>1 DEF BodyAwaited
<1>5. CASE r # run.req /\ asked' = Outdate(asked, r)
  <2>1. i \in DOMAIN asked /\ i # r /\ asked[i].at # "done"
    BY <1>1, <1>2, <1>5
  <2>2. asked'[i] = [asked[i] EXCEPT !.outdated = @ \/ Out(asked[i])]
    BY <1>5, <2>1, Zenon DEF Outdate
  <2>3. asked[i] \in AskedRecord
    BY <1>1, ElementOfSeq
  <2>4. asked'[i].at = "body"
    BY <1>2, <2>2, <2>3 DEF AskedRecord
  <2>. QED BY <1>2, <2>4 DEF BodyAwaited
<1>6. CASE r # run.req /\ asked' = [asked EXCEPT ![r] = q]
  <2>1. asked'[i] = asked[i]
    BY <1>1, <1>2, <1>6
  <2>. QED BY <1>2, <2>1 DEF BodyAwaited
<1>. QED BY <1>3, <1>4, <1>5, <1>6

\* What the tab and its run show, when neither has changed much.
LEMMA RenewStays ==
  ASSUME RenewInv, NEW n, NEW t, NEW body, t.token = tab.token, t.epoch = tab.epoch,
         t.applied = tab.applied, t.age = tab.age, t.renewAt = tab.renewAt,
         t.retryAt = tab.retryAt, t.limited = tab.limited,
         run # NoRun => n # NoRun /\ n.epoch = run.epoch /\ n.applied = run.applied,
         run = NoRun => n = NoRun, BodyAwaited => body
  PROVE  RenewOK(body, n, t, lost)
BY DEF RenewInv, RenewOK

\* The tab u has the session and the timers of t.
SameTimers(u, t) ==
  /\ SameSession(u, t) /\ u.age = t.age
  /\ u.renewAt = t.renewAt /\ u.retryAt = t.retryAt /\ u.limited = t.limited

LEMMA SettleTimers ==
  ASSUME NEW t \in TabRecord, NEW outcome, SettleRun(t, outcome)
  PROVE  run' = NoRun /\ SameTimers(tab', t)
<1>1. PICK h \in {"no", "running", "yes"} : h = IF t.hydrated = "running" THEN "yes" ELSE t.hydrated
  BY DEF TabRecord
<1>2. tab' = [t EXCEPT !.hydrated = h]
  BY <1>1 DEF SettleRun
<1>. QED BY <1>2 DEF SettleRun, SameTimers, SameSession, TabRecord

LEMMA ClearedTimers ==
  ASSUME NEW t \in TabRecord, NEW expired \in BOOLEAN, NEW n, NEW c, NEW body
  PROVE  RenewOK(body, n, Cleared(t, expired), c)
<1>1. PICK b \in BOOLEAN : b = (expired /\ (t.token # NoToken \/ t.user # Nobody))
  OBVIOUS
<1>2. PICK u : u = Cleared(t, expired)
  OBVIOUS
<1>3. PICK v : v = [t EXCEPT !.token = NoToken, !.user = Nobody, !.age = "none", !.renewAt = FALSE,
                             !.retryAt = FALSE]
  OBVIOUS
<1>4. u = [v EXCEPT !.limited = FALSE, !.epoch = @ + 1, !.expired = b]
  BY <1>1, <1>2, <1>3 DEF Cleared, TabRecord
<1>5. ~u.limited
  BY <1>3, <1>4 DEF TabRecord
<1>6. u.token = NoToken
  BY <1>2, ClearedFields
<1>. QED BY <1>2, <1>5, <1>6 DEF RenewOK

LEMMA AppliedTimers ==
  ASSUME NEW t \in TabRecord, NEW r
  PROVE  /\ Applied(t, r).renewAt /\ Applied(t, r).age = "fresh"
         /\ ~Applied(t, r).limited /\ ~Applied(t, r).retryAt
<1>1. PICK u : u = Applied(t, r)
  OBVIOUS
<1>2. PICK v : v = [t EXCEPT !.token = r, !.user = asked[r].who, !.age = "fresh", !.expired = FALSE]
  OBVIOUS
<1>3. u = [v EXCEPT !.renewAt = TRUE, !.retryAt = FALSE, !.limited = FALSE, !.applied = @ + 1]
  BY <1>1, <1>2 DEF Applied, TabRecord
<1>4. u.renewAt /\ u.age = "fresh" /\ ~u.limited /\ ~u.retryAt
  BY <1>2, <1>3 DEF TabRecord
<1>. QED BY <1>1, <1>4

\* A timer that fires finds or begins a run, or another timer is set.
LEMMA StartTimers ==
  ASSUME BrowserInv, RenewInv, StartRun(tab), NEW t, SameSession(t, tab), t.age = tab.age,
         t.limited = tab.limited, t.retryAt = tab.retryAt \/ ~tab.limited, NEW c, lost => c,
         t.renewAt = tab.renewAt \/ (run # NoRun /\ run.epoch # tab.epoch => c)
  PROVE  RenewOK(BodyAwaited', run', t, c)
<1>1. /\ tab \in TabRecord /\ run \in RunRecord /\ t.token = tab.token /\ t.epoch = tab.epoch
      /\ t.applied = tab.applied
  BY DEF BrowserInv, SessionOK, SameSession
<1>2. t.limited => t.retryAt
  BY DEF RenewInv, RenewOK
<1>3. CASE run' = run /\ asked' = asked
  <2>1. run # NoRun \/ tab.limited
    BY <1>1, <1>3, LenProperties DEF StartRun, NoRun
  <2>2. BodyAwaited' = BodyAwaited
    BY <1>3 DEF BodyAwaited
  <2>3. CASE run # NoRun /\ run.epoch = tab.epoch
    BY <1>1, <1>2, <1>3, <2>3 DEF RenewOK
  <2>4. CASE run # NoRun /\ run.epoch # tab.epoch
    BY <1>1, <1>2, <1>3, <2>2, <2>4 DEF RenewInv, RenewOK
  <2>5. CASE run = NoRun
    BY <1>1, <1>2, <1>3, <2>1, <2>5 DEF RenewOK
  <2>. QED BY <2>3, <2>4, <2>5
<1>4. CASE run' = [at |-> "first", req |-> Len(asked) + 1, epoch |-> tab.epoch, applied |-> tab.applied]
  <2>1. run' # NoRun /\ run'.epoch = tab.epoch
    BY <1>4 DEF NoRun
  <2>. QED BY <1>1, <1>2, <2>1 DEF RenewOK
<1>. QED BY <1>3, <1>4 DEF StartRun

LEMMA RenewalTimers ==
  ASSUME BrowserInv, RenewInv,
         Hydrate \/ RenewTimer \/ RetryTimer \/ TabReturns \/ WindowEnds \/ TokenAges
  PROVE  RenewInv'
<1>1. /\ tab \in TabRecord /\ run \in RunRecord
  BY DEF BrowserInv, SessionOK
<1>2. ~RenewTimer => lost' = lost
  BY DEF Hydrate, RenewTimer, RetryTimer, TabReturns, WindowEnds, TokenAges
<1>3. CASE Hydrate
  <2>1. SameTimers(tab', tab) /\ lost' = lost
    BY <1>1, <1>3 DEF Hydrate, SameTimers, SameSession, TabRecord
  <2>2. CASE run' = run /\ asked' = asked
    <3>1. BodyAwaited' = BodyAwaited
      BY <2>2 DEF BodyAwaited
    <3>. QED BY <2>1, <2>2, <3>1, RenewStays DEF RenewInv, SameTimers, SameSession
  <2>3. CASE StartRun(tab)
    BY <2>1, <2>3, StartTimers DEF RenewInv, SameTimers
  <2>. QED BY <1>3, <2>2, <2>3 DEF Hydrate
<1>4. CASE RenewTimer
  <2>1. /\ SameSession(tab', tab) /\ tab'.age = tab.age /\ tab'.limited = tab.limited
        /\ tab'.retryAt = tab.retryAt
    BY <1>1, <1>4 DEF RenewTimer, SameSession, TabRecord
  <2>2. (lost => lost') /\ (run # NoRun /\ run.epoch # tab.epoch => lost') /\ StartRun(tab)
    BY <1>4 DEF RenewTimer
  <2>3. RenewOK(BodyAwaited', run', tab', lost')
    BY <2>1, <2>2, StartTimers
  <2>. QED BY <2>3 DEF RenewInv
<1>5. CASE RetryTimer
  <2>1. /\ SameSession(tab', tab) /\ tab'.age = tab.age /\ tab'.limited = tab.limited
        /\ tab'.renewAt = tab.renewAt /\ lost' = lost
    BY <1>1, <1>5 DEF RetryTimer, SameSession, TabRecord
  <2>. QED BY <1>5, <2>1, StartTimers DEF RenewInv, RetryTimer
<1>6. CASE TabReturns
  <2>1. SameSession(tab, tab)
    BY <1>1 DEF SameSession
  <2>. QED BY <1>6, <2>1, StartTimers DEF RenewInv, TabReturns
<1>7. CASE WindowEnds
  <2>1. /\ SameSession(tab', tab) /\ tab'.age = tab.age /\ ~tab'.limited
        /\ tab'.renewAt = tab.renewAt /\ tab'.retryAt = tab.retryAt
    BY <1>1, <1>7 DEF WindowEnds, SameSession, TabRecord
  <2>2. run' = run /\ BodyAwaited' = BodyAwaited /\ lost' = lost
    BY <1>7 DEF WindowEnds, BodyAwaited
  <2>. QED BY <2>1, <2>2 DEF RenewInv, RenewOK, SameSession
<1>8. CASE TokenAges
  <2>1. PICK a \in {"near", "expired"} : a = IF tab.age = "fresh" THEN "near" ELSE "expired"
    OBVIOUS
  <2>2. tab' = [tab EXCEPT !.age = a] /\ run' = run /\ lost' = lost
    BY <1>8, <2>1 DEF TokenAges
  <2>3. /\ SameSession(tab', tab) /\ tab'.limited = tab.limited
        /\ tab'.renewAt = tab.renewAt /\ tab'.retryAt = tab.retryAt
    BY <1>1, <2>2 DEF SameSession, TabRecord
  <2>4. /\ tab.age = "fresh" => run = NoRun \/ run.applied = tab.applied \/ BodyAwaited
        /\ BodyAwaited' = BodyAwaited
    BY <1>8 DEF TokenAges, BodyAwaited
  <2>. QED BY <2>2, <2>3, <2>4 DEF RenewInv, RenewOK, SameSession
<1>. QED BY <1>3, <1>4, <1>5, <1>6, <1>7, <1>8

LEMMA HeadersTimers ==
  ASSUME BrowserInv, RenewInv, NEW r \in DOMAIN asked, NEW answer \in Answers,
         HeadersArrive(r, answer)
  PROVE  RenewInv'
<1>1. /\ r \in 1..Len(asked) /\ r \in Nat /\ asked[r] \in AskedRecord /\ tab \in TabRecord
      /\ AskOK(asked[r], r, run, tab) /\ run \in RunRecord /\ lost' = lost
      /\ asked[r].at = "sent"
  BY Place DEF HeadersArrive
<1>2. ASSUME UNCHANGED <<tab, run>>, NEW q, asked' = [asked EXCEPT ![r] = q]
      PROVE  RenewInv'
  <2>1. BodyAwaited => r # run.req
    BY <1>1 DEF BodyAwaited
  <2>2. BodyAwaited => BodyAwaited'
    BY <1>1, <1>2, <2>1, BodyStays
  <2>. QED BY <1>1, <1>2, <2>2, RenewStays DEF RenewInv
<1>3. CASE tab' = Cleared(tab, FALSE)
  BY <1>1, <1>3, ClearedTimers DEF RenewInv
<1>4. CASE asked[r].waiter = "page" /\ asked[r].kind = "refresh" /\ RunAnswered(r, answer)
  <2>1. run # NoRun /\ run.req = r
    BY <1>1, <1>4 DEF AskOK, NoRun
  <2>6. ~BodyAwaited
    BY <1>1, <2>1 DEF BodyAwaited
  <2>2. CASE run' = [run EXCEPT !.at = "sleep"] /\ tab' = tab
    <3>1. run'.at = "sleep" /\ run'.epoch = run.epoch /\ run'.applied = run.applied
      BY <1>1, <2>2 DEF RunRecord
    <3>2. run' # NoRun
      BY <3>1 DEF NoRun
    <3>. QED BY <1>1, <2>1, <2>2, <2>6, <3>1, <3>2, RenewStays DEF RenewInv
  <2>3. CASE run.epoch # tab.epoch /\ SettleRun(tab, "resolved")
    <3>1. run' = NoRun /\ SameTimers(tab', tab)
      BY <1>1, <2>3, SettleTimers
    <3>. QED BY <1>1, <2>1, <2>3, <3>1 DEF RenewInv, RenewOK, SameTimers, SameSession
  <2>4. CASE SettleRun(Cleared(tab, TRUE), "resolved")
    <3>1. PICK u : u = Cleared(tab, TRUE)
      OBVIOUS
    <3>2. u \in TabRecord /\ RenewOK(FALSE, NoRun, u, lost)
      BY <1>1, <3>1, ClearedFields, ClearedTimers
    <3>3. run' = NoRun /\ SameTimers(tab', u)
      BY <2>4, <3>1, <3>2, SettleTimers
    <3>. QED BY <1>1, <3>2, <3>3 DEF RenewInv, RenewOK, SameTimers, SameSession
  <2>5. CASE SettleRun([ScheduleRetry(tab) EXCEPT !.limited = @ \/ answer = "limited"], "rejected")
    <3>1. PICK b \in BOOLEAN : b = (ScheduleRetry(tab).limited \/ answer = "limited")
      OBVIOUS
    <3>2. PICK u : u = [ScheduleRetry(tab) EXCEPT !.limited = b]
      OBVIOUS
    <3>3. SettleRun(u, "rejected")
      BY <2>5, <3>1, <3>2
    <3>4. u = [tab EXCEPT !.retryAt = TRUE, !.limited = b]
      BY <1>1, <3>2 DEF ScheduleRetry, TabRecord
    <3>5. u \in TabRecord /\ u.retryAt
      BY <1>1, <3>4 DEF TabRecord
    <3>6. run' = NoRun /\ SameTimers(tab', u)
      BY <3>3, <3>5, SettleTimers
    <3>. QED BY <3>5, <3>6 DEF RenewInv, RenewOK, SameTimers, SameSession
  <2>. QED BY <1>4, <2>2, <2>3, <2>4, <2>5 DEF RunAnswered
<1>5. asked[r].waiter \in {"page", "late", "none"} /\ asked[r].kind # "none"
  BY <1>1 DEF AskedRecord, AskOK
<1>6. asked[r].kind \in {"refresh", "login", "logout"}
  BY <1>1, <1>5 DEF AskedRecord
<1>7. CASE UNCHANGED <<tab, run>> /\ (asked' = Done(r) \/ asked' = [asked EXCEPT ![r].at = "body"])
  <2>1. asked' = [asked EXCEPT ![r] = Forgotten] \/ asked' = [asked EXCEPT ![r] = [asked[r] EXCEPT !.at = "body"]]
    BY <1>7 DEF Done
  <2>2. CASE asked' = [asked EXCEPT ![r] = Forgotten]
    BY <1>2, <1>7, <2>2
  <2>3. CASE asked' = [asked EXCEPT ![r] = [asked[r] EXCEPT !.at = "body"]]
    BY <1>2, <1>7, <2>3
  <2>. QED BY <2>1, <2>2, <2>3
<1>. QED BY <1>3, <1>4, <1>5, <1>6, <1>7 DEF HeadersArrive

LEMMA BodyTimers ==
  ASSUME BrowserInv, RenewInv, NEW r \in DOMAIN asked, NEW whole \in BOOLEAN,
         BodyArrives(r, whole)
  PROVE  RenewInv'
<1>1. /\ r \in 1..Len(asked) /\ r \in Nat /\ asked[r] \in AskedRecord /\ tab \in TabRecord
      /\ RunOK(asked, run, tab) /\ run \in RunRecord
      /\ asked[r].at = "body" /\ asked[r].who \in Who
  BY Place DEF BodyArrives, AskedRecord
<1>2. run.req = r => run # NoRun /\ asked[r].kind = "refresh"
  BY <1>1 DEF RunOK, RunRecord, NoRun
<1>3. PICK w \in BOOLEAN : w = (CASE asked[r].kind = "login" -> TRUE
                                  [] run.req = r -> run.epoch = tab.epoch
                                  [] OTHER -> LateWanted(asked[r]))
  <2>1. (CASE asked[r].kind = "login" -> TRUE
           [] run.req = r -> run.epoch = tab.epoch
           [] OTHER -> LateWanted(asked[r])) \in BOOLEAN
    BY DEF LateWanted, StillWanted
  <2>. QED BY <2>1
<1>4. PICK u : u = IF whole /\ w THEN Applied(tab, r) ELSE tab
  OBVIOUS
<1>5. /\ \/ run.req = r /\ \E outcome : SettleRun(u, outcome)
         \/ /\ run.req # r /\ run' = run
            /\ tab' = u \/ tab' = [u EXCEPT !.hydrated = "yes"]
      /\ asked' = IF whole /\ w THEN Outdate(asked, r) ELSE Done(r)
      /\ lost' = IF whole /\ w THEN FALSE ELSE lost \/ ~whole
  BY <1>3, <1>4 DEF BodyArrives
<1>6. u \in TabRecord
  BY <1>1, <1>4, AppliedFields
<1>7. PICK n : n = IF run.req = r THEN NoRun ELSE run
  OBVIOUS
<1>8. run' = n /\ SameTimers(tab', u)
  <2>1. CASE run.req = r
    BY <1>5, <1>6, <1>7, <2>1, SettleTimers
  <2>2. CASE run.req # r
    <3>1. SameTimers(u, u) /\ SameTimers([u EXCEPT !.hydrated = "yes"], u)
      BY <1>6 DEF SameTimers, SameSession, TabRecord
    <3>. QED BY <1>5, <1>7, <2>2, <3>1
  <2>. QED BY <2>1, <2>2
<1>10. n # NoRun => n = run /\ (BodyAwaited => BodyAwaited')
  <2>1. SUFFICES ASSUME n # NoRun, BodyAwaited PROVE BodyAwaited'
    BY <1>7
  <2>2. run.req # r /\ run' = run
    BY <1>7, <1>8, <2>1
  <2>3. asked' = Outdate(asked, r) \/ asked' = [asked EXCEPT ![r] = Forgotten]
    BY <1>5 DEF Done
  <2>. QED BY <1>1, <2>1, <2>2, <2>3, BodyStays
<1>9. RenewOK(BodyAwaited', n, u, lost')
  <2>1. CASE whole /\ w
    <3>1. u.renewAt /\ u.age = "fresh" /\ ~u.limited /\ u.applied = tab.applied + 1
      BY <1>1, <1>4, <2>1, AppliedTimers, AppliedFields
    <3>2. n # NoRun => n.applied # u.applied
      <4>1. SUFFICES ASSUME n # NoRun PROVE n.applied # u.applied
        OBVIOUS
      <4>2. n = run /\ run # NoRun
        BY <1>7, <4>1
      <4>3. run.at # "none"
        BY <1>1, <4>2 DEF RunOK
      <4>4. run.applied <= tab.applied /\ tab.applied \in Nat /\ run.applied \in Nat
        BY <1>1, <4>3 DEF RunOK, TabRecord, RunRecord
      <4>. QED BY <3>1, <4>2, <4>4
    <3>. QED BY <3>1, <3>2 DEF RenewOK
  <2>2. CASE ~whole
    <3>1. u = tab /\ lost'
      BY <1>4, <1>5, <2>2
    <3>. QED BY <1>10, <3>1 DEF RenewInv, RenewOK
  <2>3. CASE whole /\ ~w
    <3>1. u = tab /\ (lost => lost')
      BY <1>4, <1>5, <2>3
    <3>2. CASE run.req = r
      <4>1. run # NoRun /\ run.epoch # tab.epoch
        BY <1>2, <1>3, <2>3, <3>2
      <4>. QED BY <1>7, <3>1, <3>2, <4>1 DEF RenewInv, RenewOK
    <3>3. CASE run.req # r
      BY <1>7, <1>10, <3>1, <3>3 DEF RenewInv, RenewOK
    <3>. QED BY <3>2, <3>3
  <2>. QED BY <2>1, <2>2, <2>3
<1>. QED BY <1>8, <1>9 DEF RenewInv, RenewOK, SameTimers, SameSession

LEMMA RunTimers ==
  ASSUME BrowserInv, RenewInv, RunTimesOut \/ ConflictRetry
  PROVE  RenewInv'
<1>1. tab \in TabRecord /\ run \in RunRecord /\ RunOK(asked, run, tab)
      /\ asked \in Seq(AskedRecord)
  BY DEF BrowserInv, SessionOK
<1>2. CASE RunTimesOut
  <2>1. run # NoRun /\ lost' = lost
    BY <1>2 DEF RunTimesOut, NoRun
  <2>2. PICK u : u = IF run.epoch = tab.epoch THEN ScheduleRetry(tab) ELSE tab
    OBVIOUS
  <2>3. SettleRun(u, "rejected")
    BY <1>2, <2>2 DEF RunTimesOut
  <2>4. u \in TabRecord /\ RenewOK(FALSE, NoRun, u, lost)
    <3>1. CASE run.epoch = tab.epoch
      <4>1. u = [tab EXCEPT !.retryAt = TRUE]
        BY <2>2, <3>1 DEF ScheduleRetry
      <4>2. u \in TabRecord /\ u.retryAt
        BY <1>1, <4>1 DEF TabRecord
      <4>. QED BY <4>2 DEF RenewOK
    <3>2. CASE run.epoch # tab.epoch
      BY <1>1, <2>1, <2>2, <3>2 DEF RenewInv, RenewOK
    <3>. QED BY <3>1, <3>2
  <2>5. run' = NoRun /\ SameTimers(tab', u)
    BY <2>3, <2>4, SettleTimers
  <2>. QED BY <2>1, <2>4, <2>5 DEF RenewInv, RenewOK, SameTimers, SameSession
<1>3. CASE ConflictRetry
  <2>1. /\ run' = [run EXCEPT !.at = "second", !.req = Len(asked) + 1] /\ tab' = tab
        /\ lost' = lost /\ run.at = "sleep"
    BY <1>3 DEF ConflictRetry
  <2>2. run'.at = "second" /\ run'.epoch = run.epoch /\ run'.applied = run.applied
    BY <1>1, <2>1 DEF RunRecord
  <2>3. run' # NoRun /\ run # NoRun
    <3>1. NoRun.at = "none"
      BY DEF NoRun
    <3>2. run.at = "sleep"
      BY <2>1
    <3>. QED BY <2>2, <3>1, <3>2
  <2>4. ~BodyAwaited
    BY <1>1, <2>1 DEF BodyAwaited, RunOK
  <2>5. RenewOK(BodyAwaited', run', tab', lost)
    BY <2>1, <2>2, <2>3, <2>4, RenewStays
  <2>6. lost' = lost
    BY <2>1
  <2>. QED BY <2>5, <2>6 DEF RenewInv
<1>. QED BY <1>2, <1>3

LEMMA UserTimers ==
  ASSUME BrowserInv, RenewInv,
         \/ Logout \/ Reload \/ Told
         \/ \E u \in Account : Login(u)
         \/ \E w \in Who : OtherTab(w)
         \/ \E r \in DOMAIN asked : LogoutFails(r)
  PROVE  RenewInv'
<1>1. tab \in TabRecord
  BY DEF BrowserInv, SessionOK
<1>2. ASSUME UNCHANGED <<tab, run, lost>>, NEW q, asked' = asked \/ asked' = Append(asked, q)
      PROVE  RenewInv'
  <2>1. BodyAwaited => BodyAwaited'
    <3>1. 0 \in Nat
      OBVIOUS
    <3>. QED BY <1>2, <3>1, BodyStays
  <2>. QED BY <1>2, <2>1, RenewStays DEF RenewInv
<1>3. CASE tab' = Cleared(tab, FALSE)
  BY <1>1, <1>3, ClearedTimers DEF RenewInv
<1>4. CASE Reload
  <2>1. tab' = NewPage
    BY <1>4 DEF Reload
  <2>. QED BY <2>1 DEF RenewInv, RenewOK, NewPage
<1>5. CASE Logout
  BY <1>2, <1>5 DEF Logout
<1>6. ASSUME NEW u \in Account, Login(u) PROVE RenewInv'
  BY <1>2, <1>6 DEF Login
<1>7. ASSUME NEW w \in Who, OtherTab(w) PROVE RenewInv'
  BY <1>2, <1>7 DEF OtherTab
<1>. QED BY <1>3, <1>4, <1>5, <1>6, <1>7 DEF Told, LogoutFails

LEMMA CallTimers ==
  ASSUME BrowserInv, RenewInv,
         \/ Resume \/ ReloadUser \/ \E kind \in {"api", "me"} : CallApi(kind)
         \/ \E revoked \in BOOLEAN : CallAnswered(revoked) \/ ReplayAnswered(revoked)
  PROVE  RenewInv'
<1>1. tab \in TabRecord /\ run \in RunRecord /\ RunOK(asked, run, tab)
  BY DEF BrowserInv, SessionOK
<1>2. lost' = lost
  BY DEF CallApi, Resume, CallAnswered, ReplayAnswered, ReloadUser
<1>3. CASE SameTimers(tab', tab) /\ run' = run /\ asked' = asked
  <2>1. BodyAwaited' = BodyAwaited
    BY <1>3 DEF BodyAwaited
  <2>. QED BY <1>2, <1>3, <2>1, RenewStays DEF RenewInv, SameTimers, SameSession
<1>4. CASE SameTimers(tab', tab) /\ StartRun(tab)
  BY <1>2, <1>4, StartTimers DEF RenewInv, SameTimers
<1>5. CASE tab' = Cleared(tab, TRUE)
  BY <1>1, <1>5, ClearedTimers DEF RenewInv
<1>6. /\ SameTimers(tab, tab)
      /\ \A h \in {"running", "yes"} : SameTimers([tab EXCEPT !.hydrated = h], tab)
  BY <1>1 DEF SameTimers, SameSession, TabRecord
<1>7. ASSUME NEW kind \in {"api", "me"}, CallApi(kind) PROVE RenewInv'
  <2>1. SameTimers(tab', tab)
    BY <1>6, <1>7 DEF CallApi
  <2>2. StartRun(tab) \/ (run' = run /\ asked' = asked)
    BY <1>7 DEF CallApi
  <2>. QED BY <1>3, <1>4, <2>1, <2>2
<1>8. CASE Resume
  <2>1. tab' = tab
    BY <1>8 DEF Resume
  <2>2. StartRun(tab) \/ (run' = run /\ asked' = asked)
    BY <1>8 DEF Resume
  <2>. QED BY <1>3, <1>4, <1>6, <2>1, <2>2
<1>9. ASSUME NEW revoked \in BOOLEAN, CallAnswered(revoked) PROVE RenewInv'
  <2>1. tab' = tab
    BY <1>9 DEF CallAnswered
  <2>2. StartRun(tab) \/ (run' = run /\ asked' = asked)
    BY <1>9 DEF CallAnswered
  <2>. QED BY <1>3, <1>4, <1>6, <2>1, <2>2
<1>10. ASSUME NEW revoked \in BOOLEAN, ReplayAnswered(revoked) PROVE RenewInv'
  <2>1. tab' = Cleared(tab, TRUE) \/ (tab' = tab /\ asked' = asked)
    BY <1>10 DEF ReplayAnswered
  <2>2. run' = run
    BY <1>10 DEF ReplayAnswered
  <2>. QED BY <1>3, <1>5, <1>6, <2>1, <2>2
<1>11. CASE ReloadUser
  <2>1. PICK a \in Nat : a = tab.applied
    BY <1>1 DEF TabRecord
  <2>2. run' = run /\ asked' = Outdate(asked, 0)
    BY <1>11 DEF ReloadUser
  <2>3. /\ tab'.token = tab.token /\ tab'.epoch = tab.epoch /\ tab'.age = tab.age
        /\ tab'.renewAt = tab.renewAt /\ tab'.retryAt = tab.retryAt /\ tab'.limited = tab.limited
        /\ tab'.applied = a + 1
    <3>1. PICK who, b : tab' = [tab EXCEPT !.user = who, !.applied = a + 1, !.mixed = b]
      BY <1>11, <2>1 DEF ReloadUser
    <3>. QED BY <1>1, <3>1 DEF TabRecord
  <2>4. run # NoRun => run.applied # a + 1
    <3>1. CASE run.at = "none"
      BY <1>1, <3>1 DEF RunOK
    <3>2. CASE run.at # "none"
      BY <1>1, <2>1, <3>2 DEF RunOK, RunRecord
    <3>. QED BY <3>1, <3>2
  <2>5. BodyAwaited => BodyAwaited'
    <3>1. BodyAwaited => 0 # run.req
      BY <1>1 DEF BodyAwaited, RunOK
    <3>2. 0 \in Nat
      OBVIOUS
    <3>. QED BY <2>2, <3>1, <3>2, BodyStays
  <2>. QED BY <1>2, <2>2, <2>3, <2>4, <2>5 DEF RenewInv, RenewOK
<1>. QED BY <1>7, <1>8, <1>9, <1>10, <1>11

LEMMA RenewNextInv == BrowserInv /\ RenewInv /\ [BrowserNext]_browserVars => RenewInv'
<1>. SUFFICES ASSUME BrowserInv, RenewInv, [BrowserNext]_browserVars PROVE RenewInv'
  OBVIOUS
<1>1. CASE UNCHANGED browserVars
  BY <1>1 DEF browserVars, RenewInv, BodyAwaited, RenewOK
<1>2. CASE \/ Resume \/ ReloadUser \/ \E kind \in {"api", "me"} : CallApi(kind)
           \/ \E revoked \in BOOLEAN : CallAnswered(revoked) \/ ReplayAnswered(revoked)
  BY <1>2, CallTimers
<1>3. CASE Hydrate \/ RenewTimer \/ RetryTimer \/ TabReturns \/ WindowEnds \/ TokenAges
  BY <1>3, RenewalTimers
<1>4. ASSUME NEW r \in DOMAIN asked, NEW answer \in Answers, HeadersArrive(r, answer)
      PROVE  RenewInv'
  BY <1>4, HeadersTimers
<1>5. ASSUME NEW r \in DOMAIN asked, NEW whole \in BOOLEAN, BodyArrives(r, whole)
      PROVE  RenewInv'
  BY <1>5, BodyTimers
<1>6. CASE RunTimesOut \/ ConflictRetry
  BY <1>6, RunTimers
<1>7. CASE \/ Logout \/ Reload \/ Told
           \/ \E u \in Account : Login(u)
           \/ \E w \in Account \cup {Nobody} : OtherTab(w)
           \/ \E r \in DOMAIN asked : LogoutFails(r)
  BY <1>7, UserTimers DEF Who
<1>. QED BY <1>1, <1>2, <1>3, <1>4, <1>5, <1>6, <1>7 DEF BrowserNext

\* A signed-in tab always has a renewal timer, a retry timer or a refresh of its
\* session under way, except after a renewal was lost to the body of an answer that
\* was cut or that an earlier session's refresh still waited for: whichever timers
\* fire, runs give up and sessions replace one another (store.ts: applySession,
\* scheduleRetry, runRefresh, refreshSession).
THEOREM RenewalsGoOn == BrowserSpec => []RenewalGoesOn
<1>1. BrowserInit => RenewInv
  BY DEF BrowserInit, NewPage, RenewInv, RenewOK
<1>2. RenewInv => RenewalGoesOn
  BY DEF RenewInv, RenewOK, RenewalGoesOn
<1>3. BrowserSpec => []RenewInv
  BY <1>1, BrowserHolds, RenewNextInv, PTL DEF BrowserSpec
<1>. QED BY <1>2, <1>3, PTL

-----------------------------------------------------------------------------
(* The migration of identities, for any fixtures, labels, instants, length *)
(* of a day and days with summer time.                                     *)

IsRow(r) ==
  /\ r = [label |-> r.label, kick |-> r.kick, known |-> r.known, source |-> r.source]
  /\ r.kick \in Nat /\ r.known \in BOOLEAN /\ r.source \in {"football-data", "live"}

RowsTyped ==
  /\ schema \in {"old", "new"}
  /\ game = [g \in Game |-> game[g]] /\ tested = [g \in Game |-> tested[g]]
  /\ \A g \in Game : game[g] = NoGame \/ IsRow(game[g])

\* The backtester has rows of stored fixtures, as these are.
TestedOK ==
  \A g \in Game : tested[g] = NoGame \/
    /\ g \in Stored /\ IsRow(tested[g])
    /\ tested[g].kick = game[g].kick /\ tested[g].label = game[g].label

QuotesOK ==
  /\ IsFiniteSet(priced) /\ priced \subseteq [game : Stored, ts : Nat]
  /\ stayed \subseteq Stored
  /\ \A g \in stayed : [game |-> g, ts |-> game[g].kick] \in priced

\* What a kickoff was, or would be, under the old convention.
OldKick(g) ==
  IF schema = "new" /\ g \in FromFile THEN Original(game[g].kick, game[g].known)
  ELSE game[g].kick

BeforeOK ==
  before # Unkept =>
    /\ before.odds = Cardinality(priced)
    /\ before.kicks = {<<g, OldKick(g)>> : g \in Stored}

MigrationHolds == RowsTyped /\ TestedOK /\ QuotesOK /\ NoneAlike(game) /\ BeforeOK
\* A kickoff that was corrected is found again: what had no time of day lies at
\* the middle of its day, what had one stays in its day.
LEMMA OriginalOfCorrected ==
  ASSUME NEW t \in Nat
  PROVE  /\ Corrected(t).kick \in Nat /\ Corrected(t).known \in BOOLEAN
         /\ Original(Corrected(t).kick, Corrected(t).known) = t
  <1>1. PICK size \in Nat : size = DaySlots /\ size > 2
    BY MigrationAssumption
  <1>2. PICK half \in Nat : half = DaySlots \div 2 /\ size = 2 * half
    BY <1>1, MigrationAssumption
  <1>3. PICK day \in Nat : day = t \div DaySlots
    BY <1>1
  <1>4. PICK slot \in 0..(size - 1) : slot = t % DaySlots /\ t = size * day + slot
    BY <1>1, <1>3
  <1>5. CASE slot = 0
    <2>1. Corrected(t) = [kick |-> t + half, known |-> FALSE]
      BY <1>2, <1>4, <1>5 DEF Corrected
    <2>2. (size * day + half) % size = half
      BY <1>1, <1>2
    <2>3. t = size * day
      BY <1>1, <1>4, <1>5
    <2>4. PICK noon \in Nat : noon = t + half
      OBVIOUS
    <2>5. noon % DaySlots = half
      BY <1>1, <2>2, <2>3, <2>4
    <2>6. Corrected(t).kick = noon /\ Corrected(t).known = FALSE /\ noon - half = t
      BY <2>1, <2>4
    <2> QED
      BY <2>5, <2>6 DEF Original
  <1>6. CASE slot # 0
    <2>1. Corrected(t) = [kick |-> IF day \in Summer THEN t - 1 ELSE t, known |-> TRUE]
      BY <1>3, <1>4, <1>6 DEF Corrected, DayAt
    <2>2. CASE day \in Summer
      <3>1. (t - 1) \div size = day
        BY <1>1, <1>4, <1>6
      <3>2. t - 1 \in Nat
        <4>1. size * day \in Nat
          BY <1>1
        <4> QED
          BY <4>1, <1>4, <1>6
      <3>3. PICK wall \in Nat : wall = t - 1
        BY <3>2
      <3>4. DayAt(wall) \in Summer
        BY <1>1, <2>2, <3>1, <3>3 DEF DayAt
      <3>5. Corrected(t).kick = wall /\ Corrected(t).known = TRUE /\ wall + 1 = t
        BY <2>1, <2>2, <3>3
      <3> QED
        BY <3>4, <3>5 DEF Original
    <2>3. CASE day \notin Summer
      BY <1>3, <2>1, <2>3 DEF Original, DayAt
    <2> QED
      BY <2>2, <2>3
  <1> QED
    BY <1>5, <1>6

\* Times stay natural numbers on the way back.
LEMMA OriginalIsTime ==
  ASSUME NEW t \in Nat, NEW known \in BOOLEAN PROVE Original(t, known) \in Nat
  <1>1. PICK size \in Nat : size = DaySlots /\ size > 2
    BY MigrationAssumption
  <1>2. PICK day \in Nat : day = t \div DaySlots
    BY <1>1
  <1>3. PICK slot \in 0..(size - 1) : slot = t % DaySlots /\ t = size * day + slot
    BY <1>1, <1>2
  <1>4. size * day \in Nat /\ t - slot = size * day
    BY <1>1, <1>3
  <1> QED
    BY <1>3, <1>4 DEF Original

\* A quote, and where it goes when the kickoffs become those of after.
Moved(o, after) == IF o.ts = game[o.game].kick THEN after[o.game].kick ELSE o.ts

\* Rows that a migration writes: those of the stored fixtures, from the same
\* source, with a kickoff of another convention if they are from the file.
Rewritten(after) ==
  /\ after = [g \in Game |-> after[g]]
  /\ \A g \in Stored : IsRow(after[g]) /\ after[g].source = game[g].source
  /\ \A g \in Game \ Stored : after[g] = NoGame
  /\ \A g \in Game \ FromFile : after[g].kick = game[g].kick

\* When no quotes collide, moving them merges none: two quotes of one fixture
\* that end up together would be one at the kickoff and one at the new one.
LEMMA QuotesMove ==
  ASSUME RowsTyped, QuotesOK, NEW after, Rewritten(after), ~OddsCollide(after)
  PROVE  /\ IsFiniteSet(MovedOdds(after)) /\ Cardinality(MovedOdds(after)) = Cardinality(priced)
         /\ MovedOdds(after) \subseteq [game : Stored, ts : Nat]
         /\ \A g \in stayed : [game |-> g, ts |-> after[g].kick] \in MovedOdds(after)
  <1>1. PICK move : move = [o \in priced |-> [game |-> o.game, ts |-> Moved(o, after)]]
    OBVIOUS
  <1>2. \A o \in priced : o \in [game : Stored, ts : Nat] /\ o.game \in Stored /\ o.ts \in Nat
                          /\ o = [game |-> o.game, ts |-> o.ts]
    BY DEF QuotesOK
  <1>3. MovedOdds(after) = {move[o] : o \in priced}
    <2>1. \A o \in priced :
            [o EXCEPT !.ts = IF o.ts = game[o.game].kick THEN after[o.game].kick ELSE @] = move[o]
      <3> SUFFICES ASSUME NEW o \in priced
                   PROVE  [o EXCEPT !.ts = IF o.ts = game[o.game].kick
                                           THEN after[o.game].kick ELSE @] = move[o]
        OBVIOUS
      <3>1. move[o] = [game |-> o.game, ts |-> Moved(o, after)]
        BY <1>1
      <3>2. o = [game |-> o.game, ts |-> o.ts]
        BY <1>2
      <3> QED
        BY <3>1, <3>2 DEF Moved
    <2>2. \A x : x \in MovedOdds(after) <=> \E o \in priced :
            x = [o EXCEPT !.ts = IF o.ts = game[o.game].kick THEN after[o.game].kick ELSE @]
      BY DEF MovedOdds
    <2>3. ASSUME NEW x \in MovedOdds(after) PROVE x \in {move[o] : o \in priced}
      <3>1. PICK o \in priced :
              x = [o EXCEPT !.ts = IF o.ts = game[o.game].kick THEN after[o.game].kick ELSE @]
        BY <2>2
      <3> QED
        BY <2>1, <3>1
    <2>4. ASSUME NEW o \in priced PROVE move[o] \in MovedOdds(after)
      BY <2>1, <2>2
    <2> QED
      BY <2>3, <2>4
  <1>4. \A o \in priced : Moved(o, after) \in Nat
    BY <1>2 DEF Moved, Rewritten, IsRow
  <1>5. ASSUME NEW o \in priced, NEW p \in priced, move[o] = move[p]
        PROVE  o = p
    <2>1. o.game = p.game /\ Moved(o, after) = Moved(p, after)
      BY <1>1, <1>5
    <2>2. \A q \in priced : q.ts = game[q.game].kick /\ after[q.game].kick # q.ts =>
            [game |-> q.game, ts |-> after[q.game].kick] \notin priced
      <3> SUFFICES ASSUME NEW q \in priced, q.ts = game[q.game].kick, after[q.game].kick # q.ts,
                          [game |-> q.game, ts |-> after[q.game].kick] \in priced
                   PROVE  FALSE
        OBVIOUS
      <3>1. [q EXCEPT !.ts = after[q.game].kick] = [game |-> q.game, ts |-> after[q.game].kick]
        BY <1>2
      <3> QED
        BY <3>1 DEF OddsCollide
    <2>3. CASE o.ts = p.ts
      BY <1>2, <2>1, <2>3
    <2>4. CASE o.ts # p.ts /\ o.ts = game[o.game].kick
      <3>1. p.ts = after[o.game].kick
        BY <2>1, <2>4 DEF Moved
      <3>2. p = [game |-> o.game, ts |-> after[o.game].kick]
        BY <1>2, <2>1, <3>1
      <3> QED
        BY <2>2, <2>4, <3>1, <3>2
    <2>5. CASE o.ts # p.ts /\ o.ts # game[o.game].kick
      <3>1. p.ts = game[p.game].kick /\ o.ts = after[p.game].kick
        BY <2>1, <2>5 DEF Moved
      <3>2. o = [game |-> p.game, ts |-> after[p.game].kick]
        BY <1>2, <2>1, <3>1
      <3> QED
        BY <2>2, <2>5, <3>1, <3>2
    <2> QED
      BY <2>3, <2>4, <2>5
  <1>6. move \in Bijection(priced, MovedOdds(after))
    BY <1>1, <1>3, <1>5 DEF Bijection, Injection, Surjection, IsInjective
  <1>7. IsFiniteSet(MovedOdds(after)) /\ Cardinality(MovedOdds(after)) = Cardinality(priced)
    BY <1>6, FS_Bijection DEF QuotesOK, ExistsBijection
  <1>8. MovedOdds(after) \subseteq [game : Stored, ts : Nat]
    BY <1>1, <1>2, <1>3, <1>4
  <1>9. ASSUME NEW g \in stayed PROVE [game |-> g, ts |-> after[g].kick] \in MovedOdds(after)
    <2>1. PICK o \in priced : o = [game |-> g, ts |-> game[g].kick]
      BY DEF QuotesOK
    <2>2. move[o] = [game |-> g, ts |-> after[g].kick]
      BY <1>1, <2>1 DEF Moved
    <2> QED
      BY <1>3, <2>2
  <1> QED
    BY <1>7, <1>8, <1>9

\* The backtester's rows follow, and the table's key holds.
LEMMA RowsFollow ==
  ASSUME RowsTyped, TestedOK, NEW after, Rewritten(after), NoneAlike(after),
         \A g \in Stored :
           after[g].label = IF schema = "old" THEN Relabelled(game[g].label) ELSE game[g].label,
         game' = after, tested' = Followed(after)
  PROVE  /\ Stored' = Stored /\ FromFile' = FromFile
         /\ tested' = [g \in Game |-> tested'[g]] /\ TestedOK' /\ NoneAlike(game)'
         /\ \A g \in Game : game'[g] = NoGame \/ IsRow(game'[g])
  <1>1. \A g \in Game : g \in Stored => game'[g] # NoGame /\ IsRow(game'[g])
    <2> SUFFICES ASSUME NEW g \in Game, g \in Stored PROVE game'[g] # NoGame /\ IsRow(game'[g])
      OBVIOUS
    <2>1. IsRow(after[g])
      BY DEF Rewritten
    <2>2. after[g].source # NoGame.source
      BY <2>1 DEF IsRow, NoGame
    <2> QED
      BY <2>1, <2>2
  <1>2. Stored' = Stored /\ \A g \in Game \ Stored : game'[g] = NoGame
    BY <1>1 DEF Stored, Rewritten
  <1>3. FromFile' = FromFile
    BY <1>2 DEF FromFile, Rewritten
  <1>4. ASSUME NEW g \in Game, tested[g] # NoGame
        PROVE  /\ g \in Stored /\ IsRow(tested'[g])
               /\ tested'[g].kick = game'[g].kick /\ tested'[g].label = game'[g].label
    <2>1. /\ g \in Stored /\ IsRow(tested[g])
          /\ tested[g].kick = game[g].kick /\ tested[g].label = game[g].label
      BY <1>4 DEF TestedOK
    <2>2. PICK kick : kick = IF g \in FromFile THEN after[g].kick ELSE tested[g].kick
      OBVIOUS
    <2>3. PICK label :
            label = IF schema = "old" THEN Relabelled(tested[g].label) ELSE tested[g].label
      OBVIOUS
    <2>4. tested'[g] = [tested[g] EXCEPT !.kick = kick, !.label = label]
      BY <1>4, <2>2, <2>3 DEF Followed
    <2>5. tested'[g] = [label |-> label, kick |-> kick, known |-> tested[g].known,
                        source |-> tested[g].source]
      BY <2>1, <2>4 DEF IsRow
    <2>6. kick = after[g].kick /\ label = after[g].label /\ kick \in Nat
      BY <2>1, <2>2, <2>3 DEF Rewritten, IsRow
    <2>7. IsRow(tested'[g])
      BY <2>1, <2>5, <2>6 DEF IsRow
    <2> QED
      BY <2>1, <2>5, <2>6, <2>7
  <1>5. tested' = [g \in Game |-> tested'[g]]
    BY DEF Followed
  <1>6. TestedOK'
    <2> SUFFICES ASSUME NEW g \in Game, tested'[g] # NoGame
                 PROVE  /\ g \in Stored' /\ IsRow(tested'[g])
                        /\ tested'[g].kick = game'[g].kick /\ tested'[g].label = game'[g].label
      BY DEF TestedOK
    <2>1. tested[g] # NoGame
      BY DEF Followed
    <2> QED
      BY <1>2, <1>4, <2>1
  <1>7. NoneAlike(game)'
    BY <1>2 DEF NoneAlike
  <1> QED
    BY <1>1, <1>2, <1>3, <1>5, <1>6, <1>7

\* A row by its columns.
Columns(r, label, kick, known, source) ==
  r = [label |-> label, kick |-> kick, known |-> known, source |-> source]

\* What such a row has, and when it is one of a fixture.
LEMMA ColumnsOf ==
  ASSUME NEW r, NEW label, NEW kick, NEW known, NEW source,
         Columns(r, label, kick, known, source)
  PROVE  /\ r.label = label /\ r.kick = kick /\ r.known = known /\ r.source = source
         /\ kick \in Nat /\ known \in BOOLEAN /\ source \in {"football-data", "live"} => IsRow(r)
  <1>1. r.label = label /\ r.kick = kick /\ r.known = known /\ r.source = source
    BY DEF Columns
  <1>2. r = [label |-> r.label, kick |-> r.kick, known |-> r.known, source |-> r.source]
    BY <1>1 DEF Columns
  <1>3. r.kick = kick /\ r.known = known /\ r.source = source
    BY <1>1
  <1>4. ASSUME kick \in Nat, known \in BOOLEAN, source \in {"football-data", "live"}
        PROVE  r.kick \in Nat /\ r.known \in BOOLEAN /\ r.source \in {"football-data", "live"}
    BY <1>1, <1>4
  <1> QED
    BY <1>1, <1>2, <1>4 DEF IsRow

\* Nothing is stored yet.
LEMMA MigrationBegins == MigrationInit => MigrationHolds
  <1> SUFFICES ASSUME MigrationInit PROVE MigrationHolds
    OBVIOUS
  <1>1. Stored = {}
    BY DEF MigrationInit, Stored
  <1>2. IsFiniteSet(priced)
    BY FS_EmptySet DEF MigrationInit
  <1> QED
    BY <1>1, <1>2
    DEF MigrationInit, MigrationHolds, RowsTyped, TestedOK, QuotesOK, NoneAlike, BeforeOK

\* The upgrade: the rows of the file get corrected kickoffs, from which the old
\* ones can be told.
LEMMA UpgradeKeeps == MigrationHolds /\ Upgrade => MigrationHolds'
  <1> SUFFICES ASSUME MigrationHolds, Upgrade PROVE MigrationHolds'
    OBVIOUS
  <1> USE DEF MigrationHolds
  <1>1. PICK after : after = Kickoffs0015(Seasons)
    OBVIOUS
  <1>2. /\ schema = "old" /\ schema' = "new" /\ stayed' = stayed
        /\ NoneAlike(after) /\ ~OddsCollide(after)
        /\ game' = after /\ tested' = Followed(after) /\ priced' = MovedOdds(after)
        /\ before' = [kicks |-> {<<g, game[g].kick>> : g \in Stored}, odds |-> Cardinality(priced)]
    BY <1>1 DEF Upgrade, NoneCollide
  <1>3. \A g \in Stored :
          /\ g \in FromFile =>
               Columns(after[g], Relabelled(game[g].label), Corrected(game[g].kick).kick,
                       Corrected(game[g].kick).known, game[g].source)
          /\ g \notin FromFile =>
               Columns(after[g], Relabelled(game[g].label), game[g].kick, game[g].known,
                       game[g].source)
    <2> SUFFICES ASSUME NEW g \in Stored
                 PROVE  /\ g \in FromFile =>
                             Columns(after[g], Relabelled(game[g].label),
                                     Corrected(game[g].kick).kick,
                                     Corrected(game[g].kick).known, game[g].source)
                        /\ g \notin FromFile =>
                             Columns(after[g], Relabelled(game[g].label), game[g].kick,
                                     game[g].known, game[g].source)
      OBVIOUS
    <2>1. g \in Game /\ IsRow(game[g])
      BY DEF Stored, RowsTyped
    <2>2. PICK label : label = Relabelled(game[g].label)
      OBVIOUS
    <2>3. Seasons[g] = [game[g] EXCEPT !.label = label]
      BY <2>1, <2>2 DEF Seasons
    <2>4. Seasons[g] = [label |-> label, kick |-> game[g].kick, known |-> game[g].known,
                        source |-> game[g].source]
      BY <2>1, <2>3 DEF IsRow
    <2>5. PICK kick : kick = Corrected(game[g].kick).kick
      OBVIOUS
    <2>6. PICK known : known = Corrected(game[g].kick).known
      OBVIOUS
    <2>7. CASE g \in FromFile
      <3>1. after[g] = [Seasons[g] EXCEPT !.kick = Corrected(Seasons[g].kick).kick, !.known = known]
        BY <1>1, <2>1, <2>6, <2>7 DEF Kickoffs0015
      <3>2. Seasons[g].kick = game[g].kick
        BY <2>4
      <3>3. PICK mid : mid = [Seasons[g] EXCEPT !.kick = kick]
        OBVIOUS
      <3>4. after[g] = [mid EXCEPT !.known = known]
        BY <3>1, <3>2, <3>3, <2>5
      <3>5. mid = [label |-> label, kick |-> kick, known |-> game[g].known,
                   source |-> game[g].source]
        BY <3>3, <2>4
      <3>6. after[g] = [label |-> label, kick |-> kick, known |-> known, source |-> game[g].source]
        BY <3>4, <3>5
      <3> QED
        BY <3>6, <2>2, <2>5, <2>6, <2>7 DEF Columns
    <2>8. CASE g \notin FromFile
      <3>1. after[g] = Seasons[g]
        BY <1>1, <2>1, <2>8 DEF Kickoffs0015
      <3> QED
        BY <3>1, <2>2, <2>4, <2>8 DEF Columns
    <2> QED
      BY <2>7, <2>8
  <1>4. \A g \in Stored : game[g].kick \in Nat /\ game[g].known \in BOOLEAN
                          /\ game[g].source \in {"football-data", "live"}
    BY DEF Stored, RowsTyped, IsRow
  <1>5. \A g \in Stored : Corrected(game[g].kick).kick \in Nat
                          /\ Corrected(game[g].kick).known \in BOOLEAN
    BY <1>4, OriginalOfCorrected
  <1>6. \A g \in Stored :
          /\ IsRow(after[g]) /\ after[g].source = game[g].source
          /\ after[g].label = Relabelled(game[g].label)
          /\ g \notin FromFile => after[g].kick = game[g].kick
          /\ g \in FromFile => /\ after[g].kick = Corrected(game[g].kick).kick
                               /\ after[g].known = Corrected(game[g].kick).known
    <2> SUFFICES ASSUME NEW g \in Stored
                 PROVE  /\ IsRow(after[g]) /\ after[g].source = game[g].source
                        /\ after[g].label = Relabelled(game[g].label)
                        /\ g \notin FromFile => after[g].kick = game[g].kick
                        /\ g \in FromFile => /\ after[g].kick = Corrected(game[g].kick).kick
                                             /\ after[g].known = Corrected(game[g].kick).known
      OBVIOUS
    <2>1. CASE g \in FromFile
      BY <1>3, <1>4, <1>5, <2>1, ColumnsOf
    <2>2. CASE g \notin FromFile
      BY <1>3, <1>4, <2>2, ColumnsOf
    <2> QED
      BY <2>1, <2>2
  <1>7. /\ \A g \in Game \ Stored : after[g] = NoGame
        /\ after = [g \in Game |-> after[g]] /\ FromFile \subseteq Stored /\ Stored \subseteq Game
    BY <1>1 DEF Kickoffs0015, Seasons, FromFile, Stored
  <1>8. Rewritten(after)
    <2>1. ASSUME NEW g \in Game \ Stored PROVE after[g].kick = game[g].kick
      BY <1>7 DEF Stored
    <2> QED
      BY <1>7, <1>6, <2>1 DEF Rewritten
  <1>9. /\ IsFiniteSet(priced') /\ Cardinality(priced') = Cardinality(priced)
        /\ priced' \subseteq [game : Stored, ts : Nat]
        /\ \A g \in stayed : [game |-> g, ts |-> after[g].kick] \in priced'
    BY <1>2, <1>8, QuotesMove
  <1>10. \A g \in Stored :
          after[g].label = IF schema = "old" THEN Relabelled(game[g].label) ELSE game[g].label
    BY <1>2, <1>6
  <1>11. /\ Stored' = Stored /\ FromFile' = FromFile
        /\ tested' = [g \in Game |-> tested'[g]] /\ TestedOK' /\ NoneAlike(game)'
        /\ \A g \in Game : game'[g] = NoGame \/ IsRow(game'[g])
    BY <1>2, <1>8, <1>10, RowsFollow
  <1>12. RowsTyped'
    BY <1>2, <1>7, <1>11 DEF RowsTyped
  <1>13. QuotesOK'
    BY <1>2, <1>9, <1>11 DEF QuotesOK
  <1>14. BeforeOK'
    <2>1. \A g \in Stored : OldKick(g)' = game[g].kick
      <3> SUFFICES ASSUME NEW g \in Stored PROVE OldKick(g)' = game[g].kick
        OBVIOUS
      <3>1. game[g].kick \in Nat
        BY DEF Stored, RowsTyped, IsRow
      <3>2. CASE g \in FromFile
        <4>1. /\ after[g].kick = Corrected(game[g].kick).kick
              /\ after[g].known = Corrected(game[g].kick).known
          BY <1>6, <3>2
        <4>2. OldKick(g)' = Original(after[g].kick, after[g].known)
          BY <1>2, <1>11, <3>2 DEF OldKick
        <4> QED
          BY <3>1, <4>1, <4>2, OriginalOfCorrected
      <3>3. CASE g \notin FromFile
        BY <1>2, <1>6, <1>11, <3>3 DEF OldKick
      <3> QED
        BY <3>2, <3>3
    <2>2. {<<g, OldKick(g)'>> : g \in Stored'} = {<<g, game[g].kick>> : g \in Stored}
      BY <1>11, <2>1
    <2> QED
      BY <1>2, <1>9, <2>2 DEF BeforeOK
  <1> QED
    BY <1>11, <1>12, <1>13, <1>14

\* The downgrade.
LEMMA DowngradeKeeps == MigrationHolds /\ Downgrade => MigrationHolds'
  <1> SUFFICES ASSUME MigrationHolds, Downgrade PROVE MigrationHolds'
    OBVIOUS
  <1> USE DEF MigrationHolds
  <1>1. PICK after : after = WithOriginals
    OBVIOUS
  <1>2. /\ schema = "new" /\ schema' = "old" /\ stayed' = stayed /\ before' = before
        /\ NoneAlike(after) /\ ~OddsCollide(after)
        /\ game' = after /\ tested' = Followed(after) /\ priced' = MovedOdds(after)
    BY <1>1 DEF Downgrade, NoneCollide
  <1>3. \A g \in Game \ FromFile : after[g] = game[g]
    BY <1>1 DEF WithOriginals
  <1>4. \A g \in FromFile :
          Columns(after[g], game[g].label, Original(game[g].kick, game[g].known), game[g].known,
                  game[g].source)
    <2> SUFFICES ASSUME NEW g \in FromFile
                 PROVE  Columns(after[g], game[g].label, Original(game[g].kick, game[g].known),
                                game[g].known, game[g].source)
      OBVIOUS
    <2>1. g \in Game /\ IsRow(game[g])
      BY DEF FromFile, Stored, RowsTyped
    <2>2. PICK kick : kick = Original(game[g].kick, game[g].known)
      OBVIOUS
    <2>3. after[g] = [game[g] EXCEPT !.kick = kick]
      BY <1>1, <2>1, <2>2 DEF WithOriginals
    <2> QED
      BY <2>1, <2>2, <2>3 DEF IsRow, Columns
  <1>5. /\ \A g \in Game \ Stored : after[g] = NoGame
        /\ after = [g \in Game |-> after[g]] /\ FromFile \subseteq Stored /\ Stored \subseteq Game
    BY <1>1 DEF WithOriginals, FromFile, Stored
  <1>6. \A g \in Stored : game[g].kick \in Nat /\ game[g].known \in BOOLEAN
                          /\ game[g].source \in {"football-data", "live"} /\ IsRow(game[g])
    BY DEF Stored, RowsTyped, IsRow
  <1>7. \A g \in Stored : Original(game[g].kick, game[g].known) \in Nat
    BY <1>6, OriginalIsTime
  <1>8. \A g \in Stored :
          /\ IsRow(after[g]) /\ after[g].source = game[g].source /\ after[g].label = game[g].label
          /\ g \in FromFile => after[g].kick = Original(game[g].kick, game[g].known)
    <2> SUFFICES ASSUME NEW g \in Stored
                 PROVE  /\ IsRow(after[g]) /\ after[g].source = game[g].source
                        /\ after[g].label = game[g].label
                        /\ g \in FromFile => after[g].kick = Original(game[g].kick, game[g].known)
      OBVIOUS
    <2>1. CASE g \in FromFile
      BY <1>4, <1>6, <1>7, <2>1, ColumnsOf
    <2>2. CASE g \notin FromFile
      BY <1>3, <1>5, <1>6, <2>2
    <2> QED
      BY <2>1, <2>2
  <1>9. Rewritten(after)
    BY <1>3, <1>5, <1>8 DEF Rewritten
  <1>10. /\ IsFiniteSet(priced') /\ Cardinality(priced') = Cardinality(priced)
        /\ priced' \subseteq [game : Stored, ts : Nat]
        /\ \A g \in stayed : [game |-> g, ts |-> after[g].kick] \in priced'
    BY <1>2, <1>9, QuotesMove
  <1>11. \A g \in Stored :
          after[g].label = IF schema = "old" THEN Relabelled(game[g].label) ELSE game[g].label
    BY <1>2, <1>8
  <1>12. /\ Stored' = Stored /\ FromFile' = FromFile
        /\ tested' = [g \in Game |-> tested'[g]] /\ TestedOK' /\ NoneAlike(game)'
        /\ \A g \in Game : game'[g] = NoGame \/ IsRow(game'[g])
    BY <1>2, <1>9, <1>11, RowsFollow
  <1>13. RowsTyped'
    BY <1>2, <1>5, <1>12 DEF RowsTyped
  <1>14. QuotesOK'
    BY <1>2, <1>10, <1>12 DEF QuotesOK
  <1>15. BeforeOK'
    <2>1. \A g \in Stored : OldKick(g)' = OldKick(g)
      BY <1>2, <1>3, <1>5, <1>12, <1>8 DEF OldKick
    <2>2. {<<g, OldKick(g)'>> : g \in Stored'} = {<<g, OldKick(g)>> : g \in Stored}
      BY <1>12, <2>1
    <2> QED
      BY <1>2, <1>10, <2>2 DEF BeforeOK
  <1> QED
    BY <1>12, <1>13, <1>14, <1>15

\* A match that is stored has a name of its own.
LEMMA StoreMatchKeeps ==
  ASSUME MigrationHolds, NEW g \in Game, NEW label \in Spelling, NEW kick \in Moments,
         NEW source \in {"football-data", "live"}, StoreMatch(g, label, kick, source)
  PROVE  MigrationHolds'
  <1> USE DEF MigrationHolds
  <1>1. PICK entry :
          entry = IF schema = "old" \/ source # "football-data" THEN FileRow(label, kick, source)
                ELSE [FileRow(Relabelled(label), Corrected(kick).kick, source)
                        EXCEPT !.known = Corrected(kick).known]
    OBVIOUS
  <1>2. /\ game[g] = NoGame /\ game' = [game EXCEPT ![g] = entry] /\ before' = Unkept
        /\ \A h \in Stored : <<game[h].label, game[h].kick>> # <<entry.label, entry.kick>>
        /\ schema' = schema /\ tested' = tested /\ priced' = priced /\ stayed' = stayed
    BY <1>1 DEF StoreMatch
  <1>3. IsRow(entry)
    <2>1. kick \in Nat
      BY MigrationAssumption
    <2>2. Corrected(kick).kick \in Nat /\ Corrected(kick).known \in BOOLEAN
      BY <2>1, OriginalOfCorrected
    <2> QED
      BY <1>1, <2>1, <2>2 DEF IsRow, FileRow
  <1>4. entry # NoGame
    <2>1. entry.source # NoGame.source
      BY <1>3 DEF IsRow, NoGame
    <2> QED
      BY <2>1
  <1>5. /\ Stored' = Stored \cup {g} /\ g \notin Stored /\ game'[g] = entry
        /\ \A h \in Game : h # g => game'[h] = game[h]
    BY <1>2, <1>4 DEF Stored, RowsTyped
  <1>6. RowsTyped'
    BY <1>2, <1>3, <1>5 DEF RowsTyped
  <1>7. TestedOK'
    BY <1>2, <1>5 DEF TestedOK, Stored
  <1>8. QuotesOK'
    BY <1>2, <1>5 DEF QuotesOK, Stored
  <1>9. NoneAlike(game)'
    BY <1>2, <1>5 DEF NoneAlike, Stored
  <1>10. BeforeOK'
    BY <1>2 DEF BeforeOK
  <1> QED
    BY <1>6, <1>7, <1>8, <1>9, <1>10

\* Every step of the migration or the data plane keeps all of it.
LEMMA MigrationKeeps == MigrationHolds /\ [MigrationNext]_migrationVars => MigrationHolds'
  <1> SUFFICES ASSUME MigrationHolds, [MigrationNext]_migrationVars PROVE MigrationHolds'
    OBVIOUS
  <1> USE DEF MigrationHolds
  <1>1. CASE Upgrade
    BY <1>1, UpgradeKeeps
  <1>2. CASE Downgrade
    BY <1>2, DowngradeKeeps
  <1>3. ASSUME NEW g \in Game, NEW label \in Spelling, NEW kick \in Moments,
               NEW source \in {"football-data", "live"}, StoreMatch(g, label, kick, source)
        PROVE  MigrationHolds'
    BY <1>3, StoreMatchKeeps
  <1>4. ASSUME NEW g \in Game, NEW ts \in Moments, StoreQuote(g, ts) PROVE MigrationHolds'
    <2>1. /\ g \in Stored /\ priced' = priced \cup {[game |-> g, ts |-> ts]} /\ before' = Unkept
          /\ stayed' = (IF ts = game[g].kick THEN stayed \cup {g} ELSE stayed)
          /\ schema' = schema /\ game' = game /\ tested' = tested
      BY <1>4 DEF StoreQuote
    <2>2. IsFiniteSet(priced') /\ ts \in Nat
      BY <2>1, FS_AddElement, MigrationAssumption DEF QuotesOK
    <2>3. QuotesOK'
      BY <2>1, <2>2 DEF QuotesOK, Stored
    <2>4. RowsTyped' /\ TestedOK' /\ NoneAlike(game)' /\ BeforeOK'
      BY <2>1 DEF RowsTyped, TestedOK, NoneAlike, BeforeOK, Stored
    <2> QED
      BY <2>3, <2>4
  <1>5. ASSUME NEW g \in Game, Populate(g) PROVE MigrationHolds'
    <2>1. /\ g \in Stored /\ tested' = [tested EXCEPT ![g] = game[g]] /\ IsRow(game[g])
          /\ schema' = schema /\ game' = game /\ priced' = priced /\ stayed' = stayed
          /\ before' = before
      BY <1>5 DEF Populate, Stored, RowsTyped
    <2>2. RowsTyped' /\ TestedOK'
      BY <2>1 DEF RowsTyped, TestedOK, Stored
    <2>3. QuotesOK' /\ NoneAlike(game)' /\ BeforeOK'
      BY <2>1 DEF QuotesOK, NoneAlike, BeforeOK, OldKick, FromFile, Stored
    <2> QED
      BY <2>2, <2>3
  <1>6. CASE UNCHANGED migrationVars
    <2>1. /\ schema' = schema /\ game' = game /\ tested' = tested /\ priced' = priced
          /\ stayed' = stayed /\ before' = before
      BY <1>6 DEF migrationVars
    <2>2. RowsTyped'
      BY <2>1 DEF RowsTyped
    <2>3. TestedOK'
      BY <2>1 DEF TestedOK, Stored
    <2>4. QuotesOK'
      BY <2>1 DEF QuotesOK, Stored
    <2>5. NoneAlike(game)'
      BY <2>1 DEF NoneAlike, Stored
    <2>6. BeforeOK'
      BY <2>1 DEF BeforeOK, OldKick, FromFile, Stored
    <2> QED
      BY <2>2, <2>3, <2>4, <2>5, <2>6
  <1> QED
    BY <1>1, <1>2, <1>3, <1>4, <1>5, <1>6 DEF MigrationNext, Stop

\* No migration merges, drops or strands a row, however often it is run up and
\* down and whatever is stored in between, and a downgrade brings back the
\* kickoffs of before the upgrade.
THEOREM MigrationMergesNothing == MigrationSpec => []NothingMerged
  <1>1. MigrationHolds => NothingMerged
    <2> SUFFICES ASSUME MigrationHolds PROVE NothingMerged
      OBVIOUS
    <2>1. NothingIsStranded
      BY DEF MigrationHolds, NothingIsStranded, QuotesOK, TestedOK, Stored
    <2>2. DowngradeRestores
      <3> SUFFICES ASSUME before # Unkept
                   PROVE  /\ Cardinality(priced) = before.odds
                          /\ schema = "old" => before.kicks = {<<g, game[g].kick>> : g \in Stored}
        BY DEF DowngradeRestores
      <3>1. /\ before.odds = Cardinality(priced)
            /\ before.kicks = {<<g, OldKick(g)>> : g \in Stored}
        BY DEF MigrationHolds, BeforeOK
      <3>2. ASSUME schema = "old"
            PROVE  {<<g, OldKick(g)>> : g \in Stored} = {<<g, game[g].kick>> : g \in Stored}
        BY <3>2 DEF OldKick
      <3> QED
        BY <3>1, <3>2
    <2> QED
      BY <2>1, <2>2 DEF NothingMerged
  <1> QED
    BY <1>1, MigrationBegins, MigrationKeeps, PTL DEF MigrationSpec

-----------------------------------------------------------------------------
(* The match list, for any matches, kickoffs and length of a page.          *)

\* Matches are in the calendar.
CalendarOK ==
  \A m \in Listable : calendar[m].kick \in Nat
\* The number of listed matches up to a match.
Rank(m) == Cardinality({n \in Listed : Earlier(n, m)})

\* The list is finite.
LEMMA ListFinite ==
  /\ IsFiniteSet(Listed) /\ Cardinality(Listed) \in Nat /\ Listed \subseteq Listable
  /\ Listed \subseteq Nat
  <1>1. Listed \in SUBSET Listable
    BY DEF Listed
  <1>2. IsFiniteSet(Listed)
    BY <1>1, CardAssumption, FS_Subset
  <1> QED
    BY <1>1, <1>2, CardAssumption, FS_CardinalityType

\* A match that comes earlier has a lower rank.
LEMMA RankApart ==
  ASSUME CalendarOK, NEW m \in Listed, NEW n \in Listed, m # n, Earlier(m, n)
  PROVE  Rank(m) < Rank(n)
  <1> DEFINE S == {k \in Listed : Earlier(k, m)}
             T == {k \in Listed : Earlier(k, n)}
  <1>1. \A k \in Listed : k \in Nat /\ calendar[k].kick \in Nat
    BY ListFinite DEF CalendarOK
  <1>2. S \in SUBSET T
    BY <1>1 DEF Earlier
  <1>3. n \in T /\ n \notin S
    BY <1>1 DEF Earlier
  <1>4. T \in SUBSET Listed
    OBVIOUS
  <1>5. IsFiniteSet(T)
    BY <1>4, ListFinite, FS_Subset
  <1>6. IsFiniteSet(S) /\ Cardinality(S) <= Cardinality(T) /\ Cardinality(S) # Cardinality(T)
    BY <1>2, <1>3, <1>5, FS_Subset
  <1>7. Cardinality(S) \in Nat /\ Cardinality(T) \in Nat
    BY <1>5, <1>6, FS_CardinalityType
  <1> QED
    BY <1>6, <1>7 DEF Rank

\* Each number up to the length of the list is the rank of one match.
LEMMA RanksFill ==
  ASSUME CalendarOK
  PROVE  /\ \A i \in 1..Cardinality(Listed) : Nth(i) \in Listed /\ Rank(Nth(i)) = i
         /\ \A m \in Listed : Rank(m) \in 1..Cardinality(Listed)
         /\ \A m, n \in Listed : Rank(m) = Rank(n) => m = n
  <1> DEFINE L == Cardinality(Listed)
             g == [m \in Listed |-> Rank(m)]
  <1>1. ASSUME NEW m \in Listed PROVE Rank(m) \in 1..L
    <2> DEFINE S == {k \in Listed : Earlier(k, m)}
    <2>1. S \in SUBSET Listed /\ m \in S
      BY ListFinite DEF Earlier, CalendarOK
    <2>2. IsFiniteSet(S) /\ Cardinality(S) <= L
      BY <2>1, ListFinite, FS_Subset
    <2>3. Cardinality(S) \in Nat /\ Cardinality(S) # 0
      BY <2>1, <2>2, FS_CardinalityType, FS_EmptySet
    <2> QED
      BY <2>2, <2>3, ListFinite DEF Rank
  <1>2. ASSUME NEW m \in Listed, NEW n \in Listed, Rank(m) = Rank(n) PROVE m = n
    <2> SUFFICES ASSUME m # n PROVE FALSE
      OBVIOUS
    <2>1. Earlier(m, n) \/ Earlier(n, m)
      BY ListFinite DEF Earlier, CalendarOK
    <2>2. Rank(m) < Rank(n) \/ Rank(n) < Rank(m)
      BY <2>1, RankApart
    <2> QED
      BY <1>1, <1>2, <2>2
  <1>3. g \in Injection(Listed, 1..L)
    BY <1>1, <1>2 DEF Injection, IsInjective
  <1>4. IsFiniteSet(1..L) /\ Cardinality(1..L) = L
    BY ListFinite, FS_Interval
  <1>5. g \in Surjection(Listed, 1..L)
    BY <1>3, <1>4, FS_Injection
  <1>6. ASSUME NEW i \in 1..L PROVE \E m \in Listed : Rank(m) = i
    BY <1>5 DEF Surjection
  <1>7. ASSUME NEW i \in 1..L PROVE Nth(i) \in Listed /\ Rank(Nth(i)) = i
    <2>1. \E m \in Listed : Cardinality({n \in Listed : Earlier(n, m)}) = i
      BY <1>6 DEF Rank
    <2> QED
      BY <2>1 DEF Nth, Rank
  <1> QED
    BY <1>1, <1>2, <1>7

\* What a client has seen of a list that stood still is its beginning.
SeenPart ==
  /\ reading \in [at : {"total", "page", "read"}, total : {reading.total}, seen : {reading.seen}]
  /\ ~moved =>
       /\ reading.seen \in Seq(Listed) /\ Len(reading.seen) <= Cardinality(Listed)
       /\ \A i \in 1..Len(reading.seen) : reading.seen[i] = Nth(i)
       /\ reading.at \in {"page", "read"} => reading.total = Cardinality(Listed)
       /\ reading.at = "read" => Len(reading.seen) = Cardinality(Listed)
CalendarTyped ==
  calendar \in [Listable -> [kick : Nat, status : {"scheduled", "live", "finished"},
                             predicted : BOOLEAN]]
ListHolds == CalendarTyped /\ moved \in BOOLEAN /\ SeenPart

\* So a client that has read to the end has seen the list, in order.
LEMMA SeenIsList ==
  ASSUME ListHolds PROVE PagesCoverList
  <1> SUFFICES ASSUME reading.at = "read", ~moved
               PROVE  /\ Range(reading.seen) = Listed /\ Len(reading.seen) = Cardinality(Listed)
                      /\ reading.total = Len(reading.seen)
                      /\ \A i, j \in DOMAIN reading.seen : i < j =>
                           calendar[reading.seen[i]].kick <= calendar[reading.seen[j]].kick
    BY DEF PagesCoverList
  <1> DEFINE s == reading.seen
             L == Cardinality(Listed)
  <1>1. /\ s \in Seq(Listed) /\ Len(s) = L /\ reading.total = L
        /\ \A i \in 1..L : s[i] = Nth(i)
    BY DEF ListHolds, SeenPart
  <1>2. CalendarOK
    BY DEF ListHolds, CalendarTyped, CalendarOK
  <1>3. DOMAIN s = 1..L
    BY <1>1
  <1>4. Range(s) = Listed
    <2>1. ASSUME NEW m \in Listed PROVE m \in Range(s)
      <3>1. Rank(m) \in 1..L /\ Nth(Rank(m)) = m
        BY <1>2, RanksFill
      <3> QED
        BY <1>1, <1>3, <3>1 DEF Range
    <2>2. ASSUME NEW m \in Range(s) PROVE m \in Listed
      BY <1>1, <1>2, <1>3, RanksFill DEF Range
    <2> QED
      BY <2>1, <2>2
  <1>5. ASSUME NEW i \in 1..L, NEW j \in 1..L, i < j
        PROVE  calendar[s[i]].kick <= calendar[s[j]].kick
    <2>1. /\ s[i] \in Listed /\ s[j] \in Listed /\ Rank(s[i]) = i /\ Rank(s[j]) = j
      BY <1>1, <1>2, RanksFill
    <2>2. calendar[s[i]].kick \in Nat /\ calendar[s[j]].kick \in Nat
      BY <2>1, <1>2, ListFinite DEF CalendarOK
    <2>3. ~ Earlier(s[j], s[i])
      BY <2>1, <1>2, <1>5, RankApart
    <2> QED
      BY <2>2, <2>3 DEF Earlier
  <1> QED
    BY <1>1, <1>3, <1>4, <1>5

\* A client begins with nothing seen.
LEMMA ListBegins == MatchInit => ListHolds
  <1> SUFFICES ASSUME MatchInit PROVE ListHolds
    OBVIOUS
  <1>1. CalendarTyped
    BY CardAssumption DEF MatchInit, CalendarTyped
  <1>2. reading = [at |-> "total", total |-> 0, seen |-> <<>>] /\ moved = FALSE
    BY DEF MatchInit, NoReading
  <1>3. SeenPart
    BY <1>2, ListFinite DEF SeenPart
  <1> QED
    BY <1>1, <1>2, <1>3 DEF ListHolds

\* The list depends on the calendar only.
LEMMA ListStays ==
  ASSUME UNCHANGED calendar
  PROVE  Listed' = Listed /\ \A i : Nth(i)' = Nth(i)
  BY DEF Listed, Nth, Earlier

\* The total is the length of the list.
LEMMA TotalKeeps == ListHolds /\ ReadTotal => ListHolds'
  <1> SUFFICES ASSUME ListHolds, ReadTotal PROVE ListHolds'
    OBVIOUS
  <1>1. /\ reading' = [reading EXCEPT !.at = "page", !.total = Cardinality(Listed)]
        /\ UNCHANGED <<calendar, moved>>
    BY DEF ReadTotal
  <1>2. reading' = [at |-> "page", total |-> Cardinality(Listed), seen |-> reading.seen]
    BY <1>1 DEF ListHolds, SeenPart
  <1>3. SeenPart'
    BY <1>1, <1>2, ListStays DEF ListHolds, SeenPart
  <1> QED
    BY <1>1, <1>3 DEF ListHolds, CalendarTyped

\* A page goes on where what was seen ends, and ends with the list at the latest.
LEMMA PageKeeps == ListHolds /\ ReadPage => ListHolds'
  <1> SUFFICES ASSUME ListHolds, ReadPage PROVE ListHolds'
    OBVIOUS
  <1> DEFINE k == Len(reading.seen)
             L == Cardinality(Listed)
  <1>1. PICK page : page = PageOf(k)
    OBVIOUS
  <1>2. PICK at : at = IF page = <<>> \/ k + Len(page) >= reading.total THEN "read" ELSE "total"
    OBVIOUS
  <1>3. /\ reading' = [reading EXCEPT !.seen = @ \o page, !.at = at]
        /\ reading.at = "page" /\ UNCHANGED <<calendar, moved>>
    BY <1>1, <1>2 DEF ReadPage
  <1>4. reading' = [at |-> at, total |-> reading.total, seen |-> reading.seen \o page]
    BY <1>3 DEF ListHolds, SeenPart
  <1>5. ASSUME ~moved
        PROVE  /\ reading.seen \o page \in Seq(Listed) /\ Len(reading.seen \o page) <= L
               /\ \A i \in 1..Len(reading.seen \o page) : (reading.seen \o page)[i] = Nth(i)
               /\ at = "read" => Len(reading.seen \o page) = L
    <2>1. /\ reading.seen \in Seq(Listed) /\ k <= L /\ k \in Nat /\ L \in Nat
          /\ \A i \in 1..k : reading.seen[i] = Nth(i)
          /\ reading.total = L
      BY <1>3, <1>5, ListFinite DEF ListHolds, SeenPart
    <2>2. PICK c \in Nat : /\ {j \in 1..PageSize : k + j <= L} = 1..c /\ k + c <= L
                           /\ c = 0 => k = L
      <3>1. CASE k + PageSize <= L
        <4>1. {j \in 1..PageSize : k + j <= L} = 1..PageSize
          BY <2>1, <3>1, CardAssumption
        <4> QED
          BY <3>1, <4>1, CardAssumption
      <3>2. CASE k + PageSize > L
        <4>1. {j \in 1..PageSize : k + j <= L} = 1..(L - k)
          BY <2>1, <3>2, CardAssumption
        <4> QED
          BY <2>1, <4>1
      <3>3. k + PageSize <= L \/ k + PageSize > L
        BY <2>1, CardAssumption
      <3> QED
        BY <3>1, <3>2, <3>3
    <2>3. page = [i \in 1..c |-> Nth(k + i)]
      BY <1>1, <2>2 DEF PageOf
    <2>4. \A i \in 1..c : Nth(k + i) \in Listed
      <3>1. \A i \in 1..c : k + i \in 1..L
        BY <2>1, <2>2
      <3>2. CalendarOK
        BY DEF ListHolds, CalendarTyped, CalendarOK
      <3> QED
        BY <3>1, <3>2, RanksFill
    <2>5. page \in Seq(Listed) /\ Len(page) = c
      BY <2>3, <2>4
    <2>6. reading.seen \o page \in Seq(Listed) /\ Len(reading.seen \o page) = k + c
      BY <2>1, <2>5
    <2>7. ASSUME NEW i \in 1..(k + c) PROVE (reading.seen \o page)[i] = Nth(i)
      <3>1. CASE i <= k
        BY <2>1, <2>5, <3>1
      <3>2. CASE i > k
        <4>1. i - k \in 1..c /\ k + (i - k) = i
          BY <2>1, <3>2
        <4>2. (reading.seen \o page)[i] = page[i - k]
          BY <2>1, <2>5, <3>2
        <4> QED
          BY <2>3, <4>1, <4>2
      <3>3. i <= k \/ i > k
        BY <2>1
      <3> QED
        BY <3>1, <3>2, <3>3
    <2>8. at = "read" => k + c = L
      <3>1. page = <<>> => c = 0
        BY <2>5
      <3> QED
        BY <1>2, <2>1, <2>2, <2>5, <3>1
    <2> QED
      BY <2>1, <2>2, <2>6, <2>7, <2>8
  <1>6. at \in {"total", "read"}
    BY <1>2
  <1>7. ~moved => reading.total = L
    BY <1>3 DEF ListHolds, SeenPart
  <1>8. SeenPart'
    BY <1>3, <1>4, <1>5, <1>6, <1>7, ListStays DEF SeenPart
  <1> QED
    BY <1>3, <1>8 DEF ListHolds, CalendarTyped

\* A match that moves is recorded.
LEMMA MovesKeep ==
  ASSUME ListHolds, NEW m \in Listable, MatchMoves(m)
  PROVE  ListHolds'
  <1>1. calendar \in [Listable -> [kick : Nat, status : {"scheduled", "live", "finished"},
                                   predicted : BOOLEAN]]
    BY DEF ListHolds, CalendarTyped
  <1>2. PICK entry : calendar' = [calendar EXCEPT ![m] = entry]
                   /\ entry \in [kick : Nat, status : {"scheduled", "live", "finished"},
                               predicted : BOOLEAN]
    <2>1. CASE \E kick \in {calendar[n].kick : n \in Listable} \ {calendar[m].kick} :
                 calendar' = [calendar EXCEPT ![m].kick = kick]
      <3>1. PICK kick \in Nat : calendar' = [calendar EXCEPT ![m].kick = kick]
        BY <1>1, <2>1
      <3>2. [calendar[m] EXCEPT !.kick = kick] \in
              [kick : Nat, status : {"scheduled", "live", "finished"}, predicted : BOOLEAN]
        BY <1>1
      <3> QED
        BY <3>1, <3>2
    <2>2. CASE calendar' = [calendar EXCEPT ![m].status = IF @ = "live" THEN "finished" ELSE "live"]
      <3>1. PICK status \in {"finished", "live"} :
              calendar' = [calendar EXCEPT ![m].status = status]
        BY <2>2
      <3>2. [calendar[m] EXCEPT !.status = status] \in
              [kick : Nat, status : {"scheduled", "live", "finished"}, predicted : BOOLEAN]
        BY <1>1
      <3> QED
        BY <3>1, <3>2
    <2>3. CASE calendar' = [calendar EXCEPT ![m].predicted = TRUE]
      <3>1. [calendar[m] EXCEPT !.predicted = TRUE] \in
              [kick : Nat, status : {"scheduled", "live", "finished"}, predicted : BOOLEAN]
        BY <1>1
      <3> QED
        BY <2>3, <3>1
    <2> QED
      BY <2>1, <2>2, <2>3 DEF MatchMoves
  <1>3. CalendarTyped'
    BY <1>1, <1>2 DEF CalendarTyped
  <1>4. moved' = TRUE /\ reading' = reading
    BY DEF MatchMoves
  <1>5. SeenPart'
    BY <1>4 DEF ListHolds, SeenPart
  <1> QED
    BY <1>3, <1>4, <1>5 DEF ListHolds

\* Every step of the list keeps it.
LEMMA ListKeeps ==
  ListHolds /\ (ListNext \/ UNCHANGED listVars) => ListHolds'
  <1> SUFFICES ASSUME ListHolds, ListNext \/ UNCHANGED listVars PROVE ListHolds'
    OBVIOUS
  <1>1. CASE ReadAgain
    <2>1. reading' = [at |-> "total", total |-> 0, seen |-> <<>>] /\ moved' = FALSE
          /\ UNCHANGED calendar
      BY <1>1 DEF ReadAgain, NoReading
    <2>2. /\ <<>> \in Seq(Listed') /\ Len(<<>>) = 0 /\ Cardinality(Listed') \in Nat
      BY <2>1, ListStays, ListFinite
    <2>3. SeenPart'
      BY <2>1, <2>2 DEF SeenPart
    <2> QED
      BY <2>1, <2>3 DEF ListHolds, CalendarTyped
  <1>2. CASE UNCHANGED listVars
    <2>1. UNCHANGED <<calendar, reading, moved>>
      BY <1>2 DEF listVars
    <2>2. SeenPart'
      BY <2>1, ListStays DEF ListHolds, SeenPart
    <2> QED
      BY <2>1, <2>2 DEF ListHolds, CalendarTyped
  <1> QED
    BY <1>1, <1>2, TotalKeeps, PageKeeps, MovesKeep DEF ListNext

-----------------------------------------------------------------------------
(* The match card, for any trainings, methods, edits and length of a second. *)

RegisteredRow ==
  [run : Training \cup {NoModelRun}, trained : Nat, visible : BOOLEAN, champion : BOOLEAN]

\* A run that has committed, of a version.
Ran(table, t, version) ==
  t \in Training /\ table[t].at = "done" /\ table[t].began \div Second = version
\* The run to which the card traces a prediction: its own, or one of its second.
Traced(by, p) == by = p.run \/ Collided(p.version)

\* The types of what trainings read and write.
TrainingTyped ==
  /\ tick \in 0..MaxTicks
  /\ training \in [Training -> [at : {"idle", "fits", "writes", "done"}, began : 0..MaxTicks,
                                registered : Nat, trains : SUBSET Shown,
                                predicts : SUBSET Shown]]
  /\ \A t \in Training : training[t].predicts \subseteq training[t].trains
  /\ registered \in [Shown \X Versions -> RegisteredRow]
\* A prediction is of a committed run, and its version is registered under a
\* run of the same version.
PredictedOK ==
  \A p \in predicted :
    /\ p.method \in Shown /\ p.version \in Versions /\ p.created \in 0..MaxTicks
    /\ Ran(training, p.run, p.version)
    /\ Ran(training, registered[<<p.method, p.version>>].run, p.version)
\* What the card has read.
CardOK ==
  /\ card \in [at : {"idle", "runs", "visible", "shown"}, latest : {card.latest},
               runs : {card.runs}, visible : {card.visible}]
  /\ card.at # "idle" =>
       \A m \in Shown : card.latest[m] = NoPrediction
                        \/ (card.latest[m] \in predicted /\ card.latest[m].method = m)
  /\ card.at \in {"visible", "shown"} =>
       \A m \in Shown : card.latest[m] # NoPrediction => Traced(card.runs[m], card.latest[m])
CardHolds == TrainingTyped /\ PredictedOK /\ CardOK

\* The second of a tick is a version.
LEMMA VersionTyped ==
  ASSUME TrainingTyped, NEW t \in Training
  PROVE  VersionOf(t) \in Versions
  <1>1. training[t].began \in 0..MaxTicks
    BY DEF TrainingTyped
  <1>2. \A n \in 0..MaxTicks : n \div Second \in 0..(MaxTicks \div Second)
    <2> SUFFICES ASSUME NEW n \in 0..MaxTicks PROVE n \div Second \in 0..(MaxTicks \div Second)
      OBVIOUS
    <2>1. PICK q : q = n \div Second
      OBVIOUS
    <2>2. PICK u : u = MaxTicks \div Second
      OBVIOUS
    <2>3. PICK r : r = n % Second
      OBVIOUS
    <2>4. PICK v : v = MaxTicks % Second
      OBVIOUS
    <2>5. /\ q \in Int /\ u \in Int /\ r \in 0..(Second - 1) /\ v \in 0..(Second - 1)
          /\ n = Second * q + r /\ MaxTicks = Second * u + v
      BY <2>1, <2>2, <2>3, <2>4, CardAssumption
    <2>6. q >= 0
      <3>1. CASE q <= -1
        <4>1. Second * q <= -Second
          BY <2>5, <3>1, CardAssumption
        <4> QED
          BY <2>5, <4>1, CardAssumption
      <3> QED
        BY <2>5, <3>1
    <2>7. q <= u
      <3>1. CASE u + 1 <= q
        <4>1. Second * (u + 1) <= Second * q
          BY <2>5, <3>1, CardAssumption
        <4>2. Second * (u + 1) = Second * u + Second
          BY <2>5, CardAssumption
        <4> QED
          BY <2>5, <4>1, <4>2, CardAssumption
      <3> QED
        BY <2>5, <3>1
    <2> QED
      BY <2>1, <2>2, <2>5, <2>6, <2>7
  <1> QED
    BY <1>1, <1>2 DEF VersionOf, Versions

\* The newest prediction of a method is one of them.
LEMMA NewestIsOne ==
  ASSUME PredictedOK, NEW m
  PROVE  NewestOf(m) = NoPrediction \/ (NewestOf(m) \in predicted /\ NewestOf(m).method = m)
  <1> DEFINE of == {p \in predicted : p.method = m}
             T == {p.created : p \in of}
  <1>1. CASE of = {}
    BY <1>1 DEF NewestOf
  <1>2. CASE of # {}
    <2>0. \A p \in of : p.created \in 0..MaxTicks
      BY DEF PredictedOK
    <2>1. T \subseteq Nat /\ T # {} /\ \A x \in T : x <= MaxTicks
      BY <1>2, <2>0, CardAssumption
    <2>2. PICK x \in T : \A y \in T : y <= x
      BY <2>1, CardAssumption, GreatestNumber
    <2>3. PICK p \in of : x = p.created
      OBVIOUS
    <2>4. \A q \in of : q.created <= p.created
      BY <2>2, <2>3
    <2>5. NewestOf(m) \in of
      BY <1>2, <2>4 DEF NewestOf
    <2> QED
      BY <2>5
  <1> QED
    BY <1>1, <1>2

\* A committed run stays one, and so does a collision.
LEMMA RanStays ==
  ASSUME \A t \in Training : training[t].at = "done" => training'[t] = training[t]
  PROVE  /\ \A t, v : Ran(training, t, v) => Ran(training', t, v)
         /\ \A v : Collided(v) => Collided(v)'
         /\ \A by, p : Traced(by, p) => Traced(by, p)'
  BY DEF Ran, Collided, Traced, VersionOf

\* What the card has read stays true if predictions and collisions do.
LEMMA CardStays ==
  ASSUME CardOK, UNCHANGED card, predicted \subseteq predicted',
         \A t \in Training : training[t].at = "done" => training'[t] = training[t]
  PROVE  CardOK'
  BY RanStays DEF CardOK

\* Nothing is trained, predicted or read at first.
LEMMA CardBegins == MatchInit => CardHolds
  <1> SUFFICES ASSUME MatchInit PROVE CardHolds
    OBVIOUS
  <1>1. TrainingTyped
    BY CardAssumption DEF MatchInit, TrainingTyped, NoTraining, NoRegistered, RegisteredRow
  <1>2. PredictedOK
    BY DEF MatchInit, PredictedOK
  <1>3. CardOK
    BY DEF MatchInit, CardOK, NoCard
  <1> QED
    BY <1>1, <1>2, <1>3 DEF CardHolds

\* A training begins.
LEMMA BeginTrainingKeeps ==
  ASSUME CardHolds, NEW t \in Training, BeginTraining(t)
  PROVE  CardHolds'
  <1>1. PICK trains \in Coverings, predicts \in Coverings :
          /\ predicts \subseteq trains
          /\ training' = [training EXCEPT ![t] =
               [at |-> "fits", began |-> tick, registered |-> 0, trains |-> trains,
                predicts |-> predicts]]
    BY DEF BeginTraining
  <1>2. training[t].at = "idle" /\ UNCHANGED <<tick, predicted, registered, edits, card>>
    BY DEF BeginTraining
  <1>3. trains \in SUBSET Shown /\ predicts \in SUBSET Shown
    BY CardAssumption DEF Shown
  <1>4. TrainingTyped'
    BY <1>1, <1>2, <1>3 DEF CardHolds, TrainingTyped
  <1>5. \A u \in Training : training[u].at = "done" => training'[u] = training[u]
    BY <1>1, <1>2 DEF CardHolds, TrainingTyped
  <1>6. PredictedOK'
    BY <1>2, <1>5, RanStays DEF CardHolds, PredictedOK
  <1> QED
    BY <1>2, <1>4, <1>5, <1>6, CardStays DEF CardHolds

\* It begins to write.
LEMMA WriteRunsKeeps ==
  ASSUME CardHolds, NEW t \in Training, WriteRuns(t)
  PROVE  CardHolds'
  <1>1. /\ training' = [training EXCEPT ![t].at = "writes", ![t].registered = tick]
        /\ training[t].at = "fits" /\ UNCHANGED <<tick, predicted, registered, edits, card>>
    BY DEF WriteRuns
  <1>2. training[t] \in [at : {"idle", "fits", "writes", "done"}, began : 0..MaxTicks,
                         registered : Nat, trains : SUBSET Shown, predicts : SUBSET Shown]
        /\ tick \in Nat /\ training[t].predicts \subseteq training[t].trains
    BY DEF CardHolds, TrainingTyped
  <1>3. PICK entry : entry = [at |-> "writes", began |-> training[t].began, registered |-> tick,
                          trains |-> training[t].trains, predicts |-> training[t].predicts]
    OBVIOUS
  <1>4. training' = [training EXCEPT ![t] = entry]
    <2>1. PICK mid : mid = [training[t] EXCEPT !.at = "writes"]
      OBVIOUS
    <2>2. training' = [training EXCEPT ![t] = [mid EXCEPT !.registered = tick]]
      BY <1>1, <2>1 DEF CardHolds, TrainingTyped
    <2>3. mid = [at |-> "writes", began |-> training[t].began,
                 registered |-> training[t].registered, trains |-> training[t].trains,
                 predicts |-> training[t].predicts]
      BY <1>2, <2>1
    <2>4. [mid EXCEPT !.registered = tick] = entry
      BY <1>3, <2>3
    <2> QED
      BY <2>2, <2>4
  <1>8. entry \in [at : {"idle", "fits", "writes", "done"}, began : 0..MaxTicks,
                registered : Nat, trains : SUBSET Shown, predicts : SUBSET Shown]
        /\ entry.predicts \subseteq entry.trains
    BY <1>2, <1>3
  <1>5. TrainingTyped'
    <2> DEFINE Entries == [at : {"idle", "fits", "writes", "done"}, began : 0..MaxTicks,
                           registered : Nat, trains : SUBSET Shown, predicts : SUBSET Shown]
    <2>1. training \in [Training -> Entries]
          /\ \A u \in Training : training[u].predicts \subseteq training[u].trains
      BY DEF CardHolds, TrainingTyped
    <2>2. tick' \in 0..MaxTicks /\ registered' \in [Shown \X Versions -> RegisteredRow]
      BY <1>1 DEF CardHolds, TrainingTyped
    <2>3. entry \in Entries
      BY <1>8
    <2> HIDE DEF Entries
    <2>4. training' \in [Training -> Entries]
      BY <1>4, <2>1, <2>3
    <2>5. ASSUME NEW u \in Training PROVE training'[u].predicts \subseteq training'[u].trains
      <3>1. CASE u = t
        <4>1. training'[u] = entry
          BY <1>4, <2>1, <3>1
        <4> QED
          BY <1>8, <4>1
      <3>2. CASE u # t
        <4>1. training'[u] = training[u]
          BY <1>4, <2>1, <3>2
        <4> QED
          BY <2>1, <4>1
      <3> QED
        BY <3>1, <3>2
    <2> QED
      BY <2>2, <2>4, <2>5 DEF TrainingTyped, Entries
  <1>6. \A u \in Training : training[u].at = "done" => training'[u] = training[u]
    BY <1>1, <1>4 DEF CardHolds, TrainingTyped
  <1>7. PredictedOK'
    BY <1>1, <1>6, RanStays DEF CardHolds, PredictedOK
  <1> QED
    BY <1>1, <1>5, <1>6, <1>7, CardStays DEF CardHolds

\* What a training commits is of its version, and registered under it.
LEMMA CommitRunsKeeps ==
  ASSUME CardHolds, NEW t \in Training, CommitRuns(t)
  PROVE  CardHolds'
  <1> DEFINE v == VersionOf(t)
  <1>1. /\ predicted' = predicted \cup NewPredictions(t) /\ registered' = Upserted(t)
        /\ training' = [training EXCEPT ![t].at = "done"] /\ training[t].at = "writes"
        /\ UNCHANGED <<tick, edits, card>>
    BY DEF CommitRuns
  <1>2. training[t] \in [at : {"idle", "fits", "writes", "done"}, began : 0..MaxTicks,
                         registered : Nat, trains : SUBSET Shown, predicts : SUBSET Shown]
        /\ training[t].predicts \subseteq training[t].trains
    BY DEF CardHolds, TrainingTyped
  <1>3. PICK entry : entry = [at |-> "done", began |-> training[t].began,
                          registered |-> training[t].registered,
                          trains |-> training[t].trains, predicts |-> training[t].predicts]
    OBVIOUS
  <1>4. training' = [training EXCEPT ![t] = entry]
    <2>1. PICK mid : mid = [training[t] EXCEPT !.at = "done"]
      OBVIOUS
    <2>2. training' = [training EXCEPT ![t] = mid]
      BY <1>1, <2>1 DEF CardHolds, TrainingTyped
    <2>3. mid = entry
      BY <1>2, <1>3, <2>1
    <2> QED
      BY <2>2, <2>3
  <1>5. \A u \in Training : training[u].at = "done" => training'[u] = training[u]
    BY <1>1, <1>4 DEF CardHolds, TrainingTyped
  <1>6. Ran(training', t, v)
    BY <1>3, <1>4 DEF Ran, VersionOf, CardHolds, TrainingTyped
  <1>7. v \in Versions
    BY VersionTyped DEF CardHolds
  <1>8. ASSUME NEW k \in Shown \X Versions
        PROVE  /\ registered'[k] \in RegisteredRow
               /\ registered'[k].run = IF k[2] # v \/ k[1] \notin training[t].trains
                                       THEN registered[k].run ELSE t
    <2>1. registered[k] \in RegisteredRow
      BY DEF CardHolds, TrainingTyped
    <2>2. registered'[k] =
            IF k[2] # v \/ k[1] \notin training[t].trains THEN registered[k]
            ELSE IF registered[k] = NoRegistered
            THEN [run |-> t, trained |-> training[t].registered, visible |-> TRUE,
                  champion |-> FALSE]
            ELSE [registered[k] EXCEPT !.run = t, !.trained = training[t].registered]
      BY <1>1 DEF Upserted
    <2>3. CASE k[2] # v \/ k[1] \notin training[t].trains
      BY <2>1, <2>2, <2>3
    <2>4. CASE ~(k[2] # v \/ k[1] \notin training[t].trains) /\ registered[k] = NoRegistered
      BY <1>2, <2>2, <2>4 DEF RegisteredRow
    <2>5. CASE ~(k[2] # v \/ k[1] \notin training[t].trains) /\ registered[k] # NoRegistered
      <3>1. registered'[k] = [registered[k] EXCEPT !.run = t, !.trained = training[t].registered]
        BY <2>2, <2>5
      <3> QED
        BY <1>2, <2>1, <2>5, <3>1 DEF RegisteredRow
    <2> QED
      BY <2>3, <2>4, <2>5
  <1>9. registered' \in [Shown \X Versions -> RegisteredRow]
    BY <1>1, <1>8 DEF Upserted
  <1>10. TrainingTyped'
    BY <1>1, <1>2, <1>3, <1>4, <1>9 DEF CardHolds, TrainingTyped
  <1>11. PredictedOK'
    <2> SUFFICES ASSUME NEW p \in predicted'
                 PROVE  /\ p.method \in Shown /\ p.version \in Versions /\ p.created \in 0..MaxTicks
                        /\ Ran(training', p.run, p.version)
                        /\ Ran(training', registered'[<<p.method, p.version>>].run, p.version)
      BY DEF PredictedOK
    <2>1. CASE p \in predicted
      <3>1. /\ p.method \in Shown /\ p.version \in Versions /\ p.created \in 0..MaxTicks
            /\ Ran(training, p.run, p.version)
            /\ Ran(training, registered[<<p.method, p.version>>].run, p.version)
        BY <2>1 DEF CardHolds, PredictedOK
      <3>2. Ran(training', p.run, p.version)
        BY <1>5, <3>1, RanStays
      <3>3. PICK u : u = registered[<<p.method, p.version>>].run
        OBVIOUS
      <3>4. Ran(training', u, p.version)
        BY <1>5, <3>1, <3>3, RanStays
      <3>5. registered'[<<p.method, p.version>>].run = u
            \/ (registered'[<<p.method, p.version>>].run = t /\ p.version = v)
        BY <1>8, <3>1, <3>3
      <3>6. PICK w : w = registered'[<<p.method, p.version>>].run
        OBVIOUS
      <3>7. Ran(training', w, p.version)
        BY <1>6, <3>4, <3>5, <3>6
      <3> QED
        BY <3>1, <3>2, <3>6, <3>7
    <2>2. CASE p \in NewPredictions(t)
      <3>1. PICK m \in training[t].predicts :
              p = [method |-> m, version |-> v, run |-> t, created |-> training[t].began]
        BY <2>2 DEF NewPredictions
      <3>2. m \in Shown /\ m \in training[t].trains /\ training[t].began \in 0..MaxTicks
        BY <1>2
      <3>3. registered'[<<m, v>>].run = t
        BY <1>7, <1>8, <3>2
      <3> QED
        BY <1>6, <1>7, <3>1, <3>2, <3>3
    <2> QED
      BY <1>1, <2>1, <2>2
  <1> QED
    BY <1>1, <1>5, <1>10, <1>11, CardStays DEF CardHolds

\* An edit of the registry leaves the runs.
LEMMA EditRegistryKeeps ==
  ASSUME CardHolds, NEW k \in DOMAIN registered, EditRegistry(k)
  PROVE  CardHolds'
  <1>1. UNCHANGED <<tick, training, predicted, card>>
    BY DEF EditRegistry
  <1>2. k \in Shown \X Versions /\ registered \in [Shown \X Versions -> RegisteredRow]
    BY DEF CardHolds, TrainingTyped
  <1>3. /\ registered' \in [Shown \X Versions -> RegisteredRow]
        /\ \A j \in Shown \X Versions : registered'[j].run = registered[j].run
    <2>0. ASSUME NEW r \in RegisteredRow, NEW b \in BOOLEAN
          PROVE  /\ [r EXCEPT !.visible = ~@] \in RegisteredRow
                 /\ [r EXCEPT !.visible = ~@].run = r.run
                 /\ [r EXCEPT !.champion = b] \in RegisteredRow
                 /\ [r EXCEPT !.champion = b].run = r.run
      BY DEF RegisteredRow
    <2>1. CASE registered' = [registered EXCEPT ![k].visible = ~@]
      <3>1. registered' = [registered EXCEPT ![k] = [registered[k] EXCEPT !.visible = ~@]]
        BY <1>2, <2>1
      <3> QED
        BY <1>2, <2>0, <3>1
    <2>2. CASE registered' = [j \in DOMAIN registered |->
                                [registered[j] EXCEPT !.champion = (j = k)]]
      <3>1. registered' = [j \in Shown \X Versions |->
                             [registered[j] EXCEPT !.champion = (j = k)]]
        BY <1>2, <2>2
      <3>2. \A j \in Shown \X Versions : registered[j] \in RegisteredRow
        BY <1>2
      <3> QED
        BY <2>0, <3>1, <3>2
    <2> QED
      BY <2>1, <2>2 DEF EditRegistry
  <1>4. PredictedOK'
    BY <1>1, <1>3, RanStays DEF CardHolds, PredictedOK
  <1>5. TrainingTyped'
    BY <1>1, <1>3 DEF CardHolds, TrainingTyped
  <1> QED
    BY <1>1, <1>4, <1>5, CardStays DEF CardHolds

\* Every step of the card keeps it.
LEMMA CardKeeps == CardHolds /\ (CardNext \/ UNCHANGED cardVars) => CardHolds'
  <1> SUFFICES ASSUME CardHolds, CardNext \/ UNCHANGED cardVars PROVE CardHolds'
    OBVIOUS
  <1>1. CASE Tick
    <2>1. tick' \in 0..MaxTicks /\ UNCHANGED <<training, predicted, registered, card>>
      BY <1>1, CardAssumption DEF Tick, CardHolds, TrainingTyped
    <2>2. PredictedOK' /\ TrainingTyped'
      BY <2>1, RanStays DEF CardHolds, PredictedOK, TrainingTyped
    <2> QED
      BY <2>1, <2>2, CardStays DEF CardHolds
  <1>2. ASSUME NEW t \in Training, BeginTraining(t) \/ WriteRuns(t) \/ CommitRuns(t)
        PROVE  CardHolds'
    BY <1>2, BeginTrainingKeeps, WriteRunsKeeps, CommitRunsKeeps
  <1>3. ASSUME NEW k \in DOMAIN registered, EditRegistry(k) PROVE CardHolds'
    BY <1>3, EditRegistryKeeps
  <1>4. CASE UNCHANGED <<tick, training, predicted, registered>> /\ CardOK'
    <2>1. PredictedOK' /\ TrainingTyped'
      BY <1>4, RanStays DEF CardHolds, PredictedOK, TrainingTyped
    <2> QED
      BY <1>4, <2>1 DEF CardHolds
  <1>5. CASE ReadLatest
    <2>1. /\ card' = [card EXCEPT !.at = "runs", !.latest = [m \in Shown |-> NewestOf(m)]]
          /\ UNCHANGED <<tick, training, predicted, registered>>
      BY <1>5 DEF ReadLatest
    <2>2. card' = [at |-> "runs", latest |-> [m \in Shown |-> NewestOf(m)], runs |-> card.runs,
                   visible |-> card.visible]
      BY <2>1 DEF CardHolds, CardOK
    <2>3. \A m \in Shown : card'.latest[m] = NoPrediction
                        \/ (card'.latest[m] \in predicted /\ card'.latest[m].method = m)
      BY <2>2, NewestIsOne DEF CardHolds
    <2>4. CardOK'
      BY <2>1, <2>2, <2>3 DEF CardOK
    <2> QED
      BY <1>4, <2>1, <2>4
  <1>6. CASE ReadRuns
    <2>1. /\ card' = [card EXCEPT !.at = "visible", !.runs = [m \in Shown |-> RunOf(m)]]
          /\ card.at = "runs" /\ UNCHANGED <<tick, training, predicted, registered>>
      BY <1>6 DEF ReadRuns
    <2>2. card' = [at |-> "visible", latest |-> card.latest, runs |-> [m \in Shown |-> RunOf(m)],
                   visible |-> card.visible]
      BY <2>1 DEF CardHolds, CardOK
    <2>3. ASSUME NEW m \in Shown, card.latest[m] # NoPrediction
          PROVE  Traced(RunOf(m), card.latest[m])
      <3>1. PICK p : p = card.latest[m]
        OBVIOUS
      <3>2. p \in predicted /\ p.method = m
        BY <2>1, <2>3, <3>1 DEF CardHolds, CardOK
      <3>3. Ran(training, p.run, p.version)
            /\ Ran(training, registered[<<m, p.version>>].run, p.version)
        BY <3>2 DEF CardHolds, PredictedOK
      <3>4. RunOf(m) = registered[<<m, p.version>>].run
        BY <2>3, <3>1 DEF RunOf
      <3>5. Traced(RunOf(m), p)
        BY <3>3, <3>4 DEF Traced, Ran, Collided, VersionOf
      <3> QED
        BY <3>1, <3>5
    <2>4. /\ card'.at = "visible" /\ card'.latest = card.latest
          /\ card'.runs = [m \in Shown |-> RunOf(m)]
      BY <2>2
    <2>5. \A v : Collided(v)' <=> Collided(v)
      BY <2>1 DEF Collided, VersionOf
    <2>6. \A m \in Shown : card'.latest[m] = NoPrediction
                        \/ (card'.latest[m] \in predicted' /\ card'.latest[m].method = m)
      BY <2>1, <2>4 DEF CardHolds, CardOK
    <2>7. ASSUME NEW m \in Shown, card'.latest[m] # NoPrediction
          PROVE  \/ card'.runs[m] = card'.latest[m].run
                 \/ Collided(card.latest[m].version)
      BY <2>3, <2>4, <2>7 DEF Traced
    <2>8. CardOK'
      BY <2>2, <2>4, <2>5, <2>6, <2>7 DEF CardOK, Traced
    <2> QED
      BY <1>4, <2>1, <2>8
  <1>7. CASE ReadVisible
    <2> DEFINE shown == {m \in WithRows : registered[Current(m)].visible}
    <2>1. /\ card' = [card EXCEPT !.at = "shown", !.visible = shown]
          /\ card.at = "visible" /\ UNCHANGED <<tick, training, predicted, registered>>
      BY <1>7 DEF ReadVisible
    <2>2. card' = [at |-> "shown", latest |-> card.latest, runs |-> card.runs, visible |-> shown]
      BY <2>1 DEF CardHolds, CardOK
    <2>3. /\ card'.at = "shown" /\ card'.latest = card.latest /\ card'.runs = card.runs
      BY <2>2
    <2>4. \A by, p : Traced(by, p)' <=> Traced(by, p)
      BY <2>1 DEF Traced, Collided, VersionOf
    <2>5. \A m \in Shown : card'.latest[m] = NoPrediction
                        \/ (card'.latest[m] \in predicted' /\ card'.latest[m].method = m)
      BY <2>1, <2>3 DEF CardHolds, CardOK
    <2>6. CardOK'
      BY <2>1, <2>2, <2>3, <2>4, <2>5 DEF CardHolds, CardOK
    <2> QED
      BY <1>4, <2>1, <2>6
  <1>8. CASE UNCHANGED cardVars
    <2>1. UNCHANGED <<tick, training, predicted, registered, edits, card>>
      BY <1>8 DEF cardVars
    <2>2. CardOK'
      BY <2>1, CardStays DEF CardHolds
    <2> QED
      BY <1>4, <2>1, <2>2
  <1> QED
    BY <1>1, <1>2, <1>3, <1>5, <1>6, <1>7, <1>8 DEF CardNext, matchVars

\* A prediction on the card is named with the run that produced it, or with one
\* of the same second, and a client that reads a list that stands still sees it
\* whole and in order, for any trainings, edits, matches and length of a page.
THEOREM PagesBelongTogether == MatchSpec => []MatchPagesAgree
  <1>1. CardHolds /\ ListHolds => MatchPagesAgree
    <2>1. CardHolds => RunProducedIt
      <3> SUFFICES ASSUME CardHolds, card.at = "shown", NEW m \in ShownBars \cup ShownAlone
                   PROVE  card.runs[m] = card.latest[m].run \/ Collided(card.latest[m].version)
        BY DEF RunProducedIt
      <3>1. m \in Shown /\ card.latest[m] # NoPrediction
        BY DEF ShownBars, ShownAlone, Shown
      <3> QED
        BY <3>1 DEF CardHolds, CardOK, Traced
    <2> QED
      BY <2>1, SeenIsList DEF MatchPagesAgree
  <1>2. MatchInit => CardHolds /\ ListHolds
    BY CardBegins, ListBegins
  <1>3. CardHolds /\ ListHolds /\ [CardNext \/ ListNext]_matchVars => CardHolds' /\ ListHolds'
    <2> SUFFICES ASSUME CardHolds, ListHolds, [CardNext \/ ListNext]_matchVars
                 PROVE  CardHolds' /\ ListHolds'
      OBVIOUS
    <2>1. CardNext => UNCHANGED listVars
      BY DEF CardNext, Tick, BeginTraining, WriteRuns, CommitRuns, EditRegistry, ReadLatest,
             ReadRuns, ReadVisible, matchVars
    <2>2. ListNext => UNCHANGED cardVars
      BY DEF ListNext, ReadTotal, ReadPage, ReadAgain, MatchMoves
    <2>3. UNCHANGED matchVars => UNCHANGED cardVars /\ UNCHANGED listVars
      BY DEF matchVars
    <2> QED
      BY <2>1, <2>2, <2>3, CardKeeps, ListKeeps
  <1> QED
    BY <1>1, <1>2, <1>3, PTL DEF MatchSpec

-----------------------------------------------------------------------------
(* The backtester's store, for any kickoffs, results and bookmaker's switch. *)

\* The quotes that are closing ones are at the kickoff, and an undisturbed
\* population has read, and then written, what holds.
StoreHolds ==
  /\ match \in [kick : Kicks, goals : Goals]
  /\ quotes \subseteq [by : Bookmaker, ts : Nat, closing : BOOLEAN]
  /\ \A q \in quotes : q.closing => q.ts = match.kick
  /\ row = [kick |-> row.kick, goals |-> row.goals, price |-> row.price]
  /\ changed \in BOOLEAN
  /\ ~changed /\ populating # NoRead => populating = match
  /\ ~changed /\ populating = NoRead => row.price = ClosingQuotes(match.kick)

\* A closing quote found at the kickoff is of the kickoff.
LEMMA ClosesAtKickoff ==
  ASSUME StoreHolds
  PROVE  ClosingQuotes(match.kick) =
           IF {q \in quotes : q.closing /\ q.by = ReferenceBookmakerFor(match.kick)} = {}
           THEN NoPrice ELSE match.kick
  <1>1. PICK given : given = {q \in quotes : q.closing /\ q.by = ReferenceBookmakerFor(match.kick)}
    OBVIOUS
  <1>2. PICK k \in Nat : k = match.kick
    BY BacktestAssumption DEF StoreHolds
  <1>3. \A q \in given : q.ts = k
    BY <1>1, <1>2 DEF StoreHolds
  <1>4. {q.ts : q \in {p \in given : p.ts <= k}} = IF given = {} THEN {} ELSE {k}
    BY <1>2, <1>3
  <1>5. Max({k}) = k
    BY <1>2 DEF Max
  <1>6. QuoteAt(given, k) = IF given = {} THEN NoPrice ELSE k
    BY <1>4, <1>5 DEF QuoteAt
  <1> QED
    BY <1>1, <1>2, <1>6 DEF ClosingQuotes

\* Nothing is stored at first.
LEMMA StoreBegins == BacktestInit => StoreHolds
  BY DEF BacktestInit, StoreHolds, NotStored

\* A closing quote is added at the kickoff.
LEMMA AddQuoteKeeps ==
  ASSUME StoreHolds, NEW by \in Bookmaker, NEW closing \in BOOLEAN, AddQuote(by, closing)
  PROVE  StoreHolds'
  <1>1. PICK q : q = [by |-> by, closing |-> closing,
                      ts |-> IF closing THEN match.kick ELSE match.kick - 1]
    OBVIOUS
  <1>2. /\ quotes' = quotes \cup {q} /\ changed' = TRUE
        /\ UNCHANGED <<match, row, populating, stored, rule>>
    BY <1>1 DEF AddQuote
  <1>3. match.kick \in Nat \ {0}
    BY BacktestAssumption DEF StoreHolds
  <1>4. q.ts \in Nat /\ (q.closing => q.ts = match.kick)
    BY <1>1, <1>3
  <1>5. q \in [by : Bookmaker, ts : Nat, closing : BOOLEAN]
    BY <1>1, <1>4
  <1> QED
    BY <1>2, <1>4, <1>5 DEF StoreHolds

\* A kickoff that moves leaves no closing quote.
LEMMA MoveKickoffKeeps ==
  ASSUME StoreHolds, NEW kick \in Kicks, MoveKickoff(kick)
  PROVE  StoreHolds'
  <1>1. /\ match' = [match EXCEPT !.kick = kick]
        /\ quotes' = {[q EXCEPT !.closing = FALSE] : q \in {p \in quotes : p.ts < kick}}
        /\ changed' = TRUE /\ UNCHANGED <<row, populating, stored, rule>>
    BY DEF MoveKickoff
  <1>2. match' \in [kick : Kicks, goals : Goals]
    BY <1>1 DEF StoreHolds
  <1>3. ASSUME NEW q \in quotes'
        PROVE  q \in [by : Bookmaker, ts : Nat, closing : BOOLEAN] /\ ~q.closing
    <2>1. PICK p \in quotes : q = [p EXCEPT !.closing = FALSE]
      BY <1>1
    <2>2. p \in [by : Bookmaker, ts : Nat, closing : BOOLEAN]
      BY DEF StoreHolds
    <2> QED
      BY <2>1, <2>2
  <1> QED
    BY <1>1, <1>2, <1>3 DEF StoreHolds

\* The population writes the price of the kickoff it has read.
LEMMA WriteRowKeeps ==
  ASSUME StoreHolds, WriteRow
  PROVE  StoreHolds'
  <1>1. PICK price : price = ClosingQuotes(populating.kick)
    OBVIOUS
  <1>2. /\ row' = IF row = NotStored
            THEN [kick |-> populating.kick, goals |-> populating.goals, price |-> price]
            ELSE [row EXCEPT !.price = price]
        /\ populating # NoRead /\ populating' = NoRead
        /\ UNCHANGED <<match, quotes, changed, stored, rule>>
    BY <1>1 DEF WriteRow
  <1>3. row' = [kick |-> row'.kick, goals |-> row'.goals, price |-> price]
    <2>1. row = [kick |-> row.kick, goals |-> row.goals, price |-> row.price]
      BY DEF StoreHolds
    <2> QED
      BY <1>2, <2>1
  <1>4. ClosingQuotes(match.kick)' = ClosingQuotes(match.kick)
    BY <1>2 DEF ClosingQuotes, QuoteAt
  <1>5. ~changed => price = ClosingQuotes(match.kick)
    BY <1>1, <1>2 DEF StoreHolds
  <1> QED
    BY <1>2, <1>3, <1>4, <1>5 DEF StoreHolds

\* Every step of the store or the engine keeps it.
LEMMA StoreKeeps == StoreHolds /\ [StoreNext \/ EngineNext]_backtestVars => StoreHolds'
  <1> SUFFICES ASSUME StoreHolds, [StoreNext \/ EngineNext]_backtestVars PROVE StoreHolds'
    OBVIOUS
  <1>1. ASSUME NEW by \in Bookmaker, NEW closing \in BOOLEAN, AddQuote(by, closing)
        PROVE  StoreHolds'
    BY <1>1, AddQuoteKeeps
  <1>2. ASSUME NEW goals \in Goals, Correct(goals) PROVE StoreHolds'
    <2>1. match' = [match EXCEPT !.goals = goals] /\ changed' = TRUE
          /\ UNCHANGED <<quotes, row, populating>>
      BY <1>2 DEF Correct
    <2> QED
      BY <2>1 DEF StoreHolds
  <1>3. ASSUME NEW kick \in Kicks, MoveKickoff(kick) PROVE StoreHolds'
    BY <1>3, MoveKickoffKeeps
  <1>4. CASE ReadMatches
    <2>1. /\ populating' = match /\ changed' = FALSE /\ UNCHANGED <<match, quotes, row>>
      BY <1>4 DEF ReadMatches
    <2>2. match # NoRead
      BY BacktestAssumption DEF StoreHolds, NoRead
    <2> QED
      BY <2>1, <2>2 DEF StoreHolds
  <1>5. CASE WriteRow
    BY <1>5, WriteRowKeeps
  <1>6. CASE UNCHANGED <<match, quotes, row, populating, changed>>
    BY <1>6 DEF StoreHolds, ClosingQuotes, QuoteAt
  <1>7. EngineNext \/ UNCHANGED backtestVars =>
          UNCHANGED <<match, quotes, row, populating, changed>>
    BY DEF EngineNext, Store, backtestVars
  <1> QED
    BY <1>1, <1>2, <1>3, <1>4, <1>5, <1>6, <1>7 DEF StoreNext

\* After a population that nothing overtook, a bet settles at the reference
\* bookmaker's quote of the kickoff, for any kickoffs, quotes and moves.
THEOREM BetsSettleAtClose == BacktestSpec => []FreshPriceCloses
  <1>1. StoreHolds => FreshPriceCloses
    BY ClosesAtKickoff DEF StoreHolds, FreshPriceCloses
  <1> QED
    BY <1>1, StoreBegins, StoreKeeps, PTL DEF BacktestSpec
=============================================================================
