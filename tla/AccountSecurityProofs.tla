------------------------ MODULE AccountSecurityProofs ------------------------
(***************************************************************************)
(* Theorems about AccountSecurity, for any number of requests, connections *)
(* and failed logins.                                                      *)
(***************************************************************************)
EXTENDS AccountSecurity, FiniteSetTheorems, TLAPS

Columns == {"pw", "fails", "locked", "active", "stamp", "totp", "secret"}
Value == Nat \cup BOOLEAN
Writes == UNION {[D -> Value] : D \in SUBSET Columns}
Token == [read : Nat, after : Nat]
Snapshot == [stamp : Nat, fails : Nat, locked : Nat]
RequestRecord ==
  [at : Steps, kind : Operations \cup {"none"}, writes : Writes, snap : Snapshot,
   read : Nat, stamp : Nat, swept : SUBSET Token]

\* The requests that have stamped their change, and the logins that go on.
Pending(r) == req[r].kind \in {"password", "disable"} /\ req[r].at \in {"flush", "commit"}
Entering(r) == req[r].kind = "login" /\ req[r].at \in {"flush", "commit"}

TypeInv ==
  /\ clock \in 0..MaxClock
  /\ row \in Row /\ row.secret <= secrets
  /\ req \in [Request -> RequestRecord]
  /\ live \subseteq Token
  /\ stamps \in Nat /\ secrets \in 0..MaxSecrets
  /\ changes \subseteq 1..stamps

\* The columns a request will write, each with the value its operation gives it.
WritesOK(r) ==
  LET w == req[r].writes IN
  /\ "pw" \in DOMAIN w => w["pw"] \in Password
  /\ "fails" \in DOMAIN w => w["fails"] = 0 /\ req[r].kind = "login"
  /\ "locked" \in DOMAIN w => w["locked"] = 0 /\ req[r].kind = "login"
  /\ "active" \in DOMAIN w => w["active"] \in BOOLEAN
  /\ "totp" \in DOMAIN w => w["totp"] \in BOOLEAN
  /\ "secret" \in DOMAIN w => w["secret"] \in 0..secrets
  /\ "stamp" \in DOMAIN w => Pending(r) /\ w["stamp"] = req[r].stamp

\* A change that is not committed has a stamp of its own, and has swept every
\* token that is older than the stamp.
PendingOK(r) ==
  Pending(r) =>
    /\ "stamp" \in DOMAIN req[r].writes
    /\ req[r].stamp \in 1..stamps /\ req[r].stamp \notin changes
    /\ \A t \in live : t \notin req[r].swept => t.after >= req[r].stamp

\* A login that goes on has read its stamp with the changes of that time.
EnteringOK(r) ==
  Entering(r) =>
    /\ req[r].snap.stamp \in changes \cup {0}
    /\ req[r].snap.stamp = row.stamp => req[r].read = Cardinality(changes)

RequestOK(r) ==
  /\ WritesOK(r) /\ PendingOK(r) /\ EnteringOK(r)
  /\ req[r].at = "sweep" => req[r].kind \in {"password", "disable"}

\* The requests that will count a failure or take a stamp.
Failing == {r \in Request : req[r].at \in {"fail", "failing"}}
Sweeping == {r \in Request : req[r].at = "sweep"}
Bounded ==
  /\ row.fails + Cardinality(Failing) <= MaxStrikes
  /\ stamps + Cardinality(Sweeping) <= MaxStamps

StampsOK ==
  /\ \A r, s \in Request : Pending(r) /\ Pending(s) /\ r # s => req[r].stamp # req[s].stamp
  /\ row.stamp \in changes \cup {0} /\ (row.stamp = 0 => changes = {})
  /\ \A a \in access : a.stamp \in changes \cup {0}

\* A lock is never longer than what the failures that were counted deserve.
LockOK == row.fails >= MaxFailures => row.locked <= clock + Lockout(row.fails)

SecInv ==
  /\ TypeInv
  /\ \A r \in Request : RequestOK(r)
  /\ StampsOK /\ Bounded /\ LockOK
  /\ FailuresAreCounted /\ SweptStayDead /\ AccessDiesWithCredentials

\* A row is a function of its columns.
LEMMA RowColumns ==
  ASSUME NEW r \in Row
  PROVE  DOMAIN r = Columns /\ \A f \in Columns : r[f] \in Value
<1>1. /\ r["pw"] \in Password /\ r["fails"] \in Nat /\ r["locked"] \in Nat
      /\ r["active"] \in BOOLEAN /\ r["stamp"] \in Nat /\ r["totp"] \in BOOLEAN
      /\ r["secret"] \in Nat
  BY DEF Row
<1>2. DOMAIN r = Columns
  BY DEF Row, Columns
<1>. QED BY <1>1, <1>2 DEF Columns, Value, Password

\* The columns that differ, with their new values.
LEMMA ChangedColumns ==
  ASSUME NEW new \in Row, NEW old \in Row
  PROVE  /\ Changed(new, old) \in Writes
         /\ \A f \in Columns : f \in DOMAIN Changed(new, old) <=> new[f] # old[f]
         /\ \A f \in DOMAIN Changed(new, old) : Changed(new, old)[f] = new[f]
<1> DEFINE D == {g \in Columns : new[g] # old[g]}
<1>1. Changed(new, old) = [f \in D |-> new[f]] /\ D \subseteq Columns
  BY RowColumns DEF Changed
<1>2. [f \in D |-> new[f]] \in [D -> Value]
  BY RowColumns
<1>. QED BY <1>1, <1>2 DEF Writes

\* A row with a request's columns written is a row.
LEMMA WrittenRow ==
  ASSUME NEW old \in Row, NEW w,
  /\ "pw" \in DOMAIN w => w["pw"] \in Password
  /\ "fails" \in DOMAIN w => w["fails"] = 0
  /\ "locked" \in DOMAIN w => w["locked"] = 0
  /\ "active" \in DOMAIN w => w["active"] \in BOOLEAN
  /\ "totp" \in DOMAIN w => w["totp"] \in BOOLEAN
  /\ "secret" \in DOMAIN w => w["secret"] \in Nat
  /\ "stamp" \in DOMAIN w => w["stamp"] \in Nat
  PROVE  /\ Written(w, old) \in Row
         /\ \A f \in Columns : Written(w, old)[f] = IF f \in DOMAIN w THEN w[f] ELSE old[f]
<1> DEFINE new == Written(w, old)
<1>1. new = [f \in Columns |-> IF f \in DOMAIN w THEN w[f] ELSE old[f]]
  BY RowColumns DEF Written
<1>2. /\ old["pw"] \in Password /\ old["fails"] \in Nat /\ old["locked"] \in Nat
      /\ old["active"] \in BOOLEAN /\ old["stamp"] \in Nat /\ old["totp"] \in BOOLEAN
      /\ old["secret"] \in Nat
  BY DEF Row
<1>3. /\ new["pw"] \in Password /\ new["fails"] \in Nat /\ new["locked"] \in Nat
      /\ new["active"] \in BOOLEAN /\ new["stamp"] \in Nat /\ new["totp"] \in BOOLEAN
      /\ new["secret"] \in Nat
  BY <1>1, <1>2 DEF Columns
<1>4. new = [pw |-> new["pw"], fails |-> new["fails"], locked |-> new["locked"],
             active |-> new["active"], stamp |-> new["stamp"], totp |-> new["totp"],
             secret |-> new["secret"]]
  BY <1>1 DEF Columns
<1> HIDE DEF new
<1>5. new \in Row
  BY <1>3, <1>4 DEF Row
<1>. QED BY <1>1, <1>5 DEF new

-----------------------------------------------------------------------------
(* Requests.                                                                *)

\* One request is written; the others stay as they are.
LEMMA PutReq ==
  ASSUME TypeInv, NEW r \in Request, NEW s, Put(r, s)
  PROVE  /\ req'[r] = s /\ \A q \in Request : q # r => req'[q] = req[q]
         /\ s \in RequestRecord => req' \in [Request -> RequestRecord]
  BY DEF TypeInv, Put

\* An idle request writes nothing.
LEMMA IdleRecord ==
  /\ Idle \in RequestRecord /\ Idle.at = "idle" /\ Idle.kind = "none"
  /\ DOMAIN Idle.writes = {} /\ EmptyWrites \in Writes
<1>1. EmptyWrites \in [{} -> Value] /\ DOMAIN EmptyWrites = {}
  BY DEF EmptyWrites
<1>2. EmptyWrites \in Writes
  BY <1>1 DEF Writes
<1> HIDE DEF EmptyWrites
<1>. QED BY <1>1, <1>2 DEF Idle, RequestRecord, Steps, Snapshot, None

\* A set of requests in which one request may enter or leave.
LEMMA OneMoves ==
  ASSUME NEW A, A \subseteq Request, NEW B, B \subseteq Request, NEW r \in Request,
         \A q \in Request : q # r => (q \in A <=> q \in B)
  PROVE  /\ Cardinality(A) \in Nat /\ Cardinality(B) \in Nat
         /\ (r \in A <=> r \in B) => Cardinality(A) = Cardinality(B)
         /\ r \in A /\ r \notin B => Cardinality(A) = Cardinality(B) + 1
         /\ r \notin A /\ r \in B => Cardinality(B) = Cardinality(A) + 1
<1>1. IsFiniteSet(A) /\ IsFiniteSet(B)
  BY FS_Subset, SecurityAssumption
<1>2. Cardinality(A) \in Nat /\ Cardinality(B) \in Nat
  BY <1>1, FS_CardinalityType
<1>3. ASSUME r \in A <=> r \in B PROVE A = B
  BY <1>3
<1>4. ASSUME r \in A, r \notin B PROVE Cardinality(A) = Cardinality(B) + 1
  <2>1. A = B \cup {r}
    BY <1>4
  <2>. QED BY <1>1, <1>4, <2>1, FS_AddElement
<1>5. ASSUME r \notin A, r \in B PROVE Cardinality(B) = Cardinality(A) + 1
  <2>1. B = A \cup {r}
    BY <1>5
  <2>. QED BY <1>1, <1>5, <2>1, FS_AddElement
<1>. QED BY <1>2, <1>3, <1>4, <1>5

\* What one request's step does to the number that will count a failure and
\* to the number that will take a stamp.
LEMMA Counts ==
  ASSUME TypeInv, NEW r \in Request, NEW s, Put(r, s)
  PROVE  /\ Cardinality(Failing) \in Nat /\ Cardinality(Failing)' \in Nat
         /\ Cardinality(Sweeping) \in Nat /\ Cardinality(Sweeping)' \in Nat
         /\ s.at \notin {"fail", "failing"} => Cardinality(Failing)' <= Cardinality(Failing)
         /\ Cardinality(Failing)' <= Cardinality(Failing) + 1
         /\ req[r].at \in {"fail", "failing"} =>
              /\ Cardinality(Failing)' <= Cardinality(Failing)
              /\ s.at \notin {"fail", "failing"} =>
                   Cardinality(Failing)' + 1 = Cardinality(Failing)
         /\ s.at # "sweep" => Cardinality(Sweeping)' <= Cardinality(Sweeping)
         /\ Cardinality(Sweeping)' <= Cardinality(Sweeping) + 1
         /\ req[r].at = "sweep" /\ s.at # "sweep" =>
              Cardinality(Sweeping)' + 1 = Cardinality(Sweeping)
<1>1. req'[r] = s /\ \A q \in Request : q # r => req'[q] = req[q]
  BY PutReq
<1> DEFINE F == Failing
           G == Failing'
           S == Sweeping
           T == Sweeping'
<1>2. /\ F \subseteq Request /\ G \subseteq Request /\ S \subseteq Request /\ T \subseteq Request
      /\ \A q \in Request : q # r => (q \in F <=> q \in G) /\ (q \in S <=> q \in T)
      /\ r \in F <=> req[r].at \in {"fail", "failing"}
      /\ r \in G <=> s.at \in {"fail", "failing"}
      /\ r \in S <=> req[r].at = "sweep"
      /\ r \in T <=> s.at = "sweep"
  BY <1>1 DEF Failing, Sweeping
<1> HIDE DEF F, G, S, T
<1>3. /\ Cardinality(F) \in Nat /\ Cardinality(G) \in Nat
      /\ (r \in F <=> r \in G) => Cardinality(F) = Cardinality(G)
      /\ r \in F /\ r \notin G => Cardinality(F) = Cardinality(G) + 1
      /\ r \notin F /\ r \in G => Cardinality(G) = Cardinality(F) + 1
  BY <1>2, OneMoves
<1>4. /\ Cardinality(S) \in Nat /\ Cardinality(T) \in Nat
      /\ (r \in S <=> r \in T) => Cardinality(S) = Cardinality(T)
      /\ r \in S /\ r \notin T => Cardinality(S) = Cardinality(T) + 1
      /\ r \notin S /\ r \in T => Cardinality(T) = Cardinality(S) + 1
  BY <1>2, OneMoves
<1>5. /\ Cardinality(F) \in Nat /\ Cardinality(G) \in Nat
      /\ Cardinality(S) \in Nat /\ Cardinality(T) \in Nat
      /\ s.at \notin {"fail", "failing"} => Cardinality(G) <= Cardinality(F)
      /\ Cardinality(G) <= Cardinality(F) + 1
      /\ req[r].at \in {"fail", "failing"} =>
           /\ Cardinality(G) <= Cardinality(F)
           /\ s.at \notin {"fail", "failing"} => Cardinality(G) + 1 = Cardinality(F)
      /\ s.at # "sweep" => Cardinality(T) <= Cardinality(S)
      /\ Cardinality(T) <= Cardinality(S) + 1
      /\ req[r].at = "sweep" /\ s.at # "sweep" => Cardinality(T) + 1 = Cardinality(S)
  BY <1>2, <1>3, <1>4
<1>. QED BY <1>5 DEF F, G, S, T

\* A step of one request that writes nothing of the account.
LEMMA RequestStep ==
  ASSUME SecInv, NEW r \in Request, NEW s \in RequestRecord, Put(r, s),
         UNCHANGED <<clock, row, tokens, stamps, changes, strikes>>,
         secrets' \in secrets..MaxSecrets,
         RequestOK(r)', Bounded',
         Pending(r)' => Pending(r) /\ s.stamp = req[r].stamp
  PROVE  SecInv'
<1> USE DEF tokens
<1>1. req'[r] = s /\ \A q \in Request : q # r => req'[q] = req[q]
  BY PutReq DEF SecInv
<1>2. TypeInv'
  <2>1. row.secret \in Nat /\ MaxSecrets \in Nat
    BY SecurityAssumption DEF SecInv, TypeInv, Row
  <2>2. secrets \in Nat /\ secrets' \in Nat /\ secrets <= secrets' /\ secrets' <= MaxSecrets
    BY <2>1 DEF SecInv, TypeInv
  <2>3. req' \in [Request -> RequestRecord]
    BY PutReq DEF SecInv
  <2>. QED BY <2>1, <2>2, <2>3 DEF SecInv, TypeInv
<1>3. ASSUME NEW q \in Request PROVE RequestOK(q)'
  <2>1. CASE q # r
    <3>1. req'[q] = req[q] /\ RequestOK(q) /\ (Pending(q)' <=> Pending(q))
          /\ (Entering(q)' <=> Entering(q))
      BY <1>1, <2>1 DEF SecInv, Pending, Entering
    <3>2. WritesOK(q)'
      BY <3>1 DEF RequestOK, WritesOK, SecInv, TypeInv
    <3>. QED BY <3>1, <3>2 DEF RequestOK, PendingOK, EnteringOK
  <2>. QED BY <2>1
<1>4. StampsOK'
  <2>1. \A q \in Request : Pending(q)' => Pending(q) /\ req'[q].stamp = req[q].stamp
    BY <1>1 DEF Pending
  <2>2. \A p, q \in Request : Pending(p) /\ Pending(q) /\ p # q => req[p].stamp # req[q].stamp
    BY DEF SecInv, StampsOK
  <2>. QED BY <2>1, <2>2 DEF SecInv, StampsOK
<1>5. LockOK' /\ FailuresAreCounted' /\ SweptStayDead' /\ AccessDiesWithCredentials'
  BY DEF SecInv, LockOK, FailuresAreCounted, SweptStayDead, AccessDiesWithCredentials,
     Lockout
<1>. QED BY <1>2, <1>3, <1>4, <1>5 DEF SecInv

\* A request that ends and writes nothing.
LEMMA EndStep ==
  ASSUME SecInv, NEW r \in Request, End(r),
         UNCHANGED <<clock, row, tokens, stamps, secrets, history>>
  PROVE  SecInv'
<1>1. Put(r, Idle) /\ req'[r] = Idle
  BY PutReq DEF End, SecInv
<1>2. RequestOK(r)' /\ ~Pending(r)'
  BY <1>1, IdleRecord
     DEF RequestOK, WritesOK, PendingOK, EnteringOK, Pending, Entering
<1>3. Bounded'
  <2>1. /\ Cardinality(Failing) \in Nat /\ Cardinality(Failing)' \in Nat
        /\ Cardinality(Sweeping) \in Nat /\ Cardinality(Sweeping)' \in Nat
        /\ Cardinality(Failing)' <= Cardinality(Failing)
        /\ Cardinality(Sweeping)' <= Cardinality(Sweeping)
    BY <1>1, IdleRecord, Counts DEF SecInv
  <2>. QED BY <2>1, SecurityAssumption DEF SecInv, Bounded, TypeInv, Row
<1>4. secrets' \in secrets..MaxSecrets
  BY SecurityAssumption DEF SecInv, TypeInv
<1>. QED BY <1>1, <1>2, <1>3, <1>4, IdleRecord, RequestStep DEF history

\* A request that begins carries the columns it changes, and a login that goes
\* on what it needs of the row.
LEMMA BeginRecord ==
  ASSUME TypeInv, NEW kind \in Operations, NEW step \in Steps, NEW new \in Row
  PROVE  /\ Begin(kind, step, new) \in RequestRecord
         /\ Begin(kind, step, new).at = step /\ Begin(kind, step, new).kind = kind
         /\ Begin(kind, step, new).writes = Changed(new, row)
         /\ kind = "login" /\ step = "flush" =>
              /\ Begin(kind, step, new).snap.stamp = row.stamp
              /\ Begin(kind, step, new).read = Cardinality(changes)
<1> DEFINE w == Changed(new, row)
           card == Cardinality(changes)
           stamp == row.stamp
           fails == row.fails
           locked == row.locked
           begun == [Idle EXCEPT !.at = step, !.kind = kind, !.writes = w]
           entering == [begun.snap EXCEPT !.stamp = stamp]
           refused == [begun.snap EXCEPT !.fails = fails]
           snap == [refused EXCEPT !.locked = locked]
<1>1. w \in Writes /\ stamp \in Nat /\ fails \in Nat /\ locked \in Nat
  BY ChangedColumns DEF TypeInv, Row
<1>2. card \in Nat
  <2>1. IsFiniteSet(1..stamps)
    BY FS_Interval DEF TypeInv
  <2>. QED BY <2>1, FS_Subset, FS_CardinalityType DEF TypeInv
<1>3. Begin(kind, step, new) =
        IF kind # "login" THEN begun
        ELSE IF step = "flush"
        THEN [begun EXCEPT !.snap.stamp = stamp, !.read = card]
        ELSE [begun EXCEPT !.snap.fails = fails, !.snap.locked = locked]
  BY DEF Begin
<1> HIDE DEF w, card, stamp, fails, locked
<1>4. /\ begun \in RequestRecord /\ begun.at = step /\ begun.kind = kind
      /\ begun.writes = w
  <2> HIDE DEF Idle
  <2>1. Idle \in RequestRecord
    BY IdleRecord
  <2>. QED BY <1>1, <2>1 DEF RequestRecord
<1> HIDE DEF begun
<1>5. begun.snap \in Snapshot
  BY <1>4 DEF RequestRecord
<1>6. entering \in Snapshot /\ entering.stamp = stamp /\ snap \in Snapshot
  <2>1. refused \in Snapshot
    BY <1>1, <1>5 DEF Snapshot
  <2> HIDE DEF refused
  <2>. QED BY <1>1, <1>5, <2>1 DEF Snapshot
<1>7. CASE kind # "login"
  BY <1>3, <1>4, <1>7 DEF w
<1>8. CASE kind = "login" /\ step = "flush"
  <2> DEFINE b == [begun EXCEPT !.snap = entering, !.read = card]
  <2>1. Begin(kind, step, new) = b
    BY <1>3, <1>8
  <2> HIDE DEF entering
  <2>2. b \in RequestRecord /\ b.at = step /\ b.kind = kind /\ b.writes = w
        /\ b.snap.stamp = stamp /\ b.read = card
    BY <1>2, <1>4, <1>6 DEF RequestRecord
  <2>. QED BY <2>1, <2>2 DEF w, card, stamp
<1>9. CASE kind = "login" /\ step # "flush"
  <2> DEFINE b == [begun EXCEPT !.snap = snap]
  <2>1. Begin(kind, step, new) = b
    BY <1>3, <1>4, <1>9 DEF RequestRecord
  <2> HIDE DEF snap
  <2>2. b \in RequestRecord /\ b.at = step /\ b.kind = kind /\ b.writes = w
    BY <1>4, <1>6 DEF RequestRecord
  <2>. QED BY <1>9, <2>1, <2>2 DEF w
<1>. QED BY <1>7, <1>8, <1>9

\* A request begins: what it will write is its operation's.
LEMMA BeginStep ==
  ASSUME SecInv, NEW r \in Request, req[r].at = "idle",
         NEW kind \in Operations, NEW step \in Steps, NEW new \in Row,
         Put(r, Begin(kind, step, new)),
         UNCHANGED <<clock, row, tokens, stamps, changes, strikes>>,
         secrets' \in secrets..MaxSecrets,
         step = "sweep" \/ step = "commit" => kind \in {"password", "disable"},
         kind \in {"password", "disable"} => step = "sweep" /\ MoreStamps,
         step = "fail" => row.fails + Cardinality(Running) < MaxStrikes,
         step # "failing",
         new.stamp = row.stamp, new.secret \in 0..secrets',
         new.fails # row.fails \/ new.locked # row.locked =>
           kind = "login" /\ new.fails = 0 /\ new.locked = 0
  PROVE  SecInv'
<1> DEFINE b == Begin(kind, step, new)
<1>1. /\ b \in RequestRecord /\ b.at = step /\ b.kind = kind /\ b.writes = Changed(new, row)
      /\ kind = "login" /\ step = "flush" =>
           b.snap.stamp = row.stamp /\ b.read = Cardinality(changes)
  BY BeginRecord DEF SecInv
<1> HIDE DEF b
<1>2. Put(r, b) /\ req'[r] = b
  BY PutReq DEF SecInv, b
<1>3. ~Pending(r)'
  BY <1>1, <1>2 DEF Pending
<1>4. WritesOK(r)'
  <2>1. /\ \A f \in Columns : f \in DOMAIN b.writes <=> new[f] # row[f]
        /\ \A f \in DOMAIN b.writes : b.writes[f] = new[f]
    BY <1>1, ChangedColumns DEF SecInv, TypeInv
  <2>2. /\ new["pw"] \in Password /\ new["active"] \in BOOLEAN /\ new["totp"] \in BOOLEAN
        /\ new["secret"] \in 0..secrets' /\ new["stamp"] = row["stamp"]
    BY DEF Row
  <2>. QED BY <1>1, <1>2, <2>1, <2>2 DEF WritesOK, Columns
<1>5. RequestOK(r)'
  <2>1. EnteringOK(r)'
    <3>1. step # "commit" \/ kind # "login"
      OBVIOUS
    <3>. QED BY <1>1, <1>2, <3>1 DEF EnteringOK, Entering, SecInv, StampsOK
  <2>. QED BY <1>1, <1>2, <1>3, <1>4, <2>1 DEF RequestOK, PendingOK
<1>6. Bounded'
  <2>1. /\ Cardinality(Failing) \in Nat /\ Cardinality(Failing)' \in Nat
        /\ Cardinality(Sweeping) \in Nat /\ Cardinality(Sweeping)' \in Nat
        /\ step # "fail" => Cardinality(Failing)' <= Cardinality(Failing)
        /\ Cardinality(Failing)' <= Cardinality(Failing) + 1
        /\ step # "sweep" => Cardinality(Sweeping)' <= Cardinality(Sweeping)
        /\ Cardinality(Sweeping)' <= Cardinality(Sweeping) + 1
    BY <1>1, <1>2, Counts DEF SecInv
  <2>2. row.fails \in Nat /\ stamps \in Nat /\ MaxStamps \in Nat /\ MaxStrikes \in Nat
    BY SecurityAssumption DEF SecInv, TypeInv, Row
  <2>3. row.fails + Cardinality(Failing)' <= MaxStrikes
    <3>1. CASE step # "fail"
      BY <2>1, <2>2, <3>1 DEF SecInv, Bounded
    <3>2. CASE step = "fail"
      <4>1. IsFiniteSet(Running) /\ Failing \subseteq Running
        BY FS_Subset, SecurityAssumption DEF Running, Failing
      <4>2. Cardinality(Failing) <= Cardinality(Running) /\ Cardinality(Running) \in Nat
        BY <4>1, FS_Subset, FS_CardinalityType
      <4>. QED BY <2>1, <2>2, <3>2, <4>2
    <3>. QED BY <3>1, <3>2
  <2>4. stamps + Cardinality(Sweeping)' <= MaxStamps
    <3>1. CASE step # "sweep"
      BY <2>1, <2>2, <3>1 DEF SecInv, Bounded
    <3>2. CASE step = "sweep"
      <4>1. stamps + Cardinality(Sweeping) < MaxStamps
        BY <3>2 DEF MoreStamps, Sweeping
      <4>. QED BY <2>1, <2>2, <4>1
    <3>. QED BY <3>1, <3>2
  <2>. QED BY <2>3, <2>4 DEF Bounded
<1>. QED BY <1>1, <1>2, <1>3, <1>5, <1>6, RequestStep

-----------------------------------------------------------------------------
(* The operations.                                                          *)

\* A login begins with its verdict on the row it read.
LEMMA LoginInv ==
  ASSUME SecInv, NEW r \in Request, NEW password \in Password, NEW code,
         Login(r, password, code)
  PROVE  SecInv'
<1> DEFINE verdict == Verdict(password, code)
           new == IF verdict = "flush" THEN Reset ELSE row
<1>1. /\ req[r].at = "idle" /\ verdict # "code missing"
      /\ verdict = "fail" => row.fails + Cardinality(Running) < MaxStrikes
      /\ Put(r, Begin("login", verdict, new))
      /\ UNCHANGED <<clock, row, tokens, stamps, secrets, history>>
  BY DEF Login, Connects
<1>2. verdict \in {"audit", "fail", "flush"} /\ verdict \in Steps
  BY <1>1 DEF Verdict, Steps, Waiting
<1>3. /\ new \in Row /\ new.stamp = row.stamp /\ new.secret = row.secret
      /\ new = row \/ (new.fails = 0 /\ new.locked = 0)
  <2>1. row \in Row
    BY DEF SecInv, TypeInv
  <2>2. Reset \in Row /\ Reset.stamp = row.stamp /\ Reset.secret = row.secret
        /\ Reset.fails = 0 /\ Reset.locked = 0
    BY <2>1 DEF Reset, Row, None
  <2>. QED BY <2>1, <2>2
<1>4. secrets' \in secrets..MaxSecrets /\ new.secret \in 0..secrets'
  <2>1. secrets \in 0..MaxSecrets /\ MaxSecrets \in Nat /\ secrets' = secrets
        /\ row.secret \in Nat /\ row.secret <= secrets
    BY <1>1, SecurityAssumption DEF SecInv, TypeInv, Row
  <2>. QED BY <1>3, <2>1
<1> HIDE DEF verdict, new
<1>. QED BY <1>1, <1>2, <1>3, <1>4, BeginStep DEF Operations, history

\* The bounds on the secret that a request may keep.
LEMMA SecretsStay ==
  ASSUME SecInv
  PROVE  secrets \in secrets..MaxSecrets /\ row.secret \in 0..secrets /\ row \in Row
  BY SecurityAssumption DEF SecInv, TypeInv, Row

\* A password change begins.
LEMMA ChangePasswordInv ==
  ASSUME SecInv, NEW r \in Request, ChangePassword(r)
  PROVE  SecInv'
<1> DEFINE new == NewPassword
<1>1. /\ new \in Row /\ new.stamp = row.stamp /\ new.secret = row.secret
      /\ new.fails = row.fails /\ new.locked = row.locked
  BY SecretsStay DEF NewPassword, Row, Password
<1>2. /\ req[r].at = "idle" /\ MoreStamps /\ Put(r, Begin("password", "sweep", new))
      /\ UNCHANGED <<clock, row, tokens, stamps, secrets, history>>
  BY DEF ChangePassword, Connects
<1> HIDE DEF new
<1>. QED BY <1>1, <1>2, SecretsStay, BeginStep DEF Operations, Steps, history

\* A disabling begins.
LEMMA DisableUserInv ==
  ASSUME SecInv, NEW r \in Request, DisableUser(r)
  PROVE  SecInv'
<1> DEFINE new == Disabled
<1>1. /\ new \in Row /\ new.stamp = row.stamp /\ new.secret = row.secret
      /\ new.fails = row.fails /\ new.locked = row.locked
  BY SecretsStay DEF Disabled, Row
<1>2. /\ req[r].at = "idle" /\ MoreStamps /\ Put(r, Begin("disable", "sweep", new))
      /\ UNCHANGED <<clock, row, tokens, stamps, secrets, history>>
  BY DEF DisableUser, Connects
<1> HIDE DEF new
<1>. QED BY <1>1, <1>2, SecretsStay, BeginStep DEF Operations, Steps, history

\* An enabling begins.
LEMMA EnableUserInv ==
  ASSUME SecInv, NEW r \in Request, EnableUser(r)
  PROVE  SecInv'
<1> DEFINE new == Enabled
<1>1. /\ new \in Row /\ new.stamp = row.stamp /\ new.secret = row.secret
      /\ new.fails = row.fails /\ new.locked = row.locked
  BY SecretsStay DEF Enabled, Row
<1>2. /\ req[r].at = "idle" /\ Put(r, Begin("enable", "flush", new))
      /\ UNCHANGED <<clock, row, tokens, stamps, secrets, history>>
  BY DEF EnableUser, Connects
<1> HIDE DEF new
<1>. QED BY <1>1, <1>2, SecretsStay, BeginStep DEF Operations, Steps, history

\* A setup generates a new secret.
LEMMA SetupTotpInv ==
  ASSUME SecInv, NEW r \in Request, SetupTotp(r)
  PROVE  SecInv'
<1> DEFINE next == secrets + 1
           new == [row EXCEPT !.secret = next]
<1>1. /\ req[r].at = "idle" /\ Put(r, Begin("setup", "flush", new))
      /\ secrets' = next /\ secrets < MaxSecrets
      /\ UNCHANGED <<clock, row, tokens, stamps, history>>
  BY DEF SetupTotp, Connects, NewSecret
<1>2. next \in Nat /\ secrets' \in secrets..MaxSecrets /\ next \in 0..secrets'
  BY <1>1, SecurityAssumption DEF SecInv, TypeInv
<1> HIDE DEF next
<1>3. /\ new \in Row /\ new.stamp = row.stamp /\ new.secret = next
      /\ new.fails = row.fails /\ new.locked = row.locked
  BY <1>2, SecretsStay DEF Row
<1> HIDE DEF new
<1>. QED BY <1>1, <1>2, <1>3, BeginStep DEF Operations, Steps, history

\* A confirmation or a removal begins.
LEMMA TotpInv ==
  ASSUME SecInv, NEW r \in Request, NEW code, EnableTotp(r, code) \/ DisableTotp(r, code)
  PROVE  SecInv'
<1>1. PICK kind \in {"confirm", "drop"}, step \in {"audit", "flush"},
           new \in {row, WithTotp, WithoutTotp} : Put(r, Begin(kind, step, new))
  BY DEF EnableTotp, DisableTotp
<1>2. /\ new \in Row /\ new.stamp = row.stamp /\ new.secret \in {0, row.secret}
      /\ new.fails = row.fails /\ new.locked = row.locked
  <2>1. row \in Row
    BY SecretsStay
  <2>2. CASE new = WithTotp
    BY <2>1, <2>2 DEF WithTotp, Row
  <2>3. CASE new = WithoutTotp
    BY <2>1, <2>3 DEF WithoutTotp, Row, None
  <2>4. CASE new = row
    BY <2>1, <2>4
  <2>. QED BY <2>2, <2>3, <2>4
<1>3. /\ req[r].at = "idle"
      /\ UNCHANGED <<clock, row, tokens, stamps, secrets, changes, strikes>>
  BY DEF EnableTotp, DisableTotp, Connects, history
<1>4. new.secret \in 0..secrets'
  BY <1>2, <1>3, SecretsStay, SecurityAssumption DEF SecInv, TypeInv
<1>. QED BY <1>1, <1>2, <1>3, <1>4, SecretsStay, BeginStep DEF Operations, Steps, Waiting

\* A request gets a connection of the second pool.
LEMMA BorrowInv ==
  ASSUME SecInv, NEW r \in Request, Borrow(r)
  PROVE  SecInv'
<1> DEFINE step == IF req[r].at = "audit" THEN "auditing" ELSE "failing"
           s == [req[r] EXCEPT !.at = step]
<1>1. Put(r, s) /\ UNCHANGED <<clock, row, tokens, stamps, secrets, history>>
      /\ req[r].at \in {"audit", "fail"}
  BY DEF Borrow, MayBorrow, Goto, Waiting
<1>2. /\ step \in {"auditing", "failing"} /\ step \in Steps
      /\ (step = "failing" <=> req[r].at = "fail")
  BY <1>1 DEF Steps, Holding
<1>3. /\ s \in RequestRecord /\ s.at = step /\ s.kind = req[r].kind
      /\ s.writes = req[r].writes /\ s.stamp = req[r].stamp
  <2> HIDE DEF step
  <2>1. req[r] \in RequestRecord
    BY DEF SecInv, TypeInv
  <2>. QED BY <1>2, <2>1 DEF RequestRecord
<1> HIDE DEF s, step
<1>4. req'[r] = s
  BY <1>1, PutReq DEF SecInv
<1>5. RequestOK(r)' /\ ~Pending(r)'
  <2>1. RequestOK(r) /\ ~Pending(r)
    BY <1>1 DEF SecInv, Pending
  <2>2. ~Pending(r)' /\ ~Entering(r)'
    BY <1>2, <1>3, <1>4 DEF Pending, Entering
  <2>3. WritesOK(r)'
    BY <1>1, <1>3, <1>4, <2>1, <2>2 DEF RequestOK, WritesOK
  <2>. QED BY <1>2, <1>3, <1>4, <2>2, <2>3 DEF RequestOK, PendingOK, EnteringOK
<1>6. Bounded'
  <2>1. /\ Cardinality(Failing) \in Nat /\ Cardinality(Failing)' \in Nat
        /\ Cardinality(Sweeping) \in Nat /\ Cardinality(Sweeping)' \in Nat
        /\ Cardinality(Failing)' <= Cardinality(Failing)
        /\ Cardinality(Sweeping)' <= Cardinality(Sweeping)
    BY <1>1, <1>2, <1>3, Counts DEF SecInv
  <2>. QED BY <1>1, <2>1, SecurityAssumption DEF SecInv, Bounded, TypeInv, Row
<1>. QED BY <1>1, <1>3, <1>5, <1>6, SecretsStay, RequestStep DEF history

\* The lock that a number of failures deserves grows with it.
LEMMA LockoutGrows ==
  ASSUME NEW f \in Nat, f + 1 <= MaxStrikes
  PROVE  /\ Lockout(f + 1) \in Nat
         /\ f + 1 >= MaxFailures => Lockout(f + 1) > 0
         /\ f + 1 < MaxFailures => Lockout(f + 1) = 0
         /\ f >= MaxFailures => Lockout(f) \in Nat /\ Lockout(f) <= Lockout(f + 1)
<1>1. /\ MaxFailures \in Nat \ {0} /\ LockBase \in Nat \ {0} /\ LockMax \in Nat \ {0}
      /\ MaxStrikes \in Nat
  BY SecurityAssumption
<1>2. CASE f + 1 < MaxFailures
  BY <1>1, <1>2 DEF Lockout
<1>3. CASE f + 1 >= MaxFailures
  <2> DEFINE n == f + 1 - MaxFailures
             x == 2 ^ n
             y == 2 ^ (n - 1)
             long == LockBase * x
             short == LockBase * y
  <2>1. n \in 0..MaxStrikes /\ n \in Nat
    BY <1>1, <1>3
  <2>2. x \in Nat \ {0}
    BY <2>1, PowersOfTwo
  <2>3. Lockout(f + 1) = IF long < LockMax THEN long ELSE LockMax
    BY <1>1, <1>3 DEF Lockout
  <2>4. ASSUME f >= MaxFailures
        PROVE  /\ y \in Nat \ {0} /\ y <= x
               /\ Lockout(f) = IF short < LockMax THEN short ELSE LockMax
    <3>1. n - 1 \in 0..MaxStrikes /\ n - 1 + 1 = n /\ n - 1 = f - MaxFailures
      BY <1>1, <2>1, <2>4
    <3>2. y \in Nat \ {0} /\ y <= 2 ^ (n - 1 + 1)
      BY <3>1, PowersOfTwo
    <3>3. y = 2 ^ (f - MaxFailures)
      BY <3>1
    <3>4. Lockout(f) = LET backoff == LockBase * 2 ^ (f - MaxFailures)
                       IN IF backoff < LockMax THEN backoff ELSE LockMax
      BY <1>1, <2>4 DEF Lockout
    <3>. QED BY <3>1, <3>2, <3>3, <3>4
  <2> HIDE DEF x, y, n
  <2>5. long \in Nat \ {0}
    BY <1>1, <2>2
  <2>6. ASSUME f >= MaxFailures PROVE short \in Nat /\ short <= long
    BY <1>1, <2>2, <2>4, <2>6
  <2> HIDE DEF long, short
  <2>. QED BY <1>1, <1>3, <2>3, <2>4, <2>5, <2>6
<1>. QED BY <1>1, <1>2, <1>3

\* A failure is counted in place, and the lock it sets is what the count
\* deserves.
LEMMA Counted ==
  ASSUME SecInv, NEW r \in Request, CountFailure(r)
  PROVE  /\ row' \in Row /\ row'.fails = row.fails + 1 /\ row.fails + 1 <= MaxStrikes
         /\ row'.locked = IF row.fails + 1 >= MaxFailures
                          THEN clock + Lockout(row.fails + 1) ELSE row.locked
         /\ row'.stamp = row.stamp /\ row'.secret = row.secret
         /\ Cardinality(Failing) \in Nat /\ Cardinality(Failing)' \in Nat
         /\ Cardinality(Failing)' + 1 = Cardinality(Failing)
         /\ Cardinality(Sweeping) \in Nat /\ Cardinality(Sweeping)' \in Nat
         /\ Cardinality(Sweeping)' <= Cardinality(Sweeping)
<1> DEFINE failed == row.fails + 1
           length == Lockout(failed)
           locked == IF length > 0 THEN clock + length ELSE row.locked
<1>1. req[r].at = "failing" /\ Put(r, Idle)
      /\ row' = [row EXCEPT !.fails = failed,
                        !.locked = IF length > 0 THEN clock + length ELSE @]
  BY DEF CountFailure, End
<1>2. /\ row \in Row /\ row.fails \in Nat /\ row.locked \in Nat /\ clock \in Nat
      /\ MaxStrikes \in Nat /\ MaxFailures \in Nat
  BY SecurityAssumption DEF SecInv, TypeInv, Row
<1>3. /\ Cardinality(Failing) \in Nat /\ Cardinality(Failing)' \in Nat
      /\ Cardinality(Failing)' + 1 = Cardinality(Failing)
      /\ Cardinality(Sweeping) \in Nat /\ Cardinality(Sweeping)' \in Nat
      /\ Cardinality(Sweeping)' <= Cardinality(Sweeping)
  BY <1>1, IdleRecord, Counts DEF SecInv
<1>4. failed \in Nat /\ failed <= MaxStrikes
  BY <1>2, <1>3 DEF SecInv, Bounded
<1>5. /\ length \in Nat /\ (failed >= MaxFailures <=> length > 0)
  BY <1>2, <1>4, LockoutGrows
<1>6. row' = [row EXCEPT !.fails = failed, !.locked = locked] /\ locked \in Nat
  BY <1>1, <1>2, <1>5
<1>7. locked = IF failed >= MaxFailures THEN clock + length ELSE row.locked
  BY <1>5
<1> HIDE DEF failed, length, locked
<1>8. /\ row' \in Row /\ row'.fails = failed /\ row'.locked = locked
      /\ row'.stamp = row.stamp /\ row'.secret = row.secret
  BY <1>2, <1>4, <1>6 DEF Row
<1>. QED BY <1>3, <1>4, <1>7, <1>8 DEF failed, length

\* A counted failure keeps the invariant.
LEMMA CountFailureInv ==
  ASSUME SecInv, NEW r \in Request, CountFailure(r)
  PROVE  SecInv'
<1>1. /\ Put(r, Idle) /\ req'[r] = Idle /\ \A q \in Request : q # r => req'[q] = req[q]
      /\ req' \in [Request -> RequestRecord]
      /\ strikes' = strikes + 1
      /\ UNCHANGED <<clock, tokens, stamps, secrets, changes, proven>>
  BY IdleRecord, PutReq DEF CountFailure, End, SecInv
<1>2. /\ row.fails \in Nat /\ clock \in Nat /\ stamps \in Nat
      /\ MaxStrikes \in Nat /\ MaxFailures \in Nat /\ MaxStamps \in Nat
  BY SecurityAssumption DEF SecInv, TypeInv, Row
<1>3. TypeInv'
  BY <1>1, Counted DEF SecInv, TypeInv, tokens
<1>4. ASSUME NEW q \in Request PROVE RequestOK(q)'
  <2>1. CASE q = r
    BY <1>1, <2>1, IdleRecord
       DEF RequestOK, WritesOK, PendingOK, EnteringOK, Pending, Entering
  <2>2. CASE q # r
    <3>1. req'[q] = req[q] /\ RequestOK(q)
      BY <1>1, <2>2 DEF SecInv
    <3>. QED BY <1>1, <3>1, Counted
         DEF RequestOK, WritesOK, PendingOK, EnteringOK, Pending, Entering, tokens
  <2>. QED BY <2>1, <2>2
<1>5. StampsOK'
  <2>1. \A q \in Request : Pending(q)' => Pending(q) /\ req'[q].stamp = req[q].stamp
    BY <1>1, IdleRecord DEF Pending
  <2>2. \A p, q \in Request : Pending(p) /\ Pending(q) /\ p # q => req[p].stamp # req[q].stamp
    BY DEF SecInv, StampsOK
  <2>. QED BY <1>1, <2>1, <2>2, Counted DEF SecInv, StampsOK, tokens
<1>6. Bounded'
  BY <1>1, <1>2, Counted DEF SecInv, Bounded
<1>7. LockOK'
  <2>1. Lockout(row.fails + 1) \in Nat /\ row'.fails = row.fails + 1
    BY <1>2, Counted, LockoutGrows
  <2>2. row'.fails >= MaxFailures => row'.locked = clock + Lockout(row.fails + 1)
    BY Counted
  <2>3. Lockout(row'.fails) = Lockout(row.fails + 1)
    BY <2>1
  <2>4. row'.fails >= MaxFailures => row'.locked <= clock' + Lockout(row'.fails)
    BY <1>1, <1>2, <2>1, <2>2, <2>3
  <2>. QED BY <2>4 DEF LockOK
<1>8. FailuresAreCounted' /\ SweptStayDead' /\ AccessDiesWithCredentials'
  BY <1>1, Counted
     DEF SecInv, FailuresAreCounted, SweptStayDead, AccessDiesWithCredentials, tokens
<1>. QED BY <1>3, <1>4, <1>5, <1>6, <1>7, <1>8 DEF SecInv

\* A sweep takes a new stamp, with all the tokens there are.
LEMMA SweepInv ==
  ASSUME SecInv, NEW r \in Request, Sweep(r)
  PROVE  SecInv'
<1> DEFINE stamp == stamps + 1
           w == Stamped(req[r].writes)
           s == [req[r] EXCEPT !.at = "flush", !.stamp = stamp, !.writes = w, !.swept = live]
<1>1. /\ req[r].at = "sweep" /\ stamps' = stamp /\ Put(r, s)
      /\ UNCHANGED <<clock, row, tokens, secrets, history>>
  BY DEF Sweep
<1>2. /\ req[r] \in RequestRecord /\ req[r].writes \in Writes /\ RequestOK(r)
      /\ req[r].kind \in {"password", "disable"} /\ stamp \in Nat /\ stamps \in Nat
      /\ live \subseteq Token
  BY <1>1 DEF SecInv, TypeInv, RequestRecord, RequestOK
<1>3. /\ w \in Writes /\ DOMAIN w = DOMAIN req[r].writes \cup {"stamp"}
      /\ w["stamp"] = stamp
      /\ \A f \in DOMAIN w : f # "stamp" => w[f] = req[r].writes[f]
  <2>1. PICK D \in SUBSET Columns : req[r].writes \in [D -> Value]
    BY <1>2 DEF Writes
  <2> DEFINE E == D \cup {"stamp"}
  <2>2. w = [f \in E |-> IF f = "stamp" THEN stamp ELSE req[r].writes[f]]
    BY <2>1 DEF Stamped
  <2>3. w \in [E -> Value] /\ E \subseteq Columns
    BY <1>2, <2>1, <2>2 DEF Columns, Value
  <2> HIDE DEF w
  <2>. QED BY <2>1, <2>2, <2>3 DEF Writes
<1>4. /\ s \in RequestRecord /\ s.at = "flush" /\ s.kind = req[r].kind /\ s.writes = w
      /\ s.stamp = stamp /\ s.swept = live
  <2> HIDE DEF w, stamp
  <2>1. "flush" \in Steps
    BY DEF Steps
  <2>. QED BY <1>2, <1>3, <2>1 DEF RequestRecord
<1>5. req'[r] = s /\ (\A q \in Request : q # r => req'[q] = req[q])
      /\ req' \in [Request -> RequestRecord]
  BY <1>1, <1>4, PutReq DEF SecInv
<1> HIDE DEF s, w
<1>6. TypeInv'
  <2>1. changes \subseteq 1..stamps'
    BY <1>1, <1>2 DEF SecInv, TypeInv
  <2>. QED BY <1>1, <1>2, <1>5, <2>1 DEF SecInv, TypeInv, tokens, history
<1>7. ASSUME NEW q \in Request, q # r PROVE RequestOK(q)'
  <2>1. req'[q] = req[q] /\ RequestOK(q) /\ (Pending(q)' <=> Pending(q))
        /\ (Entering(q)' <=> Entering(q))
    BY <1>5, <1>7 DEF SecInv, Pending, Entering
  <2>2. PendingOK(q)'
    BY <1>1, <1>2, <2>1 DEF RequestOK, PendingOK, tokens, history
  <2>. QED BY <1>1, <2>1, <2>2 DEF RequestOK, WritesOK, EnteringOK, tokens, history
<1>8. RequestOK(r)'
  <2>1. Pending(r)' /\ ~Entering(r)'
    BY <1>2, <1>4, <1>5 DEF Pending, Entering
  <2>2. WritesOK(r)'
    BY <1>1, <1>2, <1>3, <1>4, <1>5, <2>1 DEF RequestOK, WritesOK
  <2>3. PendingOK(r)'
    <3>1. stamp \notin changes /\ stamp \in 1..stamps'
      BY <1>1, <1>2 DEF SecInv, TypeInv
    <3>. QED BY <1>1, <1>3, <1>4, <1>5, <3>1 DEF PendingOK, tokens, history
  <2>. QED BY <1>4, <1>5, <2>1, <2>2, <2>3 DEF RequestOK, EnteringOK
<1>9. StampsOK'
  <2>1. \A q \in Request : q # r /\ Pending(q)' =>
          Pending(q) /\ req'[q].stamp = req[q].stamp /\ req[q].stamp # stamp
    BY <1>1, <1>2, <1>5 DEF Pending, SecInv, RequestOK, PendingOK
  <2>2. \A p, q \in Request : Pending(p) /\ Pending(q) /\ p # q => req[p].stamp # req[q].stamp
    BY DEF SecInv, StampsOK
  <2>3. req'[r].stamp = stamp
    BY <1>4, <1>5
  <2> HIDE DEF stamp
  <2>4. \A p, q \in Request : Pending(p)' /\ Pending(q)' /\ p # q =>
          req'[p].stamp # req'[q].stamp
    BY <2>1, <2>2, <2>3
  <2>. QED BY <1>1, <2>4 DEF SecInv, StampsOK, tokens, history
<1>10. Bounded'
  <2>1. /\ Cardinality(Failing) \in Nat /\ Cardinality(Failing)' \in Nat
        /\ Cardinality(Sweeping) \in Nat /\ Cardinality(Sweeping)' \in Nat
        /\ Cardinality(Failing)' <= Cardinality(Failing)
        /\ Cardinality(Sweeping)' + 1 = Cardinality(Sweeping)
    BY <1>1, <1>4, Counts DEF SecInv
  <2>. QED BY <1>1, <1>2, <2>1, SecurityAssumption DEF SecInv, Bounded, TypeInv, Row
<1>11. LockOK' /\ FailuresAreCounted' /\ SweptStayDead' /\ AccessDiesWithCredentials'
  BY <1>1 DEF SecInv, LockOK, FailuresAreCounted, SweptStayDead, AccessDiesWithCredentials,
     Lockout, tokens, history
<1>. QED BY <1>6, <1>7, <1>8, <1>9, <1>10, <1>11 DEF SecInv

\* A flush takes the row lock.
LEMMA FlushInv ==
  ASSUME SecInv, NEW r \in Request, Flush(r)
  PROVE  SecInv'
<1> DEFINE s == [req[r] EXCEPT !.at = "commit"]
<1>1. /\ req[r].at = "flush" /\ Put(r, s)
      /\ UNCHANGED <<clock, row, tokens, stamps, secrets, history>>
  BY DEF Flush, Goto
<1>2. /\ s \in RequestRecord /\ s.at = "commit" /\ s.kind = req[r].kind
      /\ s.writes = req[r].writes /\ s.stamp = req[r].stamp /\ s.swept = req[r].swept
      /\ s.snap = req[r].snap /\ s.read = req[r].read
  <2>1. req[r] \in RequestRecord /\ "commit" \in Steps
    BY DEF SecInv, TypeInv, Steps
  <2>. QED BY <2>1 DEF RequestRecord
<1> HIDE DEF s
<1>3. req'[r] = s
  BY <1>1, PutReq DEF SecInv
<1>4. RequestOK(r)' /\ (Pending(r)' <=> Pending(r))
  <2>1. RequestOK(r) /\ (Pending(r)' <=> Pending(r)) /\ (Entering(r)' <=> Entering(r))
    BY <1>1, <1>2, <1>3 DEF SecInv, Pending, Entering
  <2>. QED BY <1>1, <1>2, <1>3, <2>1
       DEF RequestOK, WritesOK, PendingOK, EnteringOK, tokens, history
<1>5. Bounded'
  <2>1. /\ Cardinality(Failing) \in Nat /\ Cardinality(Failing)' \in Nat
        /\ Cardinality(Sweeping) \in Nat /\ Cardinality(Sweeping)' \in Nat
        /\ Cardinality(Failing)' <= Cardinality(Failing)
        /\ Cardinality(Sweeping)' <= Cardinality(Sweeping)
    BY <1>1, <1>2, Counts DEF SecInv
  <2>. QED BY <1>1, <2>1, SecurityAssumption DEF SecInv, Bounded, TypeInv, Row
<1>. QED BY <1>1, <1>2, <1>4, <1>5, SecretsStay, RequestStep DEF history

\* A lock has a length for every count that can be reached.
LEMMA LockoutType ==
  ASSUME NEW f \in 0..MaxStrikes
  PROVE  Lockout(f) \in Nat
<1>1. MaxFailures \in Nat \ {0} /\ MaxStrikes \in Nat
  BY SecurityAssumption
<1>2. CASE f = 0
  BY <1>1, <1>2 DEF Lockout
<1>3. CASE f # 0
  <2>1. f - 1 \in Nat /\ f - 1 + 1 <= MaxStrikes /\ f - 1 + 1 = f
    BY <1>1, <1>3
  <2>2. Lockout(f - 1 + 1) \in Nat
    BY <2>1, LockoutGrows
  <2>. QED BY <2>1, <2>2
<1>. QED BY <1>2, <1>3

\* What a commit leaves in the row.
LEMMA CommitWrites ==
  ASSUME SecInv, NEW r \in Request, Commit(r)
  PROVE  /\ row' \in Row /\ row'.secret <= secrets
         /\ row'.fails = (IF "fails" \in DOMAIN req[r].writes THEN 0 ELSE row.fails)
         /\ row'.locked = row.locked \/ (row'.locked = 0 /\ req[r].kind = "login")
         /\ row'.stamp = (IF Pending(r) THEN req[r].stamp ELSE row.stamp)
         /\ req' \in [Request -> RequestRecord] /\ req'[r] = Idle
         /\ \A q \in Request : q # r => req'[q] = req[q]
<1> DEFINE w == req[r].writes
<1>1. /\ req[r].at = "commit" /\ row' = Written(w, row) /\ Put(r, Idle)
      /\ RequestOK(r) /\ WritesOK(r) /\ row \in Row /\ req[r] \in RequestRecord
      /\ secrets \in Nat /\ row.secret <= secrets
  BY DEF Commit, End, SecInv, TypeInv, RequestOK
<1>2. /\ "pw" \in DOMAIN w => w["pw"] \in Password
      /\ "fails" \in DOMAIN w => w["fails"] = 0
      /\ "locked" \in DOMAIN w => w["locked"] = 0 /\ req[r].kind = "login"
      /\ "active" \in DOMAIN w => w["active"] \in BOOLEAN
      /\ "totp" \in DOMAIN w => w["totp"] \in BOOLEAN
      /\ "secret" \in DOMAIN w => w["secret"] \in Nat /\ w["secret"] <= secrets
      /\ "stamp" \in DOMAIN w => Pending(r) /\ w["stamp"] = req[r].stamp /\ w["stamp"] \in Nat
      /\ Pending(r) => "stamp" \in DOMAIN w
  BY <1>1 DEF WritesOK, RequestRecord, RequestOK, PendingOK
<1> HIDE DEF w
<1>3. /\ row' \in Row
      /\ \A f \in Columns : row'[f] = IF f \in DOMAIN w THEN w[f] ELSE row[f]
  BY <1>1, <1>2, WrittenRow
<1>4. /\ row'.secret <= secrets
      /\ row'.fails = (IF "fails" \in DOMAIN w THEN 0 ELSE row.fails)
      /\ row'.locked = row.locked \/ (row'.locked = 0 /\ req[r].kind = "login")
      /\ row'.stamp = (IF Pending(r) THEN req[r].stamp ELSE row.stamp)
  BY <1>1, <1>2, <1>3 DEF Columns
<1>. QED BY <1>1, <1>3, <1>4, IdleRecord, PutReq DEF SecInv, w

\* The commit of a login, of a change that swept, and of any other change.
LEMMA CommitInv ==
  ASSUME SecInv, NEW r \in Request, Commit(r)
  PROVE  SecInv'
<1>1. /\ req[r].at = "commit" /\ Put(r, Idle) /\ RequestOK(r) /\ req[r] \in RequestRecord
      /\ UNCHANGED <<clock, stamps, secrets, proven>>
      /\ strikes' = IF "fails" \in DOMAIN req[r].writes THEN 0 ELSE strikes
      /\ stamps \in Nat
  BY DEF Commit, End, SecInv, TypeInv
<1> DEFINE token == [read |-> req[r].read, after |-> stamps]
           pass == [stamp |-> req[r].snap.stamp, read |-> req[r].read]
<1>2. \/ /\ Entering(r) /\ ~Pending(r)
         /\ live' = live \cup {token} /\ access' = access \cup {pass}
         /\ UNCHANGED changes
      \/ /\ Pending(r) /\ ~Entering(r)
         /\ live' = live \ req[r].swept /\ changes' = changes \cup {req[r].stamp}
         /\ UNCHANGED access
      \/ ~Pending(r) /\ ~Entering(r) /\ UNCHANGED <<live, access, changes>>
  BY <1>1 DEF Commit, Pending, Entering
<1>3. token \in Token /\ token.after = stamps
  BY <1>1 DEF RequestRecord, Token
<1>4. pass.stamp = req[r].snap.stamp /\ pass.read = req[r].read
  OBVIOUS
<1> HIDE DEF token, pass
<1>5. Pending(r) => /\ req[r].stamp \in 1..stamps /\ req[r].stamp \notin changes
                    /\ \A t \in live : t \notin req[r].swept => t.after >= req[r].stamp
  BY <1>1 DEF RequestOK, PendingOK
<1>6. ~Pending(r)' /\ ~Entering(r)'
  BY CommitWrites, IdleRecord DEF Pending, Entering
<1>7. ASSUME NEW q \in Request, q # r
      PROVE  /\ req'[q] = req[q] /\ RequestOK(q)
             /\ (Pending(q)' <=> Pending(q)) /\ (Entering(q)' <=> Entering(q))
  BY <1>7, CommitWrites DEF SecInv, Pending, Entering
<1>8. /\ row' \in Row /\ changes \subseteq 1..stamps /\ row.stamp \in changes \cup {0}
      /\ row'.stamp = (IF Pending(r) THEN req[r].stamp ELSE row.stamp)
      /\ \A t \in live : t.after \in Nat
  BY CommitWrites DEF SecInv, StampsOK, TypeInv, Token
<1>9. TypeInv'
  <2>1. live' \subseteq Token /\ changes' \subseteq 1..stamps
    BY <1>2, <1>3, <1>5 DEF SecInv, TypeInv
  <2>. QED BY <1>1, <2>1, CommitWrites DEF SecInv, TypeInv
<1>10. ASSUME NEW q \in Request PROVE RequestOK(q)'
  <2>1. CASE q = r
    BY <1>6, <2>1, CommitWrites, IdleRecord DEF RequestOK, WritesOK, PendingOK, EnteringOK
  <2>2. CASE q # r
    <3>1. PendingOK(q)'
      <4> SUFFICES ASSUME Pending(q)
                   PROVE  /\ "stamp" \in DOMAIN req'[q].writes
                          /\ req'[q].stamp \in 1..stamps' /\ req'[q].stamp \notin changes'
                          /\ \A t \in live' : t \notin req'[q].swept => t.after >= req'[q].stamp
        BY <1>7, <2>2 DEF PendingOK
      <4>1. /\ "stamp" \in DOMAIN req[q].writes
            /\ req[q].stamp \in 1..stamps /\ req[q].stamp \notin changes
            /\ \A t \in live : t \notin req[q].swept => t.after >= req[q].stamp
        BY <1>7, <2>2 DEF RequestOK, PendingOK
      <4>2. Pending(r) => req[q].stamp # req[r].stamp
        BY <2>2 DEF SecInv, StampsOK
      <4>3. req[q].stamp \notin changes'
        BY <1>2, <4>1, <4>2
      <4>4. \A t \in live' : t \notin req[q].swept => t.after >= req[q].stamp
        BY <1>1, <1>2, <1>3, <4>1
      <4>. QED BY <1>1, <1>7, <2>2, <4>1, <4>3, <4>4
    <3>2. EnteringOK(q)'
      <4> SUFFICES ASSUME Entering(q)
                   PROVE  /\ req[q].snap.stamp \in changes' \cup {0}
                          /\ req[q].snap.stamp = row'.stamp =>
                               req[q].read = Cardinality(changes')
        BY <1>7, <2>2 DEF EnteringOK
      <4>1. /\ req[q].snap.stamp \in changes \cup {0}
            /\ req[q].snap.stamp = row.stamp => req[q].read = Cardinality(changes)
        BY <1>7, <2>2 DEF RequestOK, EnteringOK
      <4>2. CASE Pending(r)
        BY <1>2, <1>5, <1>8, <4>1, <4>2
      <4>3. CASE ~Pending(r)
        BY <1>2, <1>8, <4>1, <4>3
      <4>. QED BY <4>2, <4>3
    <3>3. WritesOK(q)'
      BY <1>1, <1>7, <2>2 DEF RequestOK, WritesOK
    <3>. QED BY <1>7, <2>2, <3>1, <3>2, <3>3 DEF RequestOK
  <2>. QED BY <2>1, <2>2
<1>11. StampsOK'
  <2>1. \A p, q \in Request : Pending(p)' /\ Pending(q)' /\ p # q => req'[p].stamp # req'[q].stamp
    BY <1>6, <1>7 DEF SecInv, StampsOK
  <2>2. row'.stamp \in changes' \cup {0} /\ (row'.stamp = 0 => changes' = {})
    BY <1>2, <1>5, <1>8 DEF SecInv, StampsOK
  <2>3. \A a \in access' : a.stamp \in changes' \cup {0}
    <3>1. Entering(r) => req[r].snap.stamp \in changes \cup {0}
      BY <1>1 DEF RequestOK, EnteringOK
    <3>. QED BY <1>2, <1>4, <3>1 DEF SecInv, StampsOK
  <2>. QED BY <2>1, <2>2, <2>3 DEF StampsOK
<1>12. Bounded' /\ row.fails \in 0..MaxStrikes
  <2>1. /\ Cardinality(Failing) \in Nat /\ Cardinality(Failing)' \in Nat
        /\ Cardinality(Sweeping) \in Nat /\ Cardinality(Sweeping)' \in Nat
        /\ Cardinality(Failing)' <= Cardinality(Failing)
        /\ Cardinality(Sweeping)' <= Cardinality(Sweeping)
    BY <1>1, IdleRecord, Counts DEF SecInv
  <2>2. row.fails \in Nat /\ MaxStrikes \in Nat /\ MaxStamps \in Nat
    BY SecurityAssumption DEF SecInv, TypeInv, Row
  <2>3. row'.fails \in {0, row.fails}
    BY CommitWrites
  <2>. QED BY <1>1, <2>1, <2>2, <2>3 DEF SecInv, Bounded
<1>13. LockOK'
  <2>1. /\ row.locked \in Nat /\ clock \in Nat /\ MaxFailures \in Nat \ {0}
        /\ Lockout(row.fails) \in Nat
    BY <1>12, SecurityAssumption, LockoutType DEF SecInv, TypeInv, Row
  <2>2. row'.locked \in {0, row.locked} /\ row'.fails \in {0, row.fails}
    BY CommitWrites
  <2>3. row.fails >= MaxFailures => row.locked <= clock + Lockout(row.fails)
    BY DEF SecInv, LockOK
  <2>4. row'.fails >= MaxFailures => row'.locked <= clock + Lockout(row'.fails)
    <3>1. CASE row'.fails = 0
      BY <2>1, <3>1
    <3>2. CASE row'.fails = row.fails
      <4>1. Lockout(row'.fails) = Lockout(row.fails)
        BY <3>2
      <4>. QED BY <2>1, <2>2, <2>3, <3>2, <4>1
    <3>. QED BY <2>2, <3>1, <3>2
  <2>. QED BY <1>1, <2>4 DEF LockOK
<1>14. FailuresAreCounted'
  BY <1>1, CommitWrites DEF SecInv, FailuresAreCounted
<1>15. SweptStayDead'
  <2>1. \A t \in live, c \in changes : t.after >= c
    BY DEF SecInv, SweptStayDead
  <2>2. \A c \in changes : stamps >= c
    BY <1>1, <1>8
  <2>3. CASE Entering(r)
    BY <1>2, <1>3, <2>1, <2>2, <2>3 DEF SweptStayDead
  <2>4. CASE ~Entering(r)
    BY <1>2, <1>5, <2>1, <2>4 DEF SweptStayDead
  <2>. QED BY <2>3, <2>4
<1>16. AccessDiesWithCredentials'
  <2>1. \A a \in access : /\ a.stamp \in changes \cup {0}
                          /\ a.stamp = row.stamp => a.read = Cardinality(changes)
    BY DEF SecInv, AccessDiesWithCredentials, StampsOK
  <2>2. Entering(r) => (req[r].snap.stamp = row.stamp => req[r].read = Cardinality(changes))
    BY <1>1 DEF RequestOK, EnteringOK
  <2>3. CASE Pending(r)
    BY <1>2, <1>5, <1>8, <2>1, <2>3 DEF AccessDiesWithCredentials
  <2>4. CASE ~Pending(r)
    BY <1>2, <1>4, <1>8, <2>1, <2>2, <2>4 DEF AccessDiesWithCredentials
  <2>. QED BY <2>3, <2>4
<1>. QED BY <1>9, <1>10, <1>11, <1>12, <1>13, <1>14, <1>15, <1>16 DEF SecInv

\* Time passes: a lock only comes closer to its end.
LEMMA TickInv ==
  ASSUME SecInv, Tick
  PROVE  SecInv'
<1>1. /\ clock' = clock + 1 /\ clock' \in 0..MaxClock /\ clock \in Nat
      /\ UNCHANGED <<row, req, tokens, stamps, secrets, history>>
  BY SecurityAssumption DEF Tick, SecInv, TypeInv
<1>2. TypeInv'
  BY <1>1 DEF SecInv, TypeInv, tokens, history
<1>3. \A r \in Request : RequestOK(r)'
  BY <1>1 DEF SecInv, RequestOK, WritesOK, PendingOK, EnteringOK, Pending, Entering,
     tokens, history
<1>4. StampsOK' /\ Bounded'
  BY <1>1 DEF SecInv, StampsOK, Bounded, Failing, Sweeping, Pending, tokens, history
<1>5. LockOK'
  <2>1. row.fails \in 0..MaxStrikes
    <3>1. Cardinality(Failing) \in Nat
      BY FS_Subset, FS_CardinalityType, SecurityAssumption DEF Failing
    <3>. QED BY <3>1, SecurityAssumption DEF SecInv, Bounded, TypeInv, Row
  <2>2. Lockout(row.fails) \in Nat /\ row.locked \in Nat /\ row' = row
    BY <1>1, <2>1, LockoutType DEF SecInv, TypeInv, Row
  <2>3. row.fails >= MaxFailures => row.locked <= clock' + Lockout(row.fails)
    BY <1>1, <2>2 DEF SecInv, LockOK
  <2>. QED BY <2>2, <2>3 DEF LockOK
<1>6. FailuresAreCounted' /\ SweptStayDead' /\ AccessDiesWithCredentials'
  BY <1>1 DEF SecInv, FailuresAreCounted, SweptStayDead, AccessDiesWithCredentials,
     tokens, history
<1>. QED BY <1>2, <1>3, <1>4, <1>5, <1>6 DEF SecInv

\* A step that changes nothing.
LEMMA StutterInv ==
  ASSUME SecInv, UNCHANGED vars
  PROVE  SecInv'
<1> USE DEF vars, tokens, history
<1>1. TypeInv'
  BY DEF SecInv, TypeInv
<1>2. \A r \in Request : RequestOK(r)'
  BY DEF SecInv, RequestOK, WritesOK, PendingOK, EnteringOK, Pending, Entering
<1>3. StampsOK' /\ Bounded' /\ LockOK'
  BY DEF SecInv, StampsOK, Bounded, Failing, Sweeping, Pending, LockOK, Lockout
<1>4. FailuresAreCounted' /\ SweptStayDead' /\ AccessDiesWithCredentials'
  BY DEF SecInv, FailuresAreCounted, SweptStayDead, AccessDiesWithCredentials
<1>. QED BY <1>1, <1>2, <1>3, <1>4 DEF SecInv

\* Every step keeps the invariant.
LEMMA NextInv ==
  ASSUME SecInv, [Next]_vars
  PROVE  SecInv'
<1>1. CASE \E r \in Request : Borrow(r) \/ CountFailure(r) \/ Sweep(r) \/ Flush(r) \/ Commit(r)
  BY <1>1, BorrowInv, CountFailureInv, SweepInv, FlushInv, CommitInv
<1>2. CASE \E r \in Request : Audit(r) \/ Abort(r)
  BY <1>2, EndStep DEF Audit, Abort
<1>3. CASE \E r \in Request, password \in Password, code \in Codes : Login(r, password, code)
  BY <1>3, LoginInv
<1>4. CASE \E r \in Request : ChangePassword(r) \/ DisableUser(r) \/ EnableUser(r)
                              \/ SetupTotp(r)
  BY <1>4, ChangePasswordInv, DisableUserInv, EnableUserInv, SetupTotpInv
<1>5. CASE \E r \in Request, code \in Codes : EnableTotp(r, code) \/ DisableTotp(r, code)
  BY <1>5, TotpInv
<1>6. CASE Tick
  BY <1>6, TickInv
<1>7. CASE Over \/ UNCHANGED vars
  BY <1>7, StutterInv DEF Over
<1>. QED BY <1>1, <1>2, <1>3, <1>4, <1>5, <1>6, <1>7 DEF Next, Step

\* The initial state.
LEMMA InitInv == Init => SecInv
<1> SUFFICES ASSUME Init PROVE SecInv
  OBVIOUS
<1>1. req \in [Request -> RequestRecord] /\ \A r \in Request : req[r] = Idle
  BY IdleRecord DEF Init
<1>2. /\ row \in Row /\ row.fails = 0 /\ row.stamp = 0 /\ row.secret = 0
  BY DEF Init, Row, Password, None
<1>3. TypeInv
  BY <1>1, <1>2, SecurityAssumption DEF Init, TypeInv
<1>4. \A r \in Request : RequestOK(r)
  BY <1>1, IdleRecord DEF RequestOK, WritesOK, PendingOK, EnteringOK, Pending, Entering
<1>5. StampsOK
  BY <1>1, <1>2, IdleRecord DEF Init, StampsOK, Pending
<1>6. Bounded
  <2>1. Failing = {} /\ Sweeping = {}
    BY <1>1, IdleRecord DEF Failing, Sweeping
  <2>. QED BY <1>2, <2>1, FS_EmptySet, SecurityAssumption DEF Init, Bounded
<1>7. LockOK /\ FailuresAreCounted /\ SweptStayDead /\ AccessDiesWithCredentials
  BY <1>2, SecurityAssumption
     DEF Init, LockOK, FailuresAreCounted, SweptStayDead, AccessDiesWithCredentials
<1>. QED BY <1>3, <1>4, <1>5, <1>6, <1>7 DEF SecInv

-----------------------------------------------------------------------------
(* Theorems.                                                                *)

\* The invariant holds in every state, whatever the requests are.
THEOREM AccountHolds == Spec => []SecInv
BY InitInv, NextInv, PTL DEF Spec

\* The invariant bounds what the type invariant bounds.
LEMMA TypeFollows == SecInv => TypeOK
<1> SUFFICES ASSUME SecInv PROVE TypeOK
  OBVIOUS
<1>1. /\ Cardinality(Failing) \in Nat /\ Cardinality(Sweeping) \in Nat
  BY FS_Subset, FS_CardinalityType, SecurityAssumption DEF Failing, Sweeping
<1>2. row.fails \in Nat /\ stamps \in Nat /\ MaxStrikes \in Nat /\ MaxStamps \in Nat
  BY SecurityAssumption DEF SecInv, TypeInv, Row
<1>3. row.fails <= MaxStrikes /\ stamps \in 0..MaxStamps
  BY <1>1, <1>2 DEF SecInv, Bounded
<1>4. ASSUME NEW r \in Request
      PROVE  /\ req[r].at \in Steps /\ req[r].kind \in Operations \cup {"none"}
             /\ DOMAIN req[r].writes \subseteq DOMAIN row
  <2>1. req[r] \in RequestRecord
    BY DEF SecInv, TypeInv
  <2>2. req[r].at \in Steps /\ req[r].kind \in Operations \cup {"none"}
        /\ req[r].writes \in Writes
    BY <2>1 DEF RequestRecord
  <2>3. DOMAIN req[r].writes \subseteq Columns
    BY <2>2 DEF Writes
  <2>. QED BY <2>2, <2>3, RowColumns DEF SecInv, TypeInv
<1>5. row.stamp = 0 <=> changes = {}
  BY DEF SecInv, StampsOK
<1>6. TypeInv
  BY DEF SecInv
<1>. QED BY <1>3, <1>4, <1>5, <1>6 DEF TypeOK, TypeInv

\* Every variable has its type in every state.
THEOREM AccountTyped == Spec => []TypeOK
BY AccountHolds, TypeFollows, PTL

\* A refresh token that a committed change swept is dead for good
\* (revoke_all_user_tokens).
THEOREM SweptTokensDie == Spec => []SweptStayDead
<1>1. SecInv => SweptStayDead
  BY Zenon DEF SecInv
<1>. QED BY <1>1, AccountHolds, PTL

\* An access token opens the account only until the next credential change
\* (credentials_changed_at).
THEOREM AccessTokensDie == Spec => []AccessDiesWithCredentials
<1>1. SecInv => AccessDiesWithCredentials
  BY DEF SecInv
<1>. QED BY <1>1, AccountHolds, PTL

\* A failure locks for at least as long as the failures counted before it, and
\* other operations write a lock only by resetting it.
LEMMA LockStep ==
  ASSUME SecInv, Next
  PROVE  LockNeverShortened
<1> SUFFICES ASSUME row'.locked < row.locked PROVE LoginCommits \/ LimitReached
  BY DEF LockNeverShortened
<1>1. /\ row.fails \in Nat /\ row.locked \in Nat /\ clock \in Nat
      /\ MaxFailures \in Nat /\ MaxStrikes \in Nat
  BY SecurityAssumption DEF SecInv, TypeInv, Row
<1>2. ASSUME NEW r \in Request, CountFailure(r) PROVE LimitReached
  <2>1. /\ row'.fails = row.fails + 1 /\ row.fails + 1 <= MaxStrikes
        /\ row'.locked = IF row.fails + 1 >= MaxFailures
                         THEN clock + Lockout(row.fails + 1) ELSE row.locked
    BY <1>2, Counted
  <2>2. row.fails + 1 >= MaxFailures
    BY <1>1, <2>1
  <2>3. Lockout(row.fails + 1) \in Nat /\ Lockout(row.fails + 1) > 0
    BY <1>1, <2>1, <2>2, LockoutGrows
  <2>4. CASE row.fails >= MaxFailures
    <3>1. Lockout(row.fails) \in Nat /\ Lockout(row.fails) <= Lockout(row.fails + 1)
      BY <1>1, <2>1, <2>4, LockoutGrows
    <3>2. row.locked <= clock + Lockout(row.fails)
      BY <2>4 DEF SecInv, LockOK
    <3>. QED BY <1>1, <2>1, <2>2, <2>3, <3>1, <3>2
  <2>5. CASE row.fails < MaxFailures
    BY <1>1, <2>1, <2>2, <2>3, <2>5 DEF LimitReached
  <2>. QED BY <1>1, <2>4, <2>5
<1>3. ASSUME NEW r \in Request, Commit(r) PROVE LoginCommits
  <2>1. req[r].at = "commit" /\ req'[r] = Idle /\ req[r].kind = "login"
    BY <1>1, <1>3, CommitWrites DEF Commit
  <2>. QED BY <2>1, IdleRecord DEF LoginCommits
<1>4. CASE UNCHANGED row
  BY <1>1, <1>4
<1>. QED BY <1>2, <1>3, <1>4 DEF Next, Step, Borrow, Audit, Sweep, Flush, Login,
     ChangePassword, DisableUser, EnableUser, SetupTotp, EnableTotp, DisableTotp, Abort,
     Tick, Over, vars

\* Failures of parallel requests add up, and none cuts the lock short that
\* the failures before it have set (_register_failed_attempt).
THEOREM FailuresAddUp == Spec => FailuresHold
<1>1. SecInv /\ SecInv' /\ [Next]_vars => [FailuresAreCounted' /\ LockNeverShortened]_vars
  BY LockStep DEF SecInv
<1>. QED BY <1>1, AccountHolds, PTL DEF Spec, FailuresHold

-----------------------------------------------------------------------------
(* Nobody waits forever.                                                    *)

\* A request that will write columns knows what it was begun for.
KindsKnown ==
  \A r \in Request : req[r].at \in {"flush", "commit"} => req[r].kind \in Operations

\* One request is written, and goes on only with its kind.
LEMMA KindPut ==
  ASSUME TypeInv, KindsKnown, NEW r \in Request, NEW s, Put(r, s),
         s.at \in {"flush", "commit"} => s.kind \in Operations
  PROVE  KindsKnown'
<1>1. req'[r] = s /\ \A q \in Request : q # r => req'[q] = req[q]
  BY PutReq
<1>. QED BY <1>1 DEF KindsKnown

\* A request that begins has the kind of its operation.
LEMMA KindBegin ==
  ASSUME TypeInv, KindsKnown, NEW r \in Request, NEW kind \in Operations,
         NEW step \in Steps, NEW new \in Row, Put(r, Begin(kind, step, new))
  PROVE  KindsKnown'
<1>1. Begin(kind, step, new).kind = kind
  BY BeginRecord
<1>. QED BY <1>1, KindPut

\* The rows that operations want to write are rows.
LEMMA WantedRows ==
  ASSUME TypeInv
  PROVE  /\ Reset \in Row /\ NewPassword \in Row /\ Disabled \in Row /\ Enabled \in Row
         /\ WithTotp \in Row /\ WithoutTotp \in Row
         /\ secrets + 1 \in Nat => NewSecret \in Row
<1>1. row \in Row
  BY DEF TypeInv
<1>2. 1 - row.pw \in Password
  BY <1>1 DEF Row, Password
<1>3. Reset \in Row /\ Disabled \in Row /\ Enabled \in Row
  BY <1>1 DEF Row, Reset, Disabled, Enabled, None
<1>4. WithTotp \in Row /\ WithoutTotp \in Row
  BY <1>1 DEF Row, WithTotp, WithoutTotp, None
<1>5. NewPassword \in Row
  BY <1>1, <1>2 DEF Row, NewPassword
<1>6. secrets + 1 \in Nat => NewSecret \in Row
  BY <1>1 DEF Row, NewSecret
<1>. QED BY <1>3, <1>4, <1>5, <1>6

\* Every step keeps the kinds.
LEMMA KindsKept ==
  ASSUME SecInv, KindsKnown, [Next]_vars
  PROVE  KindsKnown'
<1>0. /\ TypeInv /\ secrets + 1 \in Nat /\ row \in Row
      /\ \A r \in Request : req[r] \in RequestRecord
  BY SecurityAssumption DEF SecInv, TypeInv
<1>1. ASSUME NEW r \in Request, NEW step \in Steps \ {"flush", "commit"}, Goto(r, step)
      PROVE  KindsKnown'
  <2>1. [req[r] EXCEPT !.at = step].at = step
    BY <1>0 DEF RequestRecord
  <2>2. step \notin {"flush", "commit"}
    BY <1>1
  <2>. QED BY <1>0, <1>1, <2>1, <2>2, KindPut DEF Goto
<1>2. ASSUME NEW r \in Request, End(r) PROVE KindsKnown'
  BY <1>0, <1>2, KindPut, IdleRecord DEF End
<1>3. ASSUME NEW r \in Request, Borrow(r) PROVE KindsKnown'
  <2>1. {"auditing", "failing"} \subseteq Steps \ {"flush", "commit"}
    BY DEF Steps, Holding
  <2>. QED BY <1>1, <1>3, <2>1 DEF Borrow
<1>4. ASSUME NEW r \in Request, Audit(r) \/ CountFailure(r) \/ Commit(r) \/ Abort(r)
      PROVE  KindsKnown'
  BY <1>2, <1>4 DEF Audit, CountFailure, Commit, Abort
<1>5. ASSUME NEW r \in Request, Sweep(r) PROVE KindsKnown'
  <2> DEFINE s == [req[r] EXCEPT !.at = "flush", !.stamp = stamps + 1,
                                 !.writes = Stamped(@), !.swept = live]
  <2>1. req[r].kind \in Operations /\ Put(r, s)
    BY <1>5 DEF Sweep, SecInv, RequestOK, Operations
  <2>2. s.kind = req[r].kind
    BY <1>0 DEF RequestRecord
  <2> HIDE DEF s
  <2>. QED BY <1>0, <2>1, <2>2, KindPut
<1>6. ASSUME NEW r \in Request, Flush(r) PROVE KindsKnown'
  <2> DEFINE s == [req[r] EXCEPT !.at = "commit"]
  <2>1. req[r].kind \in Operations /\ Put(r, s)
    BY <1>6 DEF Flush, Goto, KindsKnown
  <2>2. s.kind = req[r].kind
    BY <1>0 DEF RequestRecord
  <2> HIDE DEF s
  <2>. QED BY <1>0, <2>1, <2>2, KindPut
<1>7. /\ {"audit", "fail", "flush", "sweep"} \subseteq Steps
      /\ \A k \in {"login", "password", "disable", "enable", "setup", "confirm", "drop"} :
           k \in Operations
  BY DEF Steps, Waiting, Operations
<1>8. ASSUME NEW r \in Request, NEW password \in Password, NEW code \in Codes,
             Login(r, password, code)
      PROVE  KindsKnown'
  <2>1. PICK step \in Steps, new \in Row : Put(r, Begin("login", step, new))
    <3>1. Verdict(password, code) \in {"audit", "fail", "flush", "code missing"}
      BY DEF Verdict
    <3>. QED BY <1>0, <1>7, <1>8, <3>1, WantedRows DEF Login
  <2>. QED BY <1>0, <1>7, <2>1, KindBegin
<1>9. ASSUME NEW r \in Request,
             ChangePassword(r) \/ DisableUser(r) \/ EnableUser(r) \/ SetupTotp(r)
      PROVE  KindsKnown'
  <2>1. PICK kind \in Operations, step \in Steps, new \in Row : Put(r, Begin(kind, step, new))
    BY <1>0, <1>7, <1>9, WantedRows DEF ChangePassword, DisableUser, EnableUser, SetupTotp
  <2>. QED BY <1>0, <2>1, KindBegin
<1>10. ASSUME NEW r \in Request, NEW code \in Codes, EnableTotp(r, code) \/ DisableTotp(r, code)
       PROVE  KindsKnown'
  <2>1. PICK kind \in Operations, step \in Steps, new \in Row : Put(r, Begin(kind, step, new))
    BY <1>0, <1>7, <1>10, WantedRows DEF EnableTotp, DisableTotp
  <2>. QED BY <1>0, <2>1, KindBegin
<1>11. ASSUME UNCHANGED req PROVE KindsKnown'
  BY <1>11 DEF KindsKnown
<1>12. Tick \/ Over \/ UNCHANGED vars => UNCHANGED req
  BY DEF Tick, Over, vars
<1>13. ASSUME NEW r \in Request, Step(r) PROVE KindsKnown'
  BY <1>3, <1>4, <1>5, <1>6, <1>13 DEF Step
<1>. QED BY <1>4, <1>8, <1>9, <1>10, <1>11, <1>12, <1>13 DEF Next

\* Whoever holds the row's lock can commit; whoever waits for the row waits
\* for such a request; and who waits for a connection of the second pool finds
\* one free when nobody holds one.
LEMMA SomeoneMayStep ==
  ASSUME SecInv, KindsKnown
  PROVE  NobodyWaitsForever
<1> SUFFICES ASSUME NEW r \in Running, \A q \in Running : ~MayStep(q) PROVE FALSE
  BY DEF NobodyWaitsForever
<1>1. Running \subseteq Request /\ \A q \in Request : req[q].at # "idle" => q \in Running
  BY DEF Running
<1>2. \A q \in Request : req[q].at # "commit"
  BY <1>1 DEF MayStep, KindsKnown
<1>3. ~RowLocked
  BY <1>2 DEF RowLocked
<1>4. \A q \in Request : req[q].at \notin {"auditing", "sweep", "failing", "flush", "commit"}
  BY <1>1, <1>2, <1>3 DEF MayStep
<1>5. req[r].at \in Waiting
  <2>1. r \in Request /\ req[r].at \in Steps /\ req[r].at # "idle"
    BY DEF Running, SecInv, TypeInv, RequestRecord
  <2>. QED BY <1>4, <2>1 DEF Steps, Holding
<1>6. Borrowed = {}
  BY <1>4 DEF Borrowed, Holding
<1>7. Cardinality(Borrowed) < SecurityPool
  BY <1>6, FS_EmptySet, SecurityAssumption
<1>. QED BY <1>5, <1>7 DEF MayStep, MayBorrow

\* Requests never all wait for each other, however large the two pools are and
\* however many requests there are (_security_engine).
THEOREM NobodyDeadlocks == Spec => []NobodyWaitsForever
<1>1. Init => KindsKnown
  BY DEF Init, KindsKnown, Idle
<1>2. SecInv /\ KindsKnown /\ [Next]_vars => KindsKnown'
  BY KindsKept
<1>3. Spec => []KindsKnown
  BY <1>1, <1>2, AccountHolds, PTL DEF Spec
<1>. QED BY <1>3, SomeoneMayStep, AccountHolds, PTL
=============================================================================
