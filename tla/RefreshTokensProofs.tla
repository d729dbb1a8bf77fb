------------------------ MODULE RefreshTokensProofs ------------------------
(***************************************************************************)
(* Theorems about RefreshTokens, for any number of rows, families,         *)
(* requests and callers.                                                   *)
(***************************************************************************)
EXTENDS RefreshTokens, TLAPS

\* The initial state is well typed.
LEMMA InitTypeOK == Init => TypeOK
  BY UsesAssumption DEF Init, TypeOK, NoEntry, Entry, NoRequest, Request, Kinds,
     Outcomes, PcLabels

\* A request that starts is well typed.
LEMMA StartTypeOK ==
  ASSUME TypeOK, NEW p \in Proc, Start(p)
  PROVE  TypeOK'
<1> USE DEF TypeOK, Begin, rows, locks, hist, NoRequest, Request, Kinds,
        Outcomes, PcLabels
<1>1. CASE StartLogin(p)
  BY <1>1 DEF StartLogin
<1>2. ASSUME NEW t \in Token, NEW c \in Client \cup {NoAgent}, StartRefresh(p, t, c)
      PROVE  TypeOK'
  BY <1>2 DEF StartRefresh, Exists
<1>3. ASSUME NEW t \in Token, StartLogout(p, t)
      PROVE  TypeOK'
  BY <1>3 DEF StartLogout, Exists
<1>4. ASSUME NEW kind \in {"password", "disable"}, StartRevokeAll(p, kind)
      PROVE  TypeOK'
  <2>1. LiveFamilies \in SUBSET Family
    BY DEF LiveFamilies, Unrevoked, Exists
  <2>2. [NoRequest EXCEPT !.kind = kind] \in Request
    OBVIOUS
  <2>. QED BY <1>4, <2>1, <2>2 DEF StartRevokeAll
<1> HIDE DEF TypeOK, Begin, rows, locks, hist, NoRequest, Request, Kinds,
         Outcomes, PcLabels
<1>. QED BY <1>1, <1>2, <1>3, <1>4 DEF Start

\* A decision keeps the request and its program counter well typed.
LEMMA DecideType ==
  ASSUME TypeOK, NEW p \in Proc, NEW label \in PcLabels, NEW o \in Outcomes,
         Decide(p, label, o), entry' \in [Token -> Entry]
  PROVE  TypeOK'
<1>1. req' \in [Proc -> Request]
  <2>1. ASSUME NEW q \in Request
        PROVE  [q EXCEPT !.out = o, !.same = TRUE] \in Request
    BY DEF Request
  <2>2. req' = [req EXCEPT ![p] = [@ EXCEPT !.out = o, !.same = TRUE]]
    BY DEF Decide
  <2>. QED BY <2>1, <2>2 DEF TypeOK
<1>. QED BY <1>1 DEF TypeOK, Decide, rows, locks, hist

\* Taking a use below the cap keeps the entry within its bound.
LEMMA ClaimedType ==
  ASSUME TypeOK, NEW p \in Proc, req[p].token \in Token, CapLeft(p)
  PROVE  Claimed(p) \in [Token -> Entry]
<1> DEFINE t == req[p].token
<1>1. entry[t] \in Entry /\ entry[t].uses < MaxUses
  BY DEF TypeOK, CapLeft
<1>2. [entry[t] EXCEPT !.uses = @ + 1] \in Entry
  BY <1>1, UsesAssumption DEF Entry
<1>. QED BY <1>2 DEF Claimed, TypeOK

LEMMA RefusedType ==
  ASSUME TypeOK, NEW p \in Proc, req[p].token \in Token, ReplayRefused(p)
  PROVE  entry' \in [Token -> Entry]
  BY ClaimedType DEF ReplayRefused, TypeOK

\* Only a refresh, which presents a row, gets past its locks to a decision;
\* a request that is rolled back or answered forgets what it read.
PresentsRow(p) ==
  /\ pc[p] \in {"row", "decide"} => req[p].kind = "refresh"
  /\ req[p].kind \in {"refresh", "logout"} =>
       req[p].token \in Token /\ Exists(req[p].token)
  /\ req[p].out # "none" => req[p].kind = "refresh"
  /\ pc[p] \in {"idle", "lock", "row", "decide"} => req[p].out = "none"
  /\ pc[p] \in {"update", "wait"} => req[p].out \in {"none", "reuse"}
  /\ pc[p] = "remember" => req[p].out = "rotate" /\ req[p].next \in Token

RequestInv == \A p \in Proc : PresentsRow(p)

\* Every step keeps the types, given what requests carry.
LEMMA NextTypeOK == TypeOK /\ RequestInv /\ [Next]_vars => TypeOK'
<1> SUFFICES ASSUME TypeOK, RequestInv, [Next]_vars PROVE TypeOK'
  OBVIOUS
<1> USE DEF PcLabels
<1>1. CASE UNCHANGED vars
  BY <1>1 DEF TypeOK, vars, rows, locks, hist
<1>2. ASSUME NEW p \in Proc, Start(p) PROVE TypeOK'
  BY <1>2, StartTypeOK
<1>3. ASSUME NEW p \in Proc, LockFamily(p) PROVE TypeOK'
  BY <1>3 DEF TypeOK, LockFamily, rows, hist
<1>4. ASSUME NEW p \in Proc, LockRow(p) PROVE TypeOK'
  BY <1>4 DEF TypeOK, LockRow, rows, hist
<1>5. ASSUME NEW p \in Proc,
             \/ DecideRotate(p) \/ DecideInvalid(p) \/ DecideReplay(p)
             \/ DecideConflict(p) \/ DecideReuse(p)
      PROVE  TypeOK'
  <2>1. req[p].token \in Token
    BY <1>5 DEF RequestInv, PresentsRow, DecideRotate, DecideInvalid,
       DecideReplay, DecideConflict, DecideReuse
  <2>2. entry' \in [Token -> Entry]
    BY <1>5, <2>1, ClaimedType, RefusedType DEF TypeOK, DecideRotate,
       DecideInvalid, DecideReplay, DecideConflict, DecideReuse
  <2>3. \E label \in PcLabels, o \in Outcomes : Decide(p, label, o)
    BY <1>5 DEF DecideRotate, DecideInvalid, DecideReplay, DecideConflict,
       DecideReuse, Outcomes
  <2>. QED BY <2>2, <2>3, DecideType
<1>6. ASSUME NEW p \in Proc, StartUpdate(p) PROVE TypeOK'
  BY <1>6 DEF TypeOK, StartUpdate, rows, locks, hist
<1>7. ASSUME NEW p \in Proc, FinishUpdate(p) PROVE TypeOK'
  BY <1>7 DEF TypeOK, FinishUpdate, rows, hist
<1>8. NoRequest \in Request
  BY DEF NoRequest, Request, Kinds, Outcomes
<1>9. ASSUME NEW p \in Proc, CommitLogin(p) PROVE TypeOK'
  BY <1>8, <1>9 DEF TypeOK, CommitLogin, Release, Finished, hist
<1>10. ASSUME NEW p \in Proc, CommitRotate(p) PROVE TypeOK'
  <2>1. req[p].token \in Token
    BY <1>10 DEF CommitRotate, RequestInv, PresentsRow
  <2>2. PICK n \in Token :
          /\ fam' = [fam EXCEPT ![n] = fam[req[p].token]]
          /\ revoked' = revoked \cup {req[p].token}
          /\ replacedBy' = [replacedBy EXCEPT ![req[p].token] = n]
          /\ age' = [age EXCEPT ![fam[req[p].token]] = 0]
          /\ expired' = expired \ {fam[req[p].token]}
          /\ req' = [req EXCEPT ![p].next = n]
    BY <1>10 DEF CommitRotate
  <2>3. [req[p] EXCEPT !.next = n] \in Request
    <3>1. req[p] \in Request
      BY DEF TypeOK
    <3>. QED BY <3>1 DEF Request
  <2>4. req' \in [Proc -> Request]
    BY <2>2, <2>3 DEF TypeOK
  <2>5. /\ fam' \in [Token -> Family \cup {NoFamily}]
        /\ revoked' \subseteq Token
        /\ replacedBy' \in [Token -> Token \cup {NoToken}]
        /\ age' \in [Family -> 0..2]
        /\ expired' \subseteq Family
    <3>1. fam' \in [Token -> Family \cup {NoFamily}]
      BY <2>1, <2>2 DEF TypeOK
    <3>2. replacedBy' \in [Token -> Token \cup {NoToken}]
      BY <2>1, <2>2 DEF TypeOK
    <3>3. age' \in [Family -> 0..2]
      <4>1. age \in [Family -> 0..2] /\ 0 \in 0..2
        BY DEF TypeOK
      <4>2. age' = [age EXCEPT ![fam[req[p].token]] = 0]
        BY <2>2
      <4>. QED BY <4>1, <4>2
    <3>4. revoked' \subseteq Token /\ expired' \subseteq Family
      BY <2>1, <2>2 DEF TypeOK
    <3>. QED BY <3>1, <3>2, <3>3, <3>4
  <2>6. /\ famLock' \in [Family -> Proc \cup {NoProc}]
        /\ rowLock' \in [Token -> Proc \cup {NoProc}]
        /\ pc' \in [Proc -> PcLabels]
        /\ UNCHANGED <<active, entry, todo, targets, ended, served>>
    BY <1>10 DEF TypeOK, CommitRotate, Release, hist
  <2>. QED BY <2>4, <2>5, <2>6 DEF TypeOK
<1>11. ASSUME NEW p \in Proc, CommitAnswer(p) PROVE TypeOK'
  <2>1. req[p].token \in Token
    BY <1>11 DEF CommitAnswer, RequestInv, PresentsRow
  <2>2. served' \in [Token -> Nat]
    BY <1>11, <2>1 DEF CommitAnswer, TypeOK
  <2>. QED BY <1>8, <1>11, <2>2 DEF TypeOK, CommitAnswer, Release, Finished, rows
<1>12. ASSUME NEW p \in Proc, CommitRevokeFamily(p) PROVE TypeOK'
  <2>1. /\ famLock' \in [Family -> Proc \cup {NoProc}]
        /\ rowLock' \in [Token -> Proc \cup {NoProc}]
    BY <1>12 DEF TypeOK, CommitRevokeFamily, Release
  <2>2. /\ pc' \in [Proc -> PcLabels] /\ req' \in [Proc -> Request]
        /\ todo' \in [Proc -> SUBSET Family] /\ targets' \in [Proc -> SUBSET Token]
    BY <1>8, <1>12 DEF TypeOK, CommitRevokeFamily, Finished
  <2>3. revoked' \subseteq Token /\ ended' \subseteq Family
    BY <1>12 DEF TypeOK, CommitRevokeFamily, FamiliesOf
  <2>4. UNCHANGED <<fam, replacedBy, expired, age, active, entry, served>>
    BY <1>12 DEF CommitRevokeFamily
  <2>. QED BY <2>1, <2>2, <2>3, <2>4 DEF TypeOK
<1>13. ASSUME NEW p \in Proc, CommitRevokeAll(p) PROVE TypeOK'
  <2>1. entry' \in [Token -> Entry]
    <3>1. ASSUME NEW e \in Entry PROVE [e EXCEPT !.same = FALSE] \in Entry
      BY DEF Entry
    <3>2. entry' = [t \in Token |-> [entry[t] EXCEPT !.same = FALSE]]
      BY <1>13 DEF CommitRevokeAll
    <3>. QED BY <3>1, <3>2 DEF TypeOK
  <2>2. req' \in [Proc -> Request]
    <3>1. ASSUME NEW q \in Request PROVE [q EXCEPT !.same = FALSE] \in Request
      BY DEF Request
    <3>2. req' = [q \in Proc |-> IF q = p THEN NoRequest
                                ELSE [req[q] EXCEPT !.same = FALSE]]
      BY <1>13 DEF CommitRevokeAll
    <3>. QED BY <1>8, <3>1, <3>2 DEF TypeOK
  <2>3. active' \in BOOLEAN
    BY <1>13 DEF CommitRevokeAll
  <2>. QED BY <1>13, <2>1, <2>2, <2>3 DEF TypeOK, CommitRevokeAll, Release, FamiliesOf
<1>14. ASSUME NEW p \in Proc, Abort(p) PROVE TypeOK'
  BY <1>8, <1>14 DEF TypeOK, Abort, Release, Finished, rows, hist
<1>15. ASSUME NEW p \in Proc, Remember(p) PROVE TypeOK'
  <2>1. req[p].token \in Token /\ req[p] \in Request /\ req[p].next \in Token
    BY <1>15 DEF Remember, RequestInv, PresentsRow, TypeOK
  <2>2. entry' \in [Token -> Entry]
    BY <1>15, <2>1, UsesAssumption DEF Remember, TypeOK, Entry, Request
  <2>. QED BY <1>8, <1>15, <2>2 DEF TypeOK, Remember, Finished, rows, locks, hist
<1>16. CASE Environment
  <2>1. CASE EnableUser
    BY <2>1 DEF TypeOK, EnableUser, rows, locks, hist
  <2>2. ASSUME NEW f \in Family, Grow(f) \/ Expire(f) PROVE TypeOK'
    BY <2>2 DEF TypeOK, Grow, Expire, locks, hist
  <2>3. ASSUME NEW t \in Token, EntryExpires(t) PROVE TypeOK'
    BY <2>3, UsesAssumption DEF TypeOK, EntryExpires, Entry, NoEntry, rows, locks, hist
  <2>. QED BY <1>16, <2>1, <2>2, <2>3 DEF Environment
<1>. QED BY <1>1, <1>2, <1>3, <1>4, <1>5, <1>6, <1>7, <1>9, <1>10, <1>11,
            <1>12, <1>13, <1>14, <1>15, <1>16 DEF Next, Run

-----------------------------------------------------------------------------
(* What requests carry and which row locks they hold.                       *)

\* A request that decided on a row, or is about to write rows, holds their
\* locks, and the row a rotation decided on is still live.
LocksHeld(p) ==
  /\ pc[p] = "decide" => rowLock[req[p].token] = p
  /\ pc[p] = "commit" /\ req[p].out = "rotate" =>
       rowLock[req[p].token] = p /\ Live(req[p].token)
  /\ pc[p] = "commit" => \A t \in targets[p] : rowLock[t] = p /\ Exists(t)
  /\ targets[p] # {} =>
       pc[p] \in {"wait", "commit"} /\ req[p].out \in {"none", "reuse"}

\* Rows only ever gain a family, and only CommitRotate sets replaced_by.
RowsInv ==
  /\ \A t \in Token : ~Exists(t) => t \notin revoked /\ replacedBy[t] = NoToken
  /\ \A t \in Token : replacedBy[t] # NoToken => Exists(replacedBy[t])

Inv ==
  /\ TypeOK
  /\ RequestInv
  /\ \A p \in Proc : LocksHeld(p)
  /\ RowsInv
  /\ ChainIsLinear
  /\ OneLivePerFamily

LEMMA InitInv == Init => Inv
  BY InitTypeOK, NullAssumption DEF Init, Inv, RequestInv, PresentsRow, LocksHeld,
     RowsInv, ChainIsLinear, OneLivePerFamily, Exists, Live, Unrevoked, NoRequest

\* The four parts of Inv that speak of rows do not change while the rows do not.
LEMMA SameRows ==
  ASSUME Inv, UNCHANGED <<fam, revoked, replacedBy>>
  PROVE  RowsInv' /\ ChainIsLinear' /\ OneLivePerFamily'
  BY DEF Inv, RowsInv, ChainIsLinear, OneLivePerFamily, Exists, Live, Unrevoked

\* A request whose own state, rows and row locks stay as they are keeps its
\* part of the invariant while others work.
LEMMA Bystander ==
  ASSUME Inv, NEW q \in Proc,
         pc'[q] = pc[q], targets'[q] = targets[q],
         req'[q].kind = req[q].kind, req'[q].token = req[q].token,
         req'[q].out = req[q].out, req'[q].next = req[q].next,
         \A t \in Token : Exists(t) => Exists(t)',
         \A t \in Token : rowLock[t] = q => rowLock'[t] = q /\ (Live(t) => Live(t)')
  PROVE  PresentsRow(q)' /\ LocksHeld(q)'
<1>1. PresentsRow(q) /\ LocksHeld(q)
  BY DEF Inv, RequestInv
<1>2. targets[q] \subseteq Token
  BY DEF Inv, TypeOK
<1>3. PresentsRow(q)'
  BY <1>1 DEF PresentsRow
<1>4. pc[q] = "decide" \/ req[q].out = "rotate" => req[q].token \in Token
  BY <1>1 DEF PresentsRow
<1>5. LocksHeld(q)'
  BY <1>1, <1>2, <1>4 DEF LocksHeld
<1>. QED BY <1>3, <1>5

\* A request that starts carries an existing row or none, and holds nothing.
LEMMA BeginInv ==
  ASSUME Inv, TypeOK', NEW p \in Proc, NEW r, NEW label, NEW families,
         Begin(p, r, label, families),
         label \in {"lock", "update", "commit"},
         r.out = "none",
         r.kind \in {"refresh", "logout"} => r.token \in Token /\ Exists(r.token)
  PROVE  Inv'
<1> USE DEF Begin, rows, locks, hist
<1>1. RowsInv' /\ ChainIsLinear' /\ OneLivePerFamily'
  BY SameRows
<1>2. ASSUME NEW q \in Proc, q # p PROVE PresentsRow(q)' /\ LocksHeld(q)'
  <2>1. pc'[q] = pc[q] /\ req'[q] = req[q] /\ targets'[q] = targets[q]
    BY <1>2 DEF Inv, TypeOK
  <2>2. \A t \in Token : (Exists(t) => Exists(t)') /\ (Live(t) => Live(t)')
    BY DEF Exists, Live, Unrevoked
  <2>. QED BY <2>1, <2>2, Bystander
<1>3. pc'[p] = label /\ req'[p] = r /\ targets'[p] = {}
  BY DEF Inv, TypeOK, LocksHeld
<1>4. PresentsRow(p)'
  BY <1>3 DEF PresentsRow, Exists
<1>5. LocksHeld(p)'
  BY <1>3 DEF LocksHeld
<1>. QED BY <1>1, <1>2, <1>4, <1>5 DEF Inv, RequestInv

LEMMA StartInv ==
  ASSUME Inv, NEW p \in Proc, Start(p)
  PROVE  Inv'
<1>0. TypeOK'
  BY StartTypeOK DEF Inv
<1> USE DEF NoRequest
<1>1. CASE StartLogin(p)
  BY <1>0, <1>1, BeginInv DEF StartLogin
<1>2. ASSUME NEW t \in Token, NEW c \in Client \cup {NoAgent}, StartRefresh(p, t, c)
      PROVE  Inv'
  <2> DEFINE r == [NoRequest EXCEPT !.kind = "refresh", !.token = t, !.client = c]
  <2>1. r.out = "none" /\ r.token = t
    OBVIOUS
  <2>2. Begin(p, r, "lock", {fam[t]}) /\ Exists(t)
    BY <1>2 DEF StartRefresh
  <2> HIDE DEF r
  <2>. QED BY <1>0, <2>1, <2>2, BeginInv
<1>3. ASSUME NEW t \in Token, StartLogout(p, t) PROVE Inv'
  <2> DEFINE r == [NoRequest EXCEPT !.kind = "logout", !.token = t]
  <2>1. r.out = "none" /\ r.token = t
    OBVIOUS
  <2>2. Begin(p, r, "lock", {fam[t]}) /\ Exists(t)
    BY <1>3 DEF StartLogout
  <2> HIDE DEF r
  <2>. QED BY <1>0, <2>1, <2>2, BeginInv
<1>4. ASSUME NEW kind \in {"password", "disable"}, StartRevokeAll(p, kind) PROVE Inv'
  BY <1>0, <1>4, BeginInv DEF StartRevokeAll
<1>. QED BY <1>1, <1>2, <1>3, <1>4 DEF Start

\* The locks: a request that waited for its row holds it when it decides.
LEMMA LockInv ==
  ASSUME Inv, TypeOK', NEW p \in Proc, LockFamily(p) \/ LockRow(p)
  PROVE  Inv'
<1> USE DEF rows, hist
<1>1. UNCHANGED <<fam, revoked, replacedBy, req, targets>>
  BY DEF LockFamily, LockRow
<1>2. RowsInv' /\ ChainIsLinear' /\ OneLivePerFamily'
  BY <1>1, SameRows
<1>3. \A t \in Token : (Exists(t) => Exists(t)') /\ (Live(t) => Live(t)')
  BY <1>1 DEF Exists, Live, Unrevoked
<1>4. \A t \in Token : rowLock[t] # NoProc => rowLock'[t] = rowLock[t]
  BY DEF LockFamily, LockRow, Inv, TypeOK
<1>5. ASSUME NEW q \in Proc, q # p PROVE PresentsRow(q)' /\ LocksHeld(q)'
  <2>1. pc'[q] = pc[q]
    BY <1>5 DEF LockFamily, LockRow, Inv, TypeOK
  <2>. QED BY <1>1, <1>3, <1>4, <2>1, NullAssumption, Bystander
<1>6. PresentsRow(p) /\ LocksHeld(p)
  BY DEF Inv, RequestInv
<1>7. CASE LockFamily(p)
  <2>1. pc[p] = "lock" /\ pc'[p] \in {"lock", "row", "update"}
        /\ (pc'[p] = "row" => req[p].kind = "refresh")
    BY <1>7 DEF LockFamily, Inv, TypeOK
  <2>. QED BY <1>1, <1>2, <1>3, <1>5, <1>6, <2>1
       DEF Inv, RequestInv, PresentsRow, LocksHeld
<1>8. CASE LockRow(p)
  <2>1. pc[p] = "row" /\ pc'[p] = "decide"
    BY <1>8 DEF LockRow, Inv, TypeOK
  <2>2. req[p].token \in Token
    BY <1>6, <2>1 DEF PresentsRow
  <2>3. rowLock'[req[p].token] = p
    BY <1>8, <2>2 DEF LockRow, Inv, TypeOK
  <2>. QED BY <1>1, <1>2, <1>3, <1>5, <1>6, <2>1, <2>3
       DEF Inv, RequestInv, PresentsRow, LocksHeld
<1>. QED BY <1>7, <1>8

\* A decision changes nothing of what the request presents.
LEMMA DecidedRequest ==
  ASSUME NEW r \in Request, NEW o
  PROVE  LET s == [r EXCEPT !.out = o, !.same = TRUE]
         IN  s.out = o /\ s.kind = r.kind /\ s.token = r.token
  BY DEF Request

\* A decision: a rotation is decided only on a row that is live and locked.
LEMMA DecideInv ==
  ASSUME Inv, TypeOK', NEW p \in Proc,
         NEW label \in {"commit", "update"}, NEW o \in Outcomes,
         pc[p] = "decide", Decide(p, label, o),
         o = "rotate" => Live(req[p].token),
         label = "update" => o = "reuse"
  PROVE  Inv'
<1> USE DEF rows, locks, hist, Decide
<1>1. RowsInv' /\ ChainIsLinear' /\ OneLivePerFamily'
  BY SameRows
<1>2. \A t \in Token : (Exists(t) => Exists(t)') /\ (Live(t) => Live(t)')
  BY DEF Exists, Live, Unrevoked
<1>3. ASSUME NEW q \in Proc, q # p PROVE PresentsRow(q)' /\ LocksHeld(q)'
  <2>1. pc'[q] = pc[q] /\ req'[q] = req[q] /\ targets'[q] = targets[q]
    BY <1>3 DEF Inv, TypeOK
  <2>. QED BY <1>2, <2>1, Bystander
<1>4. PresentsRow(p) /\ LocksHeld(p) /\ req[p] \in Request
  BY DEF Inv, RequestInv, TypeOK
<1>5. /\ pc'[p] = label /\ targets'[p] = {}
      /\ req'[p].out = o /\ req'[p].kind = "refresh"
      /\ req'[p].token = req[p].token /\ req[p].token \in Token
      /\ Exists(req[p].token) /\ rowLock[req[p].token] = p
  <2>1. pc'[p] = label /\ req'[p] = [req[p] EXCEPT !.out = o, !.same = TRUE]
        /\ targets'[p] = targets[p]
    BY DEF Inv, TypeOK
  <2>2. targets[p] = {} /\ req[p].kind = "refresh" /\ req[p].token \in Token
        /\ Exists(req[p].token) /\ rowLock[req[p].token] = p
    BY <1>4 DEF PresentsRow, LocksHeld
  <2> HIDE DEF rows, locks, hist, Decide
  <2>3. req'[p].out = o /\ req'[p].kind = req[p].kind /\ req'[p].token = req[p].token
    BY <1>4, <2>1, DecidedRequest
  <2>. QED BY <2>1, <2>2, <2>3
<1>6. PresentsRow(p)' /\ LocksHeld(p)'
  BY <1>2, <1>5 DEF PresentsRow, LocksHeld
<1>. QED BY <1>1, <1>3, <1>6 DEF Inv, RequestInv

\* The bulk UPDATE takes the locks of the rows it will revoke, and no other
\* transaction holds one of them.
LEMMA UpdateInv ==
  ASSUME Inv, TypeOK', NEW p \in Proc, StartUpdate(p) \/ FinishUpdate(p)
  PROVE  Inv'
<1> USE DEF rows, hist, locks
<1>1. UNCHANGED <<fam, revoked, replacedBy, req>>
  BY DEF StartUpdate, FinishUpdate
<1>2. RowsInv' /\ ChainIsLinear' /\ OneLivePerFamily'
  BY <1>1, SameRows
<1>3. \A t \in Token : (Exists(t) => Exists(t)') /\ (Live(t) => Live(t)')
  BY <1>1 DEF Exists, Live, Unrevoked
<1>4. \A t \in Token : rowLock[t] \notin {NoProc, p} => rowLock'[t] = rowLock[t]
  BY DEF StartUpdate, FinishUpdate, Inv, TypeOK
<1>5. ASSUME NEW q \in Proc, q # p PROVE PresentsRow(q)' /\ LocksHeld(q)'
  <2>1. pc'[q] = pc[q] /\ targets'[q] = targets[q]
    BY <1>5 DEF StartUpdate, FinishUpdate, Inv, TypeOK
  <2>. QED BY <1>1, <1>3, <1>4, <1>5, <2>1, NullAssumption, Bystander
<1>6. PresentsRow(p) /\ LocksHeld(p)
  BY DEF Inv, RequestInv
<1>7. req[p].out \in {"none", "reuse"}
  BY <1>6 DEF StartUpdate, FinishUpdate, PresentsRow
<1>8. pc'[p] \in {"wait", "commit"}
  BY DEF StartUpdate, FinishUpdate, Inv, TypeOK
<1>9. pc'[p] = "commit" => \A t \in targets'[p] : rowLock'[t] = p /\ Exists(t)'
  <2>1. CASE StartUpdate(p)
    BY <2>1 DEF StartUpdate, Inv, TypeOK
  <2>2. CASE FinishUpdate(p)
    <3>1. targets'[p] = {t \in targets[p] : Unrevoked(t)}
      BY <2>2 DEF FinishUpdate, Inv, TypeOK
    <3>2. \A t \in targets'[p] : rowLock'[t] = p
      BY <2>2, <3>1 DEF FinishUpdate, Inv, TypeOK
    <3>. QED BY <1>1, <3>1, <3>2 DEF Unrevoked, Exists
  <2>. QED BY <2>1, <2>2
<1>10. PresentsRow(p)' /\ LocksHeld(p)'
  BY <1>1, <1>3, <1>6, <1>7, <1>8, <1>9 DEF PresentsRow, LocksHeld
<1>. QED BY <1>2, <1>5, <1>10 DEF Inv, RequestInv

\* A request that ends forgets everything, so its own part holds again.
LEMMA FinishedInv ==
  ASSUME Inv, NEW p \in Proc,
         pc'[p] = "idle", req'[p] = NoRequest, targets'[p] = {}
  PROVE  PresentsRow(p)' /\ LocksHeld(p)'
  BY DEF PresentsRow, LocksHeld, NoRequest

\* A commit that revokes exactly the rows it holds locked, and adds none.
LEMMA RevokeInv ==
  ASSUME Inv, TypeOK', NEW p \in Proc, pc[p] = "commit",
         revoked' = revoked \cup targets[p], UNCHANGED <<fam, replacedBy>>,
         Release(p),
         pc'[p] = "idle", req'[p] = NoRequest, targets'[p] = {},
         \A q \in Proc : q # p =>
           /\ pc'[q] = pc[q] /\ targets'[q] = targets[q]
           /\ req'[q].kind = req[q].kind /\ req'[q].token = req[q].token
           /\ req'[q].out = req[q].out /\ req'[q].next = req[q].next
  PROVE  Inv'
<1>1. targets[p] \subseteq Token /\ \A t \in targets[p] : rowLock[t] = p /\ Exists(t)
  BY DEF Inv, TypeOK, LocksHeld
<1>2. RowsInv' /\ ChainIsLinear' /\ OneLivePerFamily'
  BY <1>1 DEF Inv, RowsInv, ChainIsLinear, OneLivePerFamily, Exists, Live, Unrevoked
<1>3. \A t \in Token : Exists(t) => Exists(t)'
  BY DEF Exists
<1>4. ASSUME NEW q \in Proc, q # p PROVE PresentsRow(q)' /\ LocksHeld(q)'
  <2>1. \A t \in Token : rowLock[t] = q => rowLock'[t] = q /\ (Live(t) => Live(t)')
    BY <1>1, <1>4 DEF Release, Live, Unrevoked, Exists
  <2>. QED BY <1>3, <1>4, <2>1, Bystander
<1>5. PresentsRow(p)' /\ LocksHeld(p)'
  BY FinishedInv
<1>. QED BY <1>2, <1>4, <1>5 DEF Inv, RequestInv

\* A commit or a rollback that writes no row.
LEMMA ReleaseInv ==
  ASSUME Inv, TypeOK', NEW p \in Proc,
         UNCHANGED <<fam, revoked, replacedBy>>, Finished(p),
         Release(p) \/ UNCHANGED rowLock
  PROVE  Inv'
<1>1. RowsInv' /\ ChainIsLinear' /\ OneLivePerFamily'
  BY SameRows
<1>2. \A t \in Token : (Exists(t) => Exists(t)') /\ (Live(t) => Live(t)')
  BY DEF Exists, Live, Unrevoked
<1>3. ASSUME NEW q \in Proc, q # p PROVE PresentsRow(q)' /\ LocksHeld(q)'
  <2>1. pc'[q] = pc[q] /\ req'[q] = req[q] /\ targets'[q] = targets[q]
    BY <1>3 DEF Finished, Inv, TypeOK
  <2>2. \A t \in Token : rowLock[t] = q => rowLock'[t] = q
    BY <1>3 DEF Release
  <2>. QED BY <1>2, <2>1, <2>2, Bystander
<1>4. PresentsRow(p)' /\ LocksHeld(p)'
  BY FinishedInv DEF Finished, Inv, TypeOK
<1>. QED BY <1>1, <1>3, <1>4 DEF Inv, RequestInv

\* A login adds the first row of a family that had none.
LEMMA LoginInv ==
  ASSUME Inv, TypeOK', NEW p \in Proc, CommitLogin(p)
  PROVE  Inv'
<1>1. PICK f \in Family, n \in Token :
        TokensOf(f) = {} /\ ~Exists(n) /\ fam' = [fam EXCEPT ![n] = f]
  BY DEF CommitLogin
<1>2. UNCHANGED <<revoked, replacedBy>> /\ Release(p) /\ Finished(p)
  BY DEF CommitLogin
<1>3. /\ fam'[n] = f /\ f # NoFamily
      /\ \A t \in Token : t # n => fam'[t] = fam[t]
  BY <1>1, NullAssumption DEF Inv, TypeOK
<1>4. \A t \in Token : (Exists(t) => Exists(t)') /\ (Live(t) => Live(t)')
  BY <1>2, <1>3 DEF Exists, Live, Unrevoked
<1>5. RowsInv'
  BY <1>2, <1>3, <1>4 DEF Inv, RowsInv, Exists, TypeOK
<1>6. ChainIsLinear'
  BY <1>1, <1>2, <1>3, <1>4 DEF Inv, RowsInv, ChainIsLinear, Exists, TypeOK
<1>7. OneLivePerFamily'
  BY <1>1, <1>2, <1>3 DEF Inv, OneLivePerFamily, Live, Unrevoked, Exists, TokensOf
<1>8. ASSUME NEW q \in Proc, q # p PROVE PresentsRow(q)' /\ LocksHeld(q)'
  <2>1. pc'[q] = pc[q] /\ req'[q] = req[q] /\ targets'[q] = targets[q]
    BY <1>2, <1>8 DEF Finished, Inv, TypeOK
  <2>2. \A t \in Token : rowLock[t] = q => rowLock'[t] = q
    BY <1>2, <1>8 DEF Release
  <2>. QED BY <1>4, <2>1, <2>2, Bystander
<1>9. PresentsRow(p)' /\ LocksHeld(p)'
  BY <1>2, FinishedInv DEF Finished, Inv, TypeOK
<1>. QED BY <1>5, <1>6, <1>7, <1>8, <1>9 DEF Inv, RequestInv

\* A rotation replaces the one live row of its family by a new one.  The row
\* is live because its lock has been held since the decision.
LEMMA RotateInv ==
  ASSUME Inv, TypeOK', NEW p \in Proc, CommitRotate(p)
  PROVE  Inv'
<1> DEFINE t == req[p].token
<1>1. PresentsRow(p) /\ LocksHeld(p)
  BY DEF Inv, RequestInv
<1>2. pc[p] = "commit" /\ req[p].out = "rotate" /\ req[p].kind = "refresh"
  BY <1>1 DEF CommitRotate, PresentsRow
<1>3. t \in Token /\ Exists(t) /\ rowLock[t] = p /\ Live(t) /\ targets[p] = {}
  BY <1>1, <1>2 DEF PresentsRow, LocksHeld
<1>4. PICK n \in Token :
        /\ ~Exists(n)
        /\ fam' = [fam EXCEPT ![n] = fam[t]]
        /\ revoked' = revoked \cup {t}
        /\ replacedBy' = [replacedBy EXCEPT ![t] = n]
        /\ req' = [req EXCEPT ![p].next = n]
  BY DEF CommitRotate
<1>5. Release(p) /\ pc' = [pc EXCEPT ![p] = "remember"] /\ UNCHANGED targets
  BY DEF CommitRotate
<1>6. n # t /\ fam[n] = NoFamily /\ n \notin revoked /\ replacedBy[n] = NoToken
      /\ n # NoToken
  BY <1>3, <1>4, NullAssumption DEF Exists, Inv, RowsInv
<1>7. /\ fam'[n] = fam[t] /\ fam'[t] = fam[t] /\ fam[t] # NoFamily
      /\ \A u \in Token : u # n => fam'[u] = fam[u]
      /\ replacedBy'[t] = n
      /\ \A u \in Token : u # t => replacedBy'[u] = replacedBy[u]
  BY <1>3, <1>4, <1>6 DEF Exists, Inv, TypeOK
<1>8. \A u \in Token : Exists(u) => Exists(u)'
  BY <1>7 DEF Exists
<1>9. \A u \in Token : Live(u)' <=> u = n \/ (Live(u) /\ u # t)
  BY <1>3, <1>4, <1>6, <1>7 DEF Live, Unrevoked, Exists
<1> HIDE DEF t
<1>10. RowsInv'
  <2>1. ASSUME NEW u \in Token, ~Exists(u)'
        PROVE  u \notin revoked' /\ replacedBy'[u] = NoToken
    BY <1>3, <1>4, <1>7, <1>8, <2>1 DEF Inv, RowsInv, Exists
  <2>2. ASSUME NEW u \in Token, replacedBy'[u] # NoToken PROVE Exists(replacedBy[u])'
    <3>1. CASE u = t
      BY <1>7, <3>1 DEF Exists
    <3>2. CASE u # t
      BY <1>7, <1>8, <2>2, <3>2 DEF Inv, RowsInv, TypeOK, Exists
    <3>. QED BY <3>1, <3>2
  <2>. QED BY <2>1, <2>2 DEF RowsInv
<1>11. ChainIsLinear'
  <2> SUFFICES ASSUME NEW u \in Token, replacedBy'[u] # NoToken
               PROVE  /\ u \in revoked' /\ Exists(u)'
                      /\ fam'[replacedBy'[u]] = fam'[u]
                      /\ \A v \in Token : replacedBy'[v] = replacedBy'[u] => v = u
    BY DEF ChainIsLinear
  <2>1. \A v \in Token : v # t => replacedBy[v] # n
    BY <1>4, <1>6 DEF Inv, RowsInv
  <2>2. CASE u = t
    BY <1>3, <1>4, <1>7, <1>8, <2>1, <2>2
  <2>3. CASE u # t
    <3>1. /\ replacedBy'[u] = replacedBy[u] /\ replacedBy[u] # NoToken
          /\ replacedBy[u] \in Token /\ replacedBy[u] # n
      BY <1>7, <2>1, <2>3 DEF Inv, TypeOK
    <3>2. u \in revoked /\ Exists(u) /\ fam[replacedBy[u]] = fam[u]
          /\ \A v \in Token : replacedBy[v] = replacedBy[u] => v = u
      BY <3>1 DEF Inv, ChainIsLinear
    <3>3. u # n
      BY <1>4, <3>2
    <3>. QED BY <1>4, <1>7, <1>8, <3>1, <3>2, <3>3
  <2>. QED BY <2>2, <2>3
<1>12. OneLivePerFamily'
  <2>1. \A u \in Token : Live(u) /\ u # t => fam[u] # fam[t]
    BY <1>3 DEF Inv, OneLivePerFamily
  <2>2. \A u \in Token : Live(u) => u # n
    BY <1>4 DEF Live, Unrevoked
  <2>. QED BY <1>7, <1>9, <2>1, <2>2 DEF Inv, OneLivePerFamily
<1>13. ASSUME NEW q \in Proc, q # p PROVE PresentsRow(q)' /\ LocksHeld(q)'
  <2>1. pc'[q] = pc[q] /\ req'[q] = req[q] /\ targets'[q] = targets[q]
    BY <1>4, <1>5, <1>13 DEF Inv, TypeOK
  <2>2. \A u \in Token : rowLock[u] = q => rowLock'[u] = q /\ (Live(u) => Live(u)')
    BY <1>3, <1>5, <1>9, <1>13 DEF Release
  <2>. QED BY <1>8, <2>1, <2>2, Bystander
<1>14. PresentsRow(p)' /\ LocksHeld(p)'
  <2>1. req[p] \in Request /\ req'[p] = [req[p] EXCEPT !.next = n]
    BY <1>4 DEF Inv, TypeOK
  <2>2. /\ req'[p].kind = "refresh" /\ req'[p].out = "rotate"
        /\ req'[p].next = n /\ req'[p].token = t
    BY <1>2, <2>1 DEF Request, t
  <2>3. pc'[p] = "remember" /\ targets'[p] = {}
    BY <1>3, <1>5 DEF Inv, TypeOK
  <2>. QED BY <1>3, <1>8, <2>2, <2>3 DEF PresentsRow, LocksHeld
<1>. QED BY <1>10, <1>11, <1>12, <1>13, <1>14 DEF Inv, RequestInv

\* Every step keeps the invariant.
LEMMA NextInv == Inv /\ [Next]_vars => Inv'
<1> SUFFICES ASSUME Inv, [Next]_vars PROVE Inv'
  OBVIOUS
<1>0. TypeOK'
  BY NextTypeOK DEF Inv
<1>1. ASSUME UNCHANGED <<rows, pc, req, targets, rowLock>> PROVE Inv'
  BY <1>0, <1>1 DEF rows, Inv, RequestInv, PresentsRow, LocksHeld, RowsInv,
     ChainIsLinear, OneLivePerFamily, Exists, Live, Unrevoked
<1>2. ASSUME UNCHANGED <<fam, revoked, replacedBy, pc, req, targets, rowLock>>
      PROVE  Inv'
  BY <1>0, <1>2 DEF Inv, RequestInv, PresentsRow, LocksHeld, RowsInv,
     ChainIsLinear, OneLivePerFamily, Exists, Live, Unrevoked
<1>3. CASE UNCHANGED vars
  BY <1>2, <1>3 DEF vars, rows, locks
<1>4. ASSUME NEW p \in Proc, Start(p) PROVE Inv'
  BY <1>4, StartInv
<1>5. ASSUME NEW p \in Proc, LockFamily(p) \/ LockRow(p) PROVE Inv'
  BY <1>0, <1>5, LockInv
<1>6. ASSUME NEW p \in Proc,
             \/ DecideRotate(p) \/ DecideInvalid(p) \/ DecideReplay(p)
             \/ DecideConflict(p) \/ DecideReuse(p)
      PROVE  Inv'
  <2>1. PICK label \in {"commit", "update"}, o \in Outcomes :
          /\ pc[p] = "decide" /\ Decide(p, label, o)
          /\ o = "rotate" => Live(req[p].token)
          /\ label = "update" => o = "reuse"
    BY <1>6 DEF DecideRotate, DecideInvalid, DecideReplay, DecideConflict,
       DecideReuse, Outcomes
  <2>. QED BY <1>0, <2>1, DecideInv
<1>7. ASSUME NEW p \in Proc, StartUpdate(p) \/ FinishUpdate(p) PROVE Inv'
  BY <1>0, <1>7, UpdateInv
<1>8. ASSUME NEW p \in Proc, CommitLogin(p) PROVE Inv'
  BY <1>0, <1>8, LoginInv
<1>9. ASSUME NEW p \in Proc, CommitRotate(p) PROVE Inv'
  BY <1>0, <1>9, RotateInv
<1>10. ASSUME NEW p \in Proc, CommitAnswer(p) \/ Abort(p) \/ Remember(p) PROVE Inv'
  BY <1>0, <1>10, ReleaseInv DEF CommitAnswer, Abort, Remember, rows, locks
<1>11. ASSUME NEW p \in Proc, CommitRevokeFamily(p) PROVE Inv'
  <2>1. /\ pc[p] = "commit" /\ revoked' = revoked \cup targets[p]
        /\ UNCHANGED <<fam, replacedBy>> /\ Release(p) /\ Finished(p)
    BY <1>11 DEF CommitRevokeFamily
  <2>2. /\ pc'[p] = "idle" /\ req'[p] = NoRequest /\ targets'[p] = {}
        /\ \A q \in Proc : q # p =>
             pc'[q] = pc[q] /\ targets'[q] = targets[q] /\ req'[q] = req[q]
    BY <2>1 DEF Finished, Inv, TypeOK
  <2>. QED BY <1>0, <2>1, <2>2, RevokeInv
<1>12. ASSUME NEW p \in Proc, CommitRevokeAll(p) PROVE Inv'
  <2>1. /\ pc[p] = "commit" /\ revoked' = revoked \cup targets[p]
        /\ UNCHANGED <<fam, replacedBy>> /\ Release(p)
    BY <1>12 DEF CommitRevokeAll
  <2>2. /\ pc'[p] = "idle" /\ req'[p] = NoRequest /\ targets'[p] = {}
    BY <1>12 DEF CommitRevokeAll, Inv, TypeOK
  <2>3. ASSUME NEW q \in Proc, q # p
        PROVE  /\ pc'[q] = pc[q] /\ targets'[q] = targets[q]
               /\ req'[q].kind = req[q].kind /\ req'[q].token = req[q].token
               /\ req'[q].out = req[q].out /\ req'[q].next = req[q].next
    <3>1. /\ pc'[q] = pc[q] /\ targets'[q] = targets[q]
          /\ req'[q] = [req[q] EXCEPT !.same = FALSE] /\ req[q] \in Request
      BY <1>12, <2>3 DEF CommitRevokeAll, Inv, TypeOK
    <3>. QED BY <3>1 DEF Request
  <2>. QED BY <1>0, <2>1, <2>2, <2>3, RevokeInv
<1>13. CASE Environment
  BY <1>2, <1>13 DEF Environment, EnableUser, Grow, Expire, EntryExpires, rows, locks
<1>. QED BY <1>3, <1>4, <1>5, <1>6, <1>7, <1>8, <1>9, <1>10, <1>11, <1>12,
            <1>13 DEF Next, Run

-----------------------------------------------------------------------------
(* The locks of the families.                                               *)

\* The requests whose UPDATE revokes rows.
Revoker(p) == RevokesAll(p) \/ req[p].kind = "logout" \/ req[p].out = "reuse"

\* The family locks of a request.  A refresh or a logout holds the lock of its
\* row's family, and no other, from its first locked read to its commit; and
\* when a revocation is about to commit, it has seen every unrevoked row of the
\* families it holds, because a rotation that could add one needs the lock.
HoldsFamily(p) ==
  /\ \A f \in Family : famLock[f] = p => pc[p] \notin {"idle", "remember"}
  /\ \A f \in Family : famLock[f] = p \/ f \in todo[p] => TokensOf(f) # {}
  /\ req[p].kind \in {"refresh", "logout"} =>
       /\ \A f \in Family : famLock[f] = p \/ f \in todo[p] => f = fam[req[p].token]
       /\ pc[p] \in {"row", "decide", "update", "wait", "commit"} =>
            famLock[fam[req[p].token]] = p
  /\ pc[p] \in {"wait", "commit"} /\ Revoker(p) =>
       \A t \in Token : Unrevoked(t) /\ famLock[fam[t]] = p => t \in targets[p]

FamilyInv == \A p \in Proc : HoldsFamily(p)

\* A request keeps its family locks, and what it saw, while others work.
LEMMA HoldsBystander ==
  ASSUME Inv, Inv', NEW q \in Proc, HoldsFamily(q),
         pc'[q] = pc[q], todo'[q] = todo[q], targets'[q] = targets[q],
         req'[q].kind = req[q].kind, req'[q].token = req[q].token,
         req'[q].out = req[q].out,
         \A f \in Family : famLock[f] = q <=> famLock'[f] = q,
         \A t \in Token : Exists(t) => fam'[t] = fam[t],
         \A t \in Token : Unrevoked(t)' /\ ~Unrevoked(t) => famLock[fam'[t]] # q
  PROVE  HoldsFamily(q)'
<1>1. PresentsRow(q) /\ \A t \in Token : Exists(t) => fam[t] \in Family
  BY DEF Inv, RequestInv, TypeOK, Exists
<1>2. \A t \in Token : Exists(t)' => fam'[t] \in Family
  BY DEF Inv, RequestInv, TypeOK, Exists
<1>3. \A f \in Family : TokensOf(f) # {} => TokensOf(f)' # {}
  BY NullAssumption, FamilyAssumption DEF TokensOf, Exists, Inv, TypeOK
<1>4. Revoker(q)' <=> Revoker(q)
  BY DEF Revoker, RevokesAll
<1>5. req[q].kind \in {"refresh", "logout"} =>
        req[q].token \in Token /\ fam[req[q].token] \in Family
        /\ fam'[req'[q].token] = fam[req[q].token]
  BY <1>1 DEF PresentsRow
<1>6. \A t \in Token : Unrevoked(t)' /\ famLock'[fam'[t]] = q
                         => Unrevoked(t) /\ famLock[fam[t]] = q
  BY <1>2 DEF Unrevoked
<1>. QED BY <1>3, <1>4, <1>5, <1>6 DEF HoldsFamily

\* A request that starts holds no family lock yet and waits only for families
\* that have rows.
LEMMA BeginHolds ==
  ASSUME Inv, Inv', FamilyInv, NEW p \in Proc, NEW r, NEW label, NEW families,
         Begin(p, r, label, families),
         label \in {"lock", "update", "commit"},
         \A f \in families : f \in Family /\ TokensOf(f) # {},
         r.kind \in {"refresh", "logout"} =>
           label = "lock" /\ families = {fam[r.token]},
         label = "commit" => r.kind = "login" /\ r.out = "none"
  PROVE  FamilyInv'
<1> USE DEF Begin, rows, locks, hist
<1>1. ASSUME NEW q \in Proc, q # p PROVE HoldsFamily(q)'
  <2>1. pc'[q] = pc[q] /\ req'[q] = req[q] /\ targets'[q] = targets[q] /\ todo'[q] = todo[q]
    BY <1>1 DEF Inv, TypeOK
  <2>2. \A t \in Token : Unrevoked(t)' = Unrevoked(t)
    BY DEF Unrevoked, Exists
  <2>. QED BY <2>1, <2>2, HoldsBystander DEF FamilyInv
<1>2. pc'[p] = label /\ req'[p] = r /\ todo'[p] = families
  BY DEF Inv, TypeOK
<1>3. \A f \in Family : famLock'[f] # p
  BY DEF FamilyInv, HoldsFamily
<1>4. \A f \in Family : TokensOf(f)' = TokensOf(f)
  BY DEF TokensOf
<1>5. ~Revoker(p)' \/ pc'[p] \notin {"wait", "commit"}
  BY <1>2 DEF Revoker, RevokesAll
<1>6. fam' = fam
  OBVIOUS
<1>7. HoldsFamily(p)'
  <2> HIDE DEF Begin, hist
  <2>. QED BY <1>2, <1>3, <1>4, <1>5, <1>6 DEF HoldsFamily
<1>. QED BY <1>1, <1>7 DEF FamilyInv

\* A request that starts keeps the invariant of the family locks.
LEMMA StartHolds ==
  ASSUME Inv, Inv', FamilyInv, NEW p \in Proc, Start(p)
  PROVE  FamilyInv'
<1>0. \A t \in Token : Exists(t) => fam[t] \in Family /\ TokensOf(fam[t]) # {}
  BY DEF Inv, TypeOK, Exists, TokensOf
<1> USE DEF NoRequest
<1>1. CASE StartLogin(p)
  <2> DEFINE r == [NoRequest EXCEPT !.kind = "login"]
  <2>1. r.kind = "login" /\ r.out = "none" /\ Begin(p, r, "commit", {})
    BY <1>1 DEF StartLogin
  <2> HIDE DEF r
  <2>. QED BY <2>1, BeginHolds
<1>2. ASSUME NEW t \in Token, NEW c \in Client \cup {NoAgent}, StartRefresh(p, t, c)
      PROVE  FamilyInv'
  <2> DEFINE r == [NoRequest EXCEPT !.kind = "refresh", !.token = t, !.client = c]
  <2>1. r.token = t /\ Begin(p, r, "lock", {fam[t]}) /\ Exists(t)
    BY <1>2 DEF StartRefresh
  <2> HIDE DEF r
  <2>. QED BY <1>0, <2>1, BeginHolds
<1>3. ASSUME NEW t \in Token, StartLogout(p, t) PROVE FamilyInv'
  <2> DEFINE r == [NoRequest EXCEPT !.kind = "logout", !.token = t]
  <2>1. r.token = t /\ Begin(p, r, "lock", {fam[t]}) /\ Exists(t)
    BY <1>3 DEF StartLogout
  <2> HIDE DEF r
  <2>. QED BY <1>0, <2>1, BeginHolds
<1>4. ASSUME NEW kind \in {"password", "disable"}, StartRevokeAll(p, kind)
      PROVE  FamilyInv'
  <2> DEFINE r == [NoRequest EXCEPT !.kind = kind]
             label == IF LiveFamilies = {} THEN "update" ELSE "lock"
  <2>1. r.kind = kind /\ Begin(p, r, label, LiveFamilies)
    BY <1>4 DEF StartRevokeAll
  <2>2. \A f \in LiveFamilies : f \in Family /\ TokensOf(f) # {}
    BY <1>0 DEF LiveFamilies, Unrevoked
  <2>3. label \in {"lock", "update"}
    OBVIOUS
  <2> HIDE DEF r, label
  <2>. QED BY <2>1, <2>2, <2>3, BeginHolds
<1>. QED BY <1>1, <1>2, <1>3, <1>4 DEF Start

\* A step that changes neither rows nor families' locks of others: the locks
\* are taken one by one, and a request waits for no family it does not need.
LEMMA LockHolds ==
  ASSUME Inv, Inv', FamilyInv, NEW p \in Proc, LockFamily(p) \/ LockRow(p)
  PROVE  FamilyInv'
<1> USE DEF rows, hist
<1>1. UNCHANGED <<fam, revoked, replacedBy, req, targets>>
  BY DEF LockFamily, LockRow
<1>2. \A t \in Token : Unrevoked(t)' = Unrevoked(t)
  BY <1>1 DEF Unrevoked, Exists
<1>3. ASSUME NEW q \in Proc, q # p PROVE HoldsFamily(q)'
  <2>1. pc'[q] = pc[q] /\ todo'[q] = todo[q]
    BY <1>3 DEF LockFamily, LockRow, Inv, TypeOK
  <2>2. \A f \in Family : famLock[f] = q <=> famLock'[f] = q
    BY <1>3, NullAssumption DEF LockFamily, LockRow, Inv, TypeOK
  <2>. QED BY <1>1, <1>2, <2>1, <2>2, HoldsBystander DEF FamilyInv
<1>4. HoldsFamily(p) /\ PresentsRow(p)
  BY DEF FamilyInv, Inv, RequestInv
<1>5. \A f \in Family : TokensOf(f)' = TokensOf(f)
  BY <1>1 DEF TokensOf
<1>6. CASE LockFamily(p)
  <2>1. PICK f \in todo[p] :
          /\ famLock' = [famLock EXCEPT ![f] = p]
          /\ todo' = [todo EXCEPT ![p] = @ \ {f}]
          /\ pc' = [pc EXCEPT ![p] =
                      IF todo[p] # {f} THEN "lock"
                      ELSE IF req[p].kind = "refresh" THEN "row" ELSE "update"]
    BY <1>6 DEF LockFamily
  <2>2. f \in Family /\ famLock'[f] = p /\ todo'[p] = todo[p] \ {f}
        /\ \A g \in Family : g # f => famLock'[g] = famLock[g]
    BY <2>1 DEF Inv, TypeOK
  <2>3. pc'[p] \in {"lock", "row", "update"} /\ (todo[p] # {f} => pc'[p] = "lock")
    BY <2>1 DEF Inv, TypeOK
  <2>4. \A g \in Family : famLock'[g] = p \/ g \in todo'[p] => famLock[g] = p \/ g \in todo[p]
    BY <2>1, <2>2
  <2>5. req[p].kind \in {"refresh", "logout"} => f = fam[req[p].token]
    BY <1>4, <2>2 DEF HoldsFamily
  <2>. QED BY <1>1, <1>3, <1>4, <1>5, <2>2, <2>3, <2>4, <2>5 DEF FamilyInv, HoldsFamily
<1>7. CASE LockRow(p)
  <2>1. pc[p] = "row" /\ pc'[p] = "decide" /\ UNCHANGED <<famLock, todo>>
    BY <1>7 DEF LockRow, Inv, TypeOK
  <2>. QED BY <1>1, <1>3, <1>4, <1>5, <2>1 DEF FamilyInv, HoldsFamily
<1>. QED BY <1>6, <1>7

\* A decision keeps its locks, and revokes nothing by itself.
LEMMA DecideHolds ==
  ASSUME Inv, Inv', FamilyInv, NEW p \in Proc,
         NEW label \in {"commit", "update"}, NEW o \in Outcomes,
         pc[p] = "decide", Decide(p, label, o), label = "commit" => o # "reuse"
  PROVE  FamilyInv'
<1>1. UNCHANGED <<fam, revoked, famLock, todo, targets>>
  BY DEF Decide, rows, locks
<1>2. \A t \in Token : Unrevoked(t)' = Unrevoked(t)
  BY <1>1 DEF Unrevoked, Exists
<1>3. ASSUME NEW q \in Proc, q # p PROVE HoldsFamily(q)'
  <2>1. pc'[q] = pc[q] /\ req'[q] = req[q]
    BY <1>3 DEF Decide, Inv, TypeOK
  <2>. QED BY <1>1, <1>2, <2>1, HoldsBystander DEF FamilyInv
<1>4. HoldsFamily(p) /\ PresentsRow(p) /\ req[p] \in Request
  BY DEF FamilyInv, Inv, RequestInv, TypeOK
<1>5. pc'[p] = label /\ req'[p] = [req[p] EXCEPT !.out = o, !.same = TRUE]
  BY DEF Decide, Inv, TypeOK
<1>6. req'[p].out = o /\ req'[p].kind = req[p].kind /\ req'[p].token = req[p].token
  BY <1>4, <1>5, DecidedRequest
<1>7. req[p].kind = "refresh"
  BY <1>4 DEF PresentsRow
<1>8. \A f \in Family : TokensOf(f)' = TokensOf(f)
  BY <1>1 DEF TokensOf
<1>9. ~Revoker(p)' \/ pc'[p] = "update"
  BY <1>5, <1>6, <1>7, Zenon DEF Revoker, RevokesAll
<1>10. HoldsFamily(p)'
  BY <1>1, <1>4, <1>6, <1>7, <1>5, <1>8, <1>9 DEF HoldsFamily
<1>. QED BY <1>3, <1>10 DEF FamilyInv

\* The UPDATE sees every unrevoked row of the families whose locks it holds.
LEMMA UpdateHolds ==
  ASSUME Inv, Inv', FamilyInv, NEW p \in Proc, StartUpdate(p) \/ FinishUpdate(p)
  PROVE  FamilyInv'
<1>1. UNCHANGED <<fam, revoked, famLock, todo, req>>
  BY DEF StartUpdate, FinishUpdate, rows, locks
<1>2. \A t \in Token : Unrevoked(t)' = Unrevoked(t)
  BY <1>1 DEF Unrevoked, Exists
<1>3. ASSUME NEW q \in Proc, q # p PROVE HoldsFamily(q)'
  <2>1. pc'[q] = pc[q] /\ targets'[q] = targets[q]
    BY <1>3 DEF StartUpdate, FinishUpdate, Inv, TypeOK
  <2>. QED BY <1>1, <1>2, <2>1, HoldsBystander DEF FamilyInv
<1>4. HoldsFamily(p) /\ PresentsRow(p) /\ targets[p] \subseteq Token
  BY DEF FamilyInv, Inv, RequestInv, TypeOK
<1>5. \A f \in Family : TokensOf(f)' = TokensOf(f)
  BY <1>1 DEF TokensOf
<1>6. \A t \in Token : Unrevoked(t) => fam[t] \in Family
  BY DEF Inv, TypeOK, Unrevoked, Exists
<1>7. Revoker(p)' <=> Revoker(p)
  BY <1>1 DEF Revoker, RevokesAll
<1>8. pc[p] \in {"update", "wait"} /\ pc'[p] \in {"wait", "commit"}
  BY DEF StartUpdate, FinishUpdate, Inv, TypeOK
<1>9. Revoker(p) => \A t \in Token : Unrevoked(t) /\ famLock[fam[t]] = p => t \in targets'[p]
  <2>1. CASE StartUpdate(p)
    <3>1. targets'[p] = {t \in Token : Unrevoked(t) /\ InScope(p, t)}
      BY <2>1 DEF StartUpdate, Inv, TypeOK
    <3>2. \A t \in Token : Unrevoked(t) /\ famLock[fam[t]] = p /\ Revoker(p) => InScope(p, t)
      BY <1>4, <1>6 DEF InScope, Revoker, HoldsFamily, PresentsRow
    <3>. QED BY <3>1, <3>2
  <2>2. CASE FinishUpdate(p)
    <3>1. targets'[p] = {t \in targets[p] : Unrevoked(t)} /\ pc[p] = "wait"
      BY <2>2 DEF FinishUpdate, Inv, TypeOK
    <3>. QED BY <1>4, <3>1 DEF HoldsFamily
  <2>. QED BY <2>1, <2>2
<1>10. HoldsFamily(p)'
  BY <1>1, <1>2, <1>4, <1>5, <1>7, <1>8, <1>9 DEF HoldsFamily
<1>. QED BY <1>3, <1>10 DEF FamilyInv

\* The end of a transaction gives its locks back.  What it committed is new to
\* another request only in a family that request does not hold.
LEMMA ReleaseHolds ==
  ASSUME Inv, Inv', FamilyInv, NEW p \in Proc,
         \A f \in Family : famLock'[f] = IF famLock[f] = p THEN NoProc ELSE famLock[f],
         pc'[p] \in {"idle", "remember"},
         \/ todo'[p] = {}
         \/ todo'[p] = todo[p] /\ req'[p].token = req[p].token
            /\ req'[p].kind = req[p].kind,
         \A q \in Proc : q # p =>
           /\ pc'[q] = pc[q] /\ targets'[q] = targets[q] /\ todo'[q] = todo[q]
           /\ req'[q].kind = req[q].kind /\ req'[q].token = req[q].token
           /\ req'[q].out = req[q].out,
         \A t \in Token : Exists(t) => fam'[t] = fam[t],
         \A t \in Token : Unrevoked(t)' /\ ~Unrevoked(t) =>
           famLock[fam'[t]] \in {NoProc, p}
  PROVE  FamilyInv'
<1>1. ASSUME NEW q \in Proc, q # p PROVE HoldsFamily(q)'
  <2>1. \A f \in Family : famLock[f] = q <=> famLock'[f] = q
    BY <1>1, NullAssumption
  <2>2. \A t \in Token : Unrevoked(t)' /\ ~Unrevoked(t) => famLock[fam'[t]] # q
    BY <1>1, NullAssumption
  <2>. QED BY <1>1, <2>1, <2>2, HoldsBystander DEF FamilyInv
<1>2. HoldsFamily(p) /\ PresentsRow(p)
  BY DEF FamilyInv, Inv, RequestInv
<1>3. \A f \in Family : famLock'[f] # p
  BY NullAssumption
<1>4. \A f \in Family : TokensOf(f) # {} => TokensOf(f)' # {}
  BY NullAssumption, FamilyAssumption DEF TokensOf, Exists, Inv, TypeOK
<1>5. req[p].kind \in {"refresh", "logout"} =>
        fam'[req[p].token] = fam[req[p].token]
  BY <1>2 DEF PresentsRow
<1>6. HoldsFamily(p)'
  BY <1>2, <1>3, <1>4, <1>5 DEF HoldsFamily
<1>. QED BY <1>1, <1>6 DEF FamilyInv

\* A request that finishes leaves the other requests as they are.
LEMMA FinishedOthers ==
  ASSUME Inv, NEW p \in Proc, Finished(p)
  PROVE  /\ pc'[p] = "idle" /\ todo'[p] = {} /\ req'[p] = NoRequest /\ targets'[p] = {}
         /\ \A q \in Proc : q # p =>
              /\ pc'[q] = pc[q] /\ targets'[q] = targets[q] /\ todo'[q] = todo[q]
              /\ req'[q] = req[q]
  BY DEF Finished, Inv, TypeOK

\* A login adds a row to a family that nobody can have locked.
LEMMA LoginHolds ==
  ASSUME Inv, Inv', FamilyInv, NEW p \in Proc, CommitLogin(p)
  PROVE  FamilyInv'
<1>1. PICK f \in Family, n \in Token :
        TokensOf(f) = {} /\ ~Exists(n) /\ fam' = [fam EXCEPT ![n] = f]
  BY DEF CommitLogin
<1>2. UNCHANGED revoked /\ Release(p) /\ Finished(p)
  BY DEF CommitLogin
<1>3. /\ fam'[n] = f
      /\ \A t \in Token : t # n => fam'[t] = fam[t]
  BY <1>1 DEF Inv, TypeOK
<1>4. \A t \in Token : Exists(t) => fam'[t] = fam[t]
  BY <1>1, <1>3
<1>5. \A q \in Proc : famLock[f] # q
  BY <1>1 DEF FamilyInv, HoldsFamily
<1>6. famLock[f] = NoProc
  BY <1>5 DEF Inv, TypeOK
<1>7. \A t \in Token : Unrevoked(t)' /\ ~Unrevoked(t) => famLock[fam'[t]] \in {NoProc, p}
  BY <1>2, <1>3, <1>6 DEF Unrevoked, Exists
<1>8. \A g \in Family : famLock'[g] = IF famLock[g] = p THEN NoProc ELSE famLock[g]
  BY <1>2 DEF Release
<1>. QED BY <1>2, <1>4, <1>7, <1>8, FinishedOthers, ReleaseHolds

\* A rotation adds its row to the family it holds.
LEMMA RotateHolds ==
  ASSUME Inv, Inv', FamilyInv, NEW p \in Proc, CommitRotate(p)
  PROVE  FamilyInv'
<1> DEFINE t == req[p].token
<1>1. PresentsRow(p) /\ LocksHeld(p) /\ HoldsFamily(p)
  BY DEF Inv, RequestInv, FamilyInv
<1>2. pc[p] = "commit" /\ req[p].out = "rotate" /\ req[p].kind = "refresh"
  BY <1>1 DEF CommitRotate, PresentsRow
<1>3. t \in Token /\ Exists(t) /\ famLock[fam[t]] = p
  BY <1>1, <1>2 DEF PresentsRow, HoldsFamily
<1>4. PICK n \in Token :
        /\ ~Exists(n)
        /\ fam' = [fam EXCEPT ![n] = fam[t]]
        /\ revoked' = revoked \cup {t}
        /\ req' = [req EXCEPT ![p].next = n]
  BY DEF CommitRotate
<1>5. Release(p) /\ pc' = [pc EXCEPT ![p] = "remember"] /\ UNCHANGED <<targets, todo>>
  BY DEF CommitRotate
<1>6. /\ fam'[n] = fam[t]
      /\ \A u \in Token : u # n => fam'[u] = fam[u]
  BY <1>4 DEF Inv, TypeOK
<1>7. \A u \in Token : Exists(u) => fam'[u] = fam[u]
  BY <1>4, <1>6
<1>8. /\ req'[p].token = t /\ req'[p].kind = req[p].kind
      /\ \A q \in Proc : q # p => req'[q] = req[q]
  <2>1. req[p] \in Request /\ req'[p] = [req[p] EXCEPT !.next = n]
    BY <1>4 DEF Inv, TypeOK
  <2>2. req'[p].token = t /\ req'[p].kind = req[p].kind
    BY <2>1 DEF Request
  <2>. QED BY <1>4, <2>2 DEF Inv, TypeOK
<1>9. pc'[p] = "remember" /\ \A q \in Proc : q # p => pc'[q] = pc[q]
  BY <1>5 DEF Inv, TypeOK
<1>10. \A u \in Token : Unrevoked(u)' /\ ~Unrevoked(u) => famLock[fam'[u]] \in {NoProc, p}
  BY <1>3, <1>4, <1>6 DEF Unrevoked, Exists
<1>11. \A g \in Family : famLock'[g] = IF famLock[g] = p THEN NoProc ELSE famLock[g]
  BY <1>5 DEF Release
<1> HIDE DEF t
<1>. QED BY <1>5, <1>7, <1>8, <1>9, <1>10, <1>11, ReleaseHolds DEF t

\* Every step keeps the invariant about family locks.
LEMMA NextHolds == Inv /\ FamilyInv /\ [Next]_vars => FamilyInv'
<1> SUFFICES ASSUME Inv, FamilyInv, [Next]_vars PROVE FamilyInv'
  OBVIOUS
<1>0. Inv'
  BY NextInv
<1>1. ASSUME UNCHANGED <<fam, revoked, pc, req, todo, targets, famLock>>
      PROVE  FamilyInv'
  BY <1>1 DEF FamilyInv, HoldsFamily, Revoker, RevokesAll, TokensOf, Unrevoked, Exists
<1>2. CASE UNCHANGED vars
  BY <1>1, <1>2 DEF vars, rows, locks
<1>3. ASSUME NEW p \in Proc, Start(p) PROVE FamilyInv'
  BY <1>0, <1>3, StartHolds
<1>4. ASSUME NEW p \in Proc, LockFamily(p) \/ LockRow(p) PROVE FamilyInv'
  BY <1>0, <1>4, LockHolds
<1>5. ASSUME NEW p \in Proc,
             \/ DecideRotate(p) \/ DecideInvalid(p) \/ DecideReplay(p)
             \/ DecideConflict(p) \/ DecideReuse(p)
      PROVE  FamilyInv'
  <2>1. PICK label \in {"commit", "update"}, o \in Outcomes :
          /\ pc[p] = "decide" /\ Decide(p, label, o)
          /\ label = "commit" => o # "reuse"
    BY <1>5 DEF DecideRotate, DecideInvalid, DecideReplay, DecideConflict,
       DecideReuse, Outcomes
  <2>. QED BY <1>0, <2>1, DecideHolds
<1>6. ASSUME NEW p \in Proc, StartUpdate(p) \/ FinishUpdate(p) PROVE FamilyInv'
  BY <1>0, <1>6, UpdateHolds
<1>7. ASSUME NEW p \in Proc, CommitLogin(p) PROVE FamilyInv'
  BY <1>0, <1>7, LoginHolds
<1>8. ASSUME NEW p \in Proc, CommitRotate(p) PROVE FamilyInv'
  BY <1>0, <1>8, RotateHolds
<1>9. ASSUME NEW p \in Proc,
             CommitAnswer(p) \/ CommitRevokeFamily(p) \/ Abort(p) \/ Remember(p)
      PROVE  FamilyInv'
  <2>1. Finished(p) /\ UNCHANGED fam /\ revoked \subseteq revoked'
    BY <1>9 DEF CommitAnswer, CommitRevokeFamily, Abort, Remember, rows
  <2>2. Release(p) \/ (pc[p] = "remember" /\ UNCHANGED famLock)
    BY <1>9 DEF CommitAnswer, CommitRevokeFamily, Abort, Remember, locks
  <2>3. \A f \in Family : famLock'[f] = IF famLock[f] = p THEN NoProc ELSE famLock[f]
    BY <2>2 DEF Release, FamilyInv, HoldsFamily
  <2>4. \A t \in Token : Unrevoked(t)' => Unrevoked(t)
    BY <2>1 DEF Unrevoked, Exists
  <2>5. pc'[p] = "idle" /\ todo'[p] = {}
        /\ \A q \in Proc : q # p =>
             /\ pc'[q] = pc[q] /\ targets'[q] = targets[q] /\ todo'[q] = todo[q]
             /\ req'[q].kind = req[q].kind /\ req'[q].token = req[q].token
             /\ req'[q].out = req[q].out
    BY <2>1, FinishedOthers
  <2>. QED BY <1>0, <2>1, <2>3, <2>4, <2>5, ReleaseHolds
<1>10. ASSUME NEW p \in Proc, CommitRevokeAll(p) PROVE FamilyInv'
  <2>1. Release(p) /\ UNCHANGED fam /\ revoked \subseteq revoked'
    BY <1>10 DEF CommitRevokeAll
  <2>2. pc'[p] = "idle" /\ todo'[p] = {}
    BY <1>10 DEF CommitRevokeAll, Inv, TypeOK
  <2>3. ASSUME NEW q \in Proc, q # p
        PROVE  /\ pc'[q] = pc[q] /\ targets'[q] = targets[q] /\ todo'[q] = todo[q]
               /\ req'[q].kind = req[q].kind /\ req'[q].token = req[q].token
               /\ req'[q].out = req[q].out
    <3>1. /\ pc'[q] = pc[q] /\ targets'[q] = targets[q] /\ todo'[q] = todo[q]
          /\ req'[q] = [req[q] EXCEPT !.same = FALSE] /\ req[q] \in Request
      BY <1>10, <2>3 DEF CommitRevokeAll, Inv, TypeOK
    <3>. QED BY <3>1 DEF Request
  <2>4. \A f \in Family : famLock'[f] = IF famLock[f] = p THEN NoProc ELSE famLock[f]
    BY <2>1 DEF Release
  <2>5. \A t \in Token : Unrevoked(t)' => Unrevoked(t)
    BY <2>1 DEF Unrevoked, Exists
  <2>. QED BY <1>0, <2>1, <2>2, <2>3, <2>4, <2>5, ReleaseHolds
<1>11. CASE Environment
  <2> DEFINE Quiet == UNCHANGED <<fam, revoked, pc, req, todo, targets, famLock>>
  <2>1. EnableUser => Quiet
    BY DEF EnableUser, rows, locks
  <2>2. \A f \in Family : Grow(f) \/ Expire(f) => Quiet
    BY DEF Grow, Expire, locks
  <2>3. \A t \in Token : EntryExpires(t) => Quiet
    BY DEF EntryExpires, rows, locks
  <2> HIDE DEF Quiet
  <2>4. Quiet
    BY <1>11, <2>1, <2>2, <2>3 DEF Environment
  <2>. QED BY <1>1, <2>4 DEF Quiet
<1>. QED BY <1>2, <1>3, <1>4, <1>5, <1>6, <1>7, <1>8, <1>9, <1>10, <1>11 DEF Next, Run

-----------------------------------------------------------------------------
(* Which steps write rows.                                                  *)

\* The rows of a family, and the families that were ended, are only written
\* by a commit.
WritesChain(p) ==
  \/ CommitLogin(p) \/ CommitRotate(p)
  \/ CommitRevokeFamily(p) \/ CommitRevokeAll(p)

LEMMA ChainMoves ==
  ASSUME Next
  PROVE  UNCHANGED <<fam, revoked, replacedBy, ended>> \/ \E p \in Proc : WritesChain(p)
<1> DEFINE Quiet == UNCHANGED <<fam, revoked, replacedBy, ended>>
<1>1. ASSUME NEW p \in Proc, Start(p) PROVE Quiet
  BY <1>1 DEF Start, StartLogin, StartRefresh, StartLogout, StartRevokeAll, Begin,
     rows, hist
<1>2. ASSUME NEW p \in Proc, LockFamily(p) \/ LockRow(p) PROVE Quiet
  BY <1>2 DEF LockFamily, LockRow, rows, hist
<1>3. ASSUME NEW p \in Proc,
             \/ DecideRotate(p) \/ DecideInvalid(p) \/ DecideReplay(p)
             \/ DecideConflict(p) \/ DecideReuse(p)
      PROVE  Quiet
  BY <1>3 DEF DecideRotate, DecideInvalid, DecideReplay, DecideConflict,
     DecideReuse, Decide, rows, hist
<1>4. ASSUME NEW p \in Proc, StartUpdate(p) \/ FinishUpdate(p) PROVE Quiet
  BY <1>4 DEF StartUpdate, FinishUpdate, rows, hist
<1>5. ASSUME NEW p \in Proc, CommitAnswer(p) \/ Abort(p) \/ Remember(p) PROVE Quiet
  BY <1>5 DEF CommitAnswer, Abort, Remember, rows, hist
<1>6. ASSUME Environment PROVE Quiet
  <2>1. EnableUser => Quiet
    BY DEF EnableUser, rows, hist
  <2>2. \A f \in Family : Grow(f) \/ Expire(f) => Quiet
    BY DEF Grow, Expire, hist
  <2>3. \A t \in Token : EntryExpires(t) => Quiet
    BY DEF EntryExpires, rows, hist
  <2> HIDE DEF Quiet
  <2>. QED BY <1>6, <2>1, <2>2, <2>3 DEF Environment
<1> HIDE DEF Quiet
<1>7. ASSUME NEW p \in Proc, Run(p) PROVE Quiet \/ WritesChain(p)
  BY <1>2, <1>3, <1>4, <1>5, <1>7 DEF Run, WritesChain
<1>8. Quiet \/ \E p \in Proc : WritesChain(p)
  BY <1>1, <1>5, <1>6, <1>7 DEF Next
<1>. QED BY <1>8 DEF Quiet

\* A revoked row stays revoked.
LEMMA StaysRevoked == ASSUME Next PROVE revoked \subseteq revoked'
<1>1. ASSUME NEW p \in Proc, WritesChain(p) PROVE revoked \subseteq revoked'
  BY <1>1 DEF WritesChain, CommitLogin, CommitRotate, CommitRevokeFamily, CommitRevokeAll
<1>. QED BY <1>1, ChainMoves

-----------------------------------------------------------------------------
(* Families that were revoked under their lock.                             *)

EndedInv ==
  /\ EndedFamilyStaysDead
  /\ \A f \in ended : TokensOf(f) # {}

\* A revocation under a family's lock leaves no row of it unrevoked, and
\* nothing brings one back: a login opens another family, and a rotation needs
\* a live row.
LEMMA NextEnded == Inv /\ FamilyInv /\ EndedInv /\ [Next]_vars => EndedInv'
<1> SUFFICES ASSUME Inv, FamilyInv, EndedInv, [Next]_vars PROVE EndedInv'
  OBVIOUS
<1>0. /\ \A t \in Token : fam[t] \in Family \cup {NoFamily}
      /\ ended \subseteq Family
  BY DEF Inv, TypeOK
<1>1. ASSUME UNCHANGED <<fam, revoked, ended>> PROVE EndedInv'
  BY <1>1 DEF EndedInv, EndedFamilyStaysDead, TokensOf, Unrevoked, Exists
<1>2. ASSUME NEW p \in Proc, CommitLogin(p) PROVE EndedInv'
  <2>1. PICK f \in Family, n \in Token :
          TokensOf(f) = {} /\ ~Exists(n) /\ fam' = [fam EXCEPT ![n] = f]
    BY <1>2 DEF CommitLogin
  <2>2. UNCHANGED <<revoked, ended>>
    BY <1>2 DEF CommitLogin, hist
  <2>3. /\ fam'[n] = f /\ f \notin ended
        /\ \A t \in Token : t # n => fam'[t] = fam[t]
    BY <2>1 DEF Inv, TypeOK, EndedInv
  <2>. QED BY <1>0, <2>1, <2>2, <2>3, FamilyAssumption, NullAssumption
       DEF EndedInv, EndedFamilyStaysDead, TokensOf, Unrevoked, Exists
<1>3. ASSUME NEW p \in Proc, CommitRotate(p) PROVE EndedInv'
  <2> DEFINE t == req[p].token
  <2>1. t \in Token /\ Live(t)
    BY <1>3 DEF CommitRotate, Inv, RequestInv, PresentsRow, LocksHeld
  <2>2. PICK n \in Token :
          ~Exists(n) /\ fam' = [fam EXCEPT ![n] = fam[t]] /\ revoked' = revoked \cup {t}
    BY <1>3 DEF CommitRotate
  <2>3. UNCHANGED ended
    BY <1>3 DEF CommitRotate, hist
  <2>4. fam[t] \notin ended
    BY <2>1 DEF EndedInv, EndedFamilyStaysDead, Live
  <2>5. /\ fam'[n] = fam[t]
        /\ \A u \in Token : u # n => fam'[u] = fam[u]
    BY <2>2 DEF Inv, TypeOK
  <2> HIDE DEF t
  <2>. QED BY <1>0, <2>2, <2>3, <2>4, <2>5, FamilyAssumption, NullAssumption
       DEF EndedInv, EndedFamilyStaysDead, TokensOf, Unrevoked, Exists
<1>4. ASSUME NEW p \in Proc, CommitRevokeFamily(p) \/ CommitRevokeAll(p)
      PROVE  EndedInv'
  <2>1. /\ pc[p] = "commit" /\ Revoker(p) /\ UNCHANGED fam
        /\ revoked' = revoked \cup targets[p]
        /\ ended' = ended \cup FamiliesOf(p)
    BY <1>4 DEF CommitRevokeFamily, CommitRevokeAll, Revoker
  <2>2. HoldsFamily(p)
    BY DEF FamilyInv
  <2>3. \A t \in Token : Unrevoked(t) /\ famLock[fam[t]] = p => t \in targets[p]
    BY <2>1, <2>2 DEF HoldsFamily
  <2>4. \A f \in FamiliesOf(p) : TokensOf(f) # {}
    BY <2>2 DEF HoldsFamily, FamiliesOf
  <2>. QED BY <2>1, <2>3, <2>4
       DEF EndedInv, EndedFamilyStaysDead, TokensOf, Unrevoked, Exists, FamiliesOf
<1>5. CASE UNCHANGED vars
  BY <1>1, <1>5 DEF vars, rows, hist
<1>6. CASE Next
  BY <1>1, <1>2, <1>3, <1>4, <1>6, ChainMoves DEF WritesChain
<1>. QED BY <1>5, <1>6

-----------------------------------------------------------------------------
(* The replay entries.                                                      *)

Replaying(p, t) ==
  pc[p] = "commit" /\ req[p].out = "replay" /\ req[p].token = t
Remembering(p, t) == pc[p] = "remember" /\ req[p].token = t

\* The replays answered for a row and the one whose use is already counted.
Answered(t) == served[t] + (IF \E p \in Proc : Replaying(p, t) THEN 1 ELSE 0)

\* What was answered never exceeds what the entry counted.  The entry is
\* written once, by the only rotation of the row, and is never counted on
\* before; an entry that expired is never written again.
EntryInv(t) ==
  /\ Answered(t) <= MaxUses
  /\ entry[t] # NoEntry => Answered(t) <= entry[t].uses
  /\ replacedBy[t] = NoToken \/ (\E p \in Proc : Remembering(p, t)) =>
       entry[t] = NoEntry /\ Answered(t) = 0
  /\ \A p, q \in Proc : Remembering(p, t) /\ Remembering(q, t) => p = q
  /\ \A p \in Proc : Remembering(p, t) => replacedBy[t] # NoToken
  /\ \A p \in Proc : Replaying(p, t) =>
       replacedBy[t] # NoToken /\ replacedBy[replacedBy[t]] = NoToken

ReplayInv == \A t \in Token : EntryInv(t)

\* A replay under way holds the lock of its row's family.
LEMMA ReplayingHolds ==
  ASSUME Inv, FamilyInv, NEW p \in Proc, NEW t \in Token, Replaying(p, t)
  PROVE  famLock[fam[t]] = p
  BY DEF Replaying, Inv, RequestInv, PresentsRow, FamilyInv, HoldsFamily

\* A step that answers no replay and writes no new entry for a row.
LEMMA FewerReplays ==
  ASSUME Inv, Inv', NEW t \in Token, EntryInv(t),
         served'[t] = served[t], UNCHANGED replacedBy,
         \/ entry'[t] = NoEntry
         \/ entry[t] # NoEntry /\ entry'[t].uses >= entry[t].uses,
         \A p \in Proc : Replaying(p, t)' => Replaying(p, t),
         \A p \in Proc : Remembering(p, t)' => Remembering(p, t)
  PROVE  EntryInv(t)'
<1>1. /\ served[t] \in Nat /\ entry[t].uses \in Nat /\ entry'[t].uses \in Nat
      /\ MaxUses \in Nat
  BY UsesAssumption DEF Inv, TypeOK, Entry
<1>2. Answered(t) \in Nat /\ Answered(t)' \in Nat /\ Answered(t)' <= Answered(t)
  BY <1>1 DEF Answered
<1>3. Answered(t)' <= MaxUses
  BY <1>1, <1>2 DEF EntryInv
<1>4. entry'[t] # NoEntry => Answered(t)' <= entry'[t].uses
  BY <1>1, <1>2 DEF EntryInv
<1>5. replacedBy'[t] = NoToken \/ (\E p \in Proc : Remembering(p, t)') =>
        entry'[t] = NoEntry /\ Answered(t)' = 0
  BY <1>1, <1>2 DEF EntryInv
<1>. QED BY <1>3, <1>4, <1>5 DEF EntryInv

\* A replay is decided under the family lock: its use is counted first, and no
\* other replay of the row is under way.
LEMMA DecideReplayInv ==
  ASSUME Inv, Inv', FamilyInv, ReplayInv, NEW p \in Proc, DecideReplay(p)
  PROVE  ReplayInv'
<1>1. PresentsRow(p) /\ HoldsFamily(p) /\ req[p] \in Request
  BY DEF Inv, RequestInv, FamilyInv, TypeOK
<1>0. PICK t \in Token : t = req[p].token
  BY <1>1 DEF DecideReplay, PresentsRow
<1>2. pc[p] = "decide" /\ req[p].kind = "refresh" /\ Exists(t)
      /\ famLock[fam[t]] = p
  BY <1>0, <1>1 DEF DecideReplay, PresentsRow, HoldsFamily
<1>3. /\ req' = [req EXCEPT ![p] = [@ EXCEPT !.out = "replay", !.same = TRUE]]
      /\ pc' = [pc EXCEPT ![p] = "commit"]
      /\ UNCHANGED <<served, replacedBy>>
  BY DEF DecideReplay, Decide, rows, hist
<1>4. /\ pc'[p] = "commit" /\ req'[p] = [req[p] EXCEPT !.out = "replay", !.same = TRUE]
      /\ \A q \in Proc : q # p => pc'[q] = pc[q] /\ req'[q] = req[q]
  BY <1>3 DEF Inv, TypeOK
<1>5. req'[p].out = "replay" /\ req'[p].token = t
  BY <1>0, <1>1, <1>4, DecidedRequest
<1>6. entry' = [entry EXCEPT ![t].uses = @ + 1] /\ entry[t].uses < MaxUses
      /\ entry[t] # NoEntry /\ replacedBy[t] # NoToken
      /\ replacedBy[replacedBy[t]] = NoToken
  BY <1>0 DEF DecideReplay, Claimed, CapLeft, ReplayAllowed
<1>7. entry[t] \in Entry /\ served[t] \in Nat /\ MaxUses \in Nat
  BY <1>2, UsesAssumption DEF Inv, TypeOK
<1>8. entry'[t] = [entry[t] EXCEPT !.uses = @ + 1]
      /\ \A u \in Token : u # t => entry'[u] = entry[u]
  BY <1>2, <1>6 DEF Inv, TypeOK
<1>9. entry'[t].uses = entry[t].uses + 1 /\ entry[t].uses \in Nat
  BY <1>7, <1>8 DEF Entry
<1>10. \A q \in Proc : q # p => ~Replaying(q, t)
  BY <1>2, ReplayingHolds
<1>11. ~Replaying(p, t) /\ ~Remembering(p, t)
  BY <1>0, <1>2 DEF Replaying, Remembering
<1>12. \A q \in Proc : ~Remembering(q, t)
  BY <1>2, <1>6 DEF ReplayInv, EntryInv
<1>13. EntryInv(t)'
  <2>1. Answered(t) = served[t] /\ served[t] <= entry[t].uses
    BY <1>2, <1>6, <1>7, <1>10, <1>11 DEF ReplayInv, EntryInv, Answered
  <2>2. Answered(t)' = served[t] + 1
    BY <1>3, <1>4, <1>5 DEF Answered, Replaying
  <2>3. Answered(t)' <= MaxUses /\ Answered(t)' <= entry'[t].uses
    BY <1>6, <1>7, <1>9, <2>1, <2>2
  <2>4. \A q \in Proc : ~Remembering(q, t)'
    BY <1>4, <1>12 DEF Remembering
  <2>. QED BY <1>3, <1>6, <2>3, <2>4 DEF EntryInv
<1>14. ASSUME NEW u \in Token, u # t PROVE EntryInv(u)'
  <2>1. entry'[u] = entry[u] /\ served'[u] = served[u] /\ entry[u].uses \in Nat
    BY <1>3, <1>8, <1>14 DEF Inv, TypeOK, Entry
  <2>2. \A q \in Proc : /\ Replaying(q, u)' => Replaying(q, u)
                        /\ Remembering(q, u)' => Remembering(q, u)
    BY <1>0, <1>4, <1>5, <1>14 DEF Replaying, Remembering
  <2>. QED BY <1>3, <2>1, <2>2, FewerReplays DEF ReplayInv
<1>. QED BY <1>13, <1>14 DEF ReplayInv

\* A rotation starts the one time its row is remembered, and rotates no row
\* that a replay is about to hand out: the replay holds the family's lock.
LEMMA CommitRotateReplay ==
  ASSUME Inv, Inv', FamilyInv, ReplayInv, NEW p \in Proc, CommitRotate(p)
  PROVE  ReplayInv'
<1>1. PresentsRow(p) /\ LocksHeld(p) /\ HoldsFamily(p)
  BY DEF Inv, RequestInv, FamilyInv
<1>2. pc[p] = "commit" /\ req[p].out = "rotate" /\ req[p].kind = "refresh"
  BY <1>1 DEF CommitRotate, PresentsRow
<1>0. PICK t \in Token : t = req[p].token
  BY <1>1, <1>2 DEF PresentsRow
<1>3. famLock[fam[t]] = p /\ replacedBy[t] = NoToken
  BY <1>0, <1>1, <1>2 DEF PresentsRow, LocksHeld, HoldsFamily, Live
<1>4. PICK n \in Token :
        /\ replacedBy' = [replacedBy EXCEPT ![t] = n]
        /\ req' = [req EXCEPT ![p].next = n]
  BY <1>0 DEF CommitRotate
<1>5. pc' = [pc EXCEPT ![p] = "remember"] /\ UNCHANGED <<entry, served>>
  BY DEF CommitRotate, hist
<1>6. /\ pc'[p] = "remember" /\ req'[p].token = t
      /\ \A q \in Proc : q # p => pc'[q] = pc[q] /\ req'[q] = req[q]
  <2>1. req[p] \in Request /\ req'[p] = [req[p] EXCEPT !.next = n]
    BY <1>4 DEF Inv, TypeOK
  <2>2. req'[p].token = t
    BY <1>0, <2>1 DEF Request
  <2>. QED BY <1>4, <1>5, <2>2 DEF Inv, TypeOK
<1>7. /\ replacedBy'[t] = n /\ n # NoToken
      /\ \A u \in Token : u # t => replacedBy'[u] = replacedBy[u]
  BY <1>3, <1>4, NullAssumption DEF Inv, TypeOK
<1>8. \A u \in Token : Answered(u) \in Nat
  BY DEF Answered, Inv, TypeOK
<1>9. \A u \in Token, q \in Proc : Replaying(q, u)' <=> Replaying(q, u)
  BY <1>2, <1>6 DEF Replaying
<1>10. \A u \in Token : Answered(u)' = Answered(u)
  BY <1>5, <1>9 DEF Answered
<1>11. ASSUME NEW q \in Proc, NEW u \in Token, Replaying(q, u)
       PROVE  replacedBy[u] # t
  <2>1. q # p /\ famLock[fam[u]] = q
    BY <1>2, <1>11, ReplayingHolds DEF Replaying
  <2>2. replacedBy[u] # NoToken => fam[replacedBy[u]] = fam[u]
    BY DEF Inv, ChainIsLinear
  <2>. QED BY <1>3, <2>1, <2>2, NullAssumption
<1>12. EntryInv(t)'
  <2>1. /\ entry[t] = NoEntry /\ Answered(t) = 0
        /\ \A q \in Proc : ~Remembering(q, t) /\ ~Replaying(q, t)
    BY <1>3 DEF ReplayInv, EntryInv
  <2>2. \A q \in Proc : Remembering(q, t)' => q = p
    BY <1>6, <2>1 DEF Remembering
  <2>. QED BY <1>5, <1>7, <1>9, <1>10, <2>1, <2>2, UsesAssumption DEF EntryInv
<1>13. ASSUME NEW u \in Token, u # t PROVE EntryInv(u)'
  <2>1. EntryInv(u)
    BY DEF ReplayInv
  <2>2. \A q \in Proc : Remembering(q, u)' <=> Remembering(q, u)
    BY <1>0, <1>2, <1>6, <1>13 DEF Remembering
  <2>3. ASSUME NEW q \in Proc, Replaying(q, u)'
        PROVE  replacedBy'[u] # NoToken /\ replacedBy'[replacedBy'[u]] = NoToken
    <3>1. Replaying(q, u) /\ replacedBy[u] # NoToken /\ replacedBy[replacedBy[u]] = NoToken
      BY <1>9, <2>1, <2>3 DEF EntryInv
    <3>2. replacedBy[u] \in Token /\ replacedBy[u] # t
      BY <1>11, <3>1 DEF Inv, TypeOK
    <3>. QED BY <1>7, <1>13, <3>1, <3>2
  <2>. QED BY <1>5, <1>7, <1>10, <1>13, <2>1, <2>2, <2>3 DEF EntryInv
<1>. QED BY <1>12, <1>13 DEF ReplayInv

\* An answered replay moves from the replays under way to those served.
LEMMA CommitAnswerReplay ==
  ASSUME Inv, Inv', FamilyInv, ReplayInv, NEW p \in Proc, CommitAnswer(p)
  PROVE  ReplayInv'
<1>1. PresentsRow(p) /\ pc[p] = "commit" /\ req[p].out \in {"replay", "conflict", "invalid"}
  BY DEF Inv, RequestInv, CommitAnswer
<1>2. PICK t \in Token : t = req[p].token
  BY <1>1 DEF PresentsRow
<1>3. /\ pc'[p] = "idle"
      /\ \A q \in Proc : q # p => pc'[q] = pc[q] /\ req'[q] = req[q]
  BY FinishedOthers DEF CommitAnswer
<1>4. /\ served' = [served EXCEPT ![t] = IF req[p].out = "replay" THEN @ + 1 ELSE @]
      /\ UNCHANGED <<entry, replacedBy>>
  BY <1>2 DEF CommitAnswer, rows
<1>5. /\ served'[t] = IF req[p].out = "replay" THEN served[t] + 1 ELSE served[t]
      /\ \A u \in Token : u # t => served'[u] = served[u]
  BY <1>4 DEF Inv, TypeOK
<1>6. ASSUME NEW u \in Token
      PROVE  /\ entry[u].uses \in Nat
             /\ \A q \in Proc : /\ Replaying(q, u)' <=> q # p /\ Replaying(q, u)
                                /\ Remembering(q, u)' <=> Remembering(q, u)
  BY <1>1, <1>3 DEF Replaying, Remembering, Inv, TypeOK, Entry
<1>7. ASSUME NEW u \in Token, u # t \/ req[p].out # "replay" PROVE EntryInv(u)'
  BY <1>4, <1>5, <1>6, <1>7, FewerReplays DEF ReplayInv
<1>8. CASE req[p].out = "replay"
  <2>1. Replaying(p, t)
    BY <1>1, <1>2, <1>8 DEF Replaying
  <2>2. \A q \in Proc : Replaying(q, t) => q = p
    BY <2>1, ReplayingHolds
  <2>3. Answered(t) = served[t] + 1
    BY <2>1 DEF Answered
  <2>4. Answered(t)' = served'[t]
    BY <1>6, <2>2 DEF Answered, Inv, TypeOK
  <2>5. EntryInv(t)'
    BY <1>4, <1>5, <1>6, <1>8, <2>3, <2>4 DEF ReplayInv, EntryInv
  <2>. QED BY <1>7, <2>5 DEF ReplayInv
<1>. QED BY <1>7, <1>8 DEF ReplayInv

\* The entry is written with no use taken, when none has been answered.
LEMMA RememberReplay ==
  ASSUME Inv, Inv', FamilyInv, ReplayInv, NEW p \in Proc, Remember(p)
  PROVE  ReplayInv'
<1>1. PresentsRow(p) /\ pc[p] = "remember" /\ req[p] \in Request
  BY DEF Inv, RequestInv, Remember, TypeOK
<1>2. PICK t \in Token : t = req[p].token
  BY <1>1 DEF PresentsRow
<1>3. /\ pc'[p] = "idle"
      /\ \A q \in Proc : q # p => pc'[q] = pc[q] /\ req'[q] = req[q]
  BY FinishedOthers DEF Remember
<1>4. UNCHANGED <<served, replacedBy>>
  BY DEF Remember, rows, hist
<1>5. \A u \in Token, q \in Proc :
        /\ Replaying(q, u)' <=> Replaying(q, u)
        /\ Remembering(q, u)' <=> q # p /\ Remembering(q, u)
  BY <1>1, <1>3 DEF Replaying, Remembering
<1>6. /\ \A u \in Token : u # t => entry'[u] = entry[u]
      /\ entry'[t] = entry[t] \/ entry'[t].uses = 0
  BY <1>2 DEF Remember, Inv, TypeOK
<1>7. \A u \in Token : entry[u].uses \in Nat
  BY DEF Inv, TypeOK, Entry
<1>8. ASSUME NEW u \in Token, u # t PROVE EntryInv(u)'
  BY <1>4, <1>5, <1>6, <1>7, <1>8, FewerReplays DEF ReplayInv
<1>9. EntryInv(t)'
  <2>1. Remembering(p, t)
    BY <1>1, <1>2 DEF Remembering
  <2>2. /\ entry[t] = NoEntry /\ Answered(t) = 0 /\ replacedBy[t] # NoToken
        /\ \A q \in Proc : Remembering(q, t) => q = p
    BY <2>1 DEF ReplayInv, EntryInv
  <2>3. Answered(t)' = Answered(t)
    BY <1>4, <1>5 DEF Answered
  <2>4. entry'[t] # NoEntry => Answered(t)' <= entry'[t].uses
    BY <1>6, <2>2, <2>3
  <2>. QED BY <1>4, <1>5, <2>2, <2>3, <2>4, UsesAssumption DEF ReplayInv, EntryInv
<1>. QED BY <1>8, <1>9 DEF ReplayInv

\* Every step keeps the accounts of the replays.
LEMMA NextReplay == Inv /\ FamilyInv /\ ReplayInv /\ [Next]_vars => ReplayInv'
<1> SUFFICES ASSUME Inv, FamilyInv, ReplayInv, [Next]_vars PROVE ReplayInv'
  OBVIOUS
<1>0. Inv'
  BY NextInv
<1>1. \A t \in Token : entry[t].uses \in Nat /\ entry[t] \in Entry
  BY DEF Inv, TypeOK, Entry
<1>2. ASSUME UNCHANGED <<served, replacedBy, pc, req, entry>> PROVE ReplayInv'
  BY <1>0, <1>1, <1>2, FewerReplays DEF ReplayInv, Replaying, Remembering
<1>3. ASSUME UNCHANGED <<served, replacedBy, entry>>, NEW p \in Proc,
             \A q \in Proc : q # p => pc'[q] = pc[q] /\ req'[q] = req[q],
             pc'[p] \in {"commit", "remember"} => req'[p].out \notin {"replay", "rotate"}
      PROVE  ReplayInv'
  <2>1. pc'[p] = "remember" => req'[p].out = "rotate"
    BY <1>0 DEF Inv, RequestInv, PresentsRow
  <2>2. \A t \in Token, q \in Proc : /\ Replaying(q, t)' => Replaying(q, t)
                                     /\ Remembering(q, t)' => Remembering(q, t)
    BY <1>3, <2>1 DEF Replaying, Remembering
  <2>. QED BY <1>0, <1>1, <1>3, <2>2, FewerReplays DEF ReplayInv
<1>4. CASE UNCHANGED vars
  BY <1>2, <1>4 DEF vars, rows, hist
<1>5. ASSUME NEW p \in Proc, Start(p) PROVE ReplayInv'
  <2>1. PICK r, label, families : Begin(p, r, label, families)
    BY <1>5 DEF Start, StartLogin, StartRefresh, StartLogout, StartRevokeAll
  <2>2. \A q \in Proc : q # p => pc'[q] = pc[q] /\ req'[q] = req[q]
    BY <2>1 DEF Begin, Inv, TypeOK
  <2>3. UNCHANGED <<served, replacedBy, entry>>
    BY <2>1 DEF Begin, rows, hist
  <2>4. pc'[p] \in {"commit", "remember"} => req'[p].out \notin {"replay", "rotate"}
    <3>1. CASE StartLogin(p)
      BY <3>1 DEF StartLogin, Begin, NoRequest, Inv, TypeOK
    <3>2. CASE ~StartLogin(p)
      BY <1>5, <3>2 DEF Start, StartRefresh, StartLogout, StartRevokeAll, Begin,
         Inv, TypeOK
    <3>. QED BY <3>1, <3>2
  <2>. QED BY <1>3, <2>2, <2>3, <2>4
<1>6. ASSUME NEW p \in Proc,
             \/ LockFamily(p) \/ LockRow(p) \/ StartUpdate(p) \/ FinishUpdate(p)
      PROVE  ReplayInv'
  <2>1. UNCHANGED <<served, replacedBy, entry, req>>
    BY <1>6 DEF LockFamily, LockRow, StartUpdate, FinishUpdate, rows, hist
  <2>2. \A q \in Proc : q # p => pc'[q] = pc[q]
    BY <1>6 DEF LockFamily, LockRow, StartUpdate, FinishUpdate, Inv, TypeOK
  <2>3. pc[p] \in {"lock", "row", "update", "wait"}
    BY <1>6 DEF LockFamily, LockRow, StartUpdate, FinishUpdate
  <2>4. req'[p].out \in {"none", "reuse"}
    BY <2>1, <2>3 DEF Inv, RequestInv, PresentsRow
  <2>. QED BY <1>3, <2>1, <2>2, <2>4
<1>7. ASSUME NEW p \in Proc, DecideReplay(p) PROVE ReplayInv'
  BY <1>0, <1>7, DecideReplayInv
<1>8. ASSUME NEW p \in Proc, NEW label \in {"commit", "update"},
             NEW o \in Outcomes \ {"replay"},
             pc[p] = "decide", Decide(p, label, o),
             UNCHANGED entry \/ ReplayRefused(p)
      PROVE  ReplayInv'
  <2>1. req[p] \in Request /\ req[p].token \in Token
    BY <1>8 DEF Inv, TypeOK, RequestInv, PresentsRow
  <2>2. UNCHANGED <<served, replacedBy>> /\ pc'[p] = label
        /\ req'[p] = [req[p] EXCEPT !.out = o, !.same = TRUE]
        /\ \A q \in Proc : q # p => pc'[q] = pc[q] /\ req'[q] = req[q]
    BY <1>8 DEF Decide, rows, hist, Inv, TypeOK
  <2>3. req'[p].out = o
    BY <2>1, <2>2, DecidedRequest
  <2>4. \A t \in Token, q \in Proc : /\ Replaying(q, t)' => Replaying(q, t)
                                     /\ Remembering(q, t)' => Remembering(q, t)
    BY <1>8, <2>2, <2>3 DEF Replaying, Remembering
  <2>5. ASSUME NEW t \in Token
        PROVE  \/ entry'[t] = NoEntry
               \/ entry[t] # NoEntry /\ entry'[t].uses >= entry[t].uses
    <3>1. CASE UNCHANGED entry
      BY <1>1, <3>1
    <3>2. CASE ReplayAllowed(p) /\ entry' = Claimed(p)
      <4>1. CASE t = req[p].token
        <5>1. entry'[t] = [entry[t] EXCEPT !.uses = @ + 1] /\ entry[t] # NoEntry
          BY <3>2, <4>1 DEF Claimed, ReplayAllowed, Inv, TypeOK
        <5>2. entry'[t].uses = entry[t].uses + 1
          BY <1>1, <5>1 DEF Entry
        <5>. QED BY <1>1, <5>1, <5>2
      <4>2. CASE t # req[p].token
        BY <1>1, <2>1, <3>2, <4>2 DEF Claimed, Inv, TypeOK
      <4>. QED BY <4>1, <4>2
    <3>. QED BY <1>8, <3>1, <3>2 DEF ReplayRefused
  <2>. QED BY <1>0, <2>2, <2>4, <2>5, FewerReplays DEF ReplayInv
<1>9. ASSUME NEW p \in Proc,
             DecideRotate(p) \/ DecideInvalid(p) \/ DecideConflict(p) \/ DecideReuse(p)
      PROVE  ReplayInv'
  BY <1>8, <1>9 DEF DecideRotate, DecideInvalid, DecideConflict, DecideReuse, Outcomes
<1>10. ASSUME NEW p \in Proc,
              CommitLogin(p) \/ CommitRevokeFamily(p) \/ Abort(p)
       PROVE  ReplayInv'
  <2>1. Finished(p) /\ UNCHANGED <<served, replacedBy, entry>>
    BY <1>10 DEF CommitLogin, CommitRevokeFamily, Abort, rows, hist
  <2>. QED BY <1>3, <2>1, FinishedOthers
<1>11. ASSUME NEW p \in Proc, CommitRotate(p) PROVE ReplayInv'
  BY <1>0, <1>11, CommitRotateReplay
<1>12. ASSUME NEW p \in Proc, CommitAnswer(p) PROVE ReplayInv'
  BY <1>0, <1>12, CommitAnswerReplay
<1>13. ASSUME NEW p \in Proc, CommitRevokeAll(p) PROVE ReplayInv'
  <2>1. pc'[p] = "idle" /\ UNCHANGED <<served, replacedBy>>
        /\ \A q \in Proc : q # p =>
             pc'[q] = pc[q] /\ req'[q] = [req[q] EXCEPT !.same = FALSE]
    BY <1>13 DEF CommitRevokeAll, Inv, TypeOK
  <2>2. \A q \in Proc : q # p => req'[q].out = req[q].out /\ req'[q].token = req[q].token
    <3>1. ASSUME NEW r \in Request
          PROVE  /\ [r EXCEPT !.same = FALSE].out = r.out
                 /\ [r EXCEPT !.same = FALSE].token = r.token
      BY <3>1 DEF Request
    <3>. QED BY <2>1, <3>1 DEF Inv, TypeOK
  <2>3. \A t \in Token, q \in Proc : /\ Replaying(q, t)' => Replaying(q, t)
                                     /\ Remembering(q, t)' => Remembering(q, t)
    BY <2>1, <2>2 DEF Replaying, Remembering
  <2>4. \A t \in Token : entry'[t] = [entry[t] EXCEPT !.same = FALSE]
    BY <1>13 DEF CommitRevokeAll
  <2>5. \A t \in Token : /\ entry'[t].uses = entry[t].uses
                         /\ entry[t] = NoEntry => entry'[t] = NoEntry
    <3> SUFFICES ASSUME NEW t \in Token
                 PROVE  /\ entry'[t].uses = entry[t].uses
                        /\ entry[t] = NoEntry => entry'[t] = NoEntry
      OBVIOUS
    <3>1. /\ entry'[t].token = entry[t].token /\ entry'[t].client = entry[t].client
          /\ entry'[t].uses = entry[t].uses /\ entry'[t].same = FALSE
          /\ entry'[t] \in Entry /\ entry[t] \in Entry
      BY <1>0, <1>1, <2>4 DEF Entry, Inv, TypeOK
    <3>2. entry[t].same = FALSE => entry'[t] = entry[t]
      BY <3>1 DEF Entry
    <3>3. NoEntry.same = FALSE
      BY DEF NoEntry
    <3>. QED BY <3>1, <3>2, <3>3
  <2>6. \A t \in Token : \/ entry'[t] = NoEntry
                         \/ entry[t] # NoEntry /\ entry'[t].uses >= entry[t].uses
    BY <1>1, <2>5
  <2>7. ASSUME NEW t \in Token PROVE EntryInv(t)'
    BY <1>0, <2>1, <2>3, <2>6, FewerReplays DEF ReplayInv
  <2>. QED BY <2>7 DEF ReplayInv
<1>14. ASSUME NEW p \in Proc, Remember(p) PROVE ReplayInv'
  BY <1>0, <1>14, RememberReplay
<1>15. CASE Environment
  <2>1. ASSUME NEW t \in Token, EntryExpires(t) PROVE ReplayInv'
    <3>1. \A u \in Token : entry'[u] = NoEntry \/ entry'[u] = entry[u]
      BY <2>1 DEF EntryExpires, Inv, TypeOK
    <3>2. UNCHANGED <<served, replacedBy, pc, req>>
      BY <2>1 DEF EntryExpires, rows, hist
    <3>. QED BY <1>0, <1>1, <3>1, <3>2, FewerReplays
         DEF ReplayInv, Replaying, Remembering
  <2>. QED BY <1>2, <1>15, <2>1 DEF Environment, EnableUser, Grow, Expire, rows, hist
<1>. QED BY <1>4, <1>5, <1>6, <1>7, <1>9, <1>10, <1>11, <1>12, <1>13, <1>14, <1>15
     DEF Next, Run

-----------------------------------------------------------------------------
(* Refinement: the abstract session family.                                 *)

\* The state functions that SessionFamily's variables stand for.
Issued == {t \in Token : Exists(t)}
Phase == [f \in Family |-> IF TokensOf(f) = {} THEN "new"
                           ELSE IF LiveToken(f) = {} THEN "closed" ELSE "open"]
TheOne(S) == IF S = {} THEN NoToken ELSE CHOOSE t \in S : TRUE
Current == [f \in Family |-> TheOne(LiveToken(f))]

\* The one live row of a family is its current token.
LEMMA CurrentIsLive ==
  ASSUME OneLivePerFamily, NEW f \in Family, NEW t \in LiveToken(f)
  PROVE  Current[f] = t
<1>1. \A u \in LiveToken(f) : u = t
  BY DEF OneLivePerFamily, LiveToken
<1>. QED BY <1>1 DEF Current, TheOne

\* The initial state is an initial state of the abstract specification.
LEMMA InitAbs == Init => Abs!Init
<1> SUFFICES ASSUME Init PROVE Abs!Init
  OBVIOUS
<1>1. \A t \in Token : ~Exists(t)
  BY DEF Init, Exists
<1>2. \A f \in Family : TokensOf(f) = {} /\ LiveToken(f) = {}
  BY <1>1, FamilyAssumption, NullAssumption DEF Init, TokensOf, LiveToken, Live, Unrevoked, Exists
<1>. QED BY <1>1, <1>2 DEF Abs!Init

\* Rows that stay as they are: a stuttering step.
LEMMA StutterAbs ==
  ASSUME UNCHANGED <<fam, revoked, replacedBy>>
  PROVE  UNCHANGED Abs!absVars
<1>1. \A f \in Family : TokensOf(f)' = TokensOf(f) /\ LiveToken(f)' = LiveToken(f)
  BY DEF TokensOf, LiveToken, Live, Unrevoked, Exists
<1>2. Issued' = Issued
  BY DEF Issued, Exists
<1>3. Phase' = Phase
  BY <1>1 DEF Phase
<1>4. Current' = Current
  BY <1>1 DEF Current
<1>. QED BY <1>2, <1>3, <1>4 DEF Abs!absVars, Issued, Phase, Current, TheOne

\* A login opens a family.
LEMMA LoginAbs ==
  ASSUME Inv, Inv', NEW p \in Proc, CommitLogin(p)
  PROVE  Abs!Next
<1>1. PICK f \in Family, n \in Token :
        TokensOf(f) = {} /\ ~Exists(n) /\ fam' = [fam EXCEPT ![n] = f]
  BY DEF CommitLogin
<1>2. UNCHANGED <<revoked, replacedBy>>
  BY DEF CommitLogin
<1>3. /\ fam'[n] = f /\ \A t \in Token : t # n => fam'[t] = fam[t]
      /\ f # NoFamily
  BY <1>1, FamilyAssumption, NullAssumption DEF Inv, TypeOK
<1>4. n \notin revoked /\ replacedBy[n] = NoToken
  BY <1>1 DEF Inv, RowsInv
<1>5. LiveToken(f)' = {n} /\ TokensOf(f)' = {n} /\ LiveToken(f) = {}
  BY <1>1, <1>2, <1>3, <1>4 DEF LiveToken, TokensOf, Live, Unrevoked, Exists
<1>6. \A g \in Family : g # f =>
        LiveToken(g)' = LiveToken(g) /\ TokensOf(g)' = TokensOf(g)
  BY <1>1, <1>2, <1>3, FamilyAssumption, NullAssumption
     DEF LiveToken, TokensOf, Live, Unrevoked, Exists
<1>7. n \notin Issued /\ Issued' = Issued \cup {n}
  BY <1>1, <1>3 DEF Issued, Exists
<1>8. Phase[f] = "new" /\ Phase' = [Phase EXCEPT ![f] = "open"]
  BY <1>1, <1>5, <1>6 DEF Phase
<1>9. Current' = [Current EXCEPT ![f] = n]
  <2>1. Current'[f] = n
    BY <1>5 DEF Current, TheOne
  <2>2. \A g \in Family : g # f => Current'[g] = Current[g]
    BY <1>6 DEF Current
  <2>. QED BY <2>1, <2>2 DEF Current
<1>10. Abs!Open(f, n)
  BY <1>7, <1>8, <1>9 DEF Abs!Open, Issued, Phase, Current, TheOne
<1>. QED BY <1>10 DEF Abs!Next

\* A rotation moves its family to the new row.
LEMMA RotateAbs ==
  ASSUME Inv, Inv', NEW p \in Proc, CommitRotate(p)
  PROVE  Abs!Next
<1>1. PresentsRow(p) /\ LocksHeld(p)
  BY DEF Inv, RequestInv
<1>2. pc[p] = "commit" /\ req[p].out = "rotate" /\ req[p].kind = "refresh"
  BY <1>1 DEF CommitRotate, PresentsRow
<1>3. PICK t \in Token : t = req[p].token
  BY <1>1, <1>2 DEF PresentsRow
<1>4. Live(t)
  BY <1>1, <1>2, <1>3 DEF LocksHeld
<1>5. PICK n \in Token :
        /\ ~Exists(n)
        /\ fam' = [fam EXCEPT ![n] = fam[t]]
        /\ revoked' = revoked \cup {t}
        /\ replacedBy' = [replacedBy EXCEPT ![t] = n]
  BY <1>3 DEF CommitRotate
<1>6. PICK f \in Family : f = fam[t]
  BY <1>4 DEF Live, Unrevoked, Exists, Inv, TypeOK
<1>7. /\ fam'[n] = f /\ \A u \in Token : u # n => fam'[u] = fam[u]
      /\ replacedBy'[t] = n /\ \A u \in Token : u # t => replacedBy'[u] = replacedBy[u]
      /\ f # NoFamily /\ n # t
  BY <1>4, <1>5, <1>6, FamilyAssumption, NullAssumption
     DEF Inv, TypeOK, Live, Unrevoked, Exists
<1>8. n \notin revoked /\ replacedBy[n] = NoToken /\ n # NoToken
  BY <1>5, NullAssumption DEF Inv, RowsInv
<1>9. \A u \in Token : Live(u) /\ fam[u] = f => u = t
  BY <1>4, <1>6 DEF Inv, OneLivePerFamily
<1>10. LiveToken(f)' = {n} /\ LiveToken(f) = {t}
  BY <1>4, <1>5, <1>6, <1>7, <1>8, <1>9 DEF LiveToken, Live, Unrevoked, Exists
<1>11. TokensOf(f) # {} /\ TokensOf(f)' # {}
  BY <1>6, <1>7 DEF TokensOf
<1>12. \A g \in Family : g # f =>
         LiveToken(g)' = LiveToken(g) /\ TokensOf(g)' = TokensOf(g)
  BY <1>5, <1>6, <1>7, <1>8, FamilyAssumption, NullAssumption
     DEF LiveToken, TokensOf, Live, Unrevoked, Exists
<1>13. n \notin Issued /\ Issued' = Issued \cup {n}
  BY <1>5, <1>7 DEF Issued, Exists
<1>14. Phase[f] = "open" /\ Phase' = Phase
  BY <1>10, <1>11, <1>12 DEF Phase
<1>15. Current' = [Current EXCEPT ![f] = n]
  <2>1. Current'[f] = n
    BY <1>10 DEF Current, TheOne
  <2>2. \A g \in Family : g # f => Current'[g] = Current[g]
    BY <1>12 DEF Current
  <2>. QED BY <2>1, <2>2 DEF Current
<1>16. Abs!Advance(f, n)
  BY <1>13, <1>14, <1>15 DEF Abs!Advance, Issued, Phase, Current, TheOne
<1>. QED BY <1>16 DEF Abs!Next

\* A revocation closes the families that lose their live row.
LEMMA RevokeAbs ==
  ASSUME Inv, Inv', UNCHANGED <<fam, replacedBy>>, revoked \subseteq revoked'
  PROVE  Abs!Next
<1> DEFINE S == {f \in Family : LiveToken(f) # {} /\ LiveToken(f)' = {}}
<1>1. \A f \in Family : TokensOf(f)' = TokensOf(f) /\ LiveToken(f)' \subseteq LiveToken(f)
  BY DEF TokensOf, LiveToken, Live, Unrevoked, Exists
<1>2. \A f \in Family : LiveToken(f)' = LiveToken(f) \/ LiveToken(f)' = {}
  BY <1>1 DEF Inv, OneLivePerFamily, LiveToken
<1>3. \A f \in Family : LiveToken(f) # {} => TokensOf(f) # {}
  BY DEF LiveToken, TokensOf
<1>4. \A f \in S : Phase[f] = "open"
  BY <1>3 DEF Phase
<1>5. Phase' = [f \in Family |-> IF f \in S THEN "closed" ELSE Phase[f]]
  BY <1>1, <1>2, <1>3 DEF Phase
<1>6. Current' = [f \in Family |-> IF f \in S THEN NoToken ELSE Current[f]]
  <2>1. \A f \in Family : TheOne(LiveToken(f))' =
          IF f \in S THEN NoToken ELSE TheOne(LiveToken(f))
    <3> SUFFICES ASSUME NEW f \in Family
                 PROVE  TheOne(LiveToken(f))' =
                          IF f \in S THEN NoToken ELSE TheOne(LiveToken(f))
      OBVIOUS
    <3>1. CASE LiveToken(f)' = LiveToken(f)
      BY <3>1 DEF TheOne
    <3>2. CASE LiveToken(f)' # LiveToken(f)
      BY <1>2, <3>2 DEF TheOne
    <3>. QED BY <3>1, <3>2
  <2>. QED BY <2>1 DEF Current
<1>7. Issued' = Issued
  BY DEF Issued, Exists
<1>8. S \in SUBSET Family
  OBVIOUS
<1> HIDE DEF S
<1>9. Abs!Close(S)
  BY <1>4, <1>5, <1>6, <1>7 DEF Abs!Close, Issued, Phase, Current, TheOne
<1>. QED BY <1>8, <1>9 DEF Abs!Next

\* Every step is a step of the abstract specification, or a stutter.
LEMMA NextAbs == Inv /\ [Next]_vars => [Abs!Next]_(Abs!absVars)
<1> SUFFICES ASSUME Inv, [Next]_vars PROVE Abs!Next \/ UNCHANGED Abs!absVars
  OBVIOUS
<1>0. Inv'
  BY NextInv
<1>1. CASE UNCHANGED <<fam, revoked, replacedBy>>
  BY <1>1, StutterAbs
<1>2. ASSUME NEW p \in Proc, CommitLogin(p) PROVE Abs!Next
  BY <1>0, <1>2, LoginAbs
<1>3. ASSUME NEW p \in Proc, CommitRotate(p) PROVE Abs!Next
  BY <1>0, <1>3, RotateAbs
<1>4. ASSUME NEW p \in Proc, CommitRevokeFamily(p) \/ CommitRevokeAll(p) PROVE Abs!Next
  <2>1. UNCHANGED <<fam, replacedBy>> /\ revoked \subseteq revoked'
    BY <1>4 DEF CommitRevokeFamily, CommitRevokeAll
  <2>. QED BY <1>0, <2>1, RevokeAbs
<1>5. CASE UNCHANGED vars
  BY <1>1, <1>5 DEF vars, rows
<1>6. CASE Next
  BY <1>1, <1>2, <1>3, <1>4, <1>6, ChainMoves DEF WritesChain
<1>. QED BY <1>5, <1>6

-----------------------------------------------------------------------------
(* The theorems.                                                            *)

\* The invariant holds in every reachable state.
THEOREM InvHolds == Spec => []Inv
  BY InitInv, NextInv, PTL DEF Spec

\* Every variable keeps its type in every reachable state.
THEOREM TypeCorrect == Spec => []TypeOK
<1>1. Inv => TypeOK
  BY DEF Inv
<1>. QED BY <1>1, InvHolds, PTL

\* Two tabs, a duplicated request or a stolen copy never fork a session: a
\* family never has two rows that can be rotated (auth._rotate_locked).
THEOREM NoFork == Spec => []OneLivePerFamily
<1>1. Inv => OneLivePerFamily
  BY DEF Inv
<1>. QED BY <1>1, InvHolds, PTL

\* The rows of a family form one line of replacements.
THEOREM LinearChain == Spec => []ChainIsLinear
<1>1. Inv => ChainIsLinear
  BY DEF Inv
<1>. QED BY <1>1, InvHolds, PTL

\* A rotated row is never rotated again nor made live again, whatever requests
\* present it (auth._rotate_locked).
THEOREM RotatesOnce == Spec => RotatedOnce
<1> DEFINE Once == \A t \in Token : replacedBy[t] # NoToken =>
                     replacedBy'[t] = replacedBy[t] /\ t \in revoked'
<1>1. Inv /\ [Next]_vars => [Once]_vars
  <2> SUFFICES ASSUME Inv, Next PROVE Once
    BY DEF vars
  <2>1. \A t \in Token : replacedBy[t] # NoToken => t \in revoked
    BY DEF Inv, ChainIsLinear
  <2>2. revoked \subseteq revoked'
    BY StaysRevoked
  <2>3. CASE UNCHANGED replacedBy
    BY <2>1, <2>2, <2>3
  <2>4. ASSUME NEW p \in Proc, CommitRotate(p) PROVE Once
    <3>1. req[p].token \in Token /\ Live(req[p].token)
      BY <2>4 DEF Inv, RequestInv, PresentsRow, LocksHeld, CommitRotate
    <3>2. \E n \in Token : replacedBy' = [replacedBy EXCEPT ![req[p].token] = n]
      BY <2>4 DEF CommitRotate
    <3>. QED BY <2>1, <2>2, <3>1, <3>2 DEF Inv, TypeOK, Live
  <2>5. ASSUME NEW p \in Proc,
               CommitLogin(p) \/ CommitRevokeFamily(p) \/ CommitRevokeAll(p)
        PROVE  Once
    <3>1. UNCHANGED replacedBy
      BY <2>5 DEF CommitLogin, CommitRevokeFamily, CommitRevokeAll
    <3>. QED BY <2>3, <3>1
  <2>. QED BY <2>3, <2>4, <2>5, ChainMoves DEF WritesChain
<1>. QED BY <1>1, InvHolds, PTL DEF Spec, RotatedOnce

\* The whole invariant.
SessionInv == Inv /\ FamilyInv /\ EndedInv /\ ReplayInv

\* It holds initially.
LEMMA InitSession == Init => SessionInv
<1> SUFFICES ASSUME Init PROVE SessionInv
  OBVIOUS
<1>1. Inv
  BY InitInv
<1>2. FamilyInv
  BY NullAssumption DEF Init, FamilyInv, HoldsFamily, NoRequest
<1>3. EndedInv
  BY DEF Init, EndedInv, EndedFamilyStaysDead
<1>4. ReplayInv
  BY UsesAssumption DEF Init, ReplayInv, EntryInv, Answered, Replaying, Remembering
<1>. QED BY <1>1, <1>2, <1>3, <1>4 DEF SessionInv

\* The whole invariant holds in every reachable state.
THEOREM SessionHolds == Spec => []SessionInv
<1>1. SessionInv /\ [Next]_vars => SessionInv'
  BY NextInv, NextHolds, NextEnded, NextReplay DEF SessionInv
<1>. QED BY <1>1, InitSession, PTL DEF Spec

\* A family revoked under its lock has no unrevoked row from then on, however
\* a rotation raced the revocation (auth._lock_family).
THEOREM EndedStaysDead == Spec => []EndedFamilyStaysDead
<1>1. SessionInv => EndedFamilyStaysDead
  BY DEF SessionInv, EndedInv
<1>. QED BY <1>1, SessionHolds, PTL

\* A lost answer is replayed at most REFRESH_REPLAY_MAX_USES times, and only
\* with a token nobody has used since (auth._try_replay, refresh_replay.claim).
THEOREM ReplaysAreBounded == Spec => []ReplayIsBounded
<1>1. SessionInv => ReplayIsBounded
  <2> SUFFICES ASSUME SessionInv PROVE ReplayIsBounded
    OBVIOUS
  <2>1. ReplayedTokenIsUnused
    <3> SUFFICES ASSUME NEW p \in Proc, pc[p] = "commit", req[p].out = "replay"
                 PROVE  replacedBy[replacedBy[req[p].token]] = NoToken
      BY DEF ReplayedTokenIsUnused
    <3>1. req[p].token \in Token
      BY DEF SessionInv, Inv, RequestInv, PresentsRow
    <3>2. Replaying(p, req[p].token)
      BY DEF Replaying
    <3>. QED BY <3>1, <3>2 DEF SessionInv, ReplayInv, EntryInv
  <2>2. ReplayCapHolds
    <3> SUFFICES ASSUME NEW t \in Token PROVE served[t] <= MaxUses
      BY DEF ReplayCapHolds
    <3>1. Answered(t) <= MaxUses /\ served[t] \in Nat /\ MaxUses \in Nat
      BY UsesAssumption DEF SessionInv, ReplayInv, EntryInv, Inv, TypeOK
    <3>. QED BY <3>1 DEF Answered
  <2>. QED BY <2>1, <2>2 DEF ReplayIsBounded
<1>. QED BY <1>1, SessionHolds, PTL

\* Seen from outside, a family opens once, moves only to tokens never handed
\* out before and, once closed, stays closed: every step of the requests is a
\* step of SessionFamily or none.
THEOREM Refinement == Spec => ImplementsSessionFamily
  BY InitAbs, NextAbs, InvHolds, PTL DEF Spec, ImplementsSessionFamily, Abs!Spec
=============================================================================
