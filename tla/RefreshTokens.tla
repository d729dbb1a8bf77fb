--------------------------- MODULE RefreshTokens ---------------------------
(***************************************************************************)
(* Refresh-token rotation of one BetPulse account: the refresh_tokens      *)
(* table, the per-family advisory lock, the row locks of SELECT FOR UPDATE *)
(* and UPDATE, and the Redis replay entries.                               *)
(*                                                                         *)
(* Every request is a PostgreSQL transaction in READ COMMITTED.  Its steps *)
(* are the statements whose order matters: the unlocked lookup, each lock  *)
(* it waits for, the reads it decides on, and the commit.  A statement     *)
(* sees what was committed when it started; what a transaction writes      *)
(* becomes visible in its commit step, so the variables below always hold  *)
(* the committed rows.                                                     *)
(***************************************************************************)
EXTENDS Naturals, FiniteSets

CONSTANTS
  Token,       \* refresh-token rows the bounded instance may create
  Family,      \* family lock keys (integers: first 8 bytes of family_id)
  Proc,        \* concurrent requests
  Client,      \* user-agent and subnet of a caller
  NoToken, NoProc, NoFamily,
  NoAgent,     \* a caller without a user-agent or a known address
  MaxUses      \* REFRESH_REPLAY_MAX_USES

ASSUME FamilyAssumption == Family \subseteq Nat
ASSUME NullAssumption ==
  /\ NoToken \notin Token
  /\ NoProc \notin Proc
  /\ NoFamily \notin Family
  /\ NoAgent \notin Client
ASSUME UsesAssumption == MaxUses \in Nat \ {0}

VARIABLES
  (* table refresh_tokens, committed *)
  fam,         \* family_id, NoFamily while the row does not exist
  revoked,     \* rows with revoked = true
  replacedBy,  \* replaced_by, NoToken when NULL
  (* the clock: only a family's newest row is ever timed *)
  expired,     \* families whose newest row is past its expires_at
  age,         \* clock_timestamp() - created_at of the newest row: 0 within
               \* the grace window, 1 within the replay window, 2 older
  (* table users, committed *)
  active,      \* is_active
  (* Redis *)
  entry,       \* auth:refresh_replay:<hash>, NoEntry when absent
  (* PostgreSQL locks *)
  famLock,     \* advisory lock of a family
  rowLock,     \* row lock of a token
  (* the requests in flight *)
  pc, req, todo, targets,
  (* history, read by the properties only *)
  ended,       \* families revoked by a request that held their lock
  served       \* per presented token, the replays answered

rows  == <<fam, revoked, replacedBy, expired, age>>
locks == <<famLock, rowLock>>
hist  == <<ended, served>>
vars  == <<rows, active, entry, locks, pc, req, todo, targets, hist>>

\* same: credentials_changed_at, as the entry or the request read it, still
\* equals the column.  Only that comparison is ever made with the stamp.
NoEntry == [token |-> NoToken, client |-> NoAgent, same |-> FALSE, uses |-> 0]
Entry == [token : Token \cup {NoToken}, client : Client \cup {NoAgent},
          same : BOOLEAN, uses : 0..MaxUses]

Kinds == {"none", "login", "refresh", "logout", "password", "disable"}
Outcomes == {"none", "rotate", "replay", "conflict", "reuse", "invalid"}
\* What a request carries and has read so far.
Request == [kind : Kinds, token : Token \cup {NoToken},
            client : Client \cup {NoAgent}, out : Outcomes,
            same : BOOLEAN, next : Token \cup {NoToken}]
NoRequest == [kind |-> "none", token |-> NoToken, client |-> NoAgent,
              out |-> "none", same |-> FALSE, next |-> NoToken]

PcLabels == {"idle", "lock", "row", "decide", "update", "wait", "commit",
             "remember"}

TypeOK ==
  /\ fam \in [Token -> Family \cup {NoFamily}]
  /\ revoked \subseteq Token
  /\ replacedBy \in [Token -> Token \cup {NoToken}]
  /\ expired \subseteq Family
  /\ age \in [Family -> 0..2]
  /\ active \in BOOLEAN
  /\ entry \in [Token -> Entry]
  /\ famLock \in [Family -> Proc \cup {NoProc}]
  /\ rowLock \in [Token -> Proc \cup {NoProc}]
  /\ pc \in [Proc -> PcLabels]
  /\ req \in [Proc -> Request]
  /\ todo \in [Proc -> SUBSET Family]
  /\ targets \in [Proc -> SUBSET Token]
  /\ ended \subseteq Family
  /\ served \in [Token -> Nat]

Exists(t) == fam[t] # NoFamily
\* refresh_tokens.revoked IS FALSE, the predicate of both bulk UPDATEs.
Unrevoked(t) == Exists(t) /\ t \notin revoked
TokensOf(f) == {t \in Token : fam[t] = f}
\* The row can still be rotated: not revoked, not replaced.
Live(t) == Unrevoked(t) /\ replacedBy[t] = NoToken

Init ==
  /\ fam = [t \in Token |-> NoFamily]
  /\ revoked = {}
  /\ replacedBy = [t \in Token |-> NoToken]
  /\ expired = {}
  /\ age = [f \in Family |-> 0]
  /\ active = TRUE
  /\ entry = [t \in Token |-> NoEntry]
  /\ famLock = [f \in Family |-> NoProc]
  /\ rowLock = [t \in Token |-> NoProc]
  /\ pc = [p \in Proc |-> "idle"]
  /\ req = [p \in Proc |-> NoRequest]
  /\ todo = [p \in Proc |-> {}]
  /\ targets = [p \in Proc |-> {}]
  /\ ended = {}
  /\ served = [t \in Token |-> 0]

-----------------------------------------------------------------------------
(* Requests start: the reads made before any lock is taken.                *)

Begin(p, r, label, families) ==
  /\ pc[p] = "idle"
  /\ pc' = [pc EXCEPT ![p] = label]
  /\ req' = [req EXCEPT ![p] = r]
  /\ todo' = [todo EXCEPT ![p] = families]
  /\ UNCHANGED <<rows, active, entry, locks, targets, hist>>

\* authenticate: the user row is read and the password checked against it;
\* the token is inserted by the same transaction, which takes no family lock.
StartLogin(p) ==
  /\ active
  /\ Begin(p, [NoRequest EXCEPT !.kind = "login"], "commit", {})

\* _rotate_locked looks the family up without a lock.  Any row may be
\* presented: a cookie jar keeps old tokens, an answer may have been lost.
StartRefresh(p, t, c) ==
  /\ Exists(t)
  /\ Begin(p, [NoRequest EXCEPT !.kind = "refresh", !.token = t, !.client = c],
           "lock", {fam[t]})

StartLogout(p, t) ==
  /\ Exists(t)
  /\ Begin(p, [NoRequest EXCEPT !.kind = "logout", !.token = t],
           "lock", {fam[t]})

\* revoke_all_user_tokens selects the families that have an unrevoked token.
LiveFamilies == {fam[t] : t \in {u \in Token : Unrevoked(u)}}

\* change_password needs a signed-in, active account; an admin may disable
\* the account at any time.  Both write the user row when they commit.
StartRevokeAll(p, kind) ==
  /\ kind = "password" => active
  /\ Begin(p, [NoRequest EXCEPT !.kind = kind],
           IF LiveFamilies = {} THEN "update" ELSE "lock", LiveFamilies)

-----------------------------------------------------------------------------
(* Locks.                                                                  *)

\* sorted(families, key=_family_lock_key): the lowest key first.
HighestForDisable(p, f) == \A g \in todo[p] : IF req[p].kind = "disable" THEN f >= g ELSE f <= g
IsNextKey(p, f) == \A g \in todo[p] : f <= g

\* _lock_family, once per family still to lock; held until the commit.
LockFamilyNoWait(p) ==
  /\ pc[p] = "lock"
  /\ todo' = [todo EXCEPT ![p] = {}]
  /\ pc' = [pc EXCEPT ![p] = IF req[p].kind = "refresh" THEN "row" ELSE "update"]
  /\ famLock' = [f \in Family |-> IF f \in todo[p] THEN p ELSE famLock[f]]
  /\ UNCHANGED <<rows, active, entry, rowLock, req, targets, hist>>

LockFamily(p) ==
  /\ pc[p] = "lock"
  /\ \E f \in todo[p] :
       /\ IsNextKey(p, f)
       /\ famLock[f] = NoProc
       /\ famLock' = [famLock EXCEPT ![f] = p]
       /\ todo' = [todo EXCEPT ![p] = @ \ {f}]
       /\ pc' = [pc EXCEPT ![p] =
                   IF todo[p] # {f} THEN "lock"
                   ELSE IF req[p].kind = "refresh" THEN "row" ELSE "update"]
  /\ UNCHANGED <<rows, active, entry, rowLock, req, targets, hist>>

\* SELECT ... FOR UPDATE of the presented row, re-read after the wait.
LockRow(p) ==
  /\ pc[p] = "row"
  /\ rowLock[req[p].token] = NoProc
  /\ rowLock' = [rowLock EXCEPT ![req[p].token] = p]
  /\ pc' = [pc EXCEPT ![p] = "decide"]
  /\ UNCHANGED <<rows, active, entry, famLock, req, todo, targets, hist>>

-----------------------------------------------------------------------------
(* The decision of _rotate_locked, under the family lock and the row lock. *)

Decide(p, label, o) ==
  /\ pc' = [pc EXCEPT ![p] = label]
  /\ req' = [req EXCEPT ![p] = [@ EXCEPT !.out = o, !.same = TRUE]]
  /\ UNCHANGED <<rows, active, locks, todo, targets, hist>>

\* A live row of an active account rotates.
DecideRotateStale(p) ==
  /\ pc[p] = "decide"
  /\ fam[req[p].token] \notin expired /\ active
  /\ Decide(p, "commit", "rotate")
  /\ UNCHANGED entry

DecideRotate(p) ==
  LET t == req[p].token IN
    /\ pc[p] = "decide"
    /\ Live(t) /\ fam[t] \notin expired /\ active
    /\ Decide(p, "commit", "rotate")
    /\ UNCHANGED entry

\* A live but expired row, or an inactive account: InvalidToken, no change.
DecideInvalid(p) ==
  LET t == req[p].token IN
    /\ pc[p] = "decide"
    /\ Live(t) /\ (fam[t] \in expired \/ ~active)
    /\ Decide(p, "commit", "invalid")
    /\ UNCHANGED entry

\* _try_replay up to the claim: the entry names the direct replacement, which
\* is unused, unrevoked, unexpired and inside the window; the account is
\* active and unchanged; the caller matches.
ReplayAllowed(p) ==
  LET t == req[p].token
      e == entry[t]
      child == replacedBy[t]
  IN /\ e # NoEntry
     /\ child # NoToken /\ e.token = child
     /\ replacedBy[child] = NoToken
     /\ child \notin revoked /\ fam[child] \notin expired
     /\ age[fam[child]] <= 1
     /\ active
     /\ e.same
     /\ req[p].client # NoAgent /\ req[p].client = e.client

\* claim: one use is taken, never beyond the cap.
ClaimedUncounted(p) == entry
Claimed(p) == [entry EXCEPT ![req[p].token].uses = @ + 1]
CapLeft(p) == entry[req[p].token].uses < MaxUses

DecideReplay(p) ==
  /\ pc[p] = "decide"
  /\ ~Live(req[p].token)
  /\ ReplayAllowed(p) /\ CapLeft(p)
  /\ entry' = Claimed(p)
  /\ Decide(p, "commit", "replay")

\* Redis may be unreachable at any call, and the caller over its per-IP
\* limit, so no replay is certain; a claim that fails after its first script
\* keeps the use it took.
ReplayRefused(p) ==
  \/ UNCHANGED entry
  \/ ReplayAllowed(p) /\ CapLeft(p) /\ entry' = Claimed(p)

\* _is_benign_duplicate: the direct replacement is live and within grace.
BenignDuplicate(t) ==
  LET child == replacedBy[t] IN
    /\ child # NoToken
    /\ child \notin revoked /\ replacedBy[child] = NoToken
    /\ age[fam[child]] = 0

DecideConflict(p) ==
  /\ pc[p] = "decide"
  /\ ~Live(req[p].token)
  /\ BenignDuplicate(req[p].token)
  /\ ReplayRefused(p)
  /\ Decide(p, "commit", "conflict")

\* Any other presentation of a rotated or revoked token is reuse.
DecideReuse(p) ==
  /\ pc[p] = "decide"
  /\ ~Live(req[p].token)
  /\ ~BenignDuplicate(req[p].token)
  /\ ReplayRefused(p)
  /\ Decide(p, "update", "reuse")

-----------------------------------------------------------------------------
(* UPDATE refresh_tokens SET revoked = true.  The statement finds the rows  *)
(* committed when it starts, waits for the row locks of other transactions, *)
(* then re-checks each row it waited for; rows inserted meanwhile are not   *)
(* seen.                                                                    *)

RevokesAll(p) == req[p].kind \in {"password", "disable"}

InScope(p, t) == RevokesAll(p) \/ fam[t] = fam[req[p].token]

StartUpdate(p) ==
  /\ pc[p] = "update"
  /\ targets' = [targets EXCEPT ![p] = {t \in Token : Unrevoked(t) /\ InScope(p, t)}]
  /\ pc' = [pc EXCEPT ![p] = "wait"]
  /\ UNCHANGED <<rows, active, entry, locks, req, todo, hist>>

FinishUpdate(p) ==
  /\ pc[p] = "wait"
  /\ \A t \in targets[p] : rowLock[t] \in {NoProc, p}
  /\ LET hit == {t \in targets[p] : Unrevoked(t)} IN
       /\ targets' = [targets EXCEPT ![p] = hit]
       /\ rowLock' = [t \in Token |-> IF t \in hit THEN p ELSE rowLock[t]]
  /\ pc' = [pc EXCEPT ![p] = "commit"]
  /\ UNCHANGED <<rows, active, entry, famLock, req, todo, hist>>

-----------------------------------------------------------------------------
(* COMMIT and ROLLBACK.                                                     *)

FamiliesOf(p) == {f \in Family : famLock[f] = p}

\* The end of a transaction releases all its locks.
Release(p) ==
  /\ famLock' = [f \in Family |-> IF famLock[f] = p THEN NoProc ELSE famLock[f]]
  /\ rowLock' = [t \in Token |-> IF rowLock[t] = p THEN NoProc ELSE rowLock[t]]

Finished(p) ==
  /\ pc' = [pc EXCEPT ![p] = "idle"]
  /\ req' = [req EXCEPT ![p] = NoRequest]
  /\ todo' = [todo EXCEPT ![p] = {}]
  /\ targets' = [targets EXCEPT ![p] = {}]

\* issue_token_pair: the first row of a new family.
CommitLogin(p) ==
  /\ pc[p] = "commit" /\ req[p].kind = "login"
  /\ \E f \in Family, n \in Token :
       /\ TokensOf(f) = {} /\ ~Exists(n)
       /\ fam' = [fam EXCEPT ![n] = f]
  /\ Release(p) /\ Finished(p)
  /\ UNCHANGED <<revoked, replacedBy, expired, age, active, entry, hist>>

\* The new row, the presented one revoked and pointing at it, in one commit.
CommitRotate(p) ==
  /\ pc[p] = "commit" /\ req[p].out = "rotate"
  /\ LET t == req[p].token IN
     \E n \in Token :
       /\ ~Exists(n)
       /\ fam' = [fam EXCEPT ![n] = fam[t]]
       /\ revoked' = revoked \cup {t}
       /\ replacedBy' = [replacedBy EXCEPT ![t] = n]
       /\ age' = [age EXCEPT ![fam[t]] = 0]
       /\ expired' = expired \ {fam[t]}
       /\ req' = [req EXCEPT ![p].next = n]
  /\ pc' = [pc EXCEPT ![p] = "remember"]
  /\ Release(p)
  /\ UNCHANGED <<active, entry, todo, targets, hist>>

\* A replay, a conflict and an invalid token write audit rows only.
CommitAnswer(p) ==
  /\ pc[p] = "commit" /\ req[p].out \in {"replay", "conflict", "invalid"}
  /\ served' = [served EXCEPT ![req[p].token] =
                   IF req[p].out = "replay" THEN @ + 1 ELSE @]
  /\ Release(p) /\ Finished(p)
  /\ UNCHANGED <<rows, active, entry, ended>>

\* Logout or reuse detection: the family is revoked.
CommitRevokeFamily(p) ==
  /\ pc[p] = "commit" /\ (req[p].kind = "logout" \/ req[p].out = "reuse")
  /\ revoked' = revoked \cup targets[p]
  /\ ended' = ended \cup FamiliesOf(p)
  /\ Release(p) /\ Finished(p)
  /\ UNCHANGED <<fam, replacedBy, expired, age, active, entry, served>>

\* change_password and disable_user: tokens revoked, credentials_changed_at
\* moved on and, for a disabled account, is_active cleared, in one commit.
CommitRevokeAll(p) ==
  /\ pc[p] = "commit" /\ RevokesAll(p)
  /\ revoked' = revoked \cup targets[p]
  /\ ended' = ended \cup FamiliesOf(p)
  /\ active' = (active /\ req[p].kind # "disable")
  /\ entry' = [t \in Token |-> [entry[t] EXCEPT !.same = FALSE]]
  /\ Release(p)
  /\ pc' = [pc EXCEPT ![p] = "idle"]
  /\ req' = [q \in Proc |-> IF q = p THEN NoRequest
                             ELSE [req[q] EXCEPT !.same = FALSE]]
  /\ todo' = [todo EXCEPT ![p] = {}]
  /\ targets' = [targets EXCEPT ![p] = {}]
  /\ UNCHANGED <<fam, replacedBy, expired, age, served>>

\* A crash, a database error or a cancelled request before the commit rolls
\* back every row written; what Redis counted stays counted.
Abort(p) ==
  /\ pc[p] \notin {"idle", "remember"}
  /\ Release(p) /\ Finished(p)
  /\ UNCHANGED <<rows, active, entry, hist>>

\* remember, after the commit; a lost call or a crash stores nothing.
Remember(p) ==
  /\ pc[p] = "remember"
  /\ \/ /\ req[p].client # NoAgent
        /\ entry' = [entry EXCEPT ![req[p].token] =
             [token |-> req[p].next, client |-> req[p].client,
              same |-> req[p].same, uses |-> 0]]
     \/ UNCHANGED entry
  /\ Finished(p)
  /\ UNCHANGED <<rows, active, locks, hist>>

-----------------------------------------------------------------------------
(* The environment.                                                         *)

\* enable_user, one statement.
EnableUser ==
  /\ ~active
  /\ active' = TRUE
  /\ UNCHANGED <<rows, entry, locks, pc, req, todo, targets, hist>>

\* Time passes; it is read only while the family has a live row.
LiveToken(f) == {t \in Token : Live(t) /\ fam[t] = f}

Grow(f) ==
  /\ LiveToken(f) # {} /\ age[f] < 2
  /\ age' = [age EXCEPT ![f] = @ + 1]
  /\ UNCHANGED <<fam, revoked, replacedBy, expired, active, entry, locks,
                 pc, req, todo, targets, hist>>

Expire(f) ==
  /\ LiveToken(f) # {} /\ f \notin expired
  /\ expired' = expired \cup {f}
  /\ UNCHANGED <<fam, revoked, replacedBy, age, active, entry, locks,
                 pc, req, todo, targets, hist>>

\* The TTL of the replay entry, or Redis losing it.
EntryExpires(t) ==
  /\ entry[t] # NoEntry
  /\ entry' = [entry EXCEPT ![t] = NoEntry]
  /\ UNCHANGED <<rows, active, locks, pc, req, todo, targets, hist>>

Start(p) ==
  \/ StartLogin(p)
  \/ \E t \in Token, c \in Client \cup {NoAgent} : StartRefresh(p, t, c)
  \/ \E t \in Token : StartLogout(p, t)
  \/ \E kind \in {"password", "disable"} : StartRevokeAll(p, kind)

Run(p) ==
  \/ LockFamily(p) \/ LockRow(p)
  \/ DecideRotate(p) \/ DecideInvalid(p) \/ DecideReplay(p)
  \/ DecideConflict(p) \/ DecideReuse(p)
  \/ StartUpdate(p) \/ FinishUpdate(p)
  \/ CommitLogin(p) \/ CommitRotate(p) \/ CommitAnswer(p)
  \/ CommitRevokeFamily(p) \/ CommitRevokeAll(p)
  \/ Remember(p)

Environment ==
  \/ EnableUser
  \/ \E f \in Family : Grow(f) \/ Expire(f)
  \/ \E t \in Token : EntryExpires(t)

Next ==
  \/ \E p \in Proc : Start(p) \/ Run(p) \/ Abort(p)
  \/ Environment

Spec == Init /\ [][Next]_vars

-----------------------------------------------------------------------------
(* Properties.                                                              *)

\* At any moment at most one token of a family can be rotated: two tabs, a
\* duplicated request or a thief's copy never fork a session
\* (auth._rotate_locked, family lock and FOR UPDATE).
OneLivePerFamily ==
  \A t, u \in Token : Live(t) /\ Live(u) /\ fam[t] = fam[u] => t = u

\* replaced_by links the rows of a family into one line: a replaced row is
\* revoked, its replacement is in its family and replaces nothing else.
ChainIsLinear ==
  \A t \in Token : replacedBy[t] # NoToken =>
    /\ t \in revoked /\ Exists(t)
    /\ fam[replacedBy[t]] = fam[t]
    /\ \A u \in Token : replacedBy[u] = replacedBy[t] => u = t

\* A family revoked under its lock (logout, reuse, password change, disabled
\* account) has no unrevoked row from then on, however a rotation raced the
\* revocation (auth._lock_family's docstring).
EndedFamilyStaysDead ==
  \A t \in Token : fam[t] \in ended => ~Unrevoked(t)

\* The token a replay hands back has not been rotated when the replay is
\* answered, although that was checked some reads earlier (auth._try_replay
\* runs under the family lock).
ReplayedTokenIsUnused ==
  \A p \in Proc :
    pc[p] = "commit" /\ req[p].out = "replay" =>
      replacedBy[replacedBy[req[p].token]] = NoToken

\* One rotated token is replayed at most REFRESH_REPLAY_MAX_USES times, over
\* every interleaving, abort and lost call (refresh_replay.claim).
ReplayCapHolds == \A t \in Token : served[t] <= MaxUses

\* What an answer that was lost may cost: few replays, and of a token that
\* nobody has used since.
ReplayIsBounded == ReplayedTokenIsUnused /\ ReplayCapHolds

\* A rotated row is never rotated again and never made live again.
RotatedOnce ==
  [][\A t \in Token : replacedBy[t] # NoToken =>
        replacedBy'[t] = replacedBy[t] /\ t \in revoked']_vars

\* Every request ends: the locks of concurrent rotations, logouts and
\* account-wide revocations are never waited for in a cycle.
RequestsFinish == \A p \in Proc : pc[p] # "idle" ~> pc[p] = "idle"

\* The claim of revoke_all_user_tokens: a rotation in flight either commits
\* first, and the UPDATE revokes its new token, or waits and finds its token
\* revoked.  So a family the UPDATE found live has no unrevoked row after it.
RotationInFlightNeverSurvives ==
  [][\A p \in Proc :
       pc[p] = "wait" /\ RevokesAll(p) /\ pc'[p] = "commit" =>
         \A t \in targets[p], u \in Token :
           fam[u] = fam[t] /\ Unrevoked(u) => u \in targets'[p]]_vars

-----------------------------------------------------------------------------
(* Scheduling.  PostgreSQL queues lock waiters in order, so a waiter whose  *)
(* lock keeps being released gets it; a request that can run does run.  A   *)
(* request that needs a row beyond the bounded instance is aborted.         *)

OutOfRows(p) ==
  /\ \/ \A t \in Token : Exists(t)
     \/ req[p].kind = "login" /\ \A f \in Family : TokensOf(f) # {}
  /\ pc[p] = "commit"
  /\ Abort(p)

Fairness == \A p \in Proc : SF_vars(Run(p)) /\ WF_vars(OutOfRows(p))

\* The clock and Redis choose an outcome but never hold or release a lock, so
\* the requests alone decide whether a waiter is served.
LockNext == (\E p \in Proc : Start(p) \/ Run(p) \/ Abort(p)) \/ EnableUser

FairSpec == Init /\ [][LockNext]_vars /\ Fairness

-----------------------------------------------------------------------------
(* Refinement: the abstract session family.                                 *)

Abs == INSTANCE SessionFamily WITH
  issued <- {t \in Token : Exists(t)},
  phase <- [f \in Family |-> IF TokensOf(f) = {} THEN "new"
                             ELSE IF LiveToken(f) = {} THEN "closed" ELSE "open"],
  current <- [f \in Family |-> IF LiveToken(f) = {} THEN NoToken
                               ELSE CHOOSE t \in LiveToken(f) : TRUE]

\* Whatever happens inside, a family opens once, moves only to fresh tokens
\* and, once closed, stays closed.
ImplementsSessionFamily == Abs!Spec
=============================================================================
