--------------------------- MODULE AccountSecurity ---------------------------
(***************************************************************************)
(* One account under concurrent requests: logins with the lockout of the   *)
(* failed ones, password changes, disabling and enabling by an admin, and  *)
(* the setup, confirmation and removal of the second factor.               *)
(*                                                                         *)
(* A request reads the account's row once, without a lock, and works on    *)
(* that snapshot; the ORM later writes the columns that differ from it,    *)
(* which takes the row's lock until the commit.  What must survive a       *)
(* refused request is written in a transaction of its own, on a connection *)
(* of a second pool.  Rate limits, which refuse a request before it does   *)
(* any of this, and the rotation of refresh tokens (RefreshTokens) are     *)
(* left out.                                                               *)
(***************************************************************************)
EXTENDS Naturals, FiniteSets

CONSTANTS
  Request,       \* requests served at the same time (bound)
  MainPool,      \* connections for requests
  SecurityPool,  \* connections for independent_transaction
  MaxFailures,   \* login_max_failures
  LockBase, LockMax,  \* lockout_base_seconds, lockout_max_seconds, in ticks
  Kinds,         \* the operations of the instance
  MaxStrikes,    \* bound: failed logins between two resets
  MaxStamps,     \* bound: password changes and disablings
  MaxSecrets,    \* bound: setups of the second factor
  MaxClock       \* bound

ASSUME SecurityAssumption ==
  /\ IsFiniteSet(Request) /\ MainPool \in Nat \ {0} /\ SecurityPool \in Nat \ {0}
  /\ MaxFailures \in Nat \ {0} /\ LockBase \in Nat \ {0} /\ LockMax \in Nat \ {0}
  /\ MaxStrikes \in Nat /\ MaxStamps \in Nat /\ MaxSecrets \in Nat /\ MaxClock \in Nat

\* The arithmetic of the backoff that the provers do not know of the operator ^.
ASSUME PowersOfTwo ==
  \A n \in 0..MaxStrikes : 2 ^ n \in Nat \ {0} /\ 2 ^ n <= 2 ^ (n + 1)

VARIABLES
  clock,
  row,      \* the account's row, as committed
  req,      \* the requests
  live,     \* refresh_tokens: the rows of logins that are not revoked
  access,   \* the access tokens issued
  stamps,   \* the last value taken for credentials_changed_at
  secrets,  \* the last TOTP secret generated
  changes,  \* history: the credential changes committed, by stamp
  strikes,  \* history: failed logins since the counter was last reset
  proven    \* history: the secrets a code was verified for at confirmation

tokens == <<live, access>>
history == <<changes, strikes, proven>>
vars == <<clock, row, req, tokens, stamps, secrets, history>>

Password == {0, 1}
None == 0  \* no lock, no secret, no code
Row == [pw : Password, fails : Nat, locked : Nat, active : BOOLEAN,
        stamp : Nat, totp : BOOLEAN, secret : Nat]

Operations == {"login", "password", "disable", "enable", "setup", "confirm", "drop"}
Waiting == {"audit", "fail"}         \* for a connection of the second pool
Holding == {"auditing", "failing"}   \* one of them
Steps == {"idle", "sweep", "flush", "commit"} \cup Waiting \cup Holding

EmptyWrites == [f \in {} |-> 0]
Idle == [at |-> "idle", kind |-> "none", writes |-> EmptyWrites,
         snap |-> [stamp |-> 0, fails |-> 0, locked |-> None],
         read |-> 0, stamp |-> 0, swept |-> {}]

TypeOK ==
  /\ clock \in 0..MaxClock
  /\ row \in Row /\ row.fails <= MaxStrikes /\ row.secret <= secrets
  /\ \A r \in Request : /\ req[r].at \in Steps /\ req[r].kind \in Operations \cup {"none"}
                        /\ DOMAIN req[r].writes \subseteq DOMAIN row
  /\ row.stamp = 0 <=> changes = {}
  /\ stamps \in 0..MaxStamps /\ secrets \in 0..MaxSecrets

Init ==
  /\ clock = 0
  /\ row = [pw |-> 0, fails |-> 0, locked |-> None, active |-> TRUE,
            stamp |-> 0, totp |-> FALSE, secret |-> None]
  /\ req = [r \in Request |-> Idle]
  /\ live = {} /\ access = {}
  /\ stamps = 0 /\ secrets = 0
  /\ changes = {} /\ strikes = 0 /\ proven = {}

Put(r, s) == req' = [req EXCEPT ![r] = s]
End(r) == Put(r, Idle)
Goto(r, step) == Put(r, [req[r] EXCEPT !.at = step])

\* The columns that differ from the snapshot, and a row with them written.
Changed(new, old) == [f \in {g \in DOMAIN new : new[g] # old[g]} |-> new[f]]
Written(writes, old) ==
  [f \in DOMAIN old |-> IF f \in DOMAIN writes THEN writes[f] ELSE old[f]]

\* The row is locked from the flush that writes it to the commit.
RowLocked == \E r \in Request : req[r].at = "commit" /\ DOMAIN req[r].writes # {}
Running == {r \in Request : req[r].at # "idle"}
Borrowed == {r \in Request : req[r].at \in Holding}

\* A request keeps its connection from its first statement to its end.
Connects(r) == req[r].at = "idle" /\ Cardinality(Running) < MainPool
\* What a request keeps of the row it read, and the columns it will write.
Begin(kind, step, new) ==
  LET begun == [Idle EXCEPT !.at = step, !.kind = kind, !.writes = Changed(new, row)] IN
  IF kind # "login" THEN begun
  ELSE IF step = "flush"
  THEN [begun EXCEPT !.snap.stamp = row.stamp, !.read = Cardinality(changes)]
  ELSE [begun EXCEPT !.snap.fails = row.fails, !.snap.locked = row.locked]

-----------------------------------------------------------------------------
(* Login.                                                                   *)

\* _lockout_seconds.
Lockout(failed) ==
  LET backoff == LockBase * 2 ^ (failed - MaxFailures) IN
  IF failed < MaxFailures THEN 0 ELSE IF backoff < LockMax THEN backoff ELSE LockMax

Locked == row.locked > clock

\* authenticate, up to its verdict: an account that is inactive or locked is
\* only audited, a wrong password or code is counted, a missing code is not.
Verdict(password, code) ==
  IF ~row.active \/ Locked THEN "audit"
  ELSE IF password # row.pw THEN "fail"
  ELSE IF row.totp /\ code = None THEN "code missing"
  ELSE IF row.totp /\ code # row.secret THEN "fail"
  ELSE "flush"
Reset == [row EXCEPT !.fails = 0, !.locked = None]

Login(r, password, code) ==
  /\ "login" \in Kinds /\ Connects(r)
  /\ LET verdict == Verdict(password, code) IN
     /\ verdict # "code missing"
     /\ verdict = "fail" => row.fails + Cardinality(Running) < MaxStrikes
     /\ Put(r, Begin("login", verdict, IF verdict = "flush" THEN Reset ELSE row))
  /\ UNCHANGED <<clock, row, tokens, stamps, secrets, history>>

\* independent_transaction: its connections come from a pool of their own.
MayBorrowFromMain(r) ==
  req[r].at \in Waiting /\ Cardinality(Running) + Cardinality(Borrowed) < MainPool
MayBorrow(r) ==
  req[r].at \in Waiting /\ Cardinality(Borrowed) < SecurityPool
Borrow(r) ==
  /\ MayBorrow(r)
  /\ Goto(r, IF req[r].at = "audit" THEN "auditing" ELSE "failing")
  /\ UNCHANGED <<clock, row, tokens, stamps, secrets, history>>

Audit(r) ==
  /\ req[r].at = "auditing"
  /\ End(r)
  /\ UNCHANGED <<clock, row, tokens, stamps, secrets, history>>

\* _register_failed_attempt: the count is bumped in place and the lock set
\* from what it returns.
CountFromSnapshot(r) ==
  /\ req[r].at = "failing" /\ ~RowLocked
  /\ LET failed == req[r].snap.fails + 1 IN
     row' = [row EXCEPT !.fails = failed,
                        !.locked = IF Lockout(failed) > 0 THEN clock + Lockout(failed) ELSE @]
  /\ strikes' = strikes + 1
  /\ End(r)
  /\ UNCHANGED <<clock, tokens, stamps, secrets, changes, proven>>
CountFailure(r) ==
  /\ req[r].at = "failing" /\ ~RowLocked
  /\ LET failed == row.fails + 1 IN
     row' = [row EXCEPT !.fails = failed,
                        !.locked = IF Lockout(failed) > 0 THEN clock + Lockout(failed) ELSE @]
  /\ strikes' = strikes + 1
  /\ End(r)
  /\ UNCHANGED <<clock, tokens, stamps, secrets, changes, proven>>

-----------------------------------------------------------------------------
(* Changes of the account.                                                  *)

\* get_current_user: the access token must carry the row's stamp.
SignedIn == row.active /\ \E a \in access : a.stamp = row.stamp

MoreStamps == stamps + Cardinality({r \in Request : req[r].at = "sweep"}) < MaxStamps

\* change_password with the right current password.
NewPassword == [row EXCEPT !.pw = 1 - @]
ChangePassword(r) ==
  /\ "password" \in Kinds /\ Connects(r) /\ SignedIn /\ MoreStamps
  /\ Put(r, Begin("password", "sweep", NewPassword))
  /\ UNCHANGED <<clock, row, tokens, stamps, secrets, history>>

Disabled == [row EXCEPT !.active = FALSE]
DisableUser(r) ==
  /\ "disable" \in Kinds /\ Connects(r) /\ MoreStamps
  /\ Put(r, Begin("disable", "sweep", Disabled))
  /\ UNCHANGED <<clock, row, tokens, stamps, secrets, history>>

Enabled == [row EXCEPT !.active = TRUE]
EnableUser(r) ==
  /\ "enable" \in Kinds /\ Connects(r)
  /\ Put(r, Begin("enable", "flush", Enabled))
  /\ UNCHANGED <<clock, row, tokens, stamps, secrets, history>>

\* mark_credentials_changed, then the UPDATE of revoke_all_user_tokens: the
\* tokens committed by now will be revoked with the commit.
Stamped(writes) ==
  [f \in DOMAIN writes \cup {"stamp"} |-> IF f = "stamp" THEN stamps + 1 ELSE writes[f]]
SweepUnstamped(r) ==
  /\ req[r].at = "sweep"
  /\ stamps' = stamps + 1
  /\ Put(r, [req[r] EXCEPT !.at = "flush", !.stamp = stamps + 1, !.swept = live])
  /\ UNCHANGED <<clock, row, tokens, secrets, history>>
SweepPasswordOnly(r) ==
  /\ req[r].at = "sweep"
  /\ stamps' = stamps + 1
  /\ Put(r, [req[r] EXCEPT !.at = "flush", !.stamp = stamps + 1, !.writes = Stamped(@),
                           !.swept = IF req[r].kind = "password" THEN live ELSE {}])
  /\ UNCHANGED <<clock, row, tokens, secrets, history>>
Sweep(r) ==
  /\ req[r].at = "sweep"
  /\ stamps' = stamps + 1
  /\ Put(r, [req[r] EXCEPT !.at = "flush", !.stamp = stamps + 1, !.writes = Stamped(@),
                           !.swept = live])
  /\ UNCHANGED <<clock, row, tokens, secrets, history>>

\* setup_totp, refused while a second factor is enabled.
NewSecret == [row EXCEPT !.secret = secrets + 1]
SetupTotp(r) ==
  /\ "setup" \in Kinds /\ Connects(r) /\ SignedIn /\ ~row.totp /\ secrets < MaxSecrets
  /\ secrets' = secrets + 1
  /\ Put(r, Begin("setup", "flush", NewSecret))
  /\ UNCHANGED <<clock, row, tokens, stamps, history>>

\* enable_totp and disable_totp with a code of some secret; a wrong code is
\* audited in a transaction of its own.
WithTotp == [row EXCEPT !.totp = TRUE]
EnableTotp(r, code) ==
  /\ "confirm" \in Kinds /\ Connects(r) /\ SignedIn /\ row.secret # None
  /\ IF code = row.secret
     THEN Put(r, Begin("confirm", "flush", WithTotp)) /\ proven' = proven \cup {code}
     ELSE Put(r, Begin("confirm", "audit", row)) /\ UNCHANGED proven
  /\ UNCHANGED <<clock, row, tokens, stamps, secrets, changes, strikes>>

WithoutTotp == [row EXCEPT !.totp = FALSE, !.secret = None]
DisableTotp(r, code) ==
  /\ "drop" \in Kinds /\ Connects(r) /\ SignedIn /\ row.totp /\ row.secret # None
  /\ Put(r, IF code = row.secret THEN Begin("drop", "flush", WithoutTotp)
            ELSE Begin("drop", "audit", row))
  /\ UNCHANGED <<clock, row, tokens, stamps, secrets, history>>

\* The flush writes the changed columns, or nothing when there are none.
Flush(r) ==
  /\ req[r].at = "flush"
  /\ DOMAIN req[r].writes = {} \/ ~RowLocked
  /\ Goto(r, "commit")
  /\ UNCHANGED <<clock, row, tokens, stamps, secrets, history>>

\* The commit: the written columns, the tokens revoked, the pair issued (from
\* the snapshot's stamp).
Commit(r) ==
  /\ req[r].at = "commit"
  /\ row' = Written(req[r].writes, row)
  /\ strikes' = IF "fails" \in DOMAIN req[r].writes THEN 0 ELSE strikes
  /\ \/ /\ req[r].kind = "login"
        /\ live' = live \cup {[read |-> req[r].read, after |-> stamps]}
        /\ access' = access \cup {[stamp |-> req[r].snap.stamp, read |-> req[r].read]}
        /\ UNCHANGED changes
     \/ /\ req[r].kind \in {"password", "disable"}
        /\ live' = live \ req[r].swept
        /\ changes' = changes \cup {req[r].stamp}
        /\ UNCHANGED access
     \/ /\ req[r].kind \in {"enable", "setup", "confirm", "drop"}
        /\ UNCHANGED <<live, access, changes>>
  /\ End(r)
  /\ UNCHANGED <<clock, stamps, secrets, proven>>

-----------------------------------------------------------------------------
\* A request that fails is rolled back.
Abort(r) ==
  /\ req[r].at # "idle"
  /\ End(r)
  /\ UNCHANGED <<clock, row, tokens, stamps, secrets, history>>

Tick ==
  /\ clock < MaxClock
  /\ clock' = clock + 1
  /\ UNCHANGED <<row, req, tokens, stamps, secrets, history>>

Step(r) == \/ Borrow(r) \/ Audit(r) \/ CountFailure(r)
           \/ Sweep(r) \/ Flush(r) \/ Commit(r)
Codes == {None} \cup 1..secrets

\* Nobody sends a request any more.
Over == Running = {} /\ clock = MaxClock /\ UNCHANGED vars

Next ==
  \/ \E r \in Request :
       \/ Step(r)
       \/ \E password \in Password, code \in Codes : Login(r, password, code)
       \/ ChangePassword(r) \/ DisableUser(r) \/ EnableUser(r) \/ SetupTotp(r)
       \/ \E code \in Codes : EnableTotp(r, code) \/ DisableTotp(r, code)
       \/ Abort(r)
  \/ Tick \/ Over

Spec == Init /\ [][Next]_vars

-----------------------------------------------------------------------------
(* Properties.                                                              *)

\* No failed login is lost: whatever else writes the row at the same time, the
\* counter is the number of failures since a successful login last reset it
\* (_register_failed_attempt: no read-modify-write).
FailuresAreCounted == row.fails = strikes

\* A lock is cut short only by a login that proved the password, never by
\* another failure that read the account before it was locked.  A login that
\* read the account before the lock resets the count and leaves the lock: the
\* failures that reach the limit after that lock the account anew, and that
\* lock may end before the one left behind.
LoginCommits ==
  \E r \in Request : req[r].at = "commit" /\ req[r].kind = "login" /\ req'[r].at = "idle"
LimitReached ==
  row.fails < MaxFailures /\ row'.fails >= MaxFailures /\ row'.locked > clock
LockNeverShortened ==
  row'.locked < row.locked => LoginCommits \/ LimitReached

\* In every step: failures of parallel requests add up, and none undoes a lock.
FailuresHold == [][FailuresAreCounted' /\ LockNeverShortened]_vars

\* A refresh token committed before a password change or a disabling took its
\* sweep is dead once that change is committed, and stays dead when the
\* account is enabled again (revoke_all_user_tokens, disable_user).
SweptStayDead ==
  \A t \in live, c \in changes : t.after >= c

\* An access token that still opens the account was issued from a row read
\* after the last credential change, also after disable and enable
\* (credentials_changed_at, token_state).
AccessDiesWithCredentials ==
  \A a \in access : a.stamp = row.stamp => a.read = Cardinality(changes)

\* The guards of Step: a request waits for a connection or for the row's lock,
\* and a commit knows what it was begun for.
MayStep(r) ==
  \/ MayBorrow(r)
  \/ req[r].at \in {"auditing", "sweep"}
  \/ req[r].at = "failing" /\ ~RowLocked
  \/ req[r].at = "flush" /\ (DOMAIN req[r].writes = {} \/ ~RowLocked)
  \/ req[r].at = "commit" /\ req[r].kind \in Operations

\* Requests that hold a connection of the main pool never all wait for each
\* other: whenever some run, one of them can take its next step
\* (_security_engine; the caller of independent_transaction holds no write).
NobodyWaitsForever ==
  Running # {} => \E r \in Running : MayStep(r)

\* The claim of setup_totp: a secret is active only once a code of it was
\* verified, and setup never touches an enabled second factor.
EnabledSecretProven == row.totp => row.secret \in proven

\* The claim of disable_user and change_password: every refresh token of the
\* account is revoked.
NoSessionOutlivesChange ==
  \A t \in live : t.read = Cardinality(changes)
=============================================================================
