--------------------------- MODULE SessionFamily ---------------------------
(***************************************************************************)
(* What BetPulse promises about a login session, seen from outside.        *)
(*                                                                         *)
(* A session is a refresh-token family.  It is opened by one login, at any *)
(* moment exactly one token can renew it, renewing moves it to a token     *)
(* that was never handed out before, and once closed (logout, password     *)
(* change, disabled account, reuse detected) it stays closed.              *)
(*                                                                         *)
(* Sources: backend/app/models/refresh_token.py (the family idea) and the  *)
(* docstrings of services/auth.py.  RefreshTokens implements this module.  *)
(***************************************************************************)
CONSTANTS Family, Token, NoToken

VARIABLES
  issued,    \* tokens ever handed out
  phase,     \* per family: "new", "open" or "closed"
  current    \* per family: the token that can renew it, or NoToken

absVars == <<issued, phase, current>>

Init ==
  /\ issued = {}
  /\ phase = [f \in Family |-> "new"]
  /\ current = [f \in Family |-> NoToken]

\* A login opens a new family on a fresh token.
Open(f, t) ==
  /\ phase[f] = "new"
  /\ t \notin issued
  /\ issued' = issued \cup {t}
  /\ phase' = [phase EXCEPT ![f] = "open"]
  /\ current' = [current EXCEPT ![f] = t]

\* A rotation moves an open family to a fresh token.
Advance(f, t) ==
  /\ phase[f] = "open"
  /\ t \notin issued
  /\ issued' = issued \cup {t}
  /\ current' = [current EXCEPT ![f] = t]
  /\ UNCHANGED phase

\* Logout and reuse detection close one family; a revocation of the account
\* closes several at once.
Close(S) ==
  /\ \A f \in S : phase[f] = "open"
  /\ phase' = [f \in Family |-> IF f \in S THEN "closed" ELSE phase[f]]
  /\ current' = [f \in Family |-> IF f \in S THEN NoToken ELSE current[f]]
  /\ UNCHANGED issued

Next ==
  \/ \E f \in Family, t \in Token : Open(f, t) \/ Advance(f, t)
  \/ \E S \in SUBSET Family : Close(S)

Spec == Init /\ [][Next]_absVars
=============================================================================
