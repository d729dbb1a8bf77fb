---------------------------- MODULE BrowserSession ----------------------------
(***************************************************************************)
(* The session of one browser tab: the token in its memory, the single     *)
(* refresh that all its callers share, answers that come too late, the     *)
(* renewal timers, and a request that is replayed once after a renewal.    *)
(*                                                                         *)
(* The other tabs are the environment: they share the cookie jar, sign in  *)
(* and out, and tell of a sign-out.  The server may give a refresh any     *)
(* answer; module RefreshTokens says which.  A session stands for its      *)
(* account, an access token for the request that brought it.  What runs    *)
(* between two awaits runs alone, so a caller whose promise settled goes   *)
(* on before anything else (Next).                                         *)
(***************************************************************************)
EXTENDS Naturals, Sequences

CONSTANTS
  Account,       \* who may sign in in this browser
  MaxAnswers,    \* requests a behaviour makes
  MaxOthers      \* what the other tabs and the user's reloads may do

ASSUME BrowserAssumption == Account # {} /\ 0 \notin Account /\ MaxAnswers \in Nat

VARIABLES
  jar,      \* whose refresh cookie the browser holds
  tab,      \* the store and the module's variables
  run,      \* the refresh under way (inFlight), or NoRun
  asked,    \* every request to the auth routes, in order
  told,     \* a sign-out message of another tab waits
  call,     \* an API request of the page (authFetch), or reloadUser's own
  others,   \* bound: what the environment did
  lost      \* history: the body of an answer did not arrive whole, or the timer
            \* joined a refresh of an earlier session; until a session is applied

browserVars == <<jar, tab, run, asked, told, call, others, lost>>

Nobody == 0
NoToken == 0
Answers == {"ok", "conflict", "refused", "limited", "error"}

NewPage == [token |-> NoToken, user |-> Nobody, age |-> "none", hydrated |-> "no",
            expired |-> FALSE, renewAt |-> FALSE, retryAt |-> FALSE, limited |-> FALSE,
            epoch |-> 0, applied |-> 0, mixed |-> FALSE]
NoRun == [at |-> "none", req |-> 0, epoch |-> 0, applied |-> 0]
NoCall == [at |-> "idle", kind |-> "api", settled |-> "no", token |-> NoToken,
           user |-> Nobody, who |-> Nobody, as |-> Nobody, epoch |-> 0]

BrowserInit ==
  /\ jar \in Account \cup {Nobody}
  /\ tab = NewPage /\ run = NoRun /\ asked = <<>> /\ told = FALSE /\ call = NoCall
  /\ others = 0 /\ lost = FALSE

-----------------------------------------------------------------------------
(* The store.                                                               *)

\* A request as it leaves.  stale and outdated are history: the session ended,
\* or another one was applied, while the request was out.
Asked(kind, who) ==
  [kind |-> kind, who |-> who, at |-> "sent", waiter |-> "page",
   epoch |-> 0, applied |-> 0, stale |-> FALSE, outdated |-> FALSE]
Out(q) == q.kind = "refresh" /\ q.at # "done"
Forgotten == [Asked("none", Nobody) EXCEPT !.at = "done"]
Done(r) == [asked EXCEPT ![r] = Forgotten]

\* applySession: the answer to request r; the next renewal is scheduled.
Applied(t, r) ==
  [t EXCEPT !.token = r, !.user = asked[r].who, !.age = "fresh", !.expired = FALSE,
            !.renewAt = TRUE, !.retryAt = FALSE, !.limited = FALSE, !.applied = @ + 1]
Outdate(list, r) ==
  [i \in DOMAIN list |->
     IF i = r THEN [list[i] EXCEPT !.at = "done"]
     ELSE IF list[i].at = "done" /\ r # 0 THEN Forgotten
     ELSE [list[i] EXCEPT !.outdated = @ \/ Out(list[i])]]

\* clearSession.
Cleared(t, expired) ==
  [t EXCEPT !.token = NoToken, !.user = Nobody, !.age = "none", !.renewAt = FALSE,
            !.retryAt = FALSE, !.limited = FALSE, !.epoch = @ + 1,
            !.expired = expired /\ (t.token # NoToken \/ t.user # Nobody)]
Stale(list) ==
  [i \in DOMAIN list |-> IF list[i].at = "done" THEN Forgotten
                         ELSE [list[i] EXCEPT !.stale = @ \/ Out(list[i])]]

\* scheduleRetry, and the timer that a 429 sets instead.
NoRetry(t) == t
ScheduleRetry(t) == [t EXCEPT !.retryAt = TRUE]

\* needsRefresh.
Needs(t) == t.token # NoToken /\ t.age # "fresh"

\* refreshSession, as the page t calls it: shared, refused inside a 429's
\* window, or begun with the cookie the jar holds.
Refused(t) == run = NoRun /\ t.limited
StartRun(t) ==
  IF run # NoRun \/ t.limited THEN UNCHANGED <<run, asked>>
  ELSE /\ Len(asked) < MaxAnswers
       /\ asked' = Append(asked, Asked("refresh", jar))
       /\ run' = [at |-> "first", req |-> Len(asked) + 1,
                  epoch |-> t.epoch, applied |-> t.applied]

\* The headers of an ok answer are there, its body is not: no timeout ends this.
BodyAwaited == run # NoRun /\ asked[run.req].at = "body"

\* The run ends: its callers, the restore of the page among them, go on.
SettleRun(t, outcome) ==
  /\ run' = NoRun
  /\ tab' = [t EXCEPT !.hydrated = IF @ = "running" THEN "yes" ELSE @]
  /\ call' = IF call.at # "idle" /\ call.at \notin {"sent", "replay"}
             THEN [call EXCEPT !.settled = outcome] ELSE call

-----------------------------------------------------------------------------
(* What starts a renewal.                                                   *)

\* hydrate: without a cookie there is nothing to restore.
Hydrate ==
  /\ tab.hydrated = "no"
  /\ IF jar = Nobody
     THEN tab' = [tab EXCEPT !.hydrated = "yes"] /\ UNCHANGED <<run, asked>>
     ELSE tab' = [tab EXCEPT !.hydrated = "running"] /\ StartRun(tab)
  /\ UNCHANGED <<jar, told, call, others, lost>>

RenewTimer ==
  /\ tab.renewAt /\ tab.age # "fresh"
  /\ tab' = [tab EXCEPT !.renewAt = FALSE] /\ StartRun(tab)
  /\ lost' = (lost \/ (run # NoRun /\ run.epoch # tab.epoch))
  /\ UNCHANGED <<jar, told, call, others>>

\* The timer of a 429 ends with its window.
RetryTimer ==
  /\ tab.retryAt /\ ~tab.limited
  /\ tab' = [tab EXCEPT !.retryAt = FALSE] /\ StartRun(tab)
  /\ UNCHANGED <<jar, told, call, others, lost>>

\* watchSession: the tab is looked at again.
TabReturns ==
  /\ Needs(tab) /\ run = NoRun /\ ~tab.limited
  /\ StartRun(tab)
  /\ UNCHANGED <<jar, tab, told, call, others, lost>>

WindowEnds ==
  /\ tab.limited
  /\ tab' = [tab EXCEPT !.limited = FALSE]
  /\ UNCHANGED <<jar, run, asked, told, call, others, lost>>

\* A run has its headers, or has given up, long before a token that was applied
\* beside it nears its end; a body may take as long as it likes.
TokenAges ==
  /\ tab.age \in {"fresh", "near"}
  /\ tab.age = "fresh" => run = NoRun \/ run.applied = tab.applied \/ BodyAwaited
  /\ tab' = [tab EXCEPT !.age = IF @ = "fresh" THEN "near" ELSE "expired"]
  /\ UNCHANGED <<jar, run, asked, told, call, others, lost>>

-----------------------------------------------------------------------------
(* Answers.                                                                 *)

\* The cookies come with the headers, for a page that is gone as well.
JarAfter(q, answer) ==
  CASE answer = "ok" /\ q.kind # "logout" -> q.who
    [] q.kind = "logout" \/ answer = "refused" -> Nobody
    [] OTHER -> jar

\* runRefresh, an answer that is not ok and that its run still waits for.
RunAnswered(r, answer) ==
  LET ended == run.epoch # tab.epoch
  IN IF answer = "conflict" /\ run.at = "first"
     THEN /\ run' = [run EXCEPT !.at = "sleep"] /\ asked' = Done(r)
          /\ UNCHANGED <<tab, call>>
     ELSE IF ended THEN asked' = Done(r) /\ SettleRun(tab, "resolved")
     ELSE IF answer = "refused"
     THEN asked' = Stale(Done(r)) /\ SettleRun(Cleared(tab, TRUE), "resolved")
     ELSE /\ asked' = Done(r)
          /\ SettleRun([ScheduleRetry(tab) EXCEPT !.limited = @ \/ answer = "limited"], "rejected")

\* applyLate's two checks: the session did not end, none was applied since.
StillWanted(q) == q.epoch = tab.epoch /\ q.applied = tab.applied
StillSignedIn(q) == q.applied = tab.applied
LateWanted(q) == StillWanted(q)

HeadersArrive(r, answer) ==
  /\ asked[r].at = "sent"
  /\ asked[r].kind = "refresh" /\ asked[r].who = Nobody => answer = "refused"
  /\ asked[r].kind # "refresh" => answer = "ok"
  /\ jar' = JarAfter(asked[r], answer)
  /\ LET q == asked[r] IN
     IF q.waiter = "none" \/ (q.waiter = "late" /\ ~(answer = "ok" /\ LateWanted(q)))
     THEN asked' = Done(r) /\ UNCHANGED <<tab, run, call>>
     ELSE IF q.kind = "logout"
     THEN asked' = Stale(Done(r)) /\ tab' = Cleared(tab, FALSE) /\ UNCHANGED <<run, call>>
     ELSE IF answer = "ok"
     THEN asked' = [asked EXCEPT ![r].at = "body"] /\ UNCHANGED <<tab, run, call>>
     ELSE RunAnswered(r, answer)
  /\ UNCHANGED <<told, others, lost>>

\* The body of an ok answer, or a piece of it.
BodyArrives(r, whole) ==
  /\ asked[r].at = "body"
  /\ LET q == asked[r]
         onTime == run.req = r
         wanted == CASE q.kind = "login" -> TRUE
                     [] onTime -> run.epoch = tab.epoch
                     [] OTHER -> LateWanted(q)
         after == IF whole /\ wanted THEN Applied(tab, r) ELSE tab
     IN /\ asked' = IF whole /\ wanted THEN Outdate(asked, r) ELSE Done(r)
        /\ IF onTime THEN SettleRun(after, IF whole THEN "resolved" ELSE "rejected")
           ELSE /\ tab' = IF q.kind = "login" /\ whole THEN [after EXCEPT !.hydrated = "yes"] ELSE after
                /\ UNCHANGED <<run, call>>
        /\ lost' = IF whole /\ wanted THEN FALSE ELSE lost \/ ~whole
  /\ UNCHANGED <<jar, told, others>>

\* Ten seconds without an answer, or no network: the waiting stops, the request
\* does not, and a retry is scheduled.
RunTimesOut ==
  /\ run.at \in {"first", "second"} /\ asked[run.req].at = "sent"
  /\ asked' = [asked EXCEPT ![run.req] =
                 [@ EXCEPT !.waiter = "late", !.epoch = run.epoch, !.applied = run.applied]]
  /\ SettleRun(IF run.epoch = tab.epoch THEN ScheduleRetry(tab) ELSE tab, "rejected")
  /\ UNCHANGED <<jar, told, others, lost>>

\* The retry after a conflict, with the cookies of the winner.
ConflictRetry ==
  /\ run.at = "sleep" /\ Len(asked) < MaxAnswers
  /\ asked' = Append(asked, Asked("refresh", jar))
  /\ run' = [run EXCEPT !.at = "second", !.req = Len(asked) + 1]
  /\ UNCHANGED <<jar, tab, told, call, others, lost>>

-----------------------------------------------------------------------------
(* The user, and the other tabs.                                            *)

NoneOut(kind) == \A i \in DOMAIN asked : asked[i].kind = kind => asked[i].at = "done"

Login(u) ==
  /\ Len(asked) < MaxAnswers /\ NoneOut("login")
  /\ asked' = Append(asked, Asked("login", u))
  /\ UNCHANGED <<jar, tab, run, told, call, others, lost>>

Logout ==
  /\ tab.token # NoToken /\ Len(asked) < MaxAnswers /\ NoneOut("logout")
  /\ asked' = Append(asked, Asked("logout", jar))
  /\ UNCHANGED <<jar, tab, run, told, call, others, lost>>

\* The sign-out does not reach the server: the tab forgets its session anyway.
LogoutFails(r) ==
  /\ asked[r].kind = "logout" /\ asked[r].at = "sent" /\ asked[r].waiter = "page"
  /\ asked' = Stale(Done(r)) /\ tab' = Cleared(tab, FALSE)
  /\ UNCHANGED <<jar, run, told, call, others, lost>>

\* The page is loaded anew; what it had asked for is still answered.
Reload ==
  /\ others < MaxOthers
  /\ tab' = NewPage /\ run' = NoRun /\ call' = NoCall /\ told' = FALSE
  /\ asked' = [i \in DOMAIN asked |->
                 IF asked[i].at = "sent" THEN [asked[i] EXCEPT !.waiter = "none"] ELSE Forgotten]
  /\ others' = others + 1
  /\ UNCHANGED <<jar, lost>>

OtherTab(who) ==
  /\ jar # who /\ others < MaxOthers
  /\ jar' = who /\ told' = (told \/ who = Nobody)
  /\ others' = others + 1
  /\ UNCHANGED <<tab, run, asked, call, lost>>

\* bus.onmessage.
Told ==
  /\ told
  /\ told' = FALSE
  /\ tab' = Cleared(tab, FALSE) /\ asked' = Stale(asked)
  /\ UNCHANGED <<jar, run, call, others, lost>>

-----------------------------------------------------------------------------
(* authFetch, step by step between its awaits.                              *)

Waits(at, now) == call' = [call EXCEPT !.at = at, !.settled = now]
Ends == call' = NoCall

\* A call waits for the restore of the page first.  A call of kind "me" is that
\* of reloadUser.
Begins(kind, now) == call' = [NoCall EXCEPT !.at = "hydrate", !.kind = kind, !.settled = now]
CallApi(kind) ==
  /\ call = NoCall
  /\ \/ tab.hydrated = "no" /\ jar # Nobody /\ StartRun(tab)
        /\ tab' = [tab EXCEPT !.hydrated = "running"] /\ Begins(kind, "no")
     \/ tab.hydrated = "no" /\ jar = Nobody /\ tab' = [tab EXCEPT !.hydrated = "yes"]
        /\ Begins(kind, "resolved") /\ UNCHANGED <<run, asked>>
     \/ tab.hydrated = "running" /\ Begins(kind, "no") /\ UNCHANGED <<tab, run, asked>>
     \/ tab.hydrated = "yes" /\ Begins(kind, "resolved") /\ UNCHANGED <<tab, run, asked>>
  /\ IF kind = "me" THEN others < MaxOthers /\ others' = others + 1 ELSE UNCHANGED others
  /\ UNCHANGED <<jar, told, lost>>

\* bearerSnapshot, after its wait: an expired token is not used.
Unusable == call.settled = "rejected" /\ tab.age \in {"none", "expired"}
\* The account of the token, and the one the store shows beside it.
Holder == IF tab.token = NoToken THEN Nobody ELSE asked[tab.token].who
ShownUser == IF tab.token = NoToken THEN Nobody ELSE tab.user
SendFirst ==
  call' = [call EXCEPT !.at = "sent", !.settled = "no", !.token = tab.token,
                       !.user = ShownUser, !.who = Holder]
SendAgain ==
  call' = [call EXCEPT !.at = "replay", !.settled = "no", !.token = tab.token,
                       !.as = Holder, !.epoch = tab.epoch]
SameAccount == tab.token # NoToken /\ tab.user = call.user
ReplayAllowed == SameAccount

\* The caller goes on, in the turn in which its promise settled.
Resume ==
  /\ call.settled # "no"
  /\ \/ /\ call.at = "hydrate" /\ Needs(tab) /\ StartRun(tab)
        /\ Waits("renew", IF Refused(tab) THEN "rejected" ELSE "no")
     \/ /\ call.at = "hydrate" /\ ~Needs(tab) /\ SendFirst /\ UNCHANGED <<run, asked>>
     \/ /\ call.at = "renew" /\ UNCHANGED <<run, asked>>
        /\ IF Unusable THEN Ends ELSE SendFirst
     \/ /\ call.at = "again" /\ (call.settled = "rejected" \/ ~SameAccount)
        /\ Ends /\ UNCHANGED <<run, asked>>
     \/ /\ call.at = "again" /\ call.settled = "resolved" /\ SameAccount
        /\ IF Needs(tab)
           THEN StartRun(tab) /\ Waits("renewAgain", IF Refused(tab) THEN "rejected" ELSE "no")
           ELSE SendAgain /\ UNCHANGED <<run, asked>>
     \/ /\ call.at = "renewAgain" /\ UNCHANGED <<run, asked>>
        /\ IF Unusable \/ ~ReplayAllowed THEN Ends ELSE SendAgain
  /\ UNCHANGED <<jar, tab, told, others, lost>>

\* The answer to the first attempt; a revoked token is renewed, unless the tab
\* has another one already.
CallAnswered(revoked) ==
  /\ call.at = "sent"
  /\ IF ~revoked \/ call.token = NoToken THEN Ends /\ UNCHANGED <<run, asked>>
     ELSE IF tab.token = call.token
     THEN StartRun(tab) /\ Waits("again", IF Refused(tab) THEN "rejected" ELSE "no")
     ELSE Waits("again", "resolved") /\ UNCHANGED <<run, asked>>
  /\ UNCHANGED <<jar, tab, told, others, lost>>

\* reloadUser has the account of the token its request carried, and writes it
\* beside whatever token the tab holds by now: newer data than that of a late
\* refresh, unless the session is another one.  mixed is history.
ReloadUser ==
  /\ call.kind = "me" /\ call.at \in {"sent", "replay"} /\ call.token # NoToken
  /\ LET user == IF call.at = "sent" THEN call.who ELSE call.as IN
     tab' = [tab EXCEPT !.user = user, !.applied = @ + 1,
                        !.mixed = @ \/ (tab.token # NoToken /\ user # Holder)]
  /\ asked' = Outdate(asked, 0)
  /\ Ends
  /\ UNCHANGED <<jar, run, told, others, lost>>

\* The answer to the replay: a second refusal of the current token signs out.
ReplayAnswered(revoked) ==
  /\ call.at = "replay"
  /\ IF revoked /\ tab.token = call.token /\ call.epoch = tab.epoch
     THEN tab' = Cleared(tab, TRUE) /\ asked' = Stale(asked)
     ELSE UNCHANGED <<tab, asked>>
  /\ Ends
  /\ UNCHANGED <<jar, run, told, others, lost>>

\* At the bound the tab stops.
BrowserNext ==
  \/ Len(asked) = MaxAnswers /\ UNCHANGED browserVars
  \/ Resume
  \/ /\ call.settled = "no"
     /\ \/ Hydrate \/ RenewTimer \/ RetryTimer \/ TabReturns \/ WindowEnds \/ TokenAges
        \/ \E r \in DOMAIN asked :
             \/ \E answer \in Answers : HeadersArrive(r, answer)
             \/ LogoutFails(r)
             \/ \E whole \in BOOLEAN : BodyArrives(r, whole)
        \/ RunTimesOut \/ ConflictRetry
        \/ Logout \/ Reload \/ Told
        \/ \E u \in Account : Login(u)
        \/ \E who \in Account \cup {Nobody} : OtherTab(who)
        \/ \E kind \in {"api", "me"} : CallApi(kind)
        \/ ReloadUser
        \/ \E revoked \in BOOLEAN : CallAnswered(revoked) \/ ReplayAnswered(revoked)

BrowserSpec == BrowserInit /\ [][BrowserNext]_browserVars

-----------------------------------------------------------------------------
(* Properties.                                                              *)

\* A session that ended in this tab is not brought back by a refresh that was
\* out when it did, and a refresh its waiters had given up on does not replace
\* what was applied meanwhile (sessionEpoch, appliedSessions).
EndedStaysEnded ==
  tab.token # NoToken =>
    LET q == asked[tab.token] IN ~q.stale /\ (q.waiter = "late" => ~q.outdated)

\* A request goes out a second time only with a token of the account whose token
\* it first went out with, whatever signed in or out while it waited (authFetch),
\* unless reloadUser has put another account beside this page's token.
ReplayKeepsAccount == call.at = "replay" /\ ~tab.mixed => call.as = call.who

\* Neither a late answer nor a replay mixes one session up with another.
SessionsAreKept == EndedStaysEnded /\ ReplayKeepsAccount

\* A signed-in tab never runs out of renewals by itself: a timer is set, or a
\* refresh of this session is under way.  It waits ten seconds for the headers of
\* its answer, but for the body without end; and a body that was cut, or that a
\* refresh of an earlier session still waited for, can lose the next renewal.
RenewalGoesOn ==
  tab.token # NoToken =>
    tab.renewAt \/ tab.retryAt \/ (run # NoRun /\ run.epoch = tab.epoch) \/ lost

\* The claim of REFRESH_TIMEOUT_MS: every waiter gives up on one attempt after ten
\* seconds, so none is left of an earlier session when a token nears its end.
WaitersGiveUp ==
  tab.token # NoToken /\ tab.age # "fresh" => run = NoRun \/ run.epoch = tab.epoch

\* The claim of bearerSnapshot: the header, the token and the account it belongs
\* to always agree.
TokenAndUserAgree == tab.token # NoToken => tab.user = Holder

\* The claim of refreshFailing: while renewing fails, retries are scheduled.
RetriesAreScheduled == tab.token # NoToken => tab.renewAt \/ tab.retryAt \/ run # NoRun

\* The claim of sessionExpired: the server ended the session this tab held.
ExpiredWasHeld ==
  [][run # NoRun /\ run' = NoRun /\ tab'.expired /\ tab.token # NoToken
       => tab.token < run.req]_browserVars
=============================================================================
