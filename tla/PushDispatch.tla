---------------------------- MODULE PushDispatch ----------------------------
(***************************************************************************)
(* Swing pushes to one follower: jobs for several fixtures that share the  *)
(* user's daily budget, one Redis window key per fixture, and deliveries   *)
(* that fail, are retried once or are cut off by the job timeout.          *)
(*                                                                         *)
(* Time is discrete.  What a job does for its other followers is the time  *)
(* that passes between this user's steps.  The user has a limited tier     *)
(* whose limit does not change; dead subscriptions are skipped, and their  *)
(* deletion, committed at the end of the job, is left out.  A push is one  *)
(* that the push service answered for: one whose answer is lost counts as  *)
(* failed here, as it does for the code, whether or not it was shown.      *)
(***************************************************************************)
EXTENDS Naturals, Sequences, FiniteSets

CONSTANTS
  Job,        \* push_task runs (bound)
  Fixture,
  Subs,       \* the user's subscriptions
  Limit,      \* pushes_per_day
  Window,     \* push_rate_limit_seconds, in ticks
  RetryDelay, \* push_retry_delay_seconds
  JobTimeout, \* job_timeout of the realtime worker
  Second,     \* a TTL is in whole seconds: the ticks of one
  DayLength,
  MaxClock    \* bound

ASSUME BoundAssumption ==
  /\ IsFiniteSet(Job) /\ Subs \in Nat \ {0} /\ Limit \in Nat
  /\ Second \in Nat \ {0} /\ DayLength \in Nat \ {0}
  /\ RetryDelay \in Nat /\ MaxClock \in Nat
\* 300 s and 60 s: a job ends before its window key expires.
ASSUME WindowAssumption == JobTimeout \in Nat /\ Window \in Nat /\ JobTimeout < Window

VARIABLES
  clock,
  job,     \* each job, in the part that concerns this user
  window,  \* push:rl:{user}:{fixture}: when the key expires
  budget,  \* limits:push:{user}:{day}: the count and when the key expires
  pushes   \* history: the pushes delivered to the user

vars == <<clock, job, window, budget, pushes>>

Midnight(t) == t - (t % DayLength) + DayLength
DayOf(t) == t \div DayLength
LastSecond(t) == Midnight(t) - t < Second
Today == DayOf(clock)
Day == 0..DayOf(MaxClock)

Holding == {"send", "asleep", "release"}
Running == {"window", "reserve", "free"} \cup Holding
Late == MaxClock + DayLength + Second + Window + RetryDelay

TypeOK ==
  /\ clock \in 0..MaxClock
  /\ job \in [Job -> [at : {"idle", "done", "lost"} \cup Running, fixture : Fixture,
                      start : 0..MaxClock, opened : 0..MaxClock, subs : 0..Subs,
                      retried : BOOLEAN, wake : 0..Late]]
  /\ window \in [Fixture -> 0..Late]
  /\ budget \in [Day -> [used : Nat, ends : 0..Late]]
  /\ pushes \in Seq([by : Job, at : 0..MaxClock])

Init ==
  /\ clock = 0
  /\ job \in [Job -> {[at |-> "idle", fixture |-> f, start |-> 0, opened |-> 0,
                       subs |-> Subs, retried |-> FALSE, wake |-> 0] : f \in Fixture}]
  /\ window = [f \in Fixture |-> 0]
  /\ budget = [d \in Day |-> [used |-> 0, ends |-> 0]]
  /\ pushes = << >>

Put(j, r) == job' = [job EXCEPT ![j] = r]
\* The delivery's own state is forgotten with the delivery.
Move(j, step) == Put(j,
  IF step \in {"send", "asleep"} THEN [job[j] EXCEPT !.at = step]
  ELSE [job[j] EXCEPT !.at = step, !.subs = Subs, !.retried = FALSE, !.wake = 0])
Fix(j) == job[j].fixture
DayKey(j) == DayOf(job[j].start)

-----------------------------------------------------------------------------
(* The two keys.                                                            *)

\* A swing's job starts; "now" is read once, here.
Start(j) ==
  /\ job[j].at = "idle"
  /\ Put(j, [job[j] EXCEPT !.at = "window", !.start = clock])
  /\ UNCHANGED <<clock, window, budget, pushes>>

\* SET rl_key NX EX window; a key that is there suppresses the push.
TakeWindow(j) ==
  /\ job[j].at = "window"
  /\ IF window[Fix(j)] > clock
     THEN Move(j, "done") /\ UNCHANGED window
     ELSE /\ Put(j, [job[j] EXCEPT !.at = "reserve", !.opened = clock])
          /\ window' = [window EXCEPT ![Fix(j)] = clock + Window]
  /\ UNCHANGED <<clock, budget, pushes>>

\* A key past its expiry counts zero.
Exists(d) == clock < budget[d].ends
Used(d) == IF Exists(d) THEN budget[d].used ELSE 0

\* seconds_until_utc_midnight: whole seconds, and one at least.
TimeToLive(t) ==
  LET left == Midnight(t) - t IN IF left < Second THEN Second ELSE left - (left % Second)

\* _INCR_WITHIN_LIMIT on the key of the day the job started on; a new key
\* gets the whole seconds from that start to its midnight, and may so be gone
\* in the last second of its day.
Take(j) == budget' = [budget EXCEPT ![DayKey(j)] =
  [used |-> Used(DayKey(j)) + 1,
   ends |-> IF Exists(DayKey(j)) THEN @.ends ELSE clock + TimeToLive(job[j].start)]]

ReserveOneMore(j) ==
  /\ job[j].at = "reserve"
  /\ IF Used(DayKey(j)) <= Limit
     THEN Take(j) /\ Move(j, "send")
     ELSE Move(j, "free") /\ UNCHANGED budget
  /\ UNCHANGED <<clock, window, pushes>>
Reserve(j) ==
  /\ job[j].at = "reserve"
  /\ IF Used(DayKey(j)) < Limit
     THEN Take(j) /\ Move(j, "send")
     ELSE Move(j, "free") /\ UNCHANGED budget
  /\ UNCHANGED <<clock, window, pushes>>

\* _DECR_FLOOR_ZERO: a key that has expired is left alone.
Release(j) ==
  /\ job[j].at = "release"
  /\ budget' = IF Used(DayKey(j)) = 0 THEN budget
               ELSE [budget EXCEPT ![DayKey(j)].used = @ - 1]
  /\ Move(j, "free")
  /\ UNCHANGED <<clock, window, pushes>>

\* DELETE rl_key: nothing was delivered.
FreeWindow(j) ==
  /\ job[j].at = "free"
  /\ window' = [window EXCEPT ![Fix(j)] = 0]
  /\ Move(j, "done")
  /\ UNCHANGED <<clock, budget, pushes>>

-----------------------------------------------------------------------------
(* Delivery: each subscription in turn, twice at most.                      *)

Reaches(j) == pushes' = Append(pushes, [by |-> j, at |-> clock])

DeliverAndFree(j) ==
  /\ job[j].at = "send"
  /\ Reaches(j)
  /\ Move(j, "free")
  /\ UNCHANGED <<clock, window, budget>>
Deliver(j) ==
  /\ job[j].at = "send"
  /\ Reaches(j)
  /\ Move(j, "done")
  /\ UNCHANGED <<clock, window, budget>>

\* The next subscription, or the finally block when there is none.
NextSub(j) ==
  IF job[j].subs = 1 THEN Move(j, "release")
  ELSE Put(j, [job[j] EXCEPT !.at = "send", !.subs = @ - 1, !.retried = FALSE, !.wake = 0])

\* 404 or 410: the subscription is given up at once.
Gone(j) ==
  /\ job[j].at = "send"
  /\ NextSub(j)
  /\ UNCHANGED <<clock, window, budget, pushes>>

\* A transport error or a refusal: sleep and retry, then give up.
Fail(j) ==
  /\ job[j].at = "send"
  /\ IF job[j].retried THEN NextSub(j)
     ELSE Put(j, [job[j] EXCEPT !.at = "asleep", !.retried = TRUE,
                                !.wake = clock + RetryDelay])
  /\ UNCHANGED <<clock, window, budget, pushes>>

Wake(j) ==
  /\ job[j].at = "asleep" /\ clock >= job[j].wake
  /\ Put(j, [job[j] EXCEPT !.at = "send", !.wake = 0])
  /\ UNCHANGED <<clock, window, budget, pushes>>

\* The timeout, a worker's stop or an unexpected exception: to the finally.
BlowUp(j) ==
  /\ job[j].at \in {"send", "asleep"}
  /\ Move(j, "release")
  /\ UNCHANGED <<clock, window, budget, pushes>>

\* The worker dies, or an exception is raised outside the try block or
\* within the finally block: what is left is not done.  max_tries is 1.
Lose(j) ==
  /\ job[j].at \in Running
  /\ Move(j, "lost")
  /\ UNCHANGED <<clock, window, budget, pushes>>

\* Time passes; no job outlives its timeout.
Tick ==
  /\ clock < MaxClock
  /\ \A j \in Job : job[j].at \in Running => clock < job[j].start + JobTimeout
  /\ clock' = clock + 1
  /\ UNCHANGED <<job, window, budget, pushes>>

\* Every job has ended.
Over == (\A j \in Job : job[j].at \in {"done", "lost"}) /\ UNCHANGED vars

Next ==
  \/ \E j \in Job :
       \/ Start(j) \/ TakeWindow(j) \/ Reserve(j) \/ Release(j) \/ FreeWindow(j)
       \/ Deliver(j) \/ Gone(j) \/ Fail(j) \/ Wake(j) \/ BlowUp(j) \/ Lose(j)
  \/ Tick \/ Over

Spec == Init /\ [][Next]_vars

-----------------------------------------------------------------------------
(* Properties.                                                              *)

\* At most one push per (user, fixture) per window (dispatch_push): two
\* pushes of a fixture belong to windows opened at least Window apart.
OnePushPerWindow ==
  \A m, n \in DOMAIN pushes :
    LET p == pushes[m].by  q == pushes[n].by
    IN m < n /\ Fix(p) = Fix(q) => p # q /\ job[p].opened + Window <= job[q].opened

\* However many jobs of different fixtures run, fail and give units back,
\* those that start and deliver on one day deliver no more than its limit
\* before the day's last second.  In that second the count may start again,
\* once: the day as a whole has no more than twice the limit.
SameDayBudget ==
  \A d \in Day :
    LET received == {n \in DOMAIN pushes : DayOf(pushes[n].at) = d /\ DayKey(pushes[n].by) = d}
    IN /\ Cardinality({n \in received : ~LastSecond(pushes[n].at)}) <= Limit
       /\ Cardinality(received) <= 2 * Limit

\* Without a lost job, today's count is, up to the day's last second, what
\* today's jobs delivered and what they hold: no unit is given back twice or
\* kept by a failed delivery.
BudgetIsExact ==
  (\A j \in Job : job[j].at # "lost") /\ ~LastSecond(clock) =>
    Used(Today) =
      Cardinality({j \in Job : job[j].at \in Holding /\ DayKey(j) = Today})
      + Cardinality({n \in DOMAIN pushes : DayKey(pushes[n].by) = Today})

\* The daily budget is a cap and, but for lost jobs, no less than that.
DailyBudget == SameDayBudget /\ BudgetIsExact

\* A window that suppresses pushes belongs to a job that is still trying,
\* delivered, or was lost: a failed delivery lets the next swing try again.
WindowIsFreed ==
  \A f \in Fixture : window[f] > clock =>
    \E j \in Job :
      /\ Fix(j) = f /\ window[f] = job[j].opened + Window
      /\ \/ job[j].at \in Running \cup {"lost"}
         \/ \E n \in DOMAIN pushes : pushes[n].by = j

\* A window lets one push through, and shuts out the next only for one.
WindowsAreHonoured == OnePushPerWindow /\ WindowIsFreed

\* The claim of dispatch_push: pushes are hard-stopped by the budget of the
\* UTC day; on no day does the user receive more than pushes_per_day.  Jobs
\* that start before midnight break it, and a key that is gone before it.
CalendarDayBudget ==
  \A d \in Day : Cardinality({n \in DOMAIN pushes : DayOf(pushes[n].at) = d}) <= Limit
=============================================================================
