---------------------------- MODULE LivePollLoop ----------------------------
(***************************************************************************)
(* The self-rescheduling live poll: a job that takes a Redis single-flight *)
(* lock, polls, gives the lock back and enqueues its successor.  Nothing   *)
(* but a worker's start seeds the loop.                                    *)
(*                                                                         *)
(* Time is discrete.  A job is queued with a delay, runs on one worker,    *)
(* and is cancelled into its finally block after JobTimeout; ARQ runs it   *)
(* at most once (max_tries = 1), so a job lost with its worker is gone.    *)
(***************************************************************************)
EXTENDS Naturals, FiniteSets

CONSTANTS
  Worker,      \* realtime workers (replicas)
  Job,         \* jobs queued or running at once (bound)
  Interval,    \* LIVE_POLL_INTERVAL_SECONDS, in ticks
  JobTimeout,  \* job_timeout of the realtime worker
  Cleanup,     \* longest time of the finally block's Redis calls
  MaxStarts,   \* worker starts, the first ones included (bound)
  MaxFailures, \* crashes and failed Redis calls (bound)
  NoJob

ASSUME TimeAssumption ==
  Interval \in Nat \ {0} /\ JobTimeout \in Nat \ {0} /\ Cleanup \in Nat
\* The lock outlives a run: so it is with the defaults (60 s and 60 s), but
\* not with a poll interval under half the job timeout.
ASSUME TtlAssumption == JobTimeout + Cleanup < 2 * Interval
\* Every start adds a chain of jobs, and each chain has one job at a time.
ASSUME BoundAssumption ==
  /\ MaxStarts \in Nat /\ MaxFailures \in Nat
  /\ IsFiniteSet(Job) /\ Cardinality(Job) >= MaxStarts /\ NoJob \notin Job

VARIABLES
  job,       \* each job slot: where it is, its remaining time, its worker
  lock,      \* LIVE_POLL_LOCK_KEY: the job whose token it holds
  ttl,       \* the lock's remaining life
  up,        \* the running workers
  starts, failures

vars == <<job, lock, ttl, up, starts, failures>>

Step == {"free", "queued", "polling", "polled", "owner", "released"}
Free == [at |-> "free", left |-> 0, on |-> {}]
Queued(delay) == [at |-> "queued", left |-> delay, on |-> {}]

OneInterval == Interval
LockTtl == 2 * Interval

TypeOK ==
  /\ job \in [Job -> [at : Step, left : 0..(Interval + JobTimeout + Cleanup),
                      on : SUBSET Worker]]
  /\ lock \in Job \cup {NoJob}
  /\ ttl \in 0..LockTtl /\ (lock = NoJob <=> ttl = 0)
  /\ up \subseteq Worker
  /\ starts \in 0..MaxStarts /\ failures \in 0..MaxFailures

Running(j) == job[j].at \notin {"free", "queued"}
Polling == {j \in Job : job[j].at = "polling"}
InFinally(j) == job[j].at \in {"polled", "owner", "released"}

Init ==
  /\ job = [j \in Job |-> Free]
  /\ lock = NoJob /\ ttl = 0
  /\ up = {} /\ starts = 0 /\ failures = 0

Put(j, r) == job' = [job EXCEPT ![j] = r]
Move(j, step) == Put(j, [job[j] EXCEPT !.at = step])

\* A worker starts and, before it takes any job, enqueues a poll.
StartWorker(w) ==
  /\ w \notin up /\ starts < MaxStarts
  /\ \E j \in Job : job[j].at = "free" /\ Put(j, Queued(0))
  /\ up' = up \cup {w}
  /\ starts' = starts + 1
  /\ UNCHANGED <<lock, ttl, failures>>

AcquireAnyway(j) ==
  /\ job[j] = Queued(0)
  /\ \E w \in up : Put(j, [at |-> "polling", left |-> JobTimeout, on |-> {w}])
  /\ lock' = j /\ ttl' = LockTtl
  /\ UNCHANGED <<up, starts, failures>>

\* A due job starts on some worker: SET key token NX EX 2 * interval.
Acquire(j) ==
  /\ job[j] = Queued(0) /\ lock = NoJob
  /\ \E w \in up : Put(j, [at |-> "polling", left |-> JobTimeout, on |-> {w}])
  /\ lock' = j /\ ttl' = LockTtl
  /\ UNCHANGED <<up, starts, failures>>

\* The lock is held: the job returns and enqueues nothing.
Skip(j) ==
  /\ job[j] = Queued(0) /\ up # {} /\ lock # NoJob
  /\ Put(j, Free)
  /\ UNCHANGED <<lock, ttl, up, starts, failures>>

\* The poll ends: it committed, failed, or was cancelled by the job timeout
\* or by the worker's orderly stop.
EndPoll(j) ==
  /\ job[j].at = "polling"
  /\ Put(j, [job[j] EXCEPT !.at = "polled", !.left = @ + Cleanup])
  /\ UNCHANGED <<lock, ttl, up, starts, failures>>

\* GET key = token, then DELETE key, two calls.
CheckToken(j) ==
  /\ job[j].at = "polled"
  /\ Move(j, IF lock = j THEN "owner" ELSE "released")
  /\ UNCHANGED <<lock, ttl, up, starts, failures>>

DeleteLock(j) ==
  /\ job[j].at = "owner"
  /\ Move(j, "released")
  /\ lock' = NoJob /\ ttl' = 0
  /\ UNCHANGED <<up, starts, failures>>

\* The successor is enqueued one interval ahead; the slot is reused.
NoReschedule(j) ==
  /\ job[j].at = "released"
  /\ Put(j, Free)
  /\ UNCHANGED <<lock, ttl, up, starts, failures>>

Reschedule(j) ==
  /\ job[j].at = "released"
  /\ Put(j, Queued(Interval))
  /\ UNCHANGED <<lock, ttl, up, starts, failures>>

\* An orderly stop cancels the worker's polls into their finally blocks and
\* waits for these.
StopWorker(w) ==
  /\ w \in up /\ \A j \in Job : w \notin job[j].on
  /\ up' = up \ {w}
  /\ UNCHANGED <<job, lock, ttl, starts, failures>>

\* A crash loses the worker's running jobs; the lock stays until it expires.
Crash(w) ==
  /\ w \in up /\ failures < MaxFailures
  /\ up' = up \ {w}
  /\ job' = [j \in Job |-> IF w \in job[j].on THEN Free ELSE job[j]]
  /\ failures' = failures + 1
  /\ UNCHANGED <<lock, ttl, starts>>

\* The SET or a Redis call of the finally block fails, or the job timeout
\* strikes inside that block: the rest is skipped.
LoseJob(j) ==
  /\ InFinally(j) \/ (job[j] = Queued(0) /\ up # {})
  /\ failures < MaxFailures
  /\ Put(j, Free)
  /\ failures' = failures + 1
  /\ UNCHANGED <<lock, ttl, up, starts>>

\* Time passes, but no running job outlives its timeout and its cleanup.
Tick ==
  /\ \A j \in Job : Running(j) => job[j].left > 0
  /\ job' = [j \in Job |-> [job[j] EXCEPT !.left = IF @ = 0 THEN 0 ELSE @ - 1]]
  /\ ttl' = IF ttl = 0 THEN 0 ELSE ttl - 1
  /\ lock' = IF ttl' = 0 THEN NoJob ELSE lock
  /\ UNCHANGED <<up, starts, failures>>

JobStep(j) ==
  \/ Acquire(j) \/ Skip(j) \/ EndPoll(j)
  \/ CheckToken(j) \/ DeleteLock(j) \/ Reschedule(j)

Next ==
  \/ \E j \in Job : JobStep(j) \/ LoseJob(j)
  \/ \E w \in Worker : StartWorker(w) \/ StopWorker(w) \/ Crash(w)
  \/ Tick

Spec == Init /\ [][Next]_vars

\* A worker that is down is started again while starts are left, ARQ runs a
\* due job, a job goes on, and time passes.
FairSpec ==
  /\ Spec
  /\ \A j \in Job : WF_vars(JobStep(j))
  /\ \A w \in Worker : WF_vars(StartWorker(w))
  /\ WF_vars(Tick)

-----------------------------------------------------------------------------
(* Properties.                                                              *)

\* A slow poll never overlaps the next tick or another chain's poll
\* (poll_live_task): the lock outlives every poll that holds it.
SingleFlight == Cardinality(Polling) <= 1

\* Whoever polls or is about to delete the lock holds it, so no job deletes
\* another job's lock between its GET and its DELETE.
NoStaleRelease ==
  \A j \in Job : job[j].at \in {"polling", "owner"} => lock = j

\* Until a first crash or failed call, the loop goes on as long as a worker is
\* up, whatever the orderly restarts and however many chains collide.
LoopGoesOn == []<>(Polling # {} \/ up = {} \/ failures > 0)

\* The claim of _bootstrap_live_loop: a worker's start kicks off the poll.
StartKicksOffLoop == up # {} ~> (Polling # {} \/ up = {})
=============================================================================
