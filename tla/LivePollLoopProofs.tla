------------------------ MODULE LivePollLoopProofs -------------------------
(***************************************************************************)
(* Proofs about LivePollLoop, for any number of workers, jobs, starts and  *)
(* failures and any times that satisfy TtlAssumption.                      *)
(*                                                                         *)
(* The argument is about time: the lock's remaining life exceeds what the  *)
(* job that holds it may still use, cleanup included, and both shrink      *)
(* together.  So the lock cannot expire under its holder.                  *)
(***************************************************************************)
EXTENDS LivePollLoop, FiniteSetTheorems, TLAPS

\* A polling job holds the lock and may still need its finally block.
PollHolds ==
  \A j \in Job : job[j].at = "polling" =>
    /\ lock = j
    /\ job[j].left <= JobTimeout
    /\ job[j].left + Cleanup < ttl

\* So does a job that has not given the lock back yet.
FinallyHolds ==
  \A j \in Job : job[j].at \in {"polled", "owner"} =>
    /\ lock = j
    /\ job[j].left < ttl

Inv == TypeOK /\ PollHolds /\ FinallyHolds

USE DEF Step, Free, Queued, LockTtl, Put, Move, Running

LEMMA InitInv == Init => Inv
  BY TimeAssumption, BoundAssumption DEF Init, Inv, TypeOK, PollHolds, FinallyHolds

Slot == [at : Step, left : 0..(Interval + JobTimeout + Cleanup), on : SUBSET Worker]

\* A tick keeps a job slot and what it is doing, and takes its time.
LEMMA Aged ==
  ASSUME NEW r \in Slot, NEW s, s = [r EXCEPT !.left = IF @ = 0 THEN 0 ELSE @ - 1]
  PROVE  /\ s \in Slot /\ s.at = r.at
         /\ s.left = IF r.left = 0 THEN 0 ELSE r.left - 1
  BY TimeAssumption DEF Slot

\* The finally block of a poll has its own time.
LEMMA Ended ==
  ASSUME NEW r \in Slot, r.left <= JobTimeout, NEW s,
         s = [r EXCEPT !.at = "polled", !.left = @ + Cleanup]
  PROVE  s \in Slot /\ s.at = "polled" /\ s.left = r.left + Cleanup
<1>1. r.left + Cleanup \in 0..(Interval + JobTimeout + Cleanup)
  BY TimeAssumption DEF Slot
<1>2. "polled" \in Step
  BY DEF Step
<1> HIDE DEF Step
<1> QED BY <1>1, <1>2 DEF Slot

LEMMA StepInv == Inv /\ [Next]_vars => Inv'
<1> SUFFICES ASSUME Inv, [Next]_vars PROVE Inv'
  OBVIOUS
<1> USE TimeAssumption, TtlAssumption, BoundAssumption
<1>0. TypeOK /\ PollHolds /\ FinallyHolds
  BY DEF Inv
<1>13. \A j \in Job : job[j] \in Slot
  BY <1>0 DEF TypeOK, Slot
<1>14. \A j \in Job : job[j].left \in Nat /\ ttl \in Nat
  BY <1>0, <1>13 DEF TypeOK, Slot
<1>1. ASSUME NEW w \in Worker, StartWorker(w) PROVE Inv'
  <2>1. PICK j \in Job : job[j].at = "free" /\ Put(j, Queued(0))
    BY <1>1 DEF StartWorker
  <2>2. TypeOK'
    BY <1>0, <1>1, <2>1 DEF StartWorker, TypeOK
  <2>3. PollHolds' /\ FinallyHolds'
    BY <1>0, <1>1, <2>1 DEF StartWorker, TypeOK, PollHolds, FinallyHolds
  <2> QED BY <2>2, <2>3 DEF Inv
<1>2. ASSUME NEW j \in Job, Acquire(j) PROVE Inv'
  <2>1. PICK w \in up : Put(j, [at |-> "polling", left |-> JobTimeout, on |-> {w}])
    BY <1>2 DEF Acquire
  <2>2. TypeOK'
    BY <1>0, <1>2, <2>1 DEF Acquire, TypeOK
  <2>3. PollHolds' /\ FinallyHolds'
    \* The lock was free, so no other job holds it.
    BY <1>0, <1>2, <2>1 DEF Acquire, TypeOK, PollHolds, FinallyHolds
  <2> QED BY <2>2, <2>3 DEF Inv
<1>3. ASSUME NEW j \in Job, Skip(j) PROVE Inv'
  <2>1. TypeOK'
    BY <1>0, <1>3 DEF Skip, TypeOK
  <2>2. PollHolds' /\ FinallyHolds'
    BY <1>0, <1>3 DEF Skip, TypeOK, PollHolds, FinallyHolds
  <2> QED BY <2>1, <2>2 DEF Inv
<1>4. ASSUME NEW j \in Job, EndPoll(j) PROVE Inv'
  <2> DEFINE s == [job[j] EXCEPT !.at = "polled", !.left = @ + Cleanup]
  <2>1. job' = [job EXCEPT ![j] = s] /\ UNCHANGED <<lock, ttl, up, starts, failures>>
    BY <1>4 DEF EndPoll
  <2>2. s \in Slot /\ s.at = "polled" /\ s.left = job[j].left + Cleanup
    BY <1>0, <1>4, <1>13, Ended DEF EndPoll, PollHolds
  <2> HIDE DEF s
  <2>3. TypeOK'
    BY <1>0, <2>1, <2>2 DEF TypeOK, Slot
  <2>4. PollHolds' /\ FinallyHolds'
    BY <1>0, <1>4, <2>1, <2>2 DEF EndPoll, TypeOK, PollHolds, FinallyHolds
  <2> QED BY <2>3, <2>4 DEF Inv
<1>5. ASSUME NEW j \in Job, CheckToken(j) PROVE Inv'
  <2>1. TypeOK'
    BY <1>0, <1>5 DEF CheckToken, TypeOK
  <2>2. PollHolds' /\ FinallyHolds'
    BY <1>0, <1>5 DEF CheckToken, TypeOK, PollHolds, FinallyHolds
  <2> QED BY <2>1, <2>2 DEF Inv
<1>6. ASSUME NEW j \in Job, DeleteLock(j) PROVE Inv'
  <2>1. TypeOK'
    BY <1>0, <1>6 DEF DeleteLock, TypeOK
  <2>2. PollHolds' /\ FinallyHolds'
    \* The deleted lock was j's own, so no other job held it.
    BY <1>0, <1>6 DEF DeleteLock, TypeOK, PollHolds, FinallyHolds
  <2> QED BY <2>1, <2>2 DEF Inv
<1>7. ASSUME NEW j \in Job, Reschedule(j) PROVE Inv'
  <2>1. TypeOK'
    BY <1>0, <1>7 DEF Reschedule, TypeOK
  <2>2. PollHolds' /\ FinallyHolds'
    BY <1>0, <1>7 DEF Reschedule, TypeOK, PollHolds, FinallyHolds
  <2> QED BY <2>1, <2>2 DEF Inv
<1>8. ASSUME NEW j \in Job, LoseJob(j) PROVE Inv'
  <2>1. TypeOK'
    BY <1>0, <1>8 DEF LoseJob, TypeOK
  <2>2. PollHolds' /\ FinallyHolds'
    BY <1>0, <1>8 DEF LoseJob, TypeOK, PollHolds, FinallyHolds
  <2> QED BY <2>1, <2>2 DEF Inv
<1>9. ASSUME NEW w \in Worker, StopWorker(w) PROVE Inv'
  BY <1>0, <1>9 DEF StopWorker, Inv, TypeOK, PollHolds, FinallyHolds
<1>10. ASSUME NEW w \in Worker, Crash(w) PROVE Inv'
  <2>1. TypeOK'
    BY <1>0, <1>10 DEF Crash, TypeOK
  <2>2. PollHolds' /\ FinallyHolds'
    BY <1>0, <1>10 DEF Crash, TypeOK, PollHolds, FinallyHolds
  <2> QED BY <2>1, <2>2 DEF Inv
<1>11. ASSUME Tick PROVE Inv'
  <2>1. \A j \in Job :
          /\ job'[j] \in Slot /\ job'[j].at = job[j].at
          /\ job'[j].left = IF job[j].left = 0 THEN 0 ELSE job[j].left - 1
    <3> SUFFICES ASSUME NEW j \in Job
                 PROVE  /\ job'[j] \in Slot /\ job'[j].at = job[j].at
                        /\ job'[j].left = IF job[j].left = 0 THEN 0 ELSE job[j].left - 1
      OBVIOUS
    <3>1. job'[j] = [job[j] EXCEPT !.left = IF @ = 0 THEN 0 ELSE @ - 1]
      BY <1>11 DEF Tick
    <3> QED BY <1>13, <3>1, Aged
  <2>2. TypeOK'
    <3>1. job' \in [Job -> Slot]
      BY <1>11, <2>1 DEF Tick
    <3>2. ttl' \in 0..LockTtl /\ (lock' = NoJob <=> ttl' = 0) /\ lock' \in Job \cup {NoJob}
      BY <1>0, <1>11 DEF Tick, TypeOK
    <3> QED BY <1>0, <1>11, <3>1, <3>2 DEF Tick, TypeOK, Slot
  <2>3. ASSUME NEW j \in Job, job[j].at \in {"polling", "polled", "owner"},
               job[j].left < ttl
        PROVE  job'[j].left = job[j].left - 1 /\ ttl' = ttl - 1 /\ lock' = lock
    <3>1. job[j].left > 0
      BY <1>11, <2>3 DEF Tick
    <3>2. ttl' = ttl - 1 /\ ttl' # 0
      BY <1>14, <1>11, <2>3, <3>1 DEF Tick
    <3> QED BY <1>11, <1>14, <2>1, <3>1, <3>2 DEF Tick
  <2>4. PollHolds'
    <3> SUFFICES ASSUME NEW j \in Job, job'[j].at = "polling"
                 PROVE  lock' = j /\ job'[j].left <= JobTimeout
                        /\ job'[j].left + Cleanup < ttl'
      BY DEF PollHolds
    <3>1. lock = j /\ job[j].left <= JobTimeout /\ job[j].left + Cleanup < ttl
      BY <1>0, <2>1 DEF PollHolds
    <3>2. job[j].left < ttl
      BY <1>14, <3>1
    <3> QED BY <1>14, <2>1, <2>3, <3>1, <3>2
  <2>5. FinallyHolds'
    <3> SUFFICES ASSUME NEW j \in Job, job'[j].at \in {"polled", "owner"}
                 PROVE  lock' = j /\ job'[j].left < ttl'
      BY DEF FinallyHolds
    <3>1. lock = j /\ job[j].left < ttl
      BY <1>0, <2>1 DEF FinallyHolds
    <3> QED BY <1>14, <2>1, <2>3, <3>1
  <2> QED BY <2>2, <2>4, <2>5 DEF Inv
<1>12. CASE UNCHANGED vars
  BY <1>0, <1>12 DEF vars, Inv, TypeOK, PollHolds, FinallyHolds
<1> QED
  BY <1>1, <1>2, <1>3, <1>4, <1>5, <1>6, <1>7, <1>8, <1>9, <1>10, <1>11, <1>12
  DEF Next, JobStep

\* A polling job is the one the lock names.
LEMMA OnePoller == Inv => SingleFlight
<1> SUFFICES ASSUME Inv PROVE Cardinality(Polling) <= 1
  BY DEF SingleFlight
<1>1. CASE Polling = {}
  BY <1>1, FS_EmptySet
<1>2. CASE Polling # {}
  <2>1. Polling = {lock}
    BY <1>2 DEF Inv, PollHolds, Polling
  <2> QED BY <2>1, FS_Singleton
<1> QED BY <1>1, <1>2

LEMMA Invariant == Spec => []Inv
  BY InitInv, StepInv, PTL DEF Spec

-----------------------------------------------------------------------------
\* The loop's variables keep their types; in particular the lock has a life
\* exactly while it names a job.
THEOREM TypeCorrect == Spec => []TypeOK
<1>1. Inv => TypeOK
  BY DEF Inv
<1> QED BY Invariant, <1>1, PTL

\* Two polls never run at once, however many chains, workers and crashes.
THEOREM PollsNeverOverlap == Spec => []SingleFlight
  BY Invariant, OnePoller, PTL

\* The lock a job deletes, between its GET and its DELETE, is its own.
THEOREM ReleasesItsOwn == Spec => []NoStaleRelease
<1>1. Inv => NoStaleRelease
  BY DEF Inv, PollHolds, FinallyHolds, NoStaleRelease
<1> QED BY Invariant, <1>1, PTL
=============================================================================
