------------------------ MODULE PushDispatchProofs -------------------------
(***************************************************************************)
(* Theorems about PushDispatch, for any number of jobs, fixtures and       *)
(* subscriptions, and any limit, window, timeout and length of a day.      *)
(***************************************************************************)
EXTENDS PushDispatch, FiniteSetTheorems, SequenceTheorems, TLAPS

Steps == {"idle", "done", "lost"} \cup Running
\* A job has a subscription left to try as long as it runs.
JobRecord ==
  [at : Steps, fixture : Fixture, start : 0..MaxClock, opened : 0..MaxClock,
   subs : 1..Subs, retried : BOOLEAN, wake : 0..Late]
BudgetRecord == [used : Nat, ends : 0..Late]
PushRecord == [by : Job, at : 0..MaxClock]

TypeInv ==
  /\ clock \in 0..MaxClock
  /\ job \in [Job -> JobRecord]
  /\ window \in [Fixture -> 0..Late]
  /\ budget \in [Day -> BudgetRecord]
  /\ pushes \in Seq(PushRecord)

\* A job between its SET NX and its end: it ends before its key expires.
Opened == {"reserve", "free"} \cup Holding
JobOK(j) ==
  /\ job[j].at # "idle" => job[j].start <= clock
  /\ job[j].at \in Running => clock <= job[j].start + JobTimeout
  /\ job[j].at \in Opened =>
       /\ job[j].start <= job[j].opened /\ job[j].opened <= clock
       /\ window[Fix(j)] = job[j].opened + Window

\* The window of a push is over when its key is gone or was freed by a later job.
PushOK(n) ==
  LET p == pushes[n].by IN
  /\ job[p].at = "done" /\ job[p].start <= pushes[n].at /\ pushes[n].at <= clock
  /\ job[p].opened + Window <= window[Fix(p)] \/ job[p].opened + Window <= clock

OneAtATime ==
  \A j, k \in Job :
    job[j].at \in Opened /\ job[k].at \in Opened /\ Fix(j) = Fix(k) => j = k

\* A job opened its window after those of the pushes of its fixture were over.
HoldersAreLater ==
  \A n \in DOMAIN pushes, j \in Job :
    LET p == pushes[n].by
    IN job[j].at \in Opened /\ Fix(j) = Fix(p) => job[p].opened + Window <= job[j].opened

ShutBySomeone ==
  \A f \in Fixture : window[f] > clock =>
    \E j \in Job :
      /\ Fix(j) = f /\ window[f] = job[j].opened + Window
      /\ \/ job[j].at \in Opened \cup {"lost"}
         \/ \E n \in DOMAIN pushes : pushes[n].by = j

WindowInv ==
  /\ \A j \in Job : JobOK(j)
  /\ \A n \in DOMAIN pushes : PushOK(n)
  /\ OneAtATime /\ HoldersAreLater /\ OnePushPerWindow /\ ShutBySomeone

\* The budget of a day that is not over.  Its first key lives up to the day's
\* last second at least, and its count is what the day's jobs hold and
\* delivered, and what lost jobs held.  In that second another key may count
\* from zero; that one outlives the day.
EndOf(d) == (d + 1) * DayLength
Holders(d) == {j \in Job : job[j].at \in Holding /\ DayKey(j) = d}
Delivered(d) == {n \in DOMAIN pushes : DayKey(pushes[n].by) = d}
Claims(d) == Cardinality(Holders(d)) + Cardinality(Delivered(d))
NobodyLost == \A j \in Job : job[j].at # "lost"
Closing(d) == EndOf(d) < clock + Second
FirstKey(d) ==
  /\ (budget[d].used = 0 /\ budget[d].ends = 0) \/ EndOf(d) < budget[d].ends + Second
  /\ Claims(d) <= budget[d].used
NextKey(d) ==
  /\ Closing(d) /\ EndOf(d) <= budget[d].ends
  /\ Claims(d) <= budget[d].used + Limit
BudgetOK(d) ==
  /\ budget[d].used <= Limit
  /\ FirstKey(d) \/ NextKey(d)
  /\ NobodyLost /\ ~Closing(d) => Claims(d) = budget[d].used

BudgetInv ==
  /\ \A d \in Day : Today <= d => BudgetOK(d)
  /\ SameDayBudget

PushInv == TypeInv /\ WindowInv /\ BudgetInv

-----------------------------------------------------------------------------
(* Days.                                                                    *)

\* Midnight is the end of the day, and at most a day away.
LEMMA Midnights ==
  ASSUME NEW t \in Nat
  PROVE  /\ DayOf(t) \in Nat /\ Midnight(t) = EndOf(DayOf(t)) /\ Midnight(t) \in Nat
         /\ t < Midnight(t) /\ Midnight(t) <= t + DayLength
<1> DEFINE q == t \div DayLength
           r == t % DayLength
<1>1. q \in Nat /\ r \in 0..(DayLength - 1) /\ t = DayLength * q + r
  BY BoundAssumption
<1>2. DayOf(t) = q /\ Midnight(t) = t - r + DayLength
  BY DEF DayOf, Midnight
<1> HIDE DEF q, r
<1>3. (q + 1) * DayLength = DayLength * q + DayLength
  BY <1>1, BoundAssumption
<1>. QED BY <1>1, <1>2, <1>3, BoundAssumption DEF EndOf

\* A key lives for a second at least, and to less than one before midnight.
LEMMA KeysLive ==
  ASSUME NEW t \in Nat
  PROVE  /\ TimeToLive(t) \in Nat /\ Second <= TimeToLive(t)
         /\ TimeToLive(t) <= DayLength + Second
         /\ EndOf(DayOf(t)) < t + TimeToLive(t) + Second /\ EndOf(DayOf(t)) \in Nat
<1> DEFINE left == Midnight(t) - t
           q == left \div Second
           m == left % Second
<1>1. /\ left \in Nat /\ left <= DayLength /\ EndOf(DayOf(t)) = t + left
      /\ Second \in Nat \ {0} /\ DayLength \in Nat
  <2>1. /\ Midnight(t) = EndOf(DayOf(t)) /\ Midnight(t) \in Nat
        /\ t < Midnight(t) /\ Midnight(t) <= t + DayLength
    BY Midnights
  <2>2. Second \in Nat \ {0} /\ DayLength \in Nat
    BY BoundAssumption
  <2>. QED BY <2>1, <2>2
<1>2. TimeToLive(t) = IF left < Second THEN Second ELSE left - m
  BY DEF TimeToLive
<1> HIDE DEF left
<1>3. q \in Nat /\ m \in 0..(Second - 1) /\ left = Second * q + m
  BY <1>1
<1> HIDE DEF q, m
<1>4. CASE left < Second
  BY <1>1, <1>2, <1>4
<1>5. CASE ~(left < Second)
  <2>1. q # 0
    BY <1>1, <1>3, <1>5
  <2>2. ASSUME NEW a \in Nat, a # 0, NEW b \in Nat PROVE b <= b * a
    BY <2>2
  <2>3. Second <= Second * q /\ Second * q \in Nat
    BY <1>1, <1>3, <2>1, <2>2
  <2>. QED BY <1>1, <1>2, <1>3, <1>5, <2>3
<1>. QED BY <1>4, <1>5

\* A time is before the end of its own and of any later day.
LEMMA BeforeTheEnd ==
  ASSUME NEW t \in Nat, NEW d \in Nat, DayOf(t) <= d
  PROVE  t < EndOf(d) /\ EndOf(d) \in Nat
<1>1. DayOf(t) \in Nat /\ t < EndOf(DayOf(t))
  BY Midnights
<1>2. ASSUME NEW a \in Nat, NEW b \in Nat, a <= b, NEW D \in Nat
      PROVE  (a + 1) * D <= (b + 1) * D /\ (a + 1) * D \in Nat /\ (b + 1) * D \in Nat
  BY <1>2
<1>3. EndOf(DayOf(t)) <= EndOf(d) /\ EndOf(d) \in Nat /\ EndOf(DayOf(t)) \in Nat
  BY <1>1, <1>2, BoundAssumption DEF EndOf
<1>. QED BY <1>1, <1>3

\* Days follow one another as times do.
LEMMA DaysGrow ==
  ASSUME NEW s \in Nat, NEW t \in Nat, s <= t
  PROVE  DayOf(s) <= DayOf(t)
<1>1. DayOf(s) \in Nat /\ DayOf(t) \in Nat /\ t < EndOf(DayOf(t))
  BY Midnights
<1>2. CASE DayOf(t) < DayOf(s)
  <2>1. s = DayLength * DayOf(s) + (s % DayLength) /\ s % DayLength \in Nat
    BY BoundAssumption DEF DayOf
  <2>2. ASSUME NEW a \in Nat, NEW b \in Nat, a < b, NEW D \in Nat
        PROVE  (a + 1) * D <= D * b /\ (a + 1) * D \in Nat /\ D * b \in Nat
    BY <2>2
  <2>3. EndOf(DayOf(t)) <= DayLength * DayOf(s) /\ EndOf(DayOf(t)) \in Nat
        /\ DayLength * DayOf(s) \in Nat
    BY <1>1, <1>2, <2>2, BoundAssumption DEF EndOf
  <2>. QED BY <1>1, <2>1, <2>3
<1>. QED BY <1>1, <1>2

\* Every day the clock can reach has a key.
LEMMA DaysExist ==
  ASSUME NEW t \in 0..MaxClock
  PROVE  DayOf(t) \in Day
<1>1. t \in Nat /\ t <= MaxClock /\ MaxClock \in Nat
  BY BoundAssumption
<1>. QED BY <1>1, DaysGrow, Midnights DEF Day

-----------------------------------------------------------------------------
(* Types.                                                                   *)

\* What a job's step says of the jobs: it moves, and keeps what it read.
Moved(j, step) ==
  /\ job' \in [Job -> JobRecord]
  /\ \A k \in Job \ {j} : job'[k] = job[k]
  /\ job'[j].at = step /\ job'[j].fixture = job[j].fixture
  /\ job'[j].start = job[j].start /\ job'[j].opened = job[j].opened

\* A job's record is replaced: the others stay.
LEMMA PutMoves ==
  ASSUME TypeInv, NEW j \in Job, NEW r \in JobRecord, Put(j, r),
         r.fixture = job[j].fixture, r.start = job[j].start, r.opened = job[j].opened
  PROVE  Moved(j, r.at)
BY DEF Put, TypeInv, Moved

\* A move forgets the delivery's own state at most.
LEMMA MoveMoves ==
  ASSUME TypeInv, NEW j \in Job, NEW step \in Steps, Move(j, step)
  PROVE  Moved(j, step)
<1> DEFINE s == job[j]
           r == [s EXCEPT !.at = step]
           e == [s EXCEPT !.at = step, !.subs = Subs, !.retried = FALSE, !.wake = 0]
<1>1. s \in JobRecord /\ Late \in Nat /\ Subs \in 1..Subs
  BY BoundAssumption, WindowAssumption DEF TypeInv, Late
<1>2. Put(j, r) \/ Put(j, e)
  BY DEF Move
<1> HIDE DEF s
<1>3. r \in JobRecord /\ r.fixture = s.fixture /\ r.start = s.start /\ r.opened = s.opened
      /\ r.at = step
  BY <1>1 DEF JobRecord
<1>4. e \in JobRecord /\ e.fixture = s.fixture /\ e.start = s.start /\ e.opened = s.opened
      /\ e.at = step
  <2> DEFINE a == [r EXCEPT !.subs = Subs]
             b == [a EXCEPT !.retried = FALSE]
  <2>1. e = [b EXCEPT !.wake = 0]
    BY <1>1 DEF JobRecord
  <2> HIDE DEF r, e
  <2>2. /\ a \in JobRecord /\ a.fixture = r.fixture /\ a.start = r.start
        /\ a.opened = r.opened /\ a.at = r.at
    BY <1>1, <1>3 DEF JobRecord
  <2> HIDE DEF a
  <2>3. /\ b \in JobRecord /\ b.fixture = a.fixture /\ b.start = a.start
        /\ b.opened = a.opened /\ b.at = a.at
    BY <2>2 DEF JobRecord
  <2> HIDE DEF b
  <2>4. /\ e \in JobRecord /\ e.fixture = b.fixture /\ e.start = b.start
        /\ e.opened = b.opened /\ e.at = b.at
    BY <1>1, <2>1, <2>3 DEF JobRecord
  <2>. QED BY <1>3, <2>2, <2>3, <2>4
<1> HIDE DEF r, e
<1>. QED BY <1>2, <1>3, <1>4, PutMoves DEF s

\* A delivery goes on to its next try, its next subscription or its end.
LEMMA TriesOn ==
  ASSUME TypeInv, NEW j \in Job, Gone(j) \/ Fail(j) \/ Wake(j) \/ BlowUp(j)
  PROVE  /\ job[j].at \in Holding /\ \E s \in Holding : Moved(j, s)
         /\ UNCHANGED <<clock, window, budget, pushes>>
<1> DEFINE s == job[j]
           n == [s EXCEPT !.at = "send", !.subs = @ - 1, !.retried = FALSE, !.wake = 0]
           f == [s EXCEPT !.at = "asleep", !.retried = TRUE, !.wake = clock + RetryDelay]
           w == [s EXCEPT !.at = "send", !.wake = 0]
<1>1. s \in JobRecord /\ Late \in Nat /\ clock + RetryDelay \in 0..Late
  BY BoundAssumption, WindowAssumption DEF TypeInv, Late
<1>2. ASSUME NextSub(j) PROVE \E x \in Holding : Moved(j, x)
  <2>1. CASE s.subs = 1
    BY <1>2, <2>1, MoveMoves DEF NextSub, Holding, Steps, Running
  <2>2. CASE s.subs # 1
    <3> DEFINE a == [s EXCEPT !.at = "send"]
               b == [a EXCEPT !.subs = s.subs - 1]
               c == [b EXCEPT !.retried = FALSE]
    <3>1. Put(j, n)
      BY <1>2, <2>2 DEF NextSub
    <3> HIDE DEF s
    <3>2. n = [c EXCEPT !.wake = 0]
      BY <1>1 DEF JobRecord
    <3> HIDE DEF n
    <3>3. /\ a \in JobRecord /\ a.fixture = s.fixture /\ a.start = s.start
          /\ a.opened = s.opened /\ a.at = "send"
      BY <1>1 DEF JobRecord, Steps, Running, Holding
    <3>4. s.subs - 1 \in 1..Subs
      BY <1>1, <2>2, BoundAssumption DEF JobRecord
    <3> HIDE DEF a
    <3>5. /\ b \in JobRecord /\ b.fixture = a.fixture /\ b.start = a.start
          /\ b.opened = a.opened /\ b.at = a.at
      BY <3>3, <3>4 DEF JobRecord
    <3> HIDE DEF b
    <3>6. /\ c \in JobRecord /\ c.fixture = b.fixture /\ c.start = b.start
          /\ c.opened = b.opened /\ c.at = b.at
      BY <3>5 DEF JobRecord
    <3> HIDE DEF c
    <3>7. /\ n \in JobRecord /\ n.fixture = c.fixture /\ n.start = c.start
          /\ n.opened = c.opened /\ n.at = c.at
      BY <1>1, <3>2, <3>6 DEF JobRecord
    <3>8. /\ n \in JobRecord /\ n.at = "send" /\ n.fixture = s.fixture
          /\ n.start = s.start /\ n.opened = s.opened
      BY <3>3, <3>5, <3>6, <3>7
    <3>9. Moved(j, "send")
      BY <3>1, <3>8, PutMoves DEF s
    <3>. QED BY <3>9 DEF Holding
  <2>. QED BY <2>1, <2>2
<1>3. CASE Gone(j)
  BY <1>2, <1>3 DEF Gone, Holding
<1>4. CASE Fail(j)
  <2>1. CASE s.retried
    BY <1>2, <1>4, <2>1 DEF Fail, Holding
  <2>2. CASE ~ s.retried
    <3> DEFINE a == [s EXCEPT !.at = "asleep"]
               b == [a EXCEPT !.retried = TRUE]
    <3>1. Put(j, f) /\ s.at = "send"
      BY <1>4, <2>2 DEF Fail
    <3> HIDE DEF s
    <3>2. f = [b EXCEPT !.wake = clock + RetryDelay]
      BY <1>1 DEF JobRecord
    <3> HIDE DEF f
    <3>3. /\ a \in JobRecord /\ a.fixture = s.fixture /\ a.start = s.start
          /\ a.opened = s.opened /\ a.at = "asleep"
      BY <1>1 DEF JobRecord, Steps, Running, Holding
    <3> HIDE DEF a
    <3>4. /\ b \in JobRecord /\ b.fixture = a.fixture /\ b.start = a.start
          /\ b.opened = a.opened /\ b.at = a.at
      BY <3>3 DEF JobRecord
    <3> HIDE DEF b
    <3>5. /\ f \in JobRecord /\ f.fixture = b.fixture /\ f.start = b.start
          /\ f.opened = b.opened /\ f.at = b.at
      BY <1>1, <3>2, <3>4 DEF JobRecord
    <3>6. Moved(j, "asleep")
      BY <3>1, <3>3, <3>4, <3>5, PutMoves DEF s
    <3>. QED BY <1>4, <3>6 DEF Fail, Holding
  <2>. QED BY <2>1, <2>2
<1>5. CASE Wake(j)
  <2> DEFINE a == [s EXCEPT !.at = "send"]
  <2>1. Put(j, w)
    BY <1>5 DEF Wake
  <2> HIDE DEF s
  <2>2. w = [a EXCEPT !.wake = 0]
    BY <1>1 DEF JobRecord
  <2> HIDE DEF w
  <2>3. /\ a \in JobRecord /\ a.fixture = s.fixture /\ a.start = s.start
        /\ a.opened = s.opened /\ a.at = "send"
    BY <1>1 DEF JobRecord, Steps, Running, Holding
  <2> HIDE DEF a
  <2>4. /\ w \in JobRecord /\ w.fixture = a.fixture /\ w.start = a.start
        /\ w.opened = a.opened /\ w.at = a.at
    BY <1>1, <2>2, <2>3 DEF JobRecord
  <2>5. Moved(j, "send")
    BY <2>1, <2>3, <2>4, PutMoves DEF s
  <2>. QED BY <1>5, <2>5 DEF Wake, Holding
<1>6. CASE BlowUp(j)
  BY <1>6, MoveMoves DEF BlowUp, Steps, Running, Holding
<1>. QED BY <1>3, <1>4, <1>5, <1>6

\* The first step of a job reads the clock.
LEMMA Starts ==
  ASSUME TypeInv, NEW j \in Job, Start(j)
  PROVE  /\ job' \in [Job -> JobRecord] /\ \A k \in Job \ {j} : job'[k] = job[k]
         /\ job[j].at = "idle" /\ job'[j].at = "window" /\ job'[j].start = clock
         /\ job'[j].fixture = job[j].fixture
         /\ UNCHANGED <<clock, window, budget, pushes>>
<1> DEFINE s == job[j]
           a == [s EXCEPT !.at = "window"]
           r == [s EXCEPT !.at = "window", !.start = clock]
<1>1. s \in JobRecord /\ clock \in 0..MaxClock
  BY DEF TypeInv
<1>2. job' = [job EXCEPT ![j] = r] /\ s.at = "idle"
      /\ UNCHANGED <<clock, window, budget, pushes>>
  BY DEF Start, Put
<1> HIDE DEF s
<1>3. r = [a EXCEPT !.start = clock]
  BY <1>1 DEF JobRecord
<1> HIDE DEF r
<1>4. a \in JobRecord /\ a.fixture = s.fixture /\ a.at = "window"
  BY <1>1 DEF JobRecord, Steps, Running
<1> HIDE DEF a
<1>5. r \in JobRecord /\ r.fixture = a.fixture /\ r.at = a.at /\ r.start = clock
  BY <1>1, <1>3, <1>4 DEF JobRecord
<1>6. job' \in [Job -> JobRecord] /\ job'[j] = r /\ \A k \in Job \ {j} : job'[k] = job[k]
  BY <1>2, <1>5 DEF TypeInv
<1>. QED BY <1>2, <1>4, <1>5, <1>6 DEF s

\* A job whose SET NX succeeds owns its fixture's key for a window.
Opens(j) ==
  /\ job[j].at = "window" /\ window[Fix(j)] <= clock
  /\ job' \in [Job -> JobRecord] /\ \A k \in Job \ {j} : job'[k] = job[k]
  /\ job'[j].at = "reserve" /\ job'[j].opened = clock
  /\ job'[j].fixture = job[j].fixture /\ job'[j].start = job[j].start
  /\ window' = [window EXCEPT ![Fix(j)] = clock + Window]

\* SET NX opens the window or ends the job.
LEMMA TakesWindow ==
  ASSUME TypeInv, NEW j \in Job, TakeWindow(j)
  PROVE  /\ Opens(j) \/ (Moved(j, "done") /\ window' = window /\ job[j].at = "window")
         /\ UNCHANGED <<clock, budget, pushes>>
<1> DEFINE s == job[j]
           a == [s EXCEPT !.at = "reserve"]
           r == [s EXCEPT !.at = "reserve", !.opened = clock]
<1>1. s \in JobRecord /\ clock \in 0..MaxClock /\ Fix(j) \in Fixture /\ Fix(j) = s.fixture
      /\ window[Fix(j)] \in Nat
  BY DEF TypeInv, JobRecord, Fix
<1>2. CASE window[Fix(j)] > clock
  BY <1>2, MoveMoves DEF TakeWindow, Steps, Running
<1>3. CASE ~ (window[Fix(j)] > clock)
  <2>1. job' = [job EXCEPT ![j] = r] /\ s.at = "window"
        /\ window' = [window EXCEPT ![Fix(j)] = clock + Window]
        /\ UNCHANGED <<clock, budget, pushes>>
    BY <1>3 DEF TakeWindow, Put
  <2> HIDE DEF s
  <2>2. r = [a EXCEPT !.opened = clock]
    BY <1>1 DEF JobRecord
  <2> HIDE DEF r
  <2>3. a \in JobRecord /\ a.fixture = s.fixture /\ a.start = s.start /\ a.at = "reserve"
    BY <1>1 DEF JobRecord, Steps, Running
  <2> HIDE DEF a
  <2>4. /\ r \in JobRecord /\ r.fixture = a.fixture /\ r.at = a.at /\ r.start = a.start
        /\ r.opened = clock
    BY <1>1, <2>2, <2>3 DEF JobRecord
  <2>5. job' \in [Job -> JobRecord] /\ job'[j] = r /\ \A k \in Job \ {j} : job'[k] = job[k]
    BY <2>1, <2>4 DEF TypeInv
  <2>6. window[Fix(j)] <= clock
    BY <1>1, <1>3, BoundAssumption
  <2>. QED BY <2>1, <2>3, <2>4, <2>5, <2>6 DEF s, Opens
<1>. QED BY <1>2, <1>3

\* The key of a job's day exists, whatever day it is now.
LEMMA KeysExist ==
  ASSUME TypeInv, NEW j \in Job
  PROVE  /\ DayKey(j) \in Day /\ Used(DayKey(j)) \in Nat /\ job[j].start \in 0..MaxClock
         /\ Today \in Day /\ budget[DayKey(j)] \in BudgetRecord
<1>1. job[j].start \in 0..MaxClock /\ clock \in 0..MaxClock
  BY DEF TypeInv, JobRecord
<1>2. DayKey(j) \in Day /\ Today \in Day
  BY <1>1, DaysExist DEF DayKey, Today
<1>3. budget[DayKey(j)] \in BudgetRecord
  BY <1>2 DEF TypeInv
<1>. QED BY <1>1, <1>2, <1>3 DEF Used, BudgetRecord

\* The reservation counts one more, on a key that outlives the job's day.
LEMMA Takes ==
  ASSUME TypeInv, NEW j \in Job, Take(j)
  PROVE  /\ budget' \in [Day -> BudgetRecord]
         /\ \A d \in Day \ {DayKey(j)} : budget'[d] = budget[d]
         /\ budget'[DayKey(j)].used = Used(DayKey(j)) + 1
         /\ budget'[DayKey(j)].ends =
              IF Exists(DayKey(j)) THEN budget[DayKey(j)].ends
              ELSE clock + TimeToLive(job[j].start)
<1> DEFINE d == DayKey(j)
           e == IF Exists(d) THEN budget[d].ends
                ELSE clock + TimeToLive(job[j].start)
<1>1. /\ d \in Day /\ Used(d) \in Nat /\ job[j].start \in 0..MaxClock
      /\ budget[d] \in BudgetRecord /\ clock \in 0..MaxClock
  BY KeysExist DEF TypeInv
<1>3. clock + TimeToLive(job[j].start) \in 0..Late
  <2>1. /\ TimeToLive(job[j].start) \in Nat
        /\ TimeToLive(job[j].start) <= DayLength + Second
    BY <1>1, KeysLive, BoundAssumption
  <2>. QED BY <1>1, <2>1, BoundAssumption, WindowAssumption DEF Late
<1>4. e \in 0..Late
  BY <1>1, <1>3 DEF BudgetRecord
<1>5. budget' = [budget EXCEPT ![d] = [used |-> Used(d) + 1, ends |-> e]]
  BY DEF Take
<1> HIDE DEF e
<1>6. [used |-> Used(d) + 1, ends |-> e] \in BudgetRecord
  BY <1>1, <1>4 DEF BudgetRecord
<1>7. /\ budget' \in [Day -> BudgetRecord]
      /\ budget'[d] = [used |-> Used(d) + 1, ends |-> e]
      /\ \A c \in Day \ {d} : budget'[c] = budget[c]
  BY <1>1, <1>5, <1>6 DEF TypeInv
<1>8. budget'[d].used = Used(d) + 1 /\ budget'[d].ends = e
  BY <1>7
<1>. QED BY <1>7, <1>8 DEF e

\* A job takes a unit below the limit, or goes to free its window.
LEMMA Reserves ==
  ASSUME TypeInv, NEW j \in Job, Reserve(j)
  PROVE  /\ job[j].at = "reserve" /\ UNCHANGED <<clock, window, pushes>>
         /\ \/ Moved(j, "send") /\ Take(j) /\ Used(DayKey(j)) < Limit
            \/ Moved(j, "free") /\ budget' = budget
BY MoveMoves DEF Reserve, Steps, Running, Holding

\* A unit that is given back leaves the others as they are.
LEMMA Releases ==
  ASSUME TypeInv, NEW j \in Job, Release(j)
  PROVE  /\ job[j].at = "release" /\ Moved(j, "free") /\ UNCHANGED <<clock, window, pushes>>
         /\ budget' \in [Day -> BudgetRecord]
         /\ \A d \in Day \ {DayKey(j)} : budget'[d] = budget[d]
         /\ budget'[DayKey(j)].ends = budget[DayKey(j)].ends
         /\ Used(DayKey(j)) # 0 => budget'[DayKey(j)].used = budget[DayKey(j)].used - 1
<1> DEFINE d == DayKey(j)
           r == [budget[d] EXCEPT !.used = @ - 1]
<1>1. /\ d \in Day /\ Used(d) \in Nat /\ budget[d] \in BudgetRecord
  BY KeysExist
<1>2. job[j].at = "release" /\ Moved(j, "free") /\ UNCHANGED <<clock, window, pushes>>
  BY MoveMoves DEF Release, Steps, Running
<1>3. CASE Used(d) = 0
  BY <1>1, <1>2, <1>3 DEF Release, TypeInv
<1>4. CASE Used(d) # 0
  <2>1. budget' = [budget EXCEPT ![d] = r]
    BY <1>4 DEF Release
  <2>2. budget[d].used \in Nat \ {0}
    BY <1>1, <1>4 DEF Used, BudgetRecord
  <2>3. r \in BudgetRecord /\ r.used = budget[d].used - 1 /\ r.ends = budget[d].ends
    BY <1>1, <2>2 DEF BudgetRecord
  <2> HIDE DEF r
  <2>. QED BY <1>1, <1>2, <2>1, <2>3 DEF TypeInv
<1>. QED BY <1>3, <1>4

\* A delivery is appended to the pushes.
LEMMA Delivers ==
  ASSUME TypeInv, NEW j \in Job, Deliver(j)
  PROVE  /\ job[j].at = "send" /\ Moved(j, "done") /\ UNCHANGED <<clock, window, budget>>
         /\ pushes' \in Seq(PushRecord) /\ DOMAIN pushes' = DOMAIN pushes \cup {Len(pushes) + 1}
         /\ \A n \in DOMAIN pushes : pushes'[n] = pushes[n] /\ n <= Len(pushes)
         /\ Len(pushes) + 1 \notin DOMAIN pushes /\ Len(pushes) \in Nat
         /\ pushes'[Len(pushes) + 1].by = j /\ pushes'[Len(pushes) + 1].at = clock
         /\ DOMAIN pushes = 1..Len(pushes)
<1> DEFINE p == [by |-> j, at |-> clock]
<1>1. p \in PushRecord /\ p.by = j /\ p.at = clock
  BY DEF PushRecord, TypeInv
<1>2. job[j].at = "send" /\ Moved(j, "done") /\ UNCHANGED <<clock, window, budget>>
      /\ pushes' = Append(pushes, p)
  BY MoveMoves DEF Deliver, Reaches, Steps, Running
<1> HIDE DEF p
<1>3. pushes \in Seq(PushRecord)
  BY DEF TypeInv
<1>4. /\ pushes' \in Seq(PushRecord) /\ Len(pushes') = Len(pushes) + 1
      /\ \A n \in 1..Len(pushes) : pushes'[n] = pushes[n]
      /\ pushes'[Len(pushes) + 1] = p
  BY <1>1, <1>2, <1>3, AppendProperties
<1>5. DOMAIN pushes = 1..Len(pushes) /\ DOMAIN pushes' = 1..Len(pushes') /\ Len(pushes) \in Nat
  BY <1>3, <1>4
<1>. QED BY <1>1, <1>2, <1>4, <1>5

\* The pushes there are were delivered by jobs.
LEMMA PushTypes ==
  ASSUME TypeInv, NEW n \in DOMAIN pushes
  PROVE  /\ pushes[n].by \in Job /\ pushes[n].at \in 0..MaxClock
         /\ DOMAIN pushes = 1..Len(pushes) /\ Len(pushes) \in Nat
<1>1. pushes \in Seq(PushRecord) /\ DOMAIN pushes = 1..Len(pushes) /\ Len(pushes) \in Nat
  BY DEF TypeInv
<1>2. pushes[n] \in PushRecord
  BY <1>1, ElementOfSeq
<1>. QED BY <1>1, <1>2 DEF PushRecord

\* The key is deleted, and the job ends.
LEMMA Frees ==
  ASSUME TypeInv, NEW j \in Job, FreeWindow(j)
  PROVE  /\ job[j].at = "free" /\ Moved(j, "done") /\ UNCHANGED <<clock, budget, pushes>>
         /\ window' = [window EXCEPT ![Fix(j)] = 0]
BY MoveMoves DEF FreeWindow, Steps, Running

\* A lost job leaves everything behind as it is.
LEMMA Loses ==
  ASSUME TypeInv, NEW j \in Job, Lose(j)
  PROVE  job[j].at \in Running /\ Moved(j, "lost") /\ UNCHANGED <<clock, window, budget, pushes>>
BY MoveMoves DEF Lose, Steps, Running

\* Every step keeps the types.
LEMMA TypeStep ==
  ASSUME TypeInv, Next
  PROVE  TypeInv'
<1>1. Late \in Nat /\ clock \in 0..MaxClock /\ clock + Window \in 0..Late /\ 0 \in 0..Late
  BY BoundAssumption, WindowAssumption DEF TypeInv, Late
<1>2. ASSUME NEW j \in Job, Start(j) PROVE TypeInv'
  BY <1>2, Starts DEF TypeInv
<1>3. ASSUME NEW j \in Job, TakeWindow(j) PROVE TypeInv'
  BY <1>1, <1>3, TakesWindow DEF TypeInv, Opens, Moved
<1>4. ASSUME NEW j \in Job, Reserve(j) PROVE TypeInv'
  BY <1>4, Reserves, Takes DEF TypeInv, Moved
<1>5. ASSUME NEW j \in Job, Release(j) PROVE TypeInv'
  BY <1>5, Releases DEF TypeInv, Moved
<1>6. ASSUME NEW j \in Job, FreeWindow(j) PROVE TypeInv'
  BY <1>1, <1>6, Frees DEF TypeInv, Moved
<1>7. ASSUME NEW j \in Job, Deliver(j) PROVE TypeInv'
  BY <1>7, Delivers DEF TypeInv, Moved
<1>8. ASSUME NEW j \in Job, Gone(j) \/ Fail(j) \/ Wake(j) \/ BlowUp(j) PROVE TypeInv'
  BY <1>8, TriesOn DEF TypeInv, Moved
<1>9. ASSUME NEW j \in Job, Lose(j) PROVE TypeInv'
  BY <1>9, Loses DEF TypeInv, Moved
<1>10. CASE Tick
  BY <1>1, <1>10, BoundAssumption DEF TypeInv, Tick
<1>11. CASE Over
  BY <1>11 DEF TypeInv, Over, vars
<1>. QED BY <1>2, <1>3, <1>4, <1>5, <1>6, <1>7, <1>8, <1>9, <1>10, <1>11 DEF Next

-----------------------------------------------------------------------------
(* Windows.                                                                 *)

\* A step that moves jobs only, opens no window and forgets none: what is open
\* stays open or is lost, and what is done stays done.
LEMMA WindowFrame ==
  ASSUME TypeInv, TypeInv', WindowInv, UNCHANGED <<clock, window, pushes>>,
         \A k \in Job :
           /\ job'[k].fixture = job[k].fixture
           /\ job[k].at \in Opened \cup {"lost", "done"} =>
                job'[k].opened = job[k].opened /\ job'[k].start = job[k].start
           /\ job'[k].at \in Opened => job[k].at \in Opened
           /\ job[k].at \in Opened \cup {"lost"} => job'[k].at \in Opened \cup {"lost"}
           /\ job[k].at = "done" => job'[k].at = "done"
           /\ job'[k].at # "idle" => job'[k].start <= clock
           /\ job'[k].at \in Running => clock <= job'[k].start + JobTimeout
  PROVE  WindowInv'
<1>1. ASSUME NEW k \in Job PROVE JobOK(k)'
  <2>1. JobOK(k)
    BY DEF WindowInv
  <2>. QED BY <2>1 DEF JobOK, Fix, Opened
<1>2. ASSUME NEW n \in DOMAIN pushes PROVE PushOK(n)' /\ pushes[n].by \in Job /\ PushOK(n)
  <2>1. PushOK(n) /\ pushes[n].by \in Job
    BY PushTypes DEF WindowInv
  <2>. QED BY <2>1 DEF PushOK, Fix
<1>3. OneAtATime'
  BY DEF WindowInv, OneAtATime, Fix
<1>4. \A n \in DOMAIN pushes :
        LET p == pushes[n].by
        IN p \in Job /\ job[p].at = "done" /\ job'[p].opened = job[p].opened
  BY <1>2 DEF PushOK
<1>5. HoldersAreLater'
  <2> SUFFICES ASSUME NEW n \in DOMAIN pushes, NEW j \in Job,
                      job'[j].at \in Opened, job'[j].fixture = job'[pushes[n].by].fixture
               PROVE  job'[pushes[n].by].opened + Window <= job'[j].opened
    BY DEF HoldersAreLater, Fix, Opened
  <2>. QED BY <1>4 DEF WindowInv, HoldersAreLater, Fix
<1>6. OnePushPerWindow'
  <2> SUFFICES ASSUME NEW m \in DOMAIN pushes, NEW n \in DOMAIN pushes, m < n,
                      job'[pushes[m].by].fixture = job'[pushes[n].by].fixture
               PROVE  /\ pushes[m].by # pushes[n].by
                      /\ job'[pushes[m].by].opened + Window <= job'[pushes[n].by].opened
    BY DEF OnePushPerWindow, Fix
  <2>. QED BY <1>4 DEF WindowInv, OnePushPerWindow, Fix
<1>7. ShutBySomeone'
  <2> SUFFICES ASSUME NEW f \in Fixture, window[f] > clock
               PROVE  \E j \in Job :
                        /\ job'[j].fixture = f /\ window[f] = job'[j].opened + Window
                        /\ \/ job'[j].at \in Opened \cup {"lost"}
                           \/ \E n \in DOMAIN pushes : pushes[n].by = j
    BY DEF ShutBySomeone, Fix, Opened
  <2>1. PICK j \in Job : /\ job[j].fixture = f /\ window[f] = job[j].opened + Window
                         /\ \/ job[j].at \in Opened \cup {"lost"}
                            \/ \E n \in DOMAIN pushes : pushes[n].by = j
    BY DEF WindowInv, ShutBySomeone, Fix
  <2>2. job'[j].opened = job[j].opened
    BY <1>4, <2>1
  <2>. QED BY <2>1, <2>2
<1>. QED BY <1>1, <1>2, <1>3, <1>5, <1>6, <1>7 DEF WindowInv

\* A job's step within its window, or to its loss.
LEMMA WindowMoves ==
  ASSUME TypeInv, TypeInv', WindowInv, UNCHANGED <<clock, window, pushes>>,
         NEW j \in Job, NEW s \in Steps, Moved(j, s),
         \/ job[j].at \in Opened /\ s \in Opened \cup {"lost"}
         \/ job[j].at = "window" /\ s \in {"done", "lost"}
  PROVE  WindowInv'
<1>1. ASSUME NEW k \in Job
      PROVE  /\ job'[k].fixture = job[k].fixture /\ job'[k].start = job[k].start
             /\ job'[k].opened = job[k].opened
             /\ job'[k].at = IF k = j THEN s ELSE job[k].at
             /\ job[k].at # "idle" => job[k].start <= clock
             /\ job[k].at \in Running => clock <= job[k].start + JobTimeout
  BY DEF Moved, WindowInv, JobOK
<1>. QED BY <1>1, WindowFrame DEF Opened, Running, Holding

\* A job that starts has opened nothing yet.
LEMMA WindowStarts ==
  ASSUME TypeInv, TypeInv', WindowInv, NEW j \in Job, Start(j)
  PROVE  WindowInv'
<1>1. ASSUME NEW k \in Job
      PROVE  /\ k # j => job'[k] = job[k]
             /\ job[k].at # "idle" => job[k].start <= clock
             /\ job[k].at \in Running => clock <= job[k].start + JobTimeout
  BY Starts DEF WindowInv, JobOK
<1>2. /\ job[j].at = "idle" /\ job'[j].at = "window" /\ job'[j].fixture = job[j].fixture
      /\ job'[j].start = clock /\ clock \in Nat /\ UNCHANGED <<clock, window, pushes>>
  BY Starts, BoundAssumption DEF TypeInv
<1>. QED BY <1>1, <1>2, WindowAssumption, WindowFrame DEF Opened, Running, Holding

\* A window opens when the last one is over: its job ended, or lost it.
LEMMA WindowOpens ==
  ASSUME TypeInv, TypeInv', WindowInv, NEW j \in Job, Opens(j), UNCHANGED <<clock, pushes>>
  PROVE  WindowInv'
<1> DEFINE f == job[j].fixture
<1>1. /\ f \in Fixture /\ f = job[j].fixture /\ window[f] <= clock /\ job[j].at = "window"
      /\ window'[f] = clock + Window /\ \A g \in Fixture \ {f} : window'[g] = window[g]
      /\ job'[j].at = "reserve" /\ job'[j].opened = clock /\ job'[j].fixture = f
      /\ job'[j].start = job[j].start /\ \A k \in Job \ {j} : job'[k] = job[k]
  BY DEF TypeInv, JobRecord, Opens, Fix
<1>2. clock \in Nat /\ \A k \in Job : /\ job[k].opened \in Nat /\ job[k].start \in Nat
                                      /\ job[k].fixture \in Fixture
  <2>1. clock \in Nat /\ job \in [Job -> JobRecord]
    BY BoundAssumption DEF TypeInv
  <2>2. \A r \in JobRecord : r.opened \in Nat /\ r.start \in Nat /\ r.fixture \in Fixture
    BY BoundAssumption DEF JobRecord
  <2>. QED BY <2>1, <2>2
<1>3. \A g \in Fixture : window[g] \in Nat
  BY DEF TypeInv
<1> HIDE DEF f
\* No other job of the fixture is within its window.
<1>4. ASSUME NEW k \in Job, job[k].at \in Opened, job[k].fixture = f PROVE FALSE
  <2>1. /\ job[k].start <= job[k].opened /\ window[f] = job[k].opened + Window
        /\ clock <= job[k].start + JobTimeout
    BY <1>4 DEF WindowInv, JobOK, Fix, Opened, Running
  <2>. QED BY <1>1, <1>2, <2>1, WindowAssumption
<1>5. ASSUME NEW k \in Job PROVE JobOK(k)'
  <2>1. JobOK(k)
    BY DEF WindowInv
  <2>2. CASE k = j
    BY <1>1, <1>2, <2>1, <2>2 DEF JobOK, Fix, Opened, Running
  <2>3. CASE k # j
    <3>1. job[k].at \in Opened => job[k].fixture # f
      BY <1>4
    <3>. QED BY <1>1, <1>2, <2>1, <2>3, <3>1 DEF JobOK, Fix, Opened, Running
  <2>. QED BY <2>2, <2>3
<1>6. ASSUME NEW n \in DOMAIN pushes
      PROVE  LET p == pushes[n].by
             IN p \in Job /\ p # j /\ job[p].at = "done" /\ job'[p] = job[p] /\ PushOK(n)
  BY <1>1, PushTypes DEF WindowInv, PushOK
<1>7. ASSUME NEW n \in DOMAIN pushes PROVE PushOK(n)'
  <2> DEFINE p == pushes[n].by
  <2>1. p \in Job /\ job'[p] = job[p] /\ PushOK(n)
    BY <1>6
  <2>2. CASE job[p].fixture = f
    BY <1>1, <1>2, <1>3, <2>1, <2>2, WindowAssumption DEF PushOK, Fix
  <2>3. CASE job[p].fixture # f
    BY <1>1, <1>2, <2>1, <2>3 DEF PushOK, Fix
  <2>. QED BY <2>2, <2>3
<1>8. OneAtATime'
  BY <1>1, <1>4 DEF WindowInv, OneAtATime, Fix
<1>9. HoldersAreLater'
  <2> SUFFICES ASSUME NEW n \in DOMAIN pushes, NEW k \in Job,
                      job'[k].at \in Opened, job'[k].fixture = job'[pushes[n].by].fixture
               PROVE  job'[pushes[n].by].opened + Window <= job'[k].opened
    BY <1>1 DEF HoldersAreLater, Fix, Opened, Opens
  <2> DEFINE p == pushes[n].by
  <2>1. p \in Job /\ job'[p] = job[p] /\ PushOK(n)
    BY <1>6
  <2>2. CASE k = j
    <3>1. job[p].opened + Window <= window[f] \/ job[p].opened + Window <= clock
      BY <1>1, <2>1, <2>2 DEF PushOK, Fix
    <3>. QED BY <1>1, <1>2, <1>3, <2>1, <2>2, <3>1, WindowAssumption
  <2>3. CASE k # j
    BY <1>1, <2>1, <2>3 DEF WindowInv, HoldersAreLater, Fix
  <2>. QED BY <2>2, <2>3
<1>10. OnePushPerWindow'
  <2> SUFFICES ASSUME NEW m \in DOMAIN pushes, NEW n \in DOMAIN pushes, m < n,
                      job'[pushes[m].by].fixture = job'[pushes[n].by].fixture
               PROVE  /\ pushes[m].by # pushes[n].by
                      /\ job'[pushes[m].by].opened + Window <= job'[pushes[n].by].opened
    BY DEF OnePushPerWindow, Fix
  <2>. QED BY <1>6 DEF WindowInv, OnePushPerWindow, Fix
<1>11. ShutBySomeone'
  <2> SUFFICES ASSUME NEW g \in Fixture, window'[g] > clock
               PROVE  \E k \in Job :
                        /\ job'[k].fixture = g /\ window'[g] = job'[k].opened + Window
                        /\ \/ job'[k].at \in Opened \cup {"lost"}
                           \/ \E n \in DOMAIN pushes : pushes[n].by = k
    BY DEF ShutBySomeone, Fix, Opened
  <2>1. CASE g = f
    BY <1>1, <2>1 DEF Opened
  <2>2. CASE g # f
    <3>1. PICK k \in Job : /\ job[k].fixture = g /\ window[g] = job[k].opened + Window
                           /\ \/ job[k].at \in Opened \cup {"lost"}
                              \/ \E n \in DOMAIN pushes : pushes[n].by = k
      BY <1>1, <2>2 DEF WindowInv, ShutBySomeone, Fix
    <3>2. k # j
      BY <1>1, <2>2, <3>1
    <3>. QED BY <1>1, <2>2, <3>1, <3>2
  <2>. QED BY <2>1, <2>2
<1>. QED BY <1>5, <1>7, <1>8, <1>9, <1>10, <1>11 DEF WindowInv

\* What is known of the jobs' numbers.
LEMMA JobTypes ==
  ASSUME TypeInv
  PROVE  /\ clock \in Nat
         /\ \A k \in Job : /\ job[k].opened \in Nat /\ job[k].start \in Nat
                           /\ job[k].fixture \in Fixture /\ job[k].at \in Steps
<1>1. clock \in Nat /\ job \in [Job -> JobRecord]
  BY BoundAssumption DEF TypeInv
<1>2. \A r \in JobRecord : /\ r.opened \in Nat /\ r.start \in Nat
                           /\ r.fixture \in Fixture /\ r.at \in Steps
  BY BoundAssumption DEF JobRecord
<1>. QED BY <1>1, <1>2

\* A push is the only one of its window: the job that has it open delivers.
LEMMA WindowDelivers ==
  ASSUME TypeInv, TypeInv', WindowInv, NEW j \in Job, Deliver(j)
  PROVE  WindowInv'
<1> DEFINE l == Len(pushes) + 1
<1>1. /\ job[j].at = "send" /\ job'[j].at = "done" /\ clock' = clock /\ window' = window
      /\ \A k \in Job : /\ k # j => job'[k] = job[k]
                        /\ job'[k].fixture = job[k].fixture /\ job'[k].start = job[k].start
                        /\ job'[k].opened = job[k].opened
      /\ DOMAIN pushes' = DOMAIN pushes \cup {l} /\ l \in Nat
      /\ \A n \in DOMAIN pushes : pushes'[n] = pushes[n] /\ n < l /\ n \in Nat
      /\ pushes'[l].by = j /\ pushes'[l].at = clock
  <2>1. /\ job[j].at = "send" /\ job'[j].at = "done" /\ clock' = clock /\ window' = window
        /\ \A k \in Job : /\ k # j => job'[k] = job[k]
                          /\ job'[k].fixture = job[k].fixture /\ job'[k].start = job[k].start
                          /\ job'[k].opened = job[k].opened
    BY Delivers DEF Moved
  <2>2. DOMAIN pushes = 1..Len(pushes) /\ Len(pushes) \in Nat
    BY Delivers
  <2>3. \A n \in DOMAIN pushes : n < l /\ n \in Nat
    BY <2>2
  <2>4. /\ DOMAIN pushes' = DOMAIN pushes \cup {l} /\ pushes'[l].by = j /\ pushes'[l].at = clock
        /\ \A n \in DOMAIN pushes : pushes'[n] = pushes[n]
    BY Delivers
  <2>. QED BY <2>1, <2>2, <2>3, <2>4
<1> HIDE DEF l
<1>2. clock \in Nat /\ \A k \in Job : /\ job[k].opened \in Nat /\ job[k].start \in Nat
                                      /\ job[k].fixture \in Fixture
  BY JobTypes
<1>3. JobOK(j) /\ job[j].at \in Opened /\ job[j].at # "idle"
  BY <1>1 DEF WindowInv, Opened, Holding
<1>4. ASSUME NEW k \in Job PROVE JobOK(k)'
  <2>1. JobOK(k)
    BY DEF WindowInv
  <2>. QED BY <1>1, <2>1 DEF JobOK, Fix, Opened, Running, Holding
<1>5. ASSUME NEW n \in DOMAIN pushes
      PROVE  LET p == pushes[n].by
             IN p \in Job /\ p # j /\ job'[p] = job[p] /\ PushOK(n) /\ pushes'[n].by = p
  BY <1>1, PushTypes DEF WindowInv, PushOK
<1>6. ASSUME NEW n \in DOMAIN pushes' PROVE PushOK(n)'
  <2>1. CASE n = l
    BY <1>1, <1>2, <1>3, <2>1, WindowAssumption DEF PushOK, JobOK, Fix
  <2>2. CASE n # l
    <3>1. n \in DOMAIN pushes
      BY <1>1, <2>2
    <3>2. pushes'[n] = pushes[n] /\ job'[pushes[n].by] = job[pushes[n].by] /\ PushOK(n)
      BY <1>1, <1>5, <3>1
    <3>. QED BY <1>1, <3>2 DEF PushOK, Fix
  <2>. QED BY <2>1, <2>2
<1>7. \A k \in Job : job'[k].at \in Opened => k # j /\ job[k].at \in Opened
  BY <1>1 DEF Opened, Holding
<1>8. OneAtATime'
  BY <1>1, <1>7 DEF WindowInv, OneAtATime, Fix, Opened
<1>9. HoldersAreLater'
  <2> SUFFICES ASSUME NEW n \in DOMAIN pushes', NEW k \in Job, job'[k].at \in Opened,
                      job'[k].fixture = job'[pushes'[n].by].fixture
               PROVE  job'[pushes'[n].by].opened + Window <= job'[k].opened
    BY DEF HoldersAreLater, Fix, Opened
  <2>1. k # j /\ job[k].at \in Opened
    BY <1>7
  <2>2. CASE n = l
    BY <1>1, <1>3, <2>1, <2>2 DEF WindowInv, OneAtATime, Fix
  <2>3. CASE n # l
    <3>1. n \in DOMAIN pushes
      BY <1>1, <2>3
    <3>. QED BY <1>1, <1>5, <2>1, <3>1 DEF WindowInv, HoldersAreLater, Fix
  <2>. QED BY <2>2, <2>3
<1>10. OnePushPerWindow'
  <2> SUFFICES ASSUME NEW m \in DOMAIN pushes', NEW n \in DOMAIN pushes', m < n,
                      job'[pushes'[m].by].fixture = job'[pushes'[n].by].fixture
               PROVE  /\ pushes'[m].by # pushes'[n].by
                      /\ job'[pushes'[m].by].opened + Window <= job'[pushes'[n].by].opened
    BY DEF OnePushPerWindow, Fix
  <2>1. m \in DOMAIN pushes
    BY <1>1
  <2>2. CASE n = l
    BY <1>1, <1>3, <1>5, <2>1, <2>2 DEF WindowInv, HoldersAreLater, Fix
  <2>3. CASE n # l
    <3>1. n \in DOMAIN pushes
      BY <1>1, <2>3
    <3>. QED BY <1>1, <1>5, <2>1, <3>1 DEF WindowInv, OnePushPerWindow, Fix
  <2>. QED BY <2>2, <2>3
<1>11. ShutBySomeone'
  <2> SUFFICES ASSUME NEW g \in Fixture, window[g] > clock
               PROVE  \E k \in Job :
                        /\ job'[k].fixture = g /\ window[g] = job'[k].opened + Window
                        /\ \/ job'[k].at \in Opened \cup {"lost"}
                           \/ \E n \in DOMAIN pushes' : pushes'[n].by = k
    BY <1>1 DEF ShutBySomeone, Fix, Opened
  <2>1. PICK k \in Job : /\ job[k].fixture = g /\ window[g] = job[k].opened + Window
                         /\ \/ job[k].at \in Opened \cup {"lost"}
                            \/ \E n \in DOMAIN pushes : pushes[n].by = k
    BY DEF WindowInv, ShutBySomeone, Fix
  <2>2. CASE k = j
    BY <1>1, <2>1, <2>2
  <2>3. CASE k # j
    <3>1. (\E n \in DOMAIN pushes : pushes[n].by = k)
            => \E n \in DOMAIN pushes' : pushes'[n].by = k
      BY <1>1, <1>5
    <3>. QED BY <1>1, <2>1, <2>3, <3>1
  <2>. QED BY <2>2, <2>3
<1>. QED BY <1>4, <1>6, <1>8, <1>9, <1>10, <1>11 DEF WindowInv

\* A job frees its own window only, after a delivery that reached nobody.
LEMMA WindowFrees ==
  ASSUME TypeInv, TypeInv', WindowInv, NEW j \in Job, FreeWindow(j)
  PROVE  WindowInv'
<1> DEFINE f == job[j].fixture
<1>1. /\ job[j].at = "free" /\ job'[j].at = "done" /\ clock' = clock /\ pushes' = pushes
      /\ f \in Fixture /\ f = job[j].fixture
      /\ window'[f] = 0 /\ \A g \in Fixture \ {f} : window'[g] = window[g]
      /\ \A k \in Job : /\ k # j => job'[k] = job[k]
                        /\ job'[k].fixture = job[k].fixture /\ job'[k].start = job[k].start
                        /\ job'[k].opened = job[k].opened
  BY Frees, JobTypes DEF Moved, Fix, TypeInv
<1> HIDE DEF f
<1>2. clock \in Nat /\ \A k \in Job : /\ job[k].opened \in Nat /\ job[k].start \in Nat
                                      /\ job[k].fixture \in Fixture
  BY JobTypes
<1>3. JobOK(j) /\ job[j].at \in Opened /\ job[j].at # "idle"
  BY <1>1 DEF WindowInv, Opened, Holding
<1>4. \A k \in Job : job'[k].at \in Opened => k # j /\ job[k].at \in Opened /\ job[k].fixture # f
  BY <1>1, <1>3 DEF WindowInv, OneAtATime, Fix, Opened, Holding
<1>5. ASSUME NEW k \in Job PROVE JobOK(k)'
  <2>1. JobOK(k)
    BY DEF WindowInv
  <2>2. CASE k = j
    BY <1>1, <2>1, <2>2 DEF JobOK, Fix, Opened, Running, Holding
  <2>3. CASE k # j
    BY <1>1, <1>2, <1>4, <2>1, <2>3 DEF JobOK, Fix, Opened
  <2>. QED BY <2>2, <2>3
<1>6. ASSUME NEW n \in DOMAIN pushes
      PROVE  LET p == pushes[n].by
             IN p \in Job /\ p # j /\ job[p].at = "done" /\ job'[p] = job[p] /\ PushOK(n)
  BY <1>1, PushTypes DEF WindowInv, PushOK
<1>7. ASSUME NEW n \in DOMAIN pushes PROVE PushOK(n)'
  <2> DEFINE p == pushes[n].by
  <2>1. p \in Job /\ job'[p] = job[p] /\ PushOK(n)
    BY <1>6
  <2>2. CASE job[p].fixture = f
    <3>1. job[p].opened + Window <= job[j].opened
      BY <1>1, <1>3, <2>2 DEF WindowInv, HoldersAreLater, Fix
    <3>2. job[j].opened <= clock
      BY <1>3 DEF JobOK
    <3>. QED BY <1>1, <1>2, <2>1, <3>1, <3>2, WindowAssumption DEF PushOK, Fix
  <2>3. CASE job[p].fixture # f
    BY <1>1, <1>2, <2>1, <2>3 DEF PushOK, Fix
  <2>. QED BY <2>2, <2>3
<1>8. OneAtATime'
  BY <1>1, <1>4 DEF WindowInv, OneAtATime, Fix, Opened
<1>9. HoldersAreLater'
  <2> SUFFICES ASSUME NEW n \in DOMAIN pushes, NEW k \in Job, job'[k].at \in Opened,
                      job'[k].fixture = job'[pushes[n].by].fixture
               PROVE  job'[pushes[n].by].opened + Window <= job'[k].opened
    BY <1>1 DEF HoldersAreLater, Fix, Opened
  <2>. QED BY <1>1, <1>4, <1>6 DEF WindowInv, HoldersAreLater, Fix
<1>10. OnePushPerWindow'
  <2> SUFFICES ASSUME NEW m \in DOMAIN pushes, NEW n \in DOMAIN pushes, m < n,
                      job'[pushes[m].by].fixture = job'[pushes[n].by].fixture
               PROVE  /\ pushes[m].by # pushes[n].by
                      /\ job'[pushes[m].by].opened + Window <= job'[pushes[n].by].opened
    BY <1>1 DEF OnePushPerWindow, Fix
  <2>. QED BY <1>6 DEF WindowInv, OnePushPerWindow, Fix
<1>11. ShutBySomeone'
  <2> SUFFICES ASSUME NEW g \in Fixture, window'[g] > clock
               PROVE  \E k \in Job :
                        /\ job'[k].fixture = g /\ window'[g] = job'[k].opened + Window
                        /\ \/ job'[k].at \in Opened \cup {"lost"}
                           \/ \E n \in DOMAIN pushes : pushes[n].by = k
    BY <1>1 DEF ShutBySomeone, Fix, Opened
  <2>1. g # f /\ window'[g] = window[g]
    BY <1>1, <1>2
  <2>2. PICK k \in Job : /\ job[k].fixture = g /\ window[g] = job[k].opened + Window
                         /\ \/ job[k].at \in Opened \cup {"lost"}
                            \/ \E n \in DOMAIN pushes : pushes[n].by = k
    BY <2>1 DEF WindowInv, ShutBySomeone, Fix
  <2>3. k # j
    BY <1>1, <2>1, <2>2
  <2>. QED BY <1>1, <2>1, <2>2, <2>3
<1>. QED BY <1>1, <1>5, <1>7, <1>8, <1>9, <1>10, <1>11 DEF WindowInv

\* A running job sees no more time pass than its timeout.
LEMMA WindowTicks ==
  ASSUME TypeInv, TypeInv', WindowInv, Tick
  PROVE  WindowInv'
<1>1. /\ clock' = clock + 1 /\ UNCHANGED <<job, window, pushes>>
      /\ \A k \in Job : job[k].at \in Running => clock < job[k].start + JobTimeout
  BY DEF Tick
<1>2. clock \in Nat /\ \A k \in Job : /\ job[k].opened \in Nat /\ job[k].start \in Nat
                                      /\ job[k].fixture \in Fixture
  BY JobTypes
<1>3. ASSUME NEW k \in Job PROVE JobOK(k)'
  <2>1. JobOK(k)
    BY DEF WindowInv
  <2>. QED BY <1>1, <1>2, <2>1, WindowAssumption DEF JobOK, Fix
<1>4. ASSUME NEW n \in DOMAIN pushes PROVE PushOK(n)'
  <2>1. /\ PushOK(n) /\ pushes[n].by \in Job /\ pushes[n].at \in Nat
    BY PushTypes, BoundAssumption DEF WindowInv
  <2>2. window[job[pushes[n].by].fixture] \in Nat
    BY <1>2, <2>1 DEF TypeInv
  <2>. QED BY <1>1, <1>2, <2>1, <2>2, WindowAssumption DEF PushOK, Fix
<1>5. OneAtATime' /\ HoldersAreLater' /\ OnePushPerWindow'
  BY <1>1 DEF WindowInv, OneAtATime, HoldersAreLater, OnePushPerWindow, Fix
<1>6. ShutBySomeone'
  <2> SUFFICES ASSUME NEW g \in Fixture, window[g] > clock + 1
               PROVE  \E k \in Job :
                        /\ job[k].fixture = g /\ window[g] = job[k].opened + Window
                        /\ \/ job[k].at \in Opened \cup {"lost"}
                           \/ \E n \in DOMAIN pushes : pushes[n].by = k
    BY <1>1 DEF ShutBySomeone, Fix
  <2>1. window[g] \in Nat
    BY DEF TypeInv
  <2>2. window[g] > clock
    BY <1>2, <2>1
  <2>. QED BY <2>2 DEF WindowInv, ShutBySomeone, Fix
<1>. QED BY <1>1, <1>3, <1>4, <1>5, <1>6 DEF WindowInv

\* Every step keeps the windows.
LEMMA WindowStep ==
  ASSUME TypeInv, TypeInv', WindowInv, Next
  PROVE  WindowInv'
<1>1. ASSUME NEW j \in Job, TakeWindow(j) PROVE WindowInv'
  BY <1>1, TakesWindow, WindowOpens, WindowMoves DEF Steps
<1>2. ASSUME NEW j \in Job, Reserve(j) PROVE WindowInv'
  BY <1>2, Reserves, WindowMoves DEF Steps, Running, Opened, Holding
<1>3. ASSUME NEW j \in Job, Release(j) PROVE WindowInv'
  BY <1>3, Releases, WindowMoves DEF Steps, Running, Opened, Holding
<1>4. ASSUME NEW j \in Job, Gone(j) \/ Fail(j) \/ Wake(j) \/ BlowUp(j) PROVE WindowInv'
  <2>1. PICK s \in Holding : Moved(j, s)
    BY <1>4, TriesOn
  <2>2. job[j].at \in Opened /\ s \in Opened /\ s \in Steps
    BY <1>4, TriesOn DEF Opened, Steps, Running
  <2>. QED BY <1>4, <2>1, <2>2, TriesOn, WindowMoves
<1>5. ASSUME NEW j \in Job, Lose(j) PROVE WindowInv'
  BY <1>5, Loses, WindowMoves DEF Steps, Running, Opened
<1>6. CASE Over
  <2>1. UNCHANGED vars
    BY <1>6 DEF Over
  <2>. QED BY <2>1 DEF vars, WindowInv, JobOK, PushOK, OneAtATime, HoldersAreLater,
                       OnePushPerWindow, ShutBySomeone, Fix
<1>. QED BY <1>1, <1>2, <1>3, <1>4, <1>5, <1>6, WindowStarts, WindowDelivers,
            WindowFrees, WindowTicks DEF Next

-----------------------------------------------------------------------------
(* The daily budget.                                                        *)

\* The pushes that were started and delivered on a day.
Received(d) ==
  {n \in DOMAIN pushes : DayOf(pushes[n].at) = d /\ DayKey(pushes[n].by) = d}
Timely(d) == {n \in Received(d) : ~LastSecond(pushes[n].at)}

\* What is counted is finite.
LEMMA CountsAreFinite ==
  ASSUME TypeInv
  PROVE  \A d \in Day : /\ IsFiniteSet(Holders(d)) /\ IsFiniteSet(Delivered(d))
                        /\ IsFiniteSet(Received(d))
                        /\ Cardinality(Holders(d)) \in Nat /\ Cardinality(Delivered(d)) \in Nat
                        /\ Cardinality(Received(d)) \in Nat
<1> TAKE d \in Day
<1>1. Len(pushes) \in Nat /\ DOMAIN pushes = 1..Len(pushes)
  BY DEF TypeInv
<1>2. IsFiniteSet(DOMAIN pushes)
  BY <1>1, FS_Interval
<1>3. Holders(d) \subseteq Job /\ Delivered(d) \subseteq DOMAIN pushes
      /\ Received(d) \subseteq DOMAIN pushes
  BY DEF Holders, Delivered, Received
<1>4. IsFiniteSet(Holders(d)) /\ IsFiniteSet(Delivered(d)) /\ IsFiniteSet(Received(d))
  BY <1>2, <1>3, FS_Subset, BoundAssumption
<1>. QED BY <1>4, FS_CardinalityType

\* A day whose count, jobs and pushes stay as they are.
LEMMA DayKept ==
  ASSUME NEW d \in Day, BudgetOK(d), clock' = clock, budget'[d] = budget[d], Holders(d)' = Holders(d),
         Delivered(d)' = Delivered(d), NobodyLost' => NobodyLost
  PROVE  BudgetOK(d)'
<1>1. Claims(d)' = Claims(d) /\ (Closing(d)' <=> Closing(d))
  BY DEF Claims, Closing, EndOf
<1>. QED BY <1>1 DEF BudgetOK, FirstKey, NextKey, EndOf

\* No push is forgotten, and the day of its job does not change.
LEMMA PushesKept ==
  ASSUME TypeInv, WindowInv, pushes' = pushes,
         \A k \in Job : job[k].at = "done" => job'[k].start = job[k].start
  PROVE  /\ \A d \in Day : Delivered(d)' = Delivered(d)
         /\ SameDayBudget => SameDayBudget'
<1>1. \A n \in DOMAIN pushes : pushes[n].by \in Job /\ job[pushes[n].by].at = "done"
  BY PushTypes DEF WindowInv, PushOK
<1>2. \A d \in Day : Delivered(d)' = Delivered(d) /\ Received(d)' = Received(d)
  BY <1>1 DEF Delivered, Received, DayKey
<1>3. \A d \in Day : Timely(d)' = Timely(d)
  BY <1>2 DEF Timely
<1>4. SameDayBudget <=> \A d \in Day : Cardinality(Timely(d)) <= Limit
                                      /\ Cardinality(Received(d)) <= 2 * Limit
  BY DEF SameDayBudget, Timely, Received
<1>5. SameDayBudget' <=> \A d \in Day : Cardinality(Timely(d)') <= Limit
                                       /\ Cardinality(Received(d)') <= 2 * Limit
  BY DEF SameDayBudget, Timely, Received
<1>. QED BY <1>2, <1>3, <1>4, <1>5

\* A job that runs started today or on an earlier day.
LEMMA StartedByToday ==
  ASSUME TypeInv, WindowInv, NEW j \in Job, job[j].at # "idle"
  PROVE  DayKey(j) <= Today /\ DayKey(j) \in Nat /\ Today \in Nat
<1>1. job[j].start <= clock /\ job[j].start \in Nat /\ clock \in Nat
  BY JobTypes DEF WindowInv, JobOK
<1>. QED BY <1>1, DaysGrow, Midnights DEF DayKey, Today

\* Steps that count nothing: the jobs that hold a unit hold it on, or are lost.
LEMMA BudgetFrame ==
  ASSUME TypeInv, TypeInv', WindowInv, BudgetInv, UNCHANGED <<clock, budget, pushes>>,
         \A k \in Job : /\ job[k].at \in Holding \cup {"done"} => job'[k].start = job[k].start
                        /\ job'[k].at \in Holding => job[k].at \in Holding,
         NobodyLost' => /\ NobodyLost
                        /\ \A k \in Job : job[k].at \in Holding => job'[k].at \in Holding
  PROVE  BudgetInv'
<1>1. /\ \A d \in Day : Delivered(d)' = Delivered(d)
      /\ SameDayBudget'
  BY PushesKept DEF BudgetInv
<1>2. ASSUME NEW d \in Day, Today' <= d PROVE BudgetOK(d)'
  <2>1. BudgetOK(d)
    BY <1>2 DEF BudgetInv, Today
  <2>2. Holders(d)' \subseteq Holders(d)
    BY DEF Holders, DayKey
  <2>3. NobodyLost' => Holders(d)' = Holders(d)
    BY DEF Holders, DayKey, Holding
  <2>4. /\ Cardinality(Holders(d)') <= Cardinality(Holders(d))
        /\ Cardinality(Holders(d)') \in Nat /\ Cardinality(Holders(d)) \in Nat
        /\ Cardinality(Delivered(d)) \in Nat
    <3>1. IsFiniteSet(Holders(d)) /\ Cardinality(Delivered(d)) \in Nat
      BY CountsAreFinite
    <3>2. IsFiniteSet(Holders(d)')
      BY <3>1, <2>2, FS_Subset
    <3>. QED BY <2>2, <3>1, <3>2, FS_Subset, FS_CardinalityType
  <2>5. budget[d].used \in Nat
    BY DEF TypeInv, BudgetRecord
  <2>6. (NobodyLost' => Claims(d)' = Claims(d)) /\ Claims(d)' <= Claims(d)
        /\ Claims(d)' \in Nat /\ Claims(d) \in Nat
    BY <1>1, <2>3, <2>4 DEF Claims
  <2>7. Closing(d)' <=> Closing(d)
    BY DEF Closing, EndOf
  <2>. QED BY <2>1, <2>5, <2>6, <2>7, BoundAssumption DEF BudgetOK, FirstKey, NextKey, EndOf
<1>. QED BY <1>1, <1>2 DEF BudgetInv

\* A job's step that neither takes nor gives back a unit.
LEMMA BudgetMoves ==
  ASSUME TypeInv, TypeInv', WindowInv, BudgetInv, UNCHANGED <<clock, budget, pushes>>,
         NEW j \in Job, NEW s \in Steps, \A k \in Job \ {j} : job'[k] = job[k],
         job'[j].at = s, job'[j].start = job[j].start,
         \/ job[j].at \in Holding /\ s \in Holding
         \/ job[j].at \notin Holding \cup {"lost"} /\ s \notin Holding
         \/ s = "lost"
  PROVE  BudgetInv'
<1>1. \A k \in Job : /\ job[k].at \in Holding \cup {"done"} => job'[k].start = job[k].start
                     /\ job'[k].at \in Holding => job[k].at \in Holding
  BY DEF Holding
<1>2. NobodyLost' => /\ NobodyLost
                     /\ \A k \in Job : job[k].at \in Holding => job'[k].at \in Holding
  BY DEF NobodyLost, Holding
<1>. QED BY <1>1, <1>2, BudgetFrame

\* A job that starts holds nothing: its day changes no count.
LEMMA BudgetStarts ==
  ASSUME TypeInv, TypeInv', WindowInv, BudgetInv, NEW j \in Job, Start(j)
  PROVE  BudgetInv'
<1>1. \A k \in Job : /\ job[k].at \in Holding \cup {"done"} => job'[k].start = job[k].start
                     /\ job'[k].at \in Holding => job[k].at \in Holding
  BY Starts DEF Holding
<1>2. NobodyLost' => /\ NobodyLost
                     /\ \A k \in Job : job[k].at \in Holding => job'[k].at \in Holding
  BY Starts DEF NobodyLost, Holding
<1>. QED BY <1>1, <1>2, Starts, BudgetFrame

\* A day's key counts up to its last second; the next one counts to its end.
LEMMA TodaysKey ==
  ASSUME TypeInv, NEW d \in Day, d = Today, BudgetOK(d)
  PROVE  /\ clock < EndOf(d) /\ EndOf(d) \in Nat /\ clock \in Nat
         /\ budget[d].used \in Nat /\ budget[d].ends \in Nat
         /\ ~Closing(d) => FirstKey(d) /\ Used(d) = budget[d].used
         /\ NextKey(d) => Exists(d)
         /\ Exists(d) => Used(d) = budget[d].used
<1>1. clock \in Nat /\ d \in Nat /\ DayOf(clock) <= d
  BY BoundAssumption, Midnights DEF TypeInv, Today
<1>2. clock < EndOf(d) /\ EndOf(d) \in Nat
  BY <1>1, BeforeTheEnd
<1>3. budget[d].used \in Nat /\ budget[d].ends \in Nat
  <2>1. budget[d] \in BudgetRecord /\ Late \in Nat
    BY BoundAssumption, WindowAssumption DEF TypeInv, Late
  <2>. QED BY <2>1 DEF BudgetRecord
<1>4. ~Closing(d) => FirstKey(d)
  BY DEF BudgetOK, NextKey
<1>5. NextKey(d) => Exists(d)
  BY <1>1, <1>2, <1>3 DEF NextKey, Exists
<1>6. FirstKey(d) /\ ~Closing(d) => Used(d) = budget[d].used
  BY <1>1, <1>2, <1>3, BoundAssumption DEF FirstKey, Closing, Used, Exists
<1>. QED BY <1>1, <1>2, <1>3, <1>4, <1>5, <1>6 DEF Used

\* The last second of today is the time at which today's key may be gone.
LEMMA ClosingToday ==
  ASSUME TypeInv, NEW d \in Day, d = Today
  PROVE  Closing(d) <=> LastSecond(clock)
<1>1. clock \in Nat /\ Second \in Nat
  BY BoundAssumption DEF TypeInv
<1>2. Midnight(clock) = EndOf(d) /\ Midnight(clock) \in Nat
  BY <1>1, Midnights DEF Today
<1>. QED BY <1>1, <1>2 DEF Closing, LastSecond

\* A unit is counted when a job takes it, on the key of the job's day.
LEMMA BudgetTakes ==
  ASSUME TypeInv, TypeInv', WindowInv, BudgetInv, NEW j \in Job, Reserve(j),
         Moved(j, "send"), Take(j), Used(DayKey(j)) < Limit
  PROVE  BudgetInv'
<1>1. /\ job[j].at = "reserve" /\ job'[j].at = "send" /\ job'[j].start = job[j].start
      /\ \A k \in Job \ {j} : job'[k] = job[k]
      /\ clock' = clock /\ pushes' = pushes
  BY Reserves DEF Moved
<1>2. /\ \A d \in Day : Delivered(d)' = Delivered(d)
      /\ SameDayBudget'
  BY <1>1, PushesKept DEF BudgetInv
<1>3. NobodyLost' => NobodyLost
  BY <1>1 DEF NobodyLost
<1>4. DayKey(j) \in Day /\ DayKey(j) <= Today /\ DayKey(j) \in Nat /\ Today \in Nat
  BY <1>1, KeysExist, StartedByToday
<1>5. ASSUME NEW d \in Day, Today' <= d PROVE BudgetOK(d)'
  <2>1. BudgetOK(d) /\ Today <= d
    BY <1>1, <1>5 DEF BudgetInv, Today
  <2>2. CASE d # DayKey(j)
    <3>1. Holders(d)' = Holders(d)
      BY <1>1, <2>2 DEF Holders, DayKey
    <3>2. budget'[d] = budget[d]
      BY <2>2, Takes
    <3>. QED BY <1>1, <1>2, <1>3, <2>1, <3>1, <3>2, DayKept
  <2>3. CASE d = DayKey(j)
    <3>1. d = Today
      BY <1>4, <2>1, <2>3
    <3>2. /\ clock < EndOf(d) /\ EndOf(d) \in Nat /\ clock \in Nat
          /\ budget[d].used \in Nat /\ budget[d].ends \in Nat
          /\ NextKey(d) => Exists(d)
          /\ Exists(d) => Used(d) = budget[d].used
      BY <2>1, <3>1, TodaysKey
    <3>3. Holders(d)' = Holders(d) \cup {j} /\ j \notin Holders(d)
      BY <1>1, <2>3 DEF Holders, DayKey, Holding
    <3>4. Claims(d)' = Claims(d) + 1 /\ Claims(d) \in Nat
      <4>1. Cardinality(Holders(d)') = Cardinality(Holders(d)) + 1
            /\ Cardinality(Holders(d)) \in Nat /\ Cardinality(Delivered(d)) \in Nat
        BY <3>3, CountsAreFinite, FS_AddElement
      <4>. QED BY <1>2, <4>1 DEF Claims
    <3>5. Closing(d)' <=> Closing(d)
      BY <1>1 DEF Closing, EndOf
    <3>6. CASE Exists(d)
      <4>1. budget'[d].used = budget[d].used + 1 /\ budget'[d].ends = budget[d].ends
            /\ budget[d].used < Limit
        <5>1. Used(d) < Limit /\ budget'[d].used = Used(d) + 1
          BY <2>3, Takes
        <5>2. budget'[d].ends = budget[d].ends
          BY <2>3, <3>6, Takes
        <5>3. Used(d) = budget[d].used
          BY <3>2, <3>6
        <5>. QED BY <5>1, <5>2, <5>3
      <4>2. (FirstKey(d) => FirstKey(d)') /\ (NextKey(d) => NextKey(d)')
        <5>1. budget[d].ends # 0
          BY <3>2, <3>6 DEF Exists
        <5>. QED BY <3>2, <3>4, <3>5, <4>1, <5>1, BoundAssumption DEF FirstKey, NextKey, EndOf
      <4>3. budget'[d].used <= Limit
        BY <3>2, <4>1, BoundAssumption
      <4>4. NobodyLost' /\ ~Closing(d)' => Claims(d)' = budget'[d].used
        <5>1. NobodyLost /\ ~Closing(d) => Claims(d) = budget[d].used
          BY <2>1 DEF BudgetOK
        <5>. QED BY <1>3, <3>4, <3>5, <4>1, <5>1
      <4>5. FirstKey(d)' \/ NextKey(d)'
        BY <2>1, <4>2 DEF BudgetOK
      <4>. QED BY <4>3, <4>4, <4>5 DEF BudgetOK
    <3>7. CASE ~Exists(d)
      <4>1. job[j].start \in Nat /\ job[j].start <= clock /\ EndOf(d) = EndOf(DayOf(job[j].start))
        BY <1>1, <2>3, JobTypes DEF WindowInv, JobOK, DayKey
      <4>2. /\ TimeToLive(job[j].start) \in Nat /\ Second <= TimeToLive(job[j].start)
            /\ EndOf(d) < job[j].start + TimeToLive(job[j].start) + Second
        BY <4>1, KeysLive
      <4>3. budget'[d].used = 1 /\ budget'[d].ends = clock + TimeToLive(job[j].start)
            /\ 1 <= Limit
        BY <2>3, <3>7, Takes, BoundAssumption DEF Used
      <4>4. FirstKey(d)
        BY <2>1, <3>2, <3>7 DEF BudgetOK
      <4>5. CASE budget[d].used = 0 /\ budget[d].ends = 0
        <5>1. Claims(d) = 0 /\ Claims(d)' = 1
          BY <3>4, <4>4, <4>5 DEF FirstKey
        <5>2. EndOf(d) < clock + TimeToLive(job[j].start) + Second
          BY <3>2, <4>1, <4>2, BoundAssumption
        <5>3. FirstKey(d)'
          BY <4>3, <5>1, <5>2 DEF FirstKey, EndOf
        <5>. QED BY <4>3, <5>1, <5>3 DEF BudgetOK
      <4>6. CASE EndOf(d) < budget[d].ends + Second
        <5>1. Closing(d)
          BY <3>2, <3>7, <4>6, BoundAssumption DEF Closing, Exists
        <5>2. EndOf(d) <= clock + TimeToLive(job[j].start)
          BY <3>2, <4>2, <5>1, BoundAssumption DEF Closing
        <5>3. Claims(d)' <= 1 + Limit
          BY <2>1, <3>2, <3>4, <4>4, BoundAssumption DEF FirstKey, BudgetOK
        <5>4. NextKey(d)'
          BY <3>5, <4>3, <5>1, <5>2, <5>3 DEF NextKey, EndOf
        <5>. QED BY <3>5, <4>3, <5>1, <5>4 DEF BudgetOK
      <4>. QED BY <4>4, <4>5, <4>6 DEF FirstKey
    <3>. QED BY <3>6, <3>7
  <2>. QED BY <2>2, <2>3
<1>. QED BY <1>2, <1>5 DEF BudgetInv

\* A unit is given back by the job that holds it, and today's key is there.
LEMMA BudgetReleases ==
  ASSUME TypeInv, TypeInv', WindowInv, BudgetInv, NEW j \in Job, Release(j)
  PROVE  BudgetInv'
<1>1. /\ job[j].at = "release" /\ job'[j].at = "free" /\ job'[j].start = job[j].start
      /\ \A k \in Job \ {j} : job'[k] = job[k]
      /\ clock' = clock /\ pushes' = pushes
  BY Releases DEF Moved
<1>2. /\ \A d \in Day : Delivered(d)' = Delivered(d)
      /\ SameDayBudget'
  BY <1>1, PushesKept DEF BudgetInv
<1>3. NobodyLost' => NobodyLost
  BY <1>1 DEF NobodyLost
<1>4. DayKey(j) \in Day /\ DayKey(j) <= Today /\ DayKey(j) \in Nat /\ Today \in Nat
  BY <1>1, KeysExist, StartedByToday
<1>5. ASSUME NEW d \in Day, Today' <= d PROVE BudgetOK(d)'
  <2>1. BudgetOK(d) /\ Today <= d
    BY <1>1, <1>5 DEF BudgetInv, Today
  <2>2. CASE d # DayKey(j)
    <3>1. Holders(d)' = Holders(d)
      BY <1>1, <2>2 DEF Holders, DayKey
    <3>2. budget'[d] = budget[d]
      BY <2>2, Releases
    <3>. QED BY <1>1, <1>2, <1>3, <2>1, <3>1, <3>2, DayKept
  <2>3. CASE d = DayKey(j)
    <3>1. d = Today
      BY <1>4, <2>1, <2>3
    <3>2. /\ EndOf(d) \in Nat /\ budget[d].used \in Nat /\ budget[d].ends \in Nat
          /\ ~Closing(d) => FirstKey(d) /\ Used(d) = budget[d].used
          /\ Exists(d) => Used(d) = budget[d].used
      BY <2>1, <3>1, TodaysKey
    <3>3. Holders(d)' = Holders(d) \ {j} /\ j \in Holders(d)
      BY <1>1, <2>3 DEF Holders, DayKey, Holding
    <3>4. Claims(d) = Claims(d)' + 1 /\ Claims(d)' \in Nat
      <4>1. IsFiniteSet(Holders(d)') /\ j \notin Holders(d)' /\ Holders(d) = Holders(d)' \cup {j}
        BY <3>3, CountsAreFinite, FS_Subset
      <4>2. Cardinality(Holders(d)' \cup {j}) = Cardinality(Holders(d)') + 1
            /\ Cardinality(Holders(d)') \in Nat
        BY <4>1, FS_AddElement, FS_CardinalityType
      <4>3. Cardinality(Holders(d)) = Cardinality(Holders(d)') + 1
        BY <4>1, <4>2
      <4>4. Cardinality(Delivered(d)) \in Nat
        BY CountsAreFinite
      <4>. QED BY <1>2, <4>2, <4>3, <4>4 DEF Claims
    <3>5. Closing(d)' <=> Closing(d)
      BY <1>1 DEF Closing, EndOf
    <3>6. budget'[d].ends = budget[d].ends
      BY <2>3, Releases
    <3>7. CASE Used(d) = 0
      <4>1. budget'[d].used = budget[d].used
        BY <1>1, <2>3, <3>7 DEF Release
      <4>2. Closing(d)
        BY <3>2, <3>4, <3>7 DEF FirstKey
      <4>3. (FirstKey(d) => FirstKey(d)') /\ (NextKey(d) => NextKey(d)')
        BY <3>2, <3>4, <3>5, <3>6, <4>1, BoundAssumption DEF FirstKey, NextKey, EndOf
      <4>. QED BY <2>1, <3>5, <4>1, <4>2, <4>3 DEF BudgetOK
    <3>8. CASE Used(d) # 0
      <4>1. Used(d) = budget[d].used
        BY <3>2, <3>8 DEF Used
      <4>2. budget'[d].used = budget[d].used - 1
        BY <2>3, <3>8, Releases
      <4>3. (FirstKey(d) => FirstKey(d)') /\ (NextKey(d) => NextKey(d)')
        <5>1. budget[d].used # 0
          BY <3>8, <4>1
        <5>. QED BY <3>2, <3>4, <3>5, <3>6, <4>2, <5>1, BoundAssumption
                 DEF FirstKey, NextKey, EndOf
      <4>. QED BY <1>3, <2>1, <3>2, <3>4, <3>5, <4>2, <4>3, BoundAssumption DEF BudgetOK
    <3>. QED BY <3>7, <3>8
  <2>. QED BY <2>2, <2>3
<1>. QED BY <1>2, <1>5 DEF BudgetInv

\* A delivered push keeps the unit that its job held.
LEMMA BudgetDelivers ==
  ASSUME TypeInv, TypeInv', WindowInv, BudgetInv, NEW j \in Job, Deliver(j)
  PROVE  BudgetInv'
<1> DEFINE l == Len(pushes) + 1
<1>1. /\ job[j].at = "send" /\ job'[j].at = "done"
      /\ \A k \in Job : job'[k].start = job[k].start
      /\ \A k \in Job \ {j} : job'[k] = job[k]
      /\ clock' = clock /\ budget' = budget
      /\ DOMAIN pushes' = DOMAIN pushes \cup {l} /\ l \notin DOMAIN pushes
      /\ \A n \in DOMAIN pushes : pushes'[n] = pushes[n] /\ pushes[n].by \in Job
      /\ pushes'[l].by = j /\ pushes'[l].at = clock
  BY Delivers, PushTypes DEF Moved
<1> HIDE DEF l
<1>2. NobodyLost' => NobodyLost
  BY <1>1 DEF NobodyLost
<1>3. /\ DayKey(j) \in Day /\ DayKey(j) <= Today /\ DayKey(j) \in Nat /\ Today \in Nat
      /\ Today \in Day
  BY <1>1, KeysExist, StartedByToday
<1>4. ASSUME NEW d \in Day, Today' <= d PROVE BudgetOK(d)'
  <2>1. BudgetOK(d) /\ Today <= d
    BY <1>1, <1>4 DEF BudgetInv, Today
  <2>2. CASE d # DayKey(j)
    <3>1. Holders(d)' = Holders(d)
      BY <1>1, <2>2 DEF Holders, DayKey
    <3>2. Delivered(d)' = Delivered(d)
      BY <1>1, <2>2 DEF Delivered, DayKey
    <3>. QED BY <1>1, <1>2, <2>1, <3>1, <3>2, DayKept
  <2>3. CASE d = DayKey(j)
    <3>1. Holders(d)' = Holders(d) \ {j} /\ j \in Holders(d)
      BY <1>1, <2>3 DEF Holders, DayKey, Holding
    <3>2. /\ Cardinality(Holders(d)) = Cardinality(Holders(d)') + 1
          /\ Cardinality(Holders(d)') \in Nat
      <4>1. IsFiniteSet(Holders(d)') /\ j \notin Holders(d)' /\ Holders(d) = Holders(d)' \cup {j}
        BY <3>1, CountsAreFinite, FS_Subset
      <4>2. Cardinality(Holders(d)' \cup {j}) = Cardinality(Holders(d)') + 1
            /\ Cardinality(Holders(d)') \in Nat
        BY <4>1, FS_AddElement, FS_CardinalityType
      <4>. QED BY <4>1, <4>2
    <3>3. Delivered(d)' = Delivered(d) \cup {l} /\ l \notin Delivered(d)
      BY <1>1, <2>3 DEF Delivered, DayKey
    <3>4. /\ Cardinality(Delivered(d)') = Cardinality(Delivered(d)) + 1
          /\ Cardinality(Delivered(d)) \in Nat
      BY <3>3, CountsAreFinite, FS_AddElement
    <3>5. Claims(d)' = Claims(d)
      BY <3>2, <3>4 DEF Claims
    <3>6. Closing(d)' <=> Closing(d)
      BY <1>1 DEF Closing, EndOf
    <3>. QED BY <1>1, <1>2, <2>1, <3>5, <3>6 DEF BudgetOK, FirstKey, NextKey, EndOf
  <2>. QED BY <2>2, <2>3
<1>5. ASSUME NEW d \in Day
      PROVE  Cardinality(Timely(d)') <= Limit /\ Cardinality(Received(d)') <= 2 * Limit
  <2>1. CASE d = Today
    <3>1. BudgetOK(d)'
      BY <1>1, <1>3, <1>4, <2>1 DEF Today
    <3>2. /\ Timely(d)' \subseteq Received(d)' /\ Received(d)' \subseteq Delivered(d)'
          /\ IsFiniteSet(Delivered(d)') /\ Cardinality(Holders(d)') \in Nat
      <4>1. Received(d)' \subseteq Delivered(d)' /\ Timely(d)' \subseteq Received(d)'
        BY DEF Timely, Received, Delivered
      <4>2. IsFiniteSet(Holders(d)')
        <5>1. Holders(d)' \subseteq Job
          BY DEF Holders
        <5>. QED BY <5>1, FS_Subset, BoundAssumption
      <4>3. IsFiniteSet(Delivered(d)')
        <5>1. Len(pushes') \in Nat /\ DOMAIN pushes' = 1..Len(pushes')
          BY DEF TypeInv
        <5>2. IsFiniteSet(DOMAIN pushes')
          BY <5>1, FS_Interval
        <5>3. Delivered(d)' \subseteq DOMAIN pushes'
          BY DEF Delivered
        <5>. QED BY <5>2, <5>3, FS_Subset
      <4>. QED BY <4>1, <4>2, <4>3, FS_CardinalityType
    <3>3. /\ Cardinality(Timely(d)') <= Cardinality(Received(d)')
          /\ Cardinality(Received(d)') <= Cardinality(Delivered(d)')
          /\ Cardinality(Timely(d)') \in Nat /\ Cardinality(Received(d)') \in Nat
          /\ Cardinality(Delivered(d)') \in Nat
      BY <3>2, FS_Subset, FS_CardinalityType
    <3>4. budget'[d].used \in Nat /\ Limit \in Nat /\ budget'[d].used <= Limit
      BY <3>1, BoundAssumption DEF TypeInv, BudgetRecord, BudgetOK
    <3>5. Cardinality(Received(d)') <= Claims(d)' /\ Claims(d)' \in Nat
      BY <3>2, <3>3 DEF Claims
    <3>6. Claims(d)' <= budget'[d].used + Limit
      BY <3>1, <3>4, <3>5 DEF BudgetOK, FirstKey, NextKey
    <3>7. Cardinality(Received(d)') <= 2 * Limit
      BY <3>3, <3>4, <3>5, <3>6
    <3>8. CASE LastSecond(clock)
      <4>1. Timely(d)' = Timely(d)
        <5>1. /\ \A n \in DOMAIN pushes : n \in Received(d)' <=> n \in Received(d)
              /\ \A n \in DOMAIN pushes : LastSecond(pushes'[n].at) <=> LastSecond(pushes[n].at)
          BY <1>1 DEF Received, DayKey
        <5>2. LastSecond(pushes'[l].at)
          BY <1>1, <3>8
        <5>. QED BY <1>1, <5>1, <5>2 DEF Timely, Received
      <4>2. Cardinality(Timely(d)) <= Limit
        BY DEF BudgetInv, SameDayBudget, Timely, Received
      <4>. QED BY <3>7, <4>1, <4>2
    <3>9. CASE ~LastSecond(clock)
      <4>1. ~Closing(d)'
        BY <1>1, <2>1, <3>9, ClosingToday DEF Closing, EndOf
      <4>2. Claims(d)' <= budget'[d].used
        BY <3>1, <4>1 DEF BudgetOK, FirstKey, NextKey
      <4>. QED BY <3>3, <3>4, <3>5, <3>7, <4>2
    <3>. QED BY <3>8, <3>9
  <2>2. CASE d # Today
    <3>1. Received(d)' = Received(d)
      BY <1>1, <2>2 DEF Received, DayKey, Today
    <3>2. Timely(d)' = Timely(d)
      BY <1>1, <3>1 DEF Timely, Received
    <3>. QED BY <3>1, <3>2 DEF BudgetInv, SameDayBudget, Timely, Received
  <2>. QED BY <2>1, <2>2
<1>6. SameDayBudget'
  BY <1>5 DEF SameDayBudget, Timely, Received
<1>. QED BY <1>4, <1>6 DEF BudgetInv

\* A new day's key is untouched: what is over is not looked at again.
LEMMA BudgetTicks ==
  ASSUME TypeInv, TypeInv', WindowInv, BudgetInv, Tick
  PROVE  BudgetInv'
<1>1. clock' = clock + 1 /\ UNCHANGED <<job, budget, pushes>>
  BY DEF Tick
<1>2. Today <= Today' /\ Today \in Nat /\ Today' \in Nat
  <2>1. clock \in Nat /\ clock' \in Nat /\ clock <= clock'
    BY <1>1, JobTypes
  <2>2. DayOf(clock) <= DayOf(clock') /\ DayOf(clock) \in Nat /\ DayOf(clock') \in Nat
    BY <2>1, DaysGrow, Midnights
  <2>. QED BY <2>2 DEF Today
<1>3. ASSUME NEW d \in Day, Today' <= d PROVE BudgetOK(d)'
  <2>1. d \in Nat
    BY DEF Day
  <2>2. BudgetOK(d)
    BY <1>2, <1>3, <2>1 DEF BudgetInv
  <2>3. Claims(d)' = Claims(d) /\ (NobodyLost' <=> NobodyLost)
    BY <1>1 DEF Claims, Holders, Delivered, DayKey, NobodyLost
  <2>4. Closing(d) => Closing(d)'
    <3>1. clock \in Nat /\ EndOf(d) \in Int
      BY <2>1, JobTypes, BoundAssumption DEF EndOf
    <3>. QED BY <1>1, <3>1, BoundAssumption DEF Closing, EndOf
  <2>. QED BY <1>1, <2>2, <2>3, <2>4 DEF BudgetOK, FirstKey, NextKey, EndOf
<1>4. SameDayBudget'
  BY <1>1 DEF BudgetInv, SameDayBudget, DayKey
<1>. QED BY <1>3, <1>4 DEF BudgetInv

\* Every step keeps the budget.
LEMMA BudgetStep ==
  ASSUME TypeInv, TypeInv', WindowInv, BudgetInv, Next
  PROVE  BudgetInv'
<1>1. ASSUME NEW j \in Job, TakeWindow(j) PROVE BudgetInv'
  <2>1. CASE Opens(j)
    BY <1>1, <2>1, TakesWindow, BudgetMoves DEF Opens, Steps, Running, Holding
  <2>2. CASE Moved(j, "done") /\ job[j].at = "window"
    BY <1>1, <2>2, TakesWindow, BudgetMoves DEF Moved, Steps, Running, Holding
  <2>. QED BY <1>1, <2>1, <2>2, TakesWindow
<1>2. ASSUME NEW j \in Job, Reserve(j) PROVE BudgetInv'
  <2>1. CASE Moved(j, "send") /\ Take(j) /\ Used(DayKey(j)) < Limit
    BY <1>2, <2>1, BudgetTakes
  <2>2. CASE Moved(j, "free") /\ budget' = budget
    BY <1>2, <2>2, Reserves, BudgetMoves DEF Moved, Steps, Running, Holding
  <2>. QED BY <1>2, <2>1, <2>2, Reserves
<1>3. ASSUME NEW j \in Job, FreeWindow(j) PROVE BudgetInv'
  BY <1>3, Frees, BudgetMoves DEF Moved, Steps, Running, Holding
<1>4. ASSUME NEW j \in Job, Gone(j) \/ Fail(j) \/ Wake(j) \/ BlowUp(j) PROVE BudgetInv'
  <2>1. PICK s \in Holding : Moved(j, s)
    BY <1>4, TriesOn
  <2>2. s \in Steps
    BY DEF Steps, Running
  <2>. QED BY <1>4, <2>1, <2>2, TriesOn, BudgetMoves DEF Moved
<1>5. ASSUME NEW j \in Job, Lose(j) PROVE BudgetInv'
  BY <1>5, Loses, BudgetMoves DEF Moved, Steps
<1>6. CASE Over
  <2>1. UNCHANGED vars
    BY <1>6 DEF Over
  <2>. QED BY <2>1 DEF vars, BudgetInv, BudgetOK, Claims, Holders, Delivered, DayKey, EndOf,
                       FirstKey, NextKey, Closing, NobodyLost, Today, SameDayBudget
<1>. QED BY <1>1, <1>2, <1>3, <1>4, <1>5, <1>6, BudgetStarts, BudgetReleases,
            BudgetDelivers, BudgetTicks DEF Next

-----------------------------------------------------------------------------
(* The invariant.                                                           *)

\* The initial state.
LEMMA InitInv == Init => PushInv
<1> SUFFICES ASSUME Init PROVE PushInv
  OBVIOUS
<1>1. PICK g \in [Job -> {[at |-> "idle", fixture |-> f, start |-> 0, opened |-> 0,
                           subs |-> Subs, retried |-> FALSE, wake |-> 0] : f \in Fixture}] :
        job = g
  BY DEF Init
<1>2. clock = 0 /\ window = [f \in Fixture |-> 0] /\ pushes = << >>
      /\ budget = [d \in Day |-> [used |-> 0, ends |-> 0]]
  BY DEF Init
<1>3. 0 \in 0..MaxClock /\ 0 \in 0..Late /\ Subs \in 1..Subs
  BY BoundAssumption, WindowAssumption DEF Late
<1>4. ASSUME NEW j \in Job PROVE job[j] \in JobRecord /\ job[j].at = "idle"
  <2>1. PICK f \in Fixture : job[j] = [at |-> "idle", fixture |-> f, start |-> 0, opened |-> 0,
                                       subs |-> Subs, retried |-> FALSE, wake |-> 0]
    BY <1>1
  <2>. QED BY <1>3, <2>1 DEF JobRecord, Steps
<1>5. TypeInv
  <2>1. job \in [Job -> JobRecord]
    BY <1>1, <1>4
  <2>2. [used |-> 0, ends |-> 0] \in BudgetRecord
    BY <1>3 DEF BudgetRecord
  <2>. QED BY <1>2, <1>3, <2>1, <2>2 DEF TypeInv
<1>6. DOMAIN pushes = {}
  BY <1>2
<1>7. WindowInv
  BY <1>2, <1>4, <1>6 DEF WindowInv, JobOK, OneAtATime, HoldersAreLater, OnePushPerWindow,
                          ShutBySomeone, Opened, Running, Holding
<1>8. ASSUME NEW d \in Day
      PROVE  /\ BudgetOK(d) /\ Cardinality(Timely(d)) <= Limit
             /\ Cardinality(Received(d)) <= 2 * Limit
  <2>1. Holders(d) = {} /\ Delivered(d) = {} /\ Received(d) = {} /\ Timely(d) = {}
    BY <1>4, <1>6 DEF Holders, Delivered, Received, Timely, Holding
  <2>2. budget[d].used = 0 /\ budget[d].ends = 0
    BY <1>2
  <2>. QED BY <2>1, <2>2, FS_EmptySet, BoundAssumption
           DEF BudgetOK, FirstKey, Claims
<1>9. BudgetInv
  BY <1>8 DEF BudgetInv, SameDayBudget, Timely, Received
<1>. QED BY <1>5, <1>7, <1>9 DEF PushInv

\* Every step keeps the invariant.
LEMMA NextInv == PushInv /\ [Next]_vars => PushInv'
<1>1. ASSUME PushInv, UNCHANGED vars PROVE PushInv'
  <2>1. /\ clock' = clock /\ job' = job /\ window' = window /\ budget' = budget
        /\ pushes' = pushes
    BY <1>1 DEF vars
  <2>2. TypeInv /\ WindowInv /\ BudgetInv
    BY <1>1 DEF PushInv
  <2>3. TypeInv'
    BY <2>1, <2>2 DEF TypeInv
  <2>4. WindowInv'
    <3>1. \A j \in Job : JobOK(j)' <=> JobOK(j)
      BY <2>1 DEF JobOK, Fix
    <3>2. \A n \in DOMAIN pushes : PushOK(n)' <=> PushOK(n)
      BY <2>1 DEF PushOK, Fix
    <3>3. (OneAtATime' <=> OneAtATime) /\ (HoldersAreLater' <=> HoldersAreLater)
      BY <2>1 DEF OneAtATime, HoldersAreLater, Fix
    <3>4. (OnePushPerWindow' <=> OnePushPerWindow) /\ (ShutBySomeone' <=> ShutBySomeone)
      BY <2>1 DEF OnePushPerWindow, ShutBySomeone, Fix
    <3>. QED BY <2>1, <2>2, <3>1, <3>2, <3>3, <3>4 DEF WindowInv
  <2>5. BudgetInv'
    <3>1. \A d \in Day : Holders(d)' = Holders(d) /\ Delivered(d)' = Delivered(d)
      BY <2>1 DEF Holders, Delivered, DayKey
    <3>2. \A d \in Day : Claims(d)' = Claims(d)
      BY <3>1 DEF Claims
    <3>3. (NobodyLost' <=> NobodyLost) /\ Today' = Today
      BY <2>1 DEF NobodyLost, Today
    <3>4. \A d \in Day : BudgetOK(d)' <=> BudgetOK(d)
      BY <2>1, <3>2, <3>3 DEF BudgetOK, FirstKey, NextKey, Closing, EndOf
    <3>5. SameDayBudget' <=> SameDayBudget
      BY <2>1 DEF SameDayBudget, DayKey
    <3>. QED BY <2>2, <3>3, <3>4, <3>5 DEF BudgetInv
  <2>. QED BY <2>3, <2>4, <2>5 DEF PushInv
<1>2. ASSUME PushInv, Next PROVE PushInv'
  BY <1>2, TypeStep, WindowStep, BudgetStep DEF PushInv
<1>. QED BY <1>1, <1>2

-----------------------------------------------------------------------------
(* Theorems.                                                                *)

\* The invariant holds in every state, whatever fails, is retried or is lost.
THEOREM PushHolds == Spec => []PushInv
BY InitInv, NextInv, PTL DEF Spec

\* Keys, clocks and jobs stay within their ranges.
THEOREM PushTyped == Spec => []TypeOK
<1>1. PushInv => TypeOK
  <2> SUFFICES ASSUME TypeInv PROVE TypeOK
    BY DEF PushInv
  <2>1. JobRecord \subseteq [at : Steps, fixture : Fixture, start : 0..MaxClock,
                             opened : 0..MaxClock, subs : 0..Subs, retried : BOOLEAN,
                             wake : 0..Late]
    BY BoundAssumption DEF JobRecord
  <2>. QED BY <2>1 DEF TypeInv, TypeOK, Steps, BudgetRecord, PushRecord
<1>. QED BY <1>1, PushHolds, PTL

\* A fixture's window lets one push through, and a push that reached nobody
\* shuts out no later one (dispatch_push).
THEOREM OnePushAWindow == Spec => []WindowsAreHonoured
<1>1. PushInv => WindowsAreHonoured
  <2> SUFFICES ASSUME PushInv, NEW f \in Fixture, window[f] > clock
               PROVE  \E j \in Job :
                        /\ Fix(j) = f /\ window[f] = job[j].opened + Window
                        /\ \/ job[j].at \in Running \cup {"lost"}
                           \/ \E n \in DOMAIN pushes : pushes[n].by = j
    BY DEF WindowsAreHonoured, WindowIsFreed, PushInv, WindowInv
  <2>. QED BY DEF PushInv, WindowInv, ShutBySomeone, Opened, Running
<1>. QED BY <1>1, PushHolds, PTL

\* The jobs that start and deliver on one day deliver no more than its limit
\* before its last second, and no more than twice that in all; up to that
\* second and without a lost job no unit is kept or given back twice
\* (reserve_push, release_push).
THEOREM BudgetIsKept == Spec => []DailyBudget
<1>1. PushInv => DailyBudget
  <2> SUFFICES ASSUME PushInv, NobodyLost, ~LastSecond(clock)
               PROVE  Used(Today) = Cardinality(Holders(Today)) + Cardinality(Delivered(Today))
    BY DEF DailyBudget, BudgetIsExact, NobodyLost, Holders, Delivered, PushInv, BudgetInv
  <2>1. Today \in Day
    BY DaysExist DEF PushInv, TypeInv, Today
  <2>2. BudgetOK(Today)
    BY <2>1 DEF PushInv, BudgetInv, Day
  <2>3. ~Closing(Today)
    BY <2>1, ClosingToday DEF PushInv
  <2>4. Used(Today) = budget[Today].used
    BY <2>1, <2>2, <2>3, TodaysKey DEF PushInv
  <2>. QED BY <2>2, <2>3, <2>4 DEF BudgetOK, Claims
<1>. QED BY <1>1, PushHolds, PTL
=============================================================================
