------------------------- MODULE LiveUpdatesProofs -------------------------
(***************************************************************************)
(* Theorems about LiveUpdates, for any number of jobs, tries, match states *)
(* and connections, and about Ingestion, for any rescans, versions of the  *)
(* file, live kickoffs, window and timeouts.                               *)
(***************************************************************************)
EXTENDS
  LiveUpdates, Ingestion, FiniteSetTheorems, SequenceTheorems, WellFoundedInduction, TLAPS

TaskRecord ==
  [at : {"new", "queued", "decided", "flushed", "committed", "published", "done", "failed"},
   match : 0..MaxMatch, id : Nat, tries : Nat]
LogRow == [id : Nat, match : Match, by : Task]
ViewerRecord ==
  [at : {"off", "replay", "subscribe", "tail"}, resume : Nat, last : Nat,
   got : SUBSET Nat, opens : Nat]

TypeInv ==
  /\ match \in 0..MaxMatch
  /\ task \in [Task -> TaskRecord]
  /\ log \in Seq(LogRow)
  /\ nextId \in Nat
  /\ viewer \in ViewerRecord

\* The ids of the log come from the sequence.
IdsOK == \A i \in DOMAIN log : log[i].id < nextId

\* A job that was enqueued has a state to log; from its commit to its end the
\* row it wrote is in the log, and it returns only when its state is there.
TaskOK(t) ==
  /\ task[t].at # "new" => task[t].match \in Match
  /\ task[t].at = "flushed" => task[t].id < nextId
  /\ task[t].at \in {"committed", "published"} =>
       Logged(task[t].match) /\ task[t].id \in Committed
  /\ task[t].at = "done" => Logged(task[t].match)

StreamInv ==
  /\ TypeInv /\ IdsOK
  /\ \A t \in Task : TaskOK(t)
  /\ OnlyCommittedIsShown

-----------------------------------------------------------------------------
(* Numbers.                                                                 *)

\* Every set of numbers that has one has a least one: the library's principle
\* for well-founded relations, on sets.
LEMMA LeastNumber ==
  ASSUME NEW T, T \subseteq Nat, T # {}
  PROVE  \E x \in T : \A y \in T : x <= y
<1> DEFINE R == OpToRel(<, Nat)
<1>1. R = {ss \in Nat \X Nat : ss[1] < ss[2]}
  BY DEF OpToRel
<1>2. IsWellFoundedOn(R, Nat)
  BY NatLessThanWellFounded
<1> HIDE DEF R
<1>3. PICK x \in T : \A y \in T : ~ (<<y, x>> \in R)
  BY <1>2, WFMin
<1>4. ASSUME NEW y \in T PROVE x <= y
  <2>1. <<y, x>> \in Nat \X Nat
    OBVIOUS
  <2>2. ~(y < x)
    BY <1>1, <1>3, <2>1
  <2>. QED BY <2>2
<1>. QED BY <1>4

\* And a bounded one has a greatest.
LEMMA GreatestNumber ==
  ASSUME NEW T, T \subseteq Nat, T # {}, NEW n \in Nat, \A x \in T : x <= n
  PROVE  \E x \in T : \A y \in T : y <= x
<1> DEFINE Down == {n - x : x \in T}
<1>1. Down \subseteq Nat /\ Down # {}
  <2>1. \A x \in T : n - x \in Nat
    OBVIOUS
  <2>2. Down \subseteq Nat
    BY <2>1
  <2>3. Down # {}
    OBVIOUS
  <2>. QED BY <2>2, <2>3
<1>2. PICK d \in Down : \A e \in Down : d <= e
  BY <1>1, LeastNumber
<1>3. PICK x \in T : d = n - x
  OBVIOUS
<1>4. ASSUME NEW y \in T PROVE y <= x
  <2>1. n - y \in Down
    OBVIOUS
  <2>. QED BY <1>2, <1>3, <2>1
<1>. QED BY <1>4

-----------------------------------------------------------------------------
(* The log.                                                                 *)

\* Rows and their ids have their types, and the sequence is not behind them.
LEMMA LogRows ==
  ASSUME TypeInv, IdsOK
  PROVE  /\ \A i \in DOMAIN log : log[i] \in LogRow
         /\ Committed \subseteq Nat /\ \A id \in Committed : id <= nextId
<1>1. \A i \in 1..Len(log) : log[i] \in LogRow
  BY ElementOfSeq DEF TypeInv
<1>2. DOMAIN log = 1..Len(log)
  BY DEF TypeInv
<1>3. \A i \in DOMAIN log : log[i].id \in Nat
  BY <1>1, <1>2 DEF LogRow
<1>. QED BY <1>1, <1>2, <1>3 DEF Committed, IdsOK, TypeInv

\* The row with the highest id is one of the log's rows.
LEMMA LatestIsLogged ==
  ASSUME TypeInv, IdsOK, NEW m \in Match, Latest = m
  PROVE  Logged(m)
<1>1. log # << >>
  BY BoundAssumption DEF Latest, NoMatch, Match
<1>2. Committed # {} /\ nextId \in Nat
  <2>1. 1 \in DOMAIN log
    BY <1>1 DEF TypeInv
  <2>. QED BY <2>1 DEF Committed, TypeInv
<1>3. PICK id \in Committed : \A o \in Committed : o <= id
  BY <1>2, LogRows, GreatestNumber
<1>4. PICK i \in DOMAIN log : log[i].id = id
  BY <1>3 DEF Committed
<1>5. log[i] \in ToSet(log) /\ \A o \in ToSet(log) : o.id <= log[i].id
  BY <1>3, <1>4 DEF ToSet, Committed
<1>6. PICK e \in ToSet(log) : e.match = m
  BY <1>1, <1>5 DEF Latest
<1>. QED BY <1>6 DEF ToSet, Logged

-----------------------------------------------------------------------------
(* The steps.                                                               *)

\* A job's step that leaves the log and the viewer alone.
LEMMA TaskStep ==
  ASSUME StreamInv, NEW t \in Task, NEW s \in TaskRecord,
         task' = [task EXCEPT ![t] = s],
         match' \in 0..MaxMatch, nextId' \in {nextId, nextId + 1},
         UNCHANGED <<log, viewer>>, TaskOK(t)'
  PROVE  StreamInv'
<1>1. task'[t] = s /\ \A u \in Task : u # t => task'[u] = task[u]
  BY DEF StreamInv, TypeInv
<1>2. TypeInv'
  BY DEF StreamInv, TypeInv
<1>3. IdsOK'
  BY LogRows DEF StreamInv, IdsOK, LogRow, TypeInv
<1>4. ASSUME NEW u \in Task, u # t PROVE TaskOK(u)'
  <2>1. task'[u] = task[u] /\ TaskOK(u) /\ task[u].id \in Nat
    BY <1>1, <1>4 DEF StreamInv, TypeInv, TaskRecord
  <2>. QED BY <2>1 DEF TaskOK, Logged, Committed, StreamInv, TypeInv
<1>. QED BY <1>2, <1>3, <1>4 DEF StreamInv, OnlyCommittedIsShown, Committed

\* A poll that sees a new state enqueues its job.
LEMMA PollInv ==
  ASSUME StreamInv, NEW t \in Task, Poll(t)
  PROVE  StreamInv'
<1> DEFINE m == match'
           mid == [task[t] EXCEPT !.at = "queued"]
           s == [mid EXCEPT !.match = m]
<1>1. /\ m \in Match /\ task' = [task EXCEPT ![t].at = "queued", ![t].match = m]
      /\ UNCHANGED <<log, nextId, viewer>> /\ task[t] \in TaskRecord
      /\ task \in [Task -> TaskRecord] /\ nextId \in Nat /\ m \in 0..MaxMatch
  BY DEF Poll, StreamInv, TypeInv, Match
<1> HIDE DEF m
<1>2. mid \in TaskRecord
  BY <1>1 DEF TaskRecord
<1>3. task' = [task EXCEPT ![t] = s]
  BY <1>1
<1> HIDE DEF mid
<1>4. s \in TaskRecord /\ s.match = m /\ s.at = "queued"
  <2>1. mid.at = "queued"
    BY <1>1 DEF mid, TaskRecord
  <2>. QED BY <1>1, <1>2, <2>1 DEF TaskRecord
<1> HIDE DEF s
<1>5. task'[t] = s
  BY <1>1, <1>3
<1>6. TaskOK(t)'
  BY <1>1, <1>4, <1>5 DEF TaskOK
<1>7. UNCHANGED <<log, viewer>> /\ nextId' \in {nextId, nextId + 1} /\ match' \in 0..MaxMatch
  BY <1>1 DEF m
<1>. QED BY <1>3, <1>4, <1>6, <1>7, TaskStep

\* A job reads the latest row and decides whether it has one to add.
LEMMA ReadInv ==
  ASSUME StreamInv, NEW t \in Task, Read(t)
  PROVE  StreamInv'
<1> DEFINE step == IF Latest = task[t].match THEN "done" ELSE "decided"
           tries == task[t].tries + 1
           s == [task[t] EXCEPT !.at = step, !.tries = tries]
<1>1. /\ task[t].at = "queued" /\ UNCHANGED <<match, log, nextId, viewer>>
      /\ task[t] \in TaskRecord /\ task \in [Task -> TaskRecord]
      /\ nextId \in Nat /\ match \in 0..MaxMatch /\ task[t].match \in Match
  BY DEF Read, StreamInv, TypeInv, TaskOK
<1>2. tries \in Nat
  BY <1>1 DEF TaskRecord
<1>3. task' = [task EXCEPT ![t] = s]
  BY <1>1 DEF Read
<1>4. step \in {"done", "decided"} /\ (step = "done" => Logged(task[t].match))
  BY <1>1, LatestIsLogged DEF StreamInv
<1> HIDE DEF step, tries
<1>5. s \in TaskRecord /\ s.at = step /\ s.match = task[t].match
  BY <1>1, <1>2, <1>4 DEF TaskRecord
<1> HIDE DEF s
<1>6. task'[t] = s
  BY <1>1, <1>3
<1>7. TaskOK(t)'
  BY <1>1, <1>4, <1>5, <1>6 DEF TaskOK, Logged
<1>8. UNCHANGED <<log, viewer>> /\ nextId' \in {nextId, nextId + 1} /\ match' \in 0..MaxMatch
  BY <1>1
<1>. QED BY <1>3, <1>5, <1>7, <1>8, TaskStep

\* The flush takes an id from the sequence; the row is not there yet.
LEMMA FlushInv ==
  ASSUME StreamInv, NEW t \in Task, Flush(t)
  PROVE  StreamInv'
<1> DEFINE s == [task[t] EXCEPT !.at = "flushed", !.id = nextId]
<1>1. /\ task[t].at = "decided" /\ UNCHANGED <<match, log, viewer>> /\ nextId' = nextId + 1
      /\ task[t] \in TaskRecord /\ task \in [Task -> TaskRecord]
      /\ nextId \in Nat /\ match \in 0..MaxMatch /\ task[t].match \in Match
  BY DEF Flush, StreamInv, TypeInv, TaskOK
<1>2. task' = [task EXCEPT ![t] = s]
  BY <1>1 DEF Flush
<1>3. s \in TaskRecord /\ s.at = "flushed" /\ s.match = task[t].match /\ s.id = nextId
  BY <1>1 DEF TaskRecord
<1> HIDE DEF s
<1>4. task'[t] = s
  BY <1>1, <1>2
<1>5. TaskOK(t)'
  BY <1>1, <1>3, <1>4 DEF TaskOK
<1>6. UNCHANGED <<log, viewer>> /\ nextId' \in {nextId, nextId + 1} /\ match' \in 0..MaxMatch
  BY <1>1
<1>. QED BY <1>2, <1>3, <1>5, <1>6, TaskStep

\* The commit adds the job's row; the rows that are there stay.
LEMMA CommitInv ==
  ASSUME StreamInv, NEW t \in Task, Commit(t)
  PROVE  StreamInv'
<1> DEFINE r == [id |-> task[t].id, match |-> task[t].match, by |-> t]
           s == [task[t] EXCEPT !.at = "committed"]
<1>1. /\ task[t].at = "flushed" /\ UNCHANGED <<match, nextId, viewer>>
      /\ log' = Append(log, r) /\ task' = [task EXCEPT ![t] = s]
      /\ task[t] \in TaskRecord /\ task \in [Task -> TaskRecord] /\ log \in Seq(LogRow)
      /\ nextId \in Nat /\ TaskOK(t)
  BY DEF Commit, To, StreamInv, TypeInv
<1>2. r \in LogRow /\ r.id = task[t].id /\ r.match = task[t].match
  BY <1>1 DEF TaskRecord, LogRow, TaskOK
<1>3. s \in TaskRecord /\ s.at = "committed" /\ s.match = task[t].match /\ s.id = task[t].id
      /\ s.tries = task[t].tries
  BY <1>1 DEF TaskRecord
<1>4. r.id < nextId
  BY <1>1, <1>2 DEF TaskOK
<1> HIDE DEF r, s
<1>5. /\ log' \in Seq(LogRow) /\ Len(log') = Len(log) + 1 /\ log'[Len(log) + 1] = r
      /\ \A i \in 1..Len(log) : log'[i] = log[i]
      /\ DOMAIN log = 1..Len(log) /\ DOMAIN log' = 1..(Len(log) + 1) /\ Len(log) \in Nat
  BY <1>1, <1>2, AppendProperties
<1>6. task'[t] = s /\ \A u \in Task : u # t => task'[u] = task[u]
  BY <1>1
<1>7. TypeInv'
  BY <1>1, <1>3, <1>5 DEF StreamInv, TypeInv
<1>8. IdsOK'
  <2>1. ASSUME NEW i \in DOMAIN log' PROVE log'[i].id < nextId
    <3>1. CASE i \in 1..Len(log)
      BY <1>5, <3>1 DEF StreamInv, IdsOK
    <3>2. CASE i = Len(log) + 1
      BY <1>4, <1>5, <3>2
    <3>. QED BY <1>5, <2>1, <3>1, <3>2
  <2>. QED BY <1>1, <2>1 DEF IdsOK
<1>9. /\ \A i \in DOMAIN log : i \in DOMAIN log' /\ log'[i] = log[i]
      /\ \E i \in DOMAIN log' : log'[i] = r
  BY <1>5
<1>10. ASSUME NEW u \in Task PROVE TaskOK(u)'
  <2>1. CASE u = t
    BY <1>1, <1>2, <1>3, <1>6, <1>9, <2>1 DEF TaskOK, Logged, Committed
  <2>2. CASE u # t
    <3>1. task'[u] = task[u] /\ TaskOK(u) /\ nextId' = nextId
      BY <1>1, <1>6, <2>2 DEF StreamInv
    <3>. QED BY <1>9, <3>1 DEF TaskOK, Logged, Committed
  <2>. QED BY <2>1, <2>2
<1>11. OnlyCommittedIsShown'
  BY <1>1, <1>9 DEF StreamInv, OnlyCommittedIsShown, Committed
<1>. QED BY <1>7, <1>8, <1>10, <1>11 DEF StreamInv

\* A step to the job's next state, its row being in the log.
LEMMA GoOn ==
  ASSUME StreamInv, NEW t \in Task,
         NEW step \in {"published", "done"}, task' = [task EXCEPT ![t].at = step],
         task[t].at \in {"committed", "published"},
         UNCHANGED <<match, log, nextId>>
  PROVE  /\ task' \in [Task -> TaskRecord] /\ IdsOK'
         /\ \A u \in Task : TaskOK(u)'
<1> DEFINE s == [task[t] EXCEPT !.at = step]
<1>1. /\ task' = [task EXCEPT ![t] = s] /\ task[t] \in TaskRecord
      /\ task \in [Task -> TaskRecord] /\ TaskOK(t)
  BY DEF StreamInv, TypeInv
<1>2. s \in TaskRecord /\ s.at = step /\ s.match = task[t].match /\ s.id = task[t].id
  BY <1>1 DEF TaskRecord
<1> HIDE DEF s
<1>3. task'[t] = s /\ \A u \in Task : u # t => task'[u] = task[u]
  BY <1>1
<1>4. task' \in [Task -> TaskRecord] /\ IdsOK'
  BY <1>1, <1>2 DEF StreamInv, IdsOK
<1>5. TaskOK(t)'
  BY <1>1, <1>2, <1>3 DEF TaskOK, Logged, Committed
<1>6. \A u \in Task : u # t => TaskOK(u)'
  BY <1>3 DEF StreamInv, TaskOK, Logged, Committed
<1>. QED BY <1>4, <1>5, <1>6

\* A published id is that of a row of the log.
LEMMA PublishInv ==
  ASSUME StreamInv, NEW t \in Task, Publish(t)
  PROVE  StreamInv'
<1>1. /\ task[t].at = "committed" /\ task' = [task EXCEPT ![t].at = "published"]
      /\ UNCHANGED <<match, log, nextId>> /\ Receive(task[t].id)
  BY DEF Publish, To
<1>2. /\ task' \in [Task -> TaskRecord] /\ IdsOK' /\ \A u \in Task : TaskOK(u)'
  BY <1>1, GoOn
<1>3. task[t].id \in Committed /\ task[t].id \in Nat
  BY <1>1 DEF StreamInv, TypeInv, TaskOK, TaskRecord
<1>4. viewer' \in ViewerRecord /\ viewer'.got \subseteq viewer.got \cup {task[t].id}
  <2> DEFINE id == task[t].id
             got == viewer.got \cup {id}
  <2>1. viewer' = viewer \/ viewer' = [viewer EXCEPT !.last = id, !.got = got]
    BY <1>1 DEF Receive
  <2>2. id \in Nat /\ viewer \in ViewerRecord /\ got \in SUBSET Nat
    BY <1>3 DEF StreamInv, TypeInv, ViewerRecord
  <2> HIDE DEF got
  <2>3. viewer' \in ViewerRecord /\ viewer'.got \in {viewer.got, got}
    BY <2>1, <2>2 DEF ViewerRecord
  <2>. QED BY <2>3 DEF got
<1>5. TypeInv'
  BY <1>1, <1>2, <1>4 DEF StreamInv, TypeInv
<1>6. OnlyCommittedIsShown'
  BY <1>1, <1>3, <1>4 DEF StreamInv, OnlyCommittedIsShown, Committed
<1>. QED BY <1>2, <1>5, <1>6 DEF StreamInv

\* A published job ends: its row stays.
LEMMA FinishInv ==
  ASSUME StreamInv, NEW t \in Task, Finish(t)
  PROVE  StreamInv'
<1>1. /\ task[t].at = "published" /\ task' = [task EXCEPT ![t].at = "done"]
      /\ UNCHANGED <<match, log, nextId, viewer>>
  BY DEF Finish, To
<1>2. /\ task' \in [Task -> TaskRecord] /\ IdsOK' /\ \A u \in Task : TaskOK(u)'
  BY <1>1, GoOn
<1>. QED BY <1>1, <1>2 DEF StreamInv, TypeInv, OnlyCommittedIsShown, Committed

\* A job that is run again starts from nothing, and one that failed holds
\* nothing any more.
LEMMA CutInv ==
  ASSUME StreamInv, NEW t \in Task, Crash(t) \/ Raise(t)
  PROVE  StreamInv'
<1>1. PICK end \in {"queued", "failed"} : EndsAs(t, end)
  <2>1. CASE Crash(t)
    <3> DEFINE end == IF Tried(t) < MaxTries THEN "queued" ELSE "failed"
    <3>1. end \in {"queued", "failed"} /\ EndsAs(t, end)
      BY <2>1 DEF Crash
    <3> HIDE DEF end
    <3>. QED BY <3>1
  <2>2. CASE Raise(t)
    BY <2>2 DEF Raise
  <2>. QED BY <2>1, <2>2
<1> DEFINE n == Tried(t)
           s == [task[t] EXCEPT !.at = end, !.id = 0, !.tries = n]
<1>2. /\ task[t].at # "new" /\ UNCHANGED <<match, log, nextId, viewer>>
      /\ task[t] \in TaskRecord /\ task \in [Task -> TaskRecord]
      /\ nextId \in Nat /\ match \in 0..MaxMatch /\ task[t].match \in Match
  BY <1>1 DEF EndsAs, Underway, StreamInv, TypeInv, TaskOK
<1>3. task' = [task EXCEPT ![t] = s]
  BY <1>1 DEF EndsAs
<1>4. n \in Nat
  BY <1>2 DEF Tried, TaskRecord
<1> HIDE DEF n
<1>5. s \in TaskRecord /\ s.at = end /\ s.match = task[t].match
  BY <1>2, <1>4 DEF TaskRecord
<1> HIDE DEF s
<1>6. task'[t] = s
  BY <1>2, <1>3
<1>7. TaskOK(t)'
  BY <1>2, <1>5, <1>6 DEF TaskOK
<1>8. UNCHANGED <<log, viewer>> /\ nextId' \in {nextId, nextId + 1} /\ match' \in 0..MaxMatch
  BY <1>2
<1>. QED BY <1>3, <1>5, <1>7, <1>8, TaskStep

\* A step of the viewer, which is shown rows of the log.
LEMMA ViewerStep ==
  ASSUME StreamInv, viewer' \in ViewerRecord, viewer'.got \subseteq viewer.got \cup Committed,
         UNCHANGED <<match, task, log, nextId>>
  PROVE  StreamInv'
<1>1. TypeInv' /\ IdsOK'
  BY DEF StreamInv, TypeInv, IdsOK
<1>2. \A t \in Task : TaskOK(t)'
  BY DEF StreamInv, TaskOK, Logged, Committed
<1>3. OnlyCommittedIsShown'
  BY DEF StreamInv, OnlyCommittedIsShown, Committed
<1>. QED BY <1>1, <1>2, <1>3 DEF StreamInv

\* The replay shows rows of the log.
LEMMA ReplayInv ==
  ASSUME StreamInv, Replay
  PROVE  StreamInv'
<1> DEFINE missed == {id \in Committed : id > viewer.resume}
           last == IF missed = {} THEN viewer.last
                   ELSE CHOOSE id \in missed : \A o \in missed : o <= id
           got == viewer.got \cup missed
<1>1. /\ viewer' = [viewer EXCEPT !.at = "subscribe", !.last = last, !.got = got]
      /\ UNCHANGED <<match, task, log, nextId>>
  BY DEF Replay
<1>2. viewer \in ViewerRecord
  BY DEF StreamInv, TypeInv
<1>3. missed \subseteq Nat /\ missed \subseteq Committed /\ nextId \in Nat
      /\ \A id \in missed : id <= nextId
  BY LogRows DEF StreamInv, TypeInv
<1>4. last \in Nat
  <2>1. CASE missed = {}
    BY <1>2, <2>1 DEF ViewerRecord
  <2>2. CASE missed # {}
    <3> HIDE DEF missed
    <3>1. \E id \in missed : \A o \in missed : o <= id
      BY <1>3, <2>2, GreatestNumber
    <3>. QED BY <1>3, <2>2, <3>1
  <2>. QED BY <2>1, <2>2
<1>5. got \in SUBSET Nat /\ got \subseteq viewer.got \cup Committed
  BY <1>2, <1>3 DEF ViewerRecord
<1> HIDE DEF last, got, missed
<1>6. viewer' \in ViewerRecord /\ viewer'.got = got
  BY <1>1, <1>2, <1>4, <1>5 DEF ViewerRecord
<1>. QED BY <1>1, <1>5, <1>6, ViewerStep

\* Connecting, subscribing and disconnecting show nothing.
LEMMA ConnectInv ==
  ASSUME StreamInv, Open \/ Subscribe \/ Disconnect
  PROVE  StreamInv'
<1>1. viewer \in ViewerRecord /\ UNCHANGED <<match, task, log, nextId>>
  BY DEF StreamInv, TypeInv, Open, Subscribe, Disconnect
<1>2. CASE Open
  <2> DEFINE step == IF viewer.last = 0 THEN "subscribe" ELSE "replay"
             last == viewer.last
             opens == viewer.opens + 1
  <2>1. viewer' = [viewer EXCEPT !.at = step, !.resume = last, !.opens = opens]
    BY <1>1, <1>2 DEF Open
  <2>2. last \in Nat /\ opens \in Nat /\ step \in {"subscribe", "replay"}
    BY <1>1 DEF ViewerRecord
  <2> HIDE DEF step, last, opens
  <2>. QED BY <1>1, <2>1, <2>2, ViewerStep DEF ViewerRecord
<1>3. CASE Subscribe \/ Disconnect
  BY <1>1, <1>3, ViewerStep DEF Subscribe, Disconnect, ViewerRecord
<1>. QED BY <1>2, <1>3

\* A step that changes nothing.
LEMMA StutterInv ==
  ASSUME StreamInv, UNCHANGED vars
  PROVE  StreamInv'
BY ViewerStep DEF StreamInv, TypeInv, vars

\* Every step keeps the invariant.
LEMMA NextInv ==
  ASSUME StreamInv, [Next]_vars
  PROVE  StreamInv'
<1>1. CASE \E t \in Task : Poll(t) \/ Work(t) \/ Crash(t) \/ Raise(t)
  BY <1>1, PollInv, ReadInv, FlushInv, CommitInv, PublishInv, FinishInv, CutInv DEF Work
<1>2. CASE Open \/ Replay \/ Subscribe \/ Disconnect
  BY <1>2, ConnectInv, ReplayInv
<1>3. CASE Over \/ UNCHANGED vars
  BY <1>3, StutterInv DEF Over
<1>. QED BY <1>1, <1>2, <1>3 DEF Next

\* The initial state.
LEMMA InitInv == Init => StreamInv
<1> SUFFICES ASSUME Init PROVE StreamInv
  OBVIOUS
<1>1. TypeInv /\ IdsOK
  BY BoundAssumption DEF Init, TypeInv, TaskRecord, ViewerRecord, IdsOK, NoMatch
<1>2. \A t \in Task : TaskOK(t)
  BY DEF Init, TaskOK
<1>3. OnlyCommittedIsShown
  BY DEF Init, OnlyCommittedIsShown
<1>. QED BY <1>1, <1>2, <1>3 DEF StreamInv

-----------------------------------------------------------------------------
(* Reruns.                                                                  *)

\* Another state was committed after the i-th row and before an id is taken.
Overtaken(i, id) ==
  \E k \in DOMAIN log :
    log[k].match # log[i].match /\ log[i].id < log[k].id /\ log[k].id < id

\* A row is of a job that was enqueued with its state, and has its own id.
RowsOK ==
  /\ \A i \in DOMAIN log :
       LET t == log[i].by IN t \in Task /\ task[t].at # "new" /\ log[i].match = task[t].match
  /\ \A i, j \in DOMAIN log : log[i].id = log[j].id => i = j

\* An id that waits for its commit is in no row and with no other job.
FlushedOK(t) ==
  task[t].at = "flushed" =>
    /\ task[t].id \notin Committed
    /\ \A u \in Task : u # t /\ task[u].at = "flushed" => task[u].id # task[t].id

\* A job that decided to write a row has none, or each of them was overtaken.
RerunOK(t) ==
  /\ task[t].at = "decided" => \A i \in DOMAIN log : log[i].by = t => Overtaken(i, nextId)
  /\ task[t].at = "flushed" => \A i \in DOMAIN log : log[i].by = t => Overtaken(i, task[t].id)

RerunInv ==
  /\ RowsOK
  /\ \A t \in Task : FlushedOK(t) /\ RerunOK(t)
  /\ RerunsAddNothing

\* A step that leaves the log alone and moves one job, not to a row's step.
LEMMA RerunStep ==
  ASSUME StreamInv, RerunInv, NEW t \in Task, NEW s \in TaskRecord,
         task' = [task EXCEPT ![t] = s], s.at \notin {"decided", "flushed", "new"},
         task[t].at # "new" => s.match = task[t].match, UNCHANGED <<log, nextId>>
  PROVE  RerunInv'
<1>1. /\ task'[t] = s /\ (\A u \in Task : u # t => task'[u] = task[u])
      /\ log' = log /\ nextId' = nextId
  BY DEF StreamInv, TypeInv
<1>2. RowsOK'
  BY <1>1 DEF RerunInv, RowsOK
<1>3. ASSUME NEW u \in Task PROVE FlushedOK(u)' /\ RerunOK(u)'
  <2>1. CASE u = t
    BY <1>1, <2>1 DEF FlushedOK, RerunOK
  <2>2. CASE u # t
    <3>1. FlushedOK(u) /\ RerunOK(u) /\ task'[u] = task[u]
      BY <1>1, <2>2 DEF RerunInv
    <3>2. FlushedOK(u)'
      <4>1. \A v \in Task : task'[v].at = "flushed" => v # t /\ task'[v] = task[v]
        BY <1>1
      <4>. QED BY <1>1, <3>1, <4>1 DEF FlushedOK, Committed
    <3>3. RerunOK(u)'
      BY <1>1, <3>1 DEF RerunOK, Overtaken
    <3>. QED BY <3>2, <3>3
  <2>. QED BY <2>1, <2>2
<1>4. RerunsAddNothing'
  BY <1>1 DEF RerunInv, RerunsAddNothing
<1>. QED BY <1>2, <1>3, <1>4 DEF RerunInv

\* A job reads the latest row: if that is of another state, it overtook every
\* row the job wrote in an earlier try.
LEMMA ReadOvertakes ==
  ASSUME StreamInv, RerunInv, NEW t \in Task, task[t].at = "queued",
         Latest # task[t].match, NEW i \in DOMAIN log, log[i].by = t
  PROVE  Overtaken(i, nextId)
<1>1. log # << >> /\ Committed # {} /\ nextId \in Nat
  <2>1. log # << >>
    BY DEF StreamInv, TypeInv
  <2>. QED BY <2>1 DEF Committed, StreamInv, TypeInv
<1>2. PICK id \in Committed : \A o \in Committed : o <= id
  BY <1>1, LogRows, GreatestNumber DEF StreamInv
<1>3. PICK n \in DOMAIN log : log[n].id = id
  BY <1>2 DEF Committed
<1>4. log[n] \in ToSet(log) /\ \A o \in ToSet(log) : o.id <= log[n].id
  BY <1>2, <1>3 DEF ToSet, Committed
<1>5. PICK e \in ToSet(log) : e.match = Latest /\ \A o \in ToSet(log) : o.id <= e.id
  BY <1>1, <1>4 DEF Latest
<1>6. PICK k \in DOMAIN log : log[k] = e
  BY <1>5 DEF ToSet
<1>7. log[i].match = task[t].match
  BY DEF RerunInv, RowsOK
<1>8. log[k].match # log[i].match /\ log[i].id <= log[k].id /\ log[i].id # log[k].id
  <2>1. log[i] \in ToSet(log)
    BY DEF ToSet
  <2>2. log[k].match # log[i].match
    BY <1>5, <1>6, <1>7
  <2>3. log[i].id # log[k].id
    BY <2>2 DEF RerunInv, RowsOK
  <2>. QED BY <1>5, <1>6, <2>1, <2>2, <2>3
<1>9. log[i].id \in Nat /\ log[k].id \in Nat /\ log[k].id < nextId
  BY LogRows DEF StreamInv, IdsOK, LogRow
<1>. QED BY <1>8, <1>9 DEF Overtaken

\* A job reads.
LEMMA ReadReruns ==
  ASSUME StreamInv, RerunInv, NEW t \in Task, Read(t)
  PROVE  RerunInv'
<1> DEFINE step == IF Latest = task[t].match THEN "done" ELSE "decided"
           tries == task[t].tries + 1
           s == [task[t] EXCEPT !.at = step, !.tries = tries]
<1>1. /\ task[t].at = "queued" /\ log' = log /\ nextId' = nextId
      /\ task[t] \in TaskRecord /\ task \in [Task -> TaskRecord] /\ task' = [task EXCEPT ![t] = s]
  BY DEF Read, StreamInv, TypeInv
<1>2. tries \in Nat
  BY <1>1 DEF TaskRecord
<1>3. step \in {"done", "decided"} /\ (step = "decided" => Latest # task[t].match)
  OBVIOUS
<1> HIDE DEF step, tries
<1>4. s \in TaskRecord /\ s.at = step /\ s.match = task[t].match
  BY <1>1, <1>2, <1>3 DEF TaskRecord
<1> HIDE DEF s
<1>5. CASE step = "done"
  BY <1>1, <1>4, <1>5, RerunStep
<1>6. CASE step = "decided"
  <2>1. task'[t] = s /\ \A u \in Task : u # t => task'[u] = task[u]
    BY <1>1
  <2>2. \A i \in DOMAIN log : log[i].by = t => Overtaken(i, nextId)
    BY <1>1, <1>3, <1>6, ReadOvertakes
  <2>3. RowsOK'
    BY <1>1, <1>4, <1>6, <2>1 DEF RerunInv, RowsOK
  <2>4. ASSUME NEW u \in Task PROVE FlushedOK(u)'
    <3>1. \A v \in Task : task'[v].at = "flushed" => task'[v] = task[v]
      BY <1>4, <1>6, <2>1
    <3>. QED BY <1>1, <3>1 DEF RerunInv, FlushedOK, Committed
  <2>5. ASSUME NEW u \in Task PROVE RerunOK(u)'
    <3>1. CASE u = t
      BY <1>1, <1>4, <1>6, <2>1, <2>2, <3>1 DEF RerunOK, Overtaken
    <3>2. CASE u # t
      BY <1>1, <2>1, <3>2 DEF RerunInv, RerunOK, Overtaken
    <3>. QED BY <3>1, <3>2
  <2>6. RerunsAddNothing'
    BY <1>1 DEF RerunInv, RerunsAddNothing
  <2>. QED BY <2>3, <2>4, <2>5, <2>6 DEF RerunInv
<1>. QED BY <1>3, <1>5, <1>6

\* An id is taken: it is above every row's and every other job's.
LEMMA FlushReruns ==
  ASSUME StreamInv, RerunInv, NEW t \in Task, Flush(t)
  PROVE  RerunInv'
<1> DEFINE s == [task[t] EXCEPT !.at = "flushed", !.id = nextId]
<1>1. /\ task[t].at = "decided" /\ log' = log /\ nextId' = nextId + 1 /\ nextId \in Nat
      /\ task[t] \in TaskRecord /\ task \in [Task -> TaskRecord] /\ task' = [task EXCEPT ![t] = s]
  BY DEF Flush, StreamInv, TypeInv
<1>2. s.at = "flushed" /\ s.match = task[t].match /\ s.id = nextId
  BY <1>1 DEF TaskRecord
<1> HIDE DEF s
<1>3. task'[t] = s /\ \A u \in Task : u # t => task'[u] = task[u]
  BY <1>1
<1>4. \A i \in DOMAIN log : log[i].id \in Nat /\ log[i].id < nextId
  BY LogRows DEF StreamInv, IdsOK, LogRow
<1>5. nextId \notin Committed
  BY <1>1, <1>4 DEF Committed
<1>6. \A u \in Task : task[u].at = "flushed" => task[u].id \in Nat /\ task[u].id < nextId
  BY DEF StreamInv, TaskOK, TypeInv, TaskRecord
<1>7. RowsOK'
  BY <1>1, <1>2, <1>3 DEF RerunInv, RowsOK
<1>8. ASSUME NEW u \in Task PROVE FlushedOK(u)'
  <2>1. CASE u = t
    <3>1. \A v \in Task : v # t /\ task[v].at = "flushed" => task[v].id # nextId
      BY <1>1, <1>6
    <3>. QED BY <1>1, <1>2, <1>3, <1>5, <2>1, <3>1 DEF FlushedOK, Committed
  <2>2. CASE u # t
    <3>1. task[u].at = "flushed" => task[u].id # nextId
      BY <1>1, <1>6
    <3>. QED BY <1>1, <1>2, <1>3, <2>2, <3>1 DEF RerunInv, FlushedOK, Committed
  <2>. QED BY <2>1, <2>2
<1>9. ASSUME NEW i \in DOMAIN log, Overtaken(i, nextId) PROVE Overtaken(i, nextId + 1)
  <2>1. PICK k \in DOMAIN log :
          log[k].match # log[i].match /\ log[i].id < log[k].id /\ log[k].id < nextId
    BY <1>9 DEF Overtaken
  <2>2. log[k].id < nextId + 1
    BY <1>1, <1>4, <2>1
  <2>. QED BY <2>1, <2>2 DEF Overtaken
<1>10. ASSUME NEW u \in Task PROVE RerunOK(u)'
  <2>1. CASE u = t
    BY <1>1, <1>2, <1>3, <2>1 DEF RerunInv, RerunOK, Overtaken
  <2>2. CASE u # t
    <3>1. RerunOK(u) /\ task'[u] = task[u]
      BY <1>3, <2>2 DEF RerunInv
    <3>2. task[u].at = "decided" =>
            \A i \in DOMAIN log : log[i].by = u => Overtaken(i, nextId + 1)
      BY <1>9, <3>1 DEF RerunOK
    <3>. QED BY <1>1, <3>1, <3>2 DEF RerunOK, Overtaken
  <2>. QED BY <2>1, <2>2
<1>11. RerunsAddNothing'
  BY <1>1 DEF RerunInv, RerunsAddNothing
<1>. QED BY <1>7, <1>8, <1>10, <1>11 DEF RerunInv

\* The commit: each row the job has was overtaken before the new one's id.
LEMMA CommitReruns ==
  ASSUME StreamInv, RerunInv, NEW t \in Task, Commit(t)
  PROVE  RerunInv'
<1> DEFINE r == [id |-> task[t].id, match |-> task[t].match, by |-> t]
           s == [task[t] EXCEPT !.at = "committed"]
           n == Len(log) + 1
<1>1. /\ task[t].at = "flushed" /\ nextId' = nextId /\ log' = Append(log, r)
      /\ task' = [task EXCEPT ![t] = s] /\ log \in Seq(LogRow)
      /\ task[t] \in TaskRecord /\ task \in [Task -> TaskRecord] /\ TaskOK(t)
  BY DEF Commit, To, StreamInv, TypeInv
<1>2. r \in LogRow /\ r.id = task[t].id /\ r.match = task[t].match /\ r.by = t
  BY <1>1 DEF TaskRecord, LogRow, TaskOK
<1>3. s.at = "committed" /\ s.match = task[t].match
  BY <1>1 DEF TaskRecord
<1> HIDE DEF r, s
<1>4. /\ Len(log') = n /\ log'[n] = r /\ \A i \in 1..Len(log) : log'[i] = log[i]
      /\ DOMAIN log = 1..Len(log) /\ DOMAIN log' = 1..n /\ Len(log) \in Nat
  BY <1>1, <1>2, AppendProperties
<1>5. /\ \A i \in DOMAIN log : i \in DOMAIN log' /\ log'[i] = log[i] /\ i < n /\ i # n
      /\ n \in DOMAIN log' /\ log'[n] = r /\ n \in Nat
      /\ \A i \in DOMAIN log' : i \in DOMAIN log \/ i = n
  BY <1>4
<1>6. DOMAIN log \subseteq Nat
  BY <1>4
<1> HIDE DEF n
<1>7. task'[t] = s /\ \A u \in Task : u # t => task'[u] = task[u]
  BY <1>1
<1>8. \A i \in DOMAIN log : log[i].id # task[t].id
  BY <1>1 DEF RerunInv, FlushedOK, Committed
<1>9. ASSUME NEW i \in DOMAIN log, NEW id, Overtaken(i, id) PROVE Overtaken(i, id)'
  BY <1>5, <1>9 DEF Overtaken
<1>10. RowsOK'
  <2>1. ASSUME NEW i \in DOMAIN log'
        PROVE  /\ log'[i].by \in Task /\ task'[log'[i].by].at # "new"
               /\ log'[i].match = task'[log'[i].by].match
    <3>1. CASE i = n
      BY <1>2, <1>3, <1>5, <1>7, <3>1
    <3>2. CASE i \in DOMAIN log
      BY <1>3, <1>5, <1>7, <3>2 DEF RerunInv, RowsOK
    <3>. QED BY <1>5, <3>1, <3>2
  <2>2. ASSUME NEW i \in DOMAIN log', NEW j \in DOMAIN log', log'[i].id = log'[j].id
        PROVE  i = j
    BY <1>2, <1>5, <1>8, <2>2 DEF RerunInv, RowsOK
  <2>. QED BY <2>1, <2>2 DEF RowsOK
<1>11. ASSUME NEW u \in Task PROVE FlushedOK(u)'
  <2>1. CASE u = t
    BY <1>3, <1>7, <2>1 DEF FlushedOK
  <2>2. CASE u # t
    <3>1. FlushedOK(u) /\ task'[u] = task[u]
      BY <1>7, <2>2 DEF RerunInv
    <3>2. task[u].at = "flushed" => task[u].id # task[t].id
      BY <1>1, <2>2 DEF RerunInv, FlushedOK
    <3>3. Committed' \subseteq Committed \cup {task[t].id}
      BY <1>2, <1>5 DEF Committed
    <3>4. \A v \in Task : task'[v].at = "flushed" => task'[v] = task[v]
      BY <1>3, <1>7
    <3>. QED BY <3>1, <3>2, <3>3, <3>4 DEF FlushedOK
  <2>. QED BY <2>1, <2>2
<1>12. ASSUME NEW u \in Task PROVE RerunOK(u)'
  <2>1. CASE u = t
    BY <1>3, <1>7, <2>1 DEF RerunOK
  <2>2. CASE u # t
    <3>1. RerunOK(u) /\ task'[u] = task[u] /\ nextId' = nextId
      BY <1>1, <1>7, <2>2 DEF RerunInv
    <3>2. ASSUME NEW i \in DOMAIN log', log'[i].by = u
          PROVE  i \in DOMAIN log /\ log[i].by = u
      BY <1>2, <1>5, <2>2, <3>2
    <3>. QED BY <1>9, <3>1, <3>2 DEF RerunOK
  <2>. QED BY <2>1, <2>2
<1>13. ASSUME NEW i \in DOMAIN log', NEW j \in DOMAIN log', log'[i].by = log'[j].by, i < j
       PROVE  \E k \in DOMAIN log' : /\ log'[k].match # log'[i].match
                                    /\ log'[i].id < log'[k].id /\ log'[k].id < log'[j].id
  <2>1. i \in DOMAIN log
    BY <1>5, <1>6, <1>13
  <2>2. CASE j = n
    <3>1. Overtaken(i, task[t].id)
      BY <1>1, <1>2, <1>5, <1>13, <2>1, <2>2 DEF RerunInv, RerunOK
    <3>. QED BY <1>2, <1>5, <2>1, <2>2, <3>1 DEF Overtaken
  <2>3. CASE j \in DOMAIN log
    <3>1. \E k \in DOMAIN log : /\ log[k].match # log[i].match
                               /\ log[i].id < log[k].id /\ log[k].id < log[j].id
      BY <1>5, <1>13, <2>1, <2>3 DEF RerunInv, RerunsAddNothing
    <3>. QED BY <1>5, <2>1, <2>3, <3>1
  <2>. QED BY <1>5, <2>2, <2>3
<1>14. RerunsAddNothing'
  BY <1>13 DEF RerunsAddNothing
<1>. QED BY <1>10, <1>11, <1>12, <1>14 DEF RerunInv

\* A poll, a step after the commit, and a cut.
LEMMA MoveReruns ==
  ASSUME StreamInv, RerunInv, NEW t \in Task,
         Poll(t) \/ Publish(t) \/ Finish(t) \/ Crash(t) \/ Raise(t)
  PROVE  RerunInv'
<1>1. /\ task[t] \in TaskRecord /\ task \in [Task -> TaskRecord] /\ UNCHANGED <<log, nextId>>
  BY DEF StreamInv, TypeInv, Poll, Publish, Finish, Crash, Raise, EndsAs
<1>2. CASE Poll(t)
  <2> DEFINE m == match'
             mid == [task[t] EXCEPT !.at = "queued"]
             s == [mid EXCEPT !.match = m]
  <2>1. m \in 0..MaxMatch /\ task[t].at = "new"
        /\ task' = [task EXCEPT ![t].at = "queued", ![t].match = m]
    BY <1>2 DEF Poll, Match
  <2> HIDE DEF m
  <2>2. mid \in TaskRecord /\ mid.at = "queued"
    BY <1>1 DEF TaskRecord
  <2>3. task' = [task EXCEPT ![t] = s]
    BY <1>1, <2>1
  <2> HIDE DEF mid
  <2>4. s \in TaskRecord /\ s.at = "queued"
    BY <2>1, <2>2 DEF TaskRecord
  <2> HIDE DEF s
  <2>. QED BY <1>1, <2>1, <2>3, <2>4, RerunStep
<1>3. CASE Publish(t) \/ Finish(t)
  <2> DEFINE s(step) == [task[t] EXCEPT !.at = step]
  <2>1. PICK step \in {"published", "done"} : task' = [task EXCEPT ![t] = s(step)]
    BY <1>1, <1>3 DEF Publish, Finish, To
  <2>2. s(step) \in TaskRecord /\ s(step).at = step /\ s(step).match = task[t].match
    BY <1>1 DEF TaskRecord
  <2> HIDE DEF s
  <2>. QED BY <1>1, <2>1, <2>2, RerunStep
<1>4. CASE Crash(t) \/ Raise(t)
  <2> DEFINE tries == Tried(t)
             end == IF tries < MaxTries THEN "queued" ELSE "failed"
             s(step) == [task[t] EXCEPT !.at = step, !.id = 0, !.tries = tries]
  <2>1. PICK step \in {"queued", "failed"} : task' = [task EXCEPT ![t] = s(step)]
    <3>1. end \in {"queued", "failed"}
      OBVIOUS
    <3>2. Crash(t) => task' = [task EXCEPT ![t] = s(end)]
      BY DEF Crash, EndsAs
    <3>3. Raise(t) => task' = [task EXCEPT ![t] = s("failed")]
      BY DEF Raise, EndsAs
    <3> HIDE DEF s, end
    <3>. QED BY <1>4, <3>1, <3>2, <3>3
  <2>2. tries \in Nat
    BY <1>1 DEF Tried, TaskRecord
  <2> HIDE DEF tries
  <2>3. s(step) \in TaskRecord /\ s(step).at = step /\ s(step).match = task[t].match
    BY <1>1, <2>2 DEF TaskRecord
  <2> HIDE DEF s
  <2>. QED BY <1>1, <2>1, <2>3, RerunStep
<1>. QED BY <1>2, <1>3, <1>4

\* The viewer writes neither.
LEMMA ViewerReruns ==
  ASSUME RerunInv, UNCHANGED <<task, log, nextId>>
  PROVE  RerunInv'
<1>1. RowsOK' /\ RerunsAddNothing'
  BY DEF RerunInv, RowsOK, RerunsAddNothing
<1>2. \A t \in Task : FlushedOK(t)' /\ RerunOK(t)'
  BY DEF RerunInv, FlushedOK, RerunOK, Overtaken, Committed
<1>. QED BY <1>1, <1>2 DEF RerunInv

-----------------------------------------------------------------------------
(* Theorems.                                                                *)

\* The invariant holds in every state, whatever crashes and reconnects.
THEOREM StreamHolds == Spec => []StreamInv
BY InitInv, NextInv, PTL DEF Spec

\* Rows keep their own ids and jobs, and a rerun adds a row only after another
\* state was committed over its earlier one, in every state.
THEOREM RerunsHold == Spec => []RerunInv
<1>1. Init => RerunInv
  <2> SUFFICES ASSUME Init PROVE RerunInv
    OBVIOUS
  <2>1. DOMAIN log = {}
    BY DEF Init
  <2>2. \A t \in Task : task[t].at = "new"
    BY DEF Init
  <2>. QED BY <2>1, <2>2 DEF RerunInv, RowsOK, FlushedOK, RerunOK, RerunsAddNothing
<1>2. StreamInv /\ RerunInv /\ [Next]_vars => RerunInv'
  <2> SUFFICES ASSUME StreamInv, RerunInv, [Next]_vars PROVE RerunInv'
    OBVIOUS
  <2>1. CASE \E t \in Task : Poll(t) \/ Work(t) \/ Crash(t) \/ Raise(t)
    BY <2>1, ReadReruns, FlushReruns, CommitReruns, MoveReruns DEF Work
  <2>2. CASE Open \/ Replay \/ Subscribe \/ Disconnect
    BY <2>2, ViewerReruns DEF Open, Replay, Subscribe, Disconnect
  <2>3. CASE Over \/ UNCHANGED vars
    BY <2>3, ViewerReruns DEF Over, vars
  <2>. QED BY <2>1, <2>2, <2>3 DEF Next
<1>. QED BY <1>1, <1>2, StreamHolds, PTL DEF Spec

\* What a viewer is shown is in the log, a job that returns leaves its state
\* there, and a rerun does not repeat a row (recompute_fixture, events.py).
THEOREM NothingBesideTheLog == Spec => []LogIsTheRecord
<1>1. StreamInv /\ RerunInv => LogIsTheRecord
  BY DEF StreamInv, TaskOK, RerunInv, LogIsTheRecord, EveryStateIsLogged
<1>. QED BY <1>1, StreamHolds, RerunsHold, PTL

-----------------------------------------------------------------------------
(* The sequence suffices: every id is one of a job's tries.                 *)

RecomputeRecord ==
  [at : {"new", "queued", "decided", "flushed", "committed", "published", "done", "failed"},
   match : 0..MaxMatch, id : Id \cup {0}, tries : 0..MaxTries]

\* The tries that may have taken an id: all but one that is still to flush.
TakenBy(s) == IF s.at = "decided" THEN s.tries - 1 ELSE s.tries
Taken == {p \in Task \X (1..MaxTries) : p[2] <= TakenBy(task[p[1]])}

\* A job that waits has a try left, and one that has flushed carries an id.
TriesOK(s) ==
  /\ s.at \in {"new", "queued"} => s.tries < MaxTries
  /\ s.at = "decided" => s.tries > 0
  /\ s.at \in {"flushed", "committed", "published"} => s.id \in Id

FitInv ==
  /\ TypeOK
  /\ \A t \in Task : TriesOK(task[t])
  /\ nextId <= Cardinality(Taken) + 1

\* There are as many ids as tries.
LEMMA TakenFits ==
  /\ IsFiniteSet(Taken) /\ Cardinality(Taken) \in Nat
  /\ Cardinality(Task) * MaxTries \in Nat /\ Cardinality(Taken) <= Cardinality(Task) * MaxTries
<1>1. /\ IsFiniteSet(1..MaxTries) /\ Cardinality(1..MaxTries) = MaxTries
      /\ IsFiniteSet(Task) /\ MaxTries \in Nat
  BY BoundAssumption, FS_Interval
<1>2. /\ IsFiniteSet(Task \X (1..MaxTries))
      /\ Cardinality(Task \X (1..MaxTries)) = Cardinality(Task) * MaxTries
  BY <1>1, FS_Product
<1>3. Cardinality(Task \X (1..MaxTries)) \in Nat
  BY <1>2, FS_CardinalityType
<1>4. Taken \in SUBSET (Task \X (1..MaxTries))
  BY DEF Taken
<1>5. IsFiniteSet(Taken) /\ Cardinality(Taken) <= Cardinality(Task \X (1..MaxTries))
  BY <1>2, <1>4, FS_Subset
<1>. QED BY <1>2, <1>3, <1>5, FS_CardinalityType

\* A step of a job that takes no id.
LEMMA JobStepFits ==
  ASSUME FitInv, NEW t \in Task, NEW s \in RecomputeRecord, TriesOK(s),
         TakenBy(task[t]) <= TakenBy(s),
         task' = [task EXCEPT ![t] = s], nextId' = nextId
  PROVE  /\ task' \in [Task -> RecomputeRecord] /\ \A u \in Task : TriesOK(task'[u])
         /\ nextId' <= Cardinality(Taken)' + 1
<1>1. /\ task \in [Task -> RecomputeRecord] /\ nextId \in Nat /\ MaxTries \in Nat
      /\ \A u \in Task : TriesOK(task[u])
  BY TakenFits, BoundAssumption DEF FitInv, TypeOK, RecomputeRecord
<1>2. /\ task' \in [Task -> RecomputeRecord] /\ task'[t] = s
      /\ \A u \in Task : u # t => task'[u] = task[u]
  BY <1>1
<1>3. \A u \in Task : TriesOK(task'[u])
  BY <1>1, <1>2
<1>4. ASSUME NEW u \in Task, NEW n \in 1..MaxTries, n <= TakenBy(task[u])
      PROVE  n <= TakenBy(task'[u])
  <2>1. CASE u = t
    <3>1. TakenBy(task[t]) \in Int /\ TakenBy(s) \in Int /\ n \in Int
      BY <1>1 DEF TakenBy, RecomputeRecord
    <3>2. \A x, y, z \in Int : x <= y /\ y <= z => x <= z
      OBVIOUS
    <3>. QED BY <1>2, <1>4, <2>1, <3>1, <3>2
  <2>2. CASE u # t
    BY <1>2, <1>4, <2>2
  <2>. QED BY <2>1, <2>2
<1>5. Taken \in SUBSET Taken'
  BY <1>4 DEF Taken
<1>6. IsFiniteSet(Taken') /\ Cardinality(Taken') \in Nat
  <2>1. Taken' \in SUBSET (Task \X (1..MaxTries))
    BY DEF Taken
  <2>2. IsFiniteSet(1..MaxTries) /\ IsFiniteSet(Task)
    BY <1>1, BoundAssumption, FS_Interval
  <2>. QED BY <2>1, <2>2, FS_Product, FS_Subset, FS_CardinalityType
<1>7. Cardinality(Taken) <= Cardinality(Taken')
  BY <1>5, <1>6, FS_Subset
<1>8. nextId <= Cardinality(Taken) + 1 /\ Cardinality(Taken) \in Nat
  BY TakenFits DEF FitInv
<1>. QED BY <1>1, <1>2, <1>3, <1>6, <1>7, <1>8

\* A poll.
LEMMA PollFits ==
  ASSUME FitInv, NEW t \in Task, Poll(t)
  PROVE  FitInv'
<1> DEFINE m == match'
           mid == [task[t] EXCEPT !.at = "queued"]
           s == [mid EXCEPT !.match = m]
<1>1. /\ m \in Match /\ task' = [task EXCEPT ![t].at = "queued", ![t].match = m]
      /\ UNCHANGED <<log, nextId, published, viewer>> /\ task[t] \in RecomputeRecord
      /\ task \in [Task -> RecomputeRecord] /\ m \in 0..MaxMatch
      /\ task[t].at = "new" /\ TriesOK(task[t])
  BY DEF Poll, FitInv, TypeOK, Match, RecomputeRecord
<1> HIDE DEF m
<1>2. mid \in RecomputeRecord /\ mid.at = "queued" /\ mid.tries = task[t].tries
  BY <1>1 DEF RecomputeRecord
<1>3. task' = [task EXCEPT ![t] = s]
  BY <1>1
<1> HIDE DEF mid
<1>4. s \in RecomputeRecord /\ s.at = "queued" /\ s.tries = task[t].tries
  BY <1>1, <1>2 DEF RecomputeRecord
<1> HIDE DEF s
<1>5. TriesOK(s) /\ TakenBy(task[t]) = TakenBy(s) /\ TakenBy(s) \in Nat
  BY <1>1, <1>4 DEF TriesOK, TakenBy, RecomputeRecord
<1>6. TakenBy(task[t]) <= TakenBy(s)
  BY <1>5
<1>7. /\ task' \in [Task -> RecomputeRecord] /\ \A u \in Task : TriesOK(task'[u])
      /\ nextId' <= Cardinality(Taken)' + 1
  BY <1>1, <1>3, <1>4, <1>5, <1>6, JobStepFits
<1>. QED BY <1>1, <1>7 DEF FitInv, TypeOK, RecomputeRecord, m

\* A try begins: it is counted, and takes an id only when it flushes.
LEMMA ReadFits ==
  ASSUME FitInv, NEW t \in Task, Read(t)
  PROVE  FitInv'
<1> DEFINE step == IF Latest = task[t].match THEN "done" ELSE "decided"
           n == task[t].tries + 1
           s == [task[t] EXCEPT !.at = step, !.tries = n]
<1>1. /\ task' = [task EXCEPT ![t] = s]
      /\ UNCHANGED <<match, log, nextId, published, viewer>> /\ task[t] \in RecomputeRecord
      /\ task[t].at = "queued" /\ TriesOK(task[t])
  BY DEF Read, FitInv, TypeOK, RecomputeRecord
<1>2. n \in 1..MaxTries /\ n \in 0..MaxTries /\ n - 1 = task[t].tries /\ n \in Nat
  BY <1>1, BoundAssumption DEF TriesOK, RecomputeRecord
<1>3. step \in {"done", "decided"}
  OBVIOUS
<1> HIDE DEF n, step
<1>4. s \in RecomputeRecord /\ s.at = step /\ s.tries = n
  BY <1>1, <1>2, <1>3 DEF RecomputeRecord
<1> HIDE DEF s
<1>5. TriesOK(s)
  BY <1>2, <1>3, <1>4 DEF TriesOK
<1>6. TakenBy(task[t]) <= TakenBy(s)
  BY <1>1, <1>2, <1>3, <1>4 DEF TakenBy
<1>7. /\ task' \in [Task -> RecomputeRecord] /\ \A u \in Task : TriesOK(task'[u])
      /\ nextId' <= Cardinality(Taken)' + 1
  BY <1>1, <1>4, <1>5, <1>6, JobStepFits
<1>. QED BY <1>1, <1>7 DEF FitInv, TypeOK, RecomputeRecord

\* The flush takes the id of its try, which none has taken before.
LEMMA FlushFits ==
  ASSUME FitInv, NEW t \in Task, Flush(t)
  PROVE  FitInv'
<1> DEFINE s == [task[t] EXCEPT !.at = "flushed", !.id = nextId]
           n == task[t].tries
           All == Cardinality(Task) * MaxTries
<1>1. /\ task' = [task EXCEPT ![t] = s] /\ nextId' = nextId + 1
      /\ UNCHANGED <<match, log, published, viewer>> /\ task[t] \in RecomputeRecord
      /\ task \in [Task -> RecomputeRecord] /\ task[t].at = "decided"
      /\ \A u \in Task : TriesOK(task[u])
      /\ nextId \in 1..(All + 1) /\ nextId <= Cardinality(Taken) + 1
  BY DEF Flush, FitInv, TypeOK, RecomputeRecord
<1>2. n \in 1..MaxTries
  BY <1>1, BoundAssumption DEF TriesOK, RecomputeRecord
<1>3. TakenBy(task[t]) = n - 1
  BY <1>1 DEF TakenBy
<1>4. <<t, n>> \notin Taken
  BY <1>2, <1>3 DEF Taken
<1>5. /\ IsFiniteSet(Taken \cup {<<t, n>>}) /\ Cardinality(Taken) \in Nat /\ All \in Nat
      /\ Cardinality(Taken \cup {<<t, n>>}) = Cardinality(Taken) + 1
  BY <1>4, TakenFits, FS_AddElement
<1>6. Taken \cup {<<t, n>>} \in SUBSET (Task \X (1..MaxTries))
  BY <1>2 DEF Taken
<1>7. /\ IsFiniteSet(Task \X (1..MaxTries))
      /\ Cardinality(Task \X (1..MaxTries)) = All
  <2>1. /\ IsFiniteSet(1..MaxTries) /\ Cardinality(1..MaxTries) = MaxTries
        /\ IsFiniteSet(Task)
    BY BoundAssumption, FS_Interval
  <2>. QED BY <2>1, FS_Product
<1>8. Cardinality(Taken) + 1 <= All
  BY <1>5, <1>6, <1>7, FS_Subset
<1> HIDE DEF All
<1>9. nextId \in 1..All /\ nextId' \in 1..(All + 1)
  BY <1>1, <1>5, <1>8
<1>10. nextId \in Id \cup {0}
  BY <1>9 DEF Id, All
<1>11. s \in RecomputeRecord /\ s.at = "flushed" /\ s.tries = n /\ s.id = nextId
  BY <1>1, <1>10 DEF RecomputeRecord
<1> HIDE DEF s, n
<1>12. TriesOK(s) /\ TakenBy(s) = n
  BY <1>9, <1>11 DEF TriesOK, TakenBy, Id, All
<1>13. /\ task' \in [Task -> RecomputeRecord] /\ task'[t] = s
       /\ \A u \in Task : u # t => task'[u] = task[u]
  BY <1>1, <1>11
<1>14. \A u \in Task : TriesOK(task'[u])
  BY <1>1, <1>12, <1>13
<1>15. ASSUME NEW u \in Task, NEW i \in 1..MaxTries
       PROVE  i <= TakenBy(task'[u]) <=> i <= TakenBy(task[u]) \/ (u = t /\ i = n)
  <2>1. CASE u = t
    BY <1>2, <1>3, <1>12, <1>13, <2>1
  <2>2. CASE u # t
    BY <1>13, <2>2
  <2>. QED BY <2>1, <2>2
<1>16. Taken' = Taken \cup {<<t, n>>}
  <2>1. ASSUME NEW u \in Task, NEW i \in 1..MaxTries
        PROVE  <<u, i>> \in Taken' <=> <<u, i>> \in Taken \cup {<<t, n>>}
    BY <1>15 DEF Taken
  <2>2. Taken' \in SUBSET (Task \X (1..MaxTries))
    BY DEF Taken
  <2>. QED BY <1>6, <2>1, <2>2
<1>17. nextId' <= Cardinality(Taken)' + 1
  <2>1. Cardinality(Taken') = Cardinality(Taken) + 1
    BY <1>5, <1>16
  <2>2. Cardinality(Taken)' = Cardinality(Taken) + 1
    BY <2>1
  <2>3. \A x, y \in Nat : x <= y => x + 1 <= y + 1
    OBVIOUS
  <2>. QED BY <1>1, <1>5, <1>9, <2>2, <2>3
<1>. QED BY <1>1, <1>9, <1>13, <1>14, <1>17 DEF FitInv, TypeOK, RecomputeRecord, All

\* A commit, and the return of a job.
LEMMA EndFits ==
  ASSUME FitInv, StreamInv, NEW t \in Task, Commit(t) \/ Finish(t)
  PROVE  FitInv'
<1>1. /\ task[t] \in RecomputeRecord /\ TriesOK(task[t]) /\ task \in [Task -> RecomputeRecord]
      /\ log \in Seq(Event)
  BY DEF FitInv, TypeOK, RecomputeRecord
<1>2. PICK step \in {"committed", "done"}, id \in {0, task[t].id} :
        /\ task' = [task EXCEPT ![t] = [task[t] EXCEPT !.at = step, !.id = id]]
        /\ step = "committed" => id \in Id
  <2>1. CASE Commit(t)
    <3>1. task' = [task EXCEPT ![t] = [task[t] EXCEPT !.at = "committed", !.id = task[t].id]]
      BY <1>1, <2>1 DEF Commit, To, RecomputeRecord
    <3>2. task[t].id \in Id
      BY <1>1, <2>1 DEF Commit, TriesOK
    <3>. QED BY <3>1, <3>2
  <2>2. CASE Finish(t)
    <3>1. task' = [task EXCEPT ![t] = [task[t] EXCEPT !.at = "done", !.id = task[t].id]]
      BY <1>1, <2>2 DEF Finish, To, RecomputeRecord
    <3>. QED BY <3>1
  <2>. QED BY <2>1, <2>2
<1> DEFINE s == [task[t] EXCEPT !.at = step, !.id = id]
<1>3. s \in RecomputeRecord /\ s.at = step /\ s.tries = task[t].tries /\ s.id = id
  BY <1>1, <1>2 DEF RecomputeRecord
<1>4. task' = [task EXCEPT ![t] = s]
  BY <1>2
<1> HIDE DEF s
<1>5. TriesOK(s)
  BY <1>2, <1>3 DEF TriesOK
<1>6. TakenBy(task[t]) <= TakenBy(s)
  BY <1>1, <1>2, <1>3 DEF TakenBy, RecomputeRecord
<1>7. nextId' = nextId /\ UNCHANGED <<match, published, viewer>>
  BY DEF Commit, Finish
<1>8. /\ task' \in [Task -> RecomputeRecord] /\ \A u \in Task : TriesOK(task'[u])
      /\ nextId' <= Cardinality(Taken)' + 1
  BY <1>3, <1>4, <1>5, <1>6, <1>7, JobStepFits
<1>9. log' \in Seq(Event)
  <2>1. CASE Commit(t)
    <3> DEFINE r == [id |-> task[t].id, match |-> task[t].match, by |-> t]
    <3>1. task[t].id \in Id /\ task[t].match \in Match /\ log' = Append(log, r)
      BY <1>1, <2>1 DEF Commit, TriesOK, StreamInv, TaskOK
    <3>2. r \in Event
      BY <3>1 DEF Event
    <3> HIDE DEF r
    <3>. QED BY <1>1, <3>1, <3>2, AppendProperties
  <2>2. CASE Finish(t)
    BY <1>1, <2>2 DEF Finish
  <2>. QED BY <2>1, <2>2
<1>. QED BY <1>7, <1>8, <1>9 DEF FitInv, TypeOK, RecomputeRecord

\* A try that is cut counts, whether another one follows or not.
LEMMA CutFits ==
  ASSUME FitInv, NEW t \in Task, Crash(t) \/ Raise(t)
  PROVE  FitInv'
<1> DEFINE n == Tried(t)
<1>1. /\ task[t] \in RecomputeRecord /\ TriesOK(task[t]) /\ task \in [Task -> RecomputeRecord]
      /\ Underway(t) /\ UNCHANGED <<match, log, nextId, published, viewer>>
  BY DEF FitInv, TypeOK, RecomputeRecord, Crash, Raise, EndsAs
<1>2. PICK end \in {"queued", "failed"} :
        EndsAs(t, end) /\ (end = "queued" => n < MaxTries)
  <2>1. CASE Crash(t)
    <3> DEFINE end == IF n < MaxTries THEN "queued" ELSE "failed"
    <3>1. end \in {"queued", "failed"} /\ EndsAs(t, end) /\ (end = "queued" => n < MaxTries)
      BY <2>1 DEF Crash
    <3> HIDE DEF end
    <3>. QED BY <3>1
  <2>2. CASE Raise(t)
    BY <2>2 DEF Raise
  <2>. QED BY <2>1, <2>2
<1> DEFINE s == [task[t] EXCEPT !.at = end, !.id = 0, !.tries = n]
<1>3. n \in 0..MaxTries /\ task[t].tries <= n
  BY <1>1, BoundAssumption DEF Tried, Underway, TriesOK, RecomputeRecord
<1>4. task' = [task EXCEPT ![t] = s]
  BY <1>2 DEF EndsAs
<1> HIDE DEF n
<1>5. s \in RecomputeRecord /\ s.at = end /\ s.tries = n
  BY <1>1, <1>3 DEF RecomputeRecord
<1> HIDE DEF s
<1>6. TriesOK(s)
  BY <1>2, <1>5 DEF TriesOK
<1>7. TakenBy(task[t]) <= TakenBy(s)
  <2>1. task[t].tries \in Nat /\ n \in Nat
    BY <1>1, <1>3 DEF RecomputeRecord
  <2>. QED BY <1>3, <1>5, <2>1 DEF TakenBy
<1>8. /\ task' \in [Task -> RecomputeRecord] /\ \A u \in Task : TriesOK(task'[u])
      /\ nextId' <= Cardinality(Taken)' + 1
  BY <1>1, <1>4, <1>5, <1>6, <1>7, JobStepFits
<1>. QED BY <1>1, <1>8 DEF FitInv, TypeOK, RecomputeRecord

\* The publication of an id.
LEMMA PublishFits ==
  ASSUME FitInv, NEW t \in Task, Publish(t)
  PROVE  FitInv'
<1> DEFINE s == [task[t] EXCEPT !.at = "published"]
           x == task[t].id
<1>1. /\ task[t] \in RecomputeRecord /\ TriesOK(task[t]) /\ task \in [Task -> RecomputeRecord]
      /\ task' = [task EXCEPT ![t] = s] /\ task[t].at = "committed"
      /\ published' = published \cup {x} /\ UNCHANGED <<match, log, nextId>> /\ x \in Id
      /\ published \subseteq Id /\ Receive(x)
  BY DEF Publish, To, FitInv, TypeOK, RecomputeRecord, TriesOK
<1>2. s \in RecomputeRecord /\ s.at = "published" /\ s.tries = task[t].tries /\ s.id \in Id
  BY <1>1 DEF RecomputeRecord
<1> HIDE DEF s, x
<1>3. TriesOK(s)
  BY <1>2 DEF TriesOK
<1>4. TakenBy(task[t]) <= TakenBy(s)
  BY <1>1, <1>2 DEF TakenBy, RecomputeRecord
<1>5. /\ task' \in [Task -> RecomputeRecord] /\ \A u \in Task : TriesOK(task'[u])
      /\ nextId' <= Cardinality(Taken)' + 1
  BY <1>1, <1>2, <1>3, <1>4, JobStepFits
<1> DEFINE Viewer == [at : {"off", "replay", "subscribe", "tail"}, resume : Id \cup {0},
                      last : Id \cup {0}, got : SUBSET Id, opens : 0..MaxOpens]
           got == viewer.got \cup {x}
<1>6. viewer' \in Viewer
  <2>1. viewer' = viewer \/ viewer' = [viewer EXCEPT !.last = x, !.got = got]
    BY <1>1 DEF Receive
  <2>2. viewer \in Viewer
    BY DEF FitInv, TypeOK
  <2>3. got \in SUBSET Id
    BY <1>1, <2>2
  <2> HIDE DEF got
  <2>. QED BY <1>1, <2>1, <2>2, <2>3
<1>. QED BY <1>1, <1>5, <1>6 DEF FitInv, TypeOK, RecomputeRecord

\* The viewer's steps.
LEMMA ViewerFits ==
  ASSUME FitInv, StreamInv, Open \/ Replay \/ Subscribe \/ Disconnect
  PROVE  FitInv'
<1> DEFINE Viewer == [at : {"off", "replay", "subscribe", "tail"}, resume : Id \cup {0},
                      last : Id \cup {0}, got : SUBSET Id, opens : 0..MaxOpens]
<1>1. viewer \in Viewer
  BY DEF FitInv, TypeOK
<1>2. viewer' \in Viewer
  <2>1. CASE Open
    <3> DEFINE step == IF viewer.last = 0 THEN "subscribe" ELSE "replay"
               last == viewer.last
               opens == viewer.opens + 1
    <3>1. viewer' = [viewer EXCEPT !.at = step, !.resume = last, !.opens = opens]
      BY <2>1 DEF Open
    <3>2. last \in Id \cup {0} /\ opens \in 0..MaxOpens /\ step \in {"subscribe", "replay"}
      BY <1>1, <2>1, BoundAssumption DEF Open
    <3> HIDE DEF step, last, opens
    <3>. QED BY <1>1, <3>1, <3>2
  <2>2. CASE Replay
    <3> DEFINE missed == {id \in Committed : id > viewer.resume}
               last == IF missed = {} THEN viewer.last
                       ELSE CHOOSE id \in missed : \A o \in missed : o <= id
               got == viewer.got \cup missed
    <3>1. viewer' = [viewer EXCEPT !.at = "subscribe", !.last = last, !.got = got]
      BY <2>2 DEF Replay
    <3>2. Committed \subseteq Id
      <4>1. log \in Seq(Event)
        BY DEF FitInv, TypeOK
      <4>2. \A i \in DOMAIN log : log[i] \in Event
        BY <4>1
      <4>. QED BY <4>2 DEF Committed, Event
    <3>3. missed \subseteq Nat /\ missed \subseteq Id /\ nextId \in Nat
          /\ \A id \in missed : id <= nextId
      BY <3>2, LogRows DEF StreamInv, TypeInv
    <3>4. last \in Id \cup {0}
      <4>1. CASE missed = {}
        BY <1>1, <4>1
      <4>2. CASE missed # {}
        <5> HIDE DEF missed
        <5>1. \E id \in missed : \A o \in missed : o <= id
          BY <3>3, <4>2, GreatestNumber
        <5>. QED BY <3>3, <4>2, <5>1
      <4>. QED BY <4>1, <4>2
    <3>5. got \in SUBSET Id
      BY <1>1, <3>3
    <3> HIDE DEF last, got, missed
    <3>. QED BY <1>1, <3>1, <3>4, <3>5
  <2>3. CASE Subscribe \/ Disconnect
    BY <1>1, <2>3 DEF Subscribe, Disconnect
  <2>. QED BY <2>1, <2>2, <2>3
<1>3. UNCHANGED <<match, task, log, nextId, published>>
  BY DEF Open, Replay, Subscribe, Disconnect
<1>4. Taken' = Taken
  BY <1>3 DEF Taken
<1>. QED BY <1>2, <1>3, <1>4 DEF FitInv, TypeOK

\* The types of the stream hold: a job runs as often as it may, and no more ids
\* are taken from the sequence than jobs are run (worker's max_tries).
THEOREM StreamTyped == Spec => []TypeOK
<1>1. Init => FitInv
  <2> SUFFICES ASSUME Init PROVE FitInv
    OBVIOUS
  <2>1. TypeOK
    <3>1. Cardinality(Task) * MaxTries \in Nat
      BY TakenFits
    <3>2. 1 \in 1..(Cardinality(Task) * MaxTries + 1)
      BY <3>1
    <3>3. << >> \in Seq(Event)
      OBVIOUS
    <3>. QED BY <3>2, <3>3, BoundAssumption DEF Init, TypeOK, NoMatch
  <2>2. \A t \in Task : TriesOK(task[t])
    BY BoundAssumption DEF Init, TriesOK
  <2>. QED BY <2>1, <2>2, TakenFits DEF FitInv, Init
<1>2. FitInv /\ StreamInv /\ [Next]_vars => FitInv'
  <2> SUFFICES ASSUME FitInv, StreamInv, [Next]_vars PROVE FitInv'
    OBVIOUS
  <2>1. CASE \E t \in Task : Poll(t) \/ Work(t) \/ Crash(t) \/ Raise(t)
    BY <2>1, PollFits, ReadFits, FlushFits, EndFits, PublishFits, CutFits DEF Work
  <2>2. CASE Open \/ Replay \/ Subscribe \/ Disconnect
    BY <2>2, ViewerFits
  <2>3. CASE Over \/ UNCHANGED vars
    BY <2>3 DEF Over, vars, FitInv, TypeOK, Taken
  <2>. QED BY <2>1, <2>2, <2>3 DEF Next
<1>3. FitInv => TypeOK
  BY DEF FitInv
<1>. QED BY <1>1, <1>2, <1>3, StreamHolds, PTL DEF Spec

-----------------------------------------------------------------------------
(* Ingestion of one match, for any rescans, versions of the file, live      *)
(* kickoffs, window and timeouts.                                           *)

RunRow == [status : Statuses, content : Contents \cup {NoContent}, started : Nat]
JobRecord ==
  [at : {"idle", "download", "look", "skip", "save"}, run : Nat, force : BOOLEAN,
   content : Contents \cup {NoContent}, found : Nat, byRef : BOOLEAN,
   snap : Fixture \cup {NoFixture}]
PollRecord ==
  [at : {"idle", "save"}, kick : Nat, found : Nat, snap : Fixture \cup {NoFixture}]
RefRow == [by : {"file", "live"}, ext : Nat, fixture : Nat]
OddsRow == [fixture : Nat, ts : Int, closing : BOOLEAN]
Database ==
  [fixtures : Seq(Fixture), refs : SUBSET RefRow, odds : SUBSET OddsRow, conflicts : SUBSET Nat]
Listed == {c.kick : c \in Contents} \cup LiveKicks

\* What a version of the file gives.
LEMMA ContentFields ==
  /\ \A c \in Contents :
       /\ c.kick \in Nat /\ c.score \in Nat \ {0} /\ c.quoted \in BOOLEAN /\ c # NoContent
       /\ Day(c.kick) \in Nat
  /\ \A kick \in LiveKicks : kick \in Nat
<1>1. ASSUME NEW c \in Contents
      PROVE  c.kick \in Nat /\ c.score \in Nat \ {0} /\ c.quoted \in BOOLEAN
  <2>1. c \in [kick : Nat, score : Nat \ {0}, quoted : BOOLEAN]
    BY IngestionAssumption
  <2>. QED BY <2>1
<1>2. NoContent.score = 0
  BY DEF NoContent, None
<1>3. \A k \in Nat : Day(k) \in Nat
  BY DEF Day
<1>. QED BY <1>1, <1>2, <1>3, IngestionAssumption

\* The rows and references a database d holds.
Consistent(d) ==
  /\ d \in Database
  /\ \A r \in d.refs : r.fixture \in 1..Len(d.fixtures)
  /\ \A q \in d.odds : q.fixture \in 1..Len(d.fixtures)
  /\ \A i \in 1..Len(d.fixtures) : d.fixtures[i].kick \in Listed

LEMMA DatabaseFields ==
  ASSUME NEW d, Consistent(d)
  PROVE  /\ d.fixtures \in Seq(Fixture) /\ Len(d.fixtures) \in Nat
         /\ DOMAIN d.fixtures = 1..Len(d.fixtures)
         /\ d.refs \subseteq RefRow /\ d.odds \subseteq OddsRow /\ d.conflicts \subseteq Nat
         /\ \A i \in 1..Len(d.fixtures) :
              /\ d.fixtures[i] \in Fixture /\ d.fixtures[i].kick \in Nat
              /\ d.fixtures[i].score \in Nat
<1>1. /\ d.fixtures \in Seq(Fixture) /\ d.refs \subseteq RefRow /\ d.odds \subseteq OddsRow
      /\ d.conflicts \subseteq Nat
  BY DEF Consistent, Database
<1>2. Len(d.fixtures) \in Nat /\ DOMAIN d.fixtures = 1..Len(d.fixtures)
  BY <1>1, LenProperties
<1>3. \A i \in 1..Len(d.fixtures) : d.fixtures[i] \in Fixture
  BY <1>1, ElementOfSeq
<1>4. \A f \in Fixture : f.kick \in Nat /\ f.score \in Nat
  BY DEF Fixture
<1>. QED BY <1>1, <1>2, <1>3, <1>4

\* The new reference, unless the source's id names a fixture already.
LEMMA LinkEffect ==
  ASSUME NEW d, Consistent(d), NEW by \in {"file", "live"}, NEW ext \in Nat,
         NEW i \in 1..Len(d.fixtures)
  PROVE  LET e == LinkExternalRef(d, by, ext, i) IN
         /\ Consistent(e)
         /\ e.fixtures = d.fixtures /\ e.odds = d.odds /\ e.conflicts = d.conflicts
         /\ d.refs \subseteq e.refs
         /\ e.refs \subseteq d.refs \cup {[by |-> by, ext |-> ext, fixture |-> i]}
         /\ (~ \E r \in d.refs : r.by = by /\ r.ext = ext) =>
              [by |-> by, ext |-> ext, fixture |-> i] \in e.refs
<1>1. PICK e : e = LinkExternalRef(d, by, ext, i)
  OBVIOUS
<1>2. PICK r : r = [by |-> by, ext |-> ext, fixture |-> i]
  OBVIOUS
<1>3. r \in RefRow /\ r.fixture = i
  <2>1. i \in Nat
    BY DatabaseFields
  <2>. QED BY <1>2, <2>1 DEF RefRow
<1>4. CASE \E s \in d.refs : s.by = by /\ s.ext = ext
  <2>1. e = d
    BY <1>1, <1>4 DEF LinkExternalRef
  <2>. QED BY <1>1, <1>4, <2>1
<1>5. CASE ~ \E s \in d.refs : s.by = by /\ s.ext = ext
  <2>1. e = [d EXCEPT !.refs = d.refs \cup {r}]
    BY <1>1, <1>2, <1>5 DEF LinkExternalRef
  <2>2. d \in Database
    BY DEF Consistent
  <2>3. d.refs \cup {r} \in SUBSET RefRow
    BY <1>3, <2>2 DEF Database
  <2>4. /\ e \in Database /\ e.fixtures = d.fixtures /\ e.odds = d.odds
        /\ e.conflicts = d.conflicts /\ e.refs = d.refs \cup {r}
    BY <2>1, <2>2, <2>3 DEF Database
  <2>5. Consistent(e)
    BY <1>3, <2>4 DEF Consistent
  <2>. QED BY <1>1, <1>2, <2>4, <2>5
<1>. QED BY <1>4, <1>5

\* The quotes that are new, each on its side of the stored kickoff.
LEMMA QuotesEffect ==
  ASSUME NEW d, Consistent(d), NEW c \in Contents, NEW i \in 1..Len(d.fixtures), NEW stored \in Nat
  PROVE  LET e == InsertOdds(d, c, i, stored) IN
         /\ Consistent(e)
         /\ e.fixtures = d.fixtures /\ e.refs = d.refs /\ e.conflicts = d.conflicts
         /\ \A q \in e.odds : q \in d.odds \/
              (q.fixture = i /\ IF q.closing THEN q.ts = stored ELSE q.ts < stored)
<1>1. PICK e : e = InsertOdds(d, c, i, stored)
  OBVIOUS
<1>2. PICK valid : valid = {q \in Quotes(c, i, stored) : QuoteAllowed(q, {c.kick, stored})}
  OBVIOUS
<1>3. PICK new : new = {q \in valid : \A p \in d.odds : p.fixture # i \/ p.ts # q.ts}
  OBVIOUS
<1>4. d \in Database /\ i \in Nat /\ c.kick \in Nat
  BY DatabaseFields, ContentFields DEF Consistent
<1>5. e = [d EXCEPT !.odds = d.odds \cup new]
  BY <1>1, <1>2, <1>3 DEF InsertOdds
<1>6. ASSUME NEW q \in new
      PROVE  /\ q \in OddsRow /\ q.fixture = i
             /\ IF q.closing THEN q.ts = stored ELSE q.ts < stored
  <2>1. q \in Quotes(c, i, stored) /\ QuoteAllowed(q, {c.kick, stored})
    BY <1>2, <1>3, <1>6
  <2>2. \/ q = [fixture |-> i, ts |-> stored, closing |-> TRUE]
        \/ q = [fixture |-> i, ts |-> c.kick - PreClosingLead, closing |-> FALSE]
    BY <2>1 DEF Quotes
  <2>3. c.kick - PreClosingLead \in Int /\ stored \in Int
    BY <1>4 DEF PreClosingLead
  <2>4. q \in OddsRow /\ q.fixture = i /\ (q.closing => q.ts = stored)
    <3>1. CASE q = [fixture |-> i, ts |-> stored, closing |-> TRUE]
      BY <1>4, <2>3, <3>1 DEF OddsRow
    <3>2. CASE q = [fixture |-> i, ts |-> c.kick - PreClosingLead, closing |-> FALSE]
      BY <1>4, <2>3, <3>2 DEF OddsRow
    <3>. QED BY <2>2, <3>1, <3>2
  <2>5. ~q.closing => q.ts < stored
    BY <2>1 DEF QuoteAllowed
  <2>. QED BY <2>4, <2>5
<1>7. d.odds \cup new \in SUBSET OddsRow
  BY <1>4, <1>6 DEF Database
<1>8. /\ e \in Database /\ e.fixtures = d.fixtures /\ e.refs = d.refs
      /\ e.conflicts = d.conflicts /\ e.odds = d.odds \cup new
  BY <1>4, <1>5, <1>7 DEF Database
<1>9. Consistent(e)
  BY <1>6, <1>8 DEF Consistent
<1>. QED BY <1>1, <1>6, <1>8, <1>9

\* What the file corrects in a fixture it knows: its own kickoff and score.
Reconciled(d, c, i, snap, byRef, e) ==
  LET moved == Moves(c, snap, byRef) IN
  /\ Consistent(e) /\ Len(e.fixtures) = Len(d.fixtures) /\ e.refs = d.refs
  /\ \A k \in 1..Len(d.fixtures) : k # i => e.fixtures[k] = d.fixtures[k]
  /\ e.fixtures[i].kick = IF moved THEN c.kick ELSE d.fixtures[i].kick
  /\ e.fixtures[i].score = IF Corrects(c, snap) THEN c.score ELSE d.fixtures[i].score
  /\ e.conflicts = IF Disputes(c, snap) THEN d.conflicts \cup {i} ELSE d.conflicts
  /\ \A q \in e.odds : \/ q \in d.odds /\ (moved => q.fixture # i)
                       \/ moved /\ q.fixture = i /\ ~q.closing /\ q.ts < c.kick

LEMMA ReconcileEffect ==
  ASSUME NEW d, Consistent(d), NEW c \in Contents, NEW i \in 1..Len(d.fixtures),
         NEW snap \in Fixture, NEW byRef \in BOOLEAN
  PROVE  Reconciled(d, c, i, snap, byRef, Reconcile(d, c, i, snap, byRef))
<1>1. PICK e : e = Reconcile(d, c, i, snap, byRef)
  OBVIOUS
<1>2. PICK moved \in BOOLEAN : moved = Moves(c, snap, byRef)
  <2>1. Moves(c, snap, byRef) \in BOOLEAN
    BY DEF Moves
  <2>. QED BY <2>1
<1>3. /\ d \in Database /\ i \in Nat /\ c.kick \in Nat /\ c.score \in Nat /\ d.fixtures[i] \in Fixture
      /\ c.kick \in Listed
  BY DatabaseFields, ContentFields DEF Consistent, Listed
<1>4. PICK kick \in Nat : kick = IF moved THEN c.kick ELSE d.fixtures[i].kick
  BY <1>3 DEF Fixture
<1>5. PICK score \in Nat : score = IF Corrects(c, snap) THEN c.score ELSE d.fixtures[i].score
  BY <1>3 DEF Fixture
<1>6. PICK status \in {"live", "finished"} :
        status = IF snap.status = "live" THEN "finished" ELSE d.fixtures[i].status
  BY <1>3 DEF Fixture
<1>7. PICK f : f = [d.fixtures[i] EXCEPT !.kick = kick, !.score = score, !.status = status]
  OBVIOUS
<1>8. f \in Fixture /\ f.kick = kick /\ f.score = score
  BY <1>3, <1>7 DEF Fixture
<1>9. PICK fs : fs = [d.fixtures EXCEPT ![i] = f]
  OBVIOUS
<1>10. /\ fs \in Seq(Fixture) /\ Len(fs) = Len(d.fixtures) /\ fs[i] = f
       /\ \A k \in 1..Len(d.fixtures) : k # i => fs[k] = d.fixtures[k]
  BY <1>8, <1>9, DatabaseFields, ExceptSeq
<1>11. PICK os : os = IF moved THEN MoveOdds(d.odds, i, c.kick) ELSE d.odds
  OBVIOUS
<1>12. ASSUME NEW q \in os
       PROVE  /\ q \in OddsRow /\ q.fixture \in 1..Len(d.fixtures)
              /\ \/ q \in d.odds /\ (moved => q.fixture # i)
                 \/ moved /\ q.fixture = i /\ ~q.closing /\ q.ts < c.kick
  <2>1. CASE ~moved
    BY <1>3, <1>11, <1>12, <2>1 DEF Consistent, Database
  <2>2. CASE moved
    <3>1. PICK p \in d.odds : /\ p.fixture # i \/ p.ts < c.kick
                              /\ q = IF p.fixture = i THEN [p EXCEPT !.closing = FALSE] ELSE p
      BY <1>11, <1>12, <2>2 DEF MoveOdds
    <3>2. p \in OddsRow /\ p.fixture \in 1..Len(d.fixtures)
      BY <1>3, <3>1 DEF Consistent, Database
    <3>3. CASE p.fixture # i
      BY <3>1, <3>2, <3>3
    <3>4. CASE p.fixture = i
      <4>1. q = [p EXCEPT !.closing = FALSE] /\ p.ts < c.kick
        BY <3>1, <3>4
      <4>2. q \in OddsRow /\ q.fixture = p.fixture /\ q.ts = p.ts /\ ~q.closing
        BY <3>2, <4>1 DEF OddsRow
      <4>. QED BY <2>2, <3>2, <3>4, <4>1, <4>2
    <3>. QED BY <3>3, <3>4
  <2>. QED BY <2>1, <2>2
<1>13. PICK cs : cs = IF Disputes(c, snap) THEN d.conflicts \cup {i} ELSE d.conflicts
  OBVIOUS
<1>14. cs \in SUBSET Nat
  BY <1>3, <1>13 DEF Database
<1>15. e = [d EXCEPT !.fixtures = fs, !.odds = os, !.conflicts = cs]
  <2>1. PICK g : g = Corrected(d.fixtures[i], c, snap, moved)
    OBVIOUS
  <2>2. g = f
    BY <1>4, <1>5, <1>6, <1>7, <2>1 DEF Corrected
  <2>4. e = [d EXCEPT !.fixtures[i] = g,
                      !.odds = IF moved THEN MoveOdds(@, i, c.kick) ELSE @,
                      !.conflicts = IF Disputes(c, snap) THEN @ \cup {i} ELSE @]
    BY <1>1, <1>2, <2>1 DEF Reconcile
  <2>3. e = [d EXCEPT !.fixtures[i] = f, !.odds = os, !.conflicts = cs]
    BY <2>2, <2>4, <1>11, <1>13
  <2>. QED BY <2>3, <1>9
<1>16. os \in SUBSET OddsRow
  BY <1>12
<1>17. /\ e \in Database /\ e.fixtures = fs /\ e.refs = d.refs /\ e.odds = os /\ e.conflicts = cs
  BY <1>3, <1>10, <1>14, <1>15, <1>16 DEF Database
<1>18. \A k \in 1..Len(fs) : fs[k].kick \in Listed
  BY <1>3, <1>4, <1>8, <1>10 DEF Consistent
<1>19. Consistent(e)
  BY <1>10, <1>12, <1>17, <1>18 DEF Consistent
<1>. QED BY <1>1, <1>2, <1>4, <1>5, <1>8, <1>10, <1>12, <1>13, <1>17, <1>19 DEF Reconciled

\* A new fixture.
LEMMA InsertEffect ==
  ASSUME NEW d, Consistent(d), NEW row \in Fixture, row.kick \in Listed
  PROVE  LET e == InsertFixture(d, row) IN
         /\ Consistent(e) /\ e.refs = d.refs /\ e.odds = d.odds /\ e.conflicts = d.conflicts
         /\ Len(e.fixtures) = Len(d.fixtures) + 1
         /\ e.fixtures[Len(d.fixtures) + 1] = row
         /\ \A k \in 1..Len(d.fixtures) : e.fixtures[k] = d.fixtures[k]
<1>1. PICK e : e = InsertFixture(d, row)
  OBVIOUS
<1>2. PICK l \in Nat : l = Len(d.fixtures)
  BY DatabaseFields
<1>3. PICK fs : fs = Append(d.fixtures, row)
  OBVIOUS
<1>4. /\ fs \in Seq(Fixture) /\ Len(fs) = l + 1 /\ fs[l + 1] = row
      /\ \A k \in 1..l : fs[k] = d.fixtures[k]
  BY <1>2, <1>3, DatabaseFields, AppendProperties
<1>5. d \in Database /\ e = [d EXCEPT !.fixtures = fs]
  BY <1>1, <1>3 DEF InsertFixture, Consistent
<1>6. /\ e \in Database /\ e.fixtures = fs /\ e.refs = d.refs /\ e.odds = d.odds
      /\ e.conflicts = d.conflicts
  BY <1>4, <1>5 DEF Database
<1>7. /\ \A r \in d.refs : r.fixture \in 1..l + 1
      /\ \A q \in d.odds : q.fixture \in 1..l + 1
  BY <1>2 DEF Consistent
<1>8. ASSUME NEW k \in 1..l + 1 PROVE fs[k].kick \in Listed
  <2>1. CASE k = l + 1
    BY <1>4, <2>1
  <2>2. CASE k # l + 1
    <3>1. k \in 1..l
      BY <2>2
    <3>. QED BY <1>2, <1>4, <3>1 DEF Consistent
  <2>. QED BY <2>1, <2>2
<1>9. Consistent(e)
  BY <1>4, <1>6, <1>7, <1>8 DEF Consistent
<1>. QED BY <1>1, <1>2, <1>4, <1>6, <1>9

LEMMA DistanceFields ==
  \A a, b \in Nat : Distance(a, b) \in Nat /\ (a = b => Distance(a, b) = 0)
BY DEF Distance

\* The fixture that the window finds, the closest one, is a stored one; and
\* where it finds none every fixture is out of the window.
LEMMA DedupFinds ==
  ASSUME Consistent(db), NEW kick \in Nat
  PROVE  /\ Dedup(kick) \in 0..Len(db.fixtures)
         /\ Dedup(kick) = None <=>
              \A i \in 1..Len(db.fixtures) : ~ (Distance(db.fixtures[i].kick, kick) <= DedupWindow)
<1> DEFINE Away(i) == Distance(db.fixtures[i].kick, kick)
           Before(i, k) == Away(i) < Away(k) \/ (Away(i) = Away(k) /\ i <= k)
<1>1. PICK near : near = {i \in DOMAIN db.fixtures : Away(i) <= DedupWindow}
  OBVIOUS
<1>2. Dedup(kick) = IF near = {} THEN None ELSE CHOOSE i \in near : \A k \in near : Before(i, k)
  BY <1>1 DEF Dedup
<1>3. /\ DOMAIN db.fixtures = 1..Len(db.fixtures) /\ Len(db.fixtures) \in Nat
      /\ \A i \in 1..Len(db.fixtures) : Away(i) \in Nat
  BY DatabaseFields, DistanceFields
<1>4. near \subseteq 1..Len(db.fixtures) /\ near \subseteq Nat
  BY <1>1, <1>3
<1>5. ASSUME near # {} PROVE \E i \in near : \A k \in near : Before(i, k)
  <2>1. PICK aways : aways = {Away(i) : i \in near}
    OBVIOUS
  <2>2. aways \subseteq Nat /\ aways # {}
    BY <1>3, <1>4, <1>5, <2>1
  <2>3. PICK a \in aways : \A b \in aways : a <= b
    BY <2>2, LeastNumber
  <2>4. PICK closest : closest = {i \in near : Away(i) = a}
    OBVIOUS
  <2>5. closest \subseteq Nat /\ closest # {}
    BY <1>4, <2>1, <2>3, <2>4
  <2>6. PICK i \in closest : \A k \in closest : i <= k
    BY <2>5, LeastNumber
  <2>7. ASSUME NEW k \in near PROVE Before(i, k)
    <3>1. Away(k) \in aways /\ Away(k) \in Nat /\ a \in Nat /\ a <= Away(k)
      BY <1>3, <1>4, <2>1, <2>2, <2>3
    <3>2. CASE Away(k) = a
      BY <2>4, <2>6, <3>2
    <3>3. CASE Away(k) # a
      BY <2>4, <3>1, <3>3
    <3>. QED BY <3>2, <3>3
  <2>. QED BY <2>4, <2>7
<1>6. near # {} => Dedup(kick) \in near
  <2>. HIDE DEF Before
  <2>. QED BY <1>2, <1>5
<1>7. near = {} => Dedup(kick) = None
  BY <1>2
<1>. HIDE DEF Before, Away
<1>8. near = {} <=> \A i \in 1..Len(db.fixtures) : ~ (Away(i) <= DedupWindow)
  BY <1>1, <1>3
<1>9. near # {} => Dedup(kick) # None /\ Dedup(kick) \in 0..Len(db.fixtures)
  <2>1. PICK l \in Nat : l = Len(db.fixtures)
    BY <1>3
  <2>2. near # {} => Dedup(kick) \in 1..l
    BY <1>4, <1>6, <2>1
  <2>. QED BY <2>1, <2>2 DEF None
<1>10. 0 \in 0..Len(db.fixtures)
  BY <1>3
<1>. QED BY <1>7, <1>8, <1>9, <1>10 DEF None, Away

\* A fixture of exactly that kickoff is in the window.
LEMMA SameIsNear ==
  ASSUME Consistent(db), NEW kick \in Nat
  PROVE  /\ SameIdentity(kick) \subseteq 1..Len(db.fixtures)
         /\ SameIdentity(kick) # {} => Dedup(kick) # None
<1>1. SameIdentity(kick) \subseteq 1..Len(db.fixtures)
  BY DatabaseFields DEF SameIdentity
<1>2. ASSUME NEW i \in SameIdentity(kick) PROVE Dedup(kick) # None
  <2>1. i \in 1..Len(db.fixtures) /\ db.fixtures[i].kick = kick
    BY <1>1 DEF SameIdentity
  <2>2. Distance(db.fixtures[i].kick, kick) = 0
    BY <2>1, DistanceFields
  <2>3. 0 <= DedupWindow
    BY IngestionAssumption
  <2>. QED BY <2>1, <2>2, <2>3, DedupFinds
<1>. QED BY <1>1, <1>2

LEMMA FindEffect ==
  ASSUME Consistent(db), NEW by, NEW ext, NEW kick \in Nat
  PROVE  /\ FindFixture(by, ext, kick) \in 0..Len(db.fixtures)
         /\ ByRef(by, ext) # {} =>
              \E r \in db.refs : r.by = by /\ r.ext = ext /\ r.fixture = FindFixture(by, ext, kick)
         /\ FindFixture(by, ext, kick) = None =>
              /\ ByRef(by, ext) = {}
              /\ \A i \in 1..Len(db.fixtures) :
                   ~ (Distance(db.fixtures[i].kick, kick) <= DedupWindow)
         /\ FindFixture(by, ext, kick) # None =>
              FindFixture(by, ext, kick) \in 1..Len(db.fixtures)
<1>1. CASE ByRef(by, ext) # {}
  <2>1. FindFixture(by, ext, kick) \in ByRef(by, ext)
    BY <1>1 DEF FindFixture
  <2>2. PICK r \in db.refs : r.by = by /\ r.ext = ext /\ r.fixture = FindFixture(by, ext, kick)
    BY <2>1 DEF ByRef
  <2>3. FindFixture(by, ext, kick) \in 1..Len(db.fixtures)
    BY <2>2 DEF Consistent
  <2>4. Len(db.fixtures) \in Nat
    BY DatabaseFields
  <2>5. FindFixture(by, ext, kick) # None /\ FindFixture(by, ext, kick) \in 0..Len(db.fixtures)
    BY <2>3, <2>4 DEF None
  <2>. QED BY <1>1, <2>2, <2>3, <2>5
<1>2. CASE ByRef(by, ext) = {}
  <2>1. FindFixture(by, ext, kick) = Dedup(kick)
    BY <1>2 DEF FindFixture
  <2>2. Len(db.fixtures) \in Nat
    BY DatabaseFields
  <2>3. \A i \in 0..Len(db.fixtures) : i # None => i \in 1..Len(db.fixtures)
    BY <2>2 DEF None
  <2>. QED BY <1>2, <2>1, <2>3, DedupFinds
<1>. QED BY <1>1, <1>2

\* A job that is about to save what it decided on.
Decided(s) ==
  /\ s.content \in Contents /\ s.found \in 0..Len(db.fixtures) /\ s.byRef \in BOOLEAN
  /\ s.found # None => s.snap \in Fixture

\* The database after the commit, with the fixture i the row was taken for.
SavedAs(s, d, i) ==
  /\ i \in 1..Len(d.fixtures) /\ Consistent(d) /\ db.refs \subseteq d.refs
  /\ d.refs \subseteq
       db.refs \cup {[by |-> "file", ext |-> Day(s.content.kick), fixture |-> i]}
  /\ ByRef("file", Day(s.content.kick)) = {} =>
       [by |-> "file", ext |-> Day(s.content.kick), fixture |-> i] \in d.refs

\* A fixture that was found is reconciled, with the row as it was when it was
\* read.
SavedFound(s, d) ==
  LET c == s.content
      moved == Moves(c, s.snap, s.byRef)
      i == s.found
  IN /\ SavedAs(s, d, i) /\ Len(d.fixtures) = Len(db.fixtures)
     /\ \A k \in 1..Len(db.fixtures) : k # i => d.fixtures[k] = db.fixtures[k]
     /\ d.fixtures[i].kick = IF moved THEN c.kick ELSE db.fixtures[i].kick
     /\ d.fixtures[i].score = IF Corrects(c, s.snap) THEN c.score ELSE db.fixtures[i].score
     /\ d.conflicts = IF Disputes(c, s.snap) THEN db.conflicts \cup {i} ELSE db.conflicts
     /\ \A q \in d.odds :
          \/ q \in db.odds /\ (moved => q.fixture # i)
          \/ moved /\ q.fixture = i /\ ~q.closing /\ q.ts < c.kick
          \/ q.fixture = i /\ LET stored == IF moved THEN c.kick ELSE s.snap.kick IN
                              IF q.closing THEN q.ts = stored ELSE q.ts < stored

\* A lost insert takes the fixture that is there, and a won one adds its row.
SavedLost(s, d) ==
  LET i == Dedup(s.content.kick) IN
  /\ SameIdentity(s.content.kick) # {}
  /\ SavedAs(s, d, i) /\ d.fixtures = db.fixtures /\ d.conflicts = db.conflicts
  /\ \A q \in d.odds :
       \/ q \in db.odds
       \/ q.fixture = i /\ LET stored == db.fixtures[i].kick IN
                           IF q.closing THEN q.ts = stored ELSE q.ts < stored

SavedNew(s, d) ==
  LET i == Len(db.fixtures) + 1
      c == s.content
  IN /\ SameIdentity(c.kick) = {}
     /\ SavedAs(s, d, i) /\ Len(d.fixtures) = i
     /\ \A k \in 1..Len(db.fixtures) : d.fixtures[k] = db.fixtures[k]
     /\ d.fixtures[i].kick = c.kick /\ d.fixtures[i].score = c.score
     /\ d.conflicts = db.conflicts
     /\ \A q \in d.odds :
          \/ q \in db.odds
          \/ q.fixture = i /\ IF q.closing THEN q.ts = c.kick ELSE q.ts < c.kick

\* The reference of the saved row, after what was put into the tables.
LEMMA LinkAndQuotes ==
  ASSUME NEW s, s.content \in Contents, NEW put, Consistent(put), put.refs = db.refs,
         NEW i \in 1..Len(put.fixtures), NEW stored \in Nat,
         NEW d, d = InsertOdds(LinkExternalRef(put, "file", Day(s.content.kick), i),
                               s.content, i, stored)
  PROVE  /\ SavedAs(s, d, i) /\ d.fixtures = put.fixtures /\ d.conflicts = put.conflicts
         /\ \A q \in d.odds :
              \/ q \in put.odds
              \/ q.fixture = i /\ IF q.closing THEN q.ts = stored ELSE q.ts < stored
<1>1. PICK ext \in Nat : ext = Day(s.content.kick)
  BY ContentFields
<1>2. PICK e : e = LinkExternalRef(put, "file", ext, i)
  OBVIOUS
<1>3. PICK r : r = [by |-> "file", ext |-> ext, fixture |-> i]
  OBVIOUS
<1>4. /\ Consistent(e) /\ e.fixtures = put.fixtures /\ e.odds = put.odds
      /\ e.conflicts = put.conflicts /\ db.refs \subseteq e.refs
      /\ e.refs \subseteq db.refs \cup {r}
      /\ (~ \E x \in db.refs : x.by = "file" /\ x.ext = ext) => r \in e.refs
  BY <1>2, <1>3, LinkEffect
<1>5. i \in 1..Len(e.fixtures) /\ d = InsertOdds(e, s.content, i, stored)
  BY <1>1, <1>2, <1>4
<1>6. /\ Consistent(d) /\ d.fixtures = e.fixtures /\ d.refs = e.refs /\ d.conflicts = e.conflicts
      /\ \A q \in d.odds : q \in e.odds \/
           (q.fixture = i /\ IF q.closing THEN q.ts = stored ELSE q.ts < stored)
  BY <1>4, <1>5, QuotesEffect
<1>7. ByRef("file", ext) = {} => ~ \E x \in db.refs : x.by = "file" /\ x.ext = ext
  BY DEF ByRef
<1>8. SavedAs(s, d, i)
  BY <1>1, <1>3, <1>4, <1>6, <1>7 DEF SavedAs
<1>. QED BY <1>4, <1>6, <1>8

LEMMA SaveEffect ==
  ASSUME Consistent(db), NEW s, Decided(s), NEW d, d = IngestRecords(s)
  PROVE  IF s.found # None THEN SavedFound(s, d) ELSE SavedLost(s, d) \/ SavedNew(s, d)
<1>1. PICK c \in Contents : c = s.content
  BY DEF Decided
<1>2. /\ c.kick \in Nat /\ c.score \in Nat /\ c.kick \in Listed /\ Len(db.fixtures) \in Nat
  BY ContentFields, DatabaseFields DEF Listed
<1>3. CASE s.found # None
  <2>1. PICK i \in 1..Len(db.fixtures) : i = s.found
    BY <1>2, <1>3 DEF Decided, None
  <2>2. PICK put : put = Reconcile(db, c, i, s.snap, s.byRef)
    OBVIOUS
  <2>3. s.snap \in Fixture /\ s.byRef \in BOOLEAN
    BY <1>3 DEF Decided
  <2>4. PICK moved \in BOOLEAN : moved = Moves(c, s.snap, s.byRef)
    <3>1. Moves(c, s.snap, s.byRef) \in BOOLEAN
      BY DEF Moves
    <3>. QED BY <3>1
  <2>5. PICK stored \in Nat : stored = IF moved THEN c.kick ELSE s.snap.kick
    BY <1>2, <2>3 DEF Fixture
  <2>6. /\ Consistent(put) /\ Len(put.fixtures) = Len(db.fixtures) /\ put.refs = db.refs
        /\ \A k \in 1..Len(db.fixtures) : k # i => put.fixtures[k] = db.fixtures[k]
        /\ put.fixtures[i].kick = IF moved THEN c.kick ELSE db.fixtures[i].kick
        /\ put.fixtures[i].score = IF Corrects(c, s.snap) THEN c.score ELSE db.fixtures[i].score
        /\ put.conflicts = IF Disputes(c, s.snap) THEN db.conflicts \cup {i} ELSE db.conflicts
        /\ \A q \in put.odds : \/ q \in db.odds /\ (moved => q.fixture # i)
                               \/ moved /\ q.fixture = i /\ ~q.closing /\ q.ts < c.kick
    <3>1. PICK snap \in Fixture : snap = s.snap
      BY <2>3
    <3>2. PICK byRef \in BOOLEAN : byRef = s.byRef
      BY <2>3
    <3>3. put = Reconcile(db, c, i, snap, byRef) /\ moved = Moves(c, snap, byRef)
      BY <2>2, <2>4, <3>1, <3>2
    <3>4. Reconciled(db, c, i, snap, byRef, put)
      BY <3>3, ReconcileEffect
    <3>. QED BY <2>4, <3>1, <3>2, <3>4 DEF Reconciled
  <2>7. d = InsertOdds(LinkExternalRef(put, "file", Day(c.kick), i), c, i, stored)
    BY <1>1, <1>3, <2>1, <2>2, <2>4, <2>5 DEF IngestRecords
  <2>8. i \in 1..Len(put.fixtures)
    BY <2>6
  <2>9. /\ SavedAs(s, d, i) /\ d.fixtures = put.fixtures /\ d.conflicts = put.conflicts
        /\ \A q \in d.odds :
             \/ q \in put.odds
             \/ q.fixture = i /\ IF q.closing THEN q.ts = stored ELSE q.ts < stored
    BY <1>1, <2>6, <2>7, <2>8, LinkAndQuotes
  <2>10. ASSUME NEW q \in d.odds
         PROVE  \/ q \in db.odds /\ (moved => q.fixture # i)
                \/ moved /\ q.fixture = i /\ ~q.closing /\ q.ts < c.kick
                \/ q.fixture = i /\ IF q.closing THEN q.ts = stored ELSE q.ts < stored
    BY <2>6, <2>9
  <2>11. SavedFound(s, d)
    BY <1>1, <2>1, <2>4, <2>5, <2>6, <2>9, <2>10 DEF SavedFound
  <2>. QED BY <1>3, <2>11
<1>4. CASE s.found = None /\ SameIdentity(c.kick) # {}
  <2>1. PICK i \in 1..Len(db.fixtures) : i = Dedup(c.kick)
    BY <1>2, <1>4, SameIsNear, DedupFinds DEF None
  <2>2. PICK stored \in Nat : stored = db.fixtures[i].kick
    BY DatabaseFields
  <2>3. d = InsertOdds(LinkExternalRef(db, "file", Day(c.kick), i), c, i, stored)
    BY <1>1, <1>4, <2>1, <2>2 DEF IngestRecords
  <2>4. /\ SavedAs(s, d, i) /\ d.fixtures = db.fixtures /\ d.conflicts = db.conflicts
        /\ \A q \in d.odds :
             \/ q \in db.odds
             \/ q.fixture = i /\ IF q.closing THEN q.ts = stored ELSE q.ts < stored
    BY <1>1, <2>3, LinkAndQuotes
  <2>5. SavedLost(s, d)
    BY <1>1, <1>4, <2>1, <2>2, <2>4 DEF SavedLost
  <2>. QED BY <1>4, <2>5
<1>5. CASE s.found = None /\ SameIdentity(c.kick) = {}
  <2>1. PICK i \in Nat : i = Len(db.fixtures) + 1
    BY <1>2
  <2>2. PICK row : row = [kick |-> c.kick, source |-> "file", status |-> "finished", score |-> c.score]
    OBVIOUS
  <2>3. row \in Fixture /\ row.kick = c.kick /\ row.score = c.score
    BY <1>2, <2>2 DEF Fixture
  <2>4. PICK put : put = InsertFixture(db, row)
    OBVIOUS
  <2>5. /\ Consistent(put) /\ put.refs = db.refs /\ put.odds = db.odds
        /\ put.conflicts = db.conflicts /\ Len(put.fixtures) = i /\ put.fixtures[i] = row
        /\ \A k \in 1..Len(db.fixtures) : put.fixtures[k] = db.fixtures[k]
    BY <1>2, <2>1, <2>3, <2>4, InsertEffect
  <2>6. i \in 1..Len(put.fixtures)
    BY <1>2, <2>1, <2>5
  <2>7. d = InsertOdds(LinkExternalRef(put, "file", Day(c.kick), i), c, i, c.kick)
    BY <1>1, <1>5, <2>1, <2>2, <2>3, <2>4, <2>5 DEF IngestRecords
  <2>8. /\ SavedAs(s, d, i) /\ d.fixtures = put.fixtures /\ d.conflicts = put.conflicts
        /\ \A q \in d.odds :
             \/ q \in put.odds
             \/ q.fixture = i /\ IF q.closing THEN q.ts = c.kick ELSE q.ts < c.kick
    BY <1>1, <1>2, <2>5, <2>6, <2>7, LinkAndQuotes
  <2>9. SavedNew(s, d)
    BY <1>1, <1>5, <2>1, <2>3, <2>5, <2>8 DEF SavedNew
  <2>. QED BY <1>5, <2>9
<1>. QED BY <1>1, <1>3, <1>4, <1>5

\* The live poll changes no kickoff and no score of a stored fixture.
PollKeeps(d) ==
  /\ Consistent(d) /\ d.odds = db.odds /\ d.conflicts = db.conflicts /\ db.refs \subseteq d.refs
  /\ \A r \in d.refs : r \in db.refs \/ r.by = "live"
  /\ Len(d.fixtures) >= Len(db.fixtures)
  /\ \A k \in 1..Len(db.fixtures) :
       d.fixtures[k].kick = db.fixtures[k].kick /\ d.fixtures[k].score = db.fixtures[k].score

LEMMA PollEffect ==
  ASSUME Consistent(db), poll \in PollRecord, poll.at = "save", poll.kick \in LiveKicks,
         poll.found \in 0..Len(db.fixtures), NEW d, d = UpsertLiveFixture
  PROVE  /\ PollKeeps(d)
         /\ Len(d.fixtures) = Len(db.fixtures) \/
              (poll.found = None /\ Len(d.fixtures) = Len(db.fixtures) + 1)
<1>1. /\ poll.kick \in Nat /\ poll.kick \in Listed /\ Len(db.fixtures) \in Nat /\ LiveId \in Nat
      /\ db \in Database
  BY ContentFields, DatabaseFields DEF Listed, LiveId, Consistent
<1>2. ASSUME NEW i \in 1..Len(db.fixtures), NEW put, put = [db EXCEPT !.fixtures[i].status = "live"]
      PROVE  /\ Consistent(put) /\ put.odds = db.odds /\ put.conflicts = db.conflicts
             /\ put.refs = db.refs /\ Len(put.fixtures) = Len(db.fixtures)
             /\ \A k \in 1..Len(db.fixtures) :
                  /\ put.fixtures[k].kick = db.fixtures[k].kick
                  /\ put.fixtures[k].score = db.fixtures[k].score
  <2>1. PICK f : f = [db.fixtures[i] EXCEPT !.status = "live"]
    OBVIOUS
  <2>2. f \in Fixture /\ f.kick = db.fixtures[i].kick /\ f.score = db.fixtures[i].score
    <3>1. db.fixtures[i] \in Fixture
      BY DatabaseFields
    <3>. QED BY <2>1, <3>1 DEF Fixture
  <2>3. PICK fs : fs = [db.fixtures EXCEPT ![i] = f]
    OBVIOUS
  <2>4. /\ fs \in Seq(Fixture) /\ Len(fs) = Len(db.fixtures)
        /\ \A k \in 1..Len(db.fixtures) : fs[k] = IF k = i THEN f ELSE db.fixtures[k]
    BY <2>2, <2>3, DatabaseFields, ExceptSeq
  <2>5. put = [db EXCEPT !.fixtures = fs]
    BY <1>2, <2>1, <2>3
  <2>6. /\ put \in Database /\ put.fixtures = fs /\ put.odds = db.odds
        /\ put.conflicts = db.conflicts /\ put.refs = db.refs
    BY <1>1, <2>4, <2>5 DEF Database
  <2>7. \A k \in 1..Len(db.fixtures) :
          fs[k].kick = db.fixtures[k].kick /\ fs[k].score = db.fixtures[k].score
    BY <2>2, <2>4
  <2>8. Consistent(put)
    BY <2>4, <2>6, <2>7 DEF Consistent
  <2>. QED BY <2>4, <2>6, <2>7, <2>8
<1>3. ASSUME NEW put, Consistent(put), put.odds = db.odds, put.conflicts = db.conflicts,
             put.refs = db.refs, Len(put.fixtures) >= Len(db.fixtures),
             \A k \in 1..Len(db.fixtures) :
               put.fixtures[k].kick = db.fixtures[k].kick /\ put.fixtures[k].score = db.fixtures[k].score,
             NEW i \in 1..Len(put.fixtures), d = LinkExternalRef(put, "live", LiveId, i)
      PROVE  PollKeeps(d) /\ Len(d.fixtures) = Len(put.fixtures)
  <2>1. PICK r : r = [by |-> "live", ext |-> LiveId, fixture |-> i]
    OBVIOUS
  <2>2. /\ Consistent(d) /\ d.fixtures = put.fixtures /\ d.odds = put.odds
        /\ d.conflicts = put.conflicts /\ put.refs \subseteq d.refs
        /\ d.refs \subseteq put.refs \cup {r}
    BY <1>1, <1>3, <2>1, LinkEffect
  <2>3. r.by = "live"
    BY <2>1
  <2>. QED BY <1>3, <2>2, <2>3 DEF PollKeeps
<1>4. CASE poll.found # None
  <2>1. PICK i \in 1..Len(db.fixtures) : i = poll.found
    BY <1>1, <1>4 DEF None
  <2>2. PICK put : put = IF poll.snap.status = "live" THEN db ELSE [db EXCEPT !.fixtures[i].status = "live"]
    OBVIOUS
  <2>3. d = LinkExternalRef(put, "live", LiveId, i)
    BY <1>4, <2>1, <2>2 DEF UpsertLiveFixture
  <2>4. /\ Consistent(put) /\ put.odds = db.odds /\ put.conflicts = db.conflicts
        /\ put.refs = db.refs /\ Len(put.fixtures) = Len(db.fixtures)
        /\ \A k \in 1..Len(db.fixtures) :
             /\ put.fixtures[k].kick = db.fixtures[k].kick
             /\ put.fixtures[k].score = db.fixtures[k].score
    BY <1>2, <2>2
  <2>5. i \in 1..Len(put.fixtures) /\ Len(put.fixtures) >= Len(db.fixtures)
    BY <1>1, <2>4
  <2>. QED BY <1>3, <2>3, <2>4, <2>5
<1>5. CASE poll.found = None /\ SameIdentity(poll.kick) # {}
  <2>1. PICK i \in 1..Len(db.fixtures) : i = CHOOSE k \in SameIdentity(poll.kick) : TRUE
    BY <1>1, <1>5, SameIsNear
  <2>2. PICK put : put = [db EXCEPT !.fixtures[i].status = "live"]
    OBVIOUS
  <2>3. d = LinkExternalRef(put, "live", LiveId, i)
    BY <1>5, <2>1, <2>2 DEF UpsertLiveFixture
  <2>4. /\ Consistent(put) /\ put.odds = db.odds /\ put.conflicts = db.conflicts
        /\ put.refs = db.refs /\ Len(put.fixtures) = Len(db.fixtures)
        /\ \A k \in 1..Len(db.fixtures) :
             /\ put.fixtures[k].kick = db.fixtures[k].kick
             /\ put.fixtures[k].score = db.fixtures[k].score
    BY <1>2, <2>2
  <2>5. i \in 1..Len(put.fixtures) /\ Len(put.fixtures) >= Len(db.fixtures)
    BY <1>1, <2>4
  <2>. QED BY <1>3, <2>3, <2>4, <2>5
<1>6. CASE poll.found = None /\ SameIdentity(poll.kick) = {}
  <2>1. PICK row : row = [kick |-> poll.kick, source |-> "live", status |-> "live", score |-> None]
    OBVIOUS
  <2>2. row \in Fixture /\ row.kick = poll.kick
    BY <1>1, <2>1 DEF Fixture, None
  <2>3. PICK put : put = InsertFixture(db, row)
    OBVIOUS
  <2>4. /\ Consistent(put) /\ put.refs = db.refs /\ put.odds = db.odds
        /\ put.conflicts = db.conflicts /\ Len(put.fixtures) = Len(db.fixtures) + 1
        /\ \A k \in 1..Len(db.fixtures) : put.fixtures[k] = db.fixtures[k]
    BY <1>1, <2>2, <2>3, InsertEffect
  <2>5. PICK i \in 1..Len(put.fixtures) : i = Len(put.fixtures)
    BY <1>1, <2>4
  <2>6. d = LinkExternalRef(put, "live", LiveId, i)
    BY <1>6, <2>1, <2>3, <2>5 DEF UpsertLiveFixture
  <2>7. Len(put.fixtures) >= Len(db.fixtures)
    BY <1>1, <2>4
  <2>. QED BY <1>3, <1>6, <2>4, <2>6, <2>7
<1>. QED BY <1>4, <1>5, <1>6

-----------------------------------------------------------------------------
\* The run log, whatever overlaps: the row of a rescan that runs is its own and
\* goes on, that of the worker's no older than the timeout; if no rescan was
\* ever started beside another one, the row is the last.
Running(j) == job[j].at # "idle"
RunLogInv ==
  /\ clock \in Nat /\ runs \in Seq(RunRow) /\ job \in [Job -> JobRecord]
  /\ overlapped \in BOOLEAN /\ raced \in BOOLEAN
  /\ \A j \in Job : Running(j) =>
       /\ job[j].run \in 1..Len(runs) /\ GoesOn(j, runs[job[j].run])
       /\ j \notin Cli => clock <= runs[job[j].run].started + JobTimeout
       /\ job[j].at # "download" => job[j].content \in Contents
  /\ \A j, k \in Job : Running(j) /\ Running(k) /\ job[j].run = job[k].run => j = k
  /\ overlapped \/ \A j \in Job : Running(j) => job[j].run = Len(runs)

\* The tables, and what the rescans and the poll have read from them.
DatabaseInv ==
  /\ Consistent(db) /\ poll \in PollRecord
  /\ poll.at = "save" => poll.kick \in LiveKicks /\ poll.found \in 0..Len(db.fixtures)
  /\ \A j \in Job : job[j].at = "save" => Decided(job[j])

\* What a rescan has read from the tables d is still so when it saves, if no
\* other one ran.
Current(d, s) ==
  /\ s.found # None =>
       /\ d.fixtures[s.found].kick = s.snap.kick
       /\ d.fixtures[s.found].score = s.snap.score
  /\ s.byRef => \E r \in d.refs :
                  r.by = "file" /\ r.ext = Day(s.content.kick) /\ r.fixture = s.found
  /\ ~s.byRef => ~ \E r \in d.refs : r.by = "file" /\ r.ext = Day(s.content.kick)
CurrentInv == overlapped \/ \A j \in Job : job[j].at = "save" => Current(db, job[j])

\* A closing quote is at the kickoff, every other one before it.
OnTime(d, q) ==
  LET kick == d.fixtures[q.fixture].kick IN IF q.closing THEN q.ts = kick ELSE q.ts < kick
OddsInv == overlapped \/ \A q \in db.odds : OnTime(db, q)

\* One source at most is about to insert the match, if none ever looked for it
\* while another one was.
Inserts(j) == job[j].at = "save" /\ job[j].found = None
PollInserts == poll.at = "save" /\ poll.found = None
InsertInv ==
  raced \/
    /\ \A j, k \in Job : Inserts(j) /\ Inserts(k) => j = k
    /\ PollInserts => \A j \in Job : ~Inserts(j)

\* And then no fixture has come near it meanwhile.
FarInv ==
  overlapped \/ raced \/
    \A j \in Job : Inserts(j) =>
      \A i \in 1..Len(db.fixtures) :
        ~ (Distance(db.fixtures[i].kick, job[j].content.kick) <= DedupWindow)

\* What a version of the file says is in the tables: its score, or the
\* disagreement about it.
Reflected(d, c) ==
  \E r \in d.refs :
    /\ r.by = "file" /\ r.ext = Day(c.kick)
    /\ d.fixtures[r.fixture].score = c.score \/ r.fixture \in d.conflicts
LastSuccess(rows, i) ==
  /\ rows[i].status = "success"
  /\ \A k \in 1..Len(rows) : rows[k].status = "success" => k <= i
ReflectInv ==
  overlapped \/ raced \/
    /\ \A j \in Job : job[j].at = "skip" => Reflected(db, job[j].content)
    /\ \A i \in 1..Len(runs) : LastSuccess(runs, i) => Reflected(db, runs[i].content)

\* All sources list the match within the window.
AllNear == \A a, b \in Listed : Distance(a, b) <= DedupWindow
OneRowInv ==
  raced \/
    /\ Len(db.fixtures) <= 1
    /\ PollInserts \/ (\E j \in Job : Inserts(j)) => Len(db.fixtures) = 0

LEMMA IdleFields ==
  /\ NoContent \in Contents \cup {NoContent} /\ Idle \in JobRecord
  /\ Idle.at = "idle" /\ Idle.run = 0 /\ Idle.content = NoContent
  /\ NoPoll \in PollRecord /\ NoPoll.at = "idle"
BY DEF Idle, JobRecord, NoPoll, PollRecord, None

\* One job's record.
LEMMA JobUpdate ==
  ASSUME RunLogInv, NEW j \in Job, NEW s \in JobRecord, PutJob(j, s)
  PROVE  /\ job' \in [Job -> JobRecord]
         /\ job'[j] = s /\ \A k \in Job : k # j => job'[k] = job[k]
BY DEF RunLogInv, PutJob

\* mark_stale_runs changes nothing but the status of rows that are too old.
LEMMA StaleEffect ==
  ASSUME RunLogInv, NEW rows, rows = MarkStaleRuns(runs)
  PROVE  /\ rows \in Seq(RunRow) /\ Len(rows) = Len(runs)
         /\ \A i \in 1..Len(runs) :
              /\ rows[i].started = runs[i].started /\ rows[i].content = runs[i].content
              /\ rows[i].status = "success" <=> runs[i].status = "success"
              /\ rows[i] = runs[i] \/ (rows[i].status = "failed" /\ Stale(rows[i]))
              /\ clock <= runs[i].started + StaleAfter => rows[i] = runs[i]
<1>1. PICK n \in Nat : n = Len(runs)
  BY LenProperties DEF RunLogInv
<1>2. /\ DOMAIN runs = 1..n /\ clock \in Nat
      /\ \A i \in 1..n : runs[i] \in RunRow /\ runs[i].started \in Nat
  <2>1. DOMAIN runs = 1..n /\ clock \in Nat /\ runs \in Seq(RunRow)
    BY <1>1, LenProperties DEF RunLogInv
  <2>2. \A i \in 1..n : runs[i] \in RunRow
    BY <1>1, <2>1, ElementOfSeq
  <2>3. \A r \in RunRow : r.started \in Nat
    BY DEF RunRow
  <2>. QED BY <2>1, <2>2, <2>3
<1> DEFINE Old(i) == runs[i].status = "running" /\ runs[i].started + StaleAfter < clock
<1>3. rows = [i \in 1..n |-> IF Old(i) THEN [runs[i] EXCEPT !.status = "failed"] ELSE runs[i]]
  BY <1>2 DEF MarkStaleRuns, Stale
<1>4. ASSUME NEW i \in 1..n
      PROVE  /\ rows[i] \in RunRow
             /\ rows[i].started = runs[i].started /\ rows[i].content = runs[i].content
             /\ rows[i].status = "success" <=> runs[i].status = "success"
             /\ rows[i] = runs[i] \/ (rows[i].status = "failed" /\ Stale(rows[i]))
             /\ clock <= runs[i].started + StaleAfter => rows[i] = runs[i]
  <2>1. StaleAfter \in Nat
    BY IngestionAssumption
  <2>2. CASE Old(i)
    <3>1. rows[i] = [runs[i] EXCEPT !.status = "failed"]
      BY <1>3, <2>2
    <3>2. /\ rows[i] \in RunRow /\ rows[i].started = runs[i].started
          /\ rows[i].content = runs[i].content /\ rows[i].status = "failed"
      BY <1>2, <3>1 DEF RunRow, Statuses
    <3>3. ~ (clock <= runs[i].started + StaleAfter)
      BY <1>2, <2>1, <2>2
    <3>4. Stale(rows[i])
      BY <2>2, <3>2 DEF Stale
    <3>. QED BY <2>2, <3>2, <3>3, <3>4
  <2>3. CASE ~Old(i)
    <3>1. rows[i] = runs[i]
      BY <1>3, <2>3
    <3>. QED BY <1>2, <3>1
  <2>. QED BY <2>2, <2>3
<1>5. rows \in [1..n -> RunRow]
  <2>. HIDE DEF Old
  <2>. QED BY <1>3, <1>4
<1>. QED BY <1>1, <1>4, <1>5, SeqDef, LenProperties

\* The end of a run sets its own row.
LEMMA EndEffect ==
  ASSUME RunLogInv, NEW j \in Job, Running(j), NEW i, i = job[j].run,
         \/ Success(j) /\ job[j].at # "download"
         \/ runs' = [runs EXCEPT ![job[j].run].status = "failed"]
  PROVE  /\ runs' \in Seq(RunRow) /\ Len(runs') = Len(runs) /\ i \in 1..Len(runs)
         /\ \A k \in 1..Len(runs) : k # i => runs'[k] = runs[k]
         /\ runs'[i].started = runs[i].started
         /\ Success(j) => runs'[i].status = "success" /\ runs'[i].content = job[j].content
         /\ ~Success(j) => runs'[i].status = "failed"
<1>1. /\ runs \in Seq(RunRow) /\ i \in 1..Len(runs) /\ runs[i] \in RunRow
      /\ job[j].at # "download" => job[j].content \in Contents
  <2>1. runs \in Seq(RunRow) /\ i \in 1..Len(runs)
    BY DEF RunLogInv
  <2>. QED BY <2>1, ElementOfSeq DEF RunLogInv
<1>2. CASE Success(j) /\ job[j].at # "download"
  <2>1. PICK f : f = [[runs[i] EXCEPT !.status = "success"] EXCEPT !.content = job[j].content]
    OBVIOUS
  <2>2. /\ f \in RunRow /\ f.started = runs[i].started /\ f.status = "success"
        /\ f.content = job[j].content
    BY <1>1, <1>2, <2>1 DEF RunRow, Statuses
  <2>3. runs' = [runs EXCEPT ![i] = f]
    <3>1. PICK mid : mid = [runs EXCEPT ![i].status = "success"]
      OBVIOUS
    <3>2. runs' = [mid EXCEPT ![i].content = job[j].content]
      BY <1>2, <3>1 DEF Success
    <3>3. i \in DOMAIN runs
      BY <1>1, LenProperties
    <3>4. DOMAIN mid = DOMAIN runs /\ mid[i] = [runs[i] EXCEPT !.status = "success"]
      BY <3>1, <3>3
    <3>5. runs' = [mid EXCEPT ![i] = [mid[i] EXCEPT !.content = job[j].content]]
      BY <3>2
    <3>6. runs' = [mid EXCEPT ![i] = f]
      BY <2>1, <3>4, <3>5
    <3>7. mid = [runs EXCEPT ![i] = [runs[i] EXCEPT !.status = "success"]]
      BY <3>1
    <3>. QED BY <3>3, <3>6, <3>7
  <2>4. runs' \in Seq(RunRow) /\ Len(runs') = Len(runs)
        /\ \A k \in 1..Len(runs) : runs'[k] = IF k = i THEN f ELSE runs[k]
    BY <1>1, <2>2, <2>3, ExceptSeq
  <2>. QED BY <1>1, <1>2, <2>2, <2>4
<1>3. CASE runs' = [runs EXCEPT ![job[j].run].status = "failed"]
  <2>1. PICK f : f = [runs[i] EXCEPT !.status = "failed"]
    OBVIOUS
  <2>2. /\ f \in RunRow /\ f.started = runs[i].started /\ f.status = "failed"
    BY <1>1, <2>1 DEF RunRow, Statuses
  <2>3. runs' = [runs EXCEPT ![i] = f]
    BY <1>3, <2>1
  <2>4. runs' \in Seq(RunRow) /\ Len(runs') = Len(runs)
        /\ \A k \in 1..Len(runs) : runs'[k] = IF k = i THEN f ELSE runs[k]
    BY <1>1, <2>2, <2>3, ExceptSeq
  <2>5. ~Success(j)
    <3>1. SUFFICES ASSUME Success(j) PROVE FALSE
      OBVIOUS
    <3>2. PICK mid : mid = [runs EXCEPT ![i].status = "success"]
      OBVIOUS
    <3>3. runs' = [mid EXCEPT ![i].content = job[j].content]
      BY <3>1, <3>2 DEF Success
    <3>4. i \in DOMAIN runs
      BY <1>1, LenProperties
    <3>5. mid[i] = [runs[i] EXCEPT !.status = "success"] /\ DOMAIN mid = DOMAIN runs
      BY <3>2, <3>4
    <3>6. mid[i].status = "success"
      BY <1>1, <3>5 DEF RunRow
    <3>7. runs'[i] = [mid[i] EXCEPT !.content = job[j].content]
      BY <3>3, <3>4, <3>5
    <3>8. runs'[i].status = "success"
      BY <1>1, <3>5, <3>6, <3>7 DEF RunRow
    <3>. QED BY <1>1, <2>2, <2>4, <3>8
  <2>. QED BY <1>1, <2>2, <2>4, <2>5
<1>. QED BY <1>2, <1>3

\* A step of one rescan that goes on or ends keeps the log in order.
LEMMA RunLogKept ==
  ASSUME RunLogInv, NEW j \in Job, Running(j), NEW s \in JobRecord, PutJob(j, s),
         s.at # "idle" => s.run = job[j].run /\ s.content \in Contents,
         clock' = clock, overlapped' = overlapped, raced' \in BOOLEAN,
         runs' \in Seq(RunRow), Len(runs') = Len(runs),
         \A i \in 1..Len(runs) : /\ runs'[i].started = runs[i].started
                                 /\ s.at # "idle" \/ i # job[j].run => runs'[i].status = runs[i].status
  PROVE  RunLogInv'
<1>1. /\ job' \in [Job -> JobRecord] /\ job'[j] = s /\ \A k \in Job : k # j => job'[k] = job[k]
  BY JobUpdate
<1>2. ASSUME NEW k \in Job, job'[k].at # "idle"
      PROVE  /\ Running(k) /\ job'[k].run = job[k].run /\ (k = j => s.at # "idle")
             /\ job'[k].at # "download" => job'[k].content \in Contents
  <2>1. CASE k = j
    BY <1>1, <1>2, <2>1
  <2>2. CASE k # j
    BY <1>1, <1>2, <2>2 DEF RunLogInv, Running
  <2>. QED BY <2>1, <2>2
<1>3. ASSUME NEW k \in Job, job'[k].at # "idle"
      PROVE  /\ job'[k].run \in 1..Len(runs') /\ GoesOn(k, runs[job[k].run])'
             /\ k \notin Cli => clock' <= runs'[job'[k].run].started + JobTimeout
             /\ overlapped' \/ job'[k].run = Len(runs')
  <2>1. PICK i : i = job[k].run
    OBVIOUS
  <2>2. /\ i \in 1..Len(runs) /\ GoesOn(k, runs[i])
        /\ k \notin Cli => clock <= runs[i].started + JobTimeout
        /\ job'[k].run = i
        /\ overlapped \/ i = Len(runs)
    BY <1>2, <1>3, <2>1 DEF RunLogInv
  <2>3. s.at # "idle" \/ i # job[j].run
    BY <1>2, <1>3, <2>1 DEF RunLogInv
  <2>4. runs'[i].status = runs[i].status /\ runs'[i].started = runs[i].started
    BY <2>2, <2>3
  <2>5. GoesOn(k, runs[i])'
    BY <2>2, <2>4 DEF GoesOn, Stale
  <2>. QED BY <1>2, <1>3, <2>1, <2>2, <2>4, <2>5
<1>4. ASSUME NEW k \in Job, NEW l \in Job, job'[k].at # "idle", job'[l].at # "idle",
             job'[k].run = job'[l].run
      PROVE  k = l
  <2>1. Running(k) /\ Running(l) /\ job[k].run = job[l].run
    BY <1>2, <1>4
  <2>. QED BY <2>1 DEF RunLogInv
<1>. QED BY <1>1, <1>2, <1>3, <1>4 DEF RunLogInv, Running

\* What each rescan step writes to its record.
LEMMA DownloadRecord ==
  ASSUME NEW r \in JobRecord, NEW c \in Contents
  PROVE  LET s == [r EXCEPT !.at = "look", !.content = c] IN
         s \in JobRecord /\ s.at = "look" /\ s.run = r.run /\ s.content = c
BY DEF JobRecord

LEMMA SkipRecord ==
  ASSUME NEW r \in JobRecord
  PROVE  LET s == [r EXCEPT !.at = "skip"] IN
         s \in JobRecord /\ s.at = "skip" /\ s.run = r.run /\ s.content = r.content
BY DEF JobRecord

\* What Look decides: to skip, or to save what it found.
Looked(j, s) ==
  LET c == job[j].content
      found == FindFixture("file", Day(c.kick), c.kick)
  IN /\ s \in JobRecord /\ s.run = job[j].run /\ s.content = c
     /\ \/ s.at = "skip" /\ LastSuccessSha(job[j].run) = c /\ raced' = raced
        \/ /\ s.at = "save" /\ s.found = found /\ s.snap = Snapshot(found)
           /\ s.byRef = (ByRef("file", Day(c.kick)) # {})
           /\ raced' = (raced \/ (found = None /\ OthersInsert(j)))

LookGoes(j) == \E s \in JobRecord : PutJob(j, s) /\ Looked(j, s)

LEMMA LookEffect ==
  ASSUME RunLogInv, DatabaseInv, NEW j \in Job, Look(j)
  PROVE  /\ job[j].at = "look" /\ job[j].content \in Contents /\ Running(j)
         /\ LookGoes(j)
<1>1. /\ job[j].at = "look" /\ Running(j) /\ job[j].content \in Contents /\ job[j] \in JobRecord
  BY DEF Look, RunLogInv, Running
<1>2. PICK c \in Contents : c = job[j].content
  BY <1>1
<1>3. PICK found \in Nat : found = FindFixture("file", Day(c.kick), c.kick)
  <2>1. FindFixture("file", Day(c.kick), c.kick) \in 0..Len(db.fixtures)
    BY <1>2, ContentFields, FindEffect DEF DatabaseInv
  <2>2. Len(db.fixtures) \in Nat
    BY DatabaseFields DEF DatabaseInv
  <2>3. FindFixture("file", Day(c.kick), c.kick) \in Nat
    BY <2>1, <2>2
  <2>. QED BY <2>3
<1>4. PICK snap \in Fixture \cup {NoFixture} : snap = Snapshot(found)
  <2>1. found # None => found \in 1..Len(db.fixtures)
    BY <1>2, <1>3, ContentFields, FindEffect DEF DatabaseInv
  <2>2. found # None => db.fixtures[found] \in Fixture
    BY <2>1, DatabaseFields DEF DatabaseInv
  <2>3. Snapshot(found) \in Fixture \cup {NoFixture}
    BY <2>2 DEF Snapshot
  <2>. QED BY <2>3
<1>5. PICK byRef \in BOOLEAN : byRef = (ByRef("file", Day(c.kick)) # {})
  OBVIOUS
<1>6. CASE PutJob(j, [job[j] EXCEPT !.at = "skip"]) /\ UNCHANGED raced
           /\ LastSuccessSha(job[j].run) = c
  <2>1. PICK s : s = [job[j] EXCEPT !.at = "skip"]
    OBVIOUS
  <2>2. s \in JobRecord /\ s.at = "skip" /\ s.run = job[j].run /\ s.content = c
    BY <1>1, <1>2, <2>1, SkipRecord
  <2>3. Looked(j, s)
    BY <1>2, <1>6, <2>2 DEF Looked
  <2>. QED BY <1>1, <1>6, <2>1, <2>2, <2>3 DEF LookGoes
<1>7. CASE /\ PutJob(j, [job[j] EXCEPT !.at = "save", !.found = found,
                                       !.byRef = ByRef("file", Day(c.kick)) # {},
                                       !.snap = Snapshot(found)])
           /\ raced' = (raced \/ (found = None /\ OthersInsert(j)))
  <2>1. PICK s : s = [job[j] EXCEPT !.at = "save", !.found = found, !.byRef = byRef, !.snap = snap]
    OBVIOUS
  <2>2. /\ s \in JobRecord /\ s.at = "save" /\ s.run = job[j].run /\ s.content = c
        /\ s.found = found /\ s.byRef = byRef /\ s.snap = snap
    <3>1. PICK r \in JobRecord : r = job[j]
      BY <1>1
    <3>2. s = [r EXCEPT !.at = "save", !.found = found, !.byRef = byRef, !.snap = snap]
      BY <2>1, <3>1
    <3>3. /\ s \in JobRecord /\ s.at = "save" /\ s.run = r.run /\ s.content = r.content
          /\ s.found = found /\ s.byRef = byRef /\ s.snap = snap
      BY <3>2 DEF JobRecord
    <3>. QED BY <1>2, <3>1, <3>3
  <2>3. PutJob(j, s)
    BY <1>4, <1>5, <1>7, <2>1
  <2>4. Looked(j, s)
    BY <1>2, <1>3, <1>4, <1>5, <1>7, <2>2 DEF Looked
  <2>. QED BY <1>1, <2>2, <2>3, <2>4 DEF LookGoes
<1>. QED BY <1>2, <1>3, <1>6, <1>7 DEF Look

\* Type and run log of every step.
LEMMA RunLogInitial == IngestionInit => RunLogInv
<1> SUFFICES ASSUME IngestionInit PROVE RunLogInv
  OBVIOUS
<1>1. /\ clock = 0 /\ runs = <<>> /\ job = [j \in Job |-> Idle] /\ overlapped = FALSE /\ raced = FALSE
  BY DEF IngestionInit
<1>2. runs \in Seq(RunRow) /\ job \in [Job -> JobRecord] /\ clock \in Nat
  BY <1>1, IdleFields, EmptySeq
<1>3. \A j \in Job : ~Running(j)
  BY <1>1, IdleFields DEF Running
<1>. QED BY <1>1, <1>2, <1>3 DEF RunLogInv

LEMMA RunLogRescan ==
  ASSUME RunLogInv, NEW j \in Job, NEW force \in BOOLEAN, Rescan(j, force)
  PROVE  /\ RunLogInv' /\ job'[j].at = "download" /\ \A k \in Job : k # j => job'[k] = job[k]
         /\ Len(runs') = Len(runs) + 1 /\ runs'[Len(runs) + 1].status = "running"
         /\ \A i \in 1..Len(runs) :
              /\ runs'[i].status = "success" <=> runs[i].status = "success"
              /\ runs'[i].content = runs[i].content
<1>1. PICK n \in Nat : n = Len(runs)
  BY LenProperties DEF RunLogInv
<1>2. PICK rows : rows = MarkStaleRuns(runs)
  OBVIOUS
<1>3. PICK row : row = [status |-> "running", content |-> NoContent, started |-> clock]
  OBVIOUS
<1>4. row \in RunRow /\ row.started = clock /\ row.status = "running"
  BY <1>3, IdleFields DEF RunRow, Statuses, RunLogInv
<1>5. /\ rows \in Seq(RunRow) /\ Len(rows) = n
      /\ \A i \in 1..n :
           /\ rows[i].started = runs[i].started /\ rows[i].content = runs[i].content
           /\ rows[i].status = "success" <=> runs[i].status = "success"
           /\ rows[i] = runs[i] \/ (rows[i].status = "failed" /\ Stale(rows[i]))
           /\ clock <= runs[i].started + StaleAfter => rows[i] = runs[i]
  BY <1>1, <1>2, StaleEffect
<1>6. runs' = Append(rows, row)
  BY <1>2, <1>3 DEF Rescan
<1>7. /\ runs' \in Seq(RunRow) /\ Len(runs') = n + 1 /\ runs'[n + 1] = row
      /\ \A i \in 1..n : runs'[i] = rows[i]
  BY <1>4, <1>5, <1>6, AppendProperties
<1>8. PICK s : s = [Idle EXCEPT !.at = "download", !.run = n + 1, !.force = force]
  OBVIOUS
<1>9. s \in JobRecord /\ s.at = "download" /\ s.run = n + 1
  <2>1. PICK i \in Nat : i = n + 1
    OBVIOUS
  <2>2. s = [Idle EXCEPT !.at = "download", !.run = i, !.force = force]
    BY <1>8, <2>1
  <2>3. s \in JobRecord /\ s.at = "download" /\ s.run = i
    BY <2>2 DEF Idle, JobRecord, None
  <2>. QED BY <2>1, <2>3
<1>10. PutJob(j, s)
  BY <1>1, <1>8 DEF Rescan
<1>11. /\ job' \in [Job -> JobRecord] /\ job'[j] = s /\ \A k \in Job : k # j => job'[k] = job[k]
  BY <1>9, <1>10, JobUpdate
<1>12. /\ job[j].at = "idle" /\ clock' = clock /\ raced' = raced
       /\ overlapped' = (overlapped \/ \E k \in Job : job[k].at # "idle")
  BY DEF Rescan
<1>13. ASSUME NEW k \in Job, k # j, Running(k)
       PROVE  /\ job[k].run \in 1..n /\ GoesOn(k, runs'[job[k].run])
              /\ runs'[job[k].run].started = runs[job[k].run].started
  <2>1. PICK i \in 1..n : i = job[k].run
    BY <1>1, <1>13 DEF RunLogInv
  <2>2. runs'[i] = rows[i] /\ rows[i].started = runs[i].started /\ GoesOn(k, runs[i])
    BY <1>5, <1>7, <1>13, <2>1 DEF RunLogInv
  <2>3. CASE k \in Cli
    <3>1. CASE rows[i] = runs[i]
      BY <2>1, <2>2, <3>1
    <3>2. CASE rows[i].status = "failed" /\ Stale(rows[i])
      BY <2>1, <2>2, <2>3, <3>2 DEF GoesOn
    <3>. QED BY <1>5, <3>1, <3>2
  <2>4. CASE k \notin Cli
    <3>1. clock <= runs[i].started + JobTimeout
      BY <1>13, <2>1, <2>4 DEF RunLogInv
    <3>2. runs[i].started \in Nat /\ clock \in Nat
      <4>1. runs[i] \in RunRow
        BY <1>1, ElementOfSeq DEF RunLogInv
      <4>. QED BY <4>1 DEF RunRow, RunLogInv
    <3>3. clock <= runs[i].started + StaleAfter
      BY <3>1, <3>2, IngestionAssumption
    <3>. QED BY <1>5, <2>1, <2>2, <3>3
  <2>. QED BY <2>3, <2>4
<1>14. ASSUME NEW k \in Job, job'[k].at # "idle"
       PROVE  /\ job'[k].run \in 1..n + 1 /\ GoesOn(k, runs[job[k].run])'
              /\ k \notin Cli => clock' <= runs'[job'[k].run].started + JobTimeout
              /\ job'[k].at # "download" => job'[k].content \in Contents
              /\ overlapped' \/ job'[k].run = Len(runs')
              /\ IF k = j THEN job'[k].run = n + 1 ELSE job'[k].run # n + 1
  <2>1. CASE k = j
    <3>1. clock <= clock + JobTimeout
      BY IngestionAssumption DEF RunLogInv
    <3>. QED BY <1>4, <1>7, <1>9, <1>11, <1>12, <2>1, <3>1 DEF GoesOn
  <2>2. CASE k # j
    <3>1. job'[k] = job[k] /\ Running(k) /\ overlapped'
      BY <1>11, <1>12, <1>14, <2>2 DEF Running
    <3>2. PICK i \in 1..n : i = job[k].run
      BY <1>13, <2>2, <3>1
    <3>3. runs'[i].started = runs[i].started /\ GoesOn(k, runs'[i])
      BY <1>13, <2>2, <3>1, <3>2
    <3>4. /\ k \notin Cli => clock <= runs[i].started + JobTimeout
          /\ job[k].at # "download" => job[k].content \in Contents
      BY <3>1, <3>2 DEF RunLogInv
    <3>5. i \in 1..n + 1 /\ i # n + 1
      BY <3>2
    <3>6. GoesOn(k, runs[job[k].run])'
      BY <1>12, <3>1, <3>2, <3>3 DEF GoesOn, Stale
    <3>. QED BY <1>12, <2>2, <3>1, <3>2, <3>3, <3>4, <3>5, <3>6
  <2>. QED BY <2>1, <2>2
<1>15. ASSUME NEW k \in Job, NEW l \in Job, job'[k].at # "idle", job'[l].at # "idle",
              job'[k].run = job'[l].run
       PROVE  k = l
  <2>1. CASE k # j /\ l # j
    BY <1>11, <1>15, <2>1 DEF RunLogInv, Running
  <2>2. CASE k = j \/ l = j
    BY <1>14, <1>15, <2>2
  <2>. QED BY <2>1, <2>2
<1>16. clock' \in Nat /\ overlapped' \in BOOLEAN /\ raced' \in BOOLEAN
  BY <1>12 DEF RunLogInv
<1>17. RunLogInv'
  BY <1>7, <1>11, <1>14, <1>15, <1>16 DEF RunLogInv, Running
<1>. QED BY <1>1, <1>4, <1>5, <1>7, <1>9, <1>11, <1>17

\* A step that neither changes the tables nor lets a source look into them.
QuietStep ==
  /\ db' = db /\ raced' = raced /\ (overlapped => overlapped')
  /\ poll' = poll \/ poll' = NoPoll
  /\ \A k \in Job : job'[k].at = "save" => job'[k] = job[k]
\* A rescan looks and will save what it found.
Looks(j) ==
  /\ job[j].content \in Contents
  /\ db' = db /\ poll' = poll /\ overlapped' = overlapped
  /\ job'[j].at = "save" /\ Looked(j, job'[j])
  /\ \A k \in Job : k # j => job'[k] = job[k]
\* A rescan saves.
Saves(j) ==
  /\ job[j].at = "save" /\ db' = IngestRecords(job[j])
  /\ poll' = poll /\ overlapped' = overlapped /\ raced' = raced
  /\ job'[j].at = "idle" /\ \A k \in Job : k # j => job'[k] = job[k]

\* Each step is one of these or one of the poll's; and the run log stays in order.
LEMMA RescanCases ==
  ASSUME RunLogInv, DatabaseInv, NEW j \in Job,
         \/ \E force \in BOOLEAN : Rescan(j, force)
         \/ \E content \in Contents : Download(j, content)
         \/ Look(j) \/ Skip(j) \/ Save(j) \/ Fail(j) \/ Die(j)
  PROVE  RunLogInv' /\ (QuietStep \/ Looks(j) \/ Saves(j))
<1>1. CASE \E force \in BOOLEAN : Rescan(j, force)
  <2>1. PICK force \in BOOLEAN : Rescan(j, force)
    BY <1>1
  <2>2. RunLogInv' /\ job'[j].at = "download" /\ \A k \in Job : k # j => job'[k] = job[k]
    BY <2>1, RunLogRescan
  <2>3. /\ db' = db /\ raced' = raced /\ poll' = poll
        /\ overlapped' = (overlapped \/ \E k \in Job : job[k].at # "idle")
    BY <2>1 DEF Rescan
  <2>4. QuietStep
    BY <2>2, <2>3 DEF QuietStep
  <2>. QED BY <2>2, <2>4
<1>2. CASE \E content \in Contents : Download(j, content)
  <2>1. PICK content \in Contents : Download(j, content)
    BY <1>2
  <2>2. /\ Running(j) /\ job[j] \in JobRecord
    BY <2>1 DEF Download, RunLogInv, Running
  <2>3. PICK s : s = [job[j] EXCEPT !.at = "look", !.content = content]
    OBVIOUS
  <2>4. s \in JobRecord /\ s.at = "look" /\ s.run = job[j].run /\ s.content = content
    BY <2>2, <2>3, DownloadRecord
  <2>5. PutJob(j, s) /\ UNCHANGED <<clock, db, runs, poll, overlapped, raced>>
    BY <2>1, <2>3 DEF Download, history
  <2>6. RunLogInv'
    BY <2>2, <2>4, <2>5, RunLogKept DEF RunLogInv
  <2>7. QuietStep
    BY <2>4, <2>5, JobUpdate DEF QuietStep
  <2>. QED BY <2>6, <2>7
<1>3. CASE Look(j)
  <2>0. LookGoes(j)
    BY <1>3, LookEffect, Zenon
  <2>1. PICK s \in JobRecord : PutJob(j, s) /\ Looked(j, s)
    BY <2>0, Zenon DEF LookGoes
  <2>2. Running(j) /\ job[j].content \in Contents /\ UNCHANGED <<clock, db, runs, poll, overlapped>>
    BY <1>3, LookEffect DEF Look
  <2>3. s.run = job[j].run /\ s.content \in Contents /\ raced' \in BOOLEAN
    BY <2>1, <2>2 DEF Looked, RunLogInv
  <2>4. RunLogInv'
    BY <2>1, <2>2, <2>3, RunLogKept DEF RunLogInv
  <2>5. job'[j] = s /\ \A k \in Job : k # j => job'[k] = job[k]
    BY <2>1, JobUpdate
  <2>6. CASE s.at = "save"
    <3>1. Looks(j)
      BY <2>1, <2>2, <2>5, <2>6 DEF Looks
    <3>. QED BY <2>4, <3>1
  <2>7. CASE s.at # "save"
    <3>1. raced' = raced
      BY <2>1, <2>7 DEF Looked
    <3>2. QuietStep
      BY <2>2, <2>5, <2>7, <3>1 DEF QuietStep
    <3>. QED BY <2>4, <3>2
  <2>. QED BY <2>6, <2>7
<1>4. ASSUME Running(j), PutJob(j, Idle), UNCHANGED <<clock, overlapped, raced>>,
             runs' \in Seq(RunRow), Len(runs') = Len(runs),
             \A i \in 1..Len(runs) :
               /\ runs'[i].started = runs[i].started
               /\ i # job[j].run => runs'[i].status = runs[i].status
      PROVE  RunLogInv' /\ job'[j].at = "idle" /\ \A k \in Job : k # j => job'[k] = job[k]
  <2>1. Idle \in JobRecord /\ Idle.at = "idle"
    BY IdleFields
  <2>2. RunLogInv'
    BY <1>4, <2>1, RunLogKept DEF RunLogInv
  <2>. QED BY <1>4, <2>1, <2>2, JobUpdate
<1>5. CASE Skip(j) \/ Save(j) \/ Fail(j)
  <2>1. /\ Running(j) /\ PutJob(j, Idle) /\ UNCHANGED <<clock, poll, overlapped, raced>>
        /\ \/ Success(j) /\ job[j].at # "download"
           \/ runs' = [runs EXCEPT ![job[j].run].status = "failed"]
    BY <1>5 DEF Skip, Save, Fail, Running, history
  <2>2. PICK i : i = job[j].run
    OBVIOUS
  <2>3. /\ runs' \in Seq(RunRow) /\ Len(runs') = Len(runs)
        /\ \A k \in 1..Len(runs) : k # i => runs'[k] = runs[k]
        /\ runs'[i].started = runs[i].started
    BY <2>1, <2>2, EndEffect
  <2>4. \A k \in 1..Len(runs) :
          runs'[k].started = runs[k].started /\ (k # job[j].run => runs'[k].status = runs[k].status)
    BY <2>2, <2>3
  <2>5. RunLogInv' /\ job'[j].at = "idle" /\ \A k \in Job : k # j => job'[k] = job[k]
    BY <1>4, <2>1, <2>3, <2>4
  <2>6. CASE Save(j)
    <3>1. Saves(j)
      BY <2>1, <2>5, <2>6 DEF Saves, Save
    <3>. QED BY <2>5, <3>1
  <2>7. CASE Skip(j) \/ Fail(j)
    <3>1. db' = db
      BY <2>7 DEF Skip, Fail
    <3>2. QuietStep
      BY <2>1, <2>5, <3>1 DEF QuietStep
    <3>. QED BY <2>5, <3>2
  <2>. QED BY <1>5, <2>6, <2>7
<1>6. CASE Die(j)
  <2>1. /\ Running(j) /\ PutJob(j, Idle) /\ UNCHANGED <<clock, poll, overlapped, raced, db, runs>>
    BY <1>6 DEF Die, Running, history
  <2>2. runs' \in Seq(RunRow)
    BY <2>1 DEF RunLogInv
  <2>3. RunLogInv' /\ job'[j].at = "idle" /\ \A k \in Job : k # j => job'[k] = job[k]
    BY <1>4, <2>1, <2>2
  <2>4. QuietStep
    BY <2>1, <2>3 DEF QuietStep
  <2>. QED BY <2>3, <2>4
<1>. QED BY <1>1, <1>2, <1>3, <1>5, <1>6

LEMMA StepCases ==
  ASSUME RunLogInv, DatabaseInv, [IngestionNext]_ingestionVars
  PROVE  /\ RunLogInv'
         /\ \/ QuietStep \/ PollSave
            \/ \E j \in Job : Looks(j) \/ Saves(j)
            \/ \E kick \in LiveKicks : PollLive(kick)
<1>1. CASE \E j \in Job :
             \/ \E force \in BOOLEAN : Rescan(j, force)
             \/ \E content \in Contents : Download(j, content)
             \/ Look(j) \/ Skip(j) \/ Save(j) \/ Fail(j) \/ Die(j)
  BY <1>1, RescanCases
<1>2. ASSUME UNCHANGED <<clock, runs, job, overlapped>>, raced' \in BOOLEAN PROVE RunLogInv'
  <2>1. clock' = clock /\ runs' = runs /\ job' = job /\ overlapped' = overlapped
    BY <1>2
  <2>2. \A j \in Job : GoesOn(j, runs[job[j].run])' <=> GoesOn(j, runs[job[j].run])
    BY <2>1 DEF GoesOn, Stale
  <2>. QED BY <1>2, <2>1, <2>2 DEF RunLogInv, Running
<1>3. CASE \E kick \in LiveKicks : PollLive(kick)
  <2>1. UNCHANGED <<clock, runs, job, overlapped>> /\ raced' \in BOOLEAN
    BY <1>3 DEF PollLive, RunLogInv
  <2>. QED BY <1>2, <1>3, <2>1
<1>4. CASE PollSave
  <2>1. UNCHANGED <<clock, runs, job, overlapped>> /\ raced' \in BOOLEAN
    BY <1>4 DEF PollSave, RunLogInv, history
  <2>. QED BY <1>2, <1>4, <2>1
<1>5. CASE PollDrop \/ UNCHANGED ingestionVars
  <2>1. /\ UNCHANGED <<clock, runs, job, overlapped, raced, db>>
        /\ poll' = poll \/ poll' = NoPoll
    BY <1>5 DEF PollDrop, history, ingestionVars
  <2>2. raced' \in BOOLEAN
    BY <2>1 DEF RunLogInv
  <2>. QED BY <1>2, <2>1, <2>2 DEF QuietStep
<1>6. CASE Tick
  <2>1. /\ UNCHANGED <<db, runs, job, poll, overlapped, raced>> /\ clock' = clock + 1
        /\ \A j \in Job \ Cli :
             job[j].at # "idle" => clock < runs[job[j].run].started + JobTimeout
    BY <1>6 DEF Tick, history
  <2>2. ASSUME NEW j \in Job, Running(j)
        PROVE  /\ j \notin Cli => clock + 1 <= runs[job[j].run].started + JobTimeout
               /\ GoesOn(j, runs[job[j].run])'
    <3>1. PICK i \in 1..Len(runs) : i = job[j].run
      BY <2>2 DEF RunLogInv
    <3>2. runs[i] \in RunRow
      BY ElementOfSeq DEF RunLogInv
    <3>3. runs[i].started \in Nat /\ clock \in Nat /\ JobTimeout \in Nat
      BY <3>2, IngestionAssumption DEF RunRow, RunLogInv
    <3>4. j \notin Cli => clock < runs[i].started + JobTimeout
      BY <2>1, <2>2, <3>1 DEF Running
    <3>5. GoesOn(j, runs[i])
      BY <2>2, <3>1 DEF RunLogInv
    <3>6. Stale(runs[i]) => Stale(runs[i])'
      <4>1. StaleAfter \in Nat
        BY IngestionAssumption
      <4>. QED BY <2>1, <3>3, <4>1 DEF Stale
    <3>7. GoesOn(j, runs[job[j].run])'
      BY <2>1, <3>1, <3>5, <3>6 DEF GoesOn
    <3>. QED BY <3>1, <3>3, <3>4, <3>7
  <2>3. clock + 1 \in Nat
    BY DEF RunLogInv
  <2>4. RunLogInv'
    <3>1. \A j \in Job : Running(j)' <=> Running(j)
      BY <2>1 DEF Running
    <3>. QED BY <2>1, <2>2, <2>3, <3>1 DEF RunLogInv
  <2>5. QuietStep
    BY <2>1 DEF QuietStep
  <2>. QED BY <2>4, <2>5
<1>. QED BY <1>1, <1>3, <1>4, <1>5, <1>6 DEF IngestionNext

\* What a saving rescan and the poll do to the tables, in one place.
LEMMA SavesEffect ==
  ASSUME DatabaseInv, NEW j \in Job, Saves(j)
  PROVE  IF job[j].found # None THEN SavedFound(job[j], db')
         ELSE SavedLost(job[j], db') \/ SavedNew(job[j], db')
<1>1. PICK s : s = job[j]
  OBVIOUS
<1>2. PICK d : d = db'
  OBVIOUS
<1>3. Consistent(db) /\ Decided(s) /\ d = IngestRecords(s)
  BY <1>1, <1>2 DEF DatabaseInv, Saves
<1>4. IF s.found # None THEN SavedFound(s, d) ELSE SavedLost(s, d) \/ SavedNew(s, d)
  BY <1>3, SaveEffect
<1>. QED BY <1>1, <1>2, <1>4

LEMMA SavedGrows ==
  ASSUME Consistent(db), NEW s, Decided(s), NEW d,
         SavedFound(s, d) \/ SavedLost(s, d) \/ SavedNew(s, d)
  PROVE  Consistent(d) /\ Len(d.fixtures) >= Len(db.fixtures)
<1>1. Len(db.fixtures) \in Nat
  BY DatabaseFields
<1>2. CASE SavedFound(s, d)
  BY <1>1, <1>2 DEF SavedFound, SavedAs
<1>3. CASE SavedLost(s, d)
  BY <1>1, <1>3 DEF SavedLost, SavedAs
<1>4. CASE SavedNew(s, d)
  BY <1>1, <1>4 DEF SavedNew, SavedAs
<1>. QED BY <1>2, <1>3, <1>4

LEMMA PollSaveEffect ==
  ASSUME DatabaseInv, PollSave
  PROVE  /\ PollKeeps(db') /\ poll.at = "save" /\ poll' = NoPoll /\ job' = job /\ runs' = runs
         /\ overlapped' = overlapped /\ raced' = raced
         /\ Len(db'.fixtures) = Len(db.fixtures) \/
              (poll.found = None /\ Len(db'.fixtures) = Len(db.fixtures) + 1)
<1>1. PICK d : d = db'
  OBVIOUS
<1>2. /\ d = UpsertLiveFixture /\ poll.at = "save" /\ poll' = NoPoll /\ job' = job /\ runs' = runs
      /\ overlapped' = overlapped /\ raced' = raced
  BY <1>1 DEF PollSave, history
<1>3. /\ PollKeeps(d)
      /\ Len(d.fixtures) = Len(db.fixtures) \/
           (poll.found = None /\ Len(d.fixtures) = Len(db.fixtures) + 1)
  BY <1>2, PollEffect DEF DatabaseInv
<1>. QED BY <1>1, <1>2, <1>3

LEMMA PollLiveEffect ==
  ASSUME DatabaseInv, NEW kick \in LiveKicks, PollLive(kick)
  PROVE  /\ db' = db /\ job' = job /\ overlapped' = overlapped /\ poll.at = "idle"
         /\ poll' \in PollRecord /\ poll'.at = "save" /\ poll'.kick = kick
         /\ poll'.found = FindFixture("live", LiveId, kick)
         /\ raced' = (raced \/ (poll'.found = None /\ OthersInsert("poll")))
<1>1. kick \in Nat /\ Len(db.fixtures) \in Nat
  BY ContentFields, DatabaseFields DEF DatabaseInv
<1>2. PICK found : found = FindFixture("live", LiveId, kick)
  OBVIOUS
<1>3. found \in 0..Len(db.fixtures) /\ (found # None => found \in 1..Len(db.fixtures))
  BY <1>1, <1>2, FindEffect DEF DatabaseInv
<1>4. found # None => db.fixtures[found] \in Fixture
  BY <1>3, DatabaseFields DEF DatabaseInv
<1>5. Snapshot(found) \in Fixture \cup {NoFixture} /\ found \in Nat
  BY <1>1, <1>3, <1>4 DEF Snapshot
<1>6. /\ poll' = [at |-> "save", kick |-> kick, found |-> found, snap |-> Snapshot(found)]
      /\ raced' = (raced \/ (found = None /\ OthersInsert("poll")))
  BY <1>2 DEF PollLive
<1>7. poll' \in PollRecord /\ poll'.at = "save" /\ poll'.kick = kick /\ poll'.found = found
  BY <1>1, <1>5, <1>6 DEF PollRecord
<1>. QED BY <1>2, <1>6, <1>7 DEF PollLive

\* What was decided stays decidable while the tables grow.
LEMMA DatabaseKept ==
  ASSUME DatabaseInv, Consistent(db'), Len(db'.fixtures) >= Len(db.fixtures),
         poll' \in PollRecord,
         poll'.at = "save" => poll'.kick \in LiveKicks /\ poll'.found \in 0..Len(db.fixtures),
         \A k \in Job : job'[k].at = "save" =>
           /\ job'[k].content \in Contents /\ job'[k].found \in 0..Len(db.fixtures)
           /\ job'[k].byRef \in BOOLEAN /\ (job'[k].found # None => job'[k].snap \in Fixture)
  PROVE  DatabaseInv'
<1>1. PICK m \in Nat : m = Len(db.fixtures)
  BY DatabaseFields DEF DatabaseInv
<1>2. PICK n \in Nat : n = Len(db'.fixtures)
  BY DatabaseFields
<1>3. 0..m \subseteq 0..n
  BY <1>1, <1>2
<1>. QED BY <1>1, <1>2, <1>3 DEF DatabaseInv, Decided

LEMMA DatabaseStep ==
  ASSUME RunLogInv, DatabaseInv, [IngestionNext]_ingestionVars
  PROVE  DatabaseInv'
<1>1. /\ Consistent(db) /\ poll \in PollRecord /\ Len(db.fixtures) \in Nat
      /\ poll.at = "save" => poll.kick \in LiveKicks /\ poll.found \in 0..Len(db.fixtures)
      /\ \A k \in Job : job[k].at = "save" =>
           /\ job[k].content \in Contents /\ job[k].found \in 0..Len(db.fixtures)
           /\ job[k].byRef \in BOOLEAN /\ (job[k].found # None => job[k].snap \in Fixture)
  BY DatabaseFields DEF DatabaseInv, Decided
<1>2. CASE QuietStep
  <2>1. poll' \in PollRecord /\ (poll'.at = "save" => poll' = poll)
    BY <1>1, <1>2, IdleFields DEF QuietStep
  <2>. QED BY <1>1, <1>2, <2>1, DatabaseKept DEF QuietStep
<1>3. ASSUME NEW j \in Job, Looks(j) PROVE DatabaseInv'
  <2>1. PICK s : s = job'[j]
    OBVIOUS
  <2>2. PICK c \in Contents : c = job[j].content
    BY <1>3 DEF Looks
  <2>3. PICK found : found = FindFixture("file", Day(c.kick), c.kick)
    OBVIOUS
  <2>4. /\ s.content = c /\ s.found = found /\ s.snap = Snapshot(found) /\ s.byRef \in BOOLEAN
    BY <1>3, <2>1, <2>2, <2>3 DEF Looks, Looked
  <2>5. found \in 0..Len(db.fixtures) /\ (found # None => found \in 1..Len(db.fixtures))
    BY <1>1, <2>2, <2>3, ContentFields, FindEffect
  <2>6. found # None => s.snap \in Fixture
    BY <1>1, <2>4, <2>5, DatabaseFields DEF Snapshot
  <2>7. \A k \in Job : k # j => job'[k] = job[k]
    BY <1>3 DEF Looks
  <2>8. ASSUME NEW k \in Job, job'[k].at = "save"
        PROVE  /\ job'[k].content \in Contents /\ job'[k].found \in 0..Len(db.fixtures)
               /\ job'[k].byRef \in BOOLEAN /\ (job'[k].found # None => job'[k].snap \in Fixture)
    <3>1. CASE k = j
      BY <2>1, <2>4, <2>5, <2>6, <3>1
    <3>2. CASE k # j
      BY <1>1, <2>7, <2>8, <3>2
    <3>. QED BY <3>1, <3>2
  <2>9. db' = db /\ poll' = poll
    BY <1>3 DEF Looks
  <2>. QED BY <1>1, <2>8, <2>9, DatabaseKept
<1>4. ASSUME NEW j \in Job, Saves(j) PROVE DatabaseInv'
  <2>1. SavedFound(job[j], db') \/ SavedLost(job[j], db') \/ SavedNew(job[j], db')
    BY <1>4, SavesEffect
  <2>2. Decided(job[j])
    BY <1>4 DEF DatabaseInv, Saves
  <2>3. PICK d : d = db'
    OBVIOUS
  <2>4. PICK s : s = job[j]
    OBVIOUS
  <2>5. Consistent(d) /\ Len(d.fixtures) >= Len(db.fixtures)
    BY <1>1, <2>1, <2>2, <2>3, <2>4, SavedGrows
  <2>6. \A k \in Job : job'[k].at = "save" => job'[k] = job[k]
    BY <1>4 DEF Saves
  <2>7. poll' = poll
    BY <1>4 DEF Saves
  <2>. QED BY <1>1, <2>3, <2>5, <2>6, <2>7, DatabaseKept
<1>5. ASSUME NEW kick \in LiveKicks, PollLive(kick) PROVE DatabaseInv'
  <2>1. /\ db' = db /\ job' = job /\ poll' \in PollRecord /\ poll'.kick = kick
        /\ poll'.found = FindFixture("live", LiveId, kick)
    BY <1>5, PollLiveEffect
  <2>2. kick \in Nat
    BY ContentFields
  <2>3. poll'.found \in 0..Len(db.fixtures)
    BY <1>1, <2>1, <2>2, FindEffect
  <2>. QED BY <1>1, <2>1, <2>3, DatabaseKept
<1>6. CASE PollSave
  <2>1. PollKeeps(db') /\ poll' = NoPoll /\ job' = job
    BY <1>6, PollSaveEffect
  <2>2. Consistent(db') /\ Len(db'.fixtures) >= Len(db.fixtures)
    BY <2>1 DEF PollKeeps
  <2>3. poll' \in PollRecord /\ poll'.at = "idle"
    BY <2>1, IdleFields
  <2>. QED BY <1>1, <2>1, <2>2, <2>3, DatabaseKept
<1>. QED BY <1>2, <1>3, <1>4, <1>5, <1>6, StepCases

LEMMA OnlyOne ==
  ASSUME RunLogInv, ~overlapped, NEW j \in Job, NEW k \in Job, Running(j), Running(k)
  PROVE  j = k
<1>1. job[j].run = Len(runs) /\ job[k].run = Len(runs)
  BY DEF RunLogInv
<1>. QED BY <1>1 DEF RunLogInv

LEMMA CurrentStep ==
  ASSUME RunLogInv, DatabaseInv, CurrentInv, [IngestionNext]_ingestionVars
  PROVE  CurrentInv'
<1> SUFFICES ASSUME ~overlapped', NEW k \in Job, job'[k].at = "save"
             PROVE  Current(db', job'[k])
  BY DEF CurrentInv
<1>1. Consistent(db)
  BY DEF DatabaseInv
<1>2. CASE QuietStep
  BY <1>2 DEF QuietStep, CurrentInv
<1>3. ASSUME NEW j \in Job, Looks(j) PROVE Current(db', job'[k])
  <2>1. db' = db /\ ~overlapped
    BY <1>3 DEF Looks
  <2>2. CASE k # j
    BY <1>3, <2>1, <2>2 DEF Looks, CurrentInv
  <2>3. CASE k = j
    <3>1. PICK s : s = job'[j]
      OBVIOUS
    <3>2. PICK c \in Contents : c = job[j].content
      BY <1>3 DEF Looks
    <3>3. PICK found : found = FindFixture("file", Day(c.kick), c.kick)
      OBVIOUS
    <3>4. /\ s.content = c /\ s.found = found /\ s.snap = Snapshot(found)
          /\ s.byRef = (ByRef("file", Day(c.kick)) # {})
      BY <1>3, <3>1, <3>2, <3>3 DEF Looks, Looked
    <3>5. found # None => db.fixtures[found] = s.snap
      BY <3>4 DEF Snapshot
    <3>6. s.byRef => \E r \in db.refs :
                       r.by = "file" /\ r.ext = Day(c.kick) /\ r.fixture = found
      <4>1. c.kick \in Nat
        BY ContentFields
      <4>2. ByRef("file", Day(c.kick)) # {} =>
              \E r \in db.refs : r.by = "file" /\ r.ext = Day(c.kick) /\ r.fixture = found
        BY <1>1, <3>3, <4>1, FindEffect
      <4>. QED BY <3>4, <4>2
    <3>7. ~s.byRef => ~ \E r \in db.refs : r.by = "file" /\ r.ext = Day(c.kick)
      BY <3>4 DEF ByRef
    <3>8. Current(db, s)
      BY <3>4, <3>5, <3>6, <3>7 DEF Current
    <3>. QED BY <2>1, <2>3, <3>1, <3>8
  <2>. QED BY <2>2, <2>3
<1>4. ASSUME NEW j \in Job, Saves(j) PROVE FALSE
  <2>1. ~overlapped /\ k # j /\ job'[k] = job[k] /\ job[j].at = "save"
    BY <1>4 DEF Saves
  <2>2. Running(j) /\ Running(k)
    BY <2>1 DEF Running
  <2>. QED BY <2>1, <2>2, OnlyOne
<1>5. CASE \E kick \in LiveKicks : PollLive(kick)
  <2>1. db' = db /\ job' = job /\ overlapped' = overlapped
    BY <1>5, PollLiveEffect
  <2>. QED BY <2>1 DEF CurrentInv
<1>6. CASE PollSave
  <2>1. PICK d : d = db'
    OBVIOUS
  <2>2. PICK s : s = job[k]
    OBVIOUS
  <2>3. PollKeeps(d) /\ job'[k] = s /\ s.at = "save" /\ ~overlapped
    BY <1>6, <2>1, <2>2, PollSaveEffect
  <2>4. Current(db, s) /\ Decided(s)
    BY <2>2, <2>3 DEF CurrentInv, DatabaseInv
  <2>5. s.found # None => s.found \in 1..Len(db.fixtures)
    <3>1. Len(db.fixtures) \in Nat
      BY <1>1, DatabaseFields
    <3>. QED BY <2>4, <3>1 DEF Decided, None
  <2>6. s.found # None =>
          d.fixtures[s.found].kick = s.snap.kick /\ d.fixtures[s.found].score = s.snap.score
    BY <2>3, <2>4, <2>5 DEF PollKeeps, Current
  <2>7. s.byRef => \E r \in d.refs :
                     r.by = "file" /\ r.ext = Day(s.content.kick) /\ r.fixture = s.found
    BY <2>3, <2>4 DEF PollKeeps, Current
  <2>8. ~s.byRef => ~ \E r \in d.refs : r.by = "file" /\ r.ext = Day(s.content.kick)
    BY <2>3, <2>4 DEF PollKeeps, Current
  <2>9. Current(d, s)
    BY <2>6, <2>7, <2>8 DEF Current
  <2>. QED BY <2>1, <2>3, <2>9
<1>. QED BY <1>2, <1>3, <1>4, <1>5, <1>6, StepCases

\* A rescan that runs alone puts every quote on its side of the kickoff that it
\* leaves in the table.
LEMMA SavedOnTime ==
  ASSUME Consistent(db), NEW s, Decided(s), Current(db, s), \A q \in db.odds : OnTime(db, q),
         NEW d, SavedFound(s, d) \/ SavedLost(s, d) \/ SavedNew(s, d),
         s.found # None <=> SavedFound(s, d), NEW q \in d.odds
  PROVE  OnTime(d, q)
<1>1. /\ Len(db.fixtures) \in Nat /\ (q \in db.odds => q.fixture \in 1..Len(db.fixtures))
      /\ q \in db.odds => OnTime(db, q)
  BY DatabaseFields DEF Consistent
<1>2. CASE SavedFound(s, d)
  <2>1. PICK moved \in BOOLEAN : moved = Moves(s.content, s.snap, s.byRef)
    <3>1. Moves(s.content, s.snap, s.byRef) \in BOOLEAN
      BY DEF Moves
    <3>. QED BY <3>1
  <2>2. PICK i : i = s.found
    OBVIOUS
  <2>3. PICK stored : stored = IF moved THEN s.content.kick ELSE s.snap.kick
    OBVIOUS
  <2>4. /\ d.fixtures[i].kick = IF moved THEN s.content.kick ELSE db.fixtures[i].kick
        /\ \A k \in 1..Len(db.fixtures) : k # i => d.fixtures[k] = db.fixtures[k]
        /\ \/ q \in db.odds /\ (moved => q.fixture # i)
           \/ moved /\ q.fixture = i /\ ~q.closing /\ q.ts < s.content.kick
           \/ q.fixture = i /\ IF q.closing THEN q.ts = stored ELSE q.ts < stored
    BY <1>2, <2>1, <2>2, <2>3 DEF SavedFound
  <2>5. db.fixtures[i].kick = s.snap.kick
    BY <1>2, <2>2 DEF Current
  <2>6. d.fixtures[i].kick = stored
    BY <2>3, <2>4, <2>5
  <2>7. CASE q \in db.odds /\ (moved => q.fixture # i)
    <3>1. d.fixtures[q.fixture].kick = db.fixtures[q.fixture].kick
      BY <1>1, <2>4, <2>7
    <3>. QED BY <1>1, <2>7, <3>1 DEF OnTime
  <2>8. CASE moved /\ q.fixture = i /\ ~q.closing /\ q.ts < s.content.kick
    BY <2>3, <2>6, <2>8 DEF OnTime
  <2>9. CASE q.fixture = i /\ IF q.closing THEN q.ts = stored ELSE q.ts < stored
    BY <2>6, <2>9 DEF OnTime
  <2>. QED BY <2>4, <2>7, <2>8, <2>9
<1>3. CASE SavedLost(s, d)
  <2>1. PICK i : i = Dedup(s.content.kick)
    OBVIOUS
  <2>2. /\ d.fixtures = db.fixtures
        /\ \/ q \in db.odds
           \/ q.fixture = i /\ IF q.closing THEN q.ts = db.fixtures[i].kick
                               ELSE q.ts < db.fixtures[i].kick
    BY <1>3, <2>1 DEF SavedLost
  <2>. QED BY <1>1, <2>2 DEF OnTime
<1>4. CASE SavedNew(s, d)
  <2>1. PICK i : i = Len(db.fixtures) + 1
    OBVIOUS
  <2>2. /\ d.fixtures[i].kick = s.content.kick
        /\ \A k \in 1..Len(db.fixtures) : d.fixtures[k] = db.fixtures[k]
        /\ \/ q \in db.odds
           \/ q.fixture = i /\ IF q.closing THEN q.ts = s.content.kick ELSE q.ts < s.content.kick
    BY <1>4, <2>1 DEF SavedNew
  <2>3. CASE q \in db.odds
    BY <1>1, <2>2, <2>3 DEF OnTime
  <2>4. CASE q.fixture = i /\ IF q.closing THEN q.ts = s.content.kick ELSE q.ts < s.content.kick
    BY <2>2, <2>4 DEF OnTime
  <2>. QED BY <2>2, <2>3, <2>4
<1>. QED BY <1>2, <1>3, <1>4

LEMMA OddsStep ==
  ASSUME RunLogInv, DatabaseInv, CurrentInv, OddsInv, [IngestionNext]_ingestionVars
  PROVE  OddsInv'
<1> SUFFICES ASSUME ~overlapped', NEW q \in db'.odds PROVE OnTime(db', q)
  BY DEF OddsInv
<1>1. CASE db' = db /\ (overlapped => overlapped')
  BY <1>1 DEF OddsInv
<1>2. ASSUME NEW j \in Job, Saves(j) PROVE OnTime(db', q)
  <2>1. PICK d : d = db'
    OBVIOUS
  <2>2. PICK s : s = job[j]
    OBVIOUS
  <2>3. ~overlapped /\ s.at = "save"
    BY <1>2, <2>2 DEF Saves
  <2>4. /\ Consistent(db) /\ Decided(s) /\ Current(db, s) /\ \A p \in db.odds : OnTime(db, p)
    BY <2>2, <2>3 DEF DatabaseInv, CurrentInv, OddsInv
  <2>5. IF s.found # None THEN SavedFound(s, d) ELSE SavedLost(s, d) \/ SavedNew(s, d)
    BY <1>2, <2>1, <2>2, SavesEffect
  <2>6. s.found = None => ~SavedFound(s, d)
    BY DatabaseFields DEF SavedFound, SavedAs, None
  <2>7. OnTime(d, q)
    BY <2>1, <2>4, <2>5, <2>6, SavedOnTime
  <2>. QED BY <2>1, <2>7
<1>3. CASE PollSave
  <2>1. PICK d : d = db'
    OBVIOUS
  <2>2. PollKeeps(d) /\ ~overlapped /\ q \in d.odds
    BY <1>3, <2>1, PollSaveEffect
  <2>3. q \in db.odds /\ OnTime(db, q) /\ q.fixture \in 1..Len(db.fixtures)
    BY <2>2 DEF PollKeeps, OddsInv, DatabaseInv, Consistent
  <2>4. d.fixtures[q.fixture].kick = db.fixtures[q.fixture].kick
    BY <2>2, <2>3 DEF PollKeeps
  <2>. QED BY <2>1, <2>3, <2>4 DEF OnTime
<1>4. ASSUME NEW j \in Job, Looks(j) PROVE db' = db /\ (overlapped => overlapped')
  BY <1>4 DEF Looks
<1>5. ASSUME NEW kick \in LiveKicks, PollLive(kick) PROVE db' = db /\ (overlapped => overlapped')
  BY <1>5, PollLiveEffect
<1>6. QuietStep => db' = db /\ (overlapped => overlapped')
  BY DEF QuietStep
<1>. QED BY <1>1, <1>2, <1>3, <1>4, <1>5, <1>6, StepCases

LEMMA PollIsNoJob == \A j \in Job : j # "poll"
BY IngestionAssumption

LEMMA InsertStep ==
  ASSUME RunLogInv, DatabaseInv, InsertInv, [IngestionNext]_ingestionVars
  PROVE  InsertInv'
<1> SUFFICES ASSUME ~raced'
             PROVE  /\ \A k, l \in Job : Inserts(k)' /\ Inserts(l)' => k = l
                    /\ PollInserts' => \A k \in Job : ~Inserts(k)'
  BY DEF InsertInv
<1>1. ASSUME ~raced, PollInserts' => PollInserts, \A k \in Job : Inserts(k)' => Inserts(k)
      PROVE  /\ \A k, l \in Job : Inserts(k)' /\ Inserts(l)' => k = l
             /\ PollInserts' => \A k \in Job : ~Inserts(k)'
  BY <1>1 DEF InsertInv
<1>2. CASE QuietStep
  <2>1. ~raced /\ (PollInserts' => PollInserts) /\ \A k \in Job : Inserts(k)' => Inserts(k)
    BY <1>2, IdleFields DEF QuietStep, PollInserts, Inserts
  <2>. QED BY <1>1, <2>1
<1>3. ASSUME NEW j \in Job, Looks(j)
      PROVE  /\ \A k, l \in Job : Inserts(k)' /\ Inserts(l)' => k = l
             /\ PollInserts' => \A k \in Job : ~Inserts(k)'
  <2>1. /\ poll' = poll /\ \A k \in Job : k # j => job'[k] = job[k]
        /\ raced' = (raced \/ (job'[j].found = None /\ OthersInsert(j)))
    BY <1>3 DEF Looks, Looked
  <2>2. ~raced /\ (PollInserts' => PollInserts)
    BY <2>1 DEF PollInserts
  <2>3. \A k \in Job : k # j => (Inserts(k)' <=> Inserts(k))
    BY <2>1 DEF Inserts
  <2>4. CASE Inserts(j)'
    <3>1. ~OthersInsert(j)
      BY <2>1, <2>4 DEF Inserts
    <3>2. \A k \in Job : k # j => ~Inserts(k)
      BY <3>1 DEF OthersInsert, Inserts
    <3>3. CASE PollInserts
      <4>1. j = "poll"
        BY <3>1, <3>3 DEF OthersInsert, PollInserts
      <4>. QED BY <4>1, PollIsNoJob
    <3>. QED BY <2>2, <2>3, <3>2, <3>3
  <2>5. CASE ~Inserts(j)'
    <3>1. \A k \in Job : Inserts(k)' => Inserts(k)
      BY <2>3, <2>5
    <3>. QED BY <1>1, <2>2, <3>1
  <2>. QED BY <2>4, <2>5
<1>4. ASSUME NEW j \in Job, Saves(j)
      PROVE  ~raced /\ (PollInserts' => PollInserts) /\ \A k \in Job : Inserts(k)' => Inserts(k)
  BY <1>4 DEF Saves, PollInserts, Inserts
<1>5. ASSUME NEW kick \in LiveKicks, PollLive(kick)
      PROVE  /\ \A k, l \in Job : Inserts(k)' /\ Inserts(l)' => k = l
             /\ PollInserts' => \A k \in Job : ~Inserts(k)'
  <2>1. /\ job' = job /\ raced' = (raced \/ (poll'.found = None /\ OthersInsert("poll")))
    BY <1>5, PollLiveEffect
  <2>2. ~raced /\ \A k \in Job : Inserts(k)' => Inserts(k)
    BY <2>1 DEF Inserts
  <2>3. CASE PollInserts'
    <3>1. ~OthersInsert("poll")
      BY <2>1, <2>3 DEF PollInserts
    <3>2. \A k \in Job : ~Inserts(k)
      BY <3>1, PollIsNoJob DEF OthersInsert, Inserts
    <3>. QED BY <2>2, <3>2
  <2>4. CASE ~PollInserts'
    BY <1>1, <2>2, <2>4
  <2>. QED BY <2>3, <2>4
<1>6. CASE PollSave
  <2>1. poll' = NoPoll /\ job' = job /\ raced' = raced
    BY <1>6, PollSaveEffect
  <2>2. ~raced /\ (PollInserts' => PollInserts) /\ \A k \in Job : Inserts(k)' => Inserts(k)
    BY <2>1, IdleFields DEF PollInserts, Inserts
  <2>. QED BY <1>1, <2>2
<1>. QED BY <1>1, <1>2, <1>3, <1>4, <1>5, <1>6, StepCases

LEMMA FarStep ==
  ASSUME RunLogInv, DatabaseInv, InsertInv, FarInv, [IngestionNext]_ingestionVars
  PROVE  FarInv'
<1> DEFINE Near(d, i, s) == Distance(d.fixtures[i].kick, s.content.kick) <= DedupWindow
<1> SUFFICES ASSUME ~overlapped', ~raced', NEW k \in Job, Inserts(k)',
                    NEW i \in 1..Len(db'.fixtures)
             PROVE  ~Near(db', i, job'[k])
  BY DEF FarInv
<1>1. ASSUME ~overlapped, ~raced, job'[k] = job[k], i \in 1..Len(db.fixtures),
             db'.fixtures[i].kick = db.fixtures[i].kick
      PROVE  ~Near(db', i, job'[k])
  <2>1. Inserts(k)
    BY <1>1 DEF Inserts
  <2>2. ~Near(db, i, job[k])
    BY <1>1, <2>1 DEF FarInv
  <2>. QED BY <1>1, <2>2
<1>2. CASE QuietStep
  <2>1. db' = db /\ ~overlapped /\ ~raced /\ job'[k] = job[k]
    BY <1>2 DEF QuietStep, Inserts
  <2>. QED BY <1>1, <2>1
<1>3. ASSUME NEW j \in Job, Looks(j) PROVE ~Near(db', i, job'[k])
  <2>1. /\ db' = db /\ ~overlapped
        /\ raced' = (raced \/ (job'[j].found = None /\ OthersInsert(j)))
    BY <1>3 DEF Looks, Looked, Inserts
  <2>2. ~raced
    BY <2>1
  <2>3. CASE k # j
    BY <1>1, <1>3, <2>1, <2>2, <2>3 DEF Looks
  <2>4. CASE k = j
    <3>1. PICK c \in Contents : c = job[j].content
      BY <1>3 DEF Looks
    <3>2. job'[k].content = c /\ FindFixture("file", Day(c.kick), c.kick) = None
      BY <1>3, <2>4, <3>1 DEF Looks, Looked, Inserts
    <3>3. c.kick \in Nat /\ Consistent(db)
      BY ContentFields DEF DatabaseInv
    <3>4. \A n \in 1..Len(db.fixtures) : ~ (Distance(db.fixtures[n].kick, c.kick) <= DedupWindow)
      BY <3>2, <3>3, FindEffect
    <3>. QED BY <2>1, <3>2, <3>4
  <2>. QED BY <2>3, <2>4
<1>4. ASSUME NEW j \in Job, Saves(j) PROVE FALSE
  <2>1. ~overlapped /\ k # j /\ job'[k] = job[k] /\ job[j].at = "save"
    BY <1>4 DEF Saves, Inserts
  <2>2. Running(j) /\ Running(k)
    BY <2>1 DEF Running, Inserts
  <2>. QED BY <2>1, <2>2, OnlyOne
<1>5. ASSUME NEW kick \in LiveKicks, PollLive(kick) PROVE ~Near(db', i, job'[k])
  <2>1. db' = db /\ job' = job /\ overlapped' = overlapped /\ ~raced
    BY <1>5, PollLiveEffect
  <2>. QED BY <1>1, <2>1
<1>6. CASE PollSave
  <2>1. /\ PollKeeps(db') /\ poll.at = "save" /\ job' = job /\ ~overlapped /\ ~raced
        /\ Len(db'.fixtures) = Len(db.fixtures) \/ poll.found = None
    BY <1>6, PollSaveEffect
  <2>2. Inserts(k)
    BY <2>1 DEF Inserts
  <2>3. poll.found # None
    BY <2>1, <2>2 DEF InsertInv, PollInserts
  <2>4. i \in 1..Len(db.fixtures) /\ db'.fixtures[i].kick = db.fixtures[i].kick
    BY <2>1, <2>3 DEF PollKeeps
  <2>. QED BY <1>1, <2>1, <2>4
<1>. QED BY <1>2, <1>3, <1>4, <1>5, <1>6, StepCases

\* A look that finds nothing, when all sources list the match within the window,
\* has looked into an empty table.
LEMMA NothingListed ==
  ASSUME AllNear, Consistent(db), NEW by, NEW ext, NEW kick \in Listed, kick \in Nat,
         FindFixture(by, ext, kick) = None
  PROVE  Len(db.fixtures) = 0
<1>1. PICK n \in Nat : n = Len(db.fixtures)
  BY DatabaseFields
<1>2. SUFFICES ASSUME n # 0 PROVE FALSE
  BY <1>1
<1>3. 1 \in 1..n
  BY <1>2
<1>4. ~ (Distance(db.fixtures[1].kick, kick) <= DedupWindow)
  BY <1>1, <1>3, FindEffect
<1>5. db.fixtures[1].kick \in Listed
  BY <1>1, <1>3 DEF Consistent
<1>. QED BY <1>4, <1>5 DEF AllNear

LEMMA OneRowStep ==
  ASSUME AllNear, RunLogInv, DatabaseInv, InsertInv, OneRowInv, [IngestionNext]_ingestionVars
  PROVE  OneRowInv'
<1> DEFINE Inserter == PollInserts \/ \E j \in Job : Inserts(j)
<1> SUFFICES ASSUME ~raced'
             PROVE  Len(db'.fixtures) <= 1 /\ (Inserter' => Len(db'.fixtures) = 0)
  BY DEF OneRowInv
<1>1. Consistent(db) /\ Len(db.fixtures) \in Nat
  BY DatabaseFields DEF DatabaseInv
<1>2. ASSUME ~raced, Len(db'.fixtures) = Len(db.fixtures), Inserter' => Inserter
      PROVE  Len(db'.fixtures) <= 1 /\ (Inserter' => Len(db'.fixtures) = 0)
  <2>1. Len(db.fixtures) <= 1 /\ (Inserter => Len(db.fixtures) = 0)
    BY <1>2 DEF OneRowInv
  <2>. QED BY <1>2, <2>1
<1>3. CASE QuietStep
  <2>1. db' = db /\ ~raced
    BY <1>3 DEF QuietStep
  <2>2. PollInserts' => PollInserts
    BY <1>3, IdleFields DEF QuietStep, PollInserts
  <2>3. \A k \in Job : Inserts(k)' => Inserts(k)
    BY <1>3 DEF QuietStep, Inserts
  <2>. QED BY <1>2, <2>1, <2>2, <2>3
<1>4. ASSUME NEW j \in Job, Looks(j)
      PROVE  Len(db'.fixtures) <= 1 /\ (Inserter' => Len(db'.fixtures) = 0)
  <2>1. /\ db' = db /\ poll' = poll /\ \A k \in Job : k # j => job'[k] = job[k]
        /\ raced' = (raced \/ (job'[j].found = None /\ OthersInsert(j)))
    BY <1>4 DEF Looks, Looked
  <2>2. ~raced /\ (PollInserts' => PollInserts)
    BY <2>1 DEF PollInserts
  <2>3. CASE Inserts(j)'
    <3>1. PICK c \in Contents : c = job[j].content
      BY <1>4 DEF Looks
    <3>2. FindFixture("file", Day(c.kick), c.kick) = None
      BY <1>4, <2>3, <3>1 DEF Looks, Looked, Inserts
    <3>3. c.kick \in Nat /\ c.kick \in Listed
      BY ContentFields DEF Listed
    <3>4. Len(db.fixtures) = 0
      BY <1>1, <3>2, <3>3, NothingListed
    <3>. QED BY <2>1, <3>4
  <2>4. CASE ~Inserts(j)'
    <3>1. \A k \in Job : Inserts(k)' => Inserts(k)
      BY <2>1, <2>4 DEF Inserts
    <3>. QED BY <1>2, <2>1, <2>2, <3>1
  <2>. QED BY <2>3, <2>4
<1>5. ASSUME NEW j \in Job, Saves(j)
      PROVE  Len(db'.fixtures) <= 1 /\ (Inserter' => Len(db'.fixtures) = 0)
  <2>1. PICK s : s = job[j]
    OBVIOUS
  <2>2. PICK d : d = db'
    OBVIOUS
  <2>3. IF s.found # None THEN SavedFound(s, d) ELSE SavedLost(s, d) \/ SavedNew(s, d)
    BY <1>5, <2>1, <2>2, SavesEffect
  <2>4. ~raced /\ poll' = poll
    BY <1>5 DEF Saves
  <2>5. /\ PollInserts' => PollInserts
        /\ \A k \in Job : Inserts(k)' => Inserts(k) /\ k # j
    BY <1>5 DEF Saves, Inserts, PollInserts
  <2>6. CASE SavedFound(s, d) \/ SavedLost(s, d)
    <3>1. Len(d.fixtures) = Len(db.fixtures)
      BY <2>6 DEF SavedFound, SavedLost
    <3>. QED BY <1>2, <2>2, <2>4, <2>5, <3>1
  <2>7. CASE s.found = None /\ SavedNew(s, d)
    <3>1. Inserts(j)
      BY <1>5, <2>1, <2>7 DEF Inserts, Saves
    <3>2. ~Inserter'
      BY <2>4, <2>5, <3>1 DEF InsertInv
    <3>3. Len(db.fixtures) = 0
      BY <2>4, <3>1 DEF OneRowInv
    <3>4. Len(d.fixtures) = Len(db.fixtures) + 1
      BY <2>7 DEF SavedNew
    <3>. QED BY <2>2, <3>2, <3>3, <3>4
  <2>. QED BY <2>3, <2>6, <2>7
<1>6. ASSUME NEW kick \in LiveKicks, PollLive(kick)
      PROVE  Len(db'.fixtures) <= 1 /\ (Inserter' => Len(db'.fixtures) = 0)
  <2>1. /\ db' = db /\ job' = job /\ ~raced /\ poll'.found = FindFixture("live", LiveId, kick)
    BY <1>6, PollLiveEffect
  <2>2. \A k \in Job : Inserts(k)' => Inserts(k)
    BY <2>1 DEF Inserts
  <2>3. CASE PollInserts'
    <3>1. FindFixture("live", LiveId, kick) = None
      BY <2>1, <2>3 DEF PollInserts
    <3>2. kick \in Nat /\ kick \in Listed
      BY ContentFields DEF Listed
    <3>3. Len(db.fixtures) = 0
      BY <1>1, <3>1, <3>2, NothingListed
    <3>. QED BY <2>1, <3>3
  <2>4. CASE ~PollInserts'
    BY <1>2, <2>1, <2>2, <2>4
  <2>. QED BY <2>3, <2>4
<1>7. CASE PollSave
  <2>1. /\ poll.at = "save" /\ poll' = NoPoll /\ job' = job /\ ~raced
        /\ Len(db'.fixtures) = Len(db.fixtures) \/
             (poll.found = None /\ Len(db'.fixtures) = Len(db.fixtures) + 1)
    BY <1>7, PollSaveEffect
  <2>2. ~PollInserts' /\ \A k \in Job : Inserts(k)' => Inserts(k)
    BY <2>1, IdleFields DEF PollInserts, Inserts
  <2>3. CASE Len(db'.fixtures) = Len(db.fixtures)
    BY <1>2, <2>1, <2>2, <2>3
  <2>4. CASE poll.found = None /\ Len(db'.fixtures) = Len(db.fixtures) + 1
    <3>1. PollInserts
      BY <2>1, <2>4 DEF PollInserts
    <3>2. Len(db.fixtures) = 0 /\ \A k \in Job : ~Inserts(k)
      BY <2>1, <3>1 DEF OneRowInv, InsertInv
    <3>. QED BY <2>2, <2>4, <3>2
  <2>. QED BY <2>1, <2>3, <2>4
<1>. QED BY <1>3, <1>4, <1>5, <1>6, <1>7, StepCases

\* The poll takes nothing back that the file has said.
LEMMA ReflectedKept ==
  ASSUME Consistent(db), NEW d, PollKeeps(d), NEW c, Reflected(db, c)
  PROVE  Reflected(d, c)
<1>1. PICK r \in db.refs :
        /\ r.by = "file" /\ r.ext = Day(c.kick)
        /\ db.fixtures[r.fixture].score = c.score \/ r.fixture \in db.conflicts
  BY DEF Reflected
<1>2. r \in d.refs /\ r.fixture \in 1..Len(db.fixtures) /\ d.conflicts = db.conflicts
  BY DEF PollKeeps, Consistent
<1>3. d.fixtures[r.fixture].score = db.fixtures[r.fixture].score
  BY <1>2 DEF PollKeeps
<1>. QED BY <1>1, <1>2, <1>3 DEF Reflected

\* A rescan that runs alone and races with no poll leaves in the tables what its
\* version of the file says.
LEMMA SavedReflected ==
  ASSUME Consistent(db), NEW s, Decided(s), Current(db, s), NEW d,
         \/ s.found # None /\ SavedFound(s, d)
         \/ s.found = None /\ SavedNew(s, d)
  PROVE  Reflected(d, s.content)
<1>1. PICK c \in Contents : c = s.content
  BY DEF Decided
<1>2. PICK ext : ext = Day(c.kick)
  OBVIOUS
<1>3. ByRef("file", ext) = {} <=> ~ \E r \in db.refs : r.by = "file" /\ r.ext = ext
  BY DEF ByRef
<1>4. ASSUME NEW i, SavedAs(s, d, i), s.byRef => i = s.found
      PROVE  \E r \in d.refs : r.by = "file" /\ r.ext = ext /\ r.fixture = i
  <2>1. CASE s.byRef
    <3>1. PICK r \in db.refs : r.by = "file" /\ r.ext = ext /\ r.fixture = s.found
      BY <1>1, <1>2, <2>1 DEF Current
    <3>2. r \in d.refs
      BY <1>4 DEF SavedAs
    <3>. QED BY <1>4, <2>1, <3>1, <3>2
  <2>2. CASE ~s.byRef
    <3>1. ~ \E r \in db.refs : r.by = "file" /\ r.ext = ext
      BY <1>1, <1>2, <2>2 DEF Current
    <3>2. PICK r : r = [by |-> "file", ext |-> ext, fixture |-> i]
      OBVIOUS
    <3>3. r \in d.refs
      BY <1>1, <1>2, <1>3, <1>4, <3>1, <3>2 DEF SavedAs
    <3>4. r.by = "file" /\ r.ext = ext /\ r.fixture = i
      BY <3>2
    <3>. QED BY <3>3, <3>4
  <2>. QED BY <2>1, <2>2
<1>5. ASSUME NEW i, \E r \in d.refs : r.by = "file" /\ r.ext = ext /\ r.fixture = i,
             d.fixtures[i].score = c.score \/ i \in d.conflicts
      PROVE  Reflected(d, s.content)
  BY <1>1, <1>2, <1>5 DEF Reflected
<1>6. CASE s.found # None /\ SavedFound(s, d)
  <2>1. PICK i : i = s.found
    OBVIOUS
  <2>2. /\ SavedAs(s, d, i)
        /\ d.fixtures[i].score = IF Corrects(c, s.snap) THEN c.score ELSE db.fixtures[i].score
        /\ d.conflicts = IF Disputes(c, s.snap) THEN db.conflicts \cup {i} ELSE db.conflicts
    BY <1>1, <1>6, <2>1 DEF SavedFound
  <2>3. db.fixtures[i].score = s.snap.score
    BY <1>6, <2>1 DEF Current
  <2>4. ~Corrects(c, s.snap) /\ ~Disputes(c, s.snap) => c.score = s.snap.score
    BY DEF Disputes
  <2>5. d.fixtures[i].score = c.score \/ i \in d.conflicts
    <3>. HIDE DEF Corrects, Disputes
    <3>. QED BY <2>2, <2>3, <2>4
  <2>. QED BY <1>4, <1>5, <2>1, <2>2, <2>5
<1>7. CASE s.found = None /\ SavedNew(s, d)
  <2>1. PICK i : i = Len(db.fixtures) + 1
    OBVIOUS
  <2>2. SavedAs(s, d, i) /\ d.fixtures[i].score = c.score
    BY <1>1, <1>7, <2>1 DEF SavedNew
  <2>3. ~s.byRef
    <3>1. SUFFICES ASSUME s.byRef PROVE FALSE
      OBVIOUS
    <3>2. PICK r \in db.refs : r.fixture = s.found
      BY <3>1 DEF Current
    <3>3. r.fixture \in 1..Len(db.fixtures)
      BY DEF Consistent
    <3>. QED BY <1>7, <3>2, <3>3, DatabaseFields DEF None
  <2>. QED BY <1>4, <1>5, <2>2, <2>3
<1>. QED BY <1>6, <1>7

\* The run that _last_success_sha takes the hash from.
LEMMA LastSha ==
  ASSUME RunLogInv, NEW j \in Job, Running(j), NEW c \in Contents,
         LastSuccessSha(job[j].run) = c
  PROVE  \E i \in 1..Len(runs) : LastSuccess(runs, i) /\ runs[i].content = c
<1>1. PICK n \in Nat : n = Len(runs)
  BY LenProperties DEF RunLogInv
<1>2. PICK self \in 1..n : self = job[j].run /\ runs[self].status # "success"
  BY <1>1 DEF RunLogInv, GoesOn
<1>3. PICK ended : ended = {i \in DOMAIN runs : i # self /\ runs[i].status = "success"}
  OBVIOUS
<1>4. DOMAIN runs = 1..n
  BY <1>1, LenProperties DEF RunLogInv
<1>5. /\ ended \subseteq Nat /\ \A i \in ended : i <= n
      /\ \A i \in 1..n : i \in ended <=> runs[i].status = "success"
  BY <1>2, <1>3, <1>4
<1>6. LastSuccessSha(self) =
        IF ended = {} THEN NoContent
        ELSE runs[CHOOSE i \in ended : \A k \in ended : k <= i].content
  BY <1>3 DEF LastSuccessSha
<1>7. ended # {}
  BY <1>2, <1>6, ContentFields
<1>8. \E i \in ended : \A k \in ended : k <= i
  BY <1>1, <1>5, <1>7, GreatestNumber
<1>9. PICK i \in ended : (\A k \in ended : k <= i) /\ runs[i].content = c
  BY <1>2, <1>6, <1>7, <1>8
<1>10. i \in 1..n /\ LastSuccess(runs, i)
  BY <1>1, <1>3, <1>4, <1>5, <1>9 DEF LastSuccess
<1>. QED BY <1>1, <1>9, <1>10

\* A run that ends alone becomes the last successful one.
LEMMA EndsLast ==
  ASSUME RunLogInv, ~overlapped, NEW j \in Job, Running(j), job[j].at # "download", Success(j),
         NEW i \in 1..Len(runs'), LastSuccess(runs', i)
  PROVE  runs'[i].content = job[j].content
<1>1. PICK n \in Nat : n = Len(runs)
  BY LenProperties DEF RunLogInv
<1>2. job[j].run = n
  BY <1>1 DEF RunLogInv
<1>3. /\ Len(runs') = n /\ n \in 1..n
      /\ runs'[n].status = "success" /\ runs'[n].content = job[j].content
  BY <1>1, <1>2, EndEffect
<1>4. n <= i /\ i \in 1..n
  BY <1>3 DEF LastSuccess
<1>5. i = n
  BY <1>4
<1>. QED BY <1>3, <1>5

\* As long as the successes and their contents stay, the last one does.
LEMMA SameLast ==
  ASSUME NEW rows, NEW old, Len(old) \in Nat, Len(rows) \in Nat, Len(rows) >= Len(old),
         \A i \in 1..Len(old) : /\ rows[i].status = "success" <=> old[i].status = "success"
                                /\ rows[i].status = "success" => rows[i].content = old[i].content,
         \A i \in 1..Len(rows) : i \notin 1..Len(old) => rows[i].status # "success",
         NEW i \in 1..Len(rows), LastSuccess(rows, i)
  PROVE  i \in 1..Len(old) /\ LastSuccess(old, i) /\ rows[i].content = old[i].content
<1>1. i \in 1..Len(old)
  BY DEF LastSuccess
<1>2. \A k \in 1..Len(old) : k \in 1..Len(rows)
  OBVIOUS
<1>. QED BY <1>1, <1>2 DEF LastSuccess

LEMMA ReflectStep ==
  ASSUME RunLogInv, DatabaseInv, CurrentInv, FarInv, ReflectInv, RunLogInv',
         [IngestionNext]_ingestionVars
  PROVE  ReflectInv'
<1> DEFINE SkipOK == \A k \in Job : job'[k].at = "skip" => Reflected(db', job'[k].content)
           LastOK == \A i \in 1..Len(runs') :
                     LastSuccess(runs', i) => Reflected(db', runs'[i].content)
<1> SUFFICES ASSUME ~overlapped', ~raced' PROVE SkipOK /\ LastOK
  BY DEF ReflectInv
<1>1. Consistent(db) /\ Len(runs) \in Nat /\ Len(runs') \in Nat
  BY LenProperties DEF DatabaseInv, RunLogInv
<1>2. ASSUME db' = db, ~overlapped, ~raced,
             \A k \in Job : job'[k].at = "skip" => job'[k] = job[k]
      PROVE  SkipOK
  BY <1>2 DEF ReflectInv
<1>3. ASSUME db' = db, ~overlapped, ~raced, Len(runs') >= Len(runs),
             \A i \in 1..Len(runs) :
               /\ runs'[i].status = "success" <=> runs[i].status = "success"
               /\ runs'[i].status = "success" => runs'[i].content = runs[i].content,
             \A i \in 1..Len(runs') : i \notin 1..Len(runs) => runs'[i].status # "success"
      PROVE  LastOK
  <2> SUFFICES ASSUME NEW i \in 1..Len(runs'), LastSuccess(runs', i)
               PROVE  Reflected(db', runs'[i].content)
    OBVIOUS
  <2>1. PICK rows : rows = runs'
    OBVIOUS
  <2>2. i \in 1..Len(runs) /\ LastSuccess(runs, i) /\ rows[i].content = runs[i].content
    BY <1>1, <1>3, <2>1, SameLast
  <2>. QED BY <1>3, <2>1, <2>2 DEF ReflectInv
<1>4. ASSUME db' = db, overlapped' = overlapped, raced' = raced, runs' = runs,
             \A k \in Job : job'[k].at = "skip" => job'[k] = job[k]
      PROVE  SkipOK /\ LastOK
  <2>1. \A i \in 1..Len(runs') : i \notin 1..Len(runs) => runs'[i].status # "success"
    BY <1>4
  <2>2. LastOK
    BY <1>4 DEF ReflectInv
  <2>. QED BY <1>2, <1>4, <2>2
<1>5. ASSUME NEW j \in Job, NEW force \in BOOLEAN, Rescan(j, force) PROVE SkipOK /\ LastOK
  <2>1. /\ job'[j].at = "download" /\ \A k \in Job : k # j => job'[k] = job[k]
        /\ Len(runs') = Len(runs) + 1 /\ runs'[Len(runs) + 1].status = "running"
        /\ \A i \in 1..Len(runs) :
             /\ runs'[i].status = "success" <=> runs[i].status = "success"
             /\ runs'[i].content = runs[i].content
    BY <1>5, RunLogRescan
  <2>2. db' = db /\ ~overlapped /\ ~raced
    BY <1>5 DEF Rescan
  <2>3. SkipOK
    BY <1>2, <2>1, <2>2
  <2>4. ASSUME NEW i \in 1..Len(runs'), i \notin 1..Len(runs) PROVE runs'[i].status # "success"
    <3>1. i = Len(runs) + 1
      BY <1>1, <2>1, <2>4
    <3>. QED BY <2>1, <3>1
  <2>5. Len(runs') >= Len(runs)
    BY <1>1, <2>1
  <2>6. LastOK
    BY <1>3, <2>1, <2>2, <2>4, <2>5
  <2>. QED BY <2>3, <2>6
<1>6. ASSUME NEW j \in Job, NEW content \in Contents, Download(j, content) PROVE SkipOK /\ LastOK
  <2>1. job[j] \in JobRecord /\ UNCHANGED <<db, runs, overlapped, raced>>
    BY <1>6 DEF Download, RunLogInv, history
  <2>2. PICK s : s = [job[j] EXCEPT !.at = "look", !.content = content]
    OBVIOUS
  <2>3. s \in JobRecord /\ s.at = "look" /\ PutJob(j, s)
    <3>1. s \in JobRecord /\ s.at = "look"
      BY <2>1, <2>2, DownloadRecord
    <3>2. PutJob(j, s)
      BY <1>6, <2>2 DEF Download
    <3>. QED BY <3>1, <3>2
  <2>4. \A k \in Job : job'[k].at = "skip" => job'[k] = job[k]
    BY <2>3, JobUpdate
  <2>. QED BY <1>4, <2>1, <2>4
<1>7. ASSUME NEW j \in Job, Look(j) PROVE SkipOK /\ LastOK
  <2>0. LookGoes(j)
    BY <1>7, LookEffect, Zenon
  <2>1. PICK s \in JobRecord : PutJob(j, s) /\ Looked(j, s)
    BY <2>0, Zenon DEF LookGoes
  <2>2. /\ Running(j) /\ job[j].content \in Contents /\ UNCHANGED <<db, runs, overlapped>>
    BY <1>7, LookEffect DEF Look
  <2>3. job'[j] = s /\ \A k \in Job : k # j => job'[k] = job[k]
    BY <2>1, JobUpdate
  <2>4. ~overlapped /\ ~raced
    <3>1. raced => raced'
      BY <2>1 DEF Looked
    <3>. QED BY <2>2, <3>1
  <2>5. LastOK
    BY <2>2, <2>4 DEF ReflectInv
  <2>6. ASSUME NEW k \in Job, job'[k].at = "skip" PROVE Reflected(db', job'[k].content)
    <3>1. CASE k # j
      BY <2>2, <2>3, <2>4, <2>6, <3>1 DEF ReflectInv
    <3>2. CASE k = j
      <4>1. PICK c \in Contents : c = job[j].content
        BY <2>2
      <4>2. LastSuccessSha(job[j].run) = c /\ s.content = c
        BY <2>1, <2>3, <2>6, <3>2, <4>1 DEF Looked
      <4>3. PICK i \in 1..Len(runs) : LastSuccess(runs, i) /\ runs[i].content = c
        BY <2>2, <4>2, LastSha
      <4>4. Reflected(db, c)
        BY <2>4, <4>3 DEF ReflectInv
      <4>. QED BY <2>2, <2>3, <3>2, <4>2, <4>4
    <3>. QED BY <3>1, <3>2
  <2>. QED BY <2>5, <2>6
<1>8. ASSUME NEW j \in Job, Running(j), PutJob(j, Idle), ~overlapped
      PROVE  \A k \in Job : job'[k].at # "skip"
  <2>1. job'[j].at = "idle" /\ \A k \in Job : k # j => job'[k] = job[k]
    BY <1>8, IdleFields, JobUpdate
  <2>2. ASSUME NEW k \in Job, job'[k].at = "skip" PROVE FALSE
    <3>1. k # j /\ Running(k)
      BY <2>1, <2>2 DEF Running
    <3>. QED BY <1>8, <3>1, OnlyOne
  <2>. QED BY <2>2
<1>9. ASSUME NEW j \in Job, Skip(j) PROVE SkipOK /\ LastOK
  <2>1. /\ job[j].at = "skip" /\ Running(j) /\ Success(j) /\ PutJob(j, Idle)
        /\ db' = db /\ ~overlapped /\ ~raced
    BY <1>9 DEF Skip, Running, history
  <2>2. Reflected(db, job[j].content)
    BY <2>1 DEF ReflectInv
  <2>3. LastOK
    BY <2>1, <2>2, EndsLast
  <2>. QED BY <1>8, <2>1, <2>3
<1>10. ASSUME NEW j \in Job, Save(j) PROVE SkipOK /\ LastOK
  <2>1. /\ job[j].at = "save" /\ Running(j) /\ Success(j) /\ PutJob(j, Idle)
        /\ ~overlapped /\ ~raced
    BY <1>10 DEF Save, Running
  <2>2. PICK s : s = job[j]
    OBVIOUS
  <2>3. PICK d : d = db'
    OBVIOUS
  <2>4. d = IngestRecords(s)
    BY <1>10, <2>2, <2>3 DEF Save
  <2>5. Decided(s) /\ Current(db, s)
    BY <2>1, <2>2 DEF DatabaseInv, CurrentInv
  <2>6. IF s.found # None THEN SavedFound(s, d) ELSE SavedLost(s, d) \/ SavedNew(s, d)
    BY <1>1, <2>4, <2>5, SaveEffect
  <2>7. ASSUME s.found = None PROVE ~SavedLost(s, d)
    <3>1. SUFFICES ASSUME SavedLost(s, d) PROVE FALSE
      OBVIOUS
    <3>2. PICK c \in Contents : c = s.content
      BY <2>5 DEF Decided
    <3>3. PICK i \in SameIdentity(c.kick) : TRUE
      BY <3>1, <3>2 DEF SavedLost
    <3>4. c.kick \in Nat
      BY ContentFields
    <3>5. i \in 1..Len(db.fixtures) /\ db.fixtures[i].kick = c.kick
      BY <1>1, <3>3, <3>4, SameIsNear DEF SameIdentity
    <3>6. Distance(db.fixtures[i].kick, c.kick) <= DedupWindow
      <4>1. Distance(db.fixtures[i].kick, c.kick) = 0
        BY <3>4, <3>5, DistanceFields
      <4>. QED BY <4>1, IngestionAssumption
    <3>7. ~ (Distance(db.fixtures[i].kick, c.kick) <= DedupWindow)
      BY <2>1, <2>2, <2>7, <3>2, <3>5 DEF FarInv, Inserts
    <3>. QED BY <3>6, <3>7
  <2>8. Reflected(d, s.content)
    BY <1>1, <2>5, <2>6, <2>7, SavedReflected
  <2>9. LastOK
    BY <2>1, <2>2, <2>3, <2>8, EndsLast
  <2>. QED BY <1>8, <2>1, <2>9
<1>11. ASSUME NEW j \in Job, Fail(j) PROVE SkipOK /\ LastOK
  <2>1. /\ Running(j) /\ PutJob(j, Idle) /\ db' = db /\ ~overlapped /\ ~raced
        /\ runs' = [runs EXCEPT ![job[j].run].status = "failed"]
    BY <1>11 DEF Fail, Running, history
  <2>2. PICK i : i = job[j].run
    OBVIOUS
  <2>3. /\ Len(runs') = Len(runs) /\ i \in 1..Len(runs) /\ runs'[i].status = "failed"
        /\ \A k \in 1..Len(runs) : k # i => runs'[k] = runs[k]
        /\ runs[i].status # "success"
    <3>1. /\ Len(runs') = Len(runs) /\ i \in 1..Len(runs)
          /\ \A k \in 1..Len(runs) : k # i => runs'[k] = runs[k]
      <4>1. \/ Success(j) /\ job[j].at # "download"
            \/ runs' = [runs EXCEPT ![job[j].run].status = "failed"]
        BY <2>1
      <4>. QED BY <2>1, <2>2, <4>1, EndEffect
    <3>2. runs[i].status # "success" /\ runs \in Seq(RunRow)
      BY <2>1, <2>2 DEF RunLogInv, GoesOn
    <3>3. runs[i] \in RunRow /\ i \in DOMAIN runs
      BY <3>1, <3>2, ElementOfSeq, LenProperties
    <3>4. runs'[i].status = "failed"
      BY <2>1, <2>2, <3>3 DEF RunRow
    <3>. QED BY <3>1, <3>2, <3>4
  <2>4. \A k \in 1..Len(runs) :
          /\ runs'[k].status = "success" <=> runs[k].status = "success"
          /\ runs'[k].status = "success" => runs'[k].content = runs[k].content
    BY <2>3
  <2>5. LastOK
    BY <1>1, <1>3, <2>1, <2>3, <2>4
  <2>. QED BY <1>8, <2>1, <2>5
<1>12. ASSUME NEW j \in Job, Die(j) PROVE SkipOK /\ LastOK
  <2>1. Running(j) /\ PutJob(j, Idle) /\ UNCHANGED <<db, runs, overlapped, raced>>
    BY <1>12 DEF Die, Running, history
  <2>2. \A k \in Job : job'[k].at # "skip"
    BY <1>8, <2>1
  <2>. QED BY <1>4, <2>1, <2>2
<1>13. ASSUME NEW kick \in LiveKicks, PollLive(kick) PROVE SkipOK /\ LastOK
  <2>1. db' = db /\ job' = job /\ overlapped' = overlapped /\ ~raced /\ runs' = runs
    BY <1>13, PollLiveEffect DEF PollLive
  <2>. QED BY <2>1 DEF ReflectInv
<1>14. CASE PollSave
  <2>1. PICK d : d = db'
    OBVIOUS
  <2>2. PollKeeps(d) /\ job' = job /\ runs' = runs /\ ~overlapped /\ ~raced
    BY <1>14, <2>1, PollSaveEffect
  <2>3. \A k \in Job : job[k].at = "skip" => Reflected(d, job[k].content)
    BY <1>1, <2>2, ReflectedKept DEF ReflectInv
  <2>4. \A i \in 1..Len(runs) : LastSuccess(runs, i) => Reflected(d, runs[i].content)
    BY <1>1, <2>2, ReflectedKept DEF ReflectInv
  <2>. QED BY <2>1, <2>2, <2>3, <2>4
<1>15. CASE PollDrop \/ Tick \/ UNCHANGED ingestionVars
  <2>1. UNCHANGED <<db, runs, job, overlapped, raced>>
    BY <1>15 DEF PollDrop, Tick, ingestionVars, history
  <2>. QED BY <1>4, <2>1
<1>. HIDE DEF SkipOK, LastOK
<1>. QED BY <1>5, <1>6, <1>7, <1>9, <1>10, <1>11, <1>12, <1>13, <1>14, <1>15 DEF IngestionNext

\* What holds of the run log and the tables.
IngestionInv ==
  /\ RunLogInv /\ DatabaseInv /\ CurrentInv /\ OddsInv /\ InsertInv /\ FarInv /\ ReflectInv

LEMMA IngestionInitial == IngestionInit => IngestionInv /\ OneRowInv
<1> SUFFICES ASSUME IngestionInit PROVE IngestionInv /\ OneRowInv
  OBVIOUS
<1>1. /\ db = [fixtures |-> <<>>, refs |-> {}, odds |-> {}, conflicts |-> {}] /\ runs = <<>>
      /\ poll = NoPoll /\ \A j \in Job : job[j] = Idle
  BY DEF IngestionInit
<1>2. /\ db.fixtures = <<>> /\ db.refs = {} /\ db.odds = {} /\ db.conflicts = {}
  BY <1>1
<1>3. /\ <<>> \in Seq(Fixture) /\ Len(db.fixtures) = 0 /\ Len(runs) = 0
  BY <1>1, <1>2, EmptySeq
<1>4. db \in Database
  BY <1>1, <1>3 DEF Database
<1>5. Consistent(db)
  BY <1>2, <1>3, <1>4 DEF Consistent
<1>6. RunLogInv
  BY RunLogInitial
<1>7. \A j \in Job : job[j].at = "idle"
  BY <1>1, IdleFields
<1>8. DatabaseInv
  BY <1>1, <1>5, <1>7, IdleFields DEF DatabaseInv
<1>9. CurrentInv /\ OddsInv /\ InsertInv /\ FarInv /\ OneRowInv
  BY <1>1, <1>2, <1>3, <1>7, IdleFields
     DEF CurrentInv, OddsInv, InsertInv, FarInv, OneRowInv, Inserts, PollInserts
<1>10. ReflectInv
  BY <1>3, <1>7 DEF ReflectInv
<1>. QED BY <1>6, <1>8, <1>9, <1>10 DEF IngestionInv

\* The run log and the tables at every moment, for any rescans, versions of the
\* file, live kickoffs, window and timeouts.
THEOREM IngestionHolds == IngestionSpec => []IngestionInv
<1>1. IngestionInit => IngestionInv
  BY IngestionInitial
<1>2. IngestionInv /\ [IngestionNext]_ingestionVars => IngestionInv'
  <2> SUFFICES ASSUME IngestionInv, [IngestionNext]_ingestionVars PROVE IngestionInv'
    OBVIOUS
  <2>1. /\ RunLogInv /\ DatabaseInv /\ CurrentInv /\ OddsInv /\ InsertInv /\ FarInv /\ ReflectInv
    BY DEF IngestionInv
  <2>2. RunLogInv' /\ DatabaseInv'
    BY <2>1, StepCases, DatabaseStep
  <2>3. CurrentInv' /\ OddsInv'
    BY <2>1, CurrentStep, OddsStep
  <2>4. InsertInv' /\ FarInv'
    BY <2>1, InsertStep, FarStep
  <2>5. ReflectInv'
    BY <2>1, <2>2, ReflectStep
  <2>. QED BY <2>2, <2>3, <2>4, <2>5 DEF IngestionInv
<1>. QED BY <1>1, <1>2, PTL DEF IngestionSpec

\* No price of the running match is stored as one from before it, and a closing
\* quote is at the kickoff, also after the kickoff has moved (_insert_odds).
THEOREM OddsAreOnTime == IngestionSpec => []OddsTimeline
<1>1. IngestionInv => OddsTimeline
  <2> SUFFICES ASSUME IngestionInv PROVE OddsTimeline
    OBVIOUS
  <2>1. OddsInv /\ Consistent(db)
    BY DEF IngestionInv, DatabaseInv
  <2>2. overlapped \/ \A q \in db.odds :
          IF q.closing THEN q.ts = db.fixtures[q.fixture].kick
          ELSE q.ts < db.fixtures[q.fixture].kick
    BY <2>1 DEF OddsInv, OnTime
  <2>3. \A q \in db.odds : q.fixture \in 1..Len(db.fixtures)
    BY <2>1 DEF Consistent
  <2>4. \A i \in 1..Len(db.fixtures) : db.fixtures[i].kick \in Nat
    BY <2>1, DatabaseFields
  <2>5. \A q \in db.odds : q.ts = db.fixtures[q.fixture].kick => q.ts <= db.fixtures[q.fixture].kick
    BY <2>3, <2>4
  <2>. QED BY <2>2, <2>5 DEF OddsTimeline, QuotesBeforeKickoff, OneClosingInstant
<1>. QED BY <1>1, IngestionHolds, PTL

\* What a run skips as unchanged is in the tables, and a run that is called dead
\* has ended (_last_success_sha, mark_stale_runs).
THEOREM TheRunLogIsTrue == IngestionSpec => []RunLogIsTrue
<1>1. IngestionInv => RunLogIsTrue
  <2> SUFFICES ASSUME IngestionInv PROVE RunLogIsTrue
    OBVIOUS
  <2>1. SkippedIsReflected
    BY DEF IngestionInv, ReflectInv, Reflected, SkippedIsReflected
  <2>2. StaleRunsAreDead
    BY DEF IngestionInv, RunLogInv, Running, StaleRunsAreDead
  <2>. QED BY <2>1, <2>2 DEF RunLogIsTrue
<1>. QED BY <1>1, IngestionHolds, PTL

\* Sources that list the match within the window share one fixture, unless both
\* looked for it before either inserted it (find_fixture).  The condition is
\* about the versions of the file and the live kickoffs only.
THEOREM OneRowAMatch ==
  ASSUME AllNear PROVE IngestionSpec => []OneRowPerMatch
<1>1. IngestionInit => IngestionInv /\ OneRowInv
  BY IngestionInitial
<1>2. IngestionInv /\ OneRowInv /\ [IngestionNext]_ingestionVars => OneRowInv'
  BY OneRowStep DEF IngestionInv
<1>3. OneRowInv => OneRowPerMatch
  BY DEF OneRowInv, OneRowPerMatch
<1>. QED BY <1>1, <1>2, <1>3, IngestionHolds, PTL DEF IngestionSpec
=============================================================================
