---------------------------- MODULE LiveUpdates ----------------------------
(***************************************************************************)
(* From a live poll to a viewer's event stream, for one fixture: recompute *)
(* jobs that run concurrently, are run again after a crash and end for     *)
(* good on an exception or the job timeout, the append-only live_updates   *)
(* log, the Redis channel, and one viewer that connects, replays the log   *)
(* and tails the channel.                                                  *)
(*                                                                         *)
(* A match state (minute and score) is a number that grows.  The replay    *)
(* window and its row limit are left out: everything happens within them.  *)
(* The push that a swing enqueues is the business of PushDispatch.         *)
(***************************************************************************)
EXTENDS Naturals, Sequences, FiniteSets, SequencesExt

CONSTANTS
  Task,      \* recompute jobs (bound)
  MaxMatch,  \* match states (bound)
  MaxTries,  \* max_tries of recompute_fixture_task
  MaxOpens   \* times the viewer connects (bound)

ASSUME BoundAssumption ==
  /\ IsFiniteSet(Task)
  /\ MaxMatch \in Nat \ {0} /\ MaxTries \in Nat \ {0} /\ MaxOpens \in Nat

VARIABLES
  match,      \* the state the provider reports; 0 before the kick-off
  task,       \* the recompute jobs
  log,        \* live_updates, in commit order
  nextId,     \* its BIGSERIAL
  published,  \* ids published on the channel
  viewer      \* the stream's client

vars == <<match, task, log, nextId, published, viewer>>

Match == 1..MaxMatch
Id == 1..(Cardinality(Task) * MaxTries)
Event == [id : Id, match : Match, by : Task]
NoMatch == 0

TypeOK ==
  /\ match \in 0..MaxMatch
  /\ task \in [Task -> [at : {"new", "queued", "decided", "flushed", "committed",
                              "published", "done", "failed"},
                        match : 0..MaxMatch, id : Id \cup {0}, tries : 0..MaxTries]]
  /\ log \in Seq(Event)
  /\ nextId \in 1..(Cardinality(Task) * MaxTries + 1)
  /\ published \subseteq Id
  /\ viewer \in [at : {"off", "replay", "subscribe", "tail"}, resume : Id \cup {0},
                 last : Id \cup {0}, got : SUBSET Id, opens : 0..MaxOpens]

Committed == {log[i].id : i \in DOMAIN log}

Init ==
  /\ match = NoMatch
  /\ task = [t \in Task |-> [at |-> "new", match |-> NoMatch, id |-> 0, tries |-> 0]]
  /\ log = << >> /\ nextId = 1 /\ published = {}
  /\ viewer = [at |-> "off", resume |-> 0, last |-> 0, got |-> {}, opens |-> 0]

-----------------------------------------------------------------------------
(* The worker.                                                              *)

To(t, step) == task' = [task EXCEPT ![t].at = step]

\* A poll reports the same state or a later one and enqueues a recompute.
Poll(t) ==
  /\ task[t].at = "new"
  /\ match' \in {match, match + 1} \cap Match
  /\ task' = [task EXCEPT ![t].at = "queued", ![t].match = match']
  /\ UNCHANGED <<log, nextId, published, viewer>>

\* _latest_live_update: the committed row with the highest id.
Latest ==
  IF log = << >> THEN NoMatch
  ELSE (CHOOSE e \in ToSet(log) : \A o \in ToSet(log) : o.id <= e.id).match

\* An unchanged state ends the job.
Read(t) ==
  /\ task[t].at = "queued"
  /\ task' = [task EXCEPT ![t].at = IF Latest = task[t].match THEN "done" ELSE "decided",
                          ![t].tries = @ + 1]
  /\ UNCHANGED <<match, log, nextId, published, viewer>>

\* flush takes an id from the sequence; commit makes the row visible.
Flush(t) ==
  /\ task[t].at = "decided"
  /\ task' = [task EXCEPT ![t].at = "flushed", ![t].id = nextId]
  /\ nextId' = nextId + 1
  /\ UNCHANGED <<match, log, published, viewer>>

Commit(t) ==
  /\ task[t].at = "flushed"
  /\ log' = Append(log, [id |-> task[t].id, match |-> task[t].match, by |-> t])
  /\ To(t, "committed")
  /\ UNCHANGED <<match, nextId, published, viewer>>

\* PUBLISH reaches whoever is subscribed at that moment.
Receive(id) == viewer' =
  IF viewer.at = "tail" THEN [viewer EXCEPT !.last = id, !.got = @ \cup {id}] ELSE viewer

PublishUnheard(t) ==
  /\ task[t].at = "committed"
  /\ published' = published \cup {task[t].id}
  /\ To(t, "published")
  /\ UNCHANGED <<match, log, nextId, viewer>>
Publish(t) ==
  /\ task[t].at = "committed"
  /\ published' = published \cup {task[t].id}
  /\ Receive(task[t].id)
  /\ To(t, "published")
  /\ UNCHANGED <<match, log, nextId>>

\* The push of a swing is enqueued and ARQ drops the job.
Finish(t) ==
  /\ task[t].at = "published"
  /\ To(t, "done")
  /\ UNCHANGED <<match, log, nextId, published, viewer>>

Underway(t) == task[t].at \in {"queued", "decided", "flushed", "committed", "published"}

\* A try that ends before the read counts too.
Tried(t) == task[t].tries + (IF task[t].at = "queued" THEN 1 ELSE 0)

EndsAs(t, end) ==
  /\ Underway(t)
  /\ task' = [task EXCEPT ![t].at = end, ![t].id = 0, ![t].tries = Tried(t)]
  /\ UNCHANGED <<match, log, nextId, published, viewer>>

CrashDropsJob(t) == EndsAs(t, "done")

\* The worker dies or stops under a job: ARQ runs it again, max_tries times.
Crash(t) == EndsAs(t, IF Tried(t) < MaxTries THEN "queued" ELSE "failed")

\* The job raises (the database at the read, the flush or the commit, Redis at
\* the publish or the enqueue) or meets its timeout: ARQ drops it, whatever
\* tries are left.
Raise(t) == EndsAs(t, "failed")

-----------------------------------------------------------------------------
(* The viewer.                                                              *)

\* A first connection tails; a later one sends the id of its last event.
Open ==
  /\ viewer.at = "off" /\ viewer.opens < MaxOpens
  /\ viewer' = [viewer EXCEPT !.at = IF viewer.last = 0 THEN "subscribe" ELSE "replay",
                              !.resume = viewer.last, !.opens = @ + 1]
  /\ UNCHANGED <<match, task, log, nextId, published>>

\* replay_since, one query: the committed rows newer than that id, by id.
Replay ==
  /\ viewer.at = "replay"
  /\ LET missed == {id \in Committed : id > viewer.resume}
         last == IF missed = {} THEN viewer.last
                 ELSE CHOOSE id \in missed : \A o \in missed : o <= id
     IN viewer' = [viewer EXCEPT !.at = "subscribe", !.last = last, !.got = @ \cup missed]
  /\ UNCHANGED <<match, task, log, nextId, published>>

Subscribe ==
  /\ viewer.at = "subscribe"
  /\ viewer' = [viewer EXCEPT !.at = "tail"]
  /\ UNCHANGED <<match, task, log, nextId, published>>

Disconnect ==
  /\ viewer.at # "off"
  /\ viewer' = [viewer EXCEPT !.at = "off"]
  /\ UNCHANGED <<match, task, log, nextId, published>>

\* Nothing left to do: every poll was made, every job has ended.
Over ==
  /\ \A t \in Task : task[t].at \in {"done", "failed"}
  /\ UNCHANGED vars

Work(t) == Read(t) \/ Flush(t) \/ Commit(t) \/ Publish(t) \/ Finish(t)

Next ==
  \/ \E t \in Task : Poll(t) \/ Work(t) \/ Crash(t) \/ Raise(t)
  \/ Open \/ Replay \/ Subscribe \/ Disconnect
  \/ Over

Spec == Init /\ [][Next]_vars

\* The worker runs the jobs it has.
FairSpec == Spec /\ \A t \in Task : WF_vars(Work(t))

-----------------------------------------------------------------------------
(* Properties.                                                              *)

\* A viewer is shown only rows that are in the log, although a job may crash
\* between the id and the commit: what it saw, a replay can confirm.
OnlyCommittedIsShown == viewer.got \subseteq Committed

Logged(m) == \E i \in DOMAIN log : log[i].match = m

\* A state a poll saw is missing from the log only while a job of it is to run
\* or when every job of it failed: a job that returns leaves it logged, by
\* itself, by an earlier try or by another job.
EveryStateIsLogged == \A t \in Task : task[t].at = "done" => Logged(task[t].match)

\* A rerun adds nothing to an unchanged state: a job that wrote its state twice
\* did so because another state had been committed after the first row.
RerunsAddNothing ==
  \A i, j \in DOMAIN log :
    log[i].by = log[j].by /\ i < j
      => \E k \in DOMAIN log : /\ log[k].match # log[i].match
                              /\ log[i].id < log[k].id /\ log[k].id < log[j].id

\* The log is the record: nothing is shown beside it, no state that a job
\* handled without failing is missing, and a rerun does not repeat a row.
LogIsTheRecord == OnlyCommittedIsShown /\ EveryStateIsLogged /\ RerunsAddNothing

\* A viewer that tails when a row waits to be published receives it, unless it
\* disconnects first or the job that wrote the row crashes or fails: then no
\* job holds the row any more, and the channel never carries it.
TailingViewerReceives ==
  \A id \in Id :
    (viewer.at = "tail" /\ id \in Committed \ published)
      ~> (id \in viewer.got \/ viewer.at = "off" \/ \A t \in Task : task[t].id # id)

\* The claim of events.py: on reconnect the rows newer than Last-Event-ID are
\* replayed, and then the channel is tailed, so none is missed.
ReconnectMissesNothing ==
  viewer.at = "tail" /\ viewer.resume # 0 =>
    \A id \in published : id > viewer.resume => id \in viewer.got
=============================================================================
