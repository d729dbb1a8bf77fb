------------------------------ MODULE Ingestion ------------------------------
(***************************************************************************)
(* How one match gets into the database from two sources: the rescans of a *)
(* historical file, each a recorded run, and the live poll.                *)
(*                                                                         *)
(* A rescan and a poll each read the tables, decide, and commit later in   *)
(* one transaction (READ COMMITTED); what they decide on may be outdated   *)
(* by then.  The file has one row, the match; its row is named by the      *)
(* match's local date, so a match moved to another day gets a new name.    *)
(* Times are slots of twelve hours.  Teams and leagues are resolved        *)
(* (TeamIdentity); prices, half-time scores and statistics are left out.   *)
(***************************************************************************)
EXTENDS Naturals, Integers, Sequences, FiniteSets

CONSTANTS
  Job,          \* rescans that may run at the same time (bound)
  Cli,          \* those of the command line; the others are the worker's jobs
  Contents,     \* versions of the file: the kickoff, the score, whether priced
  LiveKicks,    \* kickoffs the live provider may give
  DedupWindow,  \* DEDUP_WINDOW, in slots
  StaleAfter,   \* ingestion_stale_run_minutes, in ticks
  JobTimeout,   \* job_timeout of the worker, in ticks; the command line has none
  MaxRuns, MaxClock  \* bounds

ASSUME IngestionAssumption ==
  /\ IsFiniteSet(Job) /\ "poll" \notin Job /\ Cli \subseteq Job
  /\ LiveKicks \subseteq Nat
  /\ Contents \subseteq [kick : Nat, score : Nat \ {0}, quoted : BOOLEAN]
  /\ DedupWindow \in Nat
  /\ JobTimeout \in Nat /\ StaleAfter \in Nat /\ JobTimeout <= StaleAfter

VARIABLES
  clock,
  db,         \* fixtures, fixture_external_refs, odds, ingestion_conflicts
  runs,       \* ingestion_runs, in the order they were started
  job,        \* the rescans
  poll,       \* the live poll
  applied,    \* history: the content of the last rescan that was committed
  overlapped, \* history: a rescan was started while another one ran
  raced       \* history: a source looked for the match while another inserted it

history == <<applied, overlapped, raced>>
ingestionVars == <<clock, db, runs, job, poll, history>>

None == 0  \* no fixture, no score
NoContent == [kick |-> 0, score |-> None, quoted |-> FALSE]
Fixture == [kick : Nat, source : {"file", "live"},
            status : {"live", "finished"}, score : Nat]
NoFixture == [kick |-> 0, source |-> "none", status |-> "none", score |-> None]
Statuses == {"running", "success", "failed"}

Idle == [at |-> "idle", run |-> 0, force |-> FALSE, content |-> NoContent,
         found |-> None, byRef |-> FALSE, snap |-> NoFixture]
NoPoll == [at |-> "idle", kick |-> 0, found |-> None, snap |-> NoFixture]

IngestionTypeOK ==
  /\ clock \in 0..MaxClock
  /\ \A i \in DOMAIN db.fixtures : db.fixtures[i] \in Fixture
  /\ \A r \in db.refs, s \in db.refs : r.by = s.by /\ r.ext = s.ext => r = s
  /\ \A p \in db.odds, q \in db.odds : p.fixture = q.fixture /\ p.ts = q.ts => p = q
  /\ \A i, k \in DOMAIN db.fixtures : db.fixtures[i].kick = db.fixtures[k].kick => i = k
  /\ \A i \in DOMAIN runs : runs[i].status \in Statuses
  /\ \A j \in Job : job[j].at \in {"idle", "download", "look", "skip", "save"}
  /\ applied \in Contents \cup {NoContent}

IngestionInit ==
  /\ clock = 0
  /\ db = [fixtures |-> <<>>, refs |-> {}, odds |-> {}, conflicts |-> {}]
  /\ runs = <<>>
  /\ job = [j \in Job |-> Idle]
  /\ poll = NoPoll
  /\ applied = NoContent /\ overlapped = FALSE /\ raced = FALSE

-----------------------------------------------------------------------------
(* The core: which fixture a record denotes, and what it changes there.     *)

\* external_id: the file's name for the row is made of the match's date.
Day(kick) == kick \div 2
Distance(a, b) == IF a < b THEN b - a ELSE a - b

\* find_fixture, second part: the closest kickoff within the window.
DedupByRefOnly(kick) == None
Dedup(kick) ==
  LET near == {i \in DOMAIN db.fixtures :
                 Distance(db.fixtures[i].kick, kick) <= DedupWindow}
      Before(i, k) == LET a == Distance(db.fixtures[i].kick, kick)
                          b == Distance(db.fixtures[k].kick, kick)
                      IN a < b \/ (a = b /\ i <= k)
  IN IF near = {} THEN None ELSE CHOOSE i \in near : \A k \in near : Before(i, k)

\* find_fixture: the source's own id first.
ByRef(by, ext) == {r.fixture : r \in {s \in db.refs : s.by = by /\ s.ext = ext}}
FindFixture(by, ext, kick) ==
  IF ByRef(by, ext) # {} THEN CHOOSE i \in ByRef(by, ext) : TRUE ELSE Dedup(kick)
Snapshot(found) == IF found = None THEN NoFixture ELSE db.fixtures[found]

\* link_external_ref: the first fixture a source's id names keeps it.
LinkExternalRef(d, by, ext, i) ==
  IF \E r \in d.refs : r.by = by /\ r.ext = ext THEN d
  ELSE [d EXCEPT !.refs = @ \cup {[by |-> by, ext |-> ext, fixture |-> i]}]

\* _quote_problem: the rule must hold for the source's and the stored kickoff.
Earlier(a, b) == IF a < b THEN a ELSE b
QuoteAllowed(q, kicks) ==
  \A k \in kicks : IF q.closing THEN q.ts <= k ELSE q.ts < k

\* _insert_odds: the closing quote lands at the stored kickoff, the earlier one
\* a day before the source's.
PreClosingLead == 2
Quotes(c, i, stored) ==
  IF ~c.quoted THEN {}
  ELSE {[fixture |-> i, ts |-> stored, closing |-> TRUE],
        [fixture |-> i, ts |-> c.kick - PreClosingLead, closing |-> FALSE]}
InsertOdds(d, c, i, stored) ==
  LET valid == {q \in Quotes(c, i, stored) : QuoteAllowed(q, {c.kick, stored})}
      new == {q \in valid : \A p \in d.odds : p.fixture # i \/ p.ts # q.ts}
  IN [d EXCEPT !.odds = @ \cup new]

\* _reconcile: own scores are corrected, empty ones filled, others recorded as
\* conflicts; only the own source, by its own id, moves the kickoff.
Corrects(c, snap) == c.score # snap.score /\ (snap.score = None \/ snap.source = "file")
DisputesFinished(c, snap) ==
  c.score # snap.score /\ ~Corrects(c, snap) /\ snap.status = "finished"
Disputes(c, snap) == c.score # snap.score /\ ~Corrects(c, snap)
Moves(c, snap, byRef) == snap.source = "file" /\ byRef /\ c.kick # snap.kick
MoveOddsKeepClosing(odds, i, kick) ==
  {q \in odds : q.fixture # i \/ q.ts < kick}
MoveOdds(odds, i, kick) ==
  {IF q.fixture = i THEN [q EXCEPT !.closing = FALSE] ELSE q :
     q \in {p \in odds : p.fixture # i \/ p.ts < kick}}

Corrected(row, c, snap, moved) ==
  [row EXCEPT !.kick = IF moved THEN c.kick ELSE @,
              !.score = IF Corrects(c, snap) THEN c.score ELSE @,
              !.status = IF snap.status = "live" THEN "finished" ELSE @]

Reconcile(d, c, i, snap, byRef) ==
  LET moved == Moves(c, snap, byRef) IN
  [d EXCEPT
     !.fixtures[i] = Corrected(@, c, snap, moved),
     !.odds = IF moved THEN MoveOdds(@, i, c.kick) ELSE @,
     !.conflicts = IF Disputes(c, snap) THEN @ \cup {i} ELSE @]

InsertFixture(d, row) == [d EXCEPT !.fixtures = Append(@, row)]
SameIdentity(kick) == {i \in DOMAIN db.fixtures : db.fixtures[i].kick = kick}

\* A moved kickoff that another fixture has breaks uq_fixture_identity.
Collides(s) ==
  /\ s.found # None /\ Moves(s.content, s.snap, s.byRef)
  /\ SameIdentity(s.content.kick) \ {s.found} # {}

\* ingest_records for the row of the file: what the transaction commits.
IngestRecords(s) ==
  LET c == s.content
      lost == SameIdentity(c.kick)  \* the insert lost a race
      i == IF s.found # None THEN s.found
           ELSE IF lost # {} THEN Dedup(c.kick) ELSE Len(db.fixtures) + 1
      put == IF s.found # None THEN Reconcile(db, c, i, s.snap, s.byRef)
             ELSE IF lost # {} THEN db
             ELSE InsertFixture(db, [kick |-> c.kick, source |-> "file",
                                     status |-> "finished", score |-> c.score])
      stored == IF s.found = None THEN put.fixtures[i].kick
                ELSE IF Moves(c, s.snap, s.byRef) THEN c.kick ELSE s.snap.kick
  IN InsertOdds(LinkExternalRef(put, "file", Day(c.kick), i), c, i, stored)

-----------------------------------------------------------------------------
(* A recorded run (run_recorded_ingestion, one pair of league and season).  *)

PutJob(j, s) == job' = [job EXCEPT ![j] = s]

\* mark_stale_runs: rows that have run longer than any job of the worker may.
Stale(row) == row.started + StaleAfter < clock
MarkStaleRuns(rows) ==
  [i \in DOMAIN rows |->
     IF rows[i].status = "running" /\ Stale(rows[i])
     THEN [rows[i] EXCEPT !.status = "failed"] ELSE rows[i]]

\* rescan, or the command line (the only one to force); the row is committed as
\* running before the work begins.
Rescan(j, force) ==
  /\ job[j].at = "idle" /\ Len(runs) < MaxRuns
  /\ force => j \in Cli
  /\ runs' = Append(MarkStaleRuns(runs),
                    [status |-> "running", content |-> NoContent, started |-> clock])
  /\ PutJob(j, [Idle EXCEPT !.at = "download", !.run = Len(runs) + 1, !.force = force])
  /\ overlapped' = (overlapped \/ \E k \in Job : job[k].at # "idle")
  /\ UNCHANGED <<clock, db, poll, applied, raced>>

\* The file as the source publishes it at this moment.
Download(j, content) ==
  /\ job[j].at = "download"
  /\ PutJob(j, [job[j] EXCEPT !.at = "look", !.content = content])
  /\ UNCHANGED <<clock, db, runs, poll, history>>

\* _last_success_sha: of the run that was started last.
LastSuccessSha(self) ==
  LET ended == {i \in DOMAIN runs : i # self /\ runs[i].status = "success"}
  IN IF ended = {} THEN NoContent
     ELSE runs[CHOOSE i \in ended : \A k \in ended : k <= i].content

\* Both sources have looked for the match and found nothing.
OthersInsert(self) ==
  \/ poll.at = "save" /\ poll.found = None /\ self # "poll"
  \/ \E k \in Job : k # self /\ job[k].at = "save" /\ job[k].found = None

\* _ingest_pair, up to what it will write.
Look(j) ==
  /\ job[j].at = "look"
  /\ LET c == job[j].content
         found == FindFixture("file", Day(c.kick), c.kick) IN
     IF ~job[j].force /\ LastSuccessSha(job[j].run) = c
     THEN PutJob(j, [job[j] EXCEPT !.at = "skip"]) /\ UNCHANGED raced
     ELSE /\ PutJob(j, [job[j] EXCEPT !.at = "save", !.found = found,
                                      !.byRef = ByRef("file", Day(c.kick)) # {},
                                      !.snap = Snapshot(found)])
          /\ raced' = (raced \/ (found = None /\ OthersInsert(j)))
  /\ UNCHANGED <<clock, db, runs, poll, applied, overlapped>>

Success(j) ==
  runs' = [runs EXCEPT ![job[j].run].status = "success",
                       ![job[j].run].content = job[j].content]
Skip(j) ==
  /\ job[j].at = "skip"
  /\ Success(j)
  /\ PutJob(j, Idle)
  /\ UNCHANGED <<clock, db, poll, history>>
Save(j) ==
  /\ job[j].at = "save" /\ ~Collides(job[j])
  /\ db' = IngestRecords(job[j])
  /\ Success(j)
  /\ PutJob(j, Idle)
  /\ applied' = job[j].content
  /\ UNCHANGED <<clock, poll, overlapped, raced>>

\* Any exception rolls the pair back and is recorded on its row; the payload's
\* hash was only in the transaction that is rolled back.
Fail(j) ==
  /\ job[j].at # "idle"
  /\ runs' = [runs EXCEPT ![job[j].run].status = "failed"]
  /\ PutJob(j, Idle)
  /\ UNCHANGED <<clock, db, poll, history>>

\* The worker dies or cancels the job: the row stays running.
Die(j) ==
  /\ job[j].at # "idle"
  /\ PutJob(j, Idle)
  /\ UNCHANGED <<clock, db, runs, poll, history>>

-----------------------------------------------------------------------------
(* The live poll (one provider fixture, always under the same id).          *)

LiveId == 0

\* poll_live: the fetch and the look-up.
PollLive(kick) ==
  /\ poll.at = "idle"
  /\ LET found == FindFixture("live", LiveId, kick) IN
     /\ poll' = [at |-> "save", kick |-> kick, found |-> found, snap |-> Snapshot(found)]
     /\ raced' = (raced \/ (found = None /\ OthersInsert("poll")))
  /\ UNCHANGED <<clock, db, runs, job, applied, overlapped>>

\* _upsert_live_fixture and the commit; the ORM writes the status only if the
\* row it read was not live.
UpsertLiveFixture ==
  LET lost == SameIdentity(poll.kick)
      Live(i) == [db EXCEPT !.fixtures[i].status = "live"]
      put == IF poll.found # None
             THEN IF poll.snap.status = "live" THEN db ELSE Live(poll.found)
             ELSE IF lost # {} THEN Live(CHOOSE i \in lost : TRUE)
             ELSE InsertFixture(db, [kick |-> poll.kick, source |-> "live",
                                     status |-> "live", score |-> None])
      i == IF poll.found # None THEN poll.found
           ELSE IF lost # {} THEN CHOOSE k \in lost : TRUE ELSE Len(put.fixtures)
  IN LinkExternalRef(put, "live", LiveId, i)
PollSave ==
  /\ poll.at = "save"
  /\ db' = UpsertLiveFixture
  /\ poll' = NoPoll
  /\ UNCHANGED <<clock, runs, job, history>>

PollDrop ==
  /\ poll.at = "save"
  /\ poll' = NoPoll
  /\ UNCHANGED <<clock, db, runs, job, history>>

-----------------------------------------------------------------------------
\* No job of the worker outlives its timeout; asyncio.run has none.
Tick ==
  /\ clock < MaxClock
  /\ \A j \in Job \ Cli :
       job[j].at # "idle" => clock < runs[job[j].run].started + JobTimeout
  /\ clock' = clock + 1
  /\ UNCHANGED <<db, runs, job, poll, history>>

IngestionNext ==
  \/ \E j \in Job :
       \/ \E force \in BOOLEAN : Rescan(j, force)
       \/ \E content \in Contents : Download(j, content)
       \/ Look(j) \/ Skip(j) \/ Save(j) \/ Fail(j) \/ Die(j)
  \/ \E kick \in LiveKicks : PollLive(kick)
  \/ PollSave \/ PollDrop \/ Tick

IngestionSpec == IngestionInit /\ [][IngestionNext]_ingestionVars

-----------------------------------------------------------------------------
(* Properties.                                                              *)

\* No price of the running match is stored as one from before it: a closing
\* quote is no later, any other one earlier than the stored kickoff, also after
\* the kickoff was moved (_quote_problem, _reconcile).  Two rescans at once may
\* break it: one inserts on the kickoff the other is moving.
QuotesBeforeKickoff ==
  overlapped \/ \A q \in db.odds :
    LET kick == db.fixtures[q.fixture].kick IN
    IF q.closing THEN q.ts <= kick ELSE q.ts < kick

\* A fixture keeps one closing instant, its kickoff, whatever sources and moves
\* it has seen (_insert_odds).
OneClosingInstant ==
  overlapped \/ \A q \in db.odds : q.closing => q.ts = db.fixtures[q.fixture].kick

\* The stored prices are on the right side of the stored kickoff.
OddsTimeline == QuotesBeforeKickoff /\ OneClosingInstant

\* Sources that list the match at different times share one fixture, unless
\* both looked for it before either inserted it (find_fixture).
OneRowPerMatch == raced \/ Len(db.fixtures) <= 1

\* What a run skips as unchanged is in the tables: the fixture has the score of
\* the file, or the disagreement with the stored one is on record
\* (_last_success_sha, _reconcile).
SkippedIsReflected ==
  \A j \in Job : job[j].at = "skip" /\ ~overlapped /\ ~raced =>
    \E r \in db.refs :
      /\ r.by = "file" /\ r.ext = Day(job[j].content.kick)
      /\ db.fixtures[r.fixture].score = job[j].content.score \/ r.fixture \in db.conflicts

\* A run of the worker is marked stale only after it has ended; one of the
\* command line may be while it goes on, but no earlier than the threshold, and
\* neither is called done before it is (mark_stale_runs).
GoesOn(j, row) ==
  row.status = "running" \/ (j \in Cli /\ row.status = "failed" /\ Stale(row))
StaleRunsAreDead == \A j \in Job : job[j].at # "idle" => GoesOn(j, runs[job[j].run])

\* The run log tells the truth: what it calls done is in the tables, and what it
\* calls dead has ended, or goes on from the command line beyond the threshold.
RunLogIsTrue == SkippedIsReflected /\ StaleRunsAreDead

\* The claim of _insert_odds: a closing quote lands at the stored kickoff, so a
\* match whose file gives one has a closing quote.
ClosingLands ==
  \A r \in db.refs :
    r.by = "file" /\ r.ext = Day(applied.kick) /\ applied.quoted /\ ~overlapped /\ ~raced =>
      \E q \in db.odds : q.fixture = r.fixture /\ q.closing

\* The claim of mark_stale_runs: a row that it marks is one whose worker died.
OnlyDeadRunsAreStale ==
  \A j \in Job : job[j].at # "idle" => runs[job[j].run].status = "running"
=============================================================================
