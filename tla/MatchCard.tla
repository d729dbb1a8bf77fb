------------------------------- MODULE MatchCard -------------------------------
(***************************************************************************)
(* The public match card and the match list: answers put together from     *)
(* several queries, each with a snapshot of its own, while trainings       *)
(* commit, an administrator edits the registry and matches go on.          *)
(*                                                                         *)
(* The card is of one match.  A prediction stands for its three outcomes,  *)
(* which a training writes together; a training stands for its MLflow run. *)
(* Its version is the second it began in.  The caller's daily views are    *)
(* module Entitlements; flags, accuracies and the agreement are left out.  *)
(***************************************************************************)
EXTENDS Integers, FiniteSets, Sequences, Functions

CONSTANTS
  Training,     \* runs of the training job
  Bars,         \* the methods that have a bar of their own
  Alone,        \* the consensus and the market, which stand on their own
  Coverings,    \* sets of methods a training may train, or predict the match with
  Second,       \* ticks of a second
  MaxTicks,     \* bound
  MaxEdits,     \* edits of the registry (bound)
  Listable,     \* the matches of the list, numbered by id
  Kickoffs,     \* when each of them starts: the candidates
  PageSize

ASSUME CardAssumption ==
  /\ Bars \cap Alone = {} /\ Second \in Nat \ {0} /\ MaxTicks \in Nat /\ "none" \notin Training
  /\ Coverings \subseteq SUBSET (Bars \cup Alone)
  /\ Listable \subseteq Nat /\ IsFiniteSet(Listable)
  /\ Kickoffs \subseteq [Listable -> Nat] /\ PageSize \in Nat \ {0}

VARIABLES
  tick,        \* the database's clock
  training,    \* each run: where it is, when it began and registered, what it covers
  predicted,   \* predictions of the match
  registered,  \* model_registry by method and version
  edits,       \* bound: edits so far
  card,        \* one request for the card: what its queries have read
  calendar,    \* the matches of the list: kickoff, status, predicted or not
  reading,     \* a client that reads the list page by page: what it has seen
  moved        \* history: the list changed since the client began

cardVars == <<tick, training, predicted, registered, edits, card>>
listVars == <<calendar, reading, moved>>
matchVars == <<cardVars, listVars>>

Shown == Bars \cup Alone
Versions == 0..(MaxTicks \div Second)
NoVersion == MaxTicks + 1
NoModelRun == "none"
NoPrediction == [method |-> "none", version |-> NoVersion, run |-> NoModelRun, created |-> 0]
NoRegistered == [run |-> NoModelRun, trained |-> 0, visible |-> FALSE, champion |-> FALSE]
NoTraining == [at |-> "idle", began |-> 0, registered |-> 0, trains |-> {}, predicts |-> {}]
NoCard == [at |-> "idle", latest |-> <<>>, runs |-> <<>>, visible |-> {}]
NoReading == [at |-> "total", total |-> 0, seen |-> <<>>]

MatchInit ==
  /\ tick = 0 /\ edits = 0
  /\ training = [t \in Training |-> NoTraining]
  /\ predicted = {}
  /\ registered = [k \in Shown \X Versions |-> NoRegistered]
  /\ card = NoCard
  /\ \E kick \in Kickoffs, known \in SUBSET Listable :
       calendar = [m \in Listable |-> [kick |-> kick[m], status |-> "scheduled",
                                       predicted |-> m \in known]]
  /\ reading = NoReading /\ moved = FALSE

-----------------------------------------------------------------------------
(* Trainings: one transaction each (train_all_task, _train).                *)

Tick ==
  /\ tick < MaxTicks
  /\ tick' = tick + 1
  /\ UNCHANGED <<training, predicted, registered, edits, card, listVars>>

VersionOf(t) == training[t].began \div Second

\* run_training: the version label; created_at will be this transaction's start.
BeginTraining(t) ==
  /\ training[t].at = "idle"
  /\ \E trains \in Coverings : \E predicts \in Coverings :
       /\ predicts \subseteq trains
       /\ training' = [training EXCEPT ![t] =
            [at |-> "fits", began |-> tick, registered |-> 0, trains |-> trains,
             predicts |-> predicts]]
  /\ UNCHANGED <<tick, predicted, registered, edits, card, listVars>>

\* The first row of a version that another run has written and not committed
\* waits for that run.
WriteRuns(t) ==
  /\ training[t].at = "fits"
  /\ \A u \in Training \ {t} : training[u].at = "writes" => VersionOf(u) # VersionOf(t)
  /\ training' = [training EXCEPT ![t].at = "writes", ![t].registered = tick]
  /\ UNCHANGED <<tick, predicted, registered, edits, card, listVars>>

\* _write_predictions leaves an existing row alone; upsert_run renews it.
NewPredictions(t) ==
  {[method |-> m, version |-> VersionOf(t), run |-> t, created |-> training[t].began] :
     m \in {x \in training[t].predicts :
              \A p \in predicted : p.method = x => p.version # VersionOf(t)}}
Upserted(t) ==
  [k \in Shown \X Versions |->
     IF k[2] # VersionOf(t) \/ k[1] \notin training[t].trains THEN registered[k]
     ELSE IF registered[k] = NoRegistered
     THEN [run |-> t, trained |-> training[t].registered, visible |-> TRUE, champion |-> FALSE]
     ELSE [registered[k] EXCEPT !.run = t, !.trained = training[t].registered]]

CommitRuns(t) ==
  /\ training[t].at = "writes"
  /\ predicted' = predicted \cup NewPredictions(t)
  /\ registered' = Upserted(t)
  /\ training' = [training EXCEPT ![t].at = "done"]
  /\ UNCHANGED <<tick, edits, card, listVars>>

\* An administrator hides or shows a row, or an evaluation or administrator
\* moves the title (module ModelRegistry).
EditRegistry(k) ==
  /\ edits < MaxEdits /\ registered[k] # NoRegistered
  /\ registered' \in {[registered EXCEPT ![k].visible = ~@],
                      [j \in DOMAIN registered |->
                         [registered[j] EXCEPT !.champion = (j = k)]]}
  /\ edits' = edits + 1
  /\ UNCHANGED <<tick, training, predicted, card, listVars>>

-----------------------------------------------------------------------------
(* The card (get_match): one action per query.                              *)

\* _latest_1x2: the version of the newest row.
NewestOf(m) ==
  LET of == {p \in predicted : p.method = m}
  IN IF of = {} THEN NoPrediction
     ELSE CHOOSE p \in of : \A q \in of : q.created <= p.created

\* latest_row_per_method and current_registry_rows: the champion's row, or the
\* version that was trained last.
RowsOf(m) == {k \in {m} \X Versions : registered[k] # NoRegistered}
LastTrained(m) ==
  CHOOSE k \in RowsOf(m) : \A j \in RowsOf(m) :
    \/ registered[j].trained < registered[k].trained
    \/ registered[j].trained = registered[k].trained /\ j[2] <= k[2]
Current(m) ==
  IF \E k \in RowsOf(m) : registered[k].champion
  THEN CHOOSE k \in RowsOf(m) : registered[k].champion ELSE LastTrained(m)
WithRows == {m \in Shown : RowsOf(m) # {}}

ReadLatest ==
  /\ card.at = "idle"
  /\ card' = [card EXCEPT !.at = "runs", !.latest = [m \in Shown |-> NewestOf(m)]]
  /\ UNCHANGED <<tick, training, predicted, registered, edits, listVars>>

\* _run_ids and _trace: the run of the version the predictions are of.
RunOfCurrent(m) == IF m \in WithRows THEN registered[Current(m)].run ELSE NoModelRun
RunOf(m) ==
  IF card.latest[m] = NoPrediction THEN NoModelRun
  ELSE registered[<<m, card.latest[m].version>>].run

ReadRuns ==
  /\ card.at = "runs"
  /\ card' = [card EXCEPT !.at = "visible", !.runs = [m \in Shown |-> RunOf(m)]]
  /\ UNCHANGED <<tick, training, predicted, registered, edits, listVars>>

\* _visible_methods: by the current row of each method.
ReadVisible ==
  /\ card.at = "visible"
  /\ card' = [card EXCEPT !.at = "shown",
                          !.visible = {m \in WithRows : registered[Current(m)].visible}]
  /\ UNCHANGED <<tick, training, predicted, registered, edits, listVars>>

\* What the answer names: the bars, and the two that are shown on their own.
ShownBars == {m \in Bars : m \in card.visible /\ card.latest[m] # NoPrediction}
ShownAlone == {m \in Alone : card.latest[m] # NoPrediction}

CardNext ==
  \/ Tick
  \/ \E t \in Training : BeginTraining(t) \/ WriteRuns(t) \/ CommitRuns(t)
  \/ \E k \in DOMAIN registered : EditRegistry(k)
  \/ ReadLatest \/ ReadRuns \/ ReadVisible
  \/ card.at = "shown" /\ UNCHANGED matchVars

-----------------------------------------------------------------------------
(* The list (list_matches).                                                 *)

\* The conditions: predicted, scheduled or live, in the window.
Listed == {m \in Listable : calendar[m].predicted /\ calendar[m].status # "finished"}
Earlier(m, n) ==
  calendar[m].kick < calendar[n].kick \/ (calendar[m].kick = calendar[n].kick /\ m <= n)
\* The rows in their order, and those of one page.
Nth(i) == CHOOSE m \in Listed : Cardinality({n \in Listed : Earlier(n, m)}) = i
PageOf(offset) ==
  [i \in {j \in 1..PageSize : offset + j <= Cardinality(Listed)} |-> Nth(offset + i)]

\* The total, and then the page: two queries of one request.
ReadTotal ==
  /\ reading.at = "total"
  /\ reading' = [reading EXCEPT !.at = "page", !.total = Cardinality(Listed)]
  /\ UNCHANGED <<calendar, moved, cardVars>>

\* The client asks on until it has seen as many as the answer counted.
ReadPage ==
  /\ reading.at = "page"
  /\ LET page == PageOf(Len(reading.seen)) IN
     reading' = [reading EXCEPT !.seen = @ \o page,
                   !.at = IF page = <<>> \/ Len(reading.seen) + Len(page) >= reading.total
                          THEN "read" ELSE "total"]
  /\ UNCHANGED <<calendar, moved, cardVars>>

ReadAgain ==
  /\ reading.at = "read"
  /\ reading' = NoReading /\ moved' = FALSE
  /\ UNCHANGED <<calendar, cardVars>>

\* Ingestion moves a match, the live poll moves it on, a training predicts it.
MatchMoves(m) ==
  /\ \/ /\ calendar[m].status = "scheduled"
        /\ \E kick \in {calendar[n].kick : n \in Listable} \ {calendar[m].kick} :
             calendar' = [calendar EXCEPT ![m].kick = kick]
     \/ /\ calendar[m].status \in {"scheduled", "live"}
        /\ calendar' = [calendar EXCEPT ![m].status = IF @ = "live" THEN "finished" ELSE "live"]
     \/ ~calendar[m].predicted /\ calendar' = [calendar EXCEPT ![m].predicted = TRUE]
  /\ moved' = TRUE
  /\ UNCHANGED <<reading, cardVars>>

ListNext == ReadTotal \/ ReadPage \/ ReadAgain \/ \E m \in Listable : MatchMoves(m)

MatchSpec == MatchInit /\ [][CardNext \/ ListNext]_matchVars

-----------------------------------------------------------------------------
(* Properties.                                                              *)

Collided(version) ==
  \E t, u \in Training : t # u /\ training[t].at = "done" /\ training[u].at = "done"
                         /\ VersionOf(t) = version /\ VersionOf(u) = version

\* Every probability the card shows is named with the run that produced it,
\* whatever was trained, registered or promoted between its queries; only two
\* trainings of one second can be mixed up (_trace).
RunProducedIt ==
  card.at = "shown" =>
    \A m \in ShownBars \cup ShownAlone :
      card.runs[m] = card.latest[m].run \/ Collided(card.latest[m].version)

\* A client that reads page after page sees every listed match once, in order
\* of kickoff, if the list stood still meanwhile (list_matches).
PagesCoverList ==
  reading.at = "read" /\ ~moved =>
    LET seen == reading.seen IN
    /\ Range(seen) = Listed /\ Len(seen) = Cardinality(Listed) /\ reading.total = Len(seen)
    /\ \A i, j \in DOMAIN seen : i < j => calendar[seen[i]].kick <= calendar[seen[j]].kick

\* What the two answers show belongs together.
MatchPagesAgree == RunProducedIt /\ PagesCoverList

\* The claim of MethodPrediction: the run is that of the model that produced
\* the probabilities.
RunAlwaysProducedIt ==
  card.at = "shown" => \A m \in ShownBars : card.runs[m] = card.latest[m].run

\* The claim of get_match: only visible methods are on the card.
OnlyVisibleIsShown ==
  card.at = "shown" => ShownBars \cup ShownAlone \subseteq card.visible
=============================================================================
