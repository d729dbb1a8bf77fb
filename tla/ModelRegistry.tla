--------------------------- MODULE ModelRegistry ---------------------------
(***************************************************************************)
(* Governance of the model registry: the nightly champion re-evaluation,   *)
(* the admin actions, training runs, and the advisory lock that some of    *)
(* them take.                                                              *)
(*                                                                         *)
(* A writer is a READ COMMITTED transaction: it reads the rows once under  *)
(* the lock (view) and its commit writes only the columns it changed, so a *)
(* row inserted meanwhile survives.  The Redis lock in front of the nightly  *)
(* task is left out: it expires, so the model lets any worker start at any *)
(* time.  Retraining a version changes nothing modelled here.              *)
(***************************************************************************)
EXTENDS ChampionRule, FiniteSets

CONSTANTS
  Worker, Admin, \* nightly runs and admin requests
  MaxSnapshots,  \* earlier states an admin may choose from (bound)
  NoProc

ASSUME SnapshotAssumption == MaxSnapshots \in Nat \ {0}
ASSUME ProcAssumption == NoProc \notin Worker \cup Admin /\ Worker \cap Admin = {}

VARIABLES
  row,        \* model_registry by (method, version); NoRow before training
  mode,       \* model_weighting.mode
  snapshots,  \* model_registry_snapshots: any MaxSnapshots of those taken
  lock,       \* holder of the registry advisory lock
  pc,         \* where each transaction is
  view,       \* the rows a transaction has read
  seenMode    \* the weighting mode a nightly run has read

vars == <<row, mode, snapshots, lock, pc, view, seenMode>>

Proc == Worker \cup Admin

TypeOK ==
  /\ row \in Rows
  /\ mode \in Mode
  /\ snapshots \subseteq Rows
  /\ lock \in Proc \cup {NoProc}
  /\ pc \in [Proc -> {"idle", "wait", "ready"}]
  /\ view \in [Proc -> Rows]
  /\ seenMode \in [Proc -> Mode]

Init ==
  /\ row = NoView
  /\ mode = "auto"
  /\ snapshots = {}
  /\ lock = NoProc
  /\ pc = [p \in Proc |-> "idle"]
  /\ view = [p \in Proc |-> NoView]
  /\ seenMode = [p \in Proc |-> "auto"]

-----------------------------------------------------------------------------
(* Transactions.                                                            *)

\* reevaluate_champions_task reads the weighting mode before the lock.
StartNightly(w) ==
  /\ pc[w] = "idle"
  /\ seenMode' = [seenMode EXCEPT ![w] = mode]
  /\ pc' = [pc EXCEPT ![w] = "wait"]
  /\ UNCHANGED <<row, mode, snapshots, lock, view>>

\* try_lock_registry: a busy lock skips the run.
SkipNightly(w) ==
  /\ pc[w] = "wait" /\ lock # NoProc
  /\ pc' = [pc EXCEPT ![w] = "idle"]
  /\ seenMode' = [seenMode EXCEPT ![w] = "auto"]
  /\ UNCHANGED <<row, mode, snapshots, lock, view>>

\* get_registry_session: an admin request waits for the lock.
StartAdmin(a) ==
  /\ pc[a] = "idle"
  /\ pc' = [pc EXCEPT ![a] = "wait"]
  /\ UNCHANGED <<row, mode, snapshots, lock, view, seenMode>>

\* RegistryBusy after registry_lock_timeout_ms.
Busy(a) ==
  /\ pc[a] = "wait" /\ lock # NoProc
  /\ pc' = [pc EXCEPT ![a] = "idle"]
  /\ UNCHANGED <<row, mode, snapshots, lock, view, seenMode>>

NoLock(p) ==
  /\ pc[p] = "wait"
  /\ lock' = p
  /\ view' = [view EXCEPT ![p] = row]
  /\ pc' = [pc EXCEPT ![p] = "ready"]
  /\ UNCHANGED <<row, mode, snapshots, seenMode>>

\* The rows are read after the lock is taken; only Train, which commutes
\* with the lock, could come between the two.
TakeLock(p) ==
  /\ pc[p] = "wait" /\ lock = NoProc
  /\ lock' = p
  /\ view' = [view EXCEPT ![p] = row]
  /\ pc' = [pc EXCEPT ![p] = "ready"]
  /\ UNCHANGED <<row, mode, snapshots, seenMode>>

\* COMMIT or ROLLBACK releases the advisory lock.
Finish(p) ==
  /\ lock' = IF lock = p THEN NoProc ELSE lock
  /\ pc' = [pc EXCEPT ![p] = "idle"]
  /\ view' = [view EXCEPT ![p] = NoView]
  /\ seenMode' = [seenMode EXCEPT ![p] = "auto"]

\* The UPDATEs of a transaction: the columns it changed since it read them.
Write(p, after) ==
  row' = [k \in Key |->
    IF ~Exists(view[p], k) THEN row[k]
    ELSE [f \in DOMAIN row[k] |->
            IF after[k][f] # view[p][k][f] THEN after[k][f] ELSE row[k][f]]]

\* snapshot_registry: the rows as the transaction read them, and those
\* inserted since.
Snapshot(p) ==
  LET rows == [k \in Key |-> IF Exists(view[p], k) THEN view[p][k] ELSE row[k]]
  IN snapshots' \in {kept \in SUBSET (snapshots \cup {rows}) :
                      Cardinality(kept) <= MaxSnapshots}

\* An evaluation that changes the champion snapshots the registry first.
CommitNightly(w) ==
  /\ pc[w] = "ready"
  /\ \E metrics \in Metrics :
       LET after == Select(view[w], metrics, seenMode[w]) IN
         /\ Write(w, after)
         /\ IF Champions(after) # Champions(view[w])
              THEN Snapshot(w) ELSE UNCHANGED snapshots
  /\ Finish(w)
  /\ UNCHANGED mode

\* promote: any existing row, whatever its metrics.
Promote(a) ==
  /\ pc[a] = "ready"
  /\ \E k \in Key : Exists(view[a], k) /\ Write(a, OnlyChampion(view[a], k))
  /\ Snapshot(a)
  /\ Finish(a)
  /\ UNCHANGED mode

\* demote: a champion becomes a challenger; any other row changes nothing.
Demote(a) ==
  /\ pc[a] = "ready"
  /\ \E k \in Champions(view[a]) :
       Write(a, [view[a] EXCEPT ![k].champion = FALSE])
  /\ Snapshot(a)
  /\ Finish(a)
  /\ UNCHANGED mode

\* update_model: PATCH of is_enabled.
Patch(a) ==
  /\ pc[a] = "ready"
  /\ \E k \in Key :
       /\ Exists(view[a], k)
       /\ Write(a, [view[a] EXCEPT ![k].enabled = ~@])
  /\ Finish(a)
  /\ UNCHANGED <<mode, snapshots>>

\* set_weighting_mode; back to auto recomputes every weight at once.
SetMode(a) ==
  /\ pc[a] = "ready"
  /\ \E new \in Mode :
       /\ mode' = new
       /\ IF new = "manual" THEN UNCHANGED row
          ELSE Write(a, [k \in Key |->
                 IF Exists(view[a], k) THEN [view[a][k] EXCEPT !.weight = "auto"]
                 ELSE NoRow])
  /\ Finish(a)
  /\ UNCHANGED snapshots

\* set_manual_weights: in manual mode only, on every version of each method
\* the request names.
SetWeights(a) ==
  /\ pc[a] = "ready" /\ mode = "manual"
  /\ \E named \in SUBSET Method \ {{}} :
       Write(a, [k \in Key |->
         IF Exists(view[a], k) /\ k[1] \in named
           THEN [view[a][k] EXCEPT !.weight = "manual"] ELSE view[a][k]])
  /\ Finish(a)
  /\ UNCHANGED <<mode, snapshots>>

\* rollback_to_snapshot: rows the snapshot does not know are only demoted.
RestoredOnly(now, saved) ==
  [k \in Key |-> IF Exists(saved, k) THEN saved[k] ELSE now[k]]
Restored(now, saved) ==
  [k \in Key |->
     IF ~Exists(now, k) THEN NoRow
     ELSE IF Exists(saved, k) THEN saved[k]
     ELSE [now[k] EXCEPT !.champion = FALSE]]

Rollback(a) ==
  /\ pc[a] = "ready"
  /\ \E saved \in snapshots : Write(a, Restored(view[a], saved))
  /\ Finish(a)
  /\ UNCHANGED <<mode, snapshots>>

\* A refused or failed transaction rolls back.
Abort(p) ==
  /\ pc[p] = "ready"
  /\ Finish(p)
  /\ UNCHANGED <<row, mode, snapshots>>

\* upsert_run inserts a method's next version as a challenger without weight;
\* it takes no lock.
Train ==
  /\ \E k \in Key :
       /\ ~Exists(row, k)
       /\ k[2] = 1 \/ Exists(row, <<k[1], k[2] - 1>>)
       /\ row' = [row EXCEPT ![k] = NewRow]
  /\ UNCHANGED <<mode, snapshots, lock, pc, view, seenMode>>

Next ==
  \/ \E w \in Worker :
       StartNightly(w) \/ SkipNightly(w) \/ CommitNightly(w)
  \/ \E a \in Admin :
       \/ StartAdmin(a) \/ Busy(a)
       \/ Promote(a) \/ Demote(a) \/ Patch(a) \/ SetMode(a) \/ SetWeights(a)
       \/ Rollback(a)
  \/ \E p \in Proc : TakeLock(p) \/ Abort(p)
  \/ Train

Spec == Init /\ [][Next]_vars

-----------------------------------------------------------------------------
(* Properties.                                                              *)

\* At most one champion, by the code's own order of demotion and promotion:
\* the model has no unique index, so the index never has to refuse a write.
SingleChampion == \A k, l \in Champions(row) : k = l

\* What a transaction decides on is what it overwrites: no re-evaluation and
\* admin action interleave (registry_lock's docstring).
NothingIsOverwritten ==
  \A p \in Proc, k \in Key : Exists(view[p], k) => view[p][k] = row[k]

\* After a rollback nobody but the snapshot's champion holds the title, even
\* a version trained after the snapshot.
RollbackNamesTheChampion ==
  [][\A a \in Admin :
       Rollback(a) => \E saved \in snapshots :
                        Champions(row') = Champions(saved)]_vars

\* The claim of model_weighting: in manual mode an admin sets the weights,
\* which the re-evaluation then leaves alone.
ReevaluationLeavesManualWeights ==
  [][\A w \in Worker :
       pc[w] = "ready" /\ pc'[w] = "idle" /\ mode = "manual" =>
         \A k \in Key : Exists(row, k) => row'[k].weight = row[k].weight]_vars
=============================================================================
