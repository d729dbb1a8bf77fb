------------------------ MODULE ModelRegistryProofs ------------------------
(***************************************************************************)
(* Proofs about ModelRegistry, for any methods, versions, metrics, nightly *)
(* runs, admins and number of snapshots, and about the champion rule on    *)
(* its own, Champion; and, at the end, about the training that fills the   *)
(* registry, WalkForward, and the report on the data it learns from,       *)
(* DataQuality.                                                            *)
(*                                                                         *)
(* The argument: whoever is ready holds the lock, so nobody else changes   *)
(* the rows it has read; a row it has not read was inserted since and is a *)
(* challenger.  Its writes therefore leave exactly the rows it decided on, *)
(* and each decision names at most one champion.                           *)
(***************************************************************************)
EXTENDS ModelRegistry, Champion, WalkForward, DataQuality, FiniteSetTheorems,
        WellFoundedInduction, TLAPS

AtMostOne(rows) == \A k, l \in Champions(rows) : k = l

\* Only the lock's holder is ready, and only who is ready has a view.
ReadyHolds ==
  \A p \in Proc : /\ pc[p] = "ready" => lock = p
                  /\ pc[p] # "ready" => view[p] = NoView

\* A row inserted behind a view is a challenger.
UnseenIsChallenger ==
  \A p \in Proc, k \in Key :
    pc[p] = "ready" /\ ~Exists(view[p], k) => ~row[k].champion

\* Snapshots are states the registry was in: one champion, rows it still has.
SnapshotsSound ==
  \A saved \in snapshots :
    /\ AtMostOne(saved)
    /\ \A k \in Key : Exists(saved, k) =>
         /\ Exists(row, k)
         /\ \A p \in Proc : pc[p] = "ready" => Exists(view[p], k)

Inv ==
  /\ TypeOK /\ SingleChampion /\ NothingIsOverwritten
  /\ ReadyHolds /\ UnseenIsChallenger /\ SnapshotsSound

\* A registry that a transaction may leave when it has read rows.
SoundAfter(rows, after) ==
  /\ after \in Rows /\ AtMostOne(after)
  /\ \A k \in Key : Exists(after, k) <=> Exists(rows, k)

-----------------------------------------------------------------------------
(* Rows.                                                                    *)

LEMMA RowIsNotNoRow == ASSUME NEW r \in Row PROVE r # NoRow
<1>1. r.weight \in Weight
  BY DEF Row
<1>2. NoRow.weight = "no row"
  BY DEF NoRow
<1> QED BY <1>1, <1>2 DEF Weight

LEMMA ToggledRow ==
  ASSUME NEW r \in Row
  PROVE  [r EXCEPT !.enabled = ~@] \in Row /\ [r EXCEPT !.enabled = ~@].champion = r.champion
<1>1. (~r.enabled) \in BOOLEAN
  OBVIOUS
<1> QED BY <1>1 DEF Row

LEMMA NoViewIsSound == NoView \in Rows /\ \A k \in Key : ~Exists(NoView, k)
  BY DEF NoView, Rows, Exists

\* demote_champions and the promotion of one row leave at most one champion.
LEMMA OnlyChampionSound ==
  ASSUME NEW rows \in Rows, NEW keep
  PROVE  SoundAfter(rows, OnlyChampion(rows, keep))
<1> DEFINE after == OnlyChampion(rows, keep)
<1>1. \A k \in Key :
        IF Exists(rows, k) THEN after[k] = [rows[k] EXCEPT !.champion = (k = keep)]
        ELSE after[k] = NoRow
  BY DEF OnlyChampion
<1>2. \A k \in Key : Exists(rows, k) => /\ after[k] \in Row
                                        /\ after[k].champion = (k = keep)
  BY <1>1 DEF Rows, Exists, Row
<1>3. \A k \in Key : Exists(after, k) <=> Exists(rows, k)
  BY <1>1, <1>2, RowIsNotNoRow DEF Exists
<1>4. after \in Rows
  BY <1>1, <1>2 DEF OnlyChampion, Rows
<1>5. AtMostOne(after)
  BY <1>2, <1>3 DEF AtMostOne, Champions
<1> QED BY <1>3, <1>4, <1>5 DEF SoundAfter

\* A change of the other columns leaves the champion alone.
LEMMA SameChampionsSound ==
  ASSUME NEW rows \in Rows, AtMostOne(rows), NEW after,
         after = [k \in Key |-> after[k]],
         \A k \in Key : IF Exists(rows, k)
                          THEN /\ after[k] \in Row
                               /\ after[k].champion => rows[k].champion
                          ELSE after[k] = NoRow
  PROVE  SoundAfter(rows, after)
<1>1. \A k \in Key : Exists(after, k) <=> Exists(rows, k)
  BY RowIsNotNoRow DEF Exists
<1>2. after \in Rows
  BY DEF Rows
<1>3. AtMostOne(after)
  BY <1>1 DEF AtMostOne, Champions
<1> QED BY <1>1, <1>2, <1>3 DEF SoundAfter

\* A re-evaluation leaves a sound registry, whatever its metrics and winner.
LEMMA SelectSound ==
  ASSUME NEW rows \in Rows, AtMostOne(rows), NEW metrics, NEW weightMode
  PROVE  SoundAfter(rows, Select(rows, metrics, weightMode))
<1> DEFINE crowned == OnlyChampion(rows,
             Scored(Winner(rows, Eligible(rows, metrics), metrics), metrics))
           weighed == AutoWeights(crowned, metrics)
<1>1. SoundAfter(rows, crowned)
  BY OnlyChampionSound
<1>2. SoundAfter(rows, rows)
  BY DEF SoundAfter
<1>3. SoundAfter(rows, weighed)
  <2> HIDE DEF crowned
  <2>1. crowned \in Rows /\ AtMostOne(crowned)
    BY <1>1 DEF SoundAfter
  <2>2. \A k \in Key : weighed[k] = crowned[k]
                       \/ (Exists(crowned, k) /\ weighed[k] = [crowned[k] EXCEPT !.weight = "auto"])
    BY DEF AutoWeights
  <2>3. \A k \in Key : IF Exists(crowned, k)
                         THEN /\ weighed[k] \in Row
                              /\ weighed[k].champion => crowned[k].champion
                         ELSE weighed[k] = NoRow
    BY <2>1, <2>2 DEF Rows, Exists, Row, Weight
  <2>4. weighed = [k \in Key |-> weighed[k]]
    BY DEF AutoWeights
  <2>5. SoundAfter(crowned, weighed)
    <3> HIDE DEF weighed
    <3> QED BY <2>1, <2>3, <2>4, SameChampionsSound
  <2> QED BY <1>1, <2>5 DEF SoundAfter
<1> QED BY <1>1, <1>2, <1>3 DEF Select

\* A rollback to a sound snapshot leaves a sound registry.
LEMMA RestoredSound ==
  ASSUME NEW now \in Rows, NEW saved \in Rows, AtMostOne(saved)
  PROVE  /\ SoundAfter(now, Restored(now, saved))
         /\ \A k \in Key : Exists(now, k) =>
              (Restored(now, saved)[k].champion <=> Exists(saved, k) /\ saved[k].champion)
<1> DEFINE after == Restored(now, saved)
<1>1. \A k \in Key :
        IF ~Exists(now, k) THEN after[k] = NoRow
        ELSE IF Exists(saved, k) THEN after[k] = saved[k]
        ELSE after[k] = [now[k] EXCEPT !.champion = FALSE]
  BY DEF Restored
<1>2. \A k \in Key : Exists(now, k) =>
        /\ after[k] \in Row
        /\ after[k].champion <=> Exists(saved, k) /\ saved[k].champion
  <2> HIDE DEF after
  <2>0. ASSUME NEW r \in Row
        PROVE  /\ [r EXCEPT !.champion = FALSE] \in Row
               /\ ~[r EXCEPT !.champion = FALSE].champion
    BY DEF Row
  <2> SUFFICES ASSUME NEW k \in Key, Exists(now, k)
               PROVE  /\ after[k] \in Row
                      /\ after[k].champion <=> Exists(saved, k) /\ saved[k].champion
    OBVIOUS
  <2>1. now[k] \in Row /\ (Exists(saved, k) => saved[k] \in Row)
    BY DEF Rows, Exists
  <2>2. CASE Exists(saved, k)
    BY <1>1, <2>1, <2>2
  <2>3. CASE ~ Exists(saved, k)
    BY <1>1, <2>0, <2>1, <2>3
  <2> QED BY <2>2, <2>3
<1>3. after \in Rows
  <2>1. after = [k \in Key |-> after[k]]
    BY DEF Restored
  <2>2. \A k \in Key : after[k] \in Row \cup {NoRow}
    <3> HIDE DEF after
    <3> QED BY <1>1, <1>2
  <2> HIDE DEF after
  <2> QED BY <2>1, <2>2 DEF Rows
<1>4. \A k \in Key : Exists(after, k) <=> Exists(now, k)
  BY <1>1, <1>2, RowIsNotNoRow DEF Exists
<1>5. AtMostOne(after)
  BY <1>2, <1>4 DEF AtMostOne, Champions
<1> QED BY <1>2, <1>3, <1>4, <1>5 DEF SoundAfter

-----------------------------------------------------------------------------
(* Transactions.                                                            *)

\* The columns a transaction writes are those it read, so the rows it leaves
\* are the ones it decided on.
LEMMA WriteLeaves ==
  ASSUME Inv, NEW p \in Proc, pc[p] = "ready", NEW after,
         SoundAfter(view[p], after), Write(p, after)
  PROVE  /\ row' \in Rows
         /\ \A k \in Key : row'[k] = IF Exists(view[p], k) THEN after[k] ELSE row[k]
         /\ \A k \in Key : Exists(row', k) <=> Exists(row, k)
         /\ AtMostOne(row')
<1>1. \A k \in Key : row'[k] = IF Exists(view[p], k) THEN after[k] ELSE row[k]
  <2> SUFFICES ASSUME NEW k \in Key, Exists(view[p], k) PROVE row'[k] = after[k]
    BY DEF Write
  <2>1. view[p][k] = row[k] /\ row[k] \in Row
    BY DEF Inv, NothingIsOverwritten, TypeOK, Rows, Exists
  <2>2. after[k] \in Row
    BY DEF SoundAfter, Rows, Exists
  <2>3. row'[k] = [f \in DOMAIN row[k] |->
                     IF after[k][f] # row[k][f] THEN after[k][f] ELSE row[k][f]]
    BY <2>1 DEF Write
  <2> QED BY <2>1, <2>2, <2>3 DEF Row
<1>2. row' \in Rows
  <2>1. row' = [k \in Key |-> row'[k]]
    BY DEF Write
  <2>2. \A k \in Key : row'[k] \in Row \cup {NoRow}
    BY <1>1 DEF Inv, TypeOK, Rows, SoundAfter
  <2> QED BY <2>1, <2>2 DEF Rows
<1>3. \A k \in Key : Exists(view[p], k) => Exists(row, k)
  BY DEF Inv, NothingIsOverwritten, Exists
<1>4. \A k \in Key : Exists(row', k) <=> Exists(row, k)
  BY <1>1, <1>3 DEF SoundAfter, Exists
<1>5. AtMostOne(row')
  <2>1. \A k \in Champions(row') : k \in Champions(after)
    BY <1>1 DEF Inv, UnseenIsChallenger, Champions, SoundAfter, Exists
  <2> QED BY <2>1 DEF AtMostOne, SoundAfter
<1> QED BY <1>1, <1>2, <1>4, <1>5

\* The snapshot a transaction takes is the registry before its writes.
LEMMA SnapshotIsRow ==
  ASSUME Inv, NEW p \in Proc
  PROVE  [k \in Key |-> IF Exists(view[p], k) THEN view[p][k] ELSE row[k]] = row
<1>1. row = [k \in Key |-> row[k]]
  BY DEF Inv, TypeOK, Rows
<1>2. \A k \in Key : (IF Exists(view[p], k) THEN view[p][k] ELSE row[k]) = row[k]
  BY DEF Inv, NothingIsOverwritten
<1> QED BY <1>1, <1>2

\* Snapshots keep their type, and each was there before or is the registry.
LEMMA SnapshotLeaves ==
  ASSUME Inv, NEW p \in Proc, Snapshot(p) \/ UNCHANGED snapshots
  PROVE  snapshots' \subseteq snapshots \cup {row}
BY SnapshotIsRow DEF Snapshot

\* A transaction that ends with sound rows keeps the invariant.
LEMMA EndInv ==
  ASSUME Inv, NEW p \in Proc, pc[p] = "ready", Finish(p), mode' \in Mode,
         Snapshot(p) \/ UNCHANGED snapshots,
         UNCHANGED row \/ \E after : SoundAfter(view[p], after) /\ Write(p, after)
  PROVE  Inv'
<1>1. /\ row' \in Rows /\ AtMostOne(row')
      /\ \A k \in Key : Exists(row', k) <=> Exists(row, k)
  BY WriteLeaves DEF Inv, TypeOK, SingleChampion, AtMostOne
<1>2. lock = p /\ lock' = NoProc
  BY DEF Inv, ReadyHolds, Finish
<1>3. \A q \in Proc : pc'[q] # "ready" /\ view'[q] = NoView
  BY <1>2, ProcAssumption DEF Inv, TypeOK, ReadyHolds, Finish, Proc
<1>4. TypeOK'
  <2>1. snapshots' \subseteq Rows
    BY SnapshotLeaves DEF Inv, TypeOK
  <2>2. /\ pc' \in [Proc -> {"idle", "wait", "ready"}]
        /\ view' \in [Proc -> Rows] /\ seenMode' \in [Proc -> Mode]
    BY NoViewIsSound DEF Inv, TypeOK, Finish, Mode
  <2> QED BY <1>1, <1>2, <2>1, <2>2 DEF TypeOK
<1>5. NothingIsOverwritten' /\ ReadyHolds' /\ UnseenIsChallenger'
  BY <1>3, NoViewIsSound DEF NothingIsOverwritten, ReadyHolds, UnseenIsChallenger
<1>6. SnapshotsSound'
  <2> SUFFICES ASSUME NEW saved \in snapshots'
               PROVE  /\ AtMostOne(saved)
                      /\ \A k \in Key : Exists(saved, k) => Exists(row', k)
    BY <1>3 DEF SnapshotsSound
  <2>1. CASE saved = row
    BY <1>1, <2>1 DEF Inv, SingleChampion, AtMostOne
  <2>2. CASE saved \in snapshots
    BY <1>1, <2>2 DEF Inv, SnapshotsSound
  <2> QED BY <2>1, <2>2, SnapshotLeaves
<1> QED BY <1>1, <1>4, <1>5, <1>6 DEF Inv, SingleChampion, AtMostOne

-----------------------------------------------------------------------------
(* The steps.                                                               *)

LEMMA InitInv == Init => Inv
<1> SUFFICES ASSUME Init PROVE Inv
  OBVIOUS
<1>1. TypeOK
  BY NoViewIsSound DEF Init, TypeOK, Mode, Proc
<1>2. NothingIsOverwritten /\ ReadyHolds /\ UnseenIsChallenger
  BY NoViewIsSound DEF Init, NothingIsOverwritten, ReadyHolds, UnseenIsChallenger
<1>3. SingleChampion /\ SnapshotsSound
  BY NoViewIsSound DEF Init, SingleChampion, Champions, SnapshotsSound
<1> QED BY <1>1, <1>2, <1>3 DEF Inv

\* A transaction that has not read the rows, and does not now.
LEMMA IdleInv ==
  ASSUME Inv, NEW p \in Proc, pc[p] # "ready",
         \E step \in {"idle", "wait"} : pc' = [pc EXCEPT ![p] = step],
         seenMode' \in [Proc -> Mode], UNCHANGED <<row, mode, snapshots, lock, view>>
  PROVE  Inv'
<1>1. TypeOK'
  BY DEF Inv, TypeOK
<1>2. \A q \in Proc : pc'[q] = "ready" <=> pc[q] = "ready"
  BY DEF Inv, TypeOK
<1>3. ReadyHolds' /\ UnseenIsChallenger' /\ NothingIsOverwritten'
  BY <1>2 DEF Inv, ReadyHolds, UnseenIsChallenger, NothingIsOverwritten
<1>4. SnapshotsSound'
  BY <1>2 DEF Inv, SnapshotsSound
<1>5. SingleChampion'
  BY DEF Inv, SingleChampion
<1> QED BY <1>1, <1>3, <1>4, <1>5 DEF Inv

LEMMA LockInv ==
  ASSUME Inv, NEW p \in Proc, TakeLock(p)
  PROVE  Inv'
<1> USE DEF TakeLock
<1>1. \A q \in Proc : /\ pc[q] # "ready" /\ view[q] = NoView
                      /\ pc'[q] = "ready" => q = p
                      /\ view'[q] = IF q = p THEN row ELSE NoView
  BY ProcAssumption DEF Inv, TypeOK, ReadyHolds, Proc
<1>2. TypeOK'
  BY DEF Inv, TypeOK
<1>3. ReadyHolds'
  BY <1>1 DEF Inv, TypeOK, ReadyHolds
<1>4. NothingIsOverwritten'
  BY <1>1, NoViewIsSound DEF NothingIsOverwritten
<1>5. UnseenIsChallenger'
  <2>1. NoRow.champion = FALSE
    BY DEF NoRow
  <2>2. \A k \in Key : ~Exists(row, k) => ~row[k].champion
    BY <2>1 DEF Exists
  <2> QED BY <1>1, <2>2 DEF UnseenIsChallenger
<1>6. SnapshotsSound'
  BY <1>1 DEF Inv, SnapshotsSound
<1>7. SingleChampion'
  BY DEF Inv, SingleChampion
<1> QED BY <1>2, <1>3, <1>4, <1>5, <1>6, <1>7 DEF Inv

\* The nightly run.
LEMMA NightlyInv ==
  ASSUME Inv, NEW w \in Worker, CommitNightly(w)
  PROVE  Inv'
<1>1. w \in Proc /\ view[w] \in Rows /\ mode \in Mode
  BY DEF Proc, Inv, TypeOK
<1>2. AtMostOne(view[w])
  BY <1>1 DEF Inv, NothingIsOverwritten, SingleChampion, AtMostOne, Champions, Exists
<1>3. \E after : SoundAfter(view[w], after) /\ Write(w, after)
  BY <1>1, <1>2, SelectSound DEF CommitNightly
<1> QED BY <1>1, <1>3, EndInv DEF CommitNightly

\* The admin actions.
LEMMA AdminInv ==
  ASSUME Inv, NEW a \in Admin,
         Promote(a) \/ Demote(a) \/ Patch(a) \/ SetMode(a) \/ SetWeights(a) \/ Rollback(a)
  PROVE  Inv'
<1>1. a \in Proc /\ view[a] \in Rows /\ mode \in Mode
  BY DEF Proc, Inv, TypeOK
<1>2. AtMostOne(view[a])
  BY <1>1 DEF Inv, NothingIsOverwritten, SingleChampion, AtMostOne, Champions, Exists
<1>3. CASE Promote(a)
  <2>1. \E after : SoundAfter(view[a], after) /\ Write(a, after)
    BY <1>1, <1>3, OnlyChampionSound DEF Promote
  <2> QED BY <1>1, <1>3, <2>1, EndInv DEF Promote
<1>4. CASE Demote(a)
  <2>1. PICK k \in Champions(view[a]) : Write(a, [view[a] EXCEPT ![k].champion = FALSE])
    BY <1>4 DEF Demote
  <2> DEFINE after == [view[a] EXCEPT ![k].champion = FALSE]
  <2>2. \A l \in Key : after[l] = IF l = k THEN [view[a][k] EXCEPT !.champion = FALSE]
                                  ELSE view[a][l]
    BY <1>1 DEF Rows
  <2>3. \A l \in Key : IF Exists(view[a], l)
                         THEN /\ after[l] \in Row
                              /\ after[l].champion => view[a][l].champion
                         ELSE after[l] = NoRow
    BY <1>1, <2>1, <2>2 DEF Rows, Row, Exists, Champions
  <2>4. after = [l \in Key |-> after[l]]
    BY <1>1 DEF Rows
  <2> HIDE DEF after
  <2>5. SoundAfter(view[a], after)
    BY <1>1, <1>2, <2>3, <2>4, SameChampionsSound
  <2> QED BY <1>1, <1>4, <2>1, <2>5, EndInv DEF Demote, after
<1>5. CASE Patch(a)
  <2>1. PICK k \in Key : Exists(view[a], k) /\ Write(a, [view[a] EXCEPT ![k].enabled = ~@])
    BY <1>5 DEF Patch
  <2> DEFINE after == [view[a] EXCEPT ![k].enabled = ~@]
  <2>2. \A l \in Key : after[l] = IF l = k THEN [view[a][k] EXCEPT !.enabled = ~@]
                                  ELSE view[a][l]
    BY <1>1 DEF Rows
  <2>3. \A l \in Key : IF Exists(view[a], l)
                         THEN /\ after[l] \in Row
                              /\ after[l].champion => view[a][l].champion
                         ELSE after[l] = NoRow
    <3>1. \A l \in Key : Exists(view[a], l) => view[a][l] \in Row
      BY <1>1 DEF Rows, Exists
    <3>2. \A l \in Key : ~Exists(view[a], l) => view[a][l] = NoRow
      BY DEF Exists
    <3>3. Exists(view[a], k) /\ view[a][k] \in Row
      BY <2>1, <3>1
    <3>4. after[k] \in Row /\ after[k].champion = view[a][k].champion
      BY <2>1, <2>2, <3>3, ToggledRow
    <3>5. \A l \in Key : l # k => after[l] = view[a][l]
      BY <2>2
    <3> HIDE DEF after
    <3> QED BY <3>1, <3>2, <3>3, <3>4, <3>5
  <2>4. after = [l \in Key |-> after[l]]
    BY <1>1 DEF Rows
  <2> HIDE DEF after
  <2>5. SoundAfter(view[a], after)
    BY <1>1, <1>2, <2>3, <2>4, SameChampionsSound
  <2> QED BY <1>1, <1>5, <2>1, <2>5, EndInv DEF Patch, after
<1>6. CASE SetMode(a)
  <2> DEFINE after == [k \in Key |-> IF Exists(view[a], k)
                                      THEN [view[a][k] EXCEPT !.weight = "auto"] ELSE NoRow]
  <2>1. mode' \in Mode /\ (UNCHANGED row \/ Write(a, after))
    BY <1>6 DEF SetMode
  <2>2. \A k \in Key : IF Exists(view[a], k)
                         THEN /\ after[k] \in Row
                              /\ after[k].champion => view[a][k].champion
                         ELSE after[k] = NoRow
    BY <1>1 DEF Rows, Row, Weight, Exists
  <2>3. after = [k \in Key |-> after[k]]
    OBVIOUS
  <2> HIDE DEF after
  <2>4. SoundAfter(view[a], after)
    BY <1>1, <1>2, <2>2, <2>3, SameChampionsSound
  <2> QED BY <1>1, <1>6, <2>1, <2>4, EndInv DEF SetMode
<1>7. CASE SetWeights(a)
  <2>1. PICK named \in SUBSET Method \ {{}} :
          Write(a, [k \in Key |-> IF Exists(view[a], k) /\ k[1] \in named
                                   THEN [view[a][k] EXCEPT !.weight = "manual"]
                                   ELSE view[a][k]])
    BY <1>7 DEF SetWeights
  <2> DEFINE after == [k \in Key |-> IF Exists(view[a], k) /\ k[1] \in named
                                      THEN [view[a][k] EXCEPT !.weight = "manual"]
                                      ELSE view[a][k]]
  <2>2. \A k \in Key : IF Exists(view[a], k)
                         THEN /\ after[k] \in Row
                              /\ after[k].champion => view[a][k].champion
                         ELSE after[k] = NoRow
    BY <1>1 DEF Rows, Row, Weight, Exists
  <2>3. after = [k \in Key |-> after[k]]
    OBVIOUS
  <2>4. Write(a, after)
    BY <2>1
  <2> HIDE DEF after
  <2>5. SoundAfter(view[a], after)
    BY <1>1, <1>2, <2>2, <2>3, SameChampionsSound
  <2> QED BY <1>1, <1>7, <2>4, <2>5, EndInv DEF SetWeights
<1>8. CASE Rollback(a)
  <2>1. PICK saved \in snapshots : Write(a, Restored(view[a], saved))
    BY <1>8 DEF Rollback
  <2>2. saved \in Rows /\ AtMostOne(saved)
    BY DEF Inv, TypeOK, SnapshotsSound
  <2>3. SoundAfter(view[a], Restored(view[a], saved))
    BY <1>1, <2>2, RestoredSound
  <2> QED BY <1>1, <1>8, <2>1, <2>3, EndInv DEF Rollback
<1> QED BY <1>3, <1>4, <1>5, <1>6, <1>7, <1>8

\* Training takes no lock, and what it inserts disturbs nobody.
LEMMA TrainInv ==
  ASSUME Inv, Train
  PROVE  Inv'
<1>1. PICK k \in Key : ~Exists(row, k) /\ row' = [row EXCEPT ![k] = NewRow]
  BY DEF Train
<1>2. NewRow \in Row /\ ~NewRow.champion
  BY DEF NewRow, Row, Weight
<1>3. \A l \in Key : row'[l] = IF l = k THEN NewRow ELSE row[l]
  BY <1>1 DEF Inv, TypeOK, Rows
<1>4. TypeOK'
  <2>1. row' \in Rows
    BY <1>1, <1>2 DEF Inv, TypeOK, Rows
  <2> QED BY <2>1 DEF Inv, TypeOK, Train
<1>5. SingleChampion'
  BY <1>2, <1>3 DEF Inv, SingleChampion, Champions, Exists
<1>6. NothingIsOverwritten'
  <2>1. \A p \in Proc : ~Exists(view[p], k)
    BY <1>1 DEF Inv, NothingIsOverwritten, Exists
  <2> QED BY <1>3, <2>1 DEF Inv, NothingIsOverwritten, Train
<1>7. ReadyHolds' /\ UnseenIsChallenger'
  BY <1>2, <1>3 DEF Inv, ReadyHolds, UnseenIsChallenger, Train
<1>8. SnapshotsSound'
  <2>1. \A l \in Key : Exists(row, l) => Exists(row', l)
    BY <1>1, <1>3 DEF Exists
  <2> QED BY <2>1 DEF Inv, SnapshotsSound, Train
<1> QED BY <1>4, <1>5, <1>6, <1>7, <1>8 DEF Inv

LEMMA StepInv == Inv /\ [Next]_vars => Inv'
<1> SUFFICES ASSUME Inv, [Next]_vars PROVE Inv'
  OBVIOUS
<1>1. ASSUME NEW w \in Worker, StartNightly(w) \/ SkipNightly(w) PROVE Inv'
  <2>1. w \in Proc /\ pc[w] # "ready" /\ seenMode' \in [Proc -> Mode]
    BY <1>1 DEF Proc, StartNightly, SkipNightly, Inv, TypeOK, Mode
  <2> QED BY <1>1, <2>1, IdleInv DEF StartNightly, SkipNightly
<1>2. ASSUME NEW a \in Admin, StartAdmin(a) \/ Busy(a) PROVE Inv'
  <2>1. a \in Proc /\ pc[a] # "ready" /\ seenMode' \in [Proc -> Mode]
    BY <1>2 DEF Proc, StartAdmin, Busy, Inv, TypeOK
  <2> QED BY <1>2, <2>1, IdleInv DEF StartAdmin, Busy
<1>3. ASSUME NEW p \in Proc, Abort(p) PROVE Inv'
  <2>1. mode' \in Mode
    BY <1>3 DEF Abort, Inv, TypeOK
  <2> QED BY <1>3, <2>1, EndInv DEF Abort
<1>4. CASE UNCHANGED vars
  BY <1>4 DEF vars, Inv, TypeOK, SingleChampion, NothingIsOverwritten, ReadyHolds,
     UnseenIsChallenger, SnapshotsSound
<1> QED BY <1>1, <1>2, <1>3, <1>4, LockInv, NightlyInv, AdminInv, TrainInv DEF Next

LEMMA Invariant == Spec => []Inv
  BY InitInv, StepInv, PTL DEF Spec

-----------------------------------------------------------------------------
(* The theorems.                                                            *)

\* The registry's variables keep their types.
THEOREM TypeCorrect == Spec => []TypeOK
<1>1. Inv => TypeOK
  BY DEF Inv
<1> QED BY Invariant, <1>1, PTL

\* The registry never has two champions, with no unique index to forbid it.
THEOREM OneChampion == Spec => []SingleChampion
<1>1. Inv => SingleChampion
  BY DEF Inv
<1> QED BY Invariant, <1>1, PTL

\* No governance transaction overwrites what another one has written since it
\* read the registry.
THEOREM NoLostUpdate == Spec => []NothingIsOverwritten
<1>1. Inv => NothingIsOverwritten
  BY DEF Inv
<1> QED BY Invariant, <1>1, PTL

\* A rollback gives the title to the snapshot's champion and to nobody else.
THEOREM RollbackRestores == Spec => RollbackNamesTheChampion
<1> DEFINE Restores == \A a \in Admin :
             Rollback(a) => \E saved \in snapshots :
                              Champions(row') = Champions(saved)
<1>1. Inv /\ [Next]_vars => [Restores]_vars
  <2> SUFFICES ASSUME Inv, NEW a \in Admin, Rollback(a)
               PROVE  \E saved \in snapshots :
                        Champions(row') = Champions(saved)
    OBVIOUS
  <2>1. PICK saved \in snapshots : Write(a, Restored(view[a], saved))
    BY DEF Rollback
  <2>2. a \in Proc /\ pc[a] = "ready" /\ view[a] \in Rows
    BY DEF Proc, Rollback, Inv, TypeOK
  <2>3. saved \in Rows /\ AtMostOne(saved)
    BY DEF Inv, TypeOK, SnapshotsSound
  <2>4. /\ SoundAfter(view[a], Restored(view[a], saved))
        /\ \A k \in Key : Exists(view[a], k) =>
             (Restored(view[a], saved)[k].champion
                <=> Exists(saved, k) /\ saved[k].champion)
    BY <2>2, <2>3, RestoredSound
  <2>5. /\ \A k \in Key : row'[k] = IF Exists(view[a], k)
                                    THEN Restored(view[a], saved)[k] ELSE row[k]
        /\ \A k \in Key : Exists(row', k) <=> Exists(row, k)
    BY <2>1, <2>2, <2>4, WriteLeaves
  <2>6. \A k \in Key : Exists(saved, k) => Exists(row, k) /\ Exists(view[a], k)
    BY <2>2 DEF Inv, SnapshotsSound
  <2>7. \A k \in Key : ~Exists(view[a], k) => ~row[k].champion
    BY <2>2 DEF Inv, UnseenIsChallenger
  <2>8. \A k \in Key : k \in Champions(row') <=> k \in Champions(saved)
    BY <2>4, <2>5, <2>6, <2>7 DEF Champions
  <2> QED BY <2>8 DEF Champions
<1> QED BY <1>1, Invariant, PTL DEF Spec, RollbackNamesTheChampion

-----------------------------------------------------------------------------
(* The champion rule settles.                                               *)

\* Some set of numbers has a least one.
LEMMA LeastNumber ==
  ASSUME NEW T, T \subseteq Nat, T # {}
  PROVE  \E x \in T : \A y \in T : x <= y
<1> DEFINE R == OpToRel(<, Nat)
<1>1. R = {ss \in Nat \X Nat : ss[1] < ss[2]}
  BY DEF OpToRel
<1>2. IsWellFoundedOn(R, Nat)
  BY NatLessThanWellFounded
<1> HIDE DEF R
<1>3. PICK x \in T : \A y \in T : ~ (<<y, x>> \in R)
  BY <1>2, WFMin
<1>4. ASSUME NEW y \in T PROVE x <= y
  <2>1. <<y, x>> \in Nat \X Nat
    OBVIOUS
  <2>2. ~(y < x)
    BY <1>1, <1>3, <2>1
  <2>. QED BY <2>2
<1>. QED BY <1>4

LEMMA MetricsType ==
  ASSUME NEW metrics \in Metrics, NEW m \in DOMAIN metrics
  PROVE  m \in Nat /\ metrics[m].brier \in Nat
<1>1. PICK scored \in SUBSET Method : metrics \in [scored -> [version : Version, brier : 0..Unfit]]
  BY DEF Metrics
<1>2. m \in Method /\ metrics[m] \in [version : Version, brier : 0..Unfit]
  BY <1>1
<1>. QED BY <1>2, KeyAssumption, BrierAssumption DEF Unfit

\* The lowest score among those that compete, then the lowest name, exists.
LEMMA BestIsBest ==
  ASSUME NEW metrics \in Metrics, NEW E, E \subseteq DOMAIN metrics, E # {}
  PROVE  /\ Best(E, metrics) \in E
         /\ \A o \in E : metrics[Best(E, metrics)].brier <= metrics[o].brier
<1>1. \A m \in E : m \in Nat /\ metrics[m].brier \in Nat
  BY MetricsType
<1>2. PICK low \in {metrics[m].brier : m \in E} : \A o \in E : low <= metrics[o].brier
  <2>1. {metrics[m].brier : m \in E} \subseteq Nat /\ {metrics[m].brier : m \in E} # {}
    BY <1>1
  <2>2. PICK low \in {metrics[m].brier : m \in E} :
          \A y \in {metrics[m].brier : m \in E} : low <= y
    BY <2>1, LeastNumber
  <2>. QED BY <2>2
<1>3. PICK m \in {e \in E : metrics[e].brier = low} :
        \A o \in {e \in E : metrics[e].brier = low} : m <= o
  <2>1. {e \in E : metrics[e].brier = low} \subseteq Nat
    BY <1>1
  <2>2. {e \in E : metrics[e].brier = low} # {}
    BY <1>2
  <2>. QED BY <2>1, <2>2, LeastNumber
<1>4. \A o \in E : \/ metrics[m].brier < metrics[o].brier
                   \/ metrics[m].brier = metrics[o].brier /\ m <= o
  <2> SUFFICES ASSUME NEW o \in E
               PROVE  \/ metrics[m].brier < metrics[o].brier
                      \/ metrics[m].brier = metrics[o].brier /\ m <= o
    OBVIOUS
  <2>1. CASE metrics[o].brier = low
    BY <1>3, <2>1
  <2>2. CASE metrics[o].brier # low
    BY <1>1, <1>2, <1>3, <2>2
  <2>. QED BY <2>1, <2>2
<1>5. /\ Best(E, metrics) \in E
      /\ \A o \in E : \/ metrics[Best(E, metrics)].brier < metrics[o].brier
                      \/ metrics[Best(E, metrics)].brier = metrics[o].brier /\ Best(E, metrics) <= o
  BY <1>3, <1>4 DEF Best
<1>. QED BY <1>1, <1>5

\* The winner competes; it is the best or an incumbent the best is too close to,
\* and a champion that competes and loses was not too close.
LEMMA WinnerWins ==
  ASSUME NEW rows \in Rows, AtMostOne(rows), NEW metrics \in Metrics,
         NEW E, E = Eligible(rows, metrics), E # {},
         NEW w, w = Winner(rows, E, metrics)
  PROVE  /\ w \in E
         /\ w = Best(E, metrics) \/ TooClose(Best(E, metrics), w, metrics)
         /\ \A c \in Champions(rows) :
              c[1] \in E /\ c[1] # w =>
                w = Best(E, metrics) /\ ~TooClose(Best(E, metrics), c[1], metrics)
<1>1. PICK b, H : b = Best(E, metrics) /\ H = Incumbents(rows, E, metrics)
  OBVIOUS
<1>2. b \in E
  <2>1. E \subseteq DOMAIN metrics
    BY DEF Eligible
  <2>. QED BY <1>1, <2>1, BestIsBest
<1>3. H \subseteq E /\ \A x, y \in H : x = y
  BY <1>1 DEF Incumbents, AtMostOne
<1>4. w = IF \E m \in H : TooClose(b, m, metrics) THEN CHOOSE m \in H : TRUE ELSE b
  BY <1>1 DEF Winner
<1>5. CASE \E m \in H : TooClose(b, m, metrics)
  <2>1. PICK m \in H : TooClose(b, m, metrics)
    BY <1>5
  <2>2. w \in H
    BY <1>4, <1>5
  <2>3. w = m
    BY <1>3, <2>2
  <2>4. \A c \in Champions(rows) : c[1] \in E => c[1] = w
    BY <1>1, <1>3, <2>2 DEF Incumbents
  <2>. QED BY <1>1, <1>3, <2>1, <2>2, <2>3, <2>4
<1>6. CASE ~ \E m \in H : TooClose(b, m, metrics)
  <2>1. w = b
    BY <1>4, <1>6
  <2>2. \A c \in Champions(rows) : c[1] \in E => c[1] \in H
    BY <1>1 DEF Incumbents
  <2>. QED BY <1>1, <1>2, <1>6, <2>1, <2>2
<1>. QED BY <1>5, <1>6

\* What a re-evaluation in which somebody competes leaves: the winner's scored row
\* is the champion, and nothing that the rule reads has changed but that.
LEMMA SelectCrowns ==
  ASSUME NEW rows \in Rows, AtMostOne(rows), NEW metrics \in Metrics, NEW weightMode,
         NEW E, E = Eligible(rows, metrics), E # {},
         NEW w, w = Winner(rows, E, metrics),
         NEW keep, keep = Scored(w, metrics),
         NEW once, once = Select(rows, metrics, weightMode)
  PROVE  /\ once = [k \in Key |-> once[k]] /\ keep \in Key /\ Exists(once, keep) /\ w \in E
         /\ \A k \in Key : IF Exists(rows, k)
                             THEN /\ once[k] \in Row /\ once[k].enabled = rows[k].enabled
                                  /\ once[k].champion = (k = keep)
                                  /\ weightMode = "auto" /\ (\E m \in DOMAIN metrics :
                                        m = k[1] /\ Exists(rows, Scored(m, metrics)))
                                     => once[k].weight = "auto"
                             ELSE once[k] = NoRow
         /\ \A k \in Key : Exists(once, k) <=> Exists(rows, k)
         /\ Champions(once) = {keep} /\ Eligible(once, metrics) = E
<1>1. w \in E /\ E \subseteq DOMAIN metrics /\ Exists(rows, keep) /\ keep \in Key
  BY WinnerWins DEF Eligible, Exists
<1>2. PICK crowned : crowned = OnlyChampion(rows, keep)
  OBVIOUS
<1>3. once = IF weightMode = "auto" THEN AutoWeights(crowned, metrics) ELSE crowned
  BY <1>2 DEF Select
<1>4. /\ crowned = [k \in Key |-> crowned[k]]
      /\ \A k \in Key : IF Exists(rows, k) THEN crowned[k] = [rows[k] EXCEPT !.champion = (k = keep)]
                        ELSE crowned[k] = NoRow
  BY <1>2 DEF OnlyChampion
<1>5. \A k \in Key : Exists(rows, k) =>
        /\ crowned[k] \in Row /\ crowned[k].enabled = rows[k].enabled
        /\ crowned[k].champion = (k = keep)
  <2> SUFFICES ASSUME NEW k \in Key, Exists(rows, k)
               PROVE  /\ crowned[k] \in Row /\ crowned[k].enabled = rows[k].enabled
                      /\ crowned[k].champion = (k = keep)
    OBVIOUS
  <2>1. rows[k] \in Row
    BY DEF Exists, Rows
  <2>2. PICK v \in BOOLEAN : v = (k = keep)
    OBVIOUS
  <2>3. crowned[k] = [rows[k] EXCEPT !.champion = v]
    BY <1>4, <2>2
  <2>. QED BY <2>1, <2>2, <2>3 DEF Row
<1>6. \A k \in Key : Exists(crowned, k) <=> Exists(rows, k)
  BY <1>4, <1>5, RowIsNotNoRow DEF Exists
<1>7. /\ once = [k \in Key |-> once[k]]
      /\ \A k \in Key : IF Exists(rows, k)
                          THEN /\ once[k] \in Row /\ once[k].enabled = rows[k].enabled
                               /\ once[k].champion = (k = keep)
                               /\ weightMode = "auto" /\ (\E m \in DOMAIN metrics :
                                     m = k[1] /\ Exists(rows, Scored(m, metrics)))
                                  => once[k].weight = "auto"
                          ELSE once[k] = NoRow
  <2>1. CASE weightMode # "auto"
    BY <1>3, <1>4, <1>5, <2>1
  <2>2. CASE weightMode = "auto"
    <3>1. once = AutoWeights(crowned, metrics)
      BY <1>3, <2>2
    <3>2. once = [k \in Key |-> once[k]]
      BY <3>1 DEF AutoWeights
    <3>3. ASSUME NEW k \in Key, ~Exists(rows, k) PROVE once[k] = NoRow
      BY <1>4, <1>6, <3>1, <3>3 DEF AutoWeights
    <3>4. ASSUME NEW k \in Key, Exists(rows, k)
          PROVE  /\ once[k] \in Row /\ once[k].enabled = rows[k].enabled
                 /\ once[k].champion = (k = keep)
                 /\ (\E m \in DOMAIN metrics : m = k[1] /\ Exists(rows, Scored(m, metrics)))
                      => once[k].weight = "auto"
      <4>1. crowned[k] \in Row /\ crowned[k].enabled = rows[k].enabled
            /\ crowned[k].champion = (k = keep)
        BY <1>5, <3>4
      <4>2. PICK S : S = {m \in DOMAIN metrics : Exists(crowned, Scored(m, metrics))}
        OBVIOUS
      <4>3. once[k] = IF k[1] \in S THEN [crowned[k] EXCEPT !.weight = "auto"] ELSE crowned[k]
        BY <1>6, <3>1, <3>4, <4>2 DEF AutoWeights
      <4>4. (\E m \in DOMAIN metrics : m = k[1] /\ Exists(rows, Scored(m, metrics))) => k[1] \in S
        BY <1>6, <4>2 DEF Exists
      <4>5. /\ [crowned[k] EXCEPT !.weight = "auto"] \in Row
            /\ [crowned[k] EXCEPT !.weight = "auto"].enabled = crowned[k].enabled
            /\ [crowned[k] EXCEPT !.weight = "auto"].champion = crowned[k].champion
            /\ [crowned[k] EXCEPT !.weight = "auto"].weight = "auto"
        BY <4>1 DEF Row, Weight
      <4>. QED BY <4>1, <4>3, <4>4, <4>5
    <3>. QED BY <2>2, <3>2, <3>3, <3>4
  <2>. QED BY <2>1, <2>2
<1>8. \A k \in Key : Exists(once, k) <=> Exists(rows, k)
  BY <1>7, RowIsNotNoRow DEF Exists
<1>9. Champions(once) = {keep}
  BY <1>1, <1>7, <1>8 DEF Champions
<1>10. Eligible(once, metrics) = E
  <2>1. \A k : Exists(once, k) <=> Exists(rows, k)
    BY <1>8 DEF Exists
  <2>2. \A k : Exists(rows, k) => once[k].enabled = rows[k].enabled
    BY <1>7 DEF Exists
  <2>. QED BY <2>1, <2>2 DEF Eligible
<1>. QED BY <1>1, <1>7, <1>8, <1>9, <1>10

\* A repeated evaluation changes nothing.
LEMMA SelectionSettles ==
  ASSUME NEW rows \in Rows, AtMostOne(rows), NEW metrics \in Metrics, NEW weightMode
  PROVE  ReevaluationSettles(rows, metrics, weightMode)
<1>1. PICK E : E = Eligible(rows, metrics)
  OBVIOUS
<1>2. CASE E = {}
  BY <1>1, <1>2 DEF ReevaluationSettles, Select
<1>3. CASE E # {}
  <2>1. PICK w, b : w = Winner(rows, E, metrics) /\ b = Best(E, metrics)
    OBVIOUS
  <2>2. PICK keep : keep = Scored(w, metrics)
    OBVIOUS
  <2>3. PICK once : once = Select(rows, metrics, weightMode)
    OBVIOUS
  <2>4. /\ once = [k \in Key |-> once[k]] /\ keep \in Key /\ Exists(once, keep) /\ w \in E
        /\ \A k \in Key : IF Exists(rows, k)
                            THEN /\ once[k] \in Row /\ once[k].enabled = rows[k].enabled
                                 /\ once[k].champion = (k = keep)
                                 /\ weightMode = "auto" /\ (\E m \in DOMAIN metrics :
                                       m = k[1] /\ Exists(rows, Scored(m, metrics)))
                                    => once[k].weight = "auto"
                            ELSE once[k] = NoRow
        /\ \A k \in Key : Exists(once, k) <=> Exists(rows, k)
        /\ Champions(once) = {keep} /\ Eligible(once, metrics) = E
    BY <1>1, <1>3, <2>1, <2>2, <2>3, SelectCrowns
  <2>5. Incumbents(once, E, metrics) = {w}
    <3>1. keep[1] = w
      BY <2>2 DEF Scored
    <3>. QED BY <2>4, <3>1 DEF Incumbents
  <2>6. TooClose(b, w, metrics)
    <3>1. w = b \/ TooClose(b, w, metrics)
      BY <1>1, <1>3, <2>1, WinnerWins
    <3>2. CASE w = b
      <4>1. metrics[b].brier \in Nat /\ Margin \in Nat \ {0}
        BY <1>1, <2>4, <3>2, MetricsType, BrierAssumption DEF Eligible
      <4>. QED BY <3>2, <4>1 DEF TooClose
    <3>. QED BY <3>1, <3>2
  <2>7. Winner(once, E, metrics) = w
    BY <2>1, <2>5, <2>6 DEF Winner
  <2>8. OnlyChampion(once, keep) = once
    <3>1. ASSUME NEW k \in Key
          PROVE  (IF Exists(once, k) THEN [once[k] EXCEPT !.champion = (k = keep)] ELSE NoRow) = once[k]
      <4>1. CASE ~Exists(once, k)
        BY <2>4, <4>1
      <4>2. CASE Exists(once, k)
        <5>1. once[k] \in Row /\ once[k].champion = (k = keep)
          BY <2>4, <4>2
        <5>2. [once[k] EXCEPT !.champion = once[k].champion] = once[k]
          BY <5>1 DEF Row
        <5>. QED BY <4>2, <5>1, <5>2
      <4>. QED BY <4>1, <4>2
    <3>2. [k \in Key |-> IF Exists(once, k) THEN [once[k] EXCEPT !.champion = (k = keep)]
                         ELSE NoRow] = [k \in Key |-> once[k]]
      BY <3>1, Zenon
    <3>. QED BY <2>4, <3>2 DEF OnlyChampion
  <2>9. weightMode = "auto" => AutoWeights(once, metrics) = once
    <3> SUFFICES ASSUME weightMode = "auto" PROVE AutoWeights(once, metrics) = once
      OBVIOUS
    <3>1. PICK S : S = {m \in DOMAIN metrics : Exists(once, Scored(m, metrics))}
      OBVIOUS
    <3>2. ASSUME NEW k \in Key
          PROVE  (IF Exists(once, k) /\ k[1] \in S
                    THEN [once[k] EXCEPT !.weight = "auto"] ELSE once[k]) = once[k]
      <4>1. CASE Exists(once, k) /\ k[1] \in S
        <5>1. once[k] \in Row /\ once[k].weight = "auto"
          <6>1. \E m \in DOMAIN metrics : m = k[1] /\ Exists(rows, Scored(m, metrics))
            BY <2>4, <3>1, <4>1 DEF Exists
          <6>2. Exists(rows, k)
            BY <2>4, <4>1
          <6>. QED BY <2>4, <6>1, <6>2
        <5>2. [once[k] EXCEPT !.weight = once[k].weight] = once[k]
          BY <5>1 DEF Row
        <5>. QED BY <4>1, <5>1, <5>2
      <4>2. CASE ~(Exists(once, k) /\ k[1] \in S)
        BY <4>2
      <4>. QED BY <4>1, <4>2
    <3>3. [k \in Key |-> IF Exists(once, k) /\ k[1] \in S
                           THEN [once[k] EXCEPT !.weight = "auto"] ELSE once[k]]
            = [k \in Key |-> once[k]]
      BY <3>2, Zenon
    <3>. QED BY <2>4, <3>1, <3>3 DEF AutoWeights
  <2>10. Select(once, metrics, weightMode) = once
    BY <1>3, <2>2, <2>4, <2>7, <2>8, <2>9 DEF Select
  <2>. QED BY <2>3, <2>10 DEF ReevaluationSettles
<1>. QED BY <1>2, <1>3

\* Only a gap of at least the margin takes the title from a method that competes.
LEMMA MarginKeepsTitle ==
  ASSUME NEW rows \in Rows, AtMostOne(rows), NEW metrics \in Metrics, NEW weightMode
  PROVE  NarrowGapKeepsTitle(rows, metrics, weightMode)
<1>1. PICK E, once : E = Eligible(rows, metrics) /\ once = Select(rows, metrics, weightMode)
  OBVIOUS
<1> SUFFICES ASSUME NEW c \in Champions(rows), NEW d \in Champions(once),
                    c[1] \in E, d[1] # c[1]
             PROVE  metrics[d[1]].brier + Margin <= metrics[c[1]].brier
  BY <1>1 DEF NarrowGapKeepsTitle
<1>2. PICK w, b : w = Winner(rows, E, metrics) /\ b = Best(E, metrics)
  OBVIOUS
<1>3. PICK keep : keep = Scored(w, metrics)
  OBVIOUS
<1>4. Champions(once) = {keep} /\ w \in E
  BY <1>1, <1>2, <1>3, SelectCrowns
<1>5. d[1] = w
  BY <1>3, <1>4 DEF Scored
<1>6. w = b /\ ~TooClose(b, c[1], metrics)
  BY <1>1, <1>2, <1>5, WinnerWins
<1>7. metrics[w].brier \in Nat /\ metrics[c[1]].brier \in Nat /\ Margin \in Nat
  BY <1>1, <1>4, MetricsType, BrierAssumption DEF Eligible
<1>. QED BY <1>5, <1>6, <1>7 DEF TooClose

\* From every registry that governance leaves, a re-evaluation that is repeated
\* changes nothing, and only a gap of at least the margin takes the title from a
\* method that competes, whatever was measured (apply_champion_selection).
THEOREM EvaluationsSettle ==
  Spec => [](\A metrics \in Metrics, weightMode \in Mode :
               /\ ReevaluationSettles(row, metrics, weightMode)
               /\ NarrowGapKeepsTitle(row, metrics, weightMode))
<1>1. Inv => \A metrics \in Metrics, weightMode \in Mode :
               /\ ReevaluationSettles(row, metrics, weightMode)
               /\ NarrowGapKeepsTitle(row, metrics, weightMode)
  <2> SUFFICES ASSUME Inv, NEW metrics \in Metrics, NEW weightMode \in Mode
               PROVE  /\ ReevaluationSettles(row, metrics, weightMode)
                      /\ NarrowGapKeepsTitle(row, metrics, weightMode)
    OBVIOUS
  <2>1. row \in Rows /\ AtMostOne(row)
    BY DEF Inv, TypeOK, SingleChampion, AtMostOne
  <2>. QED BY <2>1, SelectionSettles, MarginKeepsTitle
<1>. QED BY <1>1, Invariant, PTL

\* From any registry with one champion at most, evaluation after evaluation: the
\* title neither flips when an evaluation is repeated nor on a narrow gap, for any
\* methods, versions, scores and margin (apply_champion_selection).
THEOREM TitleSettles == ChampionSpec => []ChampionSettled
<1> DEFINE Fit == standing \in Rows /\ AtMostOne(standing)
<1>1. ChampionInit => Fit
  BY DEF ChampionInit, AtMostOne
<1>2. Fit /\ [Evaluate]_championVars => Fit'
  <2> SUFFICES ASSUME Fit, [Evaluate]_championVars PROVE Fit'
    OBVIOUS
  <2>1. CASE UNCHANGED championVars
    BY <2>1 DEF championVars, AtMostOne, Champions, Exists
  <2>2. CASE Evaluate
    <3>1. PICK metrics \in Metrics : standing' = Select(standing, metrics, weighting)
      BY <2>2 DEF Evaluate
    <3>2. SoundAfter(standing, Select(standing, metrics, weighting))
      BY SelectSound
    <3>. QED BY <3>1, <3>2 DEF SoundAfter, AtMostOne, Champions, Exists
  <2>. QED BY <2>1, <2>2
<1>3. Fit => ChampionSettled
  BY SelectionSettles, MarginKeepsTitle DEF ChampionSettled
<1>. QED BY <1>1, <1>2, <1>3, PTL DEF ChampionSpec

-----------------------------------------------------------------------------
(* Training, for any matches, tables, late results, cuts and least sizes.  *)

\* Everything a table's numbers come from kicked off before their match.
EarlierOnly(at, table) ==
  /\ table = [m \in DOMAIN table |-> table[m]]
  /\ \A m \in DOMAIN table :
       m \in Match /\ \A n \in table[m] : n \in Match /\ at[n].kick < at[m].kick

\* A pass knows what it has folded, and has folded what is before the rest.
PassOK ==
  /\ stage \in {"start", "read"} => folded = {} /\ known = Unrated
  /\ \A t \in Team : known[t] \subseteq folded
  /\ \A n \in folded, m \in left : fx[n].kick < fx[m].kick

\* The tables have a row of each match that the later steps look up.
RowsOK ==
  /\ stage = "table" => tabled \subseteq left \cup DOMAIN seen["features"]
  /\ stage \in {"ratings", "lightgbm", "consensus"} => tabled \subseteq DOMAIN seen["features"]
  /\ stage = "ratings" => \A r \in Rated : listed \subseteq left \cup DOMAIN seen[r]
  /\ stage \in {"lightgbm", "consensus"} => \A r \in Rated : listed \subseteq DOMAIN seen[r]

WalkTyped ==
  /\ fx \in Schedules
  /\ finished \subseteq Match /\ listed \subseteq Match /\ tabled \subseteq Match
  /\ stage \in Stage /\ left \subseteq Match /\ folded \subseteq Match
  /\ known \in [Team -> SUBSET Match]
  /\ seen = [r \in Result |-> seen[r]]

SeenOK == \A r \in Result : EarlierOnly(fx, seen[r])

WalkHolds == WalkTyped /\ PassOK /\ RowsOK /\ SeenOK

\* A table with the numbers of some rows put into it; they may come from
\* earlier matches only.
Grown(table, rows, vals) ==
  [m \in DOMAIN table \cup rows |-> IF m \in rows THEN vals[m] ELSE table[m]]

LEMMA GrownEarlier ==
  ASSUME NEW at, NEW table, NEW rows, NEW vals,
         EarlierOnly(at, table), rows \subseteq Match,
         \A m \in rows : \A n \in vals[m] : n \in Match /\ at[n].kick < at[m].kick
  PROVE  EarlierOnly(at, Grown(table, rows, vals))
  <1> DEFINE updated == Grown(table, rows, vals)
  <1>1. DOMAIN updated = DOMAIN table \cup rows
    BY DEF Grown
  <1>2. ASSUME NEW m \in DOMAIN updated
        PROVE  m \in Match /\ \A n \in updated[m] : n \in Match /\ at[n].kick < at[m].kick
    <2>1. CASE m \in rows
      BY <1>1, <2>1 DEF Grown
    <2>2. CASE m \notin rows
      BY <1>1, <2>2 DEF EarlierOnly, Grown
    <2> QED
      BY <2>1, <2>2
  <1>3. updated = [m \in DOMAIN updated |-> updated[m]]
    BY DEF Grown
  <1> QED
    BY <1>1, <1>2, <1>3 DEF EarlierOnly

\* A table of a fixture has kickoffs of its matches and sides among the teams.
LEMMA FixtureTyped ==
  ASSUME fx \in Schedules, NEW m \in Match
  PROVE  /\ fx[m] \in Fixture /\ fx[m].kick \in Nat /\ fx[m].timed \in BOOLEAN
         /\ fx[m].home \in Team /\ fx[m].away \in Team
         /\ ~fx[m].timed => fx[m].kick % 3 = 1
  <1>1. fx \in [Match -> Fixture]
    BY ScheduleAssumption
  <1>2. fx[m] \in Fixture
    BY <1>1
  <1> QED
    BY <1>2, ScheduleAssumption DEF Fixture

\* Nothing is computed yet.
LEMMA WalkBegins == WalkInit => WalkHolds
  <1> SUFFICES ASSUME WalkInit PROVE WalkHolds
    OBVIOUS
  <1> USE DEF WalkInit
  <1>1. WalkTyped
    BY MatchAssumption DEF WalkTyped, Stage, Unrated, Nothing
  <1>2. PassOK
    BY DEF PassOK, Unrated
  <1>3. RowsOK
    BY DEF RowsOK
  <1>4. SeenOK
    BY DEF SeenOK, EarlierOnly, Nothing, Empty
  <1> QED
    BY <1>1, <1>2, <1>3, <1>4 DEF WalkHolds

\* A pass that folds the next batch stays ordered, and its numbers come from
\* what it had folded.
LEMMA BatchFolded ==
  ASSUME WalkTyped, PassOK, fx' = fx,
         known' = Update(Batch), folded' = folded \cup Batch, left' = left \ Batch
  PROVE  /\ Batch \subseteq left /\ Batch \subseteq Match
         /\ known' \in [Team -> SUBSET Match]
         /\ \A t \in Team : known'[t] \subseteq folded'
         /\ \A n \in folded', m \in left' : fx'[n].kick < fx'[m].kick
         /\ \A m \in Batch : /\ RatingsOf(m) \subseteq folded /\ FeatureRow(m) \subseteq folded
                             /\ \A n \in folded : n \in Match /\ fx[n].kick < fx[m].kick
  <1>1. Batch \subseteq left /\ left \subseteq Match /\ folded \subseteq Match
    BY DEF Batch, WalkTyped
  <1>2. \A m \in Match : RatingsOf(m) \subseteq folded
    BY FixtureTyped DEF RatingsOf, WalkTyped, PassOK
  <1>3. \A m \in Match : FeatureRow(m) \subseteq folded
    BY <1>2 DEF FeatureRow, LeaguePrior
  <1>4. \A m \in Batch, n \in folded : n \in Match /\ fx[n].kick < fx[m].kick
    BY <1>1 DEF PassOK
  <1>5. \A t \in Team : Rate(t, Batch) \subseteq folded \cup Batch
    <2> SUFFICES ASSUME NEW t \in Team, NEW n \in Rate(t, Batch) PROVE n \in folded \cup Batch
      OBVIOUS
    <2>1. CASE n \in known[t]
      BY <2>1 DEF PassOK
    <2>2. CASE \E m \in {b \in Batch : t \in Sides(b)} : n \in {m} \cup RatingsOf(m)
      BY <2>2, <1>1, <1>2
    <2> QED
      BY <2>1, <2>2 DEF Rate
  <1>6. known' \in [Team -> SUBSET Match] /\ \A t \in Team : known'[t] = Rate(t, Batch)
    BY <1>1, <1>5 DEF Update
  <1>7. ASSUME NEW n \in folded \cup Batch, NEW m \in left \ Batch
        PROVE  fx[n].kick < fx[m].kick
    <2>1. CASE n \in folded
      BY <2>1 DEF PassOK
    <2>2. CASE n \in Batch
      <3>1. PICK k \in left : ~(fx[m].kick <= fx[k].kick)
        BY DEF Batch
      <3>2. fx[n].kick <= fx[k].kick
        BY <2>2 DEF Batch
      <3>3. fx[n].kick \in Nat /\ fx[m].kick \in Nat /\ fx[k].kick \in Nat
        BY <1>1, <2>2, FixtureTyped DEF WalkTyped
      <3> QED
        BY <3>1, <3>2, <3>3
    <2> QED
      BY <2>1, <2>2
  <1> QED
    BY <1>1, <1>2, <1>3, <1>4, <1>5, <1>6, <1>7

\* A batch of build_feature_table.
LEMMA AdvanceBatchKeeps == WalkHolds /\ AdvanceBatch => WalkHolds'
  <1> SUFFICES ASSUME WalkHolds, AdvanceBatch PROVE WalkHolds'
    OBVIOUS
  <1> USE DEF WalkHolds
  <1>1. /\ stage = "table" /\ stage' = stage /\ fx' = fx /\ finished' = finished
        /\ listed' = listed /\ tabled' = tabled
        /\ known' = Update(Batch) /\ folded' = folded \cup Batch /\ left' = left \ Batch
    BY DEF AdvanceBatch
  <1>2. /\ Batch \subseteq left /\ Batch \subseteq Match
        /\ known' \in [Team -> SUBSET Match]
        /\ \A t \in Team : known'[t] \subseteq folded'
        /\ \A n \in folded', m \in left' : fx'[n].kick < fx'[m].kick
        /\ \A m \in Batch : /\ RatingsOf(m) \subseteq folded /\ FeatureRow(m) \subseteq folded
                            /\ \A n \in folded : n \in Match /\ fx[n].kick < fx[m].kick
    BY <1>1, BatchFolded
  <1>3. PICK vals : vals = [m \in Batch |-> FeatureRow(m)]
    OBVIOUS
  <1>4. PICK updated : updated = Grown(seen["features"], Batch, vals)
    OBVIOUS
  <1>5. seen' = [seen EXCEPT !["features"] = updated]
    BY <1>3, <1>4 DEF AdvanceBatch, Put, Grown
  <1>6. EarlierOnly(fx, updated) /\ DOMAIN updated = DOMAIN seen["features"] \cup Batch
    <2>1. EarlierOnly(fx, seen["features"])
      BY DEF SeenOK, Result
    <2>2. \A m \in Batch : \A n \in vals[m] : n \in Match /\ fx[n].kick < fx[m].kick
      BY <1>2, <1>3
    <2>3. EarlierOnly(fx, Grown(seen["features"], Batch, vals))
      BY <2>1, <2>2, <1>2, GrownEarlier
    <2> QED
      BY <2>3, <1>4 DEF Grown
  <1>7. /\ seen' = [r \in Result |-> seen'[r]] /\ seen'["features"] = updated
        /\ \A r \in Result : r # "features" => seen'[r] = seen[r]
    BY <1>5 DEF WalkTyped, Result
  <1>8. WalkTyped'
    BY <1>1, <1>2, <1>7 DEF WalkTyped
  <1>9. PassOK'
    BY <1>1, <1>2 DEF PassOK
  <1>10. RowsOK'
    BY <1>1, <1>2, <1>6, <1>7 DEF RowsOK
  <1>11. SeenOK'
    BY <1>1, <1>6, <1>7 DEF SeenOK
  <1> QED
    BY <1>8, <1>9, <1>10, <1>11

\* A batch of the three rating passes.
LEMMA RunPassesKeeps == WalkHolds /\ RunPasses => WalkHolds'
  <1> SUFFICES ASSUME WalkHolds, RunPasses PROVE WalkHolds'
    OBVIOUS
  <1> USE DEF WalkHolds
  <1>1. /\ stage = "ratings" /\ stage' = stage /\ fx' = fx /\ finished' = finished
        /\ listed' = listed /\ tabled' = tabled
        /\ known' = Update(Batch) /\ folded' = folded \cup Batch /\ left' = left \ Batch
    BY DEF RunPasses
  <1>2. /\ Batch \subseteq left /\ Batch \subseteq Match
        /\ known' \in [Team -> SUBSET Match]
        /\ \A t \in Team : known'[t] \subseteq folded'
        /\ \A n \in folded', m \in left' : fx'[n].kick < fx'[m].kick
        /\ \A m \in Batch : /\ RatingsOf(m) \subseteq folded /\ FeatureRow(m) \subseteq folded
                            /\ \A n \in folded : n \in Match /\ fx[n].kick < fx[m].kick
    BY <1>1, BatchFolded
  <1>3. PICK rating : rating = [m \in Batch |-> RatingsOf(m)]
    OBVIOUS
  <1>4. PICK average : average = [m \in Batch |-> folded]
    OBVIOUS
  <1>5. PICK elo : elo = Grown(seen["elo"], Batch, rating)
    OBVIOUS
  <1>6. PICK glicko : glicko = Grown(seen["glicko2"], Batch, rating)
    OBVIOUS
  <1>7. PICK coles : coles = Grown(seen["dixon_coles"], Batch, average)
    OBVIOUS
  <1>8. seen' = [seen EXCEPT !["elo"] = elo, !["glicko2"] = glicko, !["dixon_coles"] = coles]
    BY <1>3, <1>4, <1>5, <1>6, <1>7
    DEF RunPasses, Put, Grown, RunElo, RunGlicko, RunDixonColes, WalkTyped, Result, Rated
  <1>9. \A r \in Rated : EarlierOnly(fx, seen[r])
    BY DEF SeenOK, Result
  <1>10. /\ \A m \in Batch : \A n \in rating[m] : n \in Match /\ fx[n].kick < fx[m].kick
         /\ \A m \in Batch : \A n \in average[m] : n \in Match /\ fx[n].kick < fx[m].kick
    BY <1>2, <1>3, <1>4
  <1>11. EarlierOnly(fx, elo) /\ DOMAIN elo = DOMAIN seen["elo"] \cup Batch
    <2>1. EarlierOnly(fx, Grown(seen["elo"], Batch, rating))
      BY <1>2, <1>9, <1>10, GrownEarlier DEF Rated
    <2> QED
      BY <2>1, <1>5 DEF Grown
  <1>12. EarlierOnly(fx, glicko) /\ DOMAIN glicko = DOMAIN seen["glicko2"] \cup Batch
    <2>1. EarlierOnly(fx, Grown(seen["glicko2"], Batch, rating))
      BY <1>2, <1>9, <1>10, GrownEarlier DEF Rated
    <2> QED
      BY <2>1, <1>6 DEF Grown
  <1>13. EarlierOnly(fx, coles) /\ DOMAIN coles = DOMAIN seen["dixon_coles"] \cup Batch
    <2>1. EarlierOnly(fx, Grown(seen["dixon_coles"], Batch, average))
      BY <1>2, <1>9, <1>10, GrownEarlier DEF Rated
    <2> QED
      BY <2>1, <1>7 DEF Grown
  <1>14. /\ seen' = [r \in Result |-> seen'[r]]
         /\ seen'["elo"] = elo /\ seen'["glicko2"] = glicko /\ seen'["dixon_coles"] = coles
         /\ \A r \in Result \ Rated : seen'[r] = seen[r]
    BY <1>8 DEF WalkTyped, Result, Rated
  <1>15. WalkTyped'
    BY <1>1, <1>2, <1>14 DEF WalkTyped
  <1>16. PassOK'
    BY <1>1, <1>2 DEF PassOK
  <1>17. RowsOK'
    <2>1. \A r \in Rated : DOMAIN seen'[r] = DOMAIN seen[r] \cup Batch
      BY <1>11, <1>12, <1>13, <1>14 DEF Rated
    <2>2. seen'["features"] = seen["features"]
      BY <1>14 DEF Result, Rated
    <2> QED
      BY <1>1, <1>2, <2>1, <2>2 DEF RowsOK
  <1>18. SeenOK'
    <2>1. \A r \in Rated : EarlierOnly(fx, seen'[r])
      BY <1>11, <1>12, <1>13, <1>14 DEF Rated
    <2> QED
      BY <1>1, <1>14, <2>1 DEF SeenOK
  <1> QED
    BY <1>15, <1>16, <1>17, <1>18

\* What a model fitted on rows, or the stack, has learnt is from before a match
\* that all the rows precede.
LEMMA FittedEarlier ==
  ASSUME WalkTyped, SeenOK, NEW m \in Match, NEW rows, rows \subseteq Match,
         rows \subseteq DOMAIN seen["features"],
         \A k \in rows : fx[k].kick < fx[m].kick
  PROVE  \A n \in Fitted(rows) : n \in Match /\ fx[n].kick < fx[m].kick
  <1> SUFFICES ASSUME NEW n \in Fitted(rows) PROVE n \in Match /\ fx[n].kick < fx[m].kick
    OBVIOUS
  <1>1. CASE n \in rows
    BY <1>1
  <1>2. CASE \E k \in rows : n \in seen["features"][k]
    <2>1. PICK k \in rows : n \in seen["features"][k]
      BY <1>2
    <2>2. EarlierOnly(fx, seen["features"])
      BY DEF SeenOK, Result
    <2>3. n \in Match /\ fx[n].kick < fx[k].kick /\ k \in Match
      BY <2>1, <2>2 DEF EarlierOnly
    <2>4. fx[n].kick \in Nat /\ fx[k].kick \in Nat /\ fx[m].kick \in Nat
      BY <2>3, FixtureTyped DEF WalkTyped
    <2> QED
      BY <2>3, <2>4
  <1> QED
    BY <1>1, <1>2 DEF Fitted

\* So is what the base methods say of the match, with such a model.
LEMMA StackedEarlier ==
  ASSUME WalkTyped, SeenOK, NEW m \in Match, NEW model,
         m \in DOMAIN seen["features"], \A r \in Rated : m \in DOMAIN seen[r],
         \A n \in model : n \in Match /\ fx[n].kick < fx[m].kick
  PROVE  \A n \in Stacked(m, model) : n \in Match /\ fx[n].kick < fx[m].kick
  <1>1. \A r \in Rated \cup {"features"} : EarlierOnly(fx, seen[r])
    BY DEF SeenOK, Result
  <1>2. \A r \in Rated \cup {"features"} : \A n \in seen[r][m] : n \in Match /\ fx[n].kick < fx[m].kick
    <2> SUFFICES ASSUME NEW r \in Rated \cup {"features"}
                 PROVE  \A n \in seen[r][m] : n \in Match /\ fx[n].kick < fx[m].kick
      OBVIOUS
    <2>1. m \in DOMAIN seen[r] /\ EarlierOnly(fx, seen[r])
      BY <1>1
    <2> QED
      BY <2>1 DEF EarlierOnly
  <1> QED
    BY <1>2 DEF Stacked

\* The same of what is learnt from the rows of a table that precede it.
LEMMA LearntEarlier ==
  ASSUME WalkTyped, NEW m \in Match, NEW table, EarlierOnly(fx, table),
         \A k \in DOMAIN table : fx[k].kick < fx[m].kick
  PROVE  \A n \in Learnt(table) : n \in Match /\ fx[n].kick < fx[m].kick
  <1> SUFFICES ASSUME NEW n \in Learnt(table) PROVE n \in Match /\ fx[n].kick < fx[m].kick
    OBVIOUS
  <1>1. CASE n \in DOMAIN table
    BY <1>1 DEF EarlierOnly
  <1>2. CASE \E k \in DOMAIN table : n \in table[k]
    <2>1. PICK k \in DOMAIN table : n \in table[k]
      BY <1>2
    <2>2. n \in Match /\ fx[n].kick < fx[k].kick /\ k \in Match
      BY <2>1 DEF EarlierOnly
    <2>3. fx[n].kick \in Nat /\ fx[k].kick \in Nat /\ fx[m].kick \in Nat
      BY <2>2, FixtureTyped DEF WalkTyped
    <2> QED
      BY <2>1, <2>2, <2>3
  <1> QED
    BY <1>1, <1>2 DEF Learnt

\* train_lightgbm fits on the windows before the one that it predicts.
LEMMA TrainLightgbmKeeps == WalkHolds /\ TrainLightgbm => WalkHolds'
  <1> SUFFICES ASSUME WalkHolds, TrainLightgbm PROVE WalkHolds'
    OBVIOUS
  <1> USE DEF WalkHolds
  <1>1. /\ stage = "lightgbm" /\ stage' = "consensus" /\ fx' = fx /\ finished' = finished
        /\ listed' = listed /\ tabled' = tabled /\ left' = left /\ folded' = folded
        /\ known' = known
    BY DEF TrainLightgbm
  <1>2. PICK w : w = TemporalWindows(tabled, LightgbmCuts)
    OBVIOUS
  <1>3. DOMAIN w = 0..2 /\ \A k \in 0..2 : w[k] \subseteq tabled
    BY <1>2, WindowAssumption DEF TemporalWindows, Window
  <1>4. PICK table : table = [m \in w[2] |-> Fitted(w[0] \cup w[1]) \cup seen["features"][m]]
    OBVIOUS
  <1>5. OrderedDisjoint(w) /\ (seen' = seen \/ seen' = [seen EXCEPT !["lightgbm"] = table])
    BY <1>2, <1>4 DEF TrainLightgbm
  <1>6. EarlierOnly(fx, table)
    <2> SUFFICES ASSUME NEW m \in w[2]
                 PROVE  m \in Match /\ \A n \in table[m] : n \in Match /\ fx[n].kick < fx[m].kick
      BY <1>4 DEF EarlierOnly
    <2>1. m \in Match /\ tabled \subseteq Match /\ tabled \subseteq DOMAIN seen["features"]
      BY <1>1, <1>3 DEF WalkTyped, RowsOK
    <2>2. \A k \in w[0] \cup w[1] : fx[k].kick < fx[m].kick
      BY <1>3, <1>5 DEF OrderedDisjoint
    <2>3. \A n \in Fitted(w[0] \cup w[1]) : n \in Match /\ fx[n].kick < fx[m].kick
      BY <1>3, <2>1, <2>2, FittedEarlier
    <2>4. \A n \in seen["features"][m] : n \in Match /\ fx[n].kick < fx[m].kick
      <3>1. EarlierOnly(fx, seen["features"]) /\ m \in DOMAIN seen["features"]
        BY <1>3, <2>1 DEF SeenOK, Result
      <3> QED
        BY <3>1 DEF EarlierOnly
    <2> QED
      BY <1>4, <2>1, <2>3, <2>4
  <1>7. /\ seen' = [r \in Result |-> seen'[r]]
        /\ \A r \in Result : r # "lightgbm" => seen'[r] = seen[r]
        /\ seen'["lightgbm"] = seen["lightgbm"] \/ seen'["lightgbm"] = table
    BY <1>5 DEF WalkTyped, Result
  <1>8. WalkTyped'
    BY <1>1, <1>7 DEF WalkTyped, Stage
  <1>9. PassOK'
    BY <1>1 DEF PassOK
  <1>10. RowsOK'
    <2>1. \A r \in Rated \cup {"features"} : seen'[r] = seen[r]
      BY <1>7 DEF Result, Rated
    <2> QED
      BY <1>1, <2>1 DEF RowsOK
  <1>11. SeenOK'
    BY <1>1, <1>6, <1>7 DEF SeenOK
  <1> QED
    BY <1>8, <1>9, <1>10, <1>11

\* train_consensus: the blocks precede one another, the windows too.
LEMMA TrainConsensusKeeps == WalkHolds /\ TrainConsensus => WalkHolds'
  <1> SUFFICES ASSUME WalkHolds, TrainConsensus PROVE WalkHolds'
    OBVIOUS
  <1> USE DEF WalkHolds
  <1>1. /\ stage = "consensus" /\ stage' = "done" /\ fx' = fx /\ finished' = finished
        /\ listed' = listed /\ tabled' = tabled /\ left' = left /\ folded' = folded
        /\ known' = known
    BY DEF TrainConsensus
  <1>2. PICK w : w = Windows
    OBVIOUS
  <1>3. PICK b : b = Blocks
    OBVIOUS
  <1>4. DOMAIN w = 0..2 /\ \A k \in 0..2 : w[k] \subseteq tabled
    BY <1>2, WindowAssumption DEF Windows, TemporalWindows, Window
  <1>5. DOMAIN b = 0..3 /\ \A k \in 0..3 : b[k] \subseteq w[0]
    BY <1>2, <1>3, WindowAssumption DEF Blocks, Region, TemporalWindows, Window
  <1>6. OrderedDisjoint(w) /\ OrderedDisjoint(b)
    BY <1>2, <1>3 DEF TrainConsensus
  <1>7. PICK meta : meta = [m \in MetaRows |-> MetaInput(m)]
    OBVIOUS
  <1>8. PICK calibration : calibration = [m \in w[1] |-> Stacked(m, Fitted(w[0]))]
    OBVIOUS
  <1>9. PICK base : base = Fitted(w[0] \cup w[1])
    OBVIOUS
  <1>10. PICK consensus : consensus = [m \in w[2] |-> Calibrated(m, base, meta, calibration)]
    OBVIOUS
  <1>11. seen' = [seen EXCEPT !["meta"] = meta, !["calibration"] = calibration,
                              !["consensus"] = consensus]
    BY <1>2, <1>7, <1>8, <1>9, <1>10 DEF TrainConsensus, Region
  <1>12. /\ tabled \subseteq Match /\ tabled \subseteq DOMAIN seen["features"]
         /\ \A r \in Rated : tabled \subseteq DOMAIN seen[r]
    BY <1>1 DEF WalkTyped, RowsOK, TrainConsensus, BasesMissing
  <1>13. MetaRows = b[1] \cup b[2] \cup b[3] /\ MetaRows \subseteq w[0]
    BY <1>3, <1>5 DEF MetaRows
  <1>14. EarlierOnly(fx, meta)
    <2> SUFFICES ASSUME NEW m \in MetaRows
                 PROVE  m \in Match /\ \A n \in meta[m] : n \in Match /\ fx[n].kick < fx[m].kick
      BY <1>7 DEF EarlierOnly
    <2>1. m \in tabled /\ m \in Match
      BY <1>4, <1>12, <1>13
    <2>2. PICK k \in 1..3 : m \in b[k] /\ k = CHOOSE c \in 1..3 : m \in b[c]
      BY <1>13
    <2>3. PICK rows : rows = UNION {b[a] : a \in 0..(k - 1)}
      OBVIOUS
    <2>4. meta[m] = Stacked(m, Fitted(rows))
      BY <1>3, <1>7, <2>2, <2>3 DEF MetaInput, OofModel
    <2>5. rows \subseteq tabled
      BY <1>4, <1>5, <2>3
    <2>6. \A n \in rows : fx[n].kick < fx[m].kick
      BY <1>5, <1>6, <2>2, <2>3 DEF OrderedDisjoint
    <2>7. \A n \in Fitted(rows) : n \in Match /\ fx[n].kick < fx[m].kick
      BY <1>12, <2>1, <2>5, <2>6, FittedEarlier
    <2>8. \A n \in Stacked(m, Fitted(rows)) : n \in Match /\ fx[n].kick < fx[m].kick
      BY <1>12, <2>1, <2>7, StackedEarlier
    <2> QED
      BY <2>1, <2>4, <2>8
  <1>15. EarlierOnly(fx, calibration)
    <2> SUFFICES ASSUME NEW m \in w[1]
                 PROVE  m \in Match
                        /\ \A n \in calibration[m] : n \in Match /\ fx[n].kick < fx[m].kick
      BY <1>8 DEF EarlierOnly
    <2>1. m \in tabled /\ m \in Match
      BY <1>4, <1>12
    <2>2. \A n \in w[0] : fx[n].kick < fx[m].kick
      BY <1>4, <1>6 DEF OrderedDisjoint
    <2>3. \A n \in Fitted(w[0]) : n \in Match /\ fx[n].kick < fx[m].kick
      BY <1>4, <1>12, <2>1, <2>2, FittedEarlier
    <2>4. \A n \in Stacked(m, Fitted(w[0])) : n \in Match /\ fx[n].kick < fx[m].kick
      BY <1>12, <2>1, <2>3, StackedEarlier
    <2> QED
      BY <1>8, <2>1, <2>4
  <1>16. EarlierOnly(fx, consensus)
    <2> SUFFICES ASSUME NEW m \in w[2]
                 PROVE  m \in Match
                        /\ \A n \in consensus[m] : n \in Match /\ fx[n].kick < fx[m].kick
      BY <1>10 DEF EarlierOnly
    <2>1. m \in tabled /\ m \in Match
      BY <1>4, <1>12
    <2>2. \A n \in w[0] \cup w[1] : fx[n].kick < fx[m].kick
      BY <1>4, <1>6 DEF OrderedDisjoint
    <2>3. \A n \in base : n \in Match /\ fx[n].kick < fx[m].kick
      BY <1>4, <1>9, <1>12, <2>1, <2>2, FittedEarlier
    <2>4. \A n \in Stacked(m, base) : n \in Match /\ fx[n].kick < fx[m].kick
      BY <1>12, <2>1, <2>3, StackedEarlier
    <2>5. \A n \in Learnt(meta) : n \in Match /\ fx[n].kick < fx[m].kick
      <3>1. \A k \in DOMAIN meta : fx[k].kick < fx[m].kick
        BY <1>7, <1>13, <2>2
      <3> QED
        BY <1>14, <2>1, <3>1, LearntEarlier
    <2>6. \A n \in Learnt(calibration) : n \in Match /\ fx[n].kick < fx[m].kick
      <3>1. \A k \in DOMAIN calibration : fx[k].kick < fx[m].kick
        BY <1>8, <2>2
      <3> QED
        BY <1>15, <2>1, <3>1, LearntEarlier
    <2>7. consensus[m] = Stacked(m, base) \cup Learnt(meta) \cup Learnt(calibration)
      BY <1>10 DEF Calibrated
    <2> QED
      BY <2>1, <2>4, <2>5, <2>6, <2>7
  <1>17. /\ seen' = [r \in Result |-> seen'[r]]
         /\ seen'["meta"] = meta /\ seen'["calibration"] = calibration
         /\ seen'["consensus"] = consensus
         /\ \A r \in Rated \cup {"features", "lightgbm"} : seen'[r] = seen[r]
    BY <1>11 DEF WalkTyped, Result, Rated
  <1>18. WalkTyped'
    BY <1>1, <1>17 DEF WalkTyped, Stage
  <1>19. PassOK'
    BY <1>1 DEF PassOK
  <1>20. RowsOK'
    BY <1>1 DEF RowsOK
  <1>21. SeenOK'
    BY <1>1, <1>14, <1>15, <1>16, <1>17 DEF SeenOK, Result
  <1> QED
    BY <1>18, <1>19, <1>20, <1>21

\* Every step of a training keeps all of it.
LEMMA WalkKeeps == WalkHolds /\ [WalkNext]_walkVars => WalkHolds'
  <1> SUFFICES ASSUME WalkHolds, [WalkNext]_walkVars PROVE WalkHolds'
    OBVIOUS
  <1> USE DEF WalkHolds
  <1>1. ASSUME NEW m \in Match, CommitResult(m) PROVE WalkHolds'
    BY <1>1 DEF CommitResult, WalkTyped, PassOK, RowsOK, SeenOK
  <1>2. CASE ReadFixtures
    BY <1>2 DEF ReadFixtures, WalkTyped, PassOK, RowsOK, SeenOK, Stage
  <1>3. CASE ReadTable
    BY <1>3 DEF ReadTable, WalkTyped, PassOK, RowsOK, SeenOK, Stage
  <1>4. CASE AdvanceBatch
    BY <1>4, AdvanceBatchKeeps
  <1>5. CASE TableDone
    BY <1>5 DEF TableDone, WalkTyped, PassOK, RowsOK, SeenOK, Stage, Unrated
  <1>6. CASE RunPasses
    BY <1>6, RunPassesKeeps
  <1>7. CASE PassesDone
    BY <1>7 DEF PassesDone, WalkTyped, PassOK, RowsOK, SeenOK, Stage
  <1>8. CASE TrainLightgbm
    BY <1>8, TrainLightgbmKeeps
  <1>9. CASE TrainConsensus
    BY <1>9, TrainConsensusKeeps
  <1>10. CASE SkipConsensus
    BY <1>10 DEF SkipConsensus, WalkTyped, PassOK, RowsOK, SeenOK, Stage
  <1>11. CASE Raise
    BY <1>11 DEF Raise, WalkTyped, PassOK, RowsOK, SeenOK, EarlierOnly, Stage, Nothing, Empty
  <1>12. CASE UNCHANGED walkVars
    BY <1>12 DEF walkVars, WalkTyped, PassOK, RowsOK, SeenOK
  <1> QED
    BY <1>1, <1>2, <1>3, <1>4, <1>5, <1>6, <1>7, <1>8, <1>9, <1>10, <1>11, <1>12
    DEF WalkNext, Trained

\* A match that kicks off before another of a uniform table was over before the
\* other may have begun: two matches of one day without a time share its noon.
LEMMA KickoffTellsTime ==
  ASSUME WalkTyped, UniformDays, NEW n \in Match, NEW m \in Match, fx[n].kick < fx[m].kick
  PROVE  Latest(n) < Earliest(m)
  <1>1. /\ fx[n].kick \in Nat /\ fx[n].timed \in BOOLEAN /\ (~fx[n].timed => fx[n].kick % 3 = 1)
        /\ fx[m].kick \in Nat /\ fx[m].timed \in BOOLEAN /\ (~fx[m].timed => fx[m].kick % 3 = 1)
    BY FixtureTyped DEF WalkTyped
  <1>2. PICK s \in Nat : s = fx[n].kick
    BY <1>1
  <1>3. PICK t \in Nat : t = fx[m].kick
    BY <1>1
  <1>4. s \div 3 = t \div 3 => fx[n].timed = fx[m].timed
    BY <1>2, <1>3 DEF UniformDays, Day
  <1>5. s < t
    BY <1>2, <1>3
  <1>6. /\ s \div 3 \in Nat /\ t \div 3 \in Nat
        /\ s = 3 * (s \div 3) + (s % 3) /\ s % 3 \in 0..2
        /\ t = 3 * (t \div 3) + (t % 3) /\ t % 3 \in 0..2
    OBVIOUS
  <1>7. PICK d \in Nat : d = s \div 3
    BY <1>6
  <1>8. PICK e \in Nat : e = t \div 3
    BY <1>6
  <1>9. PICK a \in 0..2 : a = s % 3 /\ s = 3 * d + a
    BY <1>6, <1>7
  <1>10. PICK b \in 0..2 : b = t % 3 /\ t = 3 * e + b
    BY <1>6, <1>8
  <1>11. (~fx[n].timed => a = 1) /\ (~fx[m].timed => b = 1)
    BY <1>1, <1>2, <1>3, <1>9, <1>10
  <1>12. /\ s >= 3 * d /\ s <= 3 * d + 2 /\ (~fx[n].timed => s = 3 * d + 1)
        /\ t >= 3 * e /\ t <= 3 * e + 2 /\ (~fx[m].timed => t = 3 * e + 1)
    BY <1>9, <1>10, <1>11
  <1>13. /\ Latest(n) = IF fx[n].timed THEN s ELSE 3 * d + 2
         /\ Earliest(m) = IF fx[m].timed THEN t ELSE 3 * e
    BY <1>2, <1>3, <1>7, <1>8 DEF Latest, Earliest, Day
  <1>14. CASE d = e
    BY <1>1, <1>4, <1>5, <1>7, <1>8, <1>12, <1>13, <1>14
  <1>15. CASE d # e
    BY <1>1, <1>5, <1>12, <1>13, <1>15
  <1> QED
    BY <1>14, <1>15

\* The types hold for any tables of fixtures.
THEOREM WalkTypeCorrect == WalkSpec => []WalkTypeOK
  <1>1. WalkHolds => WalkTypeOK
    <2> SUFFICES ASSUME WalkHolds, NEW r \in Result
                 PROVE  /\ DOMAIN seen[r] \subseteq Match
                        /\ seen[r] \in [DOMAIN seen[r] -> SUBSET Match]
      BY DEF WalkHolds, WalkTyped, WalkTypeOK
    <2>1. EarlierOnly(fx, seen[r])
      BY DEF WalkHolds, SeenOK
    <2> QED
      BY <2>1 DEF EarlierOnly
  <1> QED
    BY <1>1, WalkBegins, WalkKeeps, PTL DEF WalkSpec

\* No number of a training run comes from a match that may have been played at
\* the same time or later, if no day mixes matches with and without a time.
THEOREM NothingLooksAhead == WalkSpec => []NoLookAhead
  <1>1. WalkHolds => NoLookAhead
    <2> SUFFICES ASSUME WalkHolds, UniformDays, NEW r \in Result,
                        NEW m \in DOMAIN seen[r], NEW n \in seen[r][m]
                 PROVE  Latest(n) < Earliest(m)
      BY DEF NoLookAhead
    <2>1. m \in Match /\ n \in Match /\ fx[n].kick < fx[m].kick
      BY DEF WalkHolds, SeenOK, EarlierOnly
    <2> QED
      BY <2>1, KickoffTellsTime DEF WalkHolds
  <1> QED
    BY <1>1, WalkBegins, WalkKeeps, PTL DEF WalkSpec

-----------------------------------------------------------------------------
(***************************************************************************)
(* The data-quality report, for any fixtures, labels, quotes and windows.  *)
(*                                                                         *)
(* A write between two of its queries overtakes the report; one that       *)
(* nothing has overtaken has therefore read the stored state.  A scope has *)
(* a season's fixtures all or none, so what the report says of a season is *)
(* what the whole says of it; and a quote is unique per outcome and        *)
(* instant, so a complete snapshot is all there is at its instant.         *)
(***************************************************************************)

\* Every bounded set of numbers that has one has a greatest.
LEMMA GreatestNumber ==
  ASSUME NEW T, T \subseteq Nat, T # {}, NEW n \in Nat, \A x \in T : x <= n
  PROVE  \E x \in T : \A y \in T : y <= x
<1> DEFINE Down == {n - x : x \in T}
<1>1. Down \subseteq Nat /\ Down # {}
  <2>1. \A x \in T : n - x \in Nat
    OBVIOUS
  <2>2. Down \subseteq Nat
    BY <2>1
  <2>3. Down # {}
    OBVIOUS
  <2>. QED BY <2>2, <2>3
<1>2. PICK d \in Down : \A e \in Down : d <= e
  BY <1>1, LeastNumber
<1>3. PICK x \in T : d = n - x
  OBVIOUS
<1>4. ASSUME NEW y \in T PROVE y <= x
  <2>1. n - y \in Down
    OBVIOUS
  <2>. QED BY <1>2, <1>3, <2>1
<1>. QED BY <1>4


\* The greatest of a bounded set of numbers is one of them.
LEMMA MaxIsIn ==
  ASSUME NEW T, T \subseteq Nat, T # {}, NEW n \in Nat, \A x \in T : x <= n
  PROVE  Max(T) \in T
  <1>1. PICK x \in T : \A y \in T : y <= x
    BY GreatestNumber
  <1>2. \A y \in T : x >= y
    BY <1>1
  <1>3. \E z \in T : \A y \in T : z >= y
    BY <1>2
  <1> QED
    BY <1>3 DEF Max

\* What one report has read, restricted to some of the fixtures of another.
Restricts(r, a, d) ==
  /\ d = DOMAIN r.byId /\ d \subseteq DOMAIN a.byId
  /\ \A f \in d : r.byId[f] = a.byId[f]
  /\ r.conflicts = a.conflicts \cap d /\ a.conflicts \subseteq DOMAIN a.byId
  /\ 1 \in d => r.odds = a.odds
  /\ 1 \notin d => r.odds = {}

\* The issues of the single fixtures.
LEMMA FixturePart ==
  ASSUME NEW r, NEW a, NEW d, Restricts(r, a, d), NEW i
  PROVE  i \in FixtureIssues(r) <=> i \in FixtureIssues(a) /\ i.fixtures \cap d # {}
  BY DEF Restricts, FixtureIssues, Issue

\* The issues of the quotes, by what they depend on.
OddsSaid(rows, label, kick) ==
  {Issue("odds_price_out_of_range", label, {1}, o) : o \in {p \in rows : ~p.usable}}
  \cup {Issue("closing_after_kickoff", label, {1}, o) :
          o \in {p \in rows : p.closing /\ p.ts > kick}}
  \cup {Issue("incomplete_odds_snapshot", label, {1}, o) :
          o \in {{q \in rows : q.ts = p.ts} :
                   p \in {o \in rows :
                            Cardinality({q \in rows : q.ts = o.ts}) # Cardinality(Outcomes)}}}

\* And what they depend on is the first fixture alone.
LEMMA OddsSaidOf ==
  ASSUME NEW r PROVE OddsIssues(r) = OddsSaid(r.odds, r.byId[1].season, r.byId[1].kick)
  BY DEF OddsIssues, OddsSaid

\* So they are those of any report that has read that fixture.
LEMMA OddsPart ==
  ASSUME NEW r, NEW a, NEW d, Restricts(r, a, d), NEW i
  PROVE  i \in OddsIssues(r) <=> i \in OddsIssues(a) /\ i.fixtures \cap d # {}
  <1>1. CASE 1 \in d
    <2>1. OddsIssues(r) = OddsIssues(a)
      BY <1>1, OddsSaidOf DEF Restricts
    <2>2. i \in OddsIssues(r) => i.fixtures = {1}
      BY DEF OddsIssues, Issue
    <2> QED
      BY <2>1, <2>2, <1>1
  <1>2. CASE 1 \notin d
    <2>1. OddsIssues(r) = {}
      BY <1>2 DEF Restricts, OddsIssues
    <2>2. i \in OddsIssues(a) => i.fixtures = {1}
      BY DEF OddsIssues, Issue
    <2> QED
      BY <2>1, <2>2, <1>2
  <1> QED
    BY <1>1, <1>2

\* A season's fixtures are all in the scope, or none is.
Divides(r, a, d) ==
  \A s \in Groups(a) : Group(a, s) \subseteq d \/ Group(a, s) \cap d = {}

\* Then the groups that the part has are the whole ones.
LEMMA GroupPart ==
  ASSUME NEW r, NEW a, NEW d, Restricts(r, a, d), Divides(r, a, d)
  PROVE  /\ Groups(r) = {s \in Groups(a) : Group(a, s) \cap d # {}}
         /\ \A s \in Groups(r) : Group(r, s) = Group(a, s)
         /\ \A s \in Groups(a) : Group(a, s) # {}
  <1>1. ASSUME NEW s \in Groups(r)
        PROVE  s \in Groups(a) /\ Group(a, s) \cap d # {}
    BY DEF Groups, Group, Restricts
  <1>2. ASSUME NEW s \in Groups(a), Group(a, s) \cap d # {}
        PROVE  s \in Groups(r)
    BY <1>2 DEF Groups, Group, Restricts
  <1>3. ASSUME NEW s \in Groups(r) PROVE Group(r, s) = Group(a, s)
    <2>1. Group(a, s) \subseteq d
      BY <1>1 DEF Divides
    <2> QED
      BY <2>1 DEF Group, Restricts
  <1>4. ASSUME NEW s \in Groups(a) PROVE Group(a, s) # {}
    BY DEF Groups, Group
  <1> QED
    BY <1>1, <1>2, <1>3, <1>4


\* One season of a report, and what it makes the report say of the season.
Finished(r, s) == {f \in Group(r, s) : r.byId[f].finished}
Kicks(r, s) == {r.byId[f].kick : f \in Group(r, s)}
WithOdds(r, s) == IF Covered(r) THEN Finished(r, s) \cap {1} ELSE {}
Over(kicks) == Max(kicks) < Now - SeasonOverAfter
SeasonSays(code, s, group, ended, kicks, withOdds) ==
  \/ code = "non_canonical_season" /\ s \notin Canonical
  \/ code = "unusual_team_count"
  \/ code = "season_incomplete" /\ Over(kicks) /\ Cardinality(group) < 2
  \/ code = "uneven_team_schedule" /\ Over(kicks) /\ Cardinality(group) # 2
  \/ code = "odds_coverage_low" /\ 10 * Cardinality(withOdds) < 9 * Cardinality(ended)
OfSeason(r, i, s, code) ==
  /\ i = Issue(code, s, Group(r, s), {})
  /\ SeasonSays(code, s, Group(r, s), Finished(r, s), Kicks(r, s), WithOdds(r, s))

\* The issues of the seasons are what the groups make it say.
LEMMA SeasonSaidOf ==
  ASSUME NEW r, NEW i
  PROVE  i \in SeasonIssues(r) <=> \E s \in Groups(r) : \E code : OfSeason(r, i, s, code)
  <1>1. ASSUME i \in SeasonIssues(r)
        PROVE  \E s \in Groups(r) : \E code : OfSeason(r, i, s, code)
    BY <1>1 DEF SeasonIssues, OfSeason, SeasonSays, Finished, Kicks, WithOdds, Over
  <1>2. ASSUME NEW s \in Groups(r), NEW code, OfSeason(r, i, s, code)
        PROVE  i \in SeasonIssues(r)
    BY <1>2 DEF SeasonIssues, OfSeason, SeasonSays, Finished, Kicks, WithOdds, Over
  <1> QED
    BY <1>1, <1>2

\* The first fixture is covered in a part that has it as in the whole.
LEMMA CoveredPart ==
  ASSUME NEW r, NEW a, NEW d, Restricts(r, a, d), 1 \in d
  PROVE  Covered(r) <=> Covered(a)
  <1>1. r.odds = a.odds /\ r.byId[1] = a.byId[1]
    BY DEF Restricts
  <1> QED
    BY <1>1 DEF Covered

\* The issues of the seasons.
LEMMA SeasonPart ==
  ASSUME NEW r, NEW a, NEW d, Restricts(r, a, d), Divides(r, a, d), NEW i
  PROVE  i \in SeasonIssues(r) <=> i \in SeasonIssues(a) /\ i.fixtures \cap d # {}
  <1>1. ASSUME NEW s \in Groups(r)
        PROVE  /\ Group(r, s) = Group(a, s) /\ Finished(r, s) = Finished(a, s)
               /\ Kicks(r, s) = Kicks(a, s) /\ WithOdds(r, s) = WithOdds(a, s)
    <2>1. Group(r, s) = Group(a, s) /\ Group(r, s) \subseteq d
      BY GroupPart DEF Group, Restricts
    <2>2. \A f \in Group(r, s) : r.byId[f] = a.byId[f]
      BY <2>1 DEF Restricts
    <2>3. Finished(r, s) = Finished(a, s)
      BY <2>1, <2>2 DEF Finished
    <2>4. Kicks(r, s) = Kicks(a, s)
      BY <2>1, <2>2 DEF Kicks
    <2>5. CASE 1 \in d
      BY <2>1, <2>3, <2>4, <2>5, CoveredPart DEF WithOdds
    <2>6. CASE 1 \notin d
      <3>1. 1 \notin Finished(r, s)
        BY <2>1, <2>6 DEF Finished
      <3> QED
        BY <3>1, <2>1, <2>3, <2>4 DEF WithOdds
    <2> QED
      BY <2>5, <2>6
  <1>2. ASSUME NEW s \in Groups(r), NEW code
        PROVE  OfSeason(r, i, s, code) <=> OfSeason(a, i, s, code)
    BY <1>1 DEF OfSeason
  <1>3. ASSUME NEW s, NEW code, OfSeason(a, i, s, code) PROVE i.fixtures = Group(a, s)
    BY <1>3 DEF OfSeason, Issue
  <1>4. ASSUME i \in SeasonIssues(r)
        PROVE  i \in SeasonIssues(a) /\ i.fixtures \cap d # {}
    <2>1. PICK s \in Groups(r) : \E code : OfSeason(r, i, s, code)
      BY <1>4, SeasonSaidOf
    <2>2. PICK code : OfSeason(r, i, s, code)
      BY <2>1
    <2>3. s \in Groups(a) /\ Group(a, s) \cap d # {}
      BY GroupPart
    <2> QED
      BY <2>2, <2>3, <1>2, <1>3, SeasonSaidOf
  <1>5. ASSUME i \in SeasonIssues(a), i.fixtures \cap d # {}
        PROVE  i \in SeasonIssues(r)
    <2>1. PICK s \in Groups(a) : \E code : OfSeason(a, i, s, code)
      BY <1>5, SeasonSaidOf
    <2>2. PICK code : OfSeason(a, i, s, code)
      BY <2>1
    <2>3. s \in Groups(r)
      BY <2>2, <1>3, <1>5, GroupPart
    <2> QED
      BY <2>2, <2>3, <1>2, SeasonSaidOf
  <1> QED
    BY <1>4, <1>5

\* The pairs of a part are those of the whole that it has a fixture of.
PairsPart(r, a, d) ==
  r.pairs = {p \in a.pairs : {p.of[1], p.of[2]} \cap d # {}}

\* Their issues are the same but for the season they are counted under.
LEMMA PairPart ==
  ASSUME NEW r, NEW a, NEW d, PairsPart(r, a, d)
  PROVE  /\ \A i \in PairIssues(r) : \E j \in PairIssues(a) :
              /\ j.code = i.code /\ j.fixtures = i.fixtures /\ j.what = i.what
              /\ i.fixtures \cap d # {}
         /\ \A j \in PairIssues(a) : j.fixtures \cap d # {} => \E i \in PairIssues(r) :
              j.code = i.code /\ j.fixtures = i.fixtures /\ j.what = i.what
  <1>1. ASSUME NEW i \in PairIssues(r)
        PROVE  \E j \in PairIssues(a) :
                 /\ j.code = i.code /\ j.fixtures = i.fixtures /\ j.what = i.what
                 /\ i.fixtures \cap d # {}
    <2>1. PICK p \in r.pairs :
            i = Issue("duplicate_fixture",
                  IF p.of[1] \in DOMAIN r.byId THEN p.seasons[1] ELSE p.seasons[2],
                  {p.of[1], p.of[2]}, {})
      BY DEF PairIssues
    <2>2. p \in a.pairs /\ {p.of[1], p.of[2]} \cap d # {}
      BY DEF PairsPart
    <2> DEFINE j == Issue("duplicate_fixture",
                  IF p.of[1] \in DOMAIN a.byId THEN p.seasons[1] ELSE p.seasons[2],
                  {p.of[1], p.of[2]}, {})
    <2>3. j \in PairIssues(a)
      BY <2>2 DEF PairIssues
    <2>4. j.code = i.code /\ j.fixtures = i.fixtures /\ j.what = i.what
          /\ i.fixtures \cap d # {}
      BY <2>1, <2>2 DEF Issue
    <2> QED
      BY <2>3, <2>4
  <1>2. ASSUME NEW j \in PairIssues(a), j.fixtures \cap d # {}
        PROVE  \E i \in PairIssues(r) :
                 j.code = i.code /\ j.fixtures = i.fixtures /\ j.what = i.what
    <2>1. PICK p \in a.pairs :
            j = Issue("duplicate_fixture",
                  IF p.of[1] \in DOMAIN a.byId THEN p.seasons[1] ELSE p.seasons[2],
                  {p.of[1], p.of[2]}, {})
      BY DEF PairIssues
    <2>2. p \in r.pairs
      BY <2>1, <1>2 DEF PairsPart, Issue
    <2> DEFINE i == Issue("duplicate_fixture",
                  IF p.of[1] \in DOMAIN r.byId THEN p.seasons[1] ELSE p.seasons[2],
                  {p.of[1], p.of[2]}, {})
    <2>3. i \in PairIssues(r)
      BY <2>2 DEF PairIssues
    <2>4. j.code = i.code /\ j.fixtures = i.fixtures /\ j.what = i.what
      BY <2>1 DEF Issue
    <2> QED
      BY <2>3, <2>4
  <1> QED
    BY <1>1, <1>2

\* What is said of which fixtures, whatever the season.
Said(r) == {[code |-> i.code, fixtures |-> i.fixtures, what |-> i.what] : i \in Issues(r)}

\* A part of the data says of its fixtures what the whole says of them.
LEMMA SaidPart ==
  ASSUME NEW r, NEW a, NEW d, Restricts(r, a, d), Divides(r, a, d), PairsPart(r, a, d)
  PROVE  Said(r) = {i \in Said(a) : i.fixtures \cap d # {}}
  <1>1. ASSUME NEW m \in Said(r) PROVE m \in Said(a) /\ m.fixtures \cap d # {}
    <2>1. PICK i \in Issues(r) :
            m = [code |-> i.code, fixtures |-> i.fixtures, what |-> i.what]
      BY DEF Said
    <2>2. \E j \in Issues(a) : /\ j.code = i.code /\ j.fixtures = i.fixtures /\ j.what = i.what
                               /\ i.fixtures \cap d # {}
      <3>1. CASE i \in PairIssues(r)
        BY <3>1, PairPart DEF Issues
      <3>2. CASE i \in FixtureIssues(r)
        BY <3>2, FixturePart DEF Issues
      <3>3. CASE i \in OddsIssues(r)
        BY <3>3, OddsPart DEF Issues
      <3>4. CASE i \in SeasonIssues(r)
        BY <3>4, SeasonPart DEF Issues
      <3> QED
        BY <3>1, <3>2, <3>3, <3>4 DEF Issues
    <2> QED
      BY <2>1, <2>2 DEF Said
  <1>2. ASSUME NEW m \in Said(a), m.fixtures \cap d # {} PROVE m \in Said(r)
    <2>1. PICK j \in Issues(a) :
            m = [code |-> j.code, fixtures |-> j.fixtures, what |-> j.what]
      BY DEF Said
    <2>0. j.fixtures \cap d # {}
      BY <2>1, <1>2
    <2>2. \E i \in Issues(r) : j.code = i.code /\ j.fixtures = i.fixtures /\ j.what = i.what
      <3>1. CASE j \in PairIssues(a)
        BY <3>1, <2>0, PairPart DEF Issues
      <3>2. CASE j \in FixtureIssues(a)
        BY <3>2, <2>0, FixturePart DEF Issues
      <3>3. CASE j \in OddsIssues(a)
        BY <3>3, <2>0, OddsPart DEF Issues
      <3>4. CASE j \in SeasonIssues(a)
        BY <3>4, <2>0, SeasonPart DEF Issues
      <3> QED
        BY <3>1, <3>2, <3>3, <3>4 DEF Issues
    <2> QED
      BY <2>1, <2>2 DEF Said
  <1> QED
    BY <1>1, <1>2

\* What is stored.
StoredOK ==
  /\ fixtures \in [Numbered -> {NoFixture} \cup
                    [kick : Nat, season : Label \cup {"none"}, finished : BOOLEAN, score : STRING]]
  /\ \A f \in Known : fixtures[f].season \in Label
\* At most one row per outcome and instant; the instants are bounded.
OddsOK ==
  /\ odds \subseteq [outcome : Outcomes, ts : Nat, usable : BOOLEAN, closing : BOOLEAN]
  /\ IsFiniteSet(odds)
  /\ \A p, q \in odds : p.outcome = q.outcome /\ p.ts = q.ts => p = q
  /\ \E n \in Nat : \A o \in odds : o.ts <= n
\* The pairs as the report keeps them.
Found(scope) ==
  {[of |-> p, seasons |-> <<fixtures[p[1]].season, fixtures[p[2]].season>>] :
     p \in DuplicatePairs(scope)}
\* A report that nothing has overtaken has read what is stored.
ReadOK ==
  /\ late \in Nat
  /\ report.at # "idle" /\ late = 0 =>
       /\ report.scope \in SUBSET Label
       /\ report.byId = [f \in InScope(fixtures, report.scope) |-> fixtures[f]]
       /\ report.at \in {"odds", "conflicts", "done"} =>
            report.pairs = Found(report.scope)
       /\ report.at \in {"conflicts", "done"} =>
            report.odds = IF 1 \in InScope(fixtures, report.scope) THEN odds ELSE {}
       /\ report.at = "done" =>
            report.conflicts = conflicts \cap InScope(fixtures, report.scope)
\* The report is a record; what it has read is not told apart here.
ReportTyped ==
  report \in [at : {"idle", "pairs", "odds", "conflicts", "done"}, scope : SUBSET Label,
              byId : {report.byId}, pairs : {report.pairs}, odds : {report.odds},
              conflicts : {report.conflicts}]

QualityHolds == StoredOK /\ OddsOK /\ ReadOK /\ ReportTyped

\* Nothing is stored at first and no report is under way.
LEMMA QualityBegins == QualityInit => QualityHolds
  <1> SUFFICES ASSUME QualityInit PROVE QualityHolds
    OBVIOUS
  <1>1. StoredOK
    BY DEF QualityInit, StoredOK, Known
  <1>2. OddsOK
    BY FS_EmptySet DEF QualityInit, OddsOK
  <1>3. ReadOK /\ ReportTyped
    BY DEF QualityInit, ReadOK, ReportTyped, NoReport
  <1> QED
    BY <1>1, <1>2, <1>3 DEF QualityHolds

\* A write overtakes the report that is under way.
LEMMA WriteOvertakes ==
  ASSUME QualityHolds, Writes, report' = report, StoredOK', OddsOK'
  PROVE  QualityHolds'
  <1>1. late' \in Nat /\ (report.at # "idle" => late' # 0)
    BY DEF QualityHolds, ReadOK, Writes
  <1>2. ReadOK'
    BY <1>1 DEF ReadOK
  <1> QED
    BY <1>2 DEF QualityHolds, ReportTyped

\* A new fixture.
LEMMA StoreFixtureKeeps ==
  ASSUME QualityHolds, NEW f \in Numbered, NEW stored \in Fixtures[f], StoreFixture(f, stored)
  PROVE  QualityHolds'
  <1>1. stored \in [kick : Nat, season : Label, finished : BOOLEAN, score : STRING]
    BY ReportAssumption DEF Numbered
  <1>2. fixtures' = [fixtures EXCEPT ![f] = stored] /\ UNCHANGED <<odds, conflicts, report>> /\ Writes
    BY DEF StoreFixture
  <1>3. StoredOK'
    <2>1. fixtures' \in [Numbered -> {NoFixture} \cup
                [kick : Nat, season : Label \cup {"none"}, finished : BOOLEAN, score : STRING]]
      BY <1>1, <1>2 DEF QualityHolds, StoredOK
    <2>2. ASSUME NEW g \in Known' PROVE fixtures'[g].season \in Label
      BY <1>1, <1>2 DEF QualityHolds, StoredOK, Known
    <2> QED
      BY <2>1, <2>2 DEF StoredOK
  <1>4. OddsOK'
    BY <1>2 DEF QualityHolds, OddsOK
  <1> QED
    BY <1>2, <1>3, <1>4, WriteOvertakes

\* A new quote, of an outcome and an instant that have none.
LEMMA StoreOddsKeeps ==
  ASSUME QualityHolds, NEW o \in Quotes, StoreOdds(o)
  PROVE  QualityHolds'
  <1>1. o \in [outcome : Outcomes, ts : Nat, usable : BOOLEAN, closing : BOOLEAN]
    BY ReportAssumption
  <1>2. /\ odds' = odds \cup {o} /\ UNCHANGED <<fixtures, conflicts, report>> /\ Writes
        /\ \A p \in odds : <<p.outcome, p.ts>> # <<o.outcome, o.ts>>
    BY DEF StoreOdds
  <1>3. StoredOK'
    BY <1>2 DEF QualityHolds, StoredOK, Known
  <1>4. OddsOK'
    <2>1. odds' \subseteq [outcome : Outcomes, ts : Nat, usable : BOOLEAN, closing : BOOLEAN]
      BY <1>1, <1>2 DEF QualityHolds, OddsOK
    <2>2. IsFiniteSet(odds')
      BY <1>2, FS_AddElement DEF QualityHolds, OddsOK
    <2>3. \A p, q \in odds' : p.outcome = q.outcome /\ p.ts = q.ts => p = q
      BY <1>2 DEF QualityHolds, OddsOK
    <2>4. \E n \in Nat : \A p \in odds' : p.ts <= n
      <3>1. PICK n \in Nat : \A p \in odds : p.ts <= n
        BY DEF QualityHolds, OddsOK
      <3>2. o.ts \in Nat /\ \A p \in odds : p.ts \in Nat
        BY <1>1 DEF QualityHolds, OddsOK
      <3>3. n + o.ts \in Nat /\ \A p \in odds' : p.ts <= n + o.ts
        BY <1>2, <3>1, <3>2
      <3> QED
        BY <3>3
    <2> QED
      BY <2>1, <2>2, <2>3, <2>4 DEF OddsOK
  <1> QED
    BY <1>2, <1>3, <1>4, WriteOvertakes

\* What the quotes before the new kickoff become, and its own.
Reopened(o) == [o EXCEPT !.closing = FALSE]
Closes(x, kick) == [outcome |-> x, ts |-> kick, usable |-> TRUE, closing |-> TRUE]

\* They are again one per outcome and instant.
LEMMA MovedQuotes ==
  ASSUME OddsOK, NEW kick \in Nat, NEW rows,
         rows = {Reopened(o) : o \in {p \in odds : p.ts < kick}}
                \cup {Closes(x, kick) : x \in Outcomes}
  PROVE  /\ rows \subseteq [outcome : Outcomes, ts : Nat, usable : BOOLEAN, closing : BOOLEAN]
         /\ IsFiniteSet(rows)
         /\ \A p, q \in rows : p.outcome = q.outcome /\ p.ts = q.ts => p = q
         /\ \A p \in rows : p.ts <= kick
  <1> DEFINE early == {p \in odds : p.ts < kick}
             old == {Reopened(o) : o \in early}
             new == {Closes(x, kick) : x \in Outcomes}
  <1>1. ASSUME NEW o \in odds
        PROVE  /\ o.ts \in Nat /\ Reopened(o).ts = o.ts /\ Reopened(o).outcome = o.outcome
               /\ Reopened(o) \in [outcome : Outcomes, ts : Nat, usable : BOOLEAN,
                                   closing : BOOLEAN]
    <2>1. o \in [outcome : Outcomes, ts : Nat, usable : BOOLEAN, closing : BOOLEAN]
      BY DEF OddsOK
    <2>2. Reopened(o).ts = o.ts /\ Reopened(o).outcome = o.outcome
      BY <2>1 DEF Reopened
    <2>3. Reopened(o) \in [outcome : Outcomes, ts : Nat, usable : BOOLEAN, closing : BOOLEAN]
      BY <2>1 DEF Reopened
    <2> QED
      BY <2>1, <2>2, <2>3
  <1>2. IsFiniteSet(old)
    <2>1. IsFiniteSet(early)
      BY FS_Subset DEF OddsOK
    <2> DEFINE g == [o \in early |-> Reopened(o)]
    <2>2. g \in Surjection(early, old)
      BY DEF Surjection
    <2> QED
      BY <2>1, <2>2, FS_Surjection
  <1>3. IsFiniteSet(new)
    <2> DEFINE g == [x \in Outcomes |-> Closes(x, kick)]
    <2>1. g \in Surjection(Outcomes, new)
      BY DEF Surjection
    <2> QED
      BY <2>1, ReportAssumption, FS_Surjection
  <1>4. IsFiniteSet(rows)
    BY <1>2, <1>3, FS_Union
  <1>5. ASSUME NEW r \in rows
        PROVE  /\ r \in [outcome : Outcomes, ts : Nat, usable : BOOLEAN, closing : BOOLEAN]
               /\ r.ts <= kick
    <2>1. CASE r \in old
      <3>1. PICK o \in early : r = Reopened(o)
        BY <2>1
      <3> QED
        BY <1>1, <3>1
    <2>2. CASE r \in new
      <3>1. PICK x \in Outcomes : r = Closes(x, kick)
        BY <2>2
      <3> QED
        BY <3>1 DEF Closes
    <2> QED
      BY <2>1, <2>2
  <1>6. ASSUME NEW r \in rows, NEW q \in rows, r.outcome = q.outcome, r.ts = q.ts
        PROVE  r = q
    <2>1. CASE r \in old /\ q \in old
      <3>1. PICK o \in early : r = Reopened(o)
        BY <2>1
      <3>2. PICK w \in early : q = Reopened(w)
        BY <2>1
      <3>3. o = w
        BY <1>1, <1>6, <3>1, <3>2 DEF OddsOK
      <3> QED
        BY <3>1, <3>2, <3>3
    <2>2. CASE r \in new /\ q \in new
      <3>1. PICK x \in Outcomes : r = Closes(x, kick)
        BY <2>2
      <3>2. PICK y \in Outcomes : q = Closes(y, kick)
        BY <2>2
      <3>3. x = y
        BY <1>6, <3>1, <3>2 DEF Closes
      <3> QED
        BY <3>1, <3>2, <3>3
    <2>3. \A x \in old : x.ts < kick
      BY <1>1
    <2>4. \A x \in new : x.ts = kick
      BY DEF Closes
    <2> QED
      BY <1>6, <2>1, <2>2, <2>3, <2>4
  <1> QED
    BY <1>4, <1>5, <1>6

\* A kickoff that moves.
LEMMA ShiftKickoffKeeps ==
  ASSUME QualityHolds, NEW kick \in Times, ShiftKickoff(kick)
  PROVE  QualityHolds'
  <1>1. kick \in Nat /\ 1 \in Numbered
    BY ReportAssumption DEF Times, Numbered
  <1>2. /\ fixtures' = [fixtures EXCEPT ![1].kick = kick] /\ fixtures[1] # NoFixture
        /\ odds' = {Reopened(o) : o \in {p \in odds : p.ts < kick}}
                   \cup {Closes(x, kick) : x \in Outcomes}
        /\ UNCHANGED <<conflicts, report>> /\ Writes
    BY DEF ShiftKickoff, Reopened, Closes
  <1>3. fixtures[1] \in [kick : Nat, season : Label, finished : BOOLEAN, score : STRING]
    BY <1>1, <1>2 DEF QualityHolds, StoredOK, Known
  <1>4. PICK stored : stored = [fixtures[1] EXCEPT !.kick = kick]
    OBVIOUS
  <1>5. stored \in [kick : Nat, season : Label, finished : BOOLEAN, score : STRING]
    BY <1>1, <1>3, <1>4
  <1>6. fixtures' = [fixtures EXCEPT ![1] = stored]
    BY <1>2, <1>4
  <1>7. StoredOK'
    <2>1. fixtures' \in [Numbered -> {NoFixture} \cup
                [kick : Nat, season : Label \cup {"none"}, finished : BOOLEAN, score : STRING]]
      BY <1>5, <1>6 DEF QualityHolds, StoredOK
    <2>2. ASSUME NEW g \in Known' PROVE fixtures'[g].season \in Label
      BY <1>1, <1>5, <1>6 DEF QualityHolds, StoredOK, Known
    <2> QED
      BY <2>1, <2>2 DEF StoredOK
  <1>8. OddsOK'
    BY <1>1, <1>2, MovedQuotes DEF QualityHolds, OddsOK
  <1> QED
    BY <1>2, <1>7, <1>8, WriteOvertakes

\* A step of the report leaves what is stored.
LEMMA StoredStays ==
  ASSUME QualityHolds, UNCHANGED <<fixtures, odds>>
  PROVE  StoredOK' /\ OddsOK'
  BY DEF QualityHolds, StoredOK, OddsOK, Known

\* The pairs depend on the fixtures only.
LEMMA FoundStays ==
  ASSUME UNCHANGED fixtures
  PROVE  \A scope : Found(scope)' = Found(scope)
  BY DEF Found, DuplicatePairs, InScope, Near, Known

\* Every step keeps the invariant.
LEMMA QualityKeeps == QualityHolds /\ [QualityNext]_qualityVars => QualityHolds'
  <1> SUFFICES ASSUME QualityHolds, [QualityNext]_qualityVars PROVE QualityHolds'
    OBVIOUS
  <1>1. CASE \E f \in Numbered : \E stored \in Fixtures[f] : StoreFixture(f, stored)
    BY <1>1, StoreFixtureKeeps
  <1>2. CASE \E o \in Quotes : StoreOdds(o)
    BY <1>2, StoreOddsKeeps
  <1>3. CASE \E kick \in Times : ShiftKickoff(kick)
    BY <1>3, ShiftKickoffKeeps
  <1>4. CASE RecordConflict
    <2>1. UNCHANGED <<fixtures, odds, report>> /\ Writes
      BY <1>4 DEF RecordConflict
    <2> QED
      BY <2>1, StoredStays, WriteOvertakes
  <1>5. ASSUME NEW scope \in (SUBSET Label) \ {{}}, ScanFixtures(scope) PROVE QualityHolds'
    <2>1. /\ report' = [NoReport EXCEPT !.at = "pairs", !.scope = scope,
                  !.byId = [f \in InScope(fixtures, scope) |-> fixtures[f]]]
          /\ late' = 0 /\ UNCHANGED <<fixtures, odds, conflicts>>
      BY <1>5 DEF ScanFixtures
    <2>2. report' = [at |-> "pairs", scope |-> scope,
                     byId |-> [f \in InScope(fixtures, scope) |-> fixtures[f]],
                     pairs |-> {}, odds |-> {}, conflicts |-> {}]
      BY <2>1 DEF NoReport
    <2>3. /\ late' = 0 /\ report'.at = "pairs" /\ report'.scope = scope
          /\ report'.byId = [f \in InScope(fixtures, scope) |-> fixtures[f]]
      BY <2>1, <2>2
    <2>5. [f \in InScope(fixtures', scope) |-> fixtures'[f]] = report'.byId
      BY <2>1, <2>3
    <2>6. ReadOK'
      BY <2>3, <2>5 DEF ReadOK
    <2>4. ReportTyped'
      BY <2>2 DEF ReportTyped
    <2> QED
      BY <2>1, <2>4, <2>6, StoredStays DEF QualityHolds
  <1>6. CASE ScanPairs
    <2>0. PICK scope : scope = report.scope
      OBVIOUS
    <2>1. /\ report' = [report EXCEPT !.at = "odds", !.pairs = Found(scope)]
          /\ report.at = "pairs" /\ UNCHANGED <<fixtures, odds, conflicts, late>>
      BY <1>6, <2>0 DEF ScanPairs, Found
    <2>2. /\ report' = [at |-> "odds", scope |-> scope, byId |-> report.byId,
                        pairs |-> Found(scope), odds |-> report.odds,
                        conflicts |-> report.conflicts]
          /\ scope \in SUBSET Label
      BY <2>0, <2>1 DEF QualityHolds, ReportTyped
    <2>3. Found(scope)' = Found(scope)
      BY <2>1, FoundStays
    <2>4. ReadOK'
      BY <2>0, <2>1, <2>2, <2>3 DEF QualityHolds, ReadOK, InScope
    <2>5. ReportTyped'
      BY <2>2 DEF ReportTyped
    <2> QED
      BY <2>1, <2>4, <2>5, StoredStays DEF QualityHolds
  <1>7. CASE ScanOdds
    <2> DEFINE rows == IF 1 \in InScope(fixtures, report.scope) /\ 1 \in DOMAIN report.byId
                       THEN odds ELSE {}
    <2>1. /\ report' = [report EXCEPT !.at = "conflicts", !.odds = rows]
          /\ report.at = "odds" /\ UNCHANGED <<fixtures, odds, conflicts, late>>
      BY <1>7 DEF ScanOdds
    <2>2. /\ report' = [at |-> "conflicts", scope |-> report.scope, byId |-> report.byId,
                        pairs |-> report.pairs, odds |-> rows, conflicts |-> report.conflicts]
          /\ report.scope \in SUBSET Label
      BY <2>1 DEF QualityHolds, ReportTyped
    <2>3. \A scope : Found(scope)' = Found(scope)
      BY <2>1, FoundStays
    <2>4. ReadOK'
      BY <2>1, <2>2, <2>3 DEF QualityHolds, ReadOK, InScope
    <2>5. ReportTyped'
      BY <2>2 DEF ReportTyped
    <2> QED
      BY <2>1, <2>4, <2>5, StoredStays DEF QualityHolds
  <1>8. CASE ScanConflicts
    <2>1. /\ report' = [report EXCEPT !.at = "done",
                          !.conflicts = conflicts \cap DOMAIN report.byId]
          /\ report.at = "conflicts" /\ UNCHANGED <<fixtures, odds, conflicts, late>>
      BY <1>8 DEF ScanConflicts
    <2>2. /\ report' = [at |-> "done", scope |-> report.scope, byId |-> report.byId,
                        pairs |-> report.pairs, odds |-> report.odds,
                        conflicts |-> conflicts \cap DOMAIN report.byId]
          /\ report.scope \in SUBSET Label
      BY <2>1 DEF QualityHolds, ReportTyped
    <2>3. \A scope : Found(scope)' = Found(scope)
      BY <2>1, FoundStays
    <2>4. ReadOK'
      BY <2>1, <2>2, <2>3 DEF QualityHolds, ReadOK, InScope
    <2>5. ReportTyped'
      BY <2>2 DEF ReportTyped
    <2> QED
      BY <2>1, <2>4, <2>5, StoredStays DEF QualityHolds
  <1>9. CASE NextReport
    <2>1. report' = NoReport /\ late' = 0 /\ UNCHANGED <<fixtures, odds, conflicts>>
      BY <1>9 DEF NextReport
    <2>2. ReadOK' /\ ReportTyped'
      BY <2>1 DEF ReadOK, ReportTyped, NoReport
    <2> QED
      BY <2>1, <2>2, StoredStays DEF QualityHolds
  <1>10. CASE UNCHANGED qualityVars
    <2>1. UNCHANGED <<fixtures, odds, conflicts, report, late>>
      BY <1>10 DEF qualityVars
    <2>2. \A scope : Found(scope)' = Found(scope)
      BY <2>1, FoundStays
    <2>3. ReadOK'
      BY <2>1, <2>2 DEF QualityHolds, ReadOK, InScope
    <2>4. ReportTyped'
      BY <2>1 DEF QualityHolds, ReportTyped
    <2> QED
      BY <2>1, <2>3, <2>4, StoredStays DEF QualityHolds
  <1> QED
    BY <1>1, <1>2, <1>3, <1>4, <1>5, <1>6, <1>7, <1>8, <1>9, <1>10 DEF QualityNext


\* Every issue of a report that nothing has overtaken has a season of it.
LEMMA RowsForAll ==
  ASSUME QualityHolds, report.at = "done", late = 0
  PROVE  EveryIssueHasRow
  <1> DEFINE d == InScope(fixtures, report.scope)
  <1>1. /\ report.byId = [f \in d |-> fixtures[f]] /\ report.pairs = Found(report.scope)
        /\ report.odds = IF 1 \in d THEN odds ELSE {}
        /\ report.conflicts = conflicts \cap d
    BY DEF QualityHolds, ReadOK
  <1>2. DOMAIN report.byId = d /\ \A f \in d : report.byId[f].season \in Groups(report)
    BY <1>1 DEF Groups
  <1>3. ASSUME NEW i \in FixtureIssues(report) PROVE i.season \in Groups(report)
    BY <1>1, <1>2 DEF FixtureIssues, Issue
  <1>4. ASSUME NEW i \in OddsIssues(report) PROVE i.season \in Groups(report)
    <2>1. i.season = report.byId[1].season /\ report.odds # {}
      BY DEF OddsIssues, Issue
    <2> QED
      BY <1>1, <1>2, <2>1
  <1>5. ASSUME NEW i \in SeasonIssues(report) PROVE i.season \in Groups(report)
    <2>1. PICK s \in Groups(report) : \E code : OfSeason(report, i, s, code)
      BY SeasonSaidOf
    <2> QED
      BY <2>1 DEF OfSeason, Issue
  <1>6. ASSUME NEW i \in PairIssues(report) PROVE i.season \in Groups(report)
    <2>1. PICK p \in report.pairs :
            i = Issue("duplicate_fixture",
                  IF p.of[1] \in DOMAIN report.byId THEN p.seasons[1] ELSE p.seasons[2],
                  {p.of[1], p.of[2]}, {})
      BY DEF PairIssues
    <2>2. PICK q \in DuplicatePairs(report.scope) :
            p = [of |-> q, seasons |-> <<fixtures[q[1]].season, fixtures[q[2]].season>>]
      BY <1>1 DEF Found
    <2>3. q[1] \in d \/ q[2] \in d
      BY DEF DuplicatePairs
    <2>4. i.season = IF q[1] \in d THEN fixtures[q[1]].season ELSE fixtures[q[2]].season
      BY <1>2, <2>1, <2>2 DEF Issue
    <2>5. CASE q[1] \in d
      BY <1>1, <1>2, <2>4, <2>5
    <2>6. CASE q[1] \notin d
      BY <1>1, <1>2, <2>3, <2>4, <2>6
    <2> QED
      BY <2>5, <2>6
  <1> QED
    BY <1>3, <1>4, <1>5, <1>6 DEF EveryIssueHasRow, Issues

\* What a report on some seasons says is what the report on all says of their
\* fixtures.
LEMMA PartOfWhole ==
  ASSUME QualityHolds, report.at = "done", late = 0
  PROVE  ScopeLosesNothing
  <1> DEFINE d == InScope(fixtures, report.scope)
  <1>1. PICK a : a = Whole(Label)
    OBVIOUS
  <1>2. /\ report.byId = [f \in d |-> fixtures[f]] /\ report.pairs = Found(report.scope)
        /\ report.odds = IF 1 \in d THEN odds ELSE {}
        /\ report.conflicts = conflicts \cap d /\ report.scope \subseteq Label
        /\ DOMAIN report.byId = d
    BY DEF QualityHolds, ReadOK
  <1>3. InScope(fixtures, Label) = Known /\ d \subseteq Known
    BY DEF QualityHolds, StoredOK, InScope, Known
  <1>4. /\ a.byId = [f \in Known |-> fixtures[f]] /\ DOMAIN a.byId = Known
        /\ a.pairs = {[of |-> p, seasons |-> <<fixtures[p[1]].season, fixtures[p[2]].season>>] :
                        p \in {q \in Known \X Known : Near(q[1], q[2])}}
        /\ a.odds = IF 1 \in Known THEN odds ELSE {}
        /\ a.conflicts = conflicts \cap Known
    BY <1>1, <1>3 DEF Whole
  <1>5. Restricts(report, a, d)
    BY <1>2, <1>3, <1>4 DEF Restricts
  <1>6. Divides(report, a, d)
    <2>1. ASSUME NEW s, NEW f \in Group(a, s) PROVE f \in d <=> s \in report.scope
      <3>1. f \in Known /\ fixtures[f].season = s
        BY <1>4 DEF Group
      <3>2. f \in DOMAIN fixtures /\ fixtures[f] # NoFixture
        BY <3>1 DEF Known, QualityHolds, StoredOK
      <3> QED
        BY <3>1, <3>2 DEF InScope
    <2> QED
      BY <2>1 DEF Divides
  <1>7. PairsPart(report, a, d)
    <2>1. ASSUME NEW p \in report.pairs
          PROVE  p \in a.pairs /\ {p.of[1], p.of[2]} \cap d # {}
      <3>1. PICK q \in DuplicatePairs(report.scope) :
              p = [of |-> q, seasons |-> <<fixtures[q[1]].season, fixtures[q[2]].season>>]
        BY <1>2 DEF Found
      <3> QED
        BY <1>4, <3>1 DEF DuplicatePairs
    <2>2. ASSUME NEW p \in a.pairs, {p.of[1], p.of[2]} \cap d # {}
          PROVE  p \in report.pairs
      <3>1. PICK q \in {x \in Known \X Known : Near(x[1], x[2])} :
              p = [of |-> q, seasons |-> <<fixtures[q[1]].season, fixtures[q[2]].season>>]
        BY <1>4
      <3>2. q \in DuplicatePairs(report.scope)
        BY <2>2, <3>1 DEF DuplicatePairs
      <3> QED
        BY <1>2, <3>1, <3>2 DEF Found
    <2> QED
      BY <2>1, <2>2 DEF PairsPart
  <1> HIDE DEF d
  <1>8. Said(report) = {i \in Said(a) : i.fixtures \cap d # {}}
    BY <1>5, <1>6, <1>7, SaidPart
  <1> QED
    BY <1>1, <1>2, <1>8 DEF ScopeLosesNothing, Said

\* At one instant the market has at most one row per outcome.
LEMMA OneRowEach ==
  ASSUME OddsOK, NEW ts
  PROVE  /\ IsFiniteSet({o \in odds : o.ts = ts})
         /\ Cardinality({o \in odds : o.ts = ts}) <= Cardinality(Outcomes)
  <1> DEFINE S == {o \in odds : o.ts = ts}
             g == [o \in S |-> o.outcome]
  <1>1. g \in Injection(S, Outcomes)
    BY DEF Injection, OddsOK, IsInjective
  <1> QED
    BY <1>1, ReportAssumption, FS_Injection

\* Coverage and the closing-quote rule agree.
LEMMA CoverageAgrees ==
  ASSUME QualityHolds, report.at = "done", late = 0
  PROVE  CoverageIsTrue
  <1> SUFFICES ASSUME 1 \in DOMAIN report.byId
               PROVE  /\ Covered(report) => QuoteFound # {}
                      /\ QuoteFound # {} /\ ~Covered(report) =>
                           \E i \in Issues(report) :
                             i.code = "odds_price_out_of_range" /\ i.what \in QuoteFound
    BY DEF CoverageIsTrue
  <1>1. report.odds = odds /\ report.byId[1] = fixtures[1]
    BY DEF QualityHolds, ReadOK
  <1>2. PICK kick : kick = fixtures[1].kick
    OBVIOUS
  <1> DEFINE rows == {o \in odds : o.closing /\ o.ts <= kick}
             At(ts) == {o \in rows : o.ts = ts}
             complete == {ts \in {o.ts : o \in rows} : Cardinality(At(ts)) = Cardinality(Outcomes)}
  <1>3. QuoteFound = IF complete = {} THEN {} ELSE At(Max(complete))
    BY <1>2 DEF QuoteFound
  <1>4. complete # {} => Max(complete) \in complete
    <2>1. PICK n \in Nat : \A o \in odds : o.ts <= n
      BY DEF QualityHolds, OddsOK
    <2>2. complete \subseteq Nat /\ \A ts \in complete : ts <= n
      BY <2>1 DEF QualityHolds, OddsOK
    <2> HIDE DEF complete
    <2> QED
      BY <2>2, MaxIsIn
  <1>5. ASSUME Covered(report) PROVE QuoteFound # {}
    <2>1. PICK ts \in {o.ts : o \in odds} :
            /\ Cardinality({o \in odds : o.ts = ts}) = Cardinality(Outcomes) /\ ts <= kick
            /\ \A o \in {p \in odds : p.ts = ts} : o.usable /\ o.closing
      BY <1>1, <1>2, <1>5 DEF Covered
    <2>2. At(ts) = {o \in odds : o.ts = ts}
      BY <2>1
    <2>3. ts \in complete
      BY <2>1, <2>2
    <2>4. Max(complete) \in complete
      BY <1>4, <2>3
    <2>5. At(Max(complete)) # {}
      BY <2>4
    <2> QED
      BY <1>3, <2>3, <2>5
  <1>6. ASSUME QuoteFound # {}, ~Covered(report)
        PROVE  \E i \in Issues(report) :
                 i.code = "odds_price_out_of_range" /\ i.what \in QuoteFound
    <2>1. PICK m : m = Max(complete)
      OBVIOUS
    <2>2. m \in complete /\ QuoteFound = At(m)
      BY <1>3, <1>4, <1>6, <2>1
    <2> DEFINE S == {o \in odds : o.ts = m}
    <2>3. At(m) \in SUBSET S /\ Cardinality(At(m)) = Cardinality(Outcomes)
      BY <2>2
    <2>4. IsFiniteSet(S) /\ Cardinality(S) <= Cardinality(Outcomes)
      BY OneRowEach DEF QualityHolds
    <2>5. At(m) = S /\ Cardinality(S) = Cardinality(Outcomes)
      <3>1. /\ IsFiniteSet(At(m)) /\ Cardinality(At(m)) <= Cardinality(S)
            /\ (Cardinality(S) = Cardinality(At(m)) => S = At(m))
        BY <2>3, <2>4, FS_Subset
      <3>2. Cardinality(S) \in Nat /\ Cardinality(At(m)) \in Nat
        BY <2>4, <3>1, FS_CardinalityType
      <3> QED
        BY <2>3, <2>4, <3>1, <3>2
    <2>6. m \in {o.ts : o \in odds} /\ m <= kick /\ \A o \in S : o.closing
      BY <2>2, <2>5
    <2>7. PICK o \in S : ~o.usable
      BY <1>1, <1>2, <1>6, <2>5, <2>6 DEF Covered
    <2>8. Issue("odds_price_out_of_range", report.byId[1].season, {1}, o) \in Issues(report)
      BY <1>1, <2>7 DEF Issues, OddsIssues
    <2> QED
      BY <2>2, <2>5, <2>7, <2>8 DEF Issue
  <1> QED
    BY <1>5, <1>6

\* A report that nothing has overtaken loses no issue to its scope, counts each
\* in a row, and counts as covered what the closing-quote rule would find, for
\* any fixtures, labels, quotes and number of writes.
THEOREM ReportTellsTruth == QualitySpec => []ReportIsSound
  <1>1. QualityHolds => ReportIsSound
    BY RowsForAll, PartOfWhole, CoverageAgrees DEF ReportIsSound
  <1> QED
    BY <1>1, QualityBegins, QualityKeeps, PTL DEF QualitySpec
=============================================================================
