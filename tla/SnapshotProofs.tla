--------------------------- MODULE SnapshotProofs ---------------------------
(***************************************************************************)
(* TLAPS proofs about Snapshot, for any people and bounds: a result counts *)
(* once, a match that was saved survives restarts, and ids are not reused. *)
(* Whatever a snapshot has held is, at any time, in the row, in the insert *)
(* on its way, and in memory or yet to be loaded.                          *)
(***************************************************************************)
EXTENDS Snapshot, WellFoundedInduction, TLAPS

Over == Recorded \cup dropped
Sound(data) == data # Nothing => data.live \subseteq Of(data)

\* Only a process that has loaded its snapshot does anything; and what it works on.
MemoryWell ==
  /\ live \subseteq Active
  /\ finishing \subseteq Over
  /\ ~restored => starting = NotStarting /\ saver = Nothing /\ finishing = {}
  /\ restored => loader.at = "off"
  /\ loader.at = "match" => loader.left \subseteq Of(loader.data) /\ loader.data.live \subseteq Of(loader.data)
  /\ undo.at # "off" => undo.id \in dropped \cap Recorded
SnapshotsWell == Sound(saver) /\ Sound(row) /\ Sound(file)

\* What is to be written, or being taken back, is not rated.
RatedWell ==
  \A m \in Ids :
    /\ rated[m] <= 1
    /\ result[m] = None \/ (undo.at # "off" /\ undo.id = m) => rated[m] <= 0

\* Wherever one may have to find a saved match, it is there or it is over.
Kept(S) == \A m \in saved : m \in S \/ m \in Over
SavedWell ==
  /\ Kept(Of(row)) /\ Of(row) \subseteq saved
  /\ Of(saver) \subseteq Active \cup Over
  /\ restored => Kept(Active)
  /\ saver # Nothing => Kept(Of(saver))
  /\ loader.at = "match" => Kept(loader.left \cup Active)

\* The counter is above all ids that are in use, and one that was drawn is in no use yet.
Used == Active \cup Recorded \cup saved \cup Of(saver)
IdsWell ==
  /\ \A m \in Used : m < counter
  /\ loader.at = "match" => \A m \in loader.left : m < counter
  /\ starting.id # 0 => starting.id < counter /\ starting.id \notin Used

IInv == TypeOK /\ MemoryWell /\ SnapshotsWell /\ RatedWell /\ SavedWell /\ IdsWell

----------------------------------------------------------------------------
\* The least and the largest of some numbers, and the floors of the counter.

LEMMA MinIsIn ==
  ASSUME NEW S \in SUBSET Nat, S # {}
  PROVE  Min(S) \in S /\ \A x \in S : Min(S) <= x
<1>1. PICK x \in S : \A y \in S : ~(<<y, x>> \in OpToRel(<, Nat))
  BY WFMin, NatLessThanWellFounded, Zenon
<1>2. \A y \in S : <<y, x>> \notin {ss \in Nat \X Nat : ss[1] < ss[2]}
  BY <1>1, Zenon DEF OpToRel
<1>3. \A y \in S : ~(y < x)
  BY <1>2
<1>4. \A y \in S : x <= y
  BY <1>3
<1> QED
  BY <1>4 DEF Min

LEMMA MaxIsIn ==
  ASSUME NEW n \in Nat, NEW S \in SUBSET (0..n), S # {}
  PROVE  Max(S) \in S /\ \A x \in S : x <= Max(S)
<1> DEFINE T == {n - x : x \in S}
<1>1. PICK m \in T : \A y \in T : m <= y
  <2>1. \A x \in S : n - x \in Nat
    OBVIOUS
  <2>2. PICK x \in S : TRUE
    OBVIOUS
  <2>3. T \in SUBSET Nat /\ n - x \in T
    BY <2>1, <2>2
  <2> QED
    BY <2>3, MinIsIn
<1>2. PICK x \in S : m = n - x
  BY <1>1
<1>3. \A y \in S : y <= x
  BY <1>1, <1>2
<1> QED
  BY <1>3 DEF Max

LEMMA FloorIsAbove ==
  ASSUME NEW S \in SUBSET Ids, NEW c \in 0..MaxId + 1
  PROVE  /\ Max({c} \cup {k + 1 : k \in S}) \in 0..MaxId + 1
         /\ c <= Max({c} \cup {k + 1 : k \in S})
         /\ \A m \in S : m < Max({c} \cup {k + 1 : k \in S})
<1> DEFINE T == {c} \cup {k + 1 : k \in S}
<1>1. MaxId + 1 \in Nat /\ T \in SUBSET (0..(MaxId + 1)) /\ T # {}
  BY BoundsAssumption DEF Ids
<1>2. Max(T) \in T /\ \A x \in T : x <= Max(T)
  BY <1>1, MaxIsIn
<1>3. \A m \in S : m + 1 \in T /\ m \in Nat
  BY BoundsAssumption DEF Ids
<1>4. Max(T) \in Int /\ \A m \in S : m + 1 <= Max(T)
  BY <1>1, <1>2, <1>3
<1> HIDE DEF T
<1>5. \A m \in S : m < Max(T)
  BY <1>3, <1>4
<1> QED
  BY <1>1, <1>2, <1>5 DEF T

----------------------------------------------------------------------------
\* Payloads.

LEMMA EmptyOnes ==
  /\ Nothing \in Payload /\ Empty \in Payload /\ Of(Nothing) = {} /\ Of(Empty) = {} /\ Empty.live = {}
  /\ NoMatches \in [Ids -> SUBSET People]
BY DEF Nothing, Empty, Payload, Of, NoMatches, None, Ids

LEMMA CurrentIsSomething ==
  ASSUME TypeOK, live \subseteq Active
  PROVE  Current \in Payload /\ Current # Nothing /\ Of(Current) = Active /\ Sound(Current)
<1>1. Current \in Payload /\ Of(Current) = Active /\ Current.live = live /\ Current.roster = roster
  BY DEF TypeOK, Current, Payload, Of, Active
<1>2. 1 \in Ids /\ Nothing.live = Ids /\ Of(Nothing) = {}
  BY BoundsAssumption, EmptyOnes DEF Ids, Nothing
<1>3. Current # Nothing
  BY <1>1, <1>2
<1> QED
  BY <1>1, <1>3 DEF Sound

\* The parts of the type that a step leaves alone.
LEMMA FaultCounts ==
  ASSUME TypeOK, faults' = faults \/ Fault
  PROVE  faults' \in 0..MaxFaults
BY BoundsAssumption DEF TypeOK, Fault

LEMMA EditCounts ==
  ASSUME TypeOK, edits' = edits \/ Edit
  PROVE  edits' \in 0..MaxEdits
BY BoundsAssumption DEF TypeOK, Edit

\* Steps of a match that is there: its players, whether it is live.
LEMMA RosterFrame ==
  ASSUME IInv, UNCHANGED <<restored, starting, lastDb, saver, loader, row, file, counter, result, history, undo, rated, saved>>,
         queue' \subseteq People, roster' \in [Ids -> SUBSET People], live' \subseteq Active', finishing' \subseteq finishing,
         dropped \subseteq dropped', dropped' \subseteq Ids,
         Active' \subseteq Active, \A m \in Active \ Active' : m \in Over',
         edits' \in 0..MaxEdits, faults' \in 0..MaxFaults
  PROVE  IInv'
<1> USE DEF IInv
<1>1. Recorded' = Recorded /\ Over \subseteq Over'
  BY DEF Recorded, Over
<1>2. TypeOK'
  BY DEF TypeOK, Active
<1>3. MemoryWell'
  BY <1>1 DEF MemoryWell, Of
<1>4. SnapshotsWell'
  BY DEF SnapshotsWell, Sound, Of
<1>5. RatedWell'
  BY DEF RatedWell
<1>6. SavedWell'
  BY <1>1 DEF SavedWell, Kept, Of
<1>7. IdsWell'
  BY <1>1 DEF IdsWell, Used, Of
<1> QED
  BY <1>2, <1>3, <1>4, <1>5, <1>6, <1>7

LEMMA JoinStep ==
  ASSUME IInv, NEW p \in People, Join(p)
  PROVE  IInv'
<1> USE DEF IInv
<1>1. queue' \subseteq People /\ edits' \in 0..MaxEdits /\ faults' \in 0..MaxFaults
  BY EditCounts, FaultCounts DEF Join, TypeOK
<1>2. /\ UNCHANGED <<restored, roster, live, starting, finishing, lastDb, saver, loader>>
      /\ UNCHANGED <<row, file, counter, result, history, undo, rated, saved, dropped>>
  BY DEF Join, durable
<1>3. Active' = Active
  BY <1>2 DEF Active
<1>4. roster' \in [Ids -> SUBSET People] /\ live' \subseteq Active' /\ dropped' \subseteq Ids
  BY <1>2, <1>3 DEF TypeOK, MemoryWell
<1> QED
  BY <1>1, <1>2, <1>3, <1>4, RosterFrame

LEMMA GoLiveStep ==
  ASSUME IInv, NEW m \in Ids, GoLive(m)
  PROVE  IInv'
<1> USE DEF IInv
<1>1. /\ UNCHANGED <<restored, queue, roster, starting, finishing, lastDb, saver, loader>>
      /\ UNCHANGED <<row, file, counter, result, history, undo, rated, saved, dropped, edits, faults>>
      /\ live' = live \cup {m} /\ m \in Active
  BY DEF GoLive, durable, bounds
<1>2. Active' = Active
  BY <1>1 DEF Active
<1>3. queue' \subseteq People /\ roster' \in [Ids -> SUBSET People] /\ live' \subseteq Active' /\ dropped' \subseteq Ids
      /\ edits' \in 0..MaxEdits /\ faults' \in 0..MaxFaults
  BY <1>1, <1>2 DEF TypeOK, MemoryWell
<1> QED
  BY <1>1, <1>2, <1>3, RosterFrame

LEMMA SubstituteStep ==
  ASSUME IInv, NEW m \in Ids, NEW p \in People, NEW q \in People, Substitute(m, p, q)
  PROVE  IInv'
<1> USE DEF IInv
<1>1. /\ UNCHANGED <<restored, queue, live, starting, finishing, lastDb, saver, loader>>
      /\ UNCHANGED <<row, file, counter, result, history, undo, rated, saved, dropped>>
      /\ roster' = [roster EXCEPT ![m] = (@ \ {q}) \cup {p}] /\ m \in live
  BY DEF Substitute, durable
<1>2. roster' \in [Ids -> SUBSET People] /\ edits' \in 0..MaxEdits /\ faults' \in 0..MaxFaults
  BY <1>1, EditCounts, FaultCounts DEF Substitute, TypeOK
<1>3. m \in Active /\ roster \in [Ids -> SUBSET People]
  BY <1>1 DEF MemoryWell, TypeOK
<1>4. Active' = Active
  BY <1>1, <1>3 DEF Active, None
<1>5. queue' \subseteq People /\ live' \subseteq Active' /\ dropped' \subseteq Ids
  BY <1>1, <1>4 DEF TypeOK, MemoryWell
<1> QED
  BY <1>1, <1>2, <1>4, <1>5, RosterFrame

LEMMA FinishStep ==
  ASSUME IInv, NEW m \in Ids, Finish(m)
  PROVE  IInv'
<1> USE DEF IInv
<1>1. /\ UNCHANGED <<restored, queue, starting, lastDb, saver, loader>>
      /\ UNCHANGED <<row, file, counter, result, history, undo, rated, saved, dropped, edits, faults>>
      /\ roster' = [roster EXCEPT ![m] = None] /\ m \in finishing
      /\ live' = live \ {m} /\ finishing' = finishing \ {m}
  BY DEF Finish, durable, bounds
<1>2. roster \in [Ids -> SUBSET People] /\ m \in Over /\ Over' = Over
  BY <1>1 DEF TypeOK, MemoryWell, Over, Recorded
<1>3. roster' \in [Ids -> SUBSET People] /\ Active' = Active \ {m}
  BY <1>1, <1>2 DEF Active, None
<1>4. queue' \subseteq People /\ live' \subseteq Active' /\ dropped' \subseteq Ids /\ edits' \in 0..MaxEdits /\ faults' \in 0..MaxFaults
  BY <1>1, <1>3 DEF TypeOK, MemoryWell
<1> QED
  BY <1>1, <1>2, <1>3, <1>4, RosterFrame

LEMMA CancelStep ==
  ASSUME IInv, NEW m \in Ids, Cancel(m)
  PROVE  IInv'
<1> USE DEF IInv
<1>1. /\ UNCHANGED <<restored, queue, starting, finishing, lastDb, saver, loader>>
      /\ UNCHANGED <<row, file, counter, result, history, undo, rated, saved, edits, faults>>
      /\ roster' = [roster EXCEPT ![m] = None] /\ dropped' = dropped \cup {m}
      /\ live' = live \ {m}
  BY DEF Cancel, durable, bounds
<1>2. roster \in [Ids -> SUBSET People] /\ m \in Over'
  BY <1>1 DEF TypeOK, Over
<1>3. roster' \in [Ids -> SUBSET People] /\ Active' = Active \ {m}
  BY <1>1, <1>2 DEF Active, None
<1>4. queue' \subseteq People /\ live' \subseteq Active' /\ dropped' \subseteq Ids /\ edits' \in 0..MaxEdits /\ faults' \in 0..MaxFaults
  BY <1>1, <1>3 DEF TypeOK, MemoryWell
<1> QED
  BY <1>1, <1>2, <1>3, <1>4, RosterFrame

----------------------------------------------------------------------------
\* The start of a match.

LEMMA StartFrame ==
  ASSUME IInv, UNCHANGED <<restored, roster, live, finishing, lastDb, saver, loader, row, file, result, history>>,
         UNCHANGED <<undo, rated, saved, dropped, edits>>,
         restored, queue' \subseteq People, starting' \in [players : SUBSET People, id : 0..MaxId],
         counter' \in 0..MaxId + 1, counter <= counter', faults' \in 0..MaxFaults,
         starting'.id # 0 => starting'.id < counter' /\ starting'.id \notin Used
  PROVE  IInv'
<1> USE DEF IInv
<1>1. Active' = Active /\ Recorded' = Recorded /\ Over' = Over /\ Used' = Used
  BY DEF Active, Recorded, Over, Used, Of
<1>2. TypeOK'
  BY DEF TypeOK
<1>3. MemoryWell'
  BY <1>1 DEF MemoryWell, Of
<1>4. SnapshotsWell'
  BY DEF SnapshotsWell, Sound, Of
<1>5. RatedWell'
  BY DEF RatedWell
<1>6. SavedWell'
  BY <1>1 DEF SavedWell, Kept, Of
<1>7. IdsWell'
  <2>1. Used \subseteq Ids /\ counter \in Int /\ counter' \in Int
    BY BoundsAssumption DEF Used, Active, Recorded, Of, TypeOK
  <2>2. \A m \in Used : m < counter'
    BY <2>1, BoundsAssumption DEF IdsWell, Ids
  <2>3. loader.at # "match"
    BY DEF MemoryWell
  <2> QED
    BY <1>1, <2>2, <2>3 DEF IdsWell
<1> QED
  BY <1>2, <1>3, <1>4, <1>5, <1>6, <1>7

LEMMA PopStep ==
  ASSUME IInv, Pop
  PROVE  IInv'
<1> USE DEF IInv
<1>1. /\ UNCHANGED <<restored, roster, live, finishing, lastDb, saver, loader, row, file, result, history>>
      /\ UNCHANGED <<undo, rated, saved, dropped, edits>> /\ restored /\ counter' = counter /\ faults' = faults
      /\ starting' = [players |-> queue, id |-> 0] /\ queue' = None
  BY DEF Pop, durable, bounds
<1>2. /\ queue' \subseteq People /\ starting' \in [players : SUBSET People, id : 0..MaxId] /\ starting'.id = 0
      /\ counter' \in 0..MaxId + 1 /\ counter <= counter' /\ faults' \in 0..MaxFaults
  BY <1>1, BoundsAssumption DEF TypeOK, None
<1> QED
  BY <1>1, <1>2, StartFrame

LEMMA NextMatchStep ==
  ASSUME IInv, NextMatch
  PROVE  IInv'
<1> USE DEF IInv
<1>1. /\ UNCHANGED <<restored, roster, live, finishing, lastDb, saver, loader, row, file, result, history>>
      /\ UNCHANGED <<undo, rated, saved, dropped, edits>> /\ queue' = queue /\ faults' = faults
      /\ starting' = [starting EXCEPT !.id = counter] /\ counter' = counter + 1 /\ counter <= MaxId
      /\ starting.players # None
  BY DEF NextMatch, bounds
<1>2. restored
  BY <1>1 DEF MemoryWell, NotStarting, None
<1>3. counter \in 0..MaxId /\ counter' \in 0..MaxId + 1 /\ counter < counter'
  BY <1>1, BoundsAssumption DEF TypeOK
<1>4. /\ starting' \in [players : SUBSET People, id : 0..MaxId] /\ starting'.id = counter
      /\ queue' \subseteq People /\ faults' \in 0..MaxFaults
  BY <1>1, <1>3 DEF TypeOK
<1>5. counter \notin Used
  <2>1. \A m \in Used : m < counter
    BY DEF IdsWell
  <2> QED
    BY <1>3, <2>1
<1> QED
  BY <1>1, <1>2, <1>3, <1>4, <1>5, StartFrame

LEMMA StartFailsStep ==
  ASSUME IInv, StartFails
  PROVE  IInv'
<1> USE DEF IInv
<1>1. /\ UNCHANGED <<restored, roster, live, finishing, lastDb, saver, loader, row, file, result, history>>
      /\ UNCHANGED <<undo, rated, saved, dropped, edits>> /\ queue' = queue /\ counter' = counter
      /\ starting' = NotStarting /\ starting # NotStarting
  BY DEF StartFails, durable
<1>2. restored
  BY <1>1 DEF MemoryWell
<1>3. /\ queue' \subseteq People /\ starting' \in [players : SUBSET People, id : 0..MaxId] /\ starting'.id = 0
      /\ counter' \in 0..MaxId + 1 /\ counter <= counter'
  BY <1>1, BoundsAssumption DEF TypeOK, None, NotStarting
<1>4. faults' \in 0..MaxFaults
  BY FaultCounts DEF StartFails
<1> QED
  BY <1>1, <1>2, <1>3, <1>4, StartFrame

\* A new match is not saved yet, and not over.
LEMMA NewStep ==
  ASSUME IInv, New
  PROVE  IInv'
<1> USE DEF IInv
<1>1. /\ UNCHANGED <<restored, queue, live, finishing, lastDb, saver, loader, row, file, counter, result, history>>
      /\ UNCHANGED <<undo, rated, saved, dropped, edits, faults>>
      /\ roster' = [roster EXCEPT ![starting.id] = starting.players] /\ starting' = NotStarting /\ starting.id # 0
  BY DEF New, durable, bounds
<1>2. starting.id \in Ids /\ starting.players \subseteq People /\ roster \in [Ids -> SUBSET People] /\ starting.id < counter
  BY <1>1, BoundsAssumption DEF TypeOK, Ids, IdsWell
<1>3. starting.id \notin Active
  BY <1>1 DEF IdsWell, Used
<1>4. roster' \in [Ids -> SUBSET People] /\ Active \subseteq Active' /\ Active' \subseteq Active \cup {starting.id}
  BY <1>1, <1>2, <1>3 DEF Active
<1>5. Recorded' = Recorded /\ Over' = Over
  BY <1>1 DEF Recorded, Over
<1>6. TypeOK'
  BY <1>1, <1>4, BoundsAssumption DEF TypeOK, NotStarting, None
<1>7. MemoryWell'
  BY <1>1, <1>4, <1>5 DEF MemoryWell, Of
<1>8. SnapshotsWell'
  BY <1>1 DEF SnapshotsWell, Sound, Of
<1>9. RatedWell'
  BY <1>1 DEF RatedWell
<1>10. SavedWell'
  BY <1>1, <1>4, <1>5 DEF SavedWell, Kept, Of
<1>11. IdsWell'
  BY <1>1, <1>2, <1>4, <1>5 DEF IdsWell, Used, Of, NotStarting
<1> QED
  BY <1>6, <1>7, <1>8, <1>9, <1>10, <1>11

----------------------------------------------------------------------------
\* Results.

\* A result that is not there yet is of a match that is not rated; one that is there changes nothing.
LEMMA CommitStep ==
  ASSUME IInv, NEW m \in Ids, Commit(m)
  PROVE  IInv'
<1> USE DEF IInv
<1>1. /\ UNCHANGED <<restored, queue, roster, live, starting, lastDb, saver, loader, row, file, counter>>
      /\ UNCHANGED <<undo, saved, dropped, edits>> /\ Write(m) /\ m \in live /\ restored
      /\ finishing' \subseteq finishing \cup {m}
  BY DEF Commit
<1>2. roster \in [Ids -> SUBSET People] /\ result \in [Ids -> SUBSET People] /\ rated \in [Ids -> Int] /\ history \subseteq Ids
  BY DEF TypeOK
<1>3. m \in Active /\ roster[m] # None /\ Active' = Active
  BY <1>1 DEF MemoryWell, Active
<1>4. /\ result' \in [Ids -> SUBSET People] /\ rated' \in [Ids -> Int] /\ history' \subseteq Ids
      /\ Recorded' = Recorded \cup {m}
  BY <1>1, <1>2, <1>3 DEF Write, Recorded, None
<1>5. Over \subseteq Over' /\ m \in Over'
  BY <1>1, <1>4 DEF Over
<1>6. finishing' \subseteq Ids /\ faults' \in 0..MaxFaults
  BY <1>1, FaultCounts DEF Commit, TypeOK
<1>7. TypeOK'
  BY <1>1, <1>4, <1>6 DEF TypeOK
<1>8. MemoryWell'
  BY <1>1, <1>3, <1>4, <1>5 DEF MemoryWell, Of
<1>9. SnapshotsWell'
  BY <1>1 DEF SnapshotsWell, Sound, Of
<1>10. RatedWell'
  <2>1. CASE result[m] = None /\ result' = [result EXCEPT ![m] = roster[m]] /\ rated' = [rated EXCEPT ![m] = @ + 1]
    <3>1. rated[m] <= 0 /\ ~(undo.at # "off" /\ undo.id = m)
      BY <2>1 DEF RatedWell, MemoryWell, Recorded
    <3> QED
      BY <1>1, <1>2, <1>3, <2>1, <3>1 DEF RatedWell
  <2>2. CASE UNCHANGED <<result, rated>>
    BY <1>1, <2>2 DEF RatedWell
  <2> QED
    BY <1>1, <2>1, <2>2 DEF Write
<1>11. SavedWell'
  BY <1>1, <1>3, <1>5 DEF SavedWell, Kept, Of
<1>12. IdsWell'
  <2>1. Used' = Used
    BY <1>1, <1>3, <1>4 DEF Used, Of
  <2> QED
    BY <1>1, <2>1 DEF IdsWell
<1> QED
  BY <1>7, <1>8, <1>9, <1>10, <1>11, <1>12

LEMMA UndoFrame ==
  ASSUME IInv, UNCHANGED <<restored, queue, roster, live, starting, finishing, lastDb, saver, loader>>,
         UNCHANGED <<row, file, counter, saved, edits>>,
         faults' \in 0..MaxFaults, rated' \in [Ids -> Int], result' \in [Ids -> SUBSET People], history' \subseteq Ids,
         dropped' \subseteq Ids, undo' \in [id : 0..MaxId, at : {"off", "history", "roster"}],
         Over \subseteq Over', Recorded' \subseteq Recorded,
         undo'.at # "off" => undo'.id \in dropped' \cap Recorded', RatedWell'
  PROVE  IInv'
<1> USE DEF IInv
<1>1. Active' = Active
  BY DEF Active
<1>2. TypeOK'
  BY DEF TypeOK
<1>3. MemoryWell'
  BY <1>1 DEF MemoryWell, Of
<1>4. SnapshotsWell'
  BY DEF SnapshotsWell, Sound, Of
<1>5. SavedWell'
  BY <1>1 DEF SavedWell, Kept, Of
<1>6. IdsWell'
  BY <1>1 DEF IdsWell, Used, Of
<1> QED
  BY <1>2, <1>3, <1>4, <1>5, <1>6

LEMMA UndoMatchStep ==
  ASSUME IInv, NEW m \in Ids, UndoMatch(m)
  PROVE  IInv'
<1> USE DEF IInv
<1>1. /\ UNCHANGED <<restored, queue, roster, live, starting, finishing, lastDb, saver, loader>>
      /\ UNCHANGED <<row, file, counter, result, history, saved, edits, faults>>
      /\ m \in Recorded /\ rated' = [rated EXCEPT ![m] = @ - 1] /\ dropped' = dropped \cup {m}
      /\ undo' = [id |-> m, at |-> "history"] /\ undo = NotUndoing
  BY DEF UndoMatch, memory, durable, bounds
<1>2. Recorded' = Recorded /\ Over \subseteq Over'
  BY <1>1 DEF Recorded, Over
<1>3. rated \in [Ids -> Int] /\ undo.at = "off" /\ m \in 0..MaxId
  BY <1>1, BoundsAssumption DEF TypeOK, NotUndoing, Ids
<1>4. /\ faults' \in 0..MaxFaults /\ rated' \in [Ids -> Int] /\ result' \in [Ids -> SUBSET People] /\ history' \subseteq Ids
      /\ dropped' \subseteq Ids /\ undo' \in [id : 0..MaxId, at : {"off", "history", "roster"}]
  BY <1>1, <1>3 DEF TypeOK
<1>5. RatedWell'
  BY <1>1, <1>3 DEF RatedWell
<1> QED
  BY <1>1, <1>2, <1>4, <1>5, UndoFrame

LEMMA UndoHistoryStep ==
  ASSUME IInv, UndoHistory
  PROVE  IInv'
<1> USE DEF IInv
<1>1. /\ UNCHANGED <<restored, queue, roster, live, starting, finishing, lastDb, saver, loader>>
      /\ UNCHANGED <<row, file, counter, result, rated, dropped, saved, edits, faults>>
      /\ history' = history \ {undo.id} /\ undo' = [undo EXCEPT !.at = "roster"] /\ undo.at = "history"
  BY DEF UndoHistory, memory, bounds
<1>2. Recorded' = Recorded /\ Over' = Over
  BY <1>1 DEF Recorded, Over
<1>3. undo'.id = undo.id /\ undo'.at = "roster" /\ undo' \in [id : 0..MaxId, at : {"off", "history", "roster"}]
  BY <1>1 DEF TypeOK
<1>4. /\ faults' \in 0..MaxFaults /\ rated' \in [Ids -> Int] /\ result' \in [Ids -> SUBSET People] /\ history' \subseteq Ids
      /\ dropped' \subseteq Ids
  BY <1>1 DEF TypeOK
<1>5. RatedWell'
  BY <1>1, <1>3 DEF RatedWell
<1>6. undo'.id \in dropped' \cap Recorded'
  BY <1>1, <1>2, <1>3 DEF MemoryWell
<1> QED
  BY <1>1, <1>2, <1>3, <1>4, <1>5, <1>6, UndoFrame

LEMMA UndoResultStep ==
  ASSUME IInv, UndoResult
  PROVE  IInv'
<1> USE DEF IInv
<1>1. /\ UNCHANGED <<restored, queue, roster, live, starting, finishing, lastDb, saver, loader>>
      /\ UNCHANGED <<row, file, counter, history, rated, dropped, saved, edits, faults>>
      /\ result' = [result EXCEPT ![undo.id] = None] /\ undo' = NotUndoing /\ undo.at = "roster"
  BY DEF UndoResult, memory, bounds
<1>2. undo.id \in dropped \cap Recorded /\ undo.id \in Ids /\ result \in [Ids -> SUBSET People]
  BY <1>1 DEF MemoryWell, Recorded, TypeOK
<1>3. Recorded' = Recorded \ {undo.id} /\ result' \in [Ids -> SUBSET People]
  BY <1>1, <1>2 DEF Recorded, None
<1>4. Over \subseteq Over'
  BY <1>1, <1>2, <1>3 DEF Over
<1>5. undo'.at = "off" /\ undo' \in [id : 0..MaxId, at : {"off", "history", "roster"}]
  BY <1>1, BoundsAssumption DEF NotUndoing
<1>6. faults' \in 0..MaxFaults /\ rated' \in [Ids -> Int] /\ history' \subseteq Ids /\ dropped' \subseteq Ids
  BY <1>1 DEF TypeOK
<1>7. RatedWell'
  BY <1>1, <1>2, <1>5 DEF RatedWell
<1> QED
  BY <1>1, <1>3, <1>4, <1>5, <1>6, <1>7, UndoFrame

LEMMA UndoFailsStep ==
  ASSUME IInv, UndoFails
  PROVE  IInv'
<1> USE DEF IInv
<1>1. /\ UNCHANGED <<restored, queue, roster, live, starting, finishing, lastDb, saver, loader>>
      /\ UNCHANGED <<row, file, counter, result, history, rated, dropped, saved, edits>> /\ undo' = NotUndoing
  BY DEF UndoFails, memory, durable
<1>2. Recorded' = Recorded /\ Over' = Over
  BY <1>1 DEF Recorded, Over
<1>3. undo'.at = "off" /\ undo' \in [id : 0..MaxId, at : {"off", "history", "roster"}]
  BY <1>1, BoundsAssumption DEF NotUndoing
<1>4. /\ rated' \in [Ids -> Int] /\ result' \in [Ids -> SUBSET People] /\ history' \subseteq Ids /\ dropped' \subseteq Ids
      /\ faults' \in 0..MaxFaults
  BY <1>1, FaultCounts DEF TypeOK, UndoFails
<1>5. RatedWell'
  BY <1>1, <1>3 DEF RatedWell
<1> QED
  BY <1>1, <1>2, <1>3, <1>4, <1>5, UndoFrame

----------------------------------------------------------------------------
\* Snapshots.

\* Only a restored process saves: what is saved is in its memory, or over.
LEMMA SaveStep ==
  ASSUME IInv, Save
  PROVE  IInv'
<1> USE DEF IInv
<1>1. /\ UNCHANGED <<restored, queue, roster, live, starting, finishing, lastDb, loader>>
      /\ UNCHANGED <<row, counter, result, history, undo, rated, saved, dropped, edits>>
      /\ restored /\ saver' = Current /\ file' \in {file, Current, Nothing}
  BY DEF Save, MaySave
<1>2. Current \in Payload /\ Of(Current) = Active /\ Sound(Current)
  BY CurrentIsSomething DEF MemoryWell
<1>3. Active' = Active /\ Recorded' = Recorded /\ Over' = Over
  BY <1>1 DEF Active, Recorded, Over
<1>4. saver' \in Payload /\ file' \in Payload /\ faults' \in 0..MaxFaults
  BY <1>1, <1>2, EmptyOnes, FaultCounts DEF Save, TypeOK
<1>5. TypeOK'
  BY <1>1, <1>4 DEF TypeOK
<1>6. MemoryWell'
  BY <1>1, <1>3 DEF MemoryWell, Of
<1>7. SnapshotsWell'
  <2>1. Sound(saver)'
    BY <1>1, <1>2 DEF Sound, Of
  <2>2. Sound(row)' /\ Sound(file)'
    BY <1>1, <1>2 DEF SnapshotsWell, Sound, Of
  <2> QED
    BY <2>1, <2>2 DEF SnapshotsWell
<1>8. RatedWell'
  BY <1>1 DEF RatedWell
<1>9. Of(saver)' = Active
  BY <1>1, <1>2 DEF Of
<1>10. SavedWell'
  BY <1>1, <1>3, <1>9 DEF SavedWell, Kept, Of, MemoryWell
<1>11. IdsWell'
  BY <1>1, <1>3, <1>9 DEF IdsWell, Used
<1> QED
  BY <1>5, <1>6, <1>7, <1>8, <1>10, <1>11

LEMMA InsertedStep ==
  ASSUME IInv, Inserted
  PROVE  IInv'
<1> USE DEF IInv
<1>1. /\ UNCHANGED <<restored, queue, roster, live, starting, finishing, loader>>
      /\ UNCHANGED <<counter, result, history, undo, rated, dropped, edits>>
      /\ saver # Nothing /\ saver' = Nothing /\ row' \in {row, saver} /\ lastDb' \in {lastDb, saver}
      /\ file' \in {file, Nothing} /\ saved' = saved \cup IF row' = Nothing THEN {} ELSE Of(row')
      /\ faults' = faults \/ Fault
  BY DEF Inserted
<1>2. Active' = Active /\ Recorded' = Recorded /\ Over' = Over
  BY <1>1 DEF Active, Recorded, Over
<1>3. /\ saver \in Payload /\ row \in Payload /\ file \in Payload /\ lastDb \in Payload /\ saved \subseteq Ids
      /\ Of(row) \subseteq Ids /\ Of(saver) \subseteq Ids
  BY DEF TypeOK, Of
<1>4. Of(row') \subseteq Of(row) \cup Of(saver) /\ saved' \subseteq saved \cup Of(row') /\ saved \subseteq saved'
  BY <1>1
<1>5. TypeOK'
  <2>1. saver' \in Payload /\ row' \in Payload /\ file' \in Payload /\ lastDb' \in Payload /\ saved' \subseteq Ids
    BY <1>1, <1>3, <1>4, EmptyOnes
  <2>2. faults' \in 0..MaxFaults
    BY <1>1, FaultCounts
  <2> QED
    BY <1>1, <2>1, <2>2 DEF TypeOK
<1>6. MemoryWell'
  BY <1>1, <1>2 DEF MemoryWell, Of
<1>7. SnapshotsWell'
  BY <1>1 DEF SnapshotsWell, Sound, Of
<1>8. RatedWell'
  BY <1>1 DEF RatedWell
<1>9. restored /\ loader.at = "off"
  BY <1>1 DEF MemoryWell, TypeOK
<1>10. Of(row') \subseteq saved' /\ Of(saver') = {}
  BY <1>1, EmptyOnes
<1>11. Of(row)' = Of(row') /\ Of(saver)' = Of(saver')
  BY DEF Of
<1>12. saved' \subseteq saved \cup Of(saver)
  BY <1>1 DEF SavedWell
<1>13. \A m \in saved' : m \in Active \/ m \in Over
  BY <1>9, <1>12 DEF SavedWell, Kept
<1>14. \A m \in saved' : m \in Of(row') \/ m \in Over
  <2>1. CASE row' = row
    <3>1. saved' \subseteq saved
      BY <1>1, <2>1 DEF SavedWell
    <3> QED
      BY <2>1, <3>1 DEF SavedWell, Kept
  <2>2. CASE row' = saver
    BY <1>1, <1>12, <2>2 DEF SavedWell, Kept
  <2> QED
    BY <1>1, <2>1, <2>2
<1>15. SavedWell'
  BY <1>1, <1>2, <1>9, <1>10, <1>11, <1>13, <1>14 DEF SavedWell, Kept
<1>16. IdsWell'
  <2>1. Used' \subseteq Used
    BY <1>2, <1>10, <1>11, <1>12 DEF Used
  <2> QED
    BY <1>1, <1>9, <2>1 DEF IdsWell
<1> QED
  BY <1>5, <1>6, <1>7, <1>8, <1>15, <1>16

----------------------------------------------------------------------------
\* The end of a process, and the next one.

\* What the row holds is all that is left of what was saved.
LEMMA GoneFrame ==
  ASSUME IInv, Gone, UNCHANGED <<result, history, rated, dropped, edits>>, Fault, counter' = Floor,
         row' \in Payload, Sound(row'), file' \in {file, Nothing}, saved' \subseteq Ids, saved \subseteq saved',
         Of(row') \subseteq saved', \A m \in saved' : m \in Of(row') \/ m \in Over,
         saved' \subseteq Used \cup Of(row'), Of(row') \subseteq Used
  PROVE  IInv'
<1> USE DEF IInv
<1>1. /\ restored' = FALSE /\ queue' = None /\ roster' = NoMatches /\ live' = {} /\ finishing' = {}
      /\ starting' = NotStarting /\ lastDb' = Nothing /\ saver' = Nothing
      /\ loader' = [NotLoading EXCEPT !.at = "read"] /\ undo' = NotUndoing
  BY DEF Gone
<1>2. Active' = {} /\ Recorded' = Recorded /\ Over' = Over
  BY <1>1 DEF Active, Recorded, Over, NoMatches
<1>3. Of(row)' = Of(row') /\ Of(saver)' = {}
  BY <1>1, EmptyOnes DEF Of
<1>4. loader'.at = "read" /\ undo'.at = "off" /\ starting'.id = 0
  BY <1>1 DEF NotLoading, NotUndoing, NotStarting
<1>5. /\ counter \in 0..MaxId + 1 /\ Recorded \subseteq Ids /\ Used \subseteq Ids /\ counter' \in 0..MaxId + 1
      /\ counter <= counter' /\ \A m \in Recorded : m < counter'
  <2>1. counter \in 0..MaxId + 1 /\ Recorded \subseteq Ids /\ Used \subseteq Ids
    BY DEF TypeOK, Recorded, Used, Active, Of
  <2> QED
    BY <2>1, FloorIsAbove DEF Floor
<1>6. TypeOK'
  <2>1. loader' \in [at : {"off", "read", "match"}, data : Payload, left : SUBSET Ids]
    BY <1>1, EmptyOnes DEF NotLoading
  <2>2. starting' \in [players : SUBSET People, id : 0..MaxId] /\ undo' \in [id : 0..MaxId, at : {"off", "history", "roster"}]
    BY <1>1, BoundsAssumption DEF NotStarting, NotUndoing, None
  <2>3. lastDb' \in Payload /\ saver' \in Payload /\ row' \in Payload /\ file' \in Payload /\ roster' \in [Ids -> SUBSET People]
    BY <1>1, EmptyOnes DEF TypeOK
  <2>4. faults' \in 0..MaxFaults
    BY FaultCounts
  <2> QED
    BY <1>1, <1>5, <2>1, <2>2, <2>3, <2>4 DEF TypeOK, None
<1>7. MemoryWell'
  BY <1>1, <1>2, <1>4 DEF MemoryWell
<1>8. SnapshotsWell'
  BY <1>1 DEF SnapshotsWell, Sound, Of
<1>9. RatedWell'
  BY <1>4 DEF RatedWell
<1>10. SavedWell'
  BY <1>1, <1>2, <1>3, <1>4 DEF SavedWell, Kept
<1>11. IdsWell'
  <2>1. Used' \subseteq Used
    BY <1>2, <1>3 DEF Used
  <2>2. \A m \in Used : m < counter'
    <3>1. ASSUME NEW m \in Used PROVE m < counter'
      <4>1. m < counter /\ m \in Int /\ counter \in Int /\ counter' \in Int
        BY <1>5, <3>1, BoundsAssumption DEF IdsWell, Ids
      <4> QED
        BY <1>5, <4>1
    <3> QED
      BY <3>1
  <2> QED
    BY <1>4, <2>1, <2>2 DEF IdsWell
<1> QED
  BY <1>6, <1>7, <1>8, <1>9, <1>10, <1>11

LEMMA CrashStep ==
  ASSUME IInv, Crash
  PROVE  IInv'
<1> USE DEF IInv
<1>1. /\ Gone /\ UNCHANGED <<result, history, rated, dropped, edits>> /\ Fault /\ counter' = Floor
      /\ row' \in {row, IF saver = Nothing THEN row ELSE saver} /\ file' \in {file, Nothing}
      /\ saved' = saved \cup IF row' = Nothing THEN {} ELSE Of(row')
  BY DEF Crash
<1>2. /\ saver \in Payload /\ row \in Payload /\ saved \subseteq Ids /\ Of(row) \subseteq Ids /\ Of(saver) \subseteq Ids
  BY DEF TypeOK, Of
<1>3. row' \in Payload /\ Sound(row')
  BY <1>1, <1>2 DEF SnapshotsWell
<1>4. saved' \subseteq Ids /\ saved \subseteq saved' /\ Of(row') \subseteq saved'
  BY <1>1, <1>2, EmptyOnes
<1>5. \A m \in saved' : m \in Of(row') \/ m \in Over
  BY <1>1 DEF SavedWell, Kept
<1>6. Of(row') \subseteq Used /\ saved' \subseteq Used \cup Of(row')
  BY <1>1 DEF SavedWell, Used
<1> QED
  BY <1>1, <1>3, <1>4, <1>5, <1>6, GoneFrame

LEMMA ShutdownStep ==
  ASSUME IInv, Shutdown
  PROVE  IInv'
<1> USE DEF IInv
<1>1. /\ Gone /\ UNCHANGED <<result, history, rated, dropped, edits>> /\ Fault /\ counter' = Floor
      /\ restored /\ row' = Current /\ file' = Nothing /\ saved' = saved \cup Active
  BY DEF Shutdown
<1>2. Current \in Payload /\ Of(Current) = Active /\ Sound(Current)
  BY CurrentIsSomething DEF MemoryWell
<1>3. saved' \subseteq Ids /\ saved \subseteq saved' /\ Of(row') \subseteq saved'
  BY <1>1, <1>2 DEF TypeOK, Active
<1>4. \A m \in saved' : m \in Of(row') \/ m \in Over
  BY <1>1, <1>2 DEF SavedWell, Kept
<1>5. Of(row') \subseteq Used /\ saved' \subseteq Used \cup Of(row')
  BY <1>1, <1>2 DEF Used
<1> QED
  BY <1>1, <1>2, <1>3, <1>4, <1>5, GoneFrame

\* Steps of the load.
LEMMA LoadFrame ==
  ASSUME IInv, UNCHANGED <<starting, finishing, lastDb, saver, row, file, result, history, undo, rated, saved, dropped, edits>>,
         ~restored, restored' \in BOOLEAN, queue' \subseteq People, roster' \in [Ids -> SUBSET People], live' \subseteq Active',
         counter' \in 0..MaxId + 1, counter <= counter', faults' \in 0..MaxFaults,
         loader' \in [at : {"off", "read", "match"}, data : Payload, left : SUBSET Ids],
         restored' => loader'.at = "off" /\ Kept(Active'),
         loader'.at = "match" =>
           loader'.left \subseteq Of(loader'.data) /\ loader'.data.live \subseteq Of(loader'.data)
           /\ Kept(loader'.left \cup Active') /\ \A m \in loader'.left : m < counter',
         Active \subseteq Active', \A m \in Active' \ Active : m < counter'
  PROVE  IInv'
<1> USE DEF IInv
<1>1. starting = NotStarting /\ saver = Nothing /\ finishing = {} /\ starting.id = 0
  BY DEF MemoryWell, NotStarting
<1>2. Recorded' = Recorded /\ Over' = Over /\ Of(saver) = {} /\ Of(saver)' = {} /\ Of(row)' = Of(row)
  BY <1>1, EmptyOnes DEF Recorded, Over, Of
<1>3. TypeOK'
  BY DEF TypeOK, Active
<1>4. MemoryWell'
  BY <1>1, <1>2 DEF MemoryWell, Of
<1>5. SnapshotsWell'
  BY DEF SnapshotsWell, Sound, Of
<1>6. RatedWell'
  BY DEF RatedWell
<1>7. SavedWell'
  BY <1>1, <1>2 DEF SavedWell, Kept
<1>8. IdsWell'
  <2>1. Used \subseteq Ids /\ counter \in Int /\ counter' \in Int
    BY BoundsAssumption DEF Used, Active, Recorded, Of, TypeOK
  <2>2. \A m \in Used : m < counter'
    <3>1. ASSUME NEW m \in Used PROVE m < counter'
      <4>1. m < counter /\ m \in Int
        BY <2>1, <3>1, BoundsAssumption DEF IdsWell, Ids
      <4> QED
        BY <2>1, <4>1
    <3> QED
      BY <3>1
  <2>3. Used' \subseteq Used \cup (Active' \ Active)
    BY <1>2 DEF Used
  <2> QED
    BY <1>1, <2>2, <2>3 DEF IdsWell
<1> QED
  BY <1>3, <1>4, <1>5, <1>6, <1>7, <1>8

LEMMA LoadStep ==
  ASSUME IInv, Load
  PROVE  IInv'
<1> USE DEF IInv
<1>1. PICK data \in {row, file, Empty} :
        /\ data = (IF row # Nothing THEN row ELSE IF file # Nothing THEN file ELSE Empty)
        /\ counter' = RestoredFloor(data) /\ queue' = data.queue
        /\ loader' = [at |-> "match", data |-> data, left |-> Of(data)]
  BY DEF Load
<1>2. /\ UNCHANGED <<restored, roster, live, starting, finishing, lastDb, saver, row, file, result>>
      /\ UNCHANGED <<history, undo, rated, saved, dropped, edits, faults>> /\ loader.at = "read"
  BY DEF Load, bounds
<1>3. ~restored /\ Active' = Active
  BY <1>2 DEF MemoryWell, Active
<1>4. data \in Payload /\ Of(data) \subseteq Ids /\ data.queue \subseteq People /\ counter \in 0..MaxId + 1
  BY EmptyOnes DEF TypeOK, Payload, Of
<1>5. data.live \subseteq Of(data)
  BY <1>1, EmptyOnes DEF SnapshotsWell, Sound
<1>6. counter' \in 0..MaxId + 1 /\ counter <= counter' /\ \A m \in Of(data) : m < counter'
  BY <1>1, <1>4, FloorIsAbove DEF RestoredFloor
<1>7. Kept(Of(data))
  <2>1. Of(row) \subseteq Of(data)
    BY <1>1, EmptyOnes
  <2> QED
    BY <2>1 DEF SavedWell, Kept
<1>8. /\ restored' \in BOOLEAN /\ queue' \subseteq People /\ roster' \in [Ids -> SUBSET People] /\ live' \subseteq Active'
      /\ faults' \in 0..MaxFaults
  BY <1>1, <1>2, <1>3, <1>4 DEF TypeOK, MemoryWell
<1>9. /\ loader' \in [at : {"off", "read", "match"}, data : Payload, left : SUBSET Ids]
      /\ loader'.at = "match" /\ loader'.left = Of(data) /\ loader'.data = data
  BY <1>1, <1>4
<1>10. Kept(loader'.left \cup Active')
  BY <1>7, <1>9 DEF Kept
<1>11. ~restored'
  BY <1>2, <1>3
<1> QED
  BY <1>2, <1>3, <1>5, <1>6, <1>8, <1>9, <1>10, <1>11, LoadFrame

\* A match of the snapshot is over or is there again.
LEMMA LoadMatchStep ==
  ASSUME IInv, LoadMatch
  PROVE  IInv'
<1> USE DEF IInv
<1>1. /\ UNCHANGED <<restored, queue, starting, finishing, lastDb, saver, row, file, counter, result, history>>
      /\ UNCHANGED <<undo, rated, saved, dropped, edits, faults>> /\ loader.at = "match"
  BY DEF LoadMatch, durable, bounds
<1>2. PICK m \in loader.left : Restore(m)
  BY DEF LoadMatch
<1>3. /\ ~restored /\ loader.left \subseteq Of(loader.data) /\ loader.data.live \subseteq Of(loader.data)
      /\ Kept(loader.left \cup Active) /\ \A n \in loader.left : n < counter
  BY <1>1 DEF MemoryWell, SavedWell, IdsWell
<1>4. /\ m \in Ids /\ loader.data.roster[m] # None /\ loader.data.roster \in [Ids -> SUBSET People]
      /\ roster \in [Ids -> SUBSET People] /\ loader.data \in Payload /\ loader.left \subseteq Ids
  BY <1>2, <1>3 DEF Of, TypeOK, Payload
<1>5. restored' \in BOOLEAN /\ queue' \subseteq People /\ counter' \in 0..MaxId + 1 /\ counter <= counter' /\ faults' \in 0..MaxFaults
  BY <1>1, BoundsAssumption DEF TypeOK
<1>6. CASE m \in Recorded /\ loader' = [loader EXCEPT !.left = @ \ {m}] /\ UNCHANGED <<roster, live>>
  <2>1. Active' = Active /\ roster' \in [Ids -> SUBSET People] /\ live' \subseteq Active'
    BY <1>4, <1>6 DEF Active, MemoryWell
  <2>2. /\ loader' \in [at : {"off", "read", "match"}, data : Payload, left : SUBSET Ids]
        /\ loader'.left = loader.left \ {m} /\ loader'.data = loader.data
    BY <1>6 DEF TypeOK
  <2>3. Kept(loader'.left \cup Active')
    BY <1>3, <1>6, <2>1, <2>2 DEF Kept, Over
  <2> QED
    BY <1>1, <1>3, <1>5, <2>1, <2>2, <2>3, LoadFrame
<1>7. CASE loader' = [NotLoading EXCEPT !.at = "read"] /\ UNCHANGED <<roster, live>>
  <2>1. Active' = Active /\ roster' \in [Ids -> SUBSET People] /\ live' \subseteq Active'
    BY <1>4, <1>7 DEF Active, MemoryWell
  <2>2. loader' \in [at : {"off", "read", "match"}, data : Payload, left : SUBSET Ids] /\ loader'.at = "read"
    BY <1>7, EmptyOnes DEF NotLoading
  <2> QED
    BY <1>1, <1>3, <1>5, <2>1, <2>2, LoadFrame
<1>8. CASE /\ roster' = [roster EXCEPT ![m] = loader.data.roster[m]] /\ live' = live \cup ({m} \cap loader.data.live)
           /\ loader' = [loader EXCEPT !.left = @ \ {m}]
  <2>1. Active' = Active \cup {m} /\ roster' \in [Ids -> SUBSET People]
    BY <1>4, <1>8 DEF Active
  <2>2. live' \subseteq Active'
    BY <1>8, <2>1 DEF MemoryWell
  <2>3. /\ loader' \in [at : {"off", "read", "match"}, data : Payload, left : SUBSET Ids]
        /\ loader'.left = loader.left \ {m} /\ loader'.data = loader.data
    BY <1>8 DEF TypeOK
  <2>4. Kept(loader'.left \cup Active')
    BY <1>3, <2>1, <2>3 DEF Kept
  <2>5. \A n \in Active' \ Active : n < counter'
    BY <1>1, <1>2, <1>3, <2>1
  <2> QED
    BY <1>1, <1>3, <1>5, <2>1, <2>2, <2>3, <2>4, <2>5, LoadFrame
<1> QED
  BY <1>2, <1>6, <1>7, <1>8 DEF Restore

LEMMA LoadedStep ==
  ASSUME IInv, Loaded
  PROVE  IInv'
<1> USE DEF IInv
<1>1. /\ UNCHANGED <<queue, roster, live, starting, finishing, lastDb, saver, row, file, counter, result, history>>
      /\ UNCHANGED <<undo, rated, saved, dropped, edits, faults>> /\ loader.at = "match" /\ loader.left = {}
      /\ loader' = NotLoading
  BY DEF Loaded, durable, bounds
<1>2. ~restored /\ Kept(Active) /\ Active' = Active
  BY <1>1 DEF MemoryWell, SavedWell, Active
<1>3. /\ queue' \subseteq People /\ roster' \in [Ids -> SUBSET People] /\ live' \subseteq Active'
      /\ counter' \in 0..MaxId + 1 /\ counter <= counter' /\ faults' \in 0..MaxFaults
  BY <1>1, <1>2, BoundsAssumption DEF TypeOK, MemoryWell
<1>4. loader' \in [at : {"off", "read", "match"}, data : Payload, left : SUBSET Ids] /\ loader'.at = "off"
  BY <1>1, EmptyOnes DEF NotLoading
<1>5. restored' \in BOOLEAN
  BY DEF Loaded
<1> QED
  BY <1>1, <1>2, <1>3, <1>4, <1>5, LoadFrame DEF Kept

LEMMA LoadFailsStep ==
  ASSUME IInv, LoadFails
  PROVE  IInv'
<1> USE DEF IInv
<1>1. /\ UNCHANGED <<restored, queue, roster, live, starting, finishing, lastDb, saver, row, file, counter, result, history>>
      /\ UNCHANGED <<undo, rated, saved, dropped, edits>> /\ loader.at = "match"
      /\ loader' = [NotLoading EXCEPT !.at = "read"]
  BY DEF LoadFails, durable
<1>2. ~restored /\ Active' = Active /\ faults' \in 0..MaxFaults
  BY <1>1, FaultCounts DEF MemoryWell, Active, LoadFails
<1>3. /\ queue' \subseteq People /\ roster' \in [Ids -> SUBSET People] /\ live' \subseteq Active' /\ restored' \in BOOLEAN
      /\ counter' \in 0..MaxId + 1 /\ counter <= counter'
  BY <1>1, <1>2, BoundsAssumption DEF TypeOK, MemoryWell
<1>4. loader' \in [at : {"off", "read", "match"}, data : Payload, left : SUBSET Ids] /\ loader'.at = "read"
  BY <1>1, EmptyOnes DEF NotLoading
<1>5. ~restored'
  BY <1>1, <1>2
<1> QED
  BY <1>1, <1>2, <1>3, <1>4, <1>5, LoadFrame

----------------------------------------------------------------------------
\* The start, and all the steps.

LEMMA InitStep ==
  ASSUME Init
  PROVE  IInv
<1>1. Active = {} /\ Recorded = {} /\ Of(row) = {} /\ Of(saver) = {} /\ saved = {} /\ live = {}
  BY EmptyOnes DEF Init, Active, Recorded, NoMatches
<1>2. loader.at = "read" /\ undo.at = "off" /\ starting.id = 0 /\ starting = NotStarting
  BY DEF Init, NotLoading, NotUndoing, NotStarting
<1>3. file = Nothing \/ (file \in Payload /\ file.live = {})
  <2>1. [Empty EXCEPT !.roster[1] = Old] \in Payload /\ [Empty EXCEPT !.roster[1] = Old].live = {}
    BY EmptyOnes, OldAssumption, BoundsAssumption DEF Empty, Payload, Ids, NoMatches, None
  <2> QED
    BY <2>1 DEF Init, OldFile
<1>4. TypeOK
  <2>1. row \in Payload /\ file \in Payload /\ saver \in Payload /\ lastDb \in Payload
    BY <1>3, EmptyOnes DEF Init
  <2>2. loader \in [at : {"off", "read", "match"}, data : Payload, left : SUBSET Ids]
    BY EmptyOnes DEF Init, NotLoading
  <2>3. starting \in [players : SUBSET People, id : 0..MaxId] /\ undo \in [id : 0..MaxId, at : {"off", "history", "roster"}]
    BY BoundsAssumption DEF Init, NotStarting, NotUndoing, None
  <2>4. counter \in 0..MaxId + 1 /\ edits \in 0..MaxEdits /\ faults \in 0..MaxFaults
    BY BoundsAssumption DEF Init
  <2>5. roster \in [Ids -> SUBSET People] /\ result \in [Ids -> SUBSET People] /\ rated \in [Ids -> Int]
    BY EmptyOnes DEF Init
  <2> QED
    BY <2>1, <2>2, <2>3, <2>4, <2>5 DEF Init, TypeOK, None
<1>5. MemoryWell
  BY <1>1, <1>2 DEF Init, MemoryWell
<1>6. SnapshotsWell
  BY <1>3 DEF Init, SnapshotsWell, Sound
<1>7. RatedWell
  BY DEF Init, RatedWell
<1>8. SavedWell
  BY <1>1, <1>2 DEF Init, SavedWell, Kept
<1>9. IdsWell
  BY <1>1, <1>2 DEF IdsWell, Used
<1> QED
  BY <1>4, <1>5, <1>6, <1>7, <1>8, <1>9 DEF IInv

LEMMA StutterStep ==
  ASSUME IInv, UNCHANGED vars
  PROVE  IInv'
<1> USE DEF IInv
<1>1. /\ UNCHANGED <<restored, queue, roster, live, starting, finishing, lastDb, saver, loader>>
      /\ UNCHANGED <<row, file, counter, result, history, undo, rated, saved, dropped, edits, faults>>
  BY DEF vars, memory, durable, bounds
<1>2. Active' = Active
  BY <1>1 DEF Active
<1>3. queue' \subseteq People /\ roster' \in [Ids -> SUBSET People] /\ live' \subseteq Active' /\ dropped' \subseteq Ids
      /\ edits' \in 0..MaxEdits /\ faults' \in 0..MaxFaults
  BY <1>1, <1>2 DEF TypeOK, MemoryWell
<1> QED
  BY <1>1, <1>2, <1>3, RosterFrame

LEMMA NextStep ==
  ASSUME IInv, [Next]_vars
  PROVE  IInv'
<1>1. CASE \E p \in People : Join(p)
  BY <1>1, JoinStep
<1>2. CASE Pop \/ NextMatch \/ New \/ StartFails
  BY <1>2, PopStep, NextMatchStep, NewStep, StartFailsStep
<1>3. ASSUME NEW m \in Ids, GoLive(m) \/ Commit(m) \/ Finish(m) \/ Cancel(m) \/ UndoMatch(m)
      PROVE  IInv'
  BY <1>3, GoLiveStep, CommitStep, FinishStep, CancelStep, UndoMatchStep
<1>4. ASSUME NEW m \in Ids, NEW p \in People, NEW q \in People, Substitute(m, p, q)
      PROVE  IInv'
  BY <1>4, SubstituteStep
<1>5. CASE UndoHistory \/ UndoResult \/ UndoFails \/ Save \/ Inserted
  BY <1>5, UndoHistoryStep, UndoResultStep, UndoFailsStep, SaveStep, InsertedStep
<1>6. CASE Crash \/ Shutdown \/ Load \/ LoadMatch \/ Loaded \/ LoadFails
  BY <1>6, CrashStep, ShutdownStep, LoadStep, LoadMatchStep, LoadedStep, LoadFailsStep
<1>7. CASE UNCHANGED vars
  BY <1>7, StutterStep
<1> QED
  BY <1>1, <1>2, <1>3, <1>4, <1>5, <1>6, <1>7 DEF Next

\* For every value of the constants, what the next theorems use is an invariant.
THEOREM Inductive == Spec => []IInv
<1>1. Init => IInv
  BY InitStep
<1>2. IInv /\ [Next]_vars => IInv'
  BY NextStep
<1> QED
  BY <1>1, <1>2, PTL DEF Spec

\* Every variable stays in its domain.
THEOREM TypeCorrect == Spec => []TypeOK
<1>1. IInv => TypeOK
  BY DEF IInv
<1> QED
  BY <1>1, Inductive, PTL

\* However often a report is retried after a lost acknowledgement, a match is restored or its result
\* undone, halfway or to the end, it counts once at most (_register_match, load_state, undo_match).
THEOREM NeverRatedAgain == Spec => []RatedOnce
<1>1. IInv => RatedOnce
  BY DEF IInv, RatedWell, RatedOnce
<1> QED
  BY <1>1, Inductive, PTL

\* A match once saved is never lost by a restart, a failed load or a later snapshot (state.py, __main__.py).
THEOREM NothingSavedIsLost == Spec => []SavedSurvives
<1>1. IInv => SavedSurvives
  <2>1. ASSUME IInv, NEW m \in saved
        PROVE  m \in Recorded \cup dropped \/ m \in Active \/ (row # Nothing /\ m \in Of(row))
    BY <2>1, EmptyOnes DEF IInv, SavedWell, Kept, Over
  <2> QED
    BY <2>1 DEF SavedSurvives
<1> QED
  BY <1>1, Inductive, PTL

\* An id that a start has drawn is of no match in memory, of no result and of no snapshot (next_match,
\* check_match_id_counter, reserve_restored_ids).
THEOREM IdsAreFresh == Spec => []IdsAreNew
<1>1. IInv => IdsAreNew
  BY DEF IInv, IdsWell, Used, IdsAreNew
<1> QED
  BY <1>1, Inductive, PTL
=============================================================================
