---------------------------- MODULE LobbyProofs ----------------------------
(***************************************************************************)
(* TLAPS proofs about Lobby, for any games and bounds: a result is posted  *)
(* once, a launch stands, and the polling job never sleeps beside a row it *)
(* has to poll.  The first rests on what a task that resolves a row knows  *)
(* of the messages of this row, the last on what a pass that is under way  *)
(* has yet to look at.                                                     *)
(***************************************************************************)
EXTENDS Lobby, FiniteSetTheorems, TLAPS

Asked == {"fetch", "fetch_card", "send", "send_card"}

\* A row is written once, from the first free place on; what is launched is not before its launch.
RowWell(i) ==
  /\ row[i].launched => row[i].status \notin Before \cup {"none"}
  /\ row[i].status = "none" => resolve[i] = "none" /\ ~row[i].posted /\ posts[i] = 0
  /\ row[i].status = "none" => \A k \in Rows : k > i => row[k].status = "none"

\* Whoever resolves a row knows of the message that is in the channel but not in the row.
Told(i) ==
  /\ resolve[i] \in Unrecorded => posts[i] >= 1
  /\ resolve[i] # "none" /\ row[i].status \in Terminal => ~row[i].launched /\ row[i].age # "young"
  /\ i \notin slipped =>
       /\ posts[i] <= 1
       /\ resolve[i] \in Asked => ~row[i].posted
       /\ ~row[i].posted /\ resolve[i] \notin Unrecorded => posts[i] = 0

RowsWell == \A i \in Rows : RowWell(i)
AllTold == \A i \in Rows : Told(i)

\* A row that is selected stays.
Known ==
  /\ watcher.found \in Used \cup {0}
  /\ watcher.at = "write" => watcher.status \in Before
  /\ command.found \in Used \cup {0}
  /\ \A c \in checks : c.row \in Used

Live(i) == Unproven(i) \/ Playing(i)
Quiet == \A i \in Rows \ missed : ~Live(i)

\* The job is asleep, or about to, beside rows that it need not poll.
Awake ==
  /\ job.at = "idle" /\ ~active /\ (asleep \/ ~pollDue) => Quiet
  /\ job.at = "idle" /\ asleep => ~active
  /\ job.at = "launches" /\ ~armed /\ ~job.was /\ ~pollDue => Quiet
  /\ job.at \in {"reap", "completions"} /\ ~armed /\ ~job.live =>
       /\ \A i \in Rows \ missed : ~Unproven(i)
       /\ ~job.was /\ job.at = "reap" /\ ~pollDue => Quiet

IInv == TypeOK /\ RowsWell /\ AllTold /\ Known /\ Awake

----------------------------------------------------------------------------
\* The table.

\* The first row that is not used follows those that are.
LEMMA FreshRow ==
  ASSUME TypeOK, RowsWell
  PROVE  /\ Fresh \in Nat \ {0}
         /\ \A k \in Rows : k < Fresh <=> row[k].status # "none"
<1>1. IsFiniteSet(Rows) /\ Used \in SUBSET Rows
  BY BoundsAssumption, FS_Interval DEF Rows, Used
<1>2. Cardinality(Used) \in Nat /\ IsFiniteSet(Used)
  BY <1>1, FS_Subset, FS_CardinalityType
<1>3. ASSUME NEW k \in Rows, row[k].status # "none" PROVE k < Fresh
  <2>1. 1..k \in SUBSET Used
    BY <1>3, BoundsAssumption DEF RowsWell, RowWell, Used, Rows
  <2>2. Cardinality(1..k) = k /\ k \in Nat
    BY FS_Interval, BoundsAssumption DEF Rows
  <2>3. Cardinality(1..k) <= Cardinality(Used)
    BY <1>2, <2>1, FS_Subset
  <2> QED
    BY <1>2, <2>2, <2>3 DEF Fresh
<1>4. ASSUME NEW k \in Rows, row[k].status = "none" PROVE k >= Fresh
  <2>1. Used \in SUBSET (1..(k - 1))
    BY <1>4, BoundsAssumption DEF RowsWell, RowWell, Used, Rows
  <2>2. IsFiniteSet(1..(k - 1)) /\ Cardinality(1..(k - 1)) = k - 1
    BY FS_Interval, BoundsAssumption DEF Rows
  <2>3. Cardinality(Used) <= k - 1
    BY <2>1, <2>2, FS_Subset
  <2> QED
    BY <1>2, <2>3, BoundsAssumption DEF Fresh, Rows
<1> QED
  BY <1>2, <1>3, <1>4, BoundsAssumption DEF Fresh, Rows

\* What every write of the table but a link by hand keeps of a row, and of what is told of it.
Keeps(i) ==
  /\ row[i].status # "none" => row'[i].status # "none"
  /\ row'[i].posted = row[i].posted
  /\ row[i].launched => row'[i].launched /\ row'[i].status \notin Before
  /\ row[i].status \in Terminal => row'[i].launched = row[i].launched
  /\ row'[i].status \in Terminal /\ row[i].status # "none" =>
       \/ row[i].status \in Terminal /\ (row[i].age # "young" => row'[i].age # "young")
       \/ ~row'[i].launched /\ row'[i].age # "young"

LEMMA ToldKept ==
  ASSUME RowsWell, AllTold, UNCHANGED <<resolve, posts, slipped>>, \A i \in Rows : Keeps(i)
  PROVE  AllTold'
BY DEF RowsWell, RowWell, AllTold, Told, Keeps

\* What LaunchStands says of a step.
Stands ==
  \A i \in Rows :
    /\ row[i].launched => row'[i].launched /\ row'[i].status \notin Before
    /\ row[i].status \in Terminal => row'[i].launched = row[i].launched

LEMMA KeepsStands ==
  ASSUME \A i \in Rows : Keeps(i)
  PROVE  Stands
BY DEF Keeps, Stands

LEMMA KnownKept ==
  ASSUME Known, TypeOK, \A i \in Rows : Keeps(i)
  PROVE  Used \subseteq Used'
BY DEF Used, Keeps

\* A step that adds nothing to poll for.
Calms == \A i \in Rows \ missed' : i \notin missed /\ (Live(i)' => Live(i)) /\ (Unproven(i)' => Unproven(i))

LEMMA AwakeKept ==
  ASSUME Awake, UNCHANGED <<job, active, asleep, pollDue, armed>>, Calms
  PROVE  Awake'
BY DEF Awake, Calms, Quiet

LEMMA ArmAwakes ==
  ASSUME TypeOK, Arm, UNCHANGED job
  PROVE  Awake'
BY DEF Awake, Arm, TypeOK

\* A step that leaves the table alone.
LEMMA TableAlone ==
  ASSUME IInv, UNCHANGED <<row, resolve, posts, slipped, job, clock, armed, missed>>
  PROVE  RowsWell' /\ AllTold' /\ Awake' /\ Used' = Used /\ Stands
<1>1. RowsWell' /\ AllTold' /\ Awake' /\ Used' = Used
  BY DEF IInv, RowsWell, RowWell, AllTold, Told, Awake, Quiet, Live, Unproven, Playing, Used, clock
<1>2. Stands
  BY DEF IInv, RowsWell, RowWell, Stands
<1> QED
  BY <1>1, <1>2

RowType ==
  [status : {"none"} \cup Before \cup Launched \cup Terminal, game : Games \cup {NoGame},
   ours : BOOLEAN, launched : BOOLEAN, posted : BOOLEAN, age : {"young", "old", "ancient"}]

\* A table in which some rows have been marked as launched, by mark_confirmed.
Marked(r) ==
  /\ r \in [Rows -> RowType]
  /\ \A i \in Rows :
       \/ r[i] = row[i]
       \/ /\ row[i].status \notin Terminal \cup {"none"} /\ ~row[i].launched
          /\ r[i].launched /\ r[i].status \in Launched
          /\ r[i].posted = row[i].posted /\ r[i].age = row[i].age

LEMMA MarkedKeeps ==
  ASSUME TypeOK, RowsWell, NEW r, Marked(r), row' = r, UNCHANGED <<resolve, posts>>
  PROVE  (\A i \in Rows : Keeps(i)) /\ RowsWell' /\ Used' = Used
<1>1. \A i \in Rows : r[i].status = "none" <=> row[i].status = "none"
  BY DEF Marked, Launched
<1>2. \A i \in Rows : Keeps(i)
  BY DEF Keeps, Marked, Launched, Terminal, Before, RowsWell, RowWell
<1>3. \A i \in Rows : r[i].launched => r[i].status \notin Before \cup {"none"}
  BY DEF Marked, Launched, Before, RowsWell, RowWell
<1>4. \A i \in Rows : r[i].posted = row[i].posted
  BY DEF Marked
<1> QED
  BY <1>1, <1>2, <1>3, <1>4 DEF RowsWell, RowWell, Used

\* What _persist and _persist_verifying write into such a table.
LEMMA WrittenKeeps ==
  ASSUME TypeOK, RowsWell, NEW r, Marked(r), NEW found \in Used \cup {0}, Target(found) \in Rows,
         NEW g \in Games \cup {NoGame}, NEW ours \in BOOLEAN, NEW status \in Before,
         row' = Written(r, found, g, ours, status), UNCHANGED <<resolve, posts>>
  PROVE  /\ row' \in [Rows -> RowType]
         /\ Target(found) \in Used'
         /\ \A i \in Rows \ {Target(found)} : row'[i] = r[i]
         /\ \A i \in Rows : Keeps(i)
         /\ RowsWell'
<1>1. /\ \A i \in Rows : r[i].status = "none" <=> row[i].status = "none"
      /\ \A i \in Rows : r[i].launched => r[i].status \notin Before \cup {"none"}
  BY DEF Marked, Launched, Before, RowsWell, RowWell
<1>2. CASE found # 0
  <2>1. Target(found) = found /\ found \in Rows /\ row[found].status # "none"
    BY <1>2 DEF Target, Used
  <2>2. row' = [r EXCEPT ![found].ours = @ \/ ours, ![found].status = Observed(r[found], status)]
    BY <1>2 DEF Written
  <2>3. row'[found] = [r[found] EXCEPT !.ours = @ \/ ours, !.status = Observed(r[found], status)]
    BY <2>1, <2>2 DEF Marked
  <2>4. r[found] \in RowType /\ Observed(r[found], status) \in {"none"} \cup Before \cup Launched \cup Terminal
    BY <2>1 DEF Marked, RowType, Observed
  <2>5. row'[found] \in RowType /\ \A i \in Rows \ {found} : row'[i] = r[i]
    BY <2>1, <2>2, <2>3, <2>4 DEF RowType, Marked
  <2>6. row' \in [Rows -> RowType]
    BY <2>1, <2>2, <2>5 DEF Marked, RowType
  <2>7. /\ row'[found].status = Observed(r[found], status)
        /\ row'[found].launched = r[found].launched /\ row'[found].posted = r[found].posted
        /\ row'[found].age = r[found].age
    BY <2>3, <2>4 DEF RowType
  <2>8. Keeps(found)
    BY <1>1, <2>1, <2>7 DEF Keeps, Observed, Marked, Before, Launched, Terminal, RowsWell, RowWell
  <2>9. \A i \in Rows \ {found} : Keeps(i)
    BY <2>5 DEF Keeps, Marked, Before, Launched, Terminal, RowsWell, RowWell
  <2>10. \A i \in Rows : row'[i].status = "none" <=> row[i].status = "none"
    BY <1>1, <2>1, <2>5, <2>7 DEF Observed, Before
  <2>11. \A i \in Rows : row'[i].launched => row'[i].status \notin Before \cup {"none"}
    BY <1>1, <2>5, <2>7 DEF Observed
  <2>12. RowsWell'
    BY <2>8, <2>9, <2>10, <2>11 DEF RowsWell, RowWell, Keeps
  <2> QED
    BY <2>1, <2>5, <2>6, <2>8, <2>9, <2>10, <2>12 DEF Used
<1>3. CASE found = 0
  <2>1. Target(found) = Fresh /\ Fresh \in Rows
    BY <1>3 DEF Target
  <2>2. row[Fresh].status = "none" /\ \A k \in Rows : k < Fresh <=> row[k].status # "none"
    BY <2>1, FreshRow, BoundsAssumption DEF Rows
  <2>3. row' = [r EXCEPT ![Fresh] = NewRow(g, ours, status)]
    BY <1>3 DEF Written
  <2>4. NewRow(g, ours, status) \in RowType
    BY DEF NewRow, NoRow, RowType, Before
  <2>5. row'[Fresh] = NewRow(g, ours, status) /\ \A i \in Rows \ {Fresh} : row'[i] = r[i]
    BY <2>1, <2>3 DEF Marked
  <2>6. row' \in [Rows -> RowType]
    BY <2>1, <2>3, <2>4 DEF Marked, RowType
  <2>7. /\ row'[Fresh].status = status /\ row'[Fresh].status # "none" /\ status \notin Terminal
        /\ row'[Fresh].launched = FALSE /\ row'[Fresh].posted = FALSE
    BY <2>5 DEF NewRow, NoRow, Before, Terminal
  <2>8. row[Fresh].launched = FALSE /\ row[Fresh].posted = FALSE /\ row[Fresh].status \notin Terminal
    BY <2>1, <2>2 DEF RowsWell, RowWell, Terminal, TypeOK
  <2>9. Keeps(Fresh)
    BY <2>2, <2>7, <2>8 DEF Keeps
  <2>10. \A i \in Rows \ {Fresh} : Keeps(i)
    BY <2>5 DEF Keeps, Marked, Before, Launched, Terminal, RowsWell, RowWell
  <2>11. \A i \in Rows \ {Fresh} : row'[i].status = "none" <=> row[i].status = "none"
    BY <1>1, <2>5
  <2>12. \A i \in Rows : row'[i].launched => row'[i].status \notin Before \cup {"none"}
    BY <1>1, <2>5, <2>7
  <2>13. \A i \in Rows : row'[i].status = "none" => row[i].status = "none" /\ row'[i].posted = row[i].posted
    BY <2>7, <2>10, <2>11 DEF Keeps
  <2>14. \A i \in Rows : row'[i].status = "none" => \A k \in Rows : k > i => row'[k].status = "none"
    BY <2>1, <2>2, <2>7, <2>11, BoundsAssumption DEF Rows
  <2>15. RowsWell'
    BY <2>12, <2>13, <2>14 DEF RowsWell, RowWell
  <2> QED
    BY <2>1, <2>5, <2>6, <2>7, <2>9, <2>10, <2>15 DEF Used
<1> QED
  BY <1>2, <1>3

LEMMA RowIsMarked ==
  ASSUME TypeOK
  PROVE  Marked(row)
BY DEF Marked, TypeOK, RowType

----------------------------------------------------------------------------
\* Steps that leave the table alone.

LEMMA WorldStep ==
  ASSUME IInv, NEW g \in Games, Remove(g) \/ Publish(g)
  PROVE  IInv' /\ Stands
<1>1. UNCHANGED <<row, actors, tasks, job, clock, history, faults>>
  BY DEF Remove, Publish
<1>2. TypeOK'
  BY <1>1 DEF IInv, TypeOK, Remove, Publish, actors, tasks, clock, history
<1>3. RowsWell' /\ AllTold' /\ Awake' /\ Used' = Used /\ Stands
  BY <1>1, TableAlone DEF tasks, clock, history
<1> QED
  BY <1>1, <1>2, <1>3 DEF IInv, Known, actors, tasks

WatcherType ==
  [on : BOOLEAN, linked : Games \cup {NoGame}, at : {"idle", "write"}, game : Games \cup {NoGame},
   status : Before \cup {"none"}, found : 0..MaxRows]
CommandType == [at : {"idle", "link_write", "seen", "write"}, game : Games \cup {NoGame}, found : 0..MaxRows]

\* A fault counts; so does a step without one.
LEMMA FaultCounts ==
  ASSUME TypeOK, Fault \/ faults' = faults
  PROVE  faults' \in 0..MaxFaults
BY BoundsAssumption DEF Fault, TypeOK

\* A watcher that has persisted, and a command that follows its lobby or ends.
LEMMA AfterWrite ==
  ASSUME TypeOK
  PROVE  /\ Off \in WatcherType /\ Off.found = 0
         /\ Persisted \in WatcherType /\ Persisted.found = 0
         /\ Off.at = "idle" /\ Persisted.at = "idle"
         /\ NoCommand \in CommandType /\ NoCommand.found = 0
         /\ Follow => command' \in CommandType /\ command'.found = 0
<1>1. watcher \in WatcherType /\ command \in CommandType /\ 0 \in 0..MaxRows
  BY BoundsAssumption DEF TypeOK, WatcherType, CommandType
<1>2. Off \in WatcherType /\ Off.found = 0 /\ NoCommand \in CommandType /\ NoCommand.found = 0
  BY <1>1 DEF Off, NoCommand, WatcherType, CommandType
<1>3. Persisted \in WatcherType /\ Persisted.found = 0 /\ Off.at = "idle" /\ Persisted.at = "idle"
  BY <1>1 DEF Persisted, Off, WatcherType
<1>4. [command EXCEPT !.at = "seen", !.found = 0] \in CommandType
      /\ [command EXCEPT !.at = "seen", !.found = 0].found = 0
  BY <1>1 DEF CommandType
<1> QED
  BY <1>2, <1>3, <1>4 DEF Follow

LEMMA FoundIsUsed ==
  ASSUME NEW g \in Games, NEW i \in Found(g)
  PROVE  i \in Used \cup {0}
BY DEF Found, Selected, Used

LEMMA WatcherStep ==
  ASSUME IInv, WatcherExpires \/ SeeRemoved \/ PersistFails \/ \E g \in Games : Confirm(g)
  PROVE  IInv' /\ Stands
<1> USE DEF IInv
<1>1. ASSUME NEW g \in Games, NEW linked \in Games \cup {NoGame}, NEW status \in Before, Persist(g, linked, status)
      PROVE  watcher'.found \in Used \cup {0} /\ watcher' \in WatcherType /\ watcher'.status \in Before
  <2>1. PICK i \in Found(g) :
          watcher' = [on |-> TRUE, linked |-> linked, at |-> "write", game |-> g, status |-> status, found |-> i]
    BY <1>1 DEF Persist
  <2>2. i \in Used \cup {0} /\ i \in 0..MaxRows
    BY <2>1, FoundIsUsed, BoundsAssumption DEF Used, Rows
  <2> QED
    BY <2>1, <2>2 DEF WatcherType
<1>2. UNCHANGED <<world, row, command, commands, resolve, job, clock, history>>
  BY DEF WatcherExpires, SeeRemoved, PersistFails, Confirm, tasks
<1>3. watcher'.found \in Used \cup {0} /\ watcher' \in WatcherType
      /\ (watcher'.at = "write" => watcher'.status \in Before)
  <2>1. CASE WatcherExpires
    BY <2>1, AfterWrite DEF WatcherExpires
  <2>4. CASE PersistFails
    BY <2>4, AfterWrite DEF PersistFails
  <2>2. CASE SeeRemoved
    BY <1>1, <2>2 DEF SeeRemoved, Before, TypeOK
  <2>3. CASE \E g \in Games : Confirm(g)
    BY <1>1, <2>3 DEF Confirm, Before
  <2> QED
    BY <2>1, <2>2, <2>3, <2>4
<1>4. checks' \subseteq checks /\ faults' \in 0..MaxFaults
  BY FaultCounts DEF WatcherExpires, SeeRemoved, PersistFails, Confirm, tasks
<1>5. TypeOK'
  BY <1>2, <1>3, <1>4 DEF TypeOK, WatcherType, world, clock, history
<1>6. RowsWell' /\ AllTold' /\ Awake' /\ Used' = Used /\ Stands
  BY <1>2, TableAlone DEF clock, history
<1> QED
  BY <1>2, <1>3, <1>4, <1>5, <1>6 DEF Known

LEMMA CommandStep ==
  ASSUME IInv, LinkFails \/ Announce \/ AnnounceFails \/ \E g \in Games : Command(g)
  PROVE  IInv' /\ Stands
<1> USE DEF IInv
<1>1. UNCHANGED <<world, row, watcher, tasks, job, clock, history>>
  BY DEF LinkFails, Announce, AnnounceFails, Command
<1>2. commands' \in 0..MaxCommands /\ faults' \in 0..MaxFaults
  <2>1. Fault \/ faults' = faults
    BY DEF LinkFails, Announce, AnnounceFails, Command
  <2>2. commands' = commands \/ (commands < MaxCommands /\ commands' = commands + 1)
    BY DEF LinkFails, Announce, AnnounceFails, Command
  <2> QED
    BY <2>1, <2>2, FaultCounts, BoundsAssumption DEF TypeOK
<1>3. command' \in CommandType /\ command'.found \in Used \cup {0}
  <2>4. CASE LinkFails \/ AnnounceFails
    BY <2>4, AfterWrite DEF LinkFails, AnnounceFails
  <2>2. CASE Announce
    <3>1. CASE command' = NoCommand
      BY <3>1, AfterWrite
    <3>2. CASE lobby[command.game] = "removed" /\ \E i \in Found(command.game) :
                  command' = [command EXCEPT !.at = "write", !.found = i]
      <4>1. PICK i \in Found(command.game) : command' = [command EXCEPT !.at = "write", !.found = i]
        BY <3>2
      <4>2. i \in Used \cup {0} /\ i \in 0..MaxRows
        BY <4>1, BoundsAssumption DEF Found, Selected, Used, Rows
      <4> QED
        BY <4>1, <4>2 DEF TypeOK, CommandType
    <3> QED
      BY <2>2, <3>1, <3>2 DEF Announce
  <2>3. ASSUME NEW g \in Games, Command(g) PROVE command' \in CommandType /\ command'.found \in Used \cup {0}
    <3>1. CASE command' = [at |-> "seen", game |-> g, found |-> 0]
      BY <3>1, BoundsAssumption DEF CommandType
    <3>2. ASSUME NEW i \in Found(g), command' = [at |-> "link_write", game |-> g, found |-> i]
          PROVE  command' \in CommandType /\ command'.found \in Used \cup {0}
      BY <3>2, FoundIsUsed, BoundsAssumption DEF Used, Rows, CommandType
    <3> QED
      BY <2>3, <3>1, <3>2 DEF Command
  <2> QED
    BY <2>2, <2>3, <2>4
<1>4. TypeOK'
  BY <1>1, <1>2, <1>3 DEF TypeOK, CommandType, world, tasks, clock, history
<1>5. RowsWell' /\ AllTold' /\ Awake' /\ Used' = Used /\ Stands
  BY <1>1, TableAlone DEF tasks, clock, history
<1> QED
  BY <1>1, <1>3, <1>4, <1>5 DEF Known, tasks

----------------------------------------------------------------------------
\* Steps that write the table from what they read before.

\* A row that grows old, or ancient.
Ages(i) ==
  /\ row'[i] \in RowType
  /\ row'[i].status = row[i].status /\ row'[i].launched = row[i].launched /\ row'[i].posted = row[i].posted
  /\ row'[i].age = row[i].age \/ row'[i].age # "young"

LEMMA AgesKeeps ==
  ASSUME IInv, row' \in [Rows -> RowType], \A i \in Rows : Ages(i),
         UNCHANGED <<resolve, posts, slipped, job, active, armed, missed>>,
         (asleep' = asleep /\ pollDue' = pollDue) \/ (job.at = "idle" /\ ~asleep' /\ pollDue')
  PROVE  RowsWell' /\ AllTold' /\ Awake' /\ Used' = Used /\ Stands
<1> USE DEF IInv
<1>1. \A i \in Rows : Keeps(i)
  BY DEF Keeps, Ages, RowsWell, RowWell
<1>2. AllTold'
  BY <1>1, ToldKept
<1>3. RowsWell' /\ Used' = Used
  BY DEF Ages, RowsWell, RowWell, Used
<1>4. Calms
  BY DEF Calms, Ages, Live, Unproven, Playing
<1>5. Awake'
  <2>1. CASE asleep' = asleep /\ pollDue' = pollDue
    BY <1>4, <2>1, AwakeKept
  <2>2. CASE job.at = "idle" /\ ~asleep' /\ pollDue'
    BY <2>2 DEF Awake
  <2> QED
    BY <2>1, <2>2
<1> QED
  BY <1>1, <1>2, <1>3, <1>5, KeepsStands

LEMMA AgeStep ==
  ASSUME IInv, NEW i \in Rows, Age(i)
  PROVE  IInv' /\ Stands
<1> USE DEF IInv
<1>1. UNCHANGED <<world, actors, tasks, job, clock, history, faults>>
  BY DEF Age
<1>2. row \in [Rows -> RowType]
  BY DEF TypeOK, RowType
<1>3. row'[i] = [row[i] EXCEPT !.age = IF @ = "young" THEN "old" ELSE "ancient"] /\ \A k \in Rows \ {i} : row'[k] = row[k]
  BY <1>2 DEF Age
<1>4. Ages(i) /\ \A k \in Rows \ {i} : Ages(k)
  BY <1>2, <1>3 DEF Ages, RowType
<1>5. row' \in [Rows -> RowType]
  BY <1>2, <1>4 DEF Age, Ages
<1>6. RowsWell' /\ AllTold' /\ Awake' /\ Used' = Used /\ Stands
  BY <1>1, <1>4, <1>5, AgesKeeps DEF tasks, clock, history
<1>7. TypeOK'
  BY <1>1, <1>5 DEF TypeOK, RowType, world, actors, tasks, clock, history
<1> QED
  BY <1>1, <1>6, <1>7 DEF Known, actors, tasks

LEMMA DayStep ==
  ASSUME IInv, Day
  PROVE  IInv' /\ Stands
<1> USE DEF IInv
<1>1. UNCHANGED <<world, actors, tasks, job, active, history, faults>> /\ job.at = "idle"
      /\ asleep' = FALSE /\ reapDue' = TRUE /\ pollDue' = TRUE
  BY DEF Day
<1>2. row \in [Rows -> RowType]
  BY DEF TypeOK, RowType
<1>3. \A i \in Rows : row'[i] = row[i] \/ row'[i] = [row[i] EXCEPT !.age = "ancient"]
  BY DEF Day
<1>4. ASSUME NEW i \in Rows PROVE Ages(i)
  <2>1. row[i] \in RowType
    BY <1>2
  <2>2. CASE row'[i] = row[i]
    BY <2>1, <2>2 DEF Ages
  <2>3. CASE row'[i] = [row[i] EXCEPT !.age = "ancient"]
    BY <2>1, <2>3 DEF Ages, RowType
  <2> QED
    BY <1>3, <2>2, <2>3
<1>5. row' \in [Rows -> RowType]
  BY <1>4 DEF Day, Ages
<1>6. RowsWell' /\ AllTold' /\ Awake' /\ Used' = Used /\ Stands
  BY <1>1, <1>4, <1>5, AgesKeeps DEF tasks, history
<1>7. TypeOK'
  <2>1. UNCHANGED <<over, lobby, api, watcher, command, commands, checks, resolve, job, active>>
    BY <1>1 DEF world, actors, tasks
  <2>2. UNCHANGED <<posts, slipped, armed, missed, faults>>
    BY <1>1 DEF history
  <2>3. asleep' \in BOOLEAN /\ reapDue' \in BOOLEAN /\ pollDue' \in BOOLEAN
    BY <1>1
  <2> QED
    BY <1>5, <2>1, <2>2, <2>3 DEF TypeOK, RowType
<1> QED
  BY <1>1, <1>6, <1>7 DEF Known, actors, tasks

\* A row is written, the job is armed.
LEMMA ArmedWrite ==
  ASSUME IInv, NEW found \in Used \cup {0}, Target(found) \in Rows, NEW g \in Games \cup {NoGame},
         NEW ours \in BOOLEAN, NEW status \in Before, row' = Written(row, found, g, ours, status),
         Arm, UNCHANGED <<world, commands, resolve, job, reapDue, pollDue, posts, slipped, missed, faults>>,
         watcher' \in WatcherType, command' \in CommandType,
         checks' \subseteq checks \cup {[by |-> b, row |-> Target(found)] : b \in {"job", "watcher"}},
         watcher'.at = "write" => watcher'.status \in Before,
         watcher'.found \in Used \cup {0}, command'.found \in Used \cup {0}
  PROVE  IInv' /\ Stands
<1> USE DEF IInv
<1>1. Marked(row)
  BY RowIsMarked
<1>2. /\ row' \in [Rows -> RowType] /\ Target(found) \in Used'
      /\ \A i \in Rows : Keeps(i)
      /\ RowsWell'
  BY <1>1, WrittenKeeps
<1>3. AllTold' /\ Used \subseteq Used'
  BY <1>2, ToldKept, KnownKept
<1>4. Awake'
  BY ArmAwakes
<1>5. checks' \subseteq [by : {"job", "watcher"}, row : Rows] /\ \A c \in checks' : c.row \in Used'
  BY <1>2, <1>3 DEF TypeOK, Known
<1>6. active' = TRUE /\ asleep' = FALSE /\ armed' \in BOOLEAN
  BY DEF Arm
<1>7. TypeOK'
  BY <1>2, <1>5, <1>6 DEF TypeOK, RowType, WatcherType, CommandType, world
<1> QED
  BY <1>2, <1>3, <1>4, <1>5, <1>7, KeepsStands DEF Known

LEMMA PersistWriteStep ==
  ASSUME IInv, PersistWrite
  PROVE  IInv' /\ Stands
<1> USE DEF IInv
<1>1. /\ watcher.found \in Used \cup {0} /\ watcher.status \in Before /\ watcher.game \in Games \cup {NoGame}
      /\ command \in CommandType /\ command.found \in Used \cup {0}
  BY DEF Known, PersistWrite, TypeOK, CommandType
<1>2. checks' \subseteq checks \cup {[by |-> b, row |-> Target(watcher.found)] : b \in {"job", "watcher"}}
  BY DEF PersistWrite, Verify
<1> QED
  BY <1>1, <1>2, AfterWrite, ArmedWrite DEF PersistWrite

LEMMA AnnounceWriteStep ==
  ASSUME IInv, AnnounceWrite
  PROVE  IInv' /\ Stands
<1> USE DEF IInv
<1>1. /\ watcher.found \in Used \cup {0} /\ watcher \in WatcherType
      /\ (watcher.at = "write" => watcher.status \in Before)
      /\ command.game \in Games \cup {NoGame} /\ command.found \in Used \cup {0}
  BY DEF Known, AnnounceWrite, TypeOK, WatcherType
<1>2. checks' \subseteq checks \cup {[by |-> b, row |-> Target(command.found)] : b \in {"job", "watcher"}}
  BY DEF AnnounceWrite, Verify
<1>3. "verifying" \in Before
  BY DEF Before
<1> QED
  BY <1>1, <1>2, <1>3, AfterWrite, ArmedWrite DEF AnnounceWrite

LEMMA LinkWriteStep ==
  ASSUME IInv, LinkWrite
  PROVE  IInv'
<1> USE DEF IInv
<1> DEFINE new == NewRow(command.game, TRUE, "filling")
<1>0. PICK i \in Rows : i = Target(command.found)
  BY DEF LinkWrite
<1>1. /\ row' = [row EXCEPT ![i] = new] /\ slipped' = slipped \ {i} /\ missed' = missed \ {i}
      /\ posts' = [posts EXCEPT ![i] = IF resolve[i] \in Unrecorded THEN 1 ELSE 0]
      /\ Arm /\ Follow
      /\ UNCHANGED <<world, watcher, commands, tasks, job, reapDue, pollDue, faults>>
  BY <1>0 DEF LinkWrite
<1>2. command.found \in Used \cup {0} /\ command.game \in Games \cup {NoGame}
  BY DEF Known, TypeOK
<1>3. new \in RowType /\ new.status = "filling" /\ new.launched = FALSE /\ new.posted = FALSE
  BY <1>2 DEF NewRow, NoRow, RowType, Before
<1>4. row' \in [Rows -> RowType] /\ row'[i] = new /\ \A k \in Rows \ {i} : row'[k] = row[k]
  BY <1>1, <1>3 DEF TypeOK, RowType
<1>5. \A k \in Rows : k < i => row[k].status # "none"
  <2>1. CASE command.found # 0
    <3>1. i = command.found /\ row[i].status # "none"
      BY <1>0, <1>2, <2>1 DEF Target, Used
    <3> QED
      BY <3>1 DEF RowsWell, RowWell
  <2>2. CASE command.found = 0
    BY <1>0, <2>2, FreshRow DEF Target
  <2> QED
    BY <2>1, <2>2
<1>6. posts' \in [Rows -> Nat] /\ posts'[i] = (IF resolve[i] \in Unrecorded THEN 1 ELSE 0)
      /\ \A k \in Rows \ {i} : posts'[k] = posts[k]
  BY <1>1 DEF TypeOK
<1>7. resolve' = resolve
  BY <1>1 DEF tasks
<1>8. RowsWell'
  <2>1. \A k \in Rows : row'[k].launched => row'[k].status \notin Before \cup {"none"}
    BY <1>3, <1>4 DEF RowsWell, RowWell
  <2>2. \A k \in Rows : row'[k].status = "none" => k # i /\ row'[k] = row[k] /\ posts'[k] = posts[k]
    BY <1>3, <1>4, <1>6
  <2>3. \A k \in Rows : row'[k].status = "none" => k > i
    BY <1>5, <2>2, BoundsAssumption DEF Rows
  <2>4. \A k \in Rows : row'[k].status = "none" => \A j \in Rows : j > k => row'[j].status = "none"
    BY <1>4, <2>2, <2>3, BoundsAssumption DEF RowsWell, RowWell, Rows
  <2> QED
    BY <1>7, <2>1, <2>2, <2>4 DEF RowsWell, RowWell
<1>9. AllTold'
  <2>1. Told(i)'
    <3>1. i \notin slipped' /\ row'[i].status \notin Terminal /\ row'[i].posted = FALSE
      BY <1>1, <1>3, <1>4 DEF Terminal
    <3>2. posts'[i] = (IF resolve'[i] \in Unrecorded THEN 1 ELSE 0)
      BY <1>6, <1>7
    <3> QED
      BY <3>1, <3>2 DEF Told
  <2>2. \A k \in Rows \ {i} : Told(k)'
    BY <1>1, <1>4, <1>6, <1>7 DEF AllTold, Told
  <2> QED
    BY <2>1, <2>2 DEF AllTold
<1>10. Awake'
  BY <1>1, ArmAwakes
<1>11. Used \subseteq Used'
  BY <1>3, <1>4 DEF Used
<1>12. command' \in CommandType /\ command'.found = 0
  BY <1>1, AfterWrite
<1>13. active' \in BOOLEAN /\ asleep' \in BOOLEAN /\ armed' \in BOOLEAN
  BY <1>1 DEF Arm
<1>14. TypeOK'
  <2>1. UNCHANGED <<over, lobby, api, watcher, commands, checks, resolve, job, reapDue, pollDue, faults>>
    BY <1>1 DEF world, tasks
  <2>2. slipped' \subseteq Rows /\ missed' \subseteq Rows
    BY <1>1 DEF TypeOK
  <2> QED
    BY <1>4, <1>6, <1>12, <1>13, <2>1, <2>2 DEF TypeOK, RowType, CommandType
<1> QED
  BY <1>1, <1>8, <1>9, <1>10, <1>11, <1>12, <1>14 DEF Known, tasks

\* The watcher stops: what it was about to write may be there, and nobody has armed the job.
LEMMA StopKeeps ==
  ASSUME IInv, NEW r, Marked(r), NEW unheard \in SUBSET Rows, Stop(r, unheard),
         \A i \in Rows \ unheard : (Unproven(i) \/ Playing(i))
           \/ ~((~r[i].launched /\ r[i].status \in Before \cup Launched /\ r[i].age = "young")
                \/ (r[i].launched /\ r[i].status \in Launched)),
         \A i \in Rows : r[i] = row[i] \/ r[i].launched,
         UNCHANGED <<resolve, posts, slipped, job, active, asleep, pollDue, armed>>
  PROVE  /\ row' \in [Rows -> RowType] /\ missed' \subseteq Rows
         /\ RowsWell' /\ AllTold' /\ Awake' /\ Used \subseteq Used'
         /\ watcher' = Off /\ Stands
<1> USE DEF IInv
<1>1. watcher' = Off
  BY DEF Stop
<1>2. CASE row' = r /\ missed' = missed \cup unheard
  <2>1. (\A i \in Rows : Keeps(i)) /\ RowsWell' /\ Used' = Used
    BY <1>2, MarkedKeeps
  <2>2. AllTold'
    BY <2>1, ToldKept
  <2>3. Calms
    BY <1>2 DEF Calms, Live, Unproven, Playing
  <2>4. Awake'
    BY <2>3, AwakeKept
  <2> QED
    BY <1>1, <1>2, <2>1, <2>2, <2>4, KeepsStands DEF Marked, TypeOK
<1>3. CASE /\ watcher.at = "write" /\ Target(watcher.found) \in Rows
           /\ row' = Written(r, watcher.found, watcher.game, TRUE, watcher.status)
           /\ missed' = missed \cup unheard \cup {Target(watcher.found)}
  <2>1. watcher.found \in Used \cup {0} /\ watcher.status \in Before /\ watcher.game \in Games \cup {NoGame}
    BY <1>3 DEF Known, TypeOK
  <2>2. /\ row' \in [Rows -> RowType]
        /\ \A i \in Rows \ {Target(watcher.found)} : row'[i] = r[i]
        /\ \A i \in Rows : Keeps(i)
        /\ RowsWell'
    BY <1>3, <2>1, WrittenKeeps
  <2>3. AllTold' /\ Used \subseteq Used'
    BY <2>2, ToldKept, KnownKept
  <2>4. Calms
    BY <1>3, <2>2 DEF Calms, Live, Unproven, Playing
  <2>5. Awake'
    BY <2>4, AwakeKept
  <2> QED
    BY <1>1, <1>3, <2>2, <2>3, <2>5, KeepsStands DEF TypeOK
<1> QED
  BY <1>2, <1>3 DEF Stop

LEMMA MatchOverStep ==
  ASSUME IInv, MatchOver
  PROVE  IInv' /\ Stands
<1> USE DEF IInv
<1>1. UNCHANGED <<lobby, api, command, commands, resolve, job, clock, posts, slipped, armed, faults>>
      /\ over' = TRUE /\ Stop(row, {}) /\ checks' \subseteq checks
  BY DEF MatchOver
<1>2. Marked(row)
  BY RowIsMarked
<1>3. /\ row' \in [Rows -> RowType] /\ missed' \subseteq Rows
      /\ RowsWell' /\ AllTold' /\ Awake' /\ Used \subseteq Used' /\ watcher' = Off /\ Stands
  <2>1. \A i \in Rows \ {} : (Unproven(i) \/ Playing(i))
           \/ ~((~row[i].launched /\ row[i].status \in Before \cup Launched /\ row[i].age = "young")
                \/ (row[i].launched /\ row[i].status \in Launched))
    BY DEF Unproven, Playing
  <2> QED
    BY <1>1, <1>2, <2>1, StopKeeps DEF clock
<1>4. Off \in WatcherType /\ Off.found = 0 /\ Off.at = "idle"
  BY AfterWrite
<1>5. TypeOK'
  BY <1>1, <1>3, <1>4 DEF TypeOK, RowType, WatcherType, clock
<1> QED
  BY <1>1, <1>3, <1>4, <1>5 DEF Known

\* mark_confirmed: a row that waits for its launch is launched; if it was too old to be polled for its
\* launch, nobody has armed the job for it.
LEMMA CheckStep ==
  ASSUME IInv, NEW c \in checks, Check(c)
  PROVE  IInv' /\ Stands
<1> USE DEF IInv
<1>0. PICK i \in Rows : i = c.row /\ row[i].status # "none"
  BY DEF Known, Used
<1> DEFINE marked == IF Confirmable(i)
                     THEN [row EXCEPT ![i].launched = TRUE,
                                      ![i].status = IF @ \in Before THEN "in_progress" ELSE @]
                     ELSE row
           unarmed == IF Confirmable(i) /\ row[i].age # "young" THEN {i} ELSE {}
<1>1. UNCHANGED <<world, command, commands, resolve, job, clock, posts, slipped, armed, faults>>
  BY DEF Check
<1>2. \/ checks' \subseteq checks /\ UNCHANGED <<row, watcher, missed>>
      \/ Stop(marked, unarmed) /\ checks' \subseteq checks
      \/ row' = marked /\ missed' = missed \cup unarmed /\ watcher' = watcher /\ checks' \subseteq checks
  BY <1>0 DEF Check
<1>3. row \in [Rows -> RowType] /\ row[i] \in RowType
  BY DEF TypeOK, RowType
<1>4. Marked(marked) /\ (\A k \in Rows : marked[k] = row[k] \/ marked[k].launched)
      /\ \A k \in Rows \ unarmed : (Unproven(k) \/ Playing(k))
           \/ ~((~marked[k].launched /\ marked[k].status \in Before \cup Launched /\ marked[k].age = "young")
                \/ (marked[k].launched /\ marked[k].status \in Launched))
  <2>1. CASE Confirmable(i)
    <3> DEFINE new == [row[i] EXCEPT !.launched = TRUE, !.status = IF @ \in Before THEN "in_progress" ELSE @]
    <3>1. marked = [row EXCEPT ![i] = new]
      BY <1>3, <2>1
    <3>2. row[i].status \notin Terminal \cup {"none"} /\ ~row[i].launched
      BY <1>0, <2>1 DEF Confirmable
    <3>3. /\ new \in RowType /\ new.launched = TRUE /\ new.status \in Launched
          /\ new.posted = row[i].posted /\ new.age = row[i].age
      BY <1>3, <3>2 DEF RowType, Before, Launched, Terminal
    <3>4. marked \in [Rows -> RowType] /\ marked[i] = new /\ \A k \in Rows \ {i} : marked[k] = row[k]
      BY <1>3, <3>1, <3>3
    <3>5. Marked(marked)
      BY <3>2, <3>3, <3>4 DEF Marked
    <3>6. row[i].age = "young" => Unproven(i)
      BY <1>3, <3>2 DEF Unproven, RowType
    <3>7. i \notin unarmed => row[i].age = "young"
      BY <2>1
    <3>8. \A k \in Rows \ {i} : (Unproven(k) \/ Playing(k))
           \/ ~((~marked[k].launched /\ marked[k].status \in Before \cup Launched /\ marked[k].age = "young")
                \/ (marked[k].launched /\ marked[k].status \in Launched))
      BY <3>4 DEF Unproven, Playing
    <3>9. \A k \in Rows : marked[k] = row[k] \/ marked[k].launched
      BY <3>3, <3>4
    <3> HIDE DEF marked, unarmed
    <3> QED
      BY <3>5, <3>6, <3>7, <3>8, <3>9
  <2>2. CASE ~Confirmable(i)
    <3>1. marked = row
      BY <2>2
    <3>2. Marked(row)
      BY RowIsMarked
    <3> HIDE DEF marked
    <3> QED
      BY <3>1, <3>2 DEF Unproven, Playing
  <2> QED
    BY <2>1, <2>2
<1>5. unarmed \in SUBSET Rows
  OBVIOUS
<1>6. Off \in WatcherType /\ Off.found = 0 /\ Off.at = "idle" /\ watcher \in WatcherType
  BY AfterWrite DEF TypeOK, WatcherType
<1> HIDE DEF marked, unarmed
<1>7. /\ row' \in [Rows -> RowType] /\ missed' \subseteq Rows
      /\ RowsWell' /\ AllTold' /\ Awake' /\ Used \subseteq Used'
      /\ watcher' \in {Off, watcher} /\ checks' \subseteq checks /\ Stands
  <2>1. CASE checks' \subseteq checks /\ UNCHANGED <<row, watcher, missed>>
    BY <1>1, <1>3, <2>1, TableAlone DEF clock, TypeOK
  <2>2. CASE Stop(marked, unarmed) /\ checks' \subseteq checks
    BY <1>1, <1>4, <1>5, <2>2, StopKeeps DEF clock
  <2>3. CASE row' = marked /\ missed' = missed \cup unarmed /\ watcher' = watcher /\ checks' \subseteq checks
    <3>1. (\A k \in Rows : Keeps(k)) /\ RowsWell' /\ Used' = Used
      BY <1>1, <1>4, <2>3, MarkedKeeps
    <3>2. AllTold'
      BY <1>1, <3>1, ToldKept
    <3>3. Calms
      BY <1>4, <2>3 DEF Calms, Live, Unproven, Playing
    <3>4. Awake'
      BY <1>1, <3>3, AwakeKept DEF clock
    <3> QED
      BY <1>4, <1>5, <2>3, <3>1, <3>2, <3>4, KeepsStands DEF Marked, TypeOK
  <2> QED
    BY <1>2, <2>1, <2>2, <2>3
<1>8. TypeOK'
  <2>1. UNCHANGED <<over, lobby, api, command, commands, resolve, job, active, asleep, reapDue, pollDue,
                    posts, slipped, armed, faults>>
    BY <1>1 DEF world, clock
  <2> QED
    BY <1>6, <1>7, <2>1 DEF TypeOK, RowType, WatcherType
<1> QED
  BY <1>1, <1>6, <1>7, <1>8 DEF Known

----------------------------------------------------------------------------
\* The tasks that resolve a row.

ResolveType == {"none", "fetch", "send", "record", "delete", "fetch_card", "send_card", "record_card",
                "complete", "expire"}

\* A step of the task of i: the row is closed or its message recorded, and nothing else of the table changes.
Closes(i) ==
  /\ row'[i].status \in Terminal \cup Launched
  /\ row'[i].launched = row[i].launched /\ row'[i].age = row[i].age
  /\ row'[i].status \in Launched => row'[i].posted /\ row'[i].status = "awaiting_confirm"

LEMMA ResolveFrame ==
  ASSUME IInv, NEW i \in Rows, NEW at \in ResolveType, Go(i, at), resolve[i] # "none", OnlyResolve,
         row' \in [Rows -> RowType], row' = row \/ Closes(i), \A k \in Rows \ {i} : row'[k] = row[k],
         posts' \in [Rows -> Nat], \A k \in Rows \ {i} : posts'[k] = posts[k],
         slipped' \in SUBSET Rows, slipped' \ {i} = slipped \ {i}, slipped \subseteq slipped', faults' \in 0..MaxFaults,
         Told(i)'
  PROVE  IInv' /\ Stands
<1> USE DEF IInv
<1>1. resolve' \in [Rows -> ResolveType] /\ resolve'[i] = at /\ \A k \in Rows \ {i} : resolve'[k] = resolve[k]
  BY DEF Go, TypeOK, ResolveType
<1>2. row[i].status # "none"
  BY DEF RowsWell, RowWell
<1>3. \A k \in Rows : row'[k].status = "none" <=> row[k].status = "none"
  BY <1>2 DEF Closes, Terminal, Launched
<1>4. RowsWell'
  <2>1. \A k \in Rows : row'[k].launched => row'[k].status \notin Before \cup {"none"}
    BY DEF Closes, Terminal, Launched, Before, RowsWell, RowWell
  <2>2. \A k \in Rows : row'[k].status = "none" => k # i /\ row'[k] = row[k] /\ posts'[k] = posts[k] /\ resolve'[k] = resolve[k]
    BY <1>1, <1>2, <1>3
  <2> QED
    BY <1>3, <2>1, <2>2 DEF RowsWell, RowWell
<1>5. AllTold'
  <2>1. ASSUME NEW k \in Rows \ {i} PROVE Told(k)'
    BY <1>1 DEF AllTold, Told
  <2> QED
    BY <2>1 DEF AllTold
<1>6. UNCHANGED <<over, lobby, api, watcher, command, commands, checks, job, active, asleep, reapDue, pollDue, armed, missed>>
  BY DEF OnlyResolve, world, actors, clock
<1>7. Calms
  <2>1. row' = row \/ Closes(i)
    OBVIOUS
  <2>2. \A k \in Rows \ {i} : Live(k)' <=> Live(k)
    BY DEF Live, Unproven, Playing
  <2>3. \A k \in Rows \ {i} : Unproven(k)' <=> Unproven(k)
    BY DEF Unproven
  <2>4. (Live(i)' => Live(i)) /\ (Unproven(i)' => Unproven(i))
    <3>1. CASE row' = row
      BY <3>1 DEF Live, Unproven, Playing
    <3>2. CASE Closes(i)
      <4>1. row[i].status \in Before \cup Launched \cup Terminal
        BY <1>2 DEF TypeOK
      <4>2. CASE row'[i].status \in Terminal
        BY <3>2, <4>2 DEF Closes, Live, Unproven, Playing, Terminal, Launched, Before
      <4>3. CASE row'[i].status \in Launched /\ row'[i].launched
        <5>1. row[i].launched /\ row[i].status \in Launched
          BY <3>2, <4>1, <4>3 DEF Closes, RowsWell, RowWell, AllTold, Told
        <5> QED
          BY <4>3, <5>1 DEF Live, Unproven, Playing
      <4>4. CASE row'[i].status \in Launched /\ ~row'[i].launched
        <5>1. ~row[i].launched /\ row'[i].age = row[i].age
          BY <3>2, <4>4 DEF Closes
        <5>2. row[i].age = "young" => row[i].status \in Before \cup Launched
          BY <4>1 DEF AllTold, Told
        <5> QED
          BY <4>4, <5>1, <5>2 DEF Live, Unproven, Playing
      <4> QED
        BY <3>2, <4>2, <4>3, <4>4 DEF Closes
    <3> QED
      BY <3>1, <3>2
  <2> QED
    BY <1>6, <2>2, <2>3, <2>4 DEF Calms
<1>8. Awake'
  BY <1>6, <1>7, AwakeKept
<1>9. TypeOK'
  BY <1>1, <1>6 DEF TypeOK, RowType, ResolveType
<1>10. Stands
  BY DEF Stands, Closes, RowsWell, RowWell, Terminal, Launched, Before
<1> QED
  BY <1>3, <1>4, <1>5, <1>6, <1>8, <1>9, <1>10 DEF Known, Used

LEMMA FetchStep ==
  ASSUME IInv, NEW i \in Rows, Fetch(i)
  PROVE  IInv' /\ Stands
<1> USE DEF IInv
<1>1. /\ resolve[i] \in {"fetch", "fetch_card"} /\ OnlyResolve /\ UNCHANGED <<row, posts, slipped, faults>>
      /\ \E at \in {"send", "send_card", "complete", "none"} : Go(i, at)
  BY DEF Fetch, Return
<1>2. PICK at \in {"send", "send_card", "complete", "none"} : Go(i, at)
  BY <1>1
<1>3. resolve'[i] = at
  BY <1>2 DEF Go, TypeOK
<1>4. Told(i)'
  BY <1>1, <1>3 DEF AllTold, Told, Asked, Unrecorded
<1>5. row \in [Rows -> RowType] /\ posts \in [Rows -> Nat] /\ slipped \in SUBSET Rows /\ faults \in 0..MaxFaults
  BY DEF TypeOK, RowType
<1>6. at \in ResolveType /\ resolve[i] # "none"
  BY <1>1, <1>2 DEF ResolveType
<1> QED
  BY <1>1, <1>2, <1>4, <1>5, <1>6, ResolveFrame

LEMMA CloseStep ==
  ASSUME IInv, NEW i \in Rows, Close(i)
  PROVE  IInv' /\ Stands
<1> USE DEF IInv
<1> DEFINE closed == [row[i] EXCEPT !.status = IF resolve[i] = "complete" THEN "completed" ELSE "expired"]
<1>1. /\ resolve[i] \in {"complete", "expire"} /\ OnlyResolve /\ UNCHANGED <<posts, slipped>> /\ Go(i, "none")
      /\ Fault \/ faults' = faults
      /\ row' = row \/ row' = [row EXCEPT ![i] = closed]
  BY DEF Close, Return
<1>2. resolve'[i] = "none"
  BY <1>1 DEF Go, TypeOK
<1>3. row \in [Rows -> RowType] /\ posts \in [Rows -> Nat] /\ slipped \in SUBSET Rows
  BY DEF TypeOK, RowType
<1>4. closed \in RowType /\ closed.status \in Terminal /\ closed.launched = row[i].launched /\ closed.age = row[i].age
      /\ closed.posted = row[i].posted
  BY <1>3 DEF RowType, Terminal
<1>5. /\ row' \in [Rows -> RowType] /\ \A k \in Rows \ {i} : row'[k] = row[k]
      /\ row'[i].posted = row[i].posted
      /\ row' = row \/ Closes(i)
  BY <1>1, <1>3, <1>4 DEF Closes, Terminal, Launched
<1>6. Told(i)'
  BY <1>1, <1>2, <1>5 DEF AllTold, Told, Asked, Unrecorded
<1>7. "none" \in ResolveType /\ resolve[i] # "none"
  BY <1>1 DEF ResolveType
<1> QED
  BY <1>1, <1>3, <1>5, <1>6, <1>7, FaultCounts, ResolveFrame

LEMMA SendStep ==
  ASSUME IInv, NEW i \in Rows, Send(i)
  PROVE  IInv' /\ Stands
<1> USE DEF IInv
<1>1. /\ resolve[i] \in {"send", "send_card"} /\ OnlyResolve /\ UNCHANGED <<row, slipped>>
      /\ Fault \/ faults' = faults
  BY DEF Send
<1>2. PICK at \in {"record", "record_card", "none"} :
        /\ Go(i, at)
        /\ posts' = IF at = "none" THEN posts ELSE [posts EXCEPT ![i] = @ + 1]
  BY DEF Send, Return
<1>3. resolve'[i] = at
  BY <1>2 DEF Go, TypeOK
<1>4. /\ posts' \in [Rows -> Nat] /\ posts'[i] = (IF at = "none" THEN posts[i] ELSE posts[i] + 1)
      /\ \A k \in Rows \ {i} : posts'[k] = posts[k]
      /\ posts[i] \in Nat
  BY <1>2 DEF TypeOK
<1>5. i \notin slipped => ~row[i].posted /\ posts[i] = 0
  BY <1>1 DEF AllTold, Told, Asked, Unrecorded
<1>6. row[i].status \in Terminal => ~row[i].launched /\ row[i].age # "young"
  BY <1>1 DEF AllTold, Told
<1>7. Told(i)'
  BY <1>1, <1>3, <1>4, <1>5, <1>6 DEF Told, Asked, Unrecorded
<1>8. row \in [Rows -> RowType] /\ slipped \in SUBSET Rows
  BY DEF TypeOK, RowType
<1>9. at \in ResolveType /\ resolve[i] # "none"
  BY <1>1, <1>2 DEF ResolveType
<1> QED
  BY <1>1, <1>2, <1>4, <1>7, <1>8, <1>9, FaultCounts, ResolveFrame

LEMMA RecordStep ==
  ASSUME IInv, NEW i \in Rows, Record(i)
  PROVE  IInv' /\ Stands
<1> USE DEF IInv
<1>1. /\ resolve[i] \in {"record", "record_card"} /\ OnlyResolve /\ posts' = posts
      /\ Fault \/ faults' = faults
      /\ slipped' = slipped \/ slipped' = slipped \cup {i}
  BY DEF Record
<1>2. row \in [Rows -> RowType] /\ posts \in [Rows -> Nat] /\ slipped \in SUBSET Rows /\ row[i] \in RowType
  BY DEF TypeOK, RowType
<1>3. posts[i] >= 1 /\ posts[i] \in Nat /\ (i \notin slipped => posts[i] <= 1)
  BY <1>1, <1>2 DEF AllTold, Told, Unrecorded
<1>4. ASSUME NEW status \in {"awaiting_confirm", "completed"}, Recorded(i, status)
      PROVE  /\ row' \in [Rows -> RowType] /\ \A k \in Rows \ {i} : row'[k] = row[k]
             /\ Closes(i) /\ row'[i].posted = TRUE /\ row'[i].status = status
  <2> DEFINE new == [row[i] EXCEPT !.status = status, !.posted = TRUE]
  <2>1. row' = [row EXCEPT ![i] = new]
    BY <1>2, <1>4 DEF Recorded
  <2>2. new \in RowType /\ new.status = status /\ new.posted = TRUE /\ new.launched = row[i].launched /\ new.age = row[i].age
    BY <1>2 DEF RowType, Launched, Terminal
  <2>3. row' \in [Rows -> RowType] /\ row'[i] = new /\ \A k \in Rows \ {i} : row'[k] = row[k]
    BY <1>2, <2>1, <2>2
  <2> HIDE DEF new
  <2> QED
    BY <2>2, <2>3 DEF Closes, Launched, Terminal
<1>5. PICK at \in {"none", "delete"} : Go(i, at)
  BY DEF Record, Return
<1>6. resolve'[i] = at
  BY <1>5 DEF Go, TypeOK
<1>7. /\ at = "delete" => row' = row \/ Recorded(i, "awaiting_confirm")
      /\ at = "none" => Recorded(i, "awaiting_confirm") \/ Recorded(i, "completed") \/ (row' = row /\ i \in slipped')
  <2>1. Go(i, "none") => at = "none"
    BY <1>6 DEF Go, TypeOK
  <2>2. Go(i, "delete") => at = "delete"
    BY <1>6 DEF Go, TypeOK
  <2> QED
    BY <2>1, <2>2 DEF Record, Return
<1>8. row' = row \/ Recorded(i, "awaiting_confirm") \/ Recorded(i, "completed")
  BY <1>5, <1>7
<1>9. /\ row' \in [Rows -> RowType] /\ \A k \in Rows \ {i} : row'[k] = row[k]
      /\ row' = row \/ Closes(i)
  BY <1>2, <1>4, <1>8
<1>10. row[i].status \in Terminal => ~row[i].launched /\ row[i].age # "young"
  BY <1>1 DEF AllTold, Told
<1>11. Told(i)'
  <2>1. at = "delete" /\ row'[i].status \in Terminal => ~row'[i].launched /\ row'[i].age # "young"
    <3>1. row' # row => row'[i].status = "awaiting_confirm" \/ at # "delete"
      BY <1>4, <1>7
    <3> QED
      BY <1>10, <3>1 DEF Terminal
  <2>2. at = "none" /\ i \notin slipped' => row'[i].posted
    BY <1>4, <1>7
  <2> QED
    BY <1>1, <1>3, <1>5, <1>6, <2>1, <2>2 DEF Told, Asked, Unrecorded
<1>12. at \in ResolveType /\ resolve[i] # "none"
  BY <1>1, <1>5 DEF ResolveType
<1>13. slipped' \in SUBSET Rows /\ slipped' \ {i} = slipped \ {i} /\ slipped \subseteq slipped'
  BY <1>1, <1>2
<1>14. faults' \in 0..MaxFaults
  BY <1>1, FaultCounts
<1> QED
  BY <1>1, <1>2, <1>5, <1>9, <1>11, <1>12, <1>13, <1>14, ResolveFrame

LEMMA DeleteStep ==
  ASSUME IInv, NEW i \in Rows, Delete(i)
  PROVE  IInv' /\ Stands
<1> USE DEF IInv
<1>1. /\ resolve[i] = "delete" /\ OnlyResolve /\ row' = row /\ Go(i, "none")
      /\ Fault \/ faults' = faults
      /\ \/ posts' = [posts EXCEPT ![i] = @ - 1] /\ slipped' = slipped
         \/ posts' = posts /\ slipped' = slipped \cup {i}
  BY DEF Delete, Return
<1>2. row \in [Rows -> RowType] /\ posts \in [Rows -> Nat] /\ slipped \in SUBSET Rows
  BY DEF TypeOK, RowType
<1>3. posts[i] >= 1 /\ posts[i] \in Nat /\ (i \notin slipped => posts[i] <= 1)
  BY <1>1, <1>2 DEF AllTold, Told, Unrecorded
<1>4. /\ posts' \in [Rows -> Nat] /\ \A k \in Rows \ {i} : posts'[k] = posts[k]
      /\ i \notin slipped' => posts'[i] = 0
  BY <1>1, <1>2, <1>3
<1>5. resolve'[i] = "none"
  BY <1>1 DEF Go, TypeOK
<1>6. Told(i)'
  BY <1>1, <1>4, <1>5 DEF Told, Asked, Unrecorded
<1>7. "none" \in ResolveType
  BY DEF ResolveType
<1>8. slipped' \in SUBSET Rows /\ slipped' \ {i} = slipped \ {i} /\ slipped \subseteq slipped'
  BY <1>1, <1>2
<1>9. faults' \in 0..MaxFaults
  BY <1>1, FaultCounts
<1> QED
  BY <1>1, <1>2, <1>4, <1>6, <1>7, <1>8, <1>9, ResolveFrame

----------------------------------------------------------------------------
\* The job.

JobType == [at : {"idle", "launches", "reap", "completions"}, live : BOOLEAN, was : BOOLEAN]

\* At the end of a pass.
LEMMA FinishAwakes ==
  ASSUME IInv, NEW live \in BOOLEAN, NEW found \in {"unknown", "none", "some"}, Finish(live, found),
         \A i \in Rows : Live(i)' => Live(i),
         ~armed /\ ~StaysAwake(live, found, job.was) => Quiet
  PROVE  /\ Awake' /\ job' \in JobType /\ missed' \subseteq Rows
         /\ active' \in BOOLEAN /\ asleep' \in BOOLEAN /\ armed' \in BOOLEAN
<1> USE DEF IInv
<1> DEFINE awake == StaysAwake(live, found, job.was)
<1>1. /\ job' = IdleJob /\ active' = awake /\ asleep' = ~awake /\ armed' = FALSE
      /\ missed' = IF armed /\ ~awake THEN missed \cup {i \in Rows : Unproven(i) \/ Playing(i)} ELSE missed
  BY DEF Finish
<1>2. job'.at = "idle" /\ job' \in JobType
  BY <1>1 DEF IdleJob, JobType
<1>3. awake \in BOOLEAN
  BY DEF StaysAwake, TypeOK
<1> HIDE DEF awake
<1>4. ~awake => Quiet'
  <2>1. CASE armed
    BY <1>1, <2>1 DEF Quiet, Live
  <2>2. CASE ~armed
    BY <1>1, <2>2 DEF Quiet, awake
  <2> QED
    BY <2>1, <2>2
<1>5. Awake'
  BY <1>1, <1>2, <1>4 DEF Awake
<1>6. active' \in BOOLEAN /\ asleep' \in BOOLEAN /\ armed' \in BOOLEAN
  BY <1>1, <1>3
<1>7. missed' \subseteq Rows
  BY <1>1 DEF TypeOK
<1> QED
  BY <1>2, <1>5, <1>6, <1>7

\* In the middle of one: it goes on knowing whether anybody waits for a launch.
LEMMA ContinueAwakes ==
  ASSUME IInv, NEW live \in BOOLEAN, NEW reaped \in BOOLEAN, Continue(live, reaped),
         \A i \in Rows : (Live(i)' => Live(i)) /\ (Unproven(i)' => Unproven(i)),
         ~armed /\ ~live => \A i \in Rows \ missed : ~Unproven(i),
         ~armed /\ ~live /\ ~job.was /\ ~pollDue => Quiet
  PROVE  /\ Awake' /\ job' \in JobType /\ missed' \subseteq Rows /\ pollDue' \in BOOLEAN
         /\ active' \in BOOLEAN /\ asleep' \in BOOLEAN /\ armed' \in BOOLEAN
<1> USE DEF IInv
<1>0. job \in JobType
  BY DEF TypeOK, JobType
<1>1. ASSUME NEW at \in {"reap", "completions"}, job' = [job EXCEPT !.at = at, !.live = live],
             UNCHANGED <<active, asleep, pollDue, armed, missed>>
      PROVE  /\ Awake' /\ job' \in JobType /\ missed' \subseteq Rows /\ pollDue' \in BOOLEAN
             /\ active' \in BOOLEAN /\ asleep' \in BOOLEAN /\ armed' \in BOOLEAN
  <2>1. job' \in JobType /\ job'.at = at /\ job'.live = live /\ job'.was = job.was
    BY <1>0, <1>1 DEF JobType
  <2>2. Quiet => Quiet'
    BY <1>1 DEF Quiet
  <2>3. (\A i \in Rows \ missed : ~Unproven(i)) => \A i \in Rows \ missed' : ~Unproven(i)'
    BY <1>1
  <2>4. Awake'
    BY <1>1, <2>1, <2>2, <2>3 DEF Awake
  <2>5. active \in BOOLEAN /\ asleep \in BOOLEAN /\ armed \in BOOLEAN /\ pollDue \in BOOLEAN /\ missed \subseteq Rows
    BY DEF TypeOK
  <2> QED
    BY <1>1, <2>1, <2>4, <2>5
<1>2. CASE reapDue /\ ~reaped
  BY <1>1, <1>2 DEF Continue
<1>3. CASE ~(reapDue /\ ~reaped) /\ pollDue
  BY <1>1, <1>3 DEF Continue
<1>4. CASE ~(reapDue /\ ~reaped) /\ ~pollDue
  <2>1. Finish(live, "unknown") /\ pollDue' = TRUE
    BY <1>4 DEF Continue
  <2>2. ~armed /\ ~StaysAwake(live, "unknown", job.was) => Quiet
    BY <1>4 DEF StaysAwake
  <2>3. pollDue' \in BOOLEAN
    BY <2>1
  <2> QED
    BY <2>1, <2>2, <2>3, FinishAwakes
<1> QED
  BY <1>2, <1>3, <1>4

LEMMA StartStep ==
  ASSUME IInv, Start
  PROVE  IInv' /\ Stands
<1> USE DEF IInv
<1>1. /\ UNCHANGED <<world, actors, posts, slipped, row, tasks, clock, armed, missed, faults>>
      /\ job' = [at |-> "launches", live |-> FALSE, was |-> active] /\ job.at = "idle" /\ ~asleep
  BY DEF Start, OnlyJob
<1>2. RowsWell' /\ AllTold' /\ Stands /\ Used' = Used
  BY <1>1 DEF RowsWell, RowWell, AllTold, Told, Stands, Used, tasks
<1>3. job'.at = "launches" /\ job'.was = active
  BY <1>1
<1>4. Quiet => Quiet'
  BY <1>1 DEF Quiet, Live, Unproven, Playing
<1>5. Awake'
  BY <1>1, <1>3, <1>4 DEF Awake, clock
<1>6. job' \in JobType
  BY <1>1 DEF JobType, TypeOK
<1>7. TypeOK'
  BY <1>1, <1>6 DEF TypeOK, JobType, world, actors, tasks, clock
<1> QED
  BY <1>1, <1>2, <1>5, <1>7 DEF Known, actors, tasks

LEMMA PollLaunchesStep ==
  ASSUME IInv, PollLaunches
  PROVE  IInv' /\ Stands
<1> USE DEF IInv
<1>1. /\ UNCHANGED <<over, lobby, api, watcher, command, commands, posts, slipped, row, resolve, reapDue>>
      /\ job.at = "launches"
  BY DEF PollLaunches, OnlyJob, world, actors
<1>2. RowsWell' /\ AllTold' /\ Stands /\ Used' = Used
  BY <1>1 DEF RowsWell, RowWell, AllTold, Told, Stands, Used
<1>3. checks' \subseteq checks \cup {[by |-> "job", row |-> i] : i \in {k \in Rows : Unproven(k)}}
  BY DEF PollLaunches
<1>4. \A i \in Rows : Unproven(i) => i \in Used
  BY DEF Unproven, Used, Before, Launched
<1>5. checks' \subseteq [by : {"job", "watcher"}, row : Rows] /\ \A c \in checks' : c.row \in Used
  BY <1>3, <1>4 DEF TypeOK, Known
<1>6. faults' \in 0..MaxFaults
  BY FaultCounts DEF PollLaunches
<1>7. \A i \in Rows : (Live(i)' <=> Live(i)) /\ (Unproven(i)' <=> Unproven(i))
  BY <1>1 DEF Live, Unproven, Playing
<1>8. /\ Awake' /\ job' \in JobType /\ missed' \subseteq Rows /\ pollDue' \in BOOLEAN
      /\ active' \in BOOLEAN /\ asleep' \in BOOLEAN /\ armed' \in BOOLEAN
  <2>1. ~armed /\ ~job.was /\ ~pollDue => Quiet
    BY <1>1 DEF Awake
  <2>2. CASE Continue({i \in Rows : Unproven(i)} # {}, FALSE)
    <3>1. PICK live \in BOOLEAN : live = ({i \in Rows : Unproven(i)} # {})
      OBVIOUS
    <3>2. ~live => \A i \in Rows \ missed : ~Unproven(i)
      BY <3>1
    <3>3. Continue(live, FALSE)
      BY <2>2, <3>1
    <3> QED
      BY <1>7, <2>1, <3>2, <3>3, ContinueAwakes
  <2>3. CASE Continue(TRUE, FALSE)
    BY <1>7, <2>3, ContinueAwakes
  <2> QED
    BY <2>2, <2>3 DEF PollLaunches
<1>9. TypeOK'
  BY <1>1, <1>5, <1>6, <1>8 DEF TypeOK, JobType
<1> QED
  BY <1>1, <1>2, <1>5, <1>8, <1>9 DEF Known

LEMMA ReapStep ==
  ASSUME IInv, ReapStale
  PROVE  IInv' /\ Stands
<1> USE DEF IInv
<1>1. /\ UNCHANGED <<over, lobby, api, watcher, command, commands, posts, slipped, checks, resolve>>
      /\ job.at = "reap" /\ reapDue' = FALSE /\ Continue(job.live, TRUE)
  BY DEF ReapStale, OnlyJob, world, actors, tasks
<1>2. faults' \in 0..MaxFaults
  BY FaultCounts DEF ReapStale
<1>3. row \in [Rows -> RowType]
  BY DEF TypeOK, RowType
<1>4. \/ row' = row
      \/ row' = [i \in Rows |-> IF ~row[i].launched /\ row[i].status \in Before \cup {"in_progress"}
                                   /\ row[i].age # "young"
                                THEN [row[i] EXCEPT !.status = "expired"] ELSE row[i]]
  BY DEF ReapStale
<1>5. ASSUME NEW i \in Rows
      PROVE  /\ row'[i] \in RowType /\ Keeps(i) /\ (Live(i)' => Live(i)) /\ (Unproven(i)' => Unproven(i))
             /\ row'[i].status = "none" <=> row[i].status = "none"
             /\ row'[i].launched => row'[i].status \notin Before \cup {"none"}
  <2>1. CASE row'[i] = row[i]
    BY <1>3, <2>1 DEF Keeps, Live, Unproven, Playing, RowsWell, RowWell
  <2>2. CASE /\ ~row[i].launched /\ row[i].status \in Before \cup {"in_progress"} /\ row[i].age # "young"
             /\ row'[i] = [row[i] EXCEPT !.status = "expired"]
    <3>1. row[i] \in RowType
      BY <1>3
    <3>2. row'[i] \in RowType /\ row'[i].status = "expired" /\ row'[i].launched = row[i].launched
          /\ row'[i].posted = row[i].posted /\ row'[i].age = row[i].age
      BY <2>2, <3>1 DEF RowType, Terminal
    <3> QED
      BY <2>2, <3>2 DEF Keeps, Live, Unproven, Playing, Before, Launched, Terminal
  <2> QED
    BY <1>4, <2>1, <2>2
<1>6. row' \in [Rows -> RowType]
  BY <1>3, <1>4, <1>5
<1>7. RowsWell' /\ Used' = Used
  BY <1>1, <1>5 DEF RowsWell, RowWell, Keeps, Used
<1>8. AllTold' /\ Stands
  BY <1>1, <1>5, ToldKept, KeepsStands
<1>9. /\ Awake' /\ job' \in JobType /\ missed' \subseteq Rows /\ pollDue' \in BOOLEAN
      /\ active' \in BOOLEAN /\ asleep' \in BOOLEAN /\ armed' \in BOOLEAN
  <2>1. job.live \in BOOLEAN
    BY DEF TypeOK
  <2>2. /\ ~armed /\ ~job.live => \A i \in Rows \ missed : ~Unproven(i)
        /\ ~armed /\ ~job.live /\ ~job.was /\ ~pollDue => Quiet
    BY <1>1 DEF Awake
  <2> QED
    BY <1>1, <1>5, <2>1, <2>2, ContinueAwakes
<1>10. TypeOK'
  BY <1>1, <1>2, <1>6, <1>9 DEF TypeOK, RowType, JobType
<1> QED
  BY <1>1, <1>7, <1>8, <1>9, <1>10 DEF Known

LEMMA PollCompletionsStep ==
  ASSUME IInv, PollCompletions
  PROVE  IInv' /\ Stands
<1> USE DEF IInv
<1>1. /\ UNCHANGED <<over, lobby, api, watcher, command, commands, posts, slipped, row, checks, reapDue>>
      /\ job.at = "completions" /\ pollDue' = FALSE
  BY DEF PollCompletions, OnlyJob, world, actors
<1>2. faults' \in 0..MaxFaults
  BY FaultCounts DEF PollCompletions
<1>3. \A i \in Rows : Decide(i) \in ResolveType \ Unrecorded /\ (Decide(i) \in Asked => ~row[i].posted)
                                 /\ Decide(i) \notin {"send", "send_card"}
  BY DEF Decide, ResolveType, Unrecorded, Asked
<1>4. resolve' \in [Rows -> ResolveType]
      /\ \A i \in Rows : resolve'[i] = resolve[i]
                         \/ (resolve[i] = "none" /\ Playing(i) /\ resolve'[i] = Decide(i))
  <2>1. CASE resolve' = resolve
    BY <2>1 DEF TypeOK, ResolveType
  <2>2. ASSUME NEW due \in SUBSET Idle({i \in Rows : Playing(i)}),
               resolve' = [i \in Rows |-> IF i \in due THEN Decide(i) ELSE resolve[i]]
        PROVE  /\ resolve' \in [Rows -> ResolveType]
               /\ \A i \in Rows : resolve'[i] = resolve[i]
                                  \/ (resolve[i] = "none" /\ Playing(i) /\ resolve'[i] = Decide(i))
    <3>1. \A i \in due : i \in Rows /\ resolve[i] = "none" /\ Playing(i)
      BY <2>2 DEF Idle
    <3>2. resolve \in [Rows -> ResolveType]
      BY DEF TypeOK, ResolveType
    <3> QED
      BY <1>3, <2>2, <3>1, <3>2
  <2> QED
    BY <2>1, <2>2 DEF PollCompletions
<1>5. RowsWell'
  BY <1>1, <1>4 DEF RowsWell, RowWell, Playing, Launched
<1>6. AllTold'
  <2>1. ASSUME NEW i \in Rows PROVE Told(i)'
    <3>1. CASE resolve'[i] = resolve[i]
      BY <1>1, <3>1 DEF AllTold, Told
    <3>2. CASE resolve[i] = "none" /\ Playing(i) /\ resolve'[i] = Decide(i)
      <4>1. row[i].status \notin Terminal
        BY <3>2 DEF Playing, Launched, Terminal
      <4> QED
        BY <1>1, <1>3, <3>2, <4>1 DEF AllTold, Told, Unrecorded
    <3> QED
      BY <1>4, <3>1, <3>2
  <2> QED
    BY <2>1 DEF AllTold
<1>7. Stands /\ Used' = Used
  BY <1>1 DEF Stands, RowsWell, RowWell, Used
<1>8. /\ Awake' /\ job' \in JobType /\ missed' \subseteq Rows
      /\ active' \in BOOLEAN /\ asleep' \in BOOLEAN /\ armed' \in BOOLEAN
  <2>1. PICK found \in {"none", "some"} :
          Finish(job.live, found) /\ (found = "none" => \A i \in Rows : ~Playing(i))
    BY DEF PollCompletions
  <2>2. ~armed /\ ~StaysAwake(job.live, found, job.was) => Quiet
    BY <1>1, <2>1 DEF Awake, StaysAwake, Quiet, Live
  <2>3. \A i \in Rows : Live(i)' => Live(i)
    BY <1>1 DEF Live, Unproven, Playing
  <2>4. job.live \in BOOLEAN
    BY DEF TypeOK
  <2> QED
    BY <2>1, <2>2, <2>3, <2>4, FinishAwakes
<1>9. TypeOK'
  <2>1. pollDue' \in BOOLEAN
    BY <1>1
  <2> QED
    BY <1>1, <1>2, <1>4, <1>8, <2>1 DEF TypeOK, JobType, ResolveType
<1> QED
  BY <1>1, <1>5, <1>6, <1>7, <1>8, <1>9 DEF Known

LEMMA RestartStep ==
  ASSUME IInv, Restart
  PROVE  IInv' /\ Stands
<1> USE DEF IInv
<1>1. /\ UNCHANGED <<over, lobby, api, row, commands, posts>>
      /\ watcher' = Off /\ command' = NoCommand /\ checks' = {} /\ resolve' = [i \in Rows |-> "none"]
      /\ slipped' = slipped \cup {i \in Rows : resolve[i] \in Unrecorded}
      /\ job' = IdleJob /\ active' = TRUE /\ asleep' = FALSE /\ reapDue' = TRUE /\ pollDue' = TRUE
      /\ armed' = FALSE /\ missed' = missed
  BY DEF Restart, world
<1>2. faults' \in 0..MaxFaults
  BY FaultCounts DEF Restart
<1>3. RowsWell' /\ Stands /\ Used' = Used
  BY <1>1 DEF RowsWell, RowWell, Stands, Used
<1>4. AllTold'
  <2>1. \A i \in Rows : resolve'[i] = "none"
    BY <1>1
  <2> QED
    BY <1>1, <2>1 DEF AllTold, Told, Unrecorded, Asked
<1>5. Awake'
  BY <1>1 DEF Awake, IdleJob
<1>6. job' \in JobType /\ active' \in BOOLEAN /\ asleep' \in BOOLEAN /\ reapDue' \in BOOLEAN
      /\ pollDue' \in BOOLEAN /\ armed' \in BOOLEAN
  BY <1>1 DEF IdleJob, JobType
<1>7. resolve' \in [Rows -> ResolveType] /\ slipped' \subseteq Rows /\ missed' \subseteq Rows
  BY <1>1 DEF ResolveType, TypeOK
<1>8. /\ Off \in WatcherType /\ Off.found = 0 /\ Off.at = "idle"
      /\ NoCommand \in CommandType /\ NoCommand.found = 0
  BY AfterWrite
<1>9. TypeOK'
  <2>1. UNCHANGED <<over, lobby, api, row, commands, posts>> /\ watcher' \in WatcherType /\ command' \in CommandType
        /\ checks' = {}
    BY <1>1, <1>8
  <2> QED
    BY <1>2, <1>6, <1>7, <2>1 DEF TypeOK, WatcherType, CommandType, JobType, ResolveType
<1> QED
  BY <1>1, <1>3, <1>4, <1>5, <1>8, <1>9 DEF Known

----------------------------------------------------------------------------

LEMMA InitStep ==
  ASSUME Init
  PROVE  IInv
<1>1. TypeOK
  <2>1. 0 \in 0..MaxRows /\ 0 \in 0..MaxCommands /\ 0 \in 0..MaxFaults
    BY BoundsAssumption
  <2>2. NoRow \in RowType
    BY DEF NoRow, RowType
  <2>3. [Off EXCEPT !.on = TRUE] \in WatcherType /\ NoCommand \in CommandType
    BY <2>1 DEF Off, WatcherType, NoCommand, CommandType
  <2>4. row \in [Rows -> RowType] /\ watcher \in WatcherType /\ command \in CommandType
        /\ resolve \in [Rows -> ResolveType] /\ job \in JobType /\ posts \in [Rows -> Nat]
    BY <2>2, <2>3 DEF Init, ResolveType, JobType, IdleJob
  <2>5. lobby \in [Games -> {"open", "removed"}] /\ api \in [Games -> {"no", "started", "short", "long"}]
        /\ over \in BOOLEAN /\ active \in BOOLEAN /\ asleep \in BOOLEAN /\ reapDue \in BOOLEAN
        /\ pollDue \in BOOLEAN /\ armed \in BOOLEAN
    BY DEF Init
  <2>6. commands = 0 /\ faults = 0 /\ checks = {} /\ slipped = {} /\ missed = {}
    BY DEF Init
  <2> QED
    BY <2>1, <2>4, <2>5, <2>6 DEF TypeOK, RowType, WatcherType, CommandType, ResolveType, JobType
<1>2. RowsWell /\ AllTold
  BY DEF Init, RowsWell, RowWell, AllTold, Told, NoRow, Terminal, Unrecorded, Asked
<1>3. Known /\ Awake
  BY DEF Init, Known, Awake, Off, NoCommand, IdleJob
<1> QED
  BY <1>1, <1>2, <1>3 DEF IInv

LEMMA NextStep ==
  ASSUME IInv, Next
  PROVE  IInv' /\ (LinkWrite \/ Stands)
<1>1. ASSUME NEW g \in Games, Remove(g) \/ Publish(g) \/ Confirm(g) \/ Command(g) PROVE IInv' /\ Stands
  BY <1>1, WorldStep, WatcherStep, CommandStep
<1>2. CASE MatchOver \/ WatcherExpires \/ SeeRemoved \/ PersistWrite \/ PersistFails
  BY <1>2, MatchOverStep, WatcherStep, PersistWriteStep
<1>3. CASE LinkWrite
  BY <1>3, LinkWriteStep
<1>4. CASE LinkFails \/ Announce \/ AnnounceWrite \/ AnnounceFails
  BY <1>4, CommandStep, AnnounceWriteStep
<1>5. CASE \E c \in checks : Check(c)
  BY <1>5, CheckStep
<1>6. CASE Job \/ Restart \/ Day
  BY <1>6, StartStep, PollLaunchesStep, ReapStep, PollCompletionsStep, RestartStep, DayStep DEF Job
<1>7. ASSUME NEW i \in Rows, Resolve(i) \/ Age(i) PROVE IInv' /\ Stands
  BY <1>7, FetchStep, CloseStep, SendStep, RecordStep, DeleteStep, AgeStep DEF Resolve
<1> QED
  BY <1>1, <1>2, <1>3, <1>4, <1>5, <1>6, <1>7 DEF Next

LEMMA StutterStep ==
  ASSUME IInv, UNCHANGED vars
  PROVE  IInv' /\ Stands
<1>1. UNCHANGED <<row, resolve, posts, slipped, job, clock, armed, missed>>
  BY DEF vars, tasks, history
<1>2. RowsWell' /\ AllTold' /\ Awake' /\ Used' = Used /\ Stands
  BY <1>1, TableAlone
<1>3. TypeOK'
  BY DEF IInv, TypeOK, vars, world, actors, tasks, clock, history
<1>4. Known'
  BY <1>2 DEF IInv, Known, vars, actors, tasks
<1> QED
  BY <1>2, <1>3, <1>4 DEF IInv

\* The table, the tasks that resolve a row, and the pass of the job agree in every reachable state.
THEOREM Inductive == Spec => []IInv
<1>1. IInv /\ [Next]_vars => IInv'
  BY NextStep, StutterStep
<1> QED
  BY <1>1, InitStep, PTL DEF Spec

\* Every variable keeps its type, for any games and bounds.
THEOREM TypeCorrect == Spec => []TypeOK
BY Inductive, PTL DEF IInv

\* The result of a game is in the channel once, whoever resolves its row, whatever fails and however
\* often the process starts again, unless the one message was sent and neither recorded nor taken back.
THEOREM ResultOnce == Spec => []PostedOnce
<1>1. IInv => PostedOnce
  BY DEF IInv, AllTold, Told, PostedOnce
<1> QED
  BY <1>1, Inductive, PTL

\* The job sleeps only when there is no launch and no result to poll for, apart from the rows that
\* nobody armed it for.
THEOREM SleepsInPeace == Spec => []AwakeWhileLive
<1>1. IInv => AwakeWhileLive
  BY DEF IInv, Awake, Quiet, Live, AwakeWhileLive
<1> QED
  BY <1>1, Inductive, PTL

\* No write of what was read awaits before takes a launch back or revives a row that is over.
THEOREM NoLaunchIsLost == Spec => LaunchStands
<1>1. IInv /\ [Next]_vars => [LinkWrite \/ Stands]_vars
  BY NextStep
<1>2. Spec => [][LinkWrite \/ Stands]_vars
  BY <1>1, Inductive, PTL DEF Spec
<1> QED
  BY <1>2 DEF LaunchStands, Stands
=============================================================================
