------------------------------ MODULE Snapshot ------------------------------
(***************************************************************************)
(* What a restart keeps (nammaoe2bot/state.py, __main__.py and the parts   *)
(* of match.py, queue.py and stats.py it relies on): the queue and the     *)
(* matches live in memory; every 30 seconds they are written to a file and *)
(* to one row of MySQL, a result is committed in one transaction, and a    *)
(* start reads the snapshot back and reconciles it with the results.       *)
(* /undo_match takes a result back, statement by statement.                *)
(***************************************************************************)
EXTENDS Integers, FiniteSets, FiniteSetsExt

CONSTANTS
  People,
  Old,        \* the players of a match in a file that an older version has left
  MaxId,      \* bound: match ids, from 1 (from 0 in the code)
  MaxEdits,   \* bound: joins and substitutions
  MaxFaults   \* bound: failed awaits, lost acknowledgements and restarts

ASSUME OldAssumption == Old \subseteq People
ASSUME BoundsAssumption == MaxId \in Nat \ {0} /\ MaxEdits \in Nat /\ MaxFaults \in Nat

VARIABLES
  \* memory
  restored,   \* app.state_restored; no command, tick or snapshot without it
  queue,      \* members of the queue
  roster,     \* active_matches: players by id, {} for no match
  live,       \* those of them waiting for a report
  starting,   \* PickupQueue.start, from the pop to active_matches
  finishing,  \* matches whose result is committed and that are still in active_matches
  lastDb,     \* _last_db_payload
  saver,      \* save_state_db: the payload of the insert on its way, Nothing for none
  loader,     \* load_state
  \* durable
  row,        \* bot_state, Nothing for no row
  file,       \* saved_state.json
  counter,    \* match_counter, 0 for no row
  result,     \* matches and match_players: the roster of a match with a result, {} for none
  history,    \* matches with rows in rating_history
  undo,       \* undo_match: the match and the statement it is at
  \* history and bounds
  rated,      \* how often a match counts in the ratings
  saved,      \* matches a snapshot in MySQL has held
  dropped,    \* matches cancelled, or undone
  edits, faults

memory == <<restored, queue, roster, live, starting, finishing, lastDb, saver, loader>>
durable == <<row, file, counter, result, history>>
bounds == <<edits, faults>>
vars == <<memory, durable, undo, rated, saved, dropped, bounds>>

Ids == 1..MaxId
None == {}
NoMatches == [m \in Ids |-> None]
Empty == [queue |-> None, roster |-> NoMatches, live |-> {}]
Nothing == [queue |-> People, roster |-> NoMatches, live |-> Ids]
Payload == [queue : SUBSET People, roster : [Ids -> SUBSET People], live : SUBSET Ids]

NotStarting == [players |-> None, id |-> 0]
NotLoading == [at |-> "off", data |-> Empty, left |-> {}]
NotUndoing == [id |-> 0, at |-> "off"]

TypeOK ==
  /\ restored \in BOOLEAN /\ queue \subseteq People
  /\ roster \in [Ids -> SUBSET People] /\ live \subseteq Ids /\ finishing \subseteq Ids
  /\ starting \in [players : SUBSET People, id : 0..MaxId]
  /\ {lastDb, saver, row, file} \subseteq Payload
  /\ loader \in [at : {"off", "read", "match"}, data : Payload, left : SUBSET Ids]
  /\ counter \in 0..MaxId + 1 /\ result \in [Ids -> SUBSET People] /\ history \subseteq Ids
  /\ undo \in [id : 0..MaxId, at : {"off", "history", "roster"}]
  /\ rated \in [Ids -> Int] /\ saved \subseteq Ids /\ dropped \subseteq Ids
  /\ edits \in 0..MaxEdits /\ faults \in 0..MaxFaults

\* The matches of a payload, and those with a result.
Of(payload) == {m \in Ids : payload.roster[m] # None}
Active == {m \in Ids : roster[m] # None}
Recorded == {m \in Ids : result[m] # None}

\* A first start; or the first with bot_state, next to a file an older version has left.
OldFile == {Nothing, [Empty EXCEPT !.roster[1] = Old]}
Init ==
  /\ restored = FALSE /\ queue = None /\ roster = NoMatches /\ live = {} /\ finishing = {}
  /\ starting = NotStarting /\ lastDb = Nothing /\ saver = Nothing /\ loader = [NotLoading EXCEPT !.at = "read"]
  /\ row = Nothing /\ file \in OldFile /\ counter = 1
  /\ result = NoMatches /\ history = {} /\ undo = NotUndoing
  /\ rated = [m \in Ids |-> 0] /\ saved = {} /\ dropped = {}
  /\ edits = 0 /\ faults = 0

Fault == faults < MaxFaults /\ faults' = faults + 1
Edit == edits < MaxEdits /\ edits' = edits + 1

----------------------------------------------------------------------------
\* The life of a match.

Seated == queue \cup starting.players \cup UNION {roster[m] : m \in Ids}

Join(p) ==
  /\ restored /\ p \notin Seated /\ Edit
  /\ queue' = queue \cup {p}
  /\ UNCHANGED <<restored, roster, live, starting, finishing, lastDb, saver, loader, durable, undo, rated, saved, dropped, faults>>

\* start: the players leave the queue before there is a match for them.
Pop ==
  /\ restored /\ starting = NotStarting /\ Cardinality(queue) = 2
  /\ starting' = [players |-> queue, id |-> 0] /\ queue' = None
  /\ UNCHANGED <<restored, roster, live, finishing, lastDb, saver, loader, durable, undo, rated, saved, dropped, bounds>>

\* next_match, in a transaction of its own.
NextMatch ==
  /\ starting.players # None /\ starting.id = 0 /\ counter <= MaxId
  /\ starting' = [starting EXCEPT !.id = counter] /\ counter' = counter + 1
  /\ UNCHANGED <<restored, queue, roster, live, finishing, lastDb, saver, loader, row, file, result, history, undo, rated, saved, dropped, bounds>>

New ==
  /\ starting.id # 0
  /\ roster' = [roster EXCEPT ![starting.id] = starting.players] /\ starting' = NotStarting
  /\ UNCHANGED <<restored, queue, live, finishing, lastDb, saver, loader, durable, undo, rated, saved, dropped, bounds>>

\* An await of start raises: its players are nowhere.
StartFails ==
  /\ starting # NotStarting /\ Fault
  /\ starting' = NotStarting
  /\ UNCHANGED <<restored, queue, roster, live, finishing, lastDb, saver, loader, durable, undo, rated, saved, dropped, edits>>

GoLive(m) ==
  /\ restored /\ m \in Active \ live
  /\ live' = live \cup {m}
  /\ UNCHANGED <<restored, queue, roster, starting, finishing, lastDb, saver, loader, durable, undo, rated, saved, dropped, bounds>>

\* A substitution, of p for q.
Substitute(m, p, q) ==
  /\ restored /\ m \in live \ finishing /\ p \notin Seated /\ q \in roster[m] /\ Edit
  /\ roster' = [roster EXCEPT ![m] = (@ \ {q}) \cup {p}]
  /\ UNCHANGED <<restored, queue, live, starting, finishing, lastDb, saver, loader, durable, undo, rated, saved, dropped, faults>>

\* A bug: a result that is there already is written and rated again.
WriteAgain(m) ==
  /\ result' = [result EXCEPT ![m] = roster[m]] /\ history' = history \cup {m}
  /\ rated' = [rated EXCEPT ![m] = @ + 1]

\* _register_match: the key is claimed; a result that is there must be the same.
Write(m) ==
  \/ /\ result[m] = None
     /\ result' = [result EXCEPT ![m] = roster[m]] /\ history' = history \cup {m}
     /\ rated' = [rated EXCEPT ![m] = @ + 1]
  \/ result[m] = roster[m] /\ m \in history /\ UNCHANGED <<result, history, rated>>

\* The transaction commits, and the acknowledgement arrives or is lost: then the match stays and
\* its captain reports again.
Commit(m) ==
  /\ restored /\ m \in live \ finishing
  /\ Write(m)
  /\ \/ finishing' = finishing \cup {m} /\ faults' = faults
     \/ Fault /\ finishing' = finishing
  /\ UNCHANGED <<restored, queue, roster, live, starting, lastDb, saver, loader, row, file, counter, undo, saved, dropped, edits>>

\* finish_match goes on: no await between the commit and this.
Finish(m) ==
  /\ m \in finishing
  /\ finishing' = finishing \ {m} /\ live' = live \ {m}
  /\ roster' = [roster EXCEPT ![m] = None]
  /\ UNCHANGED <<restored, queue, starting, lastDb, saver, loader, durable, undo, rated, saved, dropped, bounds>>

\* Match.cancel, and on_think, which removes a match after five errors.
Cancel(m) ==
  /\ restored /\ m \in Active \ finishing
  /\ roster' = [roster EXCEPT ![m] = None] /\ live' = live \ {m} /\ dropped' = dropped \cup {m}
  /\ UNCHANGED <<restored, queue, starting, finishing, lastDb, saver, loader, durable, undo, rated, saved, bounds>>

----------------------------------------------------------------------------
\* /undo_match: the ratings, their history, the roster, the result, outside a transaction.

UndoMatch(m) ==
  /\ restored /\ undo = NotUndoing /\ m \in Recorded \cap history
  /\ rated' = [rated EXCEPT ![m] = @ - 1] /\ dropped' = dropped \cup {m}
  /\ undo' = [id |-> m, at |-> "history"]
  /\ UNCHANGED <<memory, durable, saved, bounds>>

UndoHistory ==
  /\ undo.at = "history"
  /\ history' = history \ {undo.id} /\ undo' = [undo EXCEPT !.at = "roster"]
  /\ UNCHANGED <<memory, row, file, counter, result, rated, saved, dropped, bounds>>

\* update_rating_roles, then the rows of the roster and the row of the result.
UndoResult ==
  /\ undo.at = "roster"
  /\ result' = [result EXCEPT ![undo.id] = None] /\ undo' = NotUndoing
  /\ UNCHANGED <<memory, row, file, counter, history, rated, saved, dropped, bounds>>

UndoFails ==
  /\ undo # NotUndoing /\ Fault
  /\ undo' = NotUndoing
  /\ UNCHANGED <<memory, durable, rated, saved, dropped, edits>>

----------------------------------------------------------------------------
\* Snapshots.

Current == [queue |-> queue, roster |-> roster, live |-> live]

\* A bug: the first snapshots are of what is there before the snapshot is read.
MaySaveAtOnce == TRUE

MaySave == restored

\* A bug: what has been sent counts as saved.
SentIsSaved ==
  /\ MaySave /\ saver = Nothing
  /\ Current # lastDb /\ saver' = Current /\ lastDb' = Current
  /\ file' = IF row = Nothing THEN Current ELSE Nothing
  /\ UNCHANGED <<restored, queue, roster, live, starting, finishing, loader, row, counter, result, history, undo, rated, saved, dropped, bounds>>

\* save_state_if_changed: one view for both; the file is replaced at once, unless that fails.  Nobody
\* reads it once there is a row: it is Nothing from then on.
Save ==
  /\ MaySave /\ saver = Nothing
  /\ Current # lastDb /\ saver' = Current
  /\ \/ file' = (IF row = Nothing THEN Current ELSE Nothing) /\ faults' = faults
     \/ row = Nothing /\ Fault /\ file' = file
  /\ UNCHANGED <<restored, queue, roster, live, starting, finishing, lastDb, loader, row, counter, result, history, undo, rated, saved, dropped, edits>>

\* The insert returns; or its acknowledgement is lost, or it fails, and the next snapshot tries again.
Inserted ==
  /\ saver # Nothing /\ saver' = Nothing
  /\ \/ row' = saver /\ lastDb' = saver /\ faults' = faults
     \/ Fault /\ row' \in {row, saver} /\ lastDb' = lastDb
  /\ file' = IF row' = Nothing THEN file ELSE Nothing
  /\ saved' = saved \cup IF row' = Nothing THEN {} ELSE Of(row')
  /\ UNCHANGED <<restored, queue, roster, live, starting, finishing, loader, counter, result, history, undo, rated, dropped, edits>>

----------------------------------------------------------------------------
\* The end of the process, and the next one.

Gone ==
  /\ restored' = FALSE /\ queue' = None /\ roster' = NoMatches /\ live' = {} /\ finishing' = {}
  /\ starting' = NotStarting /\ lastDb' = Nothing /\ saver' = Nothing /\ loader' = [NotLoading EXCEPT !.at = "read"]
  /\ undo' = NotUndoing

\* check_match_id_counter, as a process begins.
Floor == Max({counter} \cup {m + 1 : m \in Recorded})

\* The file may be gone with its container; an insert on its way may have arrived.
Crash ==
  /\ Fault /\ Gone
  /\ row' \in {row, IF saver = Nothing THEN row ELSE saver}
  /\ file' \in {IF row' = Nothing THEN file ELSE Nothing, Nothing}
  /\ saved' = saved \cup IF row' = Nothing THEN {} ELSE Of(row')
  /\ counter' = Floor
  /\ UNCHANGED <<result, history, rated, dropped, edits>>

\* _shutdown: commands are cancelled, then what they have left is saved.
Shutdown ==
  /\ restored /\ Fault /\ Gone
  /\ row' = Current /\ file' = Nothing /\ saved' = saved \cup Active
  /\ counter' = Floor
  /\ UNCHANGED <<result, history, rated, dropped, edits>>

\* A bug: the counter is not raised above the ids of the snapshot.
KeepCounter(data) == counter

\* reserve_restored_ids
RestoredFloor(data) == Max({counter} \cup {m + 1 : m \in Of(data)})

\* load_state: the row, or else the file, or else nothing; then the queue.
Load ==
  /\ loader.at = "read"
  /\ LET data == IF row # Nothing THEN row ELSE IF file # Nothing THEN file ELSE Empty IN
     /\ counter' = RestoredFloor(data)
     /\ queue' = data.queue
     /\ loader' = [at |-> "match", data |-> data, left |-> Of(data)]
  /\ UNCHANGED <<restored, roster, live, starting, finishing, lastDb, saver, row, file, result, history, undo, rated, saved, dropped, bounds>>

\* validate_recorded_match: its roster is the one of the snapshot, and its history is complete.
Valid(m) == result[m] = loader.data.roster[m] /\ m \in history

\* A match of the snapshot: one with a result is over, or the load fails until the next ready; one
\* that an earlier load has restored is there.
Restore(m) ==
  \/ /\ m \in Recorded /\ Valid(m)
     /\ loader' = [loader EXCEPT !.left = @ \ {m}] /\ UNCHANGED <<roster, live>>
  \/ /\ m \in Recorded /\ ~Valid(m)
     /\ loader' = [NotLoading EXCEPT !.at = "read"] /\ UNCHANGED <<roster, live>>
  \/ /\ m \notin Recorded
     /\ roster' = [roster EXCEPT ![m] = loader.data.roster[m]] /\ live' = live \cup ({m} \cap loader.data.live)
     /\ loader' = [loader EXCEPT !.left = @ \ {m}]

LoadMatch ==
  /\ loader.at = "match"
  /\ \E m \in loader.left : Restore(m)
  /\ UNCHANGED <<restored, queue, starting, finishing, lastDb, saver, durable, undo, rated, saved, dropped, bounds>>

Loaded ==
  /\ loader.at = "match" /\ loader.left = {}
  /\ restored' = TRUE /\ loader' = NotLoading
  /\ UNCHANGED <<queue, roster, live, starting, finishing, lastDb, saver, durable, undo, rated, saved, dropped, bounds>>

\* A member or the database does not answer: the next ready loads again.
LoadFails ==
  /\ loader.at = "match" /\ Fault
  /\ loader' = [NotLoading EXCEPT !.at = "read"]
  /\ UNCHANGED <<restored, queue, roster, live, starting, finishing, lastDb, saver, durable, undo, rated, saved, dropped, edits>>

Next ==
  \/ \E p \in People : Join(p)
  \/ Pop \/ NextMatch \/ New \/ StartFails
  \/ \E m \in Ids :
       \/ GoLive(m) \/ Commit(m) \/ Finish(m) \/ Cancel(m) \/ UndoMatch(m)
       \/ \E p, q \in People : Substitute(m, p, q)
  \/ UndoHistory \/ UndoResult \/ UndoFails
  \/ Save \/ Inserted
  \/ Crash \/ Shutdown \/ Load \/ LoadMatch \/ Loaded \/ LoadFails

Spec == Init /\ [][Next]_vars

\* on_think takes a snapshot every 30 seconds and awaits its insert; a load goes on.
FairSpec == Spec /\ WF_vars(Save) /\ WF_vars(Inserted) /\ WF_vars(Load \/ LoadMatch \/ Loaded)

----------------------------------------------------------------------------
\* A result counts once in the ratings, whatever was retried, restored or undone: "never rate it
\* again" (load_state).
RatedOnce == \A m \in Ids : rated[m] <= 1

\* A match that a snapshot in MySQL has held is in memory or in the row from then on, until it has a
\* result, is cancelled or is undone: no empty state is saved over it, no failed load loses it.
SavedSurvives ==
  \A m \in saved : m \in Recorded \cup dropped \/ m \in Active \/ (row # Nothing /\ m \in Of(row))

\* A new match never takes the id of another one, of a snapshot's or of a result.
IdsAreNew ==
  starting.id # 0 => starting.id \notin Active \cup Recorded \cup saved

\* A match is in the durable snapshot in the end, whatever inserts failed, unless it or the process ends.
MatchIsSaved ==
  \A m \in Ids : (restored /\ m \in Active) ~> (~restored \/ m \notin Active \/ (row # Nothing /\ m \in Of(row)))
=============================================================================
