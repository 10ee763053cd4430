------------------------------- MODULE Ingest -------------------------------
(***************************************************************************)
(* Replays in, facts out: the ingest job (nammaoe2bot/ingest), one replay  *)
(* at a time, and the reconciler of game_stats and game_labels             *)
(* (nammaoe2bot/derived/backfill.py), which runs beside it.  Nothing is in *)
(* a transaction: an await may raise, or the process end, between any two  *)
(* statements.  Ids are the order matches are reported in.  Replay ingest  *)
(* is enabled and every community lets its replays be analysed.            *)
(***************************************************************************)
EXTENDS Integers, FiniteSets, FiniteSetsExt

CONSTANTS
  MaxReplay,   \* bound: replays
  Labels,      \* labels in the allowlist, of one player slot
  MaxVersion,  \* bound: versions of the code, and of the replay format
  MaxFailures    \* bound: awaits that raise, restarts and refusals of aoe.ms

AttemptLimit == 3  \* MAX_ATTEMPTS of the reconciler, MAX_PARSE_ATTEMPTS of the job

ASSUME LabelsAssumption == IsFiniteSet(Labels) /\ "slot" \notin Labels
ASSUME VersionsAssumption ==
  MaxReplay \in Nat \ {0} /\ MaxVersion \in Nat \ {0} /\ MaxFailures \in Nat

VARIABLES
  format,   \* the version that a replay's save version needs
  content,  \* the labels the classifier finds in it
  version,  \* PARSER_VERSION and COMPUTE_VERSION of this process
  picked,   \* replays in civ_picks
  row,      \* replay_ingest
  players,  \* replays with rows in replay_players
  cls,      \* cls_results
  stamp,    \* cls_match_ingest.result_rows, NoStamp for no row
  stats,    \* game_stats: the version that computed it, 0 for no rows
  labels,   \* game_labels
  reopened, \* ReplayStatsJobs._reopened
  ingester, \* ReplayStatsJobs._run, between two awaits
  back,     \* DerivedBackfill._run, between two awaits
  attempted,\* _stats_attempts and _labels_attempts
  failures

world == <<format, content>>
derived == <<stats, labels>>
source == <<players, cls, stamp>>
ingestVars == <<world, version, picked, row, source, derived, reopened, ingester, back, attempted, failures>>

Replays == 1..MaxReplay
Kinds == {"stats", "labels"}
NoStamp == -1
Retryable == {"unavailable", "parse_failed"}
Statuses == Retryable \cup {"none", "processing", "pending_parser_update", "done", "gave_up"}

\* due: next_attempt_at <= now.  old: first_seen_at is seven days ago.  parser: parser_version.
NoRow == [status |-> "none", attempts |-> 0, due |-> FALSE, old |-> FALSE, parser |-> 0]

IdleJob == [at |-> "idle", replay |-> 0, attempts |-> 0]
IdleBack == [at |-> "idle", ids |-> {}, replay |-> 0, rows |-> {}]
JobSteps == {"idle", "find", "fetch", "parse", "clear", "players", "cls_clear", "cls", "stamp",
             "stats_clear", "stats", "labels_clear", "labels", "done", "except"}
BackSteps == {"idle", "stats", "stats_clear", "stats_write", "labels", "labels_trust", "labels_clear", "labels_write"}

IngestTypeOK ==
  /\ format \in [Replays -> 1..MaxVersion] /\ content \in [Replays -> SUBSET Labels]
  /\ version \in 1..MaxVersion /\ picked \subseteq Replays
  /\ row \in [Replays -> [status : Statuses, attempts : 0..AttemptLimit, due : BOOLEAN, old : BOOLEAN, parser : 0..MaxVersion]]
  /\ players \subseteq Replays /\ cls \in [Replays -> SUBSET Labels]
  /\ stamp \in [Replays -> {NoStamp} \cup 0..Cardinality(Labels)]
  /\ stats \in [Replays -> 0..MaxVersion] /\ labels \in [Replays -> SUBSET Labels]
  /\ reopened \in BOOLEAN
  /\ ingester \in [at : JobSteps, replay : 0..MaxReplay, attempts : 0..AttemptLimit]
  /\ back \in [at : BackSteps, ids : SUBSET Replays, replay : 0..MaxReplay, rows : SUBSET (Labels \cup {"slot"})]
  /\ attempted \in [Kinds -> [Replays -> 0..AttemptLimit]]
  /\ failures \in 0..MaxFailures

IngestInit ==
  /\ format \in [Replays -> 1..MaxVersion] /\ content \in [Replays -> SUBSET Labels]
  /\ version = 1 /\ picked = {} /\ row = [r \in Replays |-> NoRow]
  /\ players = {} /\ cls = [r \in Replays |-> {}] /\ stamp = [r \in Replays |-> NoStamp]
  /\ stats = [r \in Replays |-> 0] /\ labels = [r \in Replays |-> {}]
  /\ reopened = FALSE /\ ingester = IdleJob /\ back = IdleBack
  /\ attempted = [k \in Kinds |-> [r \in Replays |-> 0]]
  /\ failures = 0

IngestFault == failures < MaxFailures /\ failures' = failures + 1

----------------------------------------------------------------------------
\* The job.

Running(step) == ingester.at = step
Go(step) == ingester' = [ingester EXCEPT !.at = step]
Upsert(r, fields) == row' = [row EXCEPT ![r] = fields]
OnlyIngest == UNCHANGED <<world, version, picked, back, attempted>>
NoTable == UNCHANGED <<source, derived>>

\* reopen_pending_parser_update and reset_stale_processing.
Reopened(fields) ==
  IF fields.status = "processing" \/ (fields.status = "pending_parser_update" /\ fields.parser # version)
  THEN [fields EXCEPT !.status = "unavailable", !.due = TRUE] ELSE fields

\* A pass: what is left from before is reopened once per process.
StartIngest ==
  /\ Running("idle") /\ reopened' = TRUE /\ failures' = failures
  /\ Go("find")
  /\ row' = IF reopened THEN row ELSE [r \in Replays |-> Reopened(row[r])]
  /\ OnlyIngest /\ NoTable

\* A bug: only replays that were not there yet are tried again.
UnavailableOnly == {r \in Replays : row[r].status = "unavailable" /\ row[r].due}

New == {r \in picked : row[r].status = "none"}
DueRetries == {r \in Replays : row[r].status \in Retryable /\ row[r].due}

\* The newest new match, or else a retry that is due: of those the oldest, whichever that is.
Work == IF New # {} THEN {Max(New)} ELSE DueRetries

Find ==
  /\ Running("find") /\ failures' = failures
  /\ \/ \E r \in Work :
          /\ ingester' = [at |-> "fetch", replay |-> r, attempts |-> row[r].attempts]
          /\ Upsert(r, [row[r] EXCEPT !.status = "processing"])
     \/ Work = {} /\ ingester' = IdleJob /\ row' = row
  /\ OnlyIngest /\ NoTable /\ UNCHANGED reopened

\* Beyond the last threshold a count tells nothing: a bound.
Counted == Min({ingester.attempts + 1, AttemptLimit})

Ends(fields) == Upsert(ingester.replay, fields) /\ ingester' = IdleJob

\* _mark_unavailable: with a backoff, or for good after seven days.
Unavailable ==
  IF row[ingester.replay].old THEN [row[ingester.replay] EXCEPT !.status = "gave_up"]
  ELSE [row[ingester.replay] EXCEPT !.status = "unavailable", !.attempts = Counted, !.due = FALSE]

\* fetch_replay: the file, none yet, or a refusal to all (429), which is not an attempt.
Fetch ==
  /\ Running("fetch")
  /\ \/ Go("parse") /\ UNCHANGED <<row, failures>>
     \/ Ends(Unavailable) /\ failures' = failures
     \/ IngestFault /\ Ends([row[ingester.replay] EXCEPT !.status = "unavailable", !.due = FALSE])
  /\ OnlyIngest /\ NoTable /\ UNCHANGED reopened

Unparsed ==
  IF Counted >= AttemptLimit
  THEN [row[ingester.replay] EXCEPT !.status = "gave_up", !.attempts = Counted]
  ELSE [row[ingester.replay] EXCEPT !.status = "parse_failed", !.attempts = Counted, !.due = FALSE]

Supported == format[ingester.replay] <= version

\* parse_replay.  A header that cannot be read looks like one that is too new.
Parse ==
  /\ Running("parse")
  /\ \/ Supported /\ Go("clear") /\ UNCHANGED <<row, failures>>
     \/ Supported /\ Ends(Unparsed) /\ failures' = failures
     \/ /\ (~Supported /\ failures' = failures) \/ (Supported /\ IngestFault)
        /\ Ends([row[ingester.replay] EXCEPT !.status = "pending_parser_update", !.parser = version])
  /\ OnlyIngest /\ NoTable /\ UNCHANGED reopened

\* write_match: the rows of the match are deleted, then written anew.
Clear ==
  /\ Running("clear") /\ players' = players \ {ingester.replay}
  /\ Go("players")
  /\ OnlyIngest /\ UNCHANGED <<row, cls, stamp, derived, reopened, failures>>

WritePlayers ==
  /\ Running("players") /\ players' = players \cup {ingester.replay}
  /\ Go("cls_clear")
  /\ OnlyIngest /\ UNCHANGED <<row, cls, stamp, derived, reopened, failures>>

\* write_extracted_match: delete, insert, stamp.
ClearResults ==
  /\ Running("cls_clear") /\ cls' = [cls EXCEPT ![ingester.replay] = {}]
  /\ Go("cls")
  /\ OnlyIngest /\ UNCHANGED <<row, players, stamp, derived, reopened, failures>>

WriteResults ==
  /\ Running("cls") /\ cls' = [cls EXCEPT ![ingester.replay] = content[ingester.replay]]
  /\ Go("stamp")
  /\ OnlyIngest /\ UNCHANGED <<row, players, stamp, derived, reopened, failures>>

Stamp ==
  /\ Running("stamp") /\ stamp' = [stamp EXCEPT ![ingester.replay] = Cardinality(content[ingester.replay])]
  /\ Go("stats_clear")
  /\ OnlyIngest /\ UNCHANGED <<row, players, cls, derived, reopened, failures>>

ClearStats ==
  /\ Running("stats_clear") /\ stats' = [stats EXCEPT ![ingester.replay] = 0]
  /\ Go("stats")
  /\ OnlyIngest /\ UNCHANGED <<row, source, labels, reopened, failures>>

WriteStats ==
  /\ Running("stats") /\ stats' = [stats EXCEPT ![ingester.replay] = version]
  /\ Go("labels_clear")
  /\ OnlyIngest /\ UNCHANGED <<row, source, labels, reopened, failures>>

\* sync_match
ClearLabels ==
  /\ Running("labels_clear") /\ labels' = [labels EXCEPT ![ingester.replay] = {}]
  /\ Go("labels")
  /\ OnlyIngest /\ UNCHANGED <<row, source, stats, reopened, failures>>

WriteLabels ==
  /\ Running("labels") /\ labels' = [labels EXCEPT ![ingester.replay] = content[ingester.replay]]
  /\ Go("done")
  /\ OnlyIngest /\ UNCHANGED <<row, source, stats, reopened, failures>>

MarkDone ==
  /\ Running("done") /\ failures' = failures
  /\ Ends([row[ingester.replay] EXCEPT !.status = "done", !.attempts = Counted, !.parser = version])
  /\ OnlyIngest /\ NoTable /\ UNCHANGED reopened

\* A bug: a failure to write the rows is guarded as the parts after it are.
JobFailsGuarded ==
  /\ IngestFault
  /\ ingester.at = "players" /\ Go("cls_clear")
  /\ OnlyIngest /\ NoTable /\ UNCHANGED <<row, reopened>>

\* An await raises.  The guard of a part goes on with the next one, ingest_one's notes the failure,
\* and what raises outside it, or in it, ends the pass.
JobFails ==
  /\ IngestFault
  /\ \/ ingester.at \in {"cls_clear", "cls", "stamp"} /\ Go("stats_clear")
     \/ ingester.at \in {"stats_clear", "stats"} /\ Go("labels_clear")
     \/ ingester.at \in {"labels_clear", "labels"} /\ Go("done")
     \/ ingester.at \in {"fetch", "parse", "clear", "players", "done"} /\ Go("except")
     \/ ingester.at \in {"find", "except"} /\ ingester' = IdleJob
  /\ NoTable /\ UNCHANGED <<world, version, picked, back, attempted, row, reopened>>

\* parse_failed, whatever the attempts: the next try is in an hour.
Except ==
  /\ Running("except") /\ failures' = failures
  /\ Ends([row[ingester.replay] EXCEPT !.status = "parse_failed", !.attempts = Counted, !.due = FALSE])
  /\ OnlyIngest /\ NoTable /\ UNCHANGED reopened

----------------------------------------------------------------------------
\* The reconciler.

BackAt(step) == back.at = step
OnlyBack == UNCHANGED <<world, version, picked, row, source, reopened, ingester>>

\* A bug: only which rows there are is compared, not which version computed them.
StatsMissing == {r \in Replays : (r \in players) # (stats[r] # 0)}

\* The rows the source implies are not the rows stored.
StatsPending == {r \in Replays : stats[r] # (IF r \in players THEN version ELSE 0)}
LabelsPending == {r \in Replays : cls[r] # labels[r]}

\* _quarantined
Unquarantined(kind) == {r \in Replays : attempted[kind][r] < AttemptLimit}

\* A batch holds all of them.
StartStats ==
  /\ BackAt("idle")
  /\ back' = [IdleBack EXCEPT !.at = "stats", !.ids = StatsPending \cap Unquarantined("stats")]
  /\ OnlyBack /\ UNCHANGED <<derived, attempted, failures>>

StartLabels ==
  /\ BackAt("stats") /\ back.ids = {}
  /\ back' = [IdleBack EXCEPT !.at = "labels", !.ids = LabelsPending \cap Unquarantined("labels")]
  /\ OnlyBack /\ UNCHANGED <<derived, attempted, failures>>

EndPass ==
  /\ BackAt("labels") /\ back.ids = {} /\ back' = IdleBack
  /\ OnlyBack /\ UNCHANGED <<derived, attempted, failures>>

Latest == Max(back.ids)

\* process_game_stats reads the rows of the match, whatever is being done to them.
ReadPlayers ==
  /\ BackAt("stats") /\ back.ids # {}
  /\ back' = [at |-> "stats_clear", ids |-> back.ids \ {Latest}, replay |-> Latest,
              rows |-> IF Latest \in players THEN {"slot"} ELSE {}]
  /\ OnlyBack /\ UNCHANGED <<derived, attempted, failures>>

Drained(kind) == back' = [back EXCEPT !.at = kind, !.replay = 0, !.rows = {}]
BackSucceeded(kind) == attempted' = [attempted EXCEPT ![kind][back.replay] = 0]
BackFailed(kind) == attempted' = [attempted EXCEPT ![kind][back.replay] = @ + 1]

\* game_stats.write: delete, and insert if there is anything to insert.
RewriteStats ==
  /\ \/ /\ BackAt("stats_clear") /\ stats' = [stats EXCEPT ![back.replay] = 0]
        /\ IF back.rows = {} THEN Drained("stats") /\ BackSucceeded("stats")
           ELSE back' = [back EXCEPT !.at = "stats_write"] /\ attempted' = attempted
     \/ /\ BackAt("stats_write") /\ stats' = [stats EXCEPT ![back.replay] = version]
        /\ Drained("stats") /\ BackSucceeded("stats")
  /\ OnlyBack /\ UNCHANGED <<labels, failures>>

\* process_game_labels reads the source; that it is empty must be confirmed.
ReadResults ==
  /\ BackAt("labels") /\ back.ids # {}
  /\ back' = [at |-> IF cls[Latest] = {} THEN "labels_trust" ELSE "labels_clear",
              ids |-> back.ids \ {Latest}, replay |-> Latest, rows |-> cls[Latest]]
  /\ OnlyBack /\ UNCHANGED <<derived, attempted, failures>>

\* A bug: no rows are no labels.
Believed(r) == r \in Replays

\* _source_is_trustworthy
Trustworthy(r) == stamp[r] = 0

Trust ==
  /\ BackAt("labels_trust")
  /\ \/ Trustworthy(back.replay) /\ back' = [back EXCEPT !.at = "labels_clear"] /\ attempted' = attempted
     \/ ~Trustworthy(back.replay) /\ Drained("labels") /\ BackFailed("labels")
  /\ OnlyBack /\ UNCHANGED <<derived, failures>>

RewriteLabels ==
  /\ \/ /\ BackAt("labels_clear") /\ labels' = [labels EXCEPT ![back.replay] = {}]
        /\ IF back.rows = {} THEN Drained("labels") /\ BackSucceeded("labels")
           ELSE back' = [back EXCEPT !.at = "labels_write"] /\ attempted' = attempted
     \/ /\ BackAt("labels_write") /\ labels' = [labels EXCEPT ![back.replay] = back.rows]
        /\ Drained("labels") /\ BackSucceeded("labels")
  /\ OnlyBack /\ UNCHANGED <<stats, failures>>

\* A query of a drain raises and ends it, or one of a match, which is counted.
BackFails ==
  /\ IngestFault
  /\ \/ BackAt("stats") /\ back' = [back EXCEPT !.ids = {}] /\ attempted' = attempted
     \/ BackAt("labels") /\ back' = IdleBack /\ attempted' = attempted
     \/ back.at \in {"stats_clear", "stats_write"} /\ Drained("stats") /\ BackFailed("stats")
     \/ back.at \in {"labels_trust", "labels_clear", "labels_write"} /\ Drained("labels") /\ BackFailed("labels")
  /\ OnlyBack /\ UNCHANGED derived

----------------------------------------------------------------------------
\* The world: matches, time, and the end of a process, which the same code or the next version follows.

Pick(r) ==
  /\ r \notin picked /\ picked' = picked \cup {r}
  /\ UNCHANGED <<world, version, row, source, derived, reopened, ingester, back, attempted, failures>>

Late(r) ==
  /\ row[r].status \in Retryable /\ ~row[r].due
  /\ row' = [row EXCEPT ![r].due = TRUE]
  /\ UNCHANGED <<world, version, picked, source, derived, reopened, ingester, back, attempted, failures>>

Age(r) ==
  /\ row[r].status # "none" /\ ~row[r].old
  /\ row' = [row EXCEPT ![r].old = TRUE]
  /\ UNCHANGED <<world, version, picked, source, derived, reopened, ingester, back, attempted, failures>>

IngestRestart ==
  /\ \/ IngestFault /\ version' = version
     \/ version < MaxVersion /\ version' = version + 1 /\ failures' = failures
  /\ ingester' = IdleJob /\ back' = IdleBack /\ reopened' = FALSE
  /\ attempted' = [k \in Kinds |-> [r \in Replays |-> 0]]
  /\ UNCHANGED <<world, picked, row, source, derived>>

IngestOne ==
  \/ StartIngest \/ Find \/ Fetch \/ Parse \/ Clear \/ WritePlayers \/ ClearResults \/ WriteResults
  \/ Stamp \/ ClearStats \/ WriteStats \/ ClearLabels \/ WriteLabels \/ MarkDone \/ Except

Back == StartStats \/ StartLabels \/ EndPass \/ ReadPlayers \/ RewriteStats \/ ReadResults \/ Trust \/ RewriteLabels

IngestNext ==
  \/ IngestOne \/ JobFails \/ Back \/ BackFails \/ IngestRestart
  \/ \E r \in Replays : Pick(r) \/ Late(r) \/ Age(r)

IngestSpec == IngestInit /\ [][IngestNext]_ingestVars

\* on_think starts a pass of either when none runs and its time has come; time passes.
IngestFairSpec ==
  IngestSpec /\ WF_ingestVars(IngestOne) /\ WF_ingestVars(Back) /\ \A r \in Replays : WF_ingestVars(Late(r)) /\ WF_ingestVars(Age(r))

----------------------------------------------------------------------------
\* A replay that is done has its rows, and nothing takes them out again: "replays 404 upstream once
\* they expire" (store.write_match).
DoneIsStored == \A r \in Replays : row[r].status = "done" => r \in players

\* The classification of a replay that was stored once is in its source or its labels from then on,
\* or in the hands of a reconciler about to write it, whatever fails, while the replay is not being
\* ingested again; it is lost only from those hands, after a re-ingest failed to put it back.
Known(r) == content[r] \in {cls[r], labels[r]} \/ (back.replay = r /\ back.rows = content[r])
HandsFail(r) == cls[r] # content[r] /\ back.replay = r /\ back'.replay # r /\ labels' = labels
ClassifiedStays == [][\A r \in Replays : Known(r) /\ ingester.replay # r /\ ~HandsFail(r) => Known(r)']_ingestVars

\* Nobody will look for the replay before the process ends: noting the failure of its ingest failed.
Orphan(r) == row[r].status = "processing" /\ ingester.replay # r /\ reopened

\* Every match's replay is ingested, shelved for a newer parser or given up in the end.
Settles == \A r \in Replays :
  r \in picked ~> (row[r].status \in {"done", "pending_parser_update", "gave_up"} \/ Orphan(r))

\* What is stored becomes what the source implies, however re-ingests, restarts and failures fall, but
\* for a match the reconciler gave up on loudly.
DerivedConverges == \A r \in Replays :
  LET agree == stats[r] = (IF r \in players THEN version ELSE 0)
      same == cls[r] = labels[r]
  IN /\ ~agree ~> (agree \/ attempted["stats"][r] = AttemptLimit)
     /\ ~same ~> (same \/ attempted["labels"][r] = AttemptLimit)
=============================================================================
