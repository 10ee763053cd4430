------------------------------- MODULE Lobby -------------------------------
(***************************************************************************)
(* Lobbies of AoE2 and the one match they may be for                       *)
(* (nammaoe2bot/features/lobby): the watcher of the match, the /lobby2     *)
(* command with its announcer, the checks that ask the match API whether a *)
(* game started, the job that polls for launches and results, and the      *)
(* tasks that post a result.  All of them write one table, lobbies, from   *)
(* what they read of it awaits before.  Civs, cards and wording are left   *)
(* out.  One channel.  Ages are classes: a row is young for STALE_AFTER,   *)
(* then old, and ancient after GIVEUP_AFTER.                               *)
(***************************************************************************)
EXTENDS Integers, FiniteSets

CONSTANTS
  Games,       \* ids of AoE2 games
  NoGame,
  MaxRows,     \* bound: rows; one more insert fails
  MaxCommands, \* bound: /lobby2
  MaxFaults    \* bound: awaits that raise, and restarts

ASSUME GamesAssumption == NoGame \notin Games
ASSUME BoundsAssumption == MaxRows \in Nat /\ MaxCommands \in Nat /\ MaxFaults \in Nat

VARIABLES
  over,     \* the match is reported or cancelled
  lobby,    \* a game's lobby, as the socket tells
  api,      \* a game, as the match API tells
  row,      \* lobbies
  watcher,  \* LobbyWatcher of the match, and its _persist between two awaits
  command,  \* /lobby2: link_manual, then the LobbyAnnouncer
  commands, \* how many there have been
  checks,   \* verify_row on its way, of the job, or of wait_for_start
  resolve,  \* resolve_row on its way, by row
  job,      \* LobbyJobs._run, between two awaits
  active,   \* LobbyJobs._active
  asleep,   \* next_run is RECOVERY_INTERVAL away
  reapDue,  \* now >= next_reap
  pollDue,  \* now >= next_completion
  posts,    \* history: result messages in the channel, by row, since it was linked
  slipped,  \* history: rows whose message could not be recorded
  armed,    \* history: arm() during the pass
  missed,   \* history: rows whose arm() was overwritten, or that nobody armed for
  faults

world == <<over, lobby, api>>
actors == <<watcher, command, commands>>
tasks == <<checks, resolve>>
clock == <<active, asleep, reapDue, pollDue>>
history == <<posts, slipped, armed, missed>>
vars == <<world, row, actors, tasks, job, clock, history, faults>>

Rows == 1..MaxRows
Before == {"filling", "verifying"}
Launched == {"in_progress", "awaiting_confirm"}
Terminal == {"completed", "expired"}
Unrecorded == {"record", "record_card", "delete"}

\* ours: match_id is the match's, else NULL.  posted: completed_message_id.
NoRow == [status |-> "none", game |-> NoGame, ours |-> FALSE, launched |-> FALSE, posted |-> FALSE,
          age |-> "young"]
NewRow(g, ours, status) == [NoRow EXCEPT !.status = status, !.game = g, !.ours = ours]

\* linked: game_id while linked.  found: the id that the SELECT returned, 0 for none.
Off == [on |-> FALSE, linked |-> NoGame, at |-> "idle", game |-> NoGame, status |-> "none", found |-> 0]
NoCommand == [at |-> "idle", game |-> NoGame, found |-> 0]
IdleJob == [at |-> "idle", live |-> FALSE, was |-> FALSE]

TypeOK ==
  /\ over \in BOOLEAN
  /\ lobby \in [Games -> {"open", "removed"}]
  /\ api \in [Games -> {"no", "started", "short", "long"}]
  /\ row \in [Rows -> [status : {"none"} \cup Before \cup Launched \cup Terminal, game : Games \cup {NoGame},
                       ours : BOOLEAN, launched : BOOLEAN, posted : BOOLEAN,
                       age : {"young", "old", "ancient"}]]
  /\ watcher \in [on : BOOLEAN, linked : Games \cup {NoGame}, at : {"idle", "write"},
                  game : Games \cup {NoGame}, status : Before \cup {"none"}, found : 0..MaxRows]
  /\ command \in [at : {"idle", "link_write", "seen", "write"},
                  game : Games \cup {NoGame}, found : 0..MaxRows]
  /\ commands \in 0..MaxCommands
  /\ checks \subseteq [by : {"job", "watcher"}, row : Rows]
  /\ resolve \in [Rows -> {"none", "fetch", "send", "record", "delete", "fetch_card",
                           "send_card", "record_card", "complete", "expire"}]
  /\ job \in [at : {"idle", "launches", "reap", "completions"}, live : BOOLEAN, was : BOOLEAN]
  /\ active \in BOOLEAN /\ asleep \in BOOLEAN /\ reapDue \in BOOLEAN /\ pollDue \in BOOLEAN
  /\ posts \in [Rows -> Nat] /\ slipped \subseteq Rows /\ armed \in BOOLEAN /\ missed \subseteq Rows
  /\ faults \in 0..MaxFaults

Init ==
  /\ over = FALSE /\ lobby = [g \in Games |-> "open"] /\ api = [g \in Games |-> "no"]
  /\ row = [i \in Rows |-> NoRow]
  /\ watcher = [Off EXCEPT !.on = TRUE] /\ command = NoCommand /\ commands = 0
  /\ checks = {} /\ resolve = [i \in Rows |-> "none"]
  /\ job = IdleJob /\ active = TRUE /\ asleep = FALSE /\ reapDue = TRUE /\ pollDue = TRUE
  /\ posts = [i \in Rows |-> 0] /\ slipped = {} /\ armed = FALSE /\ missed = {} /\ faults = 0

----------------------------------------------------------------------------
\* The table.

Fault == faults < MaxFaults /\ faults' = faults + 1
Used == {i \in Rows : row[i].status # "none"}
Selected(g) == {i \in Used : row[i].game = g}
Fresh == Cardinality(Used) + 1

\* What _poll_launches and _poll_completions select.
Unproven(i) == ~row[i].launched /\ row[i].status \in Before \cup Launched /\ row[i].age = "young"
Playing(i) == row[i].launched /\ row[i].status \in Launched

\* A bug: a late frame is the newer one.
AnyStatus(r, status) == status

\* "Never let a late lobby frame downgrade an API-confirmed in_progress row."
Observed(r, status) == IF r.launched THEN r.status ELSE status

\* LobbyJobs.arm, with a write to row i.
Arm == active' = TRUE /\ asleep' = FALSE /\ armed' = (job.at # "idle")

\* _persist or _persist_verifying, in the table r: the row it has selected is written, or a new one.
Target(found) == IF found # 0 THEN found ELSE Fresh
Written(r, found, g, ours, status) ==
  IF found # 0
  THEN [r EXCEPT ![found].ours = @ \/ ours, ![found].status = Observed(r[found], status)]
  ELSE [r EXCEPT ![Fresh] = NewRow(g, ours, status)]

----------------------------------------------------------------------------
\* The world: lobbies are removed when the game starts, or when it does not; the match ends.

Remove(g) ==
  /\ lobby[g] = "open" /\ lobby' = [lobby EXCEPT ![g] = "removed"]
  /\ UNCHANGED <<over, api, row, actors, tasks, job, clock, history, faults>>

Publish(g) ==
  /\ \/ lobby[g] = "removed" /\ api[g] = "no" /\ api' = [api EXCEPT ![g] = "started"]
     \/ api[g] = "started" /\ \E end \in {"short", "long"} : api' = [api EXCEPT ![g] = end]
  /\ UNCHANGED <<over, lobby, row, actors, tasks, job, clock, history, faults>>

\* LobbyWatcher.stop: its task and its verifiers are cancelled.  The statement it awaits may be done,
\* and then nobody arms the job.
Stop(r, unheard) ==
  /\ watcher' = Off
  /\ \/ row' = r /\ missed' = missed \cup unheard
     \/ /\ watcher.at = "write" /\ Target(watcher.found) \in Rows
        /\ row' = Written(r, watcher.found, watcher.game, TRUE, watcher.status)
        /\ missed' = missed \cup unheard \cup {Target(watcher.found)}

\* HARD_TTL, seen between two frames.
WatcherExpires ==
  /\ watcher.on /\ watcher.at = "idle" /\ watcher' = Off
  /\ checks' = {c \in checks : c.by # "watcher"}
  /\ UNCHANGED <<world, row, command, commands, resolve, job, clock, history, faults>>

MatchOver ==
  /\ ~over /\ over' = TRUE
  /\ Stop(row, {}) /\ checks' = {c \in checks : c.by # "watcher"}
  /\ UNCHANGED <<lobby, api, command, commands, resolve, job, clock, posts, slipped, armed, faults>>

----------------------------------------------------------------------------
\* The watcher.

\* _persist: which row is it,
Found(g) == IF Selected(g) = {} THEN {0} ELSE Selected(g)
Persist(g, linked, status) ==
  \E i \in Found(g) :
    watcher' = [on |-> TRUE, linked |-> linked, at |-> "write", game |-> g, status |-> status, found |-> i]

\* of a full lobby, which is linked, or of one that was linked and is removed: it may have been launched,
\* or be replaced by another;
Confirm(g) ==
  /\ watcher.on /\ watcher.at = "idle" /\ watcher.linked = NoGame /\ lobby[g] = "open"
  /\ Persist(g, g, "filling")
  /\ UNCHANGED <<world, row, command, commands, tasks, job, clock, history, faults>>

SeeRemoved ==
  /\ watcher.on /\ watcher.at = "idle" /\ watcher.linked # NoGame /\ lobby[watcher.linked] = "removed"
  /\ Persist(watcher.linked, NoGame, "verifying")
  /\ UNCHANGED <<world, row, command, commands, tasks, job, clock, history, faults>>

\* then the row; a removed lobby is verified.
Verify(i, by) == checks' = checks \cup {[by |-> by, row |-> i]}
Persisted == [watcher EXCEPT !.at = "idle", !.game = NoGame, !.status = "none", !.found = 0]
PersistWrite ==
  /\ watcher.at = "write" /\ Target(watcher.found) \in Rows
  /\ row' = Written(row, watcher.found, watcher.game, TRUE, watcher.status)
  /\ Arm /\ watcher' = Persisted
  /\ IF watcher.status = "verifying" THEN Verify(Target(watcher.found), "watcher") ELSE checks' = checks
  /\ UNCHANGED <<world, command, commands, resolve, job, reapDue, pollDue, posts, slipped, missed, faults>>

PersistFails ==
  /\ watcher.at = "write"
  /\ Fault \/ (Target(watcher.found) \notin Rows /\ faults' = faults)
  /\ watcher' = Persisted
  /\ UNCHANGED <<world, row, command, commands, tasks, job, clock, history>>

----------------------------------------------------------------------------
\* /lobby2: a player of the match links the game, unless it has a live row, then anybody's announcer
\* follows the lobby; it gives up a lobby that it does not see.
Command(g) ==
  /\ command.at = "idle" /\ commands < MaxCommands /\ commands' = commands + 1
  /\ \/ \E i \in Found(g) :
          /\ ~over /\ (i # 0 => row[i].status \in Terminal)
          /\ command' = [at |-> "link_write", game |-> g, found |-> i]
     \/ lobby[g] = "open" /\ command' = [at |-> "seen", game |-> g, found |-> 0]
  /\ UNCHANGED <<world, row, watcher, tasks, job, clock, history, faults>>

Follow == \/ lobby[command.game] = "open" /\ command' = [command EXCEPT !.at = "seen", !.found = 0]
          \/ command' = NoCommand

\* A terminal row is revived, whatever it was.
LinkWrite ==
  /\ command.at = "link_write" /\ Target(command.found) \in Rows
  /\ LET i == Target(command.found) IN
       /\ row' = [row EXCEPT ![i] = NewRow(command.game, TRUE, "filling")]
       /\ posts' = [posts EXCEPT ![i] = IF resolve[i] \in Unrecorded THEN 1 ELSE 0]
       /\ slipped' = slipped \ {i} /\ missed' = missed \ {i}
  /\ Arm /\ Follow
  /\ UNCHANGED <<world, watcher, commands, tasks, job, reapDue, pollDue, faults>>

LinkFails ==
  /\ command.at = "link_write" /\ Follow
  /\ Fault \/ (Target(command.found) \notin Rows /\ faults' = faults)
  /\ UNCHANGED <<world, row, watcher, commands, tasks, job, clock, history>>

\* LobbyAnnouncer._run, until it sees the lobby removed and selects its row, or its time is over.
Announce ==
  /\ command.at = "seen"
  /\ \/ lobby[command.game] = "removed" /\ \E i \in Found(command.game) :
           command' = [command EXCEPT !.at = "write", !.found = i]
     \/ command' = NoCommand
  /\ UNCHANGED <<world, row, watcher, commands, tasks, job, clock, history, faults>>

AnnounceWrite ==
  /\ command.at = "write" /\ Target(command.found) \in Rows
  /\ row' = Written(row, command.found, command.game, FALSE, "verifying")
  /\ Arm /\ Verify(Target(command.found), "job") /\ command' = NoCommand
  /\ UNCHANGED <<world, watcher, commands, resolve, job, reapDue, pollDue, posts, slipped, missed, faults>>

AnnounceFails ==
  /\ command.at = "write" /\ command' = NoCommand
  /\ Fault \/ (Target(command.found) \notin Rows /\ faults' = faults)
  /\ UNCHANGED <<world, row, watcher, commands, tasks, job, clock, history>>

----------------------------------------------------------------------------
\* Did the game start?

Confirmable(i) == ~row[i].launched /\ row[i].status \notin Terminal

\* verify_row and mark_confirmed: if the API knows the game, now or (wait_for_start) before the time
\* is over.  A watcher that is told so stops, whoever confirmed it.
Check(c) ==
  LET i == c.row
      marked == IF Confirmable(i)
                THEN [row EXCEPT ![i].launched = TRUE,
                                 ![i].status = IF @ \in Before THEN "in_progress" ELSE @]
                ELSE row
      unarmed == IF Confirmable(i) /\ row[i].age # "young" THEN {i} ELSE {}
      told == c.by = "watcher" /\ marked[i].launched
  IN /\ \/ checks' = checks \ {c} /\ UNCHANGED <<row, watcher, missed>>
        \/ /\ api[row[i].game] # "no" /\ told
           /\ Stop(marked, unarmed) /\ checks' = {d \in checks : d.by # "watcher"}
        \/ /\ api[row[i].game] # "no" /\ ~told
           /\ row' = marked /\ missed' = missed \cup unarmed /\ watcher' = watcher /\ checks' = checks \ {c}
     /\ UNCHANGED <<world, command, commands, resolve, job, clock, posts, slipped, armed, faults>>

----------------------------------------------------------------------------
\* What became of the game?  resolve_row, with the row as the job selected it.

Go(i, at) == resolve' = [resolve EXCEPT ![i] = at]
Return(i) == Go(i, "none")
OnlyResolve == UNCHANGED <<world, actors, checks, job, clock, armed, missed>>

\* A bug: a row that is never resolved is looked at for ever.
NeverGivesUp(i) ==
  IF ~row[i].ours THEN IF row[i].posted THEN "complete" ELSE "fetch_card"
  ELSE IF over THEN "complete"
  ELSE IF row[i].posted THEN "none" ELSE "fetch"

\* What the row that was selected and the match ask for, in this order.
Decide(i) ==
  IF row[i].age = "ancient" THEN "expire"
  ELSE IF ~row[i].ours THEN IF row[i].posted THEN "complete" ELSE "fetch_card"
  ELSE IF over THEN "complete"
  ELSE IF row[i].posted THEN "none" ELSE "fetch"

\* The API answers, or does not, and the row waits for another poll; a short game is completed in silence.
Fetch(i) ==
  LET game == api[row[i].game]
  IN /\ \/ /\ resolve[i] = "fetch"
           /\ \/ game = "long" /\ Go(i, "send")
              \/ game = "short" /\ Go(i, "complete")
              \/ Return(i)
        \/ /\ resolve[i] = "fetch_card"
           /\ \/ game \in {"short", "long"} /\ Go(i, "send_card")
              \/ Return(i)
     /\ OnlyResolve /\ UNCHANGED <<row, posts, slipped, faults>>

\* _set_status, whose error is only logged.
Close(i) ==
  /\ resolve[i] \in {"complete", "expire"}
  /\ \/ /\ faults' = faults
        /\ row' = [row EXCEPT ![i].status = IF resolve[i] = "complete" THEN "completed" ELSE "expired"]
     \/ Fault /\ row' = row
  /\ Return(i) /\ OnlyResolve /\ UNCHANGED <<posts, slipped>>

\* _post_result_and_gate, or the card of a game without a match.
Send(i) ==
  /\ resolve[i] \in {"send", "send_card"}
  /\ \/ /\ posts' = [posts EXCEPT ![i] = @ + 1] /\ faults' = faults
        /\ Go(i, IF resolve[i] = "send" THEN "record" ELSE "record_card")
     \/ Fault /\ posts' = posts /\ Return(i)
  /\ OnlyResolve /\ UNCHANGED <<row, slipped>>

Recorded(i, status) == row' = [row EXCEPT ![i].status = status, ![i].posted = TRUE]
Record(i) ==
  /\ \/ /\ resolve[i] = "record"
        /\ \/ Recorded(i, "awaiting_confirm") /\ Return(i) /\ faults' = faults
           \/ Fault /\ Go(i, "delete") /\ (row' = row \/ Recorded(i, "awaiting_confirm"))
        /\ slipped' = slipped
     \/ /\ resolve[i] = "record_card" /\ Return(i)
        /\ \/ Recorded(i, "completed") /\ UNCHANGED <<slipped, faults>>
           \/ Fault /\ row' = row /\ slipped' = slipped \cup {i}
  /\ OnlyResolve /\ posts' = posts

\* A message that seems not to be recorded is taken back.
Delete(i) ==
  /\ resolve[i] = "delete" /\ Return(i)
  /\ \/ posts' = [posts EXCEPT ![i] = @ - 1] /\ UNCHANGED <<slipped, faults>>
     \/ Fault /\ slipped' = slipped \cup {i} /\ posts' = posts
  /\ OnlyResolve /\ row' = row

Resolve(i) == Fetch(i) \/ Close(i) \/ Send(i) \/ Record(i) \/ Delete(i)

----------------------------------------------------------------------------
\* The job.

OnlyJob == UNCHANGED <<world, actors, posts, slipped>>

Start ==
  /\ job.at = "idle" /\ ~asleep
  /\ job' = [at |-> "launches", live |-> FALSE, was |-> active]
  /\ OnlyJob /\ UNCHANGED <<row, tasks, clock, armed, missed, faults>>

\* A bug: a pass that did not look for results forgets that there are any to wait for.
LiveOnly(live, found, was) == live \/ found = "some"

\* What keeps the job awake: a launch or a result to wait for; what the last pass knew of results,
\* if this one did not look.
StaysAwake(live, found, was) == live \/ (IF found = "unknown" THEN was ELSE found = "some")

\* The end of a pass: next_run is set, whoever armed the job meanwhile.
Finish(live, found) ==
  LET awake == StaysAwake(live, found, job.was)
  IN /\ job' = IdleJob /\ active' = awake /\ asleep' = ~awake /\ armed' = FALSE
     /\ missed' = IF armed /\ ~awake THEN missed \cup {i \in Rows : Unproven(i) \/ Playing(i)} ELSE missed

\* The rest of the pass, after the query at hand.
Continue(live, reaped) ==
  IF reapDue /\ ~reaped
  THEN job' = [job EXCEPT !.at = "reap", !.live = live] /\ UNCHANGED <<active, asleep, pollDue, armed, missed>>
  ELSE IF pollDue
  THEN job' = [job EXCEPT !.at = "completions", !.live = live] /\ UNCHANGED <<active, asleep, pollDue, armed, missed>>
  ELSE Finish(live, "unknown") /\ pollDue' = TRUE

PollLaunches ==
  /\ job.at = "launches"
  /\ LET found == {i \in Rows : Unproven(i)} IN
       \/ /\ checks' = checks \cup {[by |-> "job", row |-> i] :
                          i \in {k \in found : \A c \in checks : ~(c.by = "job" /\ c.row = k)}}
          /\ Continue(found # {}, FALSE) /\ faults' = faults
       \/ Fault /\ Continue(TRUE, FALSE) /\ checks' = checks
  /\ OnlyJob /\ UNCHANGED <<row, resolve, reapDue>>

ReapStale ==
  /\ job.at = "reap" /\ reapDue' = FALSE /\ Continue(job.live, TRUE)
  /\ \/ /\ faults' = faults
        /\ row' = [i \in Rows |-> IF ~row[i].launched /\ row[i].status \in Before \cup {"in_progress"}
                                     /\ row[i].age # "young"
                                  THEN [row[i] EXCEPT !.status = "expired"] ELSE row[i]]
     \/ Fault /\ row' = row
  /\ OnlyJob /\ UNCHANGED tasks

\* A bug: a row may be resolved by two tasks.
Anyone(found) == found

\* Rows that are not being resolved.
Idle(found) == {i \in found : resolve[i] = "none"}

\* Of these the ones that are due are; last_edit_at is left out, but an old row is due.
PollCompletions ==
  /\ job.at = "completions" /\ pollDue' = FALSE
  /\ LET found == {i \in Rows : Playing(i)} IN
       \/ /\ \E due \in SUBSET Idle(found) :
               /\ {i \in Idle(found) : row[i].age = "ancient"} \subseteq due
               /\ resolve' = [i \in Rows |-> IF i \in due THEN Decide(i) ELSE resolve[i]]
          /\ Finish(job.live, IF found = {} THEN "none" ELSE "some") /\ faults' = faults
       \/ Fault /\ Finish(job.live, "some") /\ resolve' = resolve
  /\ OnlyJob /\ UNCHANGED <<row, checks, reapDue>>

Job == Start \/ PollLaunches \/ ReapStale \/ PollCompletions

\* Whatever is in memory is gone; the match, restored, has no watcher.
Restart ==
  /\ Fault
  /\ watcher' = Off /\ command' = NoCommand /\ checks' = {} /\ resolve' = [i \in Rows |-> "none"]
  /\ slipped' = slipped \cup {i \in Rows : resolve[i] \in Unrecorded}
  /\ job' = IdleJob /\ active' = TRUE /\ asleep' = FALSE /\ reapDue' = TRUE /\ pollDue' = TRUE
  /\ armed' = FALSE /\ missed' = missed
  /\ UNCHANGED <<world, row, commands, posts>>

----------------------------------------------------------------------------
\* Time.

Writing == watcher.at = "write" \/ command.at \in {"link_write", "write"}

Age(i) ==
  /\ row[i].status \notin Terminal \cup {"none"} /\ row[i].age # "ancient"
  /\ row' = [row EXCEPT ![i].age = IF @ = "young" THEN "old" ELSE "ancient"]
  /\ UNCHANGED <<world, actors, tasks, job, clock, history, faults>>

\* RECOVERY_INTERVAL and REAP_INTERVAL go by while nothing is on its way.
Day ==
  /\ job.at = "idle" /\ checks = {} /\ ~Writing /\ \A i \in Rows : resolve[i] = "none"
  /\ row' = [i \in Rows |-> IF row[i].status = "none" THEN row[i] ELSE [row[i] EXCEPT !.age = "ancient"]]
  /\ asleep' = FALSE /\ reapDue' = TRUE /\ pollDue' = TRUE
  /\ UNCHANGED <<world, actors, tasks, job, active, history, faults>>

Next ==
  \/ \E g \in Games : Remove(g) \/ Publish(g) \/ Confirm(g) \/ Command(g)
  \/ MatchOver \/ WatcherExpires \/ SeeRemoved \/ PersistWrite \/ PersistFails
  \/ LinkWrite \/ LinkFails \/ Announce \/ AnnounceWrite \/ AnnounceFails
  \/ \E c \in checks : Check(c)
  \/ Job \/ Restart \/ Day
  \/ \E i \in Rows : Resolve(i) \/ Age(i)

Spec == Init /\ [][Next]_vars

FairSpec ==
  /\ Spec /\ WF_vars(Job) /\ WF_vars(Day)
  /\ WF_vars(PersistWrite \/ PersistFails)
  /\ WF_vars(LinkWrite \/ LinkFails \/ AnnounceWrite \/ AnnounceFails)
  /\ WF_vars(\E c \in checks : Check(c))
  /\ \A i \in Rows : WF_vars(Resolve(i)) /\ WF_vars(Age(i))

----------------------------------------------------------------------------
\* "Never let a late lobby frame downgrade an API-confirmed in_progress row" (watcher._persist), and no
\* row that has ended is launched (launch.mark_confirmed), whoever writes from what it read before; but
\* /lobby2 links a row anew, and a late _persist may bring back an expired row that never launched.
LaunchStands ==
  [][LinkWrite \/ \A i \in Rows :
       /\ row[i].launched => row'[i].launched /\ row'[i].status \notin Before
       /\ row[i].status \in Terminal => row'[i].launched = row[i].launched]_vars

\* A result is posted once for a row that is linked once, however polls, restarts and failures fall,
\* unless the message was sent and neither recorded nor taken back.
PostedOnce == \A i \in Rows \ slipped : posts[i] <= 1

\* The job does not sleep for a day beside a row whose launch or result it has to poll for, unless
\* nobody armed it, or it was armed during the pass that put it to sleep.
AwakeWhileLive == asleep /\ job.at = "idle" => \A i \in Rows \ missed : ~Unproven(i) /\ ~Playing(i)

\* /lobby2 revived the row between the message of its result and the record of it: neither the reaper
\* nor a poll looks for such a row.
Stranded(i) == row[i].status = "awaiting_confirm" /\ ~row[i].launched

\* Every row is completed or given up in the end, whatever was missed and whatever failed.
Ends == \A i \in Rows :
  row[i].status \in Before \cup Launched ~> (row[i].status \in Terminal \/ Stranded(i))
=============================================================================
