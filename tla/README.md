# NammaPUBobot in TLA+

NammaPUBobot is a Discord bot for Age of Empires II pickup games. It is one
asyncio process over one MySQL database: players join queues, a full queue
becomes a match, the match is drafted, played and reported. Around it run an
audience betting book paid in "gold", a daily quiz, a watcher of game lobbies,
an importer of replays and the boards computed from them.
This directory holds specifications of the parts of the bot where the order of
steps decides whether people are paid, matched and rated correctly, and whether
what the bot stores and shows is right in the end.

The models follow the Python code at the lines `PROJECT.json` names under
`map`. The documents are quoted where a property states what they promise. Paths
below are relative to `nammaoe2bot/`, except `docs/`.

Contents: [how to run](#how-to-run) · [inventory](#inventory) ·
[modules](#modules) · [runs](#runs) · [fairness](#fairness) ·
[proofs](#proofs) · [disagreements found](#disagreements-found) ·
[abstractions](#abstractions-and-what-is-not-modelled) · [plan](#plan)

## How to run

```
tlc -workers 2 -config Betting.cfg Betting     # a run: see the table below
tlapm QuizProofs.tla                           # the proofs of one component
```

## The model of time: what one action is

The bot has no threads that matter here. A coroutine runs undisturbed from one
`await` to the next, and every `await` on the database may let any other
coroutine run. So an action is *what one task does between two awaits*: one
database transaction (or one autocommitted statement) with the assignments
around it. Code that awaits nothing between a check and an assignment is one
action however many lines it has; code that awaits in between is two, and the
value it checked may be stale at the second. The effect of an awaited statement
and what the coroutine does from there to its next await are one step. Database
rows survive a crash; tasks, the `Match` objects since the last snapshot and the
in-memory flags do not.

Most work is done by *jobs*: an object whose `_think` is called every second by
`on_think` and starts a pass, `_run`, when none runs and the time for one has come.
They look alike in the models: a variable `job` with `at`, the await it stands at,
and what it has read; `Job`, the disjunction of its steps; and failures of an await,
which end the pass or a part of it as the code's `except` clauses say.

## Inventory

| component | state it keeps | operations | talks to | status |
| --- | --- | --- | --- | --- |
| **audience book** `features/betting/flow.py`, `store.py` | `prediction_posts` (status, `terminal_intent`), `prediction_bets`; `PredictionJobs._active` in memory | open, freeze, settle, void, restart on a roster change; the 15 s sweep that freezes launched books, resumes unsettled ones and refunds abandoned ones | hears the match's events `live`, `finished`, `cancelled`, `roster_changed` (`wiring.py`); reads `matches` and `lobbies`; moves gold through the bank | modelled |
| **betting rules** `features/betting/scoring.py` | none | pari-mutuel payouts, stake options, reward and tax amounts | called by book, bank, buttons | modelled |
| **gold bank** `features/betting/gold.py`, `tax.py`, `tax_policy.py` | `gold_ledger`, `gold_balances`, `gold_tax_runs` | seed, place and cancel a bet, refund and pay a post, match and quiz faucets, weekly tax, reconcile | called by book, buttons, quiz, report | modelled |
| **bet buttons** `features/betting/interactions.py` | none that lasts: the message and its buttons | choose a stake, press, cancel | reads the roster, calls the bank | modelled |
| **match lifecycle** `pickup/match/*` | `Match` (state, teams, flags), `active_matches` | create, check-in, draft, substitution, report, vote, cancel | emits the events; calls the report transaction | partly |
| **pickup queue and channel** `pickup/queue.py`, `channel.py`, `expire.py` | queue members, allow-offline, expiry timers | add, remove, start, revert, promote | creates matches, gives back players | partly |
| **report transaction and rating** `pickup/stats.py`, `rating.py`, `decay.py` | `matches`, `players`, rating history | record a result, undo it, decay | called by the match, read by every page | partly |
| **snapshot and restore** `state.py`, `app.py` | one row of `bot_state`, a file written at shutdown, `match_counter` | save every 30 s, load at the start, retry | rebuilds queues and matches after a restart | modelled |
| **lobby watcher** `features/lobby/launch.py`, `watcher.py`, `jobs.py`, `completed.py`, `announce.py` | `lobbies`; the watcher of a match, the job's flags and timers, tasks on their way | follow a lobby by socket, link one by `/lobby2`, confirm its launch, poll for the result, post it, give up | the launch freezes the book | partly |
| **lobby views** `features/lobby/*` | none | parse frames and answers, draw | the watcher | no |
| **quiz** `features/quiz/*` | `quiz_settings`, `quiz_posts`, `quiz_answers` | post, vote, reveal, pay, close, leaderboard | pays through the bank | modelled |
| **replay ingest and its tables** `ingest/*`, `derived/backfill.py`, `game_stats.py`, `game_labels.py` | `replay_ingest`, `replay_players`, `cls_results`, `cls_match_ingest`, `game_stats`, `game_labels` | find, fetch, parse, store, classify; retry, shelve, give up; reconcile | aoe.ms; feeds the rollups | partly |
| **rollups and boards** `derived/refresh.py`, `rollups.py`, `boards.py`, `civ_stats.py` | `player_rollups`, `metric_boards`, `civ_stats` | list what is older than its inputs, rebuild it | reads `game_stats`, `identities`, `civ_picks` | partly |
| **sweeper** `derived/sweeper.py` | none | a daily query that deletes nothing while `DRY_RUN` stands | replay rows | no |
| **civilisation picks** `features/civs/*` | pick sessions, `civ_picks` | offer, pick, reveal, reconcile | follows a match | no |
| **identity, Elo sync, scouting, post-game** | `identities`, imported profiles | import, match, score | outside services | no |
| **replay cards, personas, tags** `ingest/*` | drawn from stored rows | score, draw | the tables above | no |
| **storylines** `features/storylines/*` | none | compute | recorded matches | no |
| **web pages**, **Discord commands, events and cards** | none | render, parse | all of the above | no |
| **runtime** `runtime/*` | pool, migrations, config | connect, migrate | all of the above | no |
| **Cloudflare worker** `cloudflare/` | its own D1 and Durable Objects | a second implementation of pickup play in TypeScript | shares no process and no database with the bot | no |

### What is hard in each, and what makes it correct

*Audience book.* Five parties settle one book: the reporter, a canceller, a
roster change, the sweep's freeze and the sweep's two recovery loops. Each
reads, claims, reads the bets, credits people one at a time and finally writes
the status, with awaits between all of these, and any of them can die in the
middle. The book is right if it is paid on one branch only, if whoever is paid
gets what the stakes on record say, if a terminal status implies that all of the
money has moved, and if a frozen book of a match that is over always ends.

*Gold bank.* Every movement is a ledger row and a cached balance in one
transaction. Discord repeats deliveries, a chooser on the screen is older than
the balance, settlement is retried, faucets are retried after the balance has
moved, the tax may run late and again. It is right if the cache always equals
the ledger, a stake is always backed by rows that took it, a book never gives
back more than it took, the faucets never lift a wallet over 500, the tax never
takes it below 500 and never taxes a week twice or a player who had a stake.

*Bet buttons.* The own-team check reads the roster awaits before the bet is
inserted; the roster can change in between. It is right if no player ends up
with a stake against himself on a live book, and if the report's list of players
who backed themselves is true.

*Match lifecycle and queue.* The timer, the last reaction and a
replacement can each finish a check-in, with awaits in the middle, while another
coroutine aborts, cancels or substitutes; a queue pops its members before the match
exists; a revert writes the queue back after it has awaited a start. They are right if
a player is never in two places, a match goes live once, ends one way, and does not
stay in its check-in.

*Snapshot, report and undo.* The state in memory is copied every 30 seconds and
inserted across an await; the process may die anywhere, before or after the
statement reached the database; a start loads the row or the file while people
already press buttons; a report is one transaction whose acknowledgement may be
lost; an undo is several statements. They are right if a result counts once in the
ratings, a match once saved is never lost, no id is given out twice, and what is in
play is saved in the end.

*Quiz.* A reveal takes a snapshot, writes a grade at a time, pays a player at a time
and closes, while votes arrive that were checked before; it is retried after any
failure. It is right if no vote is left ungraded or changed after its grade, if money
moves before the post closes, once, and if every post that is due closes.

*Replay ingest.* Replies of an outside archive that forgets, three retry counters,
a parser that changes under old rows, rows deleted and rewritten without a
transaction, and beside it a reconciler that reads the same rows halfway. It is right
if nothing stored is lost (the archive will not give it again), every replay settles
and every derived row becomes what its source says.

*Rollups and boards.* There is no list of work: a row is rebuilt when its clock is
not newer than the clocks of its inputs, and profiles change hands meanwhile. It is
right if no stale row looks fresh, and if all become right in the end.

*Lobby watcher.* A socket, a command, launch checks, a polling job and the tasks it
starts all write one row, from what they read of it awaits before. It is right if a
confirmed launch is never taken back, a result is posted once, the job is awake while
there is something to poll, and no row stays for ever.

## Modules

```
Scoring ──┬── Pot     ── WalletProofs    odds of one open book
          ├── BookPromise                abstract: what a book promises its bettors
          ├── Betting ── BettingProofs   the tasks that keep (and must keep) the promise
          └── Wallet  ── WalletProofs    the bank under presses, retries and the tax
Roster ───┬── MCRoster                   symmetry for TLC
          └── RosterProofs               the own-team rule under roster changes
Pickup ───┬── MCPickup                   symmetry for TLC
          └── PickupProofs               one launch, one editor, one end, one seat
Snapshot ──── SnapshotProofs             what survives a restart, and counts once
Quiz ──────── QuizProofs                 votes, grades, pay and boards
Lobby ─────── LobbyProofs                one table, five writers
Ingest ────── DerivedProofs              replays in, facts out
Refresh ──┬── MCRefresh                  which profile is whose, for TLC
          └── DerivedProofs              no stale rollup, and no stale board, hides
```

The components meet at events and at tables. Where one module needs another's
behaviour it takes the weakest version of it: Betting lets a match go live, end, be
undone or be forgotten in a crash in any order that Pickup and Snapshot allow; Wallet
credits a closed book at any time and again, as Betting's retries do, and the quiz
reward likewise; Refresh lets a game, a link or a pick be stored at any moment, as
Ingest's steps may.

**Scoring** — `scoring.py` and `tax_policy.py` as operators. A book is a
function from users to `[side, stake]`, stake 0 meaning that there is no row.
`Share` is `payouts`' floor; `Burned` the crumbs it leaves; `StakeOptions` the
three buttons; `RewardAmount`, `QuizRewardAmount`, `TaxAmount` the amounts.
`payouts`, in the code, returns an empty map for a one-sided pot: `Winners` is
then empty.

**Pot** — one open book as presses arrive, to say what the split promises while
people still bet: no gold minted and crumbs only, no winner loses, order kept, odds
move the right way.

**BookPromise** — the abstract specification of a book. It has no tasks, no
sweep, no match: `Open`, `Stake`, `Withdraw`, `Close`, `Decide` (once), `Overrule`
(only after `Revoke`, a result undone), `Pay` (only what the verdict owes). `Betting` implements it under the mapping at the
end of that module. The verdict is read off `terminal_intent` and not off
`status`: it is the claim that decides a book, and the status follows when the
money has moved.

**Betting** — posts, bets, the ledger rows of refunds and payouts, the tasks.

| in the module | in the code |
| --- | --- |
| `post[p]` | a `prediction_posts` row: match, `status`, `terminal_intent` |
| `bet[p][u]` | a `prediction_bets` row |
| `ledger` | `gold_ledger` rows with the keys `refund:{post}:{user}`, `payout:{post}:{user}` |
| `launched`, `recorded`, `result` | `lobbies.launched_at`, the `matches` row, the winner last written in it |
| `undone` | history: matches whose row `/undo_match` has deleted, which may then be restored and reported again |
| `decided`, `overruled` | history: the winner a book was last settled for, and the books that were settled for another before |
| `unrefunded` | history: books that were closed without their refunds, for want of a community |
| `phase`, `opening` | whether the `Match` is live; its `live` handlers that have not inserted a post |
| `task[a]` | the coroutine of match `a` (`resolve_for_match`, `void_for_match`, `restart_for_match`) or of the sweep: program counter, post, intent, bets read, payees left |
| `sweep` | `PredictionJobs._run`'s current loop with the rows its query returned; `_active`, which says when it runs again, is left out |
| `Claim` | `store.claim_terminal`, the compare-and-set on `terminal_intent` |
| `ReadBets`, `Credit`, `Finish` | `bets_for`, one `gold._credit` per payee, `resolve`/`void`/`no_action` |
| `NoCommunity` | `_community_for_post` finds none: a payout is put off and the book stays frozen; a refund is skipped and the status written all the same (`test_predictions_flow.py:383`, `:472`) |
| `CloseBetting`, `ReadPools`, `Freeze` | the three awaited steps of `flow._freeze` |
| `SweepStart` … `SweepEnd` | the queries of `_run` in their order, each holding rows that may be stale when used |
| `Fail`, `SweepFail`, `Crash` | an exception in a task, in a query of the sweep, a killed process |

A match has one settlement task at a time because the match's own flags exclude
a report, a cancellation and a roster change from each other; the sweep runs
beside all of them. `Crash` brings each match back as the snapshot may have it:
as it was, as it was before its last change, or not at all. Only a row in `matches`
keeps a match from being restored (`state.py:168`), so one whose result was undone
may come back live and be reported with the other winner. `resolve_for_match` finds
the book that its first report left frozen, and the claim lets it go on, as the branch
on the row is the same: the row has no winner on it.

**Wallet** — the bank of one community. `ledger` holds rows with an idempotency
key; cancellations have none and are summed in `cancelled`. A message drawn for
one balance keeps its buttons (`offered`), a press is sent once and may be
delivered any number of times (`sent`, `Deliver`). Time is counted in tax weeks;
`RunTax` is `_apply_weekly_tax`, one transaction for all wallets, gated by
`Due`. `SettleUser` is one user's credit of `refund_post`/`pay_post`, at any
time after the close and any number of times.

**Roster** — one match, its teams, its posts, presses that have passed the check
and have not landed (`checked`), and the three tasks that may close one of its books.

| in the module | in the code |
| --- | --- |
| `team`, `phase` | `Match.teams`; whether it is in `active_matches`, and how it left it |
| `post`, `intent`, `bet` | `status` and `terminal_intent` of its `prediction_posts`, its `prediction_bets` |
| `Check`, `PlaceBet`, `CancelBet` | the handler up to its await, `gold.place_bet`, `gold.cancel_bet` |
| `SubFor`, `SubAuto`, `Put` | the two commands that emit `roster_changed`, and the one that tells nobody |
| `task["restart"]`: `RestartFind`, `Claim`, `Finish`, `RestartOpen` | `restart_for_match`: the newest book, `claim_terminal`, the void once the refunds are through, the fresh book |
| `task["settle"]`: `End`, `SettleFind`, `Claim`, `Finish` | `finish_match` or `cancel`, then `resolve_for_match` or `void_for_match` |
| `task["sweep"]`: `SweepClose`, `SweepLock`, `SweepResume`, `Claim`, `Finish` | `_freeze` of a launched book, `store.freeze`; the recovery of frozen ones |
| `Fails` | an error in one of these tasks, which is logged |

A task claims its book, awaits the credits and then writes the status, and the other two run in
between. A restart that finds the book claimed as one-sided returns without voiding it, and opens
the next book while the first is still frozen. This is why uniqueness is stated of the books *in
play* (`OneBookInPlay`): not of those that are open or frozen, of which there may be two, but of those
that have no refund staked on them. `carried` is a history variable: the people whose side a /put or
a failed restart changed under a book that went on. The safety properties hold for everybody else;
that the exception is needed is told under [disagreements](#disagreements-found).

**Pickup** — one queue and its matches from joining to the end of the match. The
queue holds a sequence of people, a match its roster, its ready players and its
flags; `tasks` holds the coroutines that wait at an `await`, as records that say
where they wait (`at`), for which match (`m`) and with whom (`who`).

| in the module | in the code |
| --- | --- |
| `queue` | `PickupQueue.queue` |
| `match[m].active`, `.state`, `.players` | membership in `app.active_matches`, `Match.state`, `Match.players` |
| `.ready`, `.waiting` | `check_in.ready_players`, the card's entry in `app.waiting_reactions` |
| `.flag` | one of `_editing_roster`, `_cancelling`, `_reporting`, `_finishing` is up |
| `.launches`, `.ends` | history: times it became live, ways it left `active_matches` |
| `Start`, `Publish` | `PickupQueue.start` up to `Match.new`'s awaits (`create`, or `restart` from a revert), and its end |
| `TickCheckIn`, `CheckIn` | `next_state` into the check-in, `CheckIn.start` after the card and its reactions are posted |
| `Refresh`, `Finish` | `refresh` with `finish` up to the deletion of the card, and `next_state` after it |
| `BackOut`, `SubAutoCheckIn`, `Replaced` | the "not ready" reaction, `/subauto` in the check-in, `replace_player` after its ratings are read |
| `RevertSingle`; `TickAbort`, `Abort`, `AbortReverts` | `revert_single`; `abort_timeout` at its two awaits |
| `TickFinish`, `TickDrop` | the timer without discard, `on_think` dropping a match after five errors |
| `SubFor`, `SubAuto`, `Substituted` | `Draft.sub_for` (`/subfor`, `/subforce`), `Draft.sub_auto` |
| `Cancel`, `Report`, … | `Match.cancel`, `Match.finish_match`, each at its await |
| `Fail` | an exception at any of these awaits |

`exposed` is a history variable: people who met one of four gaps the code has.
They joined while a coroutine held them (popped for a match not yet published, or
ready in a match that a timeout has just removed); a moderator's `/add_player`,
which skips the check, queued them while they played; the queue started with them,
or a revert set them aside, while they were being substituted into another match, or
that substitution failed and left them in the queue; or they were substituted out
when ready, and stay in `ready_players`. `SeatedOnce` holds for everybody else. The
run fails without any of these cases, but for the revert's: that one takes a queue of
three, and was found by the proof.

**Snapshot** — everything that decides what a restart keeps, for one queue.

| in the module | in the code |
| --- | --- |
| `queue`, `roster`, `live`, `starting`, `finishing` | the queue, `active_matches` with their players, those waiting for a report, `PickupQueue.start` from its pop on, matches with a committed result that have yet to leave |
| `row`, `file`, `counter`, `result`, `history` | `bot_state`, `saved_state.json`, `match_counter`, `matches` with `match_players`, `rating_history` |
| `Pop`, `NextMatch`, `New`, `StartFails` | `start` and `Match.new` at their awaits, `stats.next_match` |
| `Commit`, `Finish` | `_register_match` (its acknowledgement may be lost, and then the report comes again), and what follows it in `finish_match` |
| `UndoMatch`, `UndoHistory`, `UndoResult`, `UndoFails` | `undo_match`, between its statements |
| `Save`, `Inserted`; `lastDb`, `saver` | `save_state_if_changed` and the insert on its way, which a failure may follow or precede |
| `Crash`, `Shutdown` | a killed process; one that is told to stop and writes the file |
| `Load`, `LoadMatch`, `Loaded`, `LoadFails`; `loader`, `restored` | `load_state`: row before file, the counter's floor, each match compared with its result |
| `rated`, `saved`, `dropped` | history: how often a match counts, what a row has held, what was cancelled or undone |

**Quiz** — the quiz of some channels.

| in the module | in the code |
| --- | --- |
| `post`, `answer`, `paid` | `quiz_posts`, `quiz_answers`, ledger rows with the key `quiz:{post}:{user}` |
| `enabled`, `lastDay`, `lastWeek` | `quiz_settings` |
| `Press`, `Vote` | the router's look at the post, and `record_vote`'s transaction later |
| `Start`, `NextConfig` | `_think`, the loop over `enabled_configs`, `_maybe_post_daily`'s checks |
| `Clamp`, `Snapshot`, `WriteGrade`, `Pay`, `Paid`, `ClosePost` | `_reveal`: the deadline brought forward, the votes read, a grade per vote, a reward per player, the close only if none failed |
| `Board` | `_maybe_week_leaderboard`: noted, then sent |
| `Draw`, `CreatePost`, `Send`, `ClaimDay` | the question, its row, its card, the day's claim |
| `DueToClose`, `NextDue` | the retry of every post past its deadline |
| `Expire`, `NewDay`, `Switch` | a deadline comes, a day begins, the quiz is switched on or off |
| `Fail`, `Crash` | an exception at any await, a killed process |

**Lobby** — the rows of `lobbies` and the five writers of one. `watcher` is the match's
`LobbyWatcher` with `_persist` (select, then write: `Publish`, `Confirm`, `SeeRemoved`,
`PersistWrite`); `command` is `/lobby2`, `link_manual` and then its announcer; `checks`
are the `verify_row` tasks, each of which asks the match API and confirms
(`mark_confirmed`); `job` is `LobbyJobs._run` (`Start`, `PollLaunches`, `ReapStale`,
`PollCompletions`), which decides at its end whether to sleep; `resolve[i]` is the task
that posts a result (`Fetch`, `Close`, `Send`, `Record`, `Delete`). `lobby` and `api` are
what the socket and the match API say of a game. Ages of rows are classes: young within
`STALE_AFTER`, old, ancient beyond `GIVEUP_AFTER`; `Age` and `Day` are the clock. `missed`
and `slipped` are histories that say where a property has its exceptions.

**Ingest** — one row per replay through `ReplayStatsJobs._run` (`ingester`) and, beside it,
`DerivedBackfill._run` (`back`).

| in the module | in the code |
| --- | --- |
| `row` | `replay_ingest`: status, attempts, whether the retry is due, age, `parser_version` |
| `Find`; `New`, `DueRetries` | `unseen` matches first, then `due_retries` |
| `Fetch`, `Parse` | the answer of aoe.ms; supported, unsupported or unparsable |
| `Clear`, `WritePlayers` | `write_match`: delete, then insert |
| `ClearResults`, `WriteResults`, `Stamp` | `write_extracted_match`, the classification and its certificate `cls_match_ingest.result_rows` |
| `ClearStats`, `WriteStats`; `ClearLabels`, `WriteLabels` | `game_stats` and `game_labels` of the match |
| `MarkDone`, `Except`, `JobFails` | the row set to done; the `except` clause, which may fail as well |
| `StartStats` … `RewriteLabels`, `BackFails` | the reconciler: what differs, one match at a time, with `Trust` (an empty source is believed only with its certificate) |
| `Late`, `Age`, `IngestRestart` | a retry's time comes; a replay is a week old; a process of a newer version starts |

**Refresh** — players, the profiles they own, the games of a profile as a count of
versions, and what is computed from them.

| in the module | in the code |
| --- | --- |
| `games`, `picks`, `owner`, `bound`, `claims` | `game_stats` and their newest `computed_at`, `civ_picks`, `identities`, `identity_conflicts` |
| `rollup`, `board`, `civs` | `player_rollups`, `metric_boards`, `civ_stats`: what they count, and `computed_at` |
| `Changed`, `Pending`, `StaleBoard` | the two pending queries of `refresh.py` |
| `Start`, `List`, `ReadProfiles`, `ReadGames`, `WriteRollup` | a pass over players, await by await, stamped with the time it began |
| `ListCommunities`, `ReadSources`, `WriteBoard`, `WriteCivs` | a pass over boards |
| `Relink`, `Unlink` | the administrator's commands, a transaction each; unless it is additional, a relink releases every other profile of the player |
| `links`; `Look`, `Refuse`, `Note`, `Store` | calls of the resolver's `learn` and `link_self` between their awaits: the row is read, and then either the claim is refused or the owner that was read becomes a conflict and the row is updated, without a lock |
| `Missed`, `unseen` | history: whose share a `Store` changed without a sign, as the profile had another owner by then than the call had read |
| `Stamped`, `late` | an input is stored with a stamp of an earlier moment; history: which were |
| `Tick`, `Day` | a second passes; `MAX_AGE` does |

**The proof modules** are told under [Proofs](#proofs).

## Runs

| run | module, cfg | distinct states | properties | what it shows |
| --- | --- | --- | --- | --- |
| `betting` | Betting, Betting | 682,359 | `RefundXorPayout` `OnlyPromisedGold` `TerminalIsPaid` `KeepsPromise` `FrozenBookEnds` | under every interleaving of presses, report, cancel, roster change, undo, second report and sweep, with a crash, an error or a missing community anywhere, the money is right, the tasks implement BookPromise, and a frozen book of a match that is over becomes terminal unless its result was undone |
| `pot_odds` | Pot, Pot | 2,197 | `FairPot` `OddsMove` | no gold is minted, fewer coins are burned than there are winners, no winner loses, equal sides are shared in order; how a bet moves the odds |
| `wallet` | Wallet, Wallet | 1,080,857 | `CacheIsLedger` `StakesAreBacked` `BooksNeverMint` `FlowsStopAt500` `BettorsAreSpared` | stale and repeated presses, cancellations, retried credits, both faucets, two tax weeks, a late assessment |
| `roster` | MCRoster, Roster | 4,069,241 (up to symmetry) | `SubstitutesAreSafe` `NamedBackThemselves` `OneBookInPlay` | the own-team rule when the teams change under a book and under a press in flight, while restart, settlement and sweep close books await by await |
| `pickup` | MCPickup, Pickup | 1,369,699 (up to symmetry) | `SeatedOnce` | two matches, the queue between them, two coroutines at a time: whoever meets no gap has one place |
| `check_in` | Pickup, CheckIn | 137,596 | `LaunchedOnce` `EndsOnce` `CheckInEnds` | one match, three coroutines at a time, a failure at any await: one launch, one end, and an end to the check-in |
| `snapshot` | Snapshot, Snapshot | 531,576 | `RatedOnce` `SavedSurvives` `IdsAreNew` `MatchIsSaved` | two failures among crashes, shutdowns, lost acknowledgements and failed loads, around starts, reports and an undo |
| `quiz` | Quiz, Quiz | 523,198 | `GradedAsCast` `ClosedIsPaid` `ClosedIsFinal` `BoardOnce` `DueIsClosed` | a vote in flight across the reveal, a full wallet, a failure at any await: every vote of a closed post is graded as cast and paid before the close, and every due post closes |
| `ingest` | Ingest, Ingest | 168,546 | `DoneIsStored` `ClassifiedStays` `Settles` `DerivedConverges` | a replay through two versions of the parser, the job beside the reconciler, a failure at any await: what is done is stored, labels are not lost, everything settles and converges |
| `refresh` | MCRefresh, Refresh | 834,173 | `StaleIsPending` `BoardsTrail` `Converges` | profiles change hands and games arrive under a pass, stamped in any earlier second, with links in flight over each other and over relinks: no stale rollup or board hides, but for the named exceptions, and all converge |
| `lobby` | Lobby, Lobby | 290,573 | `PostedOnce` `AwakeWhileLive` `LaunchStands` `Ends` | five writers of one row and a failure: a launch stands, a result is posted once, the job is awake while there is something to poll, every row ends |
| `nobody_profits_by_losing` | Roster, NobodyProfitsByLosing | violation | `NobodyProfitsByLosing` | see [disagreements](#disagreements-found) |

For each property of a passing run, `PROJECT.json` names under `mutants` a
plausible bug (a dropped re-read, a missing part of a key, a strict comparison in place
of a weak one, a terminal write ahead of the work, …) under which TLC refutes it in the
same configuration. Some of these stand as definitions next to the one they would
replace, each with a comment that begins "A bug".

The type invariants and the inductive invariants are theorems below, and were
explored by TLC before they were proved.

### Bounds, and why they are enough

* **Betting**: two bettors (a two-sided book needs two, and one of them
  can win), stakes up to 2 (so that shares differ and floors are not all exact),
  one match with one post, one undo, and one fault: a crash, an error or a channel
  without a community. The claims of two tasks
  on one book need one post; interactions between books go only through the
  match, whose tasks exclude each other. A second post (a restart) is explored
  in Roster, and the proofs cover any number of posts, matches, users, faults.
  `FrozenBookEnds` rests on faults being finite: a community that stays
  un-enrolled for good leaves a settled book frozen for good, by design.
* **Pot**: three bettors with stakes to 6: two winners with different stakes
  against a loser is the smallest case with crumbs and with order.
* **Wallet**: two users, one book, one match reward and one quiz reward, two presses,
  each of which may be delivered again and again, two cutoffs. `Amounts` holds a small
  and two usual stakes and one of 500, so that balances cross the ceiling and the
  tax's floor from both sides.
* **Roster**: three people (a player on each side and one outside), two books,
  two presses, of which both may be in flight at once, two substitutions, so that the second
  meets what the first has left, and one /put or failed task. People are interchangeable in
  every action, hence the symmetry set; no liveness is checked under it.
* **Pickup** (`Size` 2): three people fill a queue of two and leave one to
  join, replace or substitute; a second match is what a revert or a second start
  makes. Two coroutines at a time are a race; one exposed person lets the gaps
  happen without letting everybody into them. People are interchangeable.
* **Check-in**: one match, all people exposed, and three coroutines, since
  the match's own timer, a reaction and a command can all be in flight. The
  proofs cover any size, any matches, any number of coroutines.
* **Snapshot**: two ids, for the match of an old snapshot and a new one that might take
  its id; three people, so that a match of two can have one replaced; two failures,
  since a failed load matters only after a crash. `Old` is the match that the file of
  an earlier shutdown holds.
* **Quiz**: a week of two days, so that two posts complete one and a second day comes
  after it; `Rich` are those at the ceiling, who are paid nothing. Votes and
  posts of different channels do not meet; the job's loop over channels does, and the
  proofs cover any number.
* **Ingest**: one replay, as every table is keyed by it. What the code does with
  many is choose the order. Two versions make an old row meet a newer parser. All three
  attempts of each counter are there. With one failure nobody ever loses a classification
  from the hands of the reconciler (`HandsFail`); two failures were explored once (635,723
  states), and the theorems cover any number of replays, labels and failures. Deadlock is checked: the loops go on for ever.
* **Refresh**: two players and two profiles, of which one is linked at the start, three seconds,
  two changes of the inputs, each of which may be a link in flight, and one failure or restart. Inputs
  change before the last second only; in that one a pass that began in the second before it
  ends, and later ones come round. Three changes were explored once for the two invariants
  (16.3 million states). `Batch = 1` makes a pass leave work for the next.
* **Lobby**: one game and one row, as rows of different games meet only in the job's
  answer whether any is live. Two rows, without failures, were explored for the
  safety properties as well, and the proofs cover any number.

Deadlock is not checked where people's actions are bounded (all but `ingest`): with the
bounds used up and everything settled such a system has nothing left to do.

## Fairness

The bot's loop runs every ready callback, and a task between two awaits is never
starved; `on_think` comes back every second. Nobody is assumed to press, report,
vote, link or launch; failures and restarts are not fair, and bounded. After a crash
the process starts again; one that is never restarted is outside the models.

* `betting`: weak fairness of the sweep's steps and of each match's settlement task:
  `think()` starts the sweep again on a later tick after it has returned or raised.
* `check_in`: weak fairness of each kind of coroutine of each match (an await
  that is over goes on, or fails) and strong fairness of `Tick`: `on_think`
  visits every active match, so a match whose flags are down
  again and again is visited while they are. The property excepts replacements, as each
  starts the clock anew (`checkin.py:182`): players who back out for ever keep a check-in
  going.
* `snapshot`: weak fairness of `Save`, `Inserted` and the steps of a load.
* `quiz`: weak fairness of `Job`: a pass starts when none runs and its time has come, and
  goes on; it comes at least once a day.
* `ingest`: weak fairness of `IngestOne`, of `Back`, and of time (`Late`, `Age`) per replay.
* `refresh`: weak fairness of `Job`, and of time (`Tick`, `Day`).
* `lobby`: weak fairness of `Job`, of the checks, of the second half of each writer
  (which happens or fails), of each row's resolution and of time (`Age`, `Day`).

## Proofs

The theorems hold for every value of the constants that the named assumptions
allow: any set of users, matches and posts, any stakes, any number of faults. The
assumptions say that a bound is a number, that a NULL is none of the things it may
stand beside, and, where a module adds up or counts, that users (`UsersAssumption`),
people (`PeopleAssumption`), labels (`LabelsAssumption`) and posts (`PostIdsAssumption`)
are finitely many, as rows of a table are. Every safety invariant and every action
property that a passing run checks is a theorem.

**Betting** (`BettingProofs`). The inductive invariant `IInv` has five parts.
*TypeOK* and the two money properties are not inductive alone, because what a
`Credit` writes depends on what its task read several steps ago. So:
`RowsAgree` (a branch is staked only on a closed book, a terminal post has one,
and "settle" only with a winner, which is the recorded one unless a result of that match was
undone), `ResultsAgree` (a recorded match is over, a result that is not recorded was undone),
`SweepAgrees` (the intent the sweep read from a row it has yet to handle
is still the row's: intents never change hands), and `TaskAgrees` (a task past its
claim works on its own branch of a closed book, its snapshot of the bets equals
the bets on record, and whoever is not left to credit has been credited, unless
the refunds were skipped).
Nobody can make the snapshot stale, since stakes move only while a
post is open and the claim closed it. There is one step lemma per action, on top
of a few frame lemmas for what a step leaves alone.

| theorem | says |
| --- | --- |
| `Inductive`, `TypeCorrect` | `Spec => []IInv`, `Spec => []TypeOK` |
| `GoldIsPromised` | gold moves only on the staked branch, to whom and in the amounts it owes for a winner it was settled for |
| `PaidBeforeTerminal` | a resolved post has paid everything it promised, and so has a refunded one, unless its channel had no community |
| `NeverBoth` | no book is both refunded and paid out |
| `ClosedStaysClosed`, `BranchStays` | action properties: a closed book's bets never change, its branch never changes hands |
| `PromiseKept` | the refinement, `Spec => KeepsPromise`: every step is a step of BookPromise or none |

The refinement reads a book's window and verdict off its row (`Window`, `Verdict`). With the
invariant, a press is a `Stake` or `Withdraw`, the claim that succeeds is `Decide`, whichever
of the tasks makes it, a claim that goes on with another winner is `Overrule`, which the
promise allows only for a book whose result was revoked, a credit that is not a repetition is `Pay`, the sweep's compare-and-set is
`Close`, and whatever else happens, failures, crashes and the final status included, is not seen.

**Roster** (`RosterProofs`). `IInv` says that every book in play *and every press
that may still land on it* agrees with the teams, for everybody whom the
substitution in progress does not move (`InPlayAgree`). A book comes into play as the newest row
(`InPlayIsNewest`), and a restart opens one only when it has staked a refund on the last, or found one
staked there (`RestartAgrees`: from its claim on there is none in play but its own, and then none).
This holds also when it loses its claim, since a claim fails only where a branch is staked, and "settle" is staked
only once the match is over (`RowsAgree`), which no substitution survives. `TasksAgree`: whoever moves money
does so for the branch on the row, so a status written late is of that branch. Proved:
`RosterInductive`, `RosterTypes`, `SubstitutesSafe`, `SelfBetsAreTrue`, `BookInPlayIsUnique`.

**Wallet and Pot** (`WalletProofs`). Both add up gold over users, rows and books. A sum
is a recursive function of the subsets of a finite set, so what sums do is proved first:
they take one element away or in (`SumRemove`, `SumAdd`, and what follows from them), by an induction over
finite sets that is done with sets of numbers and their least element, since the
induction theorems of the library take a predicate.

*The split.* `Share` is a stake and the floor of its part of the losing side's gold. A
floor covers the stake (`ShareCoversStake`), grows with it (`ShareGrowsWithStake`), and the
sum of the floors misses the pot by less than one coin per winner (`SharesFitPot`). Hence
`PotIsFair`. `PressMovesOdds`: a press adds to one side's gold, so it lowers or raises a
quotient.

*The bank.* The invariant `BankInv` is `TypeOK`, a finite ledger, `RowsWell` (a tax row is of
a week assessed, a payout or refund of a book closed), `CacheIsLedger`, `StakesAreBacked` and
`BookBalances`: what has left a book in rows and cancellations is what its settled users
got, less what still stands on it. A credit writes at most one row, with a key that is fresh,
and moves the balance by the same amount. A book that is settled has given back what `Owed`
says, and by the split that is no more than its pot.

| theorem | says |
| --- | --- |
| `PotIsFair`, `PressMovesOdds` | no gold minted, no winner loses, order kept; odds move the right way |
| `BankTypes`, `BalanceIsLedger` | no balance is below zero, and each is the sum of its ledger rows |
| `StakesBacked` | what stands on a book is what was paid for it and not taken back |
| `NoGoldIsMinted` | a book gives back at most what the presses took |
| `FlowsMeetAt500` | action property: faucets stop at 500 from below, the tax from above |
| `BettorsSpared` | nobody with a stake on a book that closed in a week is taxed for it |

`BettorsSpared` needs that taxes are assessed only for weeks that have ended, so that no
book closes into a week already assessed, however late the assessment.

**Pickup** (`PickupProofs`). `LaunchedOnce` and `EndsOnce` are not inductive. `IInv`
says who holds the right to launch a match: a match that has not checked in, the
coroutine that posts the card, the card's callback, or the coroutine that deletes
the card, one of them at a time, and none once it is live. `finish` pops the callback
before its await and without a default, and this is what makes it exclusive. Beside
that, a flag is up exactly while one coroutine edits, cancels or reports, and a match
not yet published has no coroutine. `Strong` adds the shape of rows and coroutines,
as far as `IInv` reads them; one lemma per action, on top of `StepOn` (a step about
one match), `RefreshKeeps` (the right passes from callback to coroutine), `RaiseKeeps`
and `LowerKeeps` (flags).

`SeatOnce` rests on it. A place is lost where it moves from one holder to the next, so the
invariant `Seating` says of everybody who met no gap (`SeatOf`) who may hold him: he is in
one match, one start or one revert, and only one of these (`Apart`); in each of them once (`Once`);
and whoever plays and is queued is being substituted into just that match (`Enters`). Beside it,
`on_think` runs one at a time and it alone aborts (`OneTick`), and who is ready plays
(`ReadyPlay`). Most actions only take places away (`Calm`); for the others there is a lemma per kind:
people join the queue (`Joins`), start out of it (`StartsOut`), one is swapped for another
(`Swaps`), a match is published or aborted. The first attempt failed for a reason: with three to
a match, somebody being substituted into it can be set aside with the rest of the queue by a
revert, and is put back into the queue when he plays.
The run, with two, cannot show this. It is now one of the named gaps.

Proved: `PickupInductive`, `LaunchOnce`, `EndOnce`, `SeatOnce`.

**Snapshot** (`SnapshotProofs`). `RatedOnce`, `SavedSurvives` and `IdsAreNew` follow from one
invariant. `MemoryWell`: only a process that has loaded its snapshot starts matches, saves and
finishes; what a load has left to look at is in what it read. `SnapshotsWell`: so are the live
matches of each snapshot. `RatedWell`: what has no result, and what is being undone, is not rated,
so the next write of it is the first. `SavedWell`: a match that was saved once is over, or it is
wherever the next restart may look (the row, and the insert that may replace it) and in memory,
or in what is yet to be loaded. `IdsWell`: the counter is above every id in use, and an id just
drawn is in no use yet. Proved: `TypeCorrect`, `NeverRatedAgain`, `NothingSavedIsLost`,
`IdsAreFresh`.

**Quiz** (`QuizProofs`). `PostsWell`: posts are created in order and a channel's numbers
grow no faster. `VotesWell`: nobody is paid before the deadline, nor for another vote than
his; a closed post is graded and paid. `JobWell`: the job works on open posts, each once, and
the door is shut before the votes are read; so what a reveal read stays true, and what it
has done is there (`RevealsWell`). `BoardsWell`: a board that was sent is of a week noted
and complete. Proved: `TypeCorrect`, `ReadIsGraded`, `MoneyFirst`, `NotedThenSent` and the
action property `Final`.

**Refresh** (`DerivedProofs`). `NoStaleRollupHides`: a rollup that differs from what is due
to its player is pending, unless the input was late. The invariant carries the evidence
with the work: a count taken by a pass, be it stored (`RollupsWatched`), in hand
(`WriteWatched`) or implied by the profiles just read (`StatsWatched`), is right, or some
stamp that the comparison looks at is not older than the pass, or the share was changed unseen. The weak comparison, `>=`, is
what the proof needs when both fall in one second; the row of `identity_conflicts` is the
evidence of the side that loses a profile. A call in flight that has noted its conflict has that row
(`LinksNoted`), so a `Store` over the owner it read leaves evidence, and one over another owner is what
`Missed` names; the lemma `Silent` says that there is nothing else. `NoStaleBoardHides` follows the rows of the boards the
same way, stored (`BoardsWatched`) and in the hands of a pass (`RowsWatched`): a row that is not what
is due has a stamp that is not older than it. A board looks at the rollups alone, so the proof
needs that such a stamp makes the rollup pending, or that the rollup was rebuilt since, in a
later second, which the board sees.

**Ingest** (`DerivedProofs`). `IngestInv` has six parts: `IngestTypeOK`; `DoneIsStored`; `JobHolds` (the
replay in the hands of the job is processing, and once its rows are written they are there);
`Classified` (what tables and certificate hold of a classification is all of it or nothing);
`BackHolds` (so is what the reconciler holds, and it holds nothing only where the certificate
says so); `Trying` (it holds no match it has given up on). Proved: `IngestTypes`, `DoneKeepsRows`
and the action property `ClassificationStays`. The latter was first stated without
`HandsFail` and with an exception for interrupted drains, which is true with one failure, as the run
has it; two refute it.

**Lobby** (`LobbyProofs`). `RowsWell`: rows are used in order and a launched one is past its
beginning. `AllTold`: the task that resolves a row knows whether its message is in the channel.
`Known`: what a writer has selected exists. `Awake`: at each await of the job's pass, what is left
of it to look at, together with what it found, accounts for every row to poll that somebody
armed for. Proved: `TypeCorrect`, `ResultOnce`, `SleepsInPeace` and the action property
`NoLaunchIsLost`.

**Model-checked only.** Liveness is TLC's: `FrozenBookEnds`, `CheckInEnds`, `DueIsClosed`,
`MatchIsSaved`, `Settles`, `DerivedConverges`, `Converges`, `Ends`. It needs ENABLED and
fairness, out of this prover's reach.

## Disagreements found

One run states what a document of the repository says and TLC refutes.

* `nobody_profits_by_losing` — a reported match leaves `active_matches` before
  its open book is claimed; its players pass the own-team check as spectators in
  between (`docs/GOLD.md`: "This is what makes it impossible to profit by losing").

The models show more of the kind, without a run of their own. Where a property would fail
because of one of these, it excepts that case by name and nothing else.

*Book.*

* A book inserted after its match was cancelled, or of a match never launched, stays open:
  the recovery sweep reads frozen books only (`store.abandoned_books`), so a no-show is not
  refunded as `docs/GOLD.md` says. The same happens if the live handler's insert comes after
  the cancellation.
* A settlement interrupted after its claim, then `/undo_match`: the book is read as
  abandoned, cannot be voided because its branch is "settle", and stays frozen. The same if the match
  is restored and reported again as a draw (`Unpayable`).
* If it is reported again with the other winner, the interrupted book is settled for that one too: both sides
  are paid, more than the pot (`overruled`), where `docs/GOLD.md:62` has one side share it.
* `_refund` without a community logs and skips every refund, and its caller still writes `void` or `no_action`
  (`NoCommunity`, `unrefunded`). The docstring of `_settle` says that a post only leaves "frozen" once its money
  has been applied, which is so of a settlement and not of a refund; the tests assert both.
* `restart_for_match` that loses its claim returns from the void without a word and opens a second book; the first is frozen
  until its task, or the sweep, has refunded it. `live_for_match` returns the newer.
* `store.freeze` updates by id after three awaits; a match reported meanwhile is
  settled under it and its post becomes frozen again (`Freeze` after `Finish`). The
  money stays right, as payouts are keyed; the result is announced twice.
* The sweep assigns an answer it awaited over an `arm()` made meanwhile, and sleeps
  a day beside an open book (not in Betting, where a pass may start at any time).
* `/put` moves a player under a live book without the event that would restart it
  (`carried` in Roster).

*Pickup.*

* `/subfor` during the check-in swaps the players and leaves the one
  who goes out in `ready_players`; `Match.from_json` rejects such a match, so a
  restart loses it. (The `refresh()` that follows lacks its argument, too.)
* A timeout removes a match while its last reaction's `finish` deletes the card: the
  ready players are gone, nobody goes back to the queue, and the removed match goes
  live (`TickAbort`, `Abort`, `Finish`). Such a match can be reported as well as reverted;
  this is why `EndsOnce` sets "recorded" against "cancelled" only.
* A substitution in flight does not hold who comes in: the queue can start with him; or, from
  three to a match on, a revert that fills its match from the queue sets him aside with the rest
  and puts him back when he plays. He has two places (`Entering`).
* `revert` assigns the queue what was left when its start began: whoever joined
  while it waited is dropped (`Publish` of a `restart`).

*Snapshot, report, undo.*

* A cancelled match comes back from a snapshot of up to 30 seconds before (`dropped`).
* Players popped by a start are nowhere until the match is published: they are lost if
  `Match.new` raises or the process ends (`StartFails`).
* A match restored from before it went live goes live again, and opens a second book.
* `load_state` compares a restored match with its result and raises if they differ: after a
  substitution later than the snapshot and a report, every start fails, where `match.py:537`
  speaks of reconciling.
* `undo_match` is not a transaction. An error after its rating updates makes the retry
  subtract twice; one between the deletion of the history and that of the players makes every
  retry fail.

*Quiz.*

* A card that could not be sent leaves an open post that has used up its number: the retry draws
  another, and the first one is revealed and announced. A failure right after the send makes the
  retry close the poll at once and post a second one the same day.
* `wake()` during a pass is overwritten by the pass's own `next_run`: the pass comes a day late at worst.
* A leaderboard may count votes of a post whose reveal failed, and are not graded.

*Ingest.*

* A retry passes neither the match's id nor its date: `replay_matches.bot_match_id` and
  `played_at` are overwritten with nothing.
* The note of a failure can fail: the replay stays `processing` until the next restart (`Orphan`).
* Two replies "not found" and one failed parse make three: the counter of `policy.py:37`, said to be of
  failed parses, is shared with the other attempts.
* A failure of the reconciler between its delete and its insert, followed by another before it comes
  round, leaves a match without labels; hence `HandsFail`.

*Refresh.*

* Inputs carry the clock of the start of what wrote them (`game_stats.computed_at`,
  `identities.bound_at`) or of the match (`civ_picks.at`). One that is stored after a refresh
  has passed in between is not seen until `MAX_AGE`, a day later, contrary to what
  `refresh.py:56` says of its race guard (`late`).
* `learn` and `link_self` read an owner, record the conflict of whom they read and update by profile, with
  awaits in between. Who was linked meanwhile loses the profile without a row in `identity_conflicts`, and
  his rollup counts it until `MAX_AGE`. A call that found the profile to be the caller's own already writes it
  back without a new `bound_at`: it undoes a relink made meanwhile, and neither rollup is seen to
  be stale (`unseen`, `Missed`).
* The deletion of a rollup does not move what the boards compare with: they show a player
  without games until `MAX_AGE`.
* A failure of `civ_stats` alone is not retried until then either: the marker is `metric_boards`.

*Lobby.*

* The end of a pass overwrites an `arm()` that came during it, and a `stop()` during a write leaves
  nobody to arm (`missed`). A row confirmed when it is over half an hour old arms nobody: its result
  is never posted.
* The record of a sent result can fail, or arrive without its acknowledgement: posted again, or
  deleted though the row says posted (`slipped`).
* `/lobby2` writes `launched_at` over a row that was confirmed since its select (`LinkWrite`); if its
  result was on its way, the row is left where neither the reaper nor a poll looks (`Stranded`).
* A late `_persist` may bring back a row that expired unlaunched (`watcher.py:263`); `launch.py:43`, "Terminal
  rows are never revived", speaks of the confirmation, and so does `LaunchStands`.
* Select-then-insert without a lock can make two rows of one game, and two posts.

## Abstractions, and what is not modelled

* *Cards and messages.* Edits of the Discord card, wording and logging are left
  out; an exception they raise ahead of a state change is a failure of that step.
* *Grace periods.* The ten minutes of `unsettled_books` and the twelve hours of
  `abandoned_books` are taken as none: the sweep may act at once, which allows
  every order the code allows and some more.
* *Launch.* In Betting, `open_posts` and `launched_among` are one step, as a launch is
  never withdrawn (`LaunchStands`, but for `/lobby2`), and the lobby poll that confirms one
  is an event.
* *Amounts.* In Betting a press is one unit; Wallet has the real amounts. Pool
  sizes are exact in both.
* *Tax.* Instants are rounded to tax weeks, the policy is active from week 0.
* *Roster.* `SubAuto` splits an even roster evenly, any way; an odd one (possible
  only after /put) is not split again. The credits between a claim and the status are one
  await. Undo, crash and a book whose community is gone are Betting's; `Fails` leaves a claimed book
  behind as a crash does.
* *Pickup.* One channel with one queue that starts itself when full, of even size,
  ranked, with a check-in; no map votes, draft or manual start. Timeouts may come at
  any tick, and the five errors before a match is dropped are one step. `on_think`
  reads the active matches anew at each step and not from a copy. Two coroutines in
  the same place with the same data are one. `/put` is Roster's, restarts are Snapshot's.
* *Snapshot.* Ratings are counted, not computed: an undo's updates of the players are one step,
  and so are the rows of a result. Decay and `/set_rating` are left out. What the file holds is
  read only while there is no row, and forgotten then.
* *Quiz.* The channels have a community (without one, a reveal closes the post and pays nobody,
  by policy: `quiz/jobs.py:260`). A question is drawn or not, what it says is left out. Days and weeks are counters; a
  deadline is a flag that comes at any time.
* *Ingest.* The parser and the classifier are what they find, and a match has one content through all versions: a
  later parser finds it or does not, and never something else. The batch, the links of players, units,
  technologies and tags, and the offline runner are left out. A refusal by rate limit is a failure.
* *Refresh.* A rollup or a board is the set of versions it counts: whether it is right, not what it
  says. One community; `game_stats` of a match are replaced in one step (Ingest has two). The cache of the
  resolver is fresh; the paused mode and the hook of the web settings are left out. Passes begin in
  different seconds, `POLL_INTERVAL` being 30.
* *Lobby.* One channel, at most one match. `last_edit_at` is left out: any of the live rows may be due, and
  ancient ones are. Each select is one step with what precedes it. Civs, cards and the reaction that reports
  a loss are left out.
* *Database.* A transaction is atomic and `SELECT … FOR UPDATE` excludes others;
  MySQL itself, the pool and the migrations are taken for granted.

Not modelled: the civilisation picks and the worker, which the plan comes to below, and those
components whose work is import, rendering or configuration, with hardly a protocol between steps
(`PROJECT.json` lists each with its reason). They are most of the repository's lines: pages, cards,
migrations, parsers and arithmetic over stored rows.

## Plan

In the order of importance.

1. **Pickup**, what is left of it: a place for everybody who did not leave, with the losses the code
   has as named exceptions; several queues and channels (`remove_players` across them), manual start
   and split. Abstract specification: a seat allocator (a player is free, queued or seated).
2. **Rating**: the rating of a player is the sum of the history that is left, under reports, undo
   statement by statement, decay and `/set_rating`, which read and then write.
3. **Civilisation picks**: matcher, reconciler and lobby insert after a look that is not locked.
4. The worker's play store.
