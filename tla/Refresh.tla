------------------------------ MODULE Refresh ------------------------------
(***************************************************************************)
(* What is out of date: the job that rebuilds the rollups of players and   *)
(* the boards of their community (nammaoe2bot/derived/refresh.py), the     *)
(* inputs it compares, game_stats, identities, identity_conflicts and      *)
(* civ_picks, and their clocks.  There is no list of work: a row is        *)
(* pending when its computed_at is not later than an input of it.  Times   *)
(* are seconds, and what was stamped in a second may be stored in a later  *)
(* one.  One community; the cache of the resolver is always fresh.         *)
(***************************************************************************)
EXTENDS Integers, FiniteSets

CONSTANTS
  Users, Profiles,
  Nobody,      \* NULL in identities.user_id
  Linked,      \* who owns which profile as the derived tables are filled for the first time
  Metrics,     \* the catalogue of boards
  Batch,       \* BATCH, 10 in the code
  MaxAttempts, \* MAX_ATTEMPTS, 3 in the code
  MaxTime,     \* bound: seconds
  MaxEdits,    \* bound: changes of the inputs
  MaxFaults    \* bound: awaits that raise, and restarts

ASSUME OwnersAssumption == Nobody \notin Users /\ Linked \in [Profiles -> Users \cup {Nobody}]
ASSUME BoundsAssumption ==
  /\ Batch \in Nat \ {0} /\ MaxAttempts \in Nat \ {0}
  /\ MaxTime \in Nat /\ MaxEdits \in Nat /\ MaxFaults \in Nat

VARIABLES
  now,
  owner,   \* identities.user_id of a profile
  bound,   \* identities.bound_at
  claims,  \* identity_conflicts: profile and user
  links,   \* learn and link_self, between two awaits: the owner each saw and its clock
  games,   \* game_stats of a profile: how many versions of them so far, and the newest computed_at
  picks,   \* civ_picks: versions, and the newest at
  rollup,  \* player_rollups: computed_at, and the version of each profile's games it counts
  board,   \* metric_boards: computed_at, and whose which version is on it
  civs,    \* civ_stats: the version of the picks
  aged,    \* rows older than MAX_AGE
  job,     \* DerivedRefresh._run, between two awaits
  tried,   \* _rollup_attempts and _community_attempts
  late,    \* history: inputs that were stored in a later second than their stamp
  unseen,  \* history: profile and user, whose share a link changed without a sign
  edits, faults

inputs == <<owner, bound, claims, games, picks>>
stored == <<rollup, board, civs>>
history == <<late, unseen>>
vars == <<now, inputs, links, stored, aged, job, tried, history, edits, faults>>

Times == 0..MaxTime
Versions == 0..MaxEdits + 1
Community == "community"
Boards == "boards"
Picks == "picks"
Owners == Users \cup {Nobody}

\* A stamp of -1 is that of a row that is not there.
Absent == -1
Zero == [p \in Profiles |-> 0]
Blank == [p \in Profiles |-> <<Nobody, 0>>]
Link == [user : Users, profile : Profiles, saw : Owners, time : Times, noted : BOOLEAN]
NoRollup == [at |-> Absent, seen |-> Zero]
NoBoard == [at |-> Absent, seen |-> Blank]
Idle == [at |-> "idle", time |-> Absent, left |-> {}, user |-> Nobody, profiles |-> {}, seen |-> Zero,
         boards |-> {}, rows |-> Blank, failed |-> FALSE]
Steps == {"idle", "list", "batch", "stats", "write", "communities", "sources", "boards", "civs"}
Jobs == [at : Steps, time : Times \cup {Absent}, left : SUBSET Users, user : Owners, profiles : SUBSET Profiles,
         seen : [Profiles -> Versions], boards : SUBSET Metrics, rows : [Profiles -> Owners \X Versions],
         failed : BOOLEAN]

TypeOK ==
  /\ now \in Times
  /\ owner \in [Profiles -> Owners] /\ bound \in [Profiles -> Times] /\ claims \subseteq Profiles \X Users
  /\ links \subseteq Link
  /\ games \in [Profiles -> [n : Versions, at : Times]] /\ picks \in [n : Versions, at : Times]
  /\ rollup \in [Users -> [at : Times \cup {Absent}, seen : [Profiles -> Versions]]]
  /\ board \in [Metrics -> [at : Times \cup {Absent}, seen : [Profiles -> Owners \X Versions]]]
  /\ civs \in Versions /\ aged \subseteq Users \cup {Boards}
  /\ job \in Jobs
  /\ tried \in [Users \cup {Community} -> 0..MaxAttempts]
  /\ late \subseteq Profiles \cup {Picks} /\ unseen \subseteq Profiles \X Users
  /\ edits \in 0..MaxEdits /\ faults \in 0..MaxFaults

Init ==
  /\ now = 0
  /\ owner = Linked /\ bound = Zero /\ claims = {} /\ links = {}
  /\ games = [p \in Profiles |-> [n |-> 1, at |-> 0]] /\ picks = [n |-> 0, at |-> 0]
  /\ rollup = [u \in Users |-> NoRollup] /\ board = [m \in Metrics |-> NoBoard] /\ civs = 0
  /\ aged = {} /\ job = Idle /\ tried = [k \in Users \cup {Community} |-> 0]
  /\ late = {} /\ unseen = {} /\ edits = 0 /\ faults = 0

----------------------------------------------------------------------------
\* The inputs.  Each is stamped with a clock read before it is stored; what is stamped with a clock
\* of an earlier second is late.

\* The inputs change before the last second, and only so often.
Early == now < MaxTime
Edit == edits < MaxEdits /\ edits' = edits + 1 /\ Early
Stamped(stamp, what) == stamp \in 0..now /\ late' = IF stamp < now THEN late \cup what ELSE late
OnlyInputs == UNCHANGED <<now, stored, aged, job, tried, faults>>
OnlyRows == UNCHANGED <<links, unseen>>

\* game_stats.write, by the ingest or the reconciler, with the clock of the start of its pass.
WriteGames(p) ==
  /\ Edit
  /\ \E stamp \in Times :
       Stamped(stamp, {p}) /\ games' = [games EXCEPT ![p] = [n |-> @.n + 1, at |-> stamp]]
  /\ UNCHANGED <<owner, bound, claims, picks>> /\ OnlyRows /\ OnlyInputs

RecordPicks ==
  /\ Edit
  /\ \E stamp \in Times : Stamped(stamp, {Picks}) /\ picks' = [n |-> picks.n + 1, at |-> stamp]
  /\ UNCHANGED <<owner, bound, claims, games>> /\ OnlyRows /\ OnlyInputs

\* A bug: who loses a profile is not recorded.
MovedUnrecorded(lost, to, stamp) ==
  /\ owner' = [p \in Profiles |-> IF p \in lost THEN to[p] ELSE owner[p]]
  /\ bound' = [p \in Profiles |-> IF p \in lost THEN stamp ELSE bound[p]]
  /\ claims' = claims

\* The profiles change hands: who loses one is in the conflicts.
Moved(lost, to, stamp) ==
  /\ owner' = [p \in Profiles |-> IF p \in lost THEN to[p] ELSE owner[p]]
  /\ bound' = [p \in Profiles |-> IF p \in lost THEN stamp ELSE bound[p]]
  /\ claims' = claims \cup {<<p, owner[p]>> : p \in {q \in lost : owner[q] # Nobody}}

\* relink, in one transaction: p is u's now and, unless additional, every other profile of u is released.
Relink(p, u, additional) ==
  LET others == {q \in Profiles \ {p} : owner[q] = u /\ ~additional}
      lost == others \cup (IF owner[p] = u THEN {} ELSE {p})
  IN /\ Edit /\ lost # {}
     /\ \E stamp \in Times :
          Stamped(stamp, lost) /\ Moved(lost, [q \in Profiles |-> IF q = p THEN u ELSE Nobody], stamp)
     /\ UNCHANGED <<games, picks>> /\ OnlyRows /\ OnlyInputs

Unlink(p) ==
  /\ Edit /\ owner[p] # Nobody
  /\ \E stamp \in Times : Stamped(stamp, {p}) /\ Moved({p}, [q \in Profiles |-> Nobody], stamp)
  /\ UNCHANGED <<games, picks>> /\ OnlyRows /\ OnlyInputs

\* learn and link_self: the clock, then the row, without a lock.
Look(p, u) ==
  /\ Edit
  /\ \E stamp \in 0..now :
       links' = links \cup {[user |-> u, profile |-> p, saw |-> owner[p], time |-> stamp, noted |-> FALSE]}
  /\ UNCHANGED <<inputs, history>> /\ OnlyInputs

Rival(l) == l.saw \notin {Nobody, l.user}

\* Refused: when the profile was someone else's, the claim is noted.
Refuse(l) ==
  /\ ~l.noted /\ links' = links \ {l}
  /\ claims' = IF Rival(l) THEN claims \cup {<<l.profile, l.user>>} ELSE claims
  /\ UNCHANGED <<owner, bound, games, picks, history, edits>> /\ OnlyInputs

\* _overwrite_binding: first the conflict of whoever was seen to own the profile,
Note(l) ==
  /\ Rival(l) /\ ~l.noted
  /\ links' = (links \ {l}) \cup {[l EXCEPT !.noted = TRUE]} /\ claims' = claims \cup {<<l.profile, l.saw>>}
  /\ UNCHANGED <<owner, bound, games, picks, history, edits>> /\ OnlyInputs

\* Whose share of the profile changes without a sign when meanwhile it is somebody else's: that owner's,
\* unless he has a conflict, and everybody's when it was the user's own, as bound_at stays where it is.
Missed(l) ==
  LET other == owner[l.profile]
      missed == IF other \in {l.saw, l.user} THEN {}
                ELSE IF l.saw = l.user THEN {other, l.user}
                ELSE {other} \ {u \in Users : <<l.profile, u>> \in claims}
  IN {<<l.profile, u>> : u \in missed \ {Nobody}}

\* then the UPDATE by profile.
Store(l) ==
  /\ l.noted = Rival(l)
  /\ links' = links \ {l}
  /\ owner' = [owner EXCEPT ![l.profile] = l.user]
  /\ IF l.saw = l.user THEN UNCHANGED <<bound, late>>
     ELSE bound' = [bound EXCEPT ![l.profile] = l.time] /\ Stamped(l.time, {l.profile})
  /\ unseen' = unseen \cup Missed(l)
  /\ UNCHANGED <<claims, games, picks, edits>> /\ OnlyInputs

----------------------------------------------------------------------------
\* What is pending.

\* profiles_for_users, and the games a rollup of u counts.
Owned(u) == {p \in Profiles : owner[p] = u}
Due(u, p) == IF owner[p] = u THEN games[p].n ELSE 0

\* _players_board_sql and _stats_board_sql: the row of a profile.
Shown(p) == IF owner[p] = Nobody \/ games[p].n = 0 THEN <<Nobody, 0>> ELSE <<owner[p], games[p].n>>

\* _IMPLIED_SQL: there is a row for u.
Implied(u) == \E p \in Owned(u) : games[p].n > 0

\* _IDENTITY_WATERMARK_SQL: the profiles u owns or was ever in a conflict about.
Associated(u) == Owned(u) \cup {p \in Profiles : <<p, u>> \in claims}

\* A bug: a stamp of the same second is not newer.
NewerInput(u, time) ==
  \/ \E p \in Owned(u) : games[p].n > 0 /\ games[p].at > time
  \/ \E p \in Associated(u) : bound[p] > time

\* An input of u's rollup is not older than the rollup.
StaleInput(u, time) ==
  \/ \E p \in Owned(u) : games[p].n > 0 /\ games[p].at >= time
  \/ \E p \in Associated(u) : bound[p] >= time

Stored(u) == rollup[u].at # Absent
Extra(u) == Stored(u) /\ ~Implied(u)
Missing(u) == Implied(u) /\ ~Stored(u)

\* The first three of the four conditions of pending_rollups, and all of them.
Changed(u) == Missing(u) \/ Extra(u) \/ (Stored(u) /\ StaleInput(u, rollup[u].at))
\* A bug: a row may get as old as it likes.
NeverOld(u) == Changed(u)

Pending(u) == Changed(u) \/ (Stored(u) /\ u \in aged)

\* A bug: only what was reported makes the boards stale.
StaleByPicks(m) == picks.n > 0 /\ picks.at >= board[m].at

\* _community_watermarks and pending_communities: the oldest board is not newer than a rollup or a pick.
StaleBoard(m) ==
  \/ \E u \in Users : Stored(u) /\ rollup[u].at >= board[m].at
  \/ picks.n > 0 /\ picks.at >= board[m].at
BoardsChanged == \E m \in Metrics : board[m].at = Absent \/ StaleBoard(m)
BoardsPending == BoardsChanged \/ Boards \in aged

----------------------------------------------------------------------------
\* The job.

At(step) == job.at = step
OnlyJob == UNCHANGED <<now, inputs, links, history, edits>>
Fault == faults < MaxFaults /\ faults' = faults + 1
Failed(key) == tried' = [tried EXCEPT ![key] = IF @ < MaxAttempts THEN @ + 1 ELSE @]
Succeeded(key) == tried' = [tried EXCEPT ![key] = 0]

\* The pass is over: the next is in another second, POLL_INTERVAL away.
Done == [Idle EXCEPT !.time = job.time]

Start ==
  /\ At("idle") /\ (job.time < now \/ now = MaxTime)
  /\ job' = [Idle EXCEPT !.at = "list", !.time = now]
  /\ OnlyJob /\ UNCHANGED <<stored, aged, tried, faults>>

Attemptable == {u \in Users : Pending(u) /\ tried[u] < MaxAttempts}

\* The stalest of them, a row that is not there first; without any, the community's turn.
List ==
  /\ At("list")
  /\ \E batch \in SUBSET Attemptable :
       /\ Cardinality(batch) <= Batch /\ (batch = Attemptable \/ Cardinality(batch) = Batch)
       /\ \A u \in batch, v \in Attemptable \ batch : rollup[u].at <= rollup[v].at
       /\ job' = [job EXCEPT !.at = IF batch = {} THEN "communities" ELSE "batch", !.left = batch]
  /\ OnlyJob /\ UNCHANGED <<stored, aged, tried, faults>>

\* refresh_user: first whose profiles,
ReadProfiles ==
  /\ At("batch")
  /\ \/ \E u \in job.left :
          job' = [job EXCEPT !.at = "stats", !.left = @ \ {u}, !.user = u, !.profiles = Owned(u)]
     \/ job.left = {} /\ job' = Done
  /\ OnlyJob /\ UNCHANGED <<stored, aged, tried, faults>>

\* then their games,
ReadGames ==
  /\ At("stats")
  /\ job' = [job EXCEPT !.at = "write", !.profiles = {},
                        !.seen = [p \in Profiles |-> IF p \in job.profiles THEN games[p].n ELSE 0]]
  /\ OnlyJob /\ UNCHANGED <<stored, aged, tried, faults>>

NextUser == [job EXCEPT !.at = "batch", !.user = Nobody, !.profiles = {}, !.seen = Zero]

\* and the row is replaced, or deleted when there is nothing to count.
WriteRollup ==
  /\ At("write")
  /\ rollup' = [rollup EXCEPT ![job.user] =
                  IF job.seen = Zero THEN NoRollup ELSE [at |-> job.time, seen |-> job.seen]]
  /\ aged' = aged \ {job.user} /\ Succeeded(job.user) /\ job' = NextUser
  /\ OnlyJob /\ UNCHANGED <<board, civs, faults>>

ListCommunities ==
  /\ At("communities")
  /\ job' = IF BoardsPending /\ tried[Community] < MaxAttempts THEN [job EXCEPT !.at = "sources"] ELSE Done
  /\ OnlyJob /\ UNCHANGED <<stored, aged, tried, faults>>

\* refresh_community: the sources of all boards, or none of them, which leaves the boards as they are.
ReadSources ==
  /\ At("sources")
  /\ job' = [job EXCEPT !.at = "boards", !.boards = Metrics, !.rows = [p \in Profiles |-> Shown(p)]]
  /\ OnlyJob /\ UNCHANGED <<stored, aged, tried, faults>>

\* One by one; the oldest of them is what makes the community old.
WriteBoard ==
  /\ At("boards")
  /\ \/ \E m \in job.boards :
          /\ board' = [board EXCEPT ![m] = [at |-> job.time, seen |-> job.rows]]
          /\ job' = [job EXCEPT !.boards = @ \ {m}] /\ aged' = aged
     \/ /\ job.boards = {} /\ job' = [job EXCEPT !.at = "civs", !.rows = Blank]
        /\ aged' = IF job.failed THEN aged ELSE aged \ {Boards}
        /\ board' = board
  /\ OnlyJob /\ UNCHANGED <<rollup, civs, tried, faults>>

\* Recomputed and replaced under a lock.
WriteCivs ==
  /\ At("civs") /\ civs' = picks.n /\ job' = Done
  /\ IF job.failed THEN Failed(Community) ELSE Succeeded(Community)
  /\ OnlyJob /\ UNCHANGED <<rollup, board, aged, faults>>

\* An await raises: that of a user costs the user, that of a part of the community's pass that part,
\* any other the pass.
Fail ==
  /\ Fault
  /\ \/ job.at \in {"stats", "write"} /\ Failed(job.user) /\ job' = NextUser
     \/ At("sources") /\ job' = [job EXCEPT !.at = "civs", !.failed = TRUE] /\ tried' = tried
     \/ /\ At("boards") /\ tried' = tried
        /\ \E m \in job.boards : job' = [job EXCEPT !.boards = @ \ {m}, !.failed = TRUE]
     \/ At("civs") /\ Failed(Community) /\ job' = Done
     \/ job.at \in {"list", "communities"} /\ job' = Done /\ tried' = tried
  /\ OnlyJob /\ UNCHANGED <<stored, aged>>

Restart ==
  /\ Fault /\ job' = Done /\ tried' = [k \in Users \cup {Community} |-> 0] /\ links' = {}
  /\ UNCHANGED <<now, inputs, history, edits, stored, aged>>

----------------------------------------------------------------------------

Tick ==
  /\ now < MaxTime /\ now' = now + 1
  /\ UNCHANGED <<inputs, links, stored, aged, job, tried, history, edits, faults>>

\* A day goes by after the last second, in which the job has its many turns.
Day ==
  /\ now = MaxTime /\ \A row \in aged : tried[IF row = Boards THEN Community ELSE row] = MaxAttempts
  /\ aged' = {u \in Users : Stored(u)} \cup {Boards}
  /\ UNCHANGED <<now, inputs, links, stored, job, tried, history, edits, faults>>

Job ==
  \/ Start \/ List \/ ReadProfiles \/ ReadGames \/ WriteRollup
  \/ ListCommunities \/ ReadSources \/ WriteBoard \/ WriteCivs

Next ==
  \/ Job \/ Fail \/ Restart \/ Tick \/ Day \/ RecordPicks
  \/ \E p \in Profiles :
       \/ WriteGames(p) \/ Unlink(p)
       \/ \E u \in Users : Look(p, u) \/ \E additional \in BOOLEAN : Relink(p, u, additional)
  \/ \E l \in links : Early /\ (Refuse(l) \/ Note(l) \/ Store(l))

Spec == Init /\ [][Next]_vars

\* on_think starts a pass every POLL_INTERVAL; time passes.
FairSpec == Spec /\ WF_vars(Job) /\ WF_vars(Tick) /\ WF_vars(Day)

----------------------------------------------------------------------------
\* A rollup that misses a game, or still counts one that is somebody else's, is pending at once, not
\* only when it is a day old, however the pass that wrote it overlapped with links, moves and games
\* (refresh.py: "the whole race guard"); unless that input was stored in a later second than its
\* stamp, or a link changed the share of the user without a sign, over an owner it had not seen.
StaleIsPending ==
  \A u \in Users, p \in Profiles :
    Stored(u) /\ rollup[u].seen[p] # Due(u, p) /\ p \notin late /\ <<p, u>> \notin unseen => Changed(u)

\* Boards that lack a game, or show one as that of a player who lost it, will be rebuilt without
\* waiting for a day to pass: they are pending, or a rollup is that they trail; unless the input was
\* late, a link changed the share of the player or of the owner without a sign, or the player is left
\* without a game: his rollup is deleted, which the boards do not see.
BoardsTrail ==
  \A m \in Metrics, p \in Profiles \ late :
    LET shown == board[m].seen[p]
        plays == shown[1] \in Users /\ Implied(shown[1])
    IN /\ board[m].at # Absent /\ shown # Shown(p) /\ (plays \/ Shown(p) # <<Nobody, 0>>)
       /\ {<<p, shown[1]>>, <<p, owner[p]>>} \cap unseen = {}
       => BoardsChanged \/ \E u \in Users : Changed(u)

\* Rollups and boards become what the inputs imply, whatever came late, failed or was restarted, but
\* for rows given up on loudly.
Right(u) == rollup[u].seen = [p \in Profiles |-> Due(u, p)]
RightBoard(m) == board[m].at # Absent /\ board[m].seen = [p \in Profiles |-> Shown(p)]
Converges ==
  /\ \A u \in Users : []<>(Right(u) \/ tried[u] = MaxAttempts)
  /\ \A m \in Metrics : []<>(RightBoard(m) \/ tried[Community] = MaxAttempts)
  /\ []<>(civs = picks.n \/ tried[Community] = MaxAttempts)
=============================================================================
