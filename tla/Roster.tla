------------------------------- MODULE Roster -------------------------------
(***************************************************************************)
(* The own-team rule: "If you are playing in the match, you may only back  *)
(* your own team" (docs/GOLD.md), for one ranked match.  A press is        *)
(* checked against the roster in one step (interactions.py) and lands in a *)
(* later one (gold.place_bet); in between substitution.py may change the   *)
(* teams, and its "roster_changed" handler voids the book and opens        *)
(* another (flow.restart_for_match).  Three tasks may close one book, each *)
(* claiming it first and writing its status after the money has moved: the *)
(* restart, the settlement of the report and the sweep.  The money itself  *)
(* is Betting's subject.                                                   *)
(***************************************************************************)
EXTENDS Integers, Sequences, FiniteSets

CONSTANTS
  People,       \* players, substitutes and spectators
  MaxPosts,     \* bound: books of the match
  MaxPresses,   \* bound: presses that pass the own-team check
  MaxEdits,     \* bound: substitutions
  MaxSlips      \* bound: /puts by a moderator plus tasks ended by an error

ASSUME BoundsAssumption == MaxPosts \in Nat /\ MaxPresses \in Nat /\ MaxEdits \in Nat /\ MaxSlips \in Nat

VARIABLES
  team,      \* Match.teams: the side of each person, or "out"
  phase,     \* "live" while the match is in active_matches, then how it ended
  opening,   \* the "live" event has yet to insert the first post
  post,      \* prediction_posts.status of the match's posts, oldest first
  intent,    \* prediction_posts.terminal_intent of the same posts
  bet,       \* prediction_bets of each post: side and is_player
  checked,   \* presses that have passed the own-team check
  task,      \* what each task does next, the book it holds and the branch it is to take
  moved,     \* people the substitution in progress has moved
  carried,   \* history: people who changed sides under a book that went on
  presses, edits, slips

books == <<post, intent>>
vars == <<team, phase, opening, books, bet, checked, task, moved, carried, presses, edits, slips>>

Sides == {"team0", "team1"}
NoBet == [side |-> "none", player |-> FALSE]
Posts == DOMAIN post
Tasks == {"restart", "settle", "sweep"}
Idle == [at |-> "no", book |-> 0, branch |-> "none"]

Statuses == {"open", "frozen", "resolved", "void", "no_action"}
Live == {"open", "frozen"}
Refunds == {"void", "no_action"}
Intents == Refunds \cup {"settle"}
Bet == [side : Sides \cup {"none"}, player : BOOLEAN]
Pressed == [user : People, post : 1..MaxPosts, side : Sides, player : BOOLEAN]
Task == [at : {"no", "find", "claim", "money", "open", "lock"}, book : 0..MaxPosts,
         branch : Intents \cup {"none"}]

TypeOK ==
  /\ team \in [People -> Sides \cup {"out"}]
  /\ phase \in {"live", "reported", "dropped"} /\ opening \in BOOLEAN
  /\ post \in Seq(Statuses) /\ intent \in Seq(Intents \cup {"none"}) /\ bet \in Seq([People -> Bet])
  /\ Len(post) \in 0..MaxPosts /\ Len(intent) = Len(post) /\ Len(bet) = Len(post)
  /\ checked \subseteq Pressed
  /\ task \in [Tasks -> Task]
  /\ moved \subseteq People /\ carried \subseteq People
  /\ presses \in 0..MaxPresses /\ edits \in 0..MaxEdits /\ slips \in 0..MaxSlips

Init ==
  /\ team \in [People -> Sides \cup {"out"}]
  /\ Cardinality({u \in People : team[u] = "team0"}) = 1
  /\ Cardinality({u \in People : team[u] = "team1"}) = 1
  /\ phase = "live" /\ opening = TRUE
  /\ post = <<>> /\ intent = <<>> /\ bet = <<>> /\ checked = {}
  /\ task = [t \in Tasks |-> Idle] /\ moved = {} /\ carried = {}
  /\ presses = 0 /\ edits = 0 /\ slips = 0

\* store.create_post.
CreatePost ==
  /\ Len(post) < MaxPosts
  /\ post' = Append(post, "open")
  /\ intent' = Append(intent, "none")
  /\ bet' = Append(bet, [u \in People |-> NoBet])

OpenForMatch ==
  /\ opening /\ CreatePost
  /\ opening' = FALSE
  /\ UNCHANGED <<team, phase, checked, task, moved, carried, presses, edits, slips>>

----------------------------------------------------------------------------
\* Presses.

\* flow._team_ids: the side of a player, as long as the match is in active_matches.
SideOf(u) == IF phase = "live" THEN team[u] ELSE "out"

\* on_bet_interaction up to gold.place_bet: the post is open and a player backs his own team.
Check(u, p, side) ==
  /\ presses < MaxPresses
  /\ post[p] = "open"
  /\ SideOf(u) \in Sides => side = SideOf(u)
  /\ checked' = checked \cup {[user |-> u, post |-> p, side |-> side, player |-> SideOf(u) \in Sides]}
  /\ presses' = presses + 1
  /\ UNCHANGED <<team, phase, opening, books, bet, task, moved, carried, edits, slips>>

\* gold.place_bet: the status is read again, the first press locks the side, and is_player
\* is written on every press; a press refused here is gone.
AcceptsBets(p) == post[p] = "open"
PlaceBet(x) ==
  /\ x \in checked
  /\ bet' = IF AcceptsBets(x.post) /\ bet[x.post][x.user].side \in {"none", x.side}
            THEN [bet EXCEPT ![x.post][x.user] = [side |-> x.side, player |-> x.player]]
            ELSE bet
  /\ checked' = checked \ {x}
  /\ UNCHANGED <<team, phase, opening, books, task, moved, carried, presses, edits, slips>>

\* gold.cancel_bet, which also releases the side lock.
CancelBet(u, p) ==
  /\ AcceptsBets(p) /\ bet[p][u] # NoBet
  /\ bet' = [bet EXCEPT ![p][u] = NoBet]
  /\ UNCHANGED <<team, phase, opening, books, checked, task, moved, carried, presses, edits, slips>>

----------------------------------------------------------------------------
\* Roster changes.  The flag keeps reports, cancellations and other edits out.

MayEdit == phase = "live" /\ task["restart"].at = "no"

\* sub_for and sub_auto bring somebody in who is in no match ...
MaySubstitute(leaver, newcomer) ==
  /\ MayEdit /\ edits < MaxEdits
  /\ team[leaver] \in Sides /\ team[newcomer] = "out"

\* ... change the teams, then emit "roster_changed".
Substitute(new) ==
  /\ team' = new
  /\ task' = [task EXCEPT !["restart"].at = "find"]
  /\ moved' = {u \in People : new[u] # team[u]}
  /\ edits' = edits + 1
  /\ UNCHANGED <<phase, opening, books, bet, checked, carried, presses, slips>>

\* sub_for: the newcomer takes the seat of the one who leaves.
SubFor(leaver, newcomer) ==
  /\ MaySubstitute(leaver, newcomer)
  /\ Substitute([team EXCEPT ![leaver] = "out", ![newcomer] = team[leaver]])

\* sub_auto: the newcomer comes from the queue and both teams are split anew.
SubAuto(leaver, newcomer) ==
  /\ MaySubstitute(leaver, newcomer)
  /\ \E new \in [People -> Sides \cup {"out"}] :
       /\ \A u \in People :
            new[u] = "out" <=> (u = leaver \/ (team[u] = "out" /\ u # newcomer))
       /\ \A s \in Sides : Cardinality({u \in People : new[u] = s}) =
                           Cardinality({u \in People : new[u] # "out"}) \div 2
       /\ Substitute(new)

\* put: a moderator moves or adds one player, and nobody hears of it.
Put(u, side) ==
  /\ MayEdit /\ slips < MaxSlips
  /\ team[u] # side
  /\ team' = [team EXCEPT ![u] = side]
  /\ carried' = carried \cup {u}
  /\ slips' = slips + 1
  /\ UNCHANGED <<phase, opening, books, bet, checked, task, moved, presses, edits>>

----------------------------------------------------------------------------
\* Closing a book, whoever does it.

OneSided(p) == \E s \in Sides : \A u \in People : bet[p][u].side # s
NobodyBet(p) == \A u \in People : bet[p][u] = NoBet

\* live_for_match returns the newest of these.
OpenForMatchOnly == {p \in Posts : post[p] = "open"}     \* mutant: frozen books are not looked for
LiveForMatch == {p \in Posts : post[p] \in Live}
Newest(p) == p \in LiveForMatch /\ \A q \in LiveForMatch : q <= p

\* What a task does after its book: a restart opens the next one, another task is done.
After(t) == task' = [task EXCEPT ![t] = IF t = "restart" THEN [Idle EXCEPT !.at = "open"] ELSE Idle]

\* The condition of claim_terminal's UPDATE.
ClaimableOpen(p) == post[p] = "open"     \* mutant: a frozen book is not claimed
Claimable(p) == post[p] \in Live /\ intent[p] = "none"

\* _close_book: stake the branch, or go on with it if the row already carries it.  A task
\* that finds another branch, or a book that has ended, returns without a word.
Claim(t) ==
  LET p == task[t].book
      branch == task[t].branch
  IN
  /\ task[t].at = "claim"
  /\ \/ /\ Claimable(p)
        /\ post' = [post EXCEPT ![p] = "frozen"] /\ intent' = [intent EXCEPT ![p] = branch]
        /\ task' = [task EXCEPT ![t].at = "money"]
     \/ /\ ~Claimable(p)
        /\ IF post[p] \in Live /\ intent[p] = branch
           THEN task' = [task EXCEPT ![t].at = "money"] ELSE After(t)
        /\ UNCHANGED books
  /\ UNCHANGED <<team, phase, opening, bet, checked, moved, carried, presses, edits, slips>>

\* The status a branch ends with; a settlement that nobody has won refunds.
Ending(p, branch) ==
  IF branch # "settle" THEN branch
  ELSE IF NobodyBet(p) \/ ~OneSided(p) THEN "resolved" ELSE "void"

\* The money has moved, then store.resolve, store.void or store.no_action: UPDATEs by id.
Finish(t) ==
  /\ task[t].at = "money"
  /\ post' = [post EXCEPT ![task[t].book] = Ending(task[t].book, task[t].branch)]
  /\ After(t)
  /\ UNCHANGED <<team, phase, opening, intent, bet, checked, moved, carried, presses, edits, slips>>

\* An error is logged and the task is over; a substitution whose restart failed stands.
Fails(t) ==
  /\ task[t].at # "no" /\ slips < MaxSlips
  /\ slips' = slips + 1
  /\ task' = [task EXCEPT ![t] = Idle]
  /\ IF t = "restart" THEN carried' = carried \cup moved /\ moved' = {} ELSE UNCHANGED <<moved, carried>>
  /\ UNCHANGED <<team, phase, opening, books, bet, checked, presses, edits>>

----------------------------------------------------------------------------
\* restart_for_match.

\* Without a live book there is nothing to restart.
RestartFind ==
  /\ task["restart"].at = "find"
  /\ \/ LiveForMatch = {} /\ task' = [task EXCEPT !["restart"] = Idle] /\ moved' = {}
     \/ /\ \E p \in Posts : Newest(p) /\ task' = [task EXCEPT !["restart"] =
                                    [at |-> "claim", book |-> p, branch |-> "void"]]
        /\ UNCHANGED moved
  /\ UNCHANGED <<team, phase, opening, books, bet, checked, carried, presses, edits, slips>>

RestartOpen ==
  /\ task["restart"].at = "open" /\ CreatePost
  /\ task' = [task EXCEPT !["restart"] = Idle] /\ moved' = {}
  /\ UNCHANGED <<team, phase, opening, checked, carried, presses, edits, slips>>

----------------------------------------------------------------------------
\* The end of the match.

\* finish_match and cancel take the match out of active_matches ...
MayEndAlways == phase = "live"     \* mutant: _editing_roster does not exclude
MayEnd == phase = "live" /\ task["restart"].at = "no"

\* ... with a winner ("reported") or without one: a draw, a cancellation ("dropped").
End(end) ==
  /\ MayEnd
  /\ phase' = end
  /\ task' = [task EXCEPT !["settle"].at = "find"]
  /\ UNCHANGED <<team, opening, books, bet, checked, moved, carried, presses, edits, slips>>

\* Only a reported winner settles a book.
Verdict == IF phase = "reported" THEN "settle" ELSE "void"

\* resolve_for_match and void_for_match: the newest book, still open or frozen.
SettleFind ==
  /\ task["settle"].at = "find"
  /\ \/ LiveForMatch = {} /\ task' = [task EXCEPT !["settle"] = Idle]
     \/ \E p \in Posts : Newest(p) /\ task' = [task EXCEPT !["settle"] =
                                 [at |-> "claim", book |-> p, branch |-> Verdict]]
  /\ UNCHANGED <<team, phase, opening, books, bet, checked, moved, carried, presses, edits, slips>>

----------------------------------------------------------------------------
\* The sweep.

\* _freeze: close_betting, then the pools; no bet changes in between.  A one-sided book goes
\* on to a refund, a two-sided one to store.freeze.
SweepClose(p) ==
  /\ task["sweep"].at = "no" /\ post[p] = "open"
  /\ post' = [post EXCEPT ![p] = "frozen"]
  /\ task' = [task EXCEPT !["sweep"] =
       IF OneSided(p) THEN [at |-> "claim", book |-> p, branch |-> "no_action"]
                      ELSE [at |-> "lock", book |-> p, branch |-> "none"]]
  /\ UNCHANGED <<team, phase, opening, intent, bet, checked, moved, carried, presses, edits, slips>>

\* store.freeze: an UPDATE by id, whatever the status has become meanwhile.
SweepLock ==
  /\ task["sweep"].at = "lock"
  /\ post' = [post EXCEPT ![task["sweep"].book] = "frozen"]
  /\ task' = [task EXCEPT !["sweep"] = Idle]
  /\ UNCHANGED <<team, phase, opening, intent, bet, checked, moved, carried, presses, edits, slips>>

\* _resume and the abandoned books, their grace abstracted to none: a staked refund is
\* finished; any other book is settled if the match has a winner and refunded if it has not.
SweepResume(p) ==
  /\ task["sweep"].at = "no" /\ post[p] = "frozen"
  /\ task' = [task EXCEPT !["sweep"] =
       IF intent[p] \in Refunds THEN [at |-> "money", book |-> p, branch |-> intent[p]]
                                ELSE [at |-> "claim", book |-> p, branch |-> Verdict]]
  /\ UNCHANGED <<team, phase, opening, books, bet, checked, moved, carried, presses, edits, slips>>

----------------------------------------------------------------------------
Press ==
  \/ \E u \in People, p \in Posts : CancelBet(u, p) \/ \E side \in Sides : Check(u, p, side)
  \/ \E x \in checked : PlaceBet(x)

Edit ==
  \/ \E u, v \in People : SubFor(u, v) \/ SubAuto(u, v)
  \/ \E u \in People, side \in Sides : Put(u, side)

Sweep ==
  \/ \E p \in Posts : SweepClose(p) \/ SweepResume(p)
  \/ SweepLock

Next ==
  \/ OpenForMatch \/ Press \/ Edit
  \/ \E end \in {"reported", "dropped"} : End(end)
  \/ RestartFind \/ RestartOpen \/ SettleFind \/ Sweep
  \/ \E t \in Tasks : Claim(t) \/ Finish(t) \/ Fails(t)

Spec == Init /\ [][Next]_vars

----------------------------------------------------------------------------
\* Properties.

\* The books that may still be paid: not staked for a refund.
InPlay == {p \in Posts : intent[p] \notin Refunds}
OnOwnSide(u, p) == bet[p][u] # NoBet /\ team[u] \in Sides => bet[p][u].side = team[u]

\* Between roster changes no player holds a stake against himself on a book in play, however
\* presses, substitutions and the tasks that close books interleaved; only /put and a failed
\* restart excepted.
SubstitutesAreSafe == phase = "live" /\ task["restart"].at = "no" =>
  \A p \in InPlay : \A u \in People \ carried : OnOwnSide(u, p)

\* The betting report names who backed himself: is_player on a paid book is still true of
\* the roster that was reported, late presses included.
NamedBackThemselves == \A p \in Posts : post[p] = "resolved" =>
  \A u \in People \ carried : bet[p][u].player => bet[p][u].side = team[u]

\* However often a match is restarted, and even when restart_for_match loses its claim and
\* opens a second book beside a live one, all its books but one are staked for a refund.
OneBookInPlay == Cardinality(InPlay) <= 1

\* Why: a book in play agrees with the teams, and so do the presses that may yet land on it,
\* for everybody the substitution in progress does not move.
Agrees(u, p) ==
  /\ phase = "live" => OnOwnSide(u, p)
  /\ bet[p][u].player => bet[p][u].side = team[u]
  /\ \A x \in checked : x.post = p /\ x.user = u =>
       /\ phase = "live" /\ team[u] \in Sides => x.side = team[u]
       /\ x.player => x.side = team[u]

InPlayAgree == \A p \in InPlay : \A u \in People \ (carried \cup moved) : Agrees(u, p)

\* A book is opened when no other is in play.
InPlayIsNewest == \A p \in InPlay : p = Len(post)

\* A row that has ended had a branch staked; only a match that is over is settled.
RowsAgree == \A p \in Posts :
  /\ intent[p] = "none" => post[p] \in Live
  /\ intent[p] # "none" => post[p] # "open"
  /\ post[p] = "resolved" => intent[p] = "settle"
  /\ intent[p] = "settle" => phase = "reported"

\* Every task holds a row, and moves money for the branch staked on it.
TaskAgrees(t) ==
  /\ task[t].at \in {"claim", "money", "lock"} => task[t].book \in Posts
  /\ task[t].at \in {"claim", "money"} => task[t].branch # "none"
  /\ task[t].branch = "settle" => phase = "reported"
  /\ task[t].at = "money" => intent[task[t].book] = task[t].branch
  /\ task[t].at = "lock" => post[task[t].book] # "open"

TasksAgree == \A t \in Tasks : TaskAgrees(t)

\* The steps of a restart: its book is the only one in play, and then there is none.
RestartAgrees ==
  /\ opening => post = <<>>
  /\ task["restart"].at = "no" => moved = {}
  /\ task["restart"].at # "no" => phase = "live"
  /\ task["restart"].at = "claim" => task["restart"].branch = "void" /\ InPlay \subseteq {task["restart"].book}
  /\ task["restart"].at \in {"money", "open"} => ~opening /\ InPlay = {}

PressesAgree == \A x \in checked : x.post \in Posts

IInv == /\ TypeOK /\ InPlayAgree /\ InPlayIsNewest /\ RowsAgree /\ TasksAgree
        /\ RestartAgrees /\ PressesAgree

----------------------------------------------------------------------------
\* What the docs say and the code does not keep.

\* docs/GOLD.md: "A press on the opponent is refused. This is what makes it impossible to
\* profit by losing."
NobodyProfitsByLosing == \A p \in Posts : post[p] = "resolved" => \A u \in People : OnOwnSide(u, p)
=============================================================================
