------------------------------ MODULE Betting ------------------------------
(***************************************************************************)
(* The audience book of a ranked match (nammaoe2bot/features/betting).     *)
(* Rows of MySQL are state that survives a crash; the tasks of the asyncio *)
(* process are not.  A task runs from one await to the next, so each       *)
(* action below is what one task does between two awaits: one database     *)
(* transaction and the assignments around it.                              *)
(*                                                                         *)
(* Users press buttons (PlaceBet, CancelBet).  Each match has at most one  *)
(* settlement task at a time, because match.py's flags exclude a roster    *)
(* change, a report and a cancellation from each other; PredictionJobs has *)
(* one background sweep, which runs beside all of them.  Between two       *)
(* passes it waits fifteen seconds or, when no book is live, a day: time   *)
(* is not modelled, so a pass may start whenever the last one has ended.   *)
(***************************************************************************)
EXTENDS Scoring

CONSTANTS
  Matches,      \* ranked matches with predictions enabled
  PostIds,      \* ids prediction_posts can hand out (AUTO_INCREMENT)
  Sweep,        \* the PredictionJobs background task
  MaxStake,     \* bound: most gold one user can have on one book
  MaxFaults,    \* bound: crashes, errors and channels without a community in a behaviour
  MaxUndos      \* bound: results removed by /undo_match in a behaviour

ASSUME PostIdsAssumption == PostIds \subseteq Nat
ASSUME SweepAssumption == Sweep \notin Matches
ASSUME BoundsAssumption == MaxStake \in Nat /\ MaxFaults \in Nat /\ MaxUndos \in Nat

Actors == Matches \cup {Sweep}
Intents == {"settle", "void", "no_action"}
Terminal == {"resolved", "void", "no_action"}
Live == {"open", "frozen"}
None == "none"

NoBet == [side |-> "team0", stake |-> 0]
Book == [Users -> [side : Sides, stake : 0..MaxStake]]
EmptyBook == [u \in Users |-> NoBet]

VARIABLES
  post,      \* prediction_posts: match, status and terminal_intent of each id
  bet,       \* prediction_bets: side and stake of a user on a post
  ledger,    \* gold_ledger: the refund:{post}:{user} and payout:{post}:{user} rows
  launched,  \* lobbies.launched_at: matches with a confirmed game start
  recorded,  \* matches with a row in matches
  result,    \* the winner last written there: a side, "draw", or None
  undone,    \* matches whose row /undo_match has deleted at some time
  decided,   \* the winner each book was last settled for
  overruled, \* books that were settled for another winner before
  unrefunded,  \* books whose stakes were kept for want of a community
  phase,     \* the Match object: "forming", "live" (waiting report) or "over"
  opening,   \* matches whose "live" event has yet to insert their post
  task,      \* what each actor does next
  sweep,     \* PredictionJobs._run: the loop it is in and the rows it still holds
  faults, undos

matches == <<recorded, result, undone>>
verdicts == <<decided, overruled>>
rows == <<post, bet, ledger, launched, matches, verdicts, unrefunded>>
memory == <<phase, opening, task, sweep>>
vars == <<rows, memory, faults, undos>>

----------------------------------------------------------------------------
Idle == [pc |-> "idle", post |-> 0, intent |-> None, winner |-> None,
         snap |-> EmptyBook, left |-> {}, reopen |-> FALSE]

PCs == {"idle", "find", "claim", "bets", "money", "open", "close", "pools", "freeze"}

PostRow == [match : Matches \cup {None}, status : Live \cup Terminal \cup {None},
            intent : Intents \cup {None}]
Task == [pc : PCs, post : PostIds \cup {0}, intent : Intents \cup {None},
         winner : Sides \cup {"draw", None}, snap : Book, left : SUBSET Users, reopen : BOOLEAN]
Loop == [at : {"idle", "freeze", "resume", "abandon"}, todo : SUBSET PostIds,
         seen : [PostIds -> Intents \cup {None}]]

TypeOK ==
  /\ post \in [PostIds -> PostRow]
  /\ bet \in [PostIds -> Book]
  /\ \A r \in ledger : r.kind \in {"refund", "payout"} /\ r.post \in PostIds /\ r.user \in Users
  /\ launched \subseteq Matches /\ recorded \subseteq Matches /\ undone \subseteq Matches
  /\ decided \in [PostIds -> Sides \cup {None}]
  /\ overruled \subseteq PostIds /\ unrefunded \subseteq PostIds
  /\ opening \subseteq Matches
  /\ result \in [Matches -> Sides \cup {"draw", None}]
  /\ phase \in [Matches -> {"forming", "live", "over"}]
  /\ task \in [Actors -> Task]
  /\ sweep \in Loop
  /\ faults \in 0..MaxFaults /\ undos \in 0..MaxUndos

NoRows == [p \in PostIds |-> None]
SweepIdle == [at |-> "idle", todo |-> {}, seen |-> NoRows]

Init ==
  /\ post = [p \in PostIds |-> [match |-> None, status |-> None, intent |-> None]]
  /\ bet = [p \in PostIds |-> EmptyBook]
  /\ ledger = {} /\ launched = {} /\ opening = {}
  /\ recorded = {} /\ undone = {}
  /\ result = [m \in Matches |-> None]
  /\ decided = NoRows /\ overruled = {} /\ unrefunded = {}
  /\ phase = [m \in Matches |-> "forming"]
  /\ task = [a \in Actors |-> Idle]
  /\ sweep = SweepIdle
  /\ faults = 0 /\ undos = 0

----------------------------------------------------------------------------
\* Helpers shared by the actions.

Goto(a, pc) == task' = [task EXCEPT ![a].pc = pc]
Done(a) == task' = [task EXCEPT ![a] = Idle]

\* After the void of a roster change comes the new book; otherwise the task ends.
AfterBook(a) == task' = [task EXCEPT ![a] = IF task[a].reopen THEN [Idle EXCEPT !.pc = "open"]
                                                              ELSE Idle]

\* INSERT of an open post.  A full PostIds is the model's bound: the insert fails.
CreatePost(m) ==
  IF \A p \in PostIds : post[p].status # None
  THEN UNCHANGED post
  ELSE \E p \in PostIds :
         /\ post[p].status = None
         /\ \A q \in PostIds : q < p => post[q].status # None
         /\ post' = [post EXCEPT ![p] = [match |-> m, status |-> "open", intent |-> None]]

----------------------------------------------------------------------------
\* The match, as far as the book can see it (pickup/match).

\* start_waiting_report: the "live" event is emitted, _open_book is one of its handlers.
GoLive(m) ==
  /\ phase[m] = "forming"
  /\ phase' = [phase EXCEPT ![m] = "live"]
  /\ opening' = opening \cup {m}
  /\ UNCHANGED <<rows, task, sweep, faults, undos>>

\* open_for_match: the insert.
OpenForMatch(m) ==
  /\ m \in opening
  /\ CreatePost(m)
  /\ opening' = opening \ {m}
  /\ UNCHANGED <<bet, ledger, launched, matches, verdicts, unrefunded, phase, task, sweep, faults, undos>>

\* lobby/launch.py mark_confirmed; the lobby job keeps asking after the match is over.
Launch(m) ==
  /\ phase[m] # "forming" /\ m \notin launched
  /\ launched' = launched \cup {m}
  /\ UNCHANGED <<post, bet, ledger, matches, verdicts, unrefunded, memory, faults, undos>>

\* finish_match: result row committed and Match dropped, then "finished" -> resolve_for_match.
Report(m, w) ==
  /\ phase[m] = "live" /\ task[m].pc = "idle"
  /\ phase' = [phase EXCEPT ![m] = "over"]
  /\ recorded' = recorded \cup {m}
  /\ result' = [result EXCEPT ![m] = w]
  /\ task' = [task EXCEPT ![m] = [Idle EXCEPT !.pc = "find", !.winner = w,
                                              !.intent = IF w = "draw" THEN "void" ELSE "settle"]]
  /\ UNCHANGED <<post, bet, ledger, launched, undone, verdicts, unrefunded, opening, sweep, faults, undos>>

\* cancel: Match dropped, then "cancelled" -> void_for_match.
Cancel(m) ==
  /\ phase[m] = "live" /\ task[m].pc = "idle"
  /\ phase' = [phase EXCEPT ![m] = "over"]
  /\ task' = [task EXCEPT ![m] = [Idle EXCEPT !.pc = "find", !.intent = "void"]]
  /\ UNCHANGED <<rows, opening, sweep, faults, undos>>

\* sub_for, sub_auto: "roster_changed" -> restart_for_match.
RosterChange(m) ==
  /\ phase[m] = "live" /\ task[m].pc = "idle"
  /\ task' = [task EXCEPT ![m] = [Idle EXCEPT !.pc = "find", !.intent = "void", !.reopen = TRUE]]
  /\ UNCHANGED <<rows, phase, opening, sweep, faults, undos>>

\* stats.undo_match, an administrator's command: its last statement deletes the row.
UndoMatch(m) ==
  /\ undos < MaxUndos
  /\ m \in recorded
  /\ recorded' = recorded \ {m}
  /\ undone' = undone \cup {m}
  /\ undos' = undos + 1
  /\ UNCHANGED <<post, bet, ledger, launched, result, verdicts, unrefunded, memory, faults>>

----------------------------------------------------------------------------
\* Users.  Each is one transaction that locks the post row and re-reads its status.

AcceptsBetsAlways(p) == post[p].status # None     \* mutant: no re-read under the lock
AcceptsBets(p) == post[p].status = "open"

PlaceBet(u, p, side) ==
  /\ AcceptsBets(p)
  /\ bet[p][u].stake < MaxStake
  /\ bet[p][u].stake > 0 => bet[p][u].side = side
  /\ bet' = [bet EXCEPT ![p][u] = [side |-> side, stake |-> bet[p][u].stake + 1]]
  /\ UNCHANGED <<post, ledger, launched, matches, verdicts, unrefunded, memory, faults, undos>>

CancelBet(u, p) ==
  /\ AcceptsBets(p)
  /\ bet[p][u].stake > 0
  /\ bet' = [bet EXCEPT ![p][u] = NoBet]
  /\ UNCHANGED <<post, ledger, launched, matches, verdicts, unrefunded, memory, faults, undos>>

----------------------------------------------------------------------------
\* Steps every settlement goes through, whoever runs it.

\* store.live_for_match: the newest open or frozen post of the match.
LivePosts(m) == {p \in PostIds : post[p].match = m /\ post[p].status \in Live}

Find(m) ==
  /\ task[m].pc = "find"
  /\ \/ LivePosts(m) = {} /\ Done(m)
     \/ \E p \in LivePosts(m) :
          /\ \A q \in LivePosts(m) : q <= p
          /\ task' = [task EXCEPT ![m].pc = "claim", ![m].post = p]
  /\ UNCHANGED <<rows, phase, opening, sweep, faults, undos>>

\* The condition of the claim's UPDATE.
UnclaimedOrNot(p) == post[p].status \in Live     \* mutant: without terminal_intent IS NULL
Unclaimed(p) == post[p].status \in Live /\ post[p].intent = None

\* The branch is on the row and the winner is not: a book whose settlement broke off is settled
\* for whatever its match has reported meanwhile.
SettleFor(p, w) ==
  /\ decided' = [decided EXCEPT ![p] = w]
  /\ overruled' = IF decided[p] \in {None, w} THEN overruled ELSE overruled \cup {p}

\* store.claim_terminal: close the book and stake the branch in one compare-and-set;
\* the loser goes on only if the row already carries its own intent.
Claim(a) ==
  LET p == task[a].post
      mine == task[a].intent
      free == Unclaimed(p)
      ours == free \/ (post[p].status \in Live /\ post[p].intent = mine)
      \* _freeze has read the bets already; every other caller reads them next
      next == IF mine = "no_action" THEN "money" ELSE "bets"
  IN
  /\ task[a].pc = "claim"
  /\ post' = IF free THEN [post EXCEPT ![p].status = "frozen", ![p].intent = mine] ELSE post
  /\ IF ours THEN Goto(a, next) ELSE AfterBook(a)
  /\ IF ours /\ mine = "settle" THEN SettleFor(p, task[a].winner) ELSE UNCHANGED verdicts
  /\ UNCHANGED <<bet, ledger, launched, matches, unrefunded, phase, opening, sweep, faults, undos>>

\* The settlement pays winners; any other branch refunds.
PaysOut(b, intent, w) == intent = "settle" /\ Winners(b, w) # {}

\* store.bets_for, and from it who is owed: the winners, or every bettor.
EveryBettor(b, intent, w) == Bettors(b)     \* mutant: the losers are paid as well
Payees(b, intent, w) == IF PaysOut(b, intent, w) THEN Winners(b, w) ELSE Bettors(b)

ReadBets(a) ==
  LET b == bet[task[a].post] IN
  /\ task[a].pc = "bets"
  /\ task' = [task EXCEPT ![a].pc = "money", ![a].snap = b,
                          ![a].left = Payees(b, task[a].intent, task[a].winner)]
  /\ UNCHANGED <<rows, phase, opening, sweep, faults, undos>>

\* The ledger row one payee is owed under the snapshot b.
Owed(p, b, intent, w, u) ==
  IF PaysOut(b, intent, w)
  THEN [kind |-> "payout", post |-> p, user |-> u, amount |-> Share(b, w, u)]
  ELSE [kind |-> "refund", post |-> p, user |-> u, amount |-> b[u].stake]

\* mutant: an idem_key without the user
InsertPerPost(r) ==
  ledger' = IF \E old \in ledger : old.kind = r.kind /\ old.post = r.post
            THEN ledger ELSE ledger \cup {r}

\* INSERT IGNORE under the row's idem_key {kind}:{post}:{user}.
Insert(r) ==
  ledger' = IF \E old \in ledger : old.kind = r.kind /\ old.post = r.post /\ old.user = r.user
            THEN ledger ELSE ledger \cup {r}

\* gold._credit, once for each payee: refund_post and pay_post.
Credit(a, u) ==
  LET t == task[a] IN
  /\ t.pc = "money" /\ u \in t.left
  /\ Insert(Owed(t.post, t.snap, t.intent, t.winner, u))
  /\ task' = [task EXCEPT ![a].left = t.left \ {u}]
  /\ UNCHANGED <<post, bet, launched, matches, verdicts, unrefunded, phase, opening, sweep, faults, undos>>

\* _community_for_post finds none, before the first credit.  A payout is put off: the book stays
\* frozen and owed.  A refund is skipped, and the status is written all the same.
NoCommunity(a) ==
  LET t == task[a] IN
  /\ faults < MaxFaults
  /\ t.pc = "money" /\ t.left # {} /\ t.left = Payees(t.snap, t.intent, t.winner)
  /\ faults' = faults + 1
  /\ IF PaysOut(t.snap, t.intent, t.winner)
     THEN Done(a) /\ UNCHANGED unrefunded
     ELSE task' = [task EXCEPT ![a].left = {}] /\ unrefunded' = unrefunded \cup {t.post}
  /\ UNCHANGED <<post, bet, ledger, launched, matches, verdicts, phase, opening, sweep, undos>>

\* The status that goes with the money: store.resolve, store.void or store.no_action.
Outcome(b, intent, w) ==
  CASE intent = "no_action" -> "no_action"
    [] intent = "settle" /\ (Bettors(b) = {} \/ Winners(b, w) # {}) -> "resolved"
    [] OTHER -> "void"

Finish(a) ==
  LET t == task[a] IN
  /\ t.pc = "money" /\ t.left = {}
  /\ post' = [post EXCEPT ![t.post].status = Outcome(t.snap, t.intent, t.winner)]
  /\ AfterBook(a)
  /\ UNCHANGED <<bet, ledger, launched, matches, verdicts, unrefunded, phase, opening, sweep, faults, undos>>

\* restart_for_match: the fresh book.
Reopen(m) ==
  /\ task[m].pc = "open"
  /\ CreatePost(m)
  /\ Done(m)
  /\ UNCHANGED <<bet, ledger, launched, matches, verdicts, unrefunded, phase, opening, sweep, faults, undos>>

----------------------------------------------------------------------------
\* The sweep: freeze launched books, resume unsettled ones, refund abandoned ones.  Each
\* loop runs over the rows its query returned, oldest first, and those rows may be stale
\* by the time they are used.

Free == task[Sweep].pc = "idle"

\* Rows of a query, with the intent they carried when they were read.
Load(at, S) == sweep' = [at |-> at, todo |-> S,
                         seen |-> [p \in PostIds |-> IF p \in S THEN post[p].intent ELSE None]]

\* store.unsettled_books and store.abandoned_books; their ten minutes and twelve hours of
\* grace are abstracted to none.
UnsettledBooks == {p \in PostIds : post[p].status = "frozen" /\ post[p].match \in recorded}
UnstakedBooks ==     \* mutant: only books whose branch was never claimed
  {p \in PostIds : post[p].status = "frozen" /\ post[p].match \notin recorded /\ post[p].intent = None}
AbandonedBooks == {p \in PostIds : post[p].status = "frozen" /\ post[p].match \notin recorded}

\* open_posts, then launched_among (neither fact is ever withdrawn, so one step).
SweepStart ==
  /\ sweep.at = "idle"
  /\ Load("freeze", {p \in PostIds : post[p].status = "open" /\ post[p].match \in launched})
  /\ UNCHANGED <<rows, phase, opening, task, faults, undos>>

SweepUnsettled ==
  /\ sweep.at = "freeze" /\ sweep.todo = {} /\ Free
  /\ Load("resume", UnsettledBooks)
  /\ UNCHANGED <<rows, phase, opening, task, faults, undos>>

SweepAbandoned ==
  /\ sweep.at = "resume" /\ sweep.todo = {} /\ Free
  /\ Load("abandon", AbandonedBooks)
  /\ UNCHANGED <<rows, phase, opening, task, faults, undos>>

\* has_live_books sets the time of the next pass.
SweepEnd ==
  /\ sweep.at = "abandon" /\ sweep.todo = {} /\ Free
  /\ sweep' = SweepIdle
  /\ UNCHANGED <<rows, phase, opening, task, faults, undos>>

\* The next row: _freeze, _resume, or the abandoned loop's dispatch.  A row read with
\* a refund intent is finished on that branch without another claim.  (The winner was read
\* with the row; only a crash, which ends the loop, lets a match report again.)
SweepNext ==
  \E p \in sweep.todo :
    /\ Free /\ \A q \in sweep.todo : p <= q
    /\ LET m == post[p].match
           w == IF sweep.at = "resume" THEN result[m] ELSE None
           t == [Idle EXCEPT !.post = p, !.winner = w]
       IN task' = [task EXCEPT ![Sweep] =
            IF sweep.at = "freeze" THEN [t EXCEPT !.pc = "close"]
            ELSE IF sweep.seen[p] \in {"void", "no_action"}
                 THEN [t EXCEPT !.pc = "bets", !.intent = sweep.seen[p]]
                 ELSE [t EXCEPT !.pc = "claim",
                                !.intent = IF w \in Sides THEN "settle" ELSE "void"]]
    /\ sweep' = [sweep EXCEPT !.todo = @ \ {p}, !.seen[p] = None]
    /\ UNCHANGED <<rows, phase, opening, faults, undos>>

\* store.close_betting: compare-and-set open -> frozen.
CloseBetting ==
  LET p == task[Sweep].post IN
  /\ task[Sweep].pc = "close"
  /\ IF post[p].status = "open"
     THEN post' = [post EXCEPT ![p].status = "frozen"] /\ Goto(Sweep, "pools")
     ELSE UNCHANGED post /\ Done(Sweep)
  /\ UNCHANGED <<bet, ledger, launched, matches, verdicts, unrefunded, phase, opening, sweep, faults, undos>>

\* bets_for and pools: a one-sided book claims no_action, a two-sided one waits.
ReadPools ==
  LET b == bet[task[Sweep].post] IN
  /\ task[Sweep].pc = "pools"
  /\ task' = [task EXCEPT ![Sweep] =
       IF OneSided(b) THEN [@ EXCEPT !.pc = "claim", !.intent = "no_action",
                                     !.snap = b, !.left = Bettors(b)]
                      ELSE [@ EXCEPT !.pc = "freeze"]]
  /\ UNCHANGED <<rows, phase, opening, sweep, faults, undos>>

\* store.freeze: an UPDATE by id, whatever the status has become meanwhile.
Freeze ==
  /\ task[Sweep].pc = "freeze"
  /\ post' = [post EXCEPT ![task[Sweep].post].status = "frozen"]
  /\ Done(Sweep)
  /\ UNCHANGED <<bet, ledger, launched, matches, verdicts, unrefunded, phase, opening, sweep, faults, undos>>

----------------------------------------------------------------------------
\* Faults.

\* An exception in a step: the handler logs it and drops the book it was working on.
Fail(a) ==
  /\ faults < MaxFaults
  /\ task[a].pc # "idle"
  /\ faults' = faults + 1
  /\ Done(a)
  /\ UNCHANGED <<rows, phase, opening, sweep, undos>>

\* A query of the sweep itself raised: _run ends early and a later tick starts again.
SweepFail ==
  /\ faults < MaxFaults
  /\ sweep.at # "idle" /\ Free
  /\ faults' = faults + 1
  /\ sweep' = SweepIdle
  /\ UNCHANGED <<rows, phase, opening, task, undos>>

\* A killed process.  The Match comes back from the last saved state: as it was, as it
\* was before a later change (not yet live, not yet cancelled, or not yet reported), or not
\* at all; one with a row in matches is not restored.
Restored(m) ==
  IF m \in recorded THEN {"over"}
  ELSE IF phase[m] = "forming" THEN {"forming", "over"}
  ELSE {"forming", "live", "over"}

Crash ==
  /\ faults < MaxFaults
  /\ faults' = faults + 1
  /\ phase' \in {f \in [Matches -> {"forming", "live", "over"}] : \A m \in Matches : f[m] \in Restored(m)}
  /\ opening' = {}
  /\ task' = [a \in Actors |-> Idle]
  /\ sweep' = SweepIdle
  /\ UNCHANGED <<rows, undos>>

----------------------------------------------------------------------------
MatchEvent(m) ==
  \/ GoLive(m) \/ Launch(m) \/ Cancel(m) \/ RosterChange(m) \/ UndoMatch(m)
  \/ \E w \in Sides \cup {"draw"} : Report(m, w)

Press(u) == \E p \in PostIds : CancelBet(u, p) \/ \E side \in Sides : PlaceBet(u, p, side)

Settle(a) == Claim(a) \/ ReadBets(a) \/ (\E u \in Users : Credit(a, u)) \/ Finish(a)

MatchTask(m) == OpenForMatch(m) \/ Find(m) \/ Settle(m) \/ Reopen(m)

SweepTask ==
  \/ SweepStart \/ SweepUnsettled \/ SweepAbandoned \/ SweepEnd
  \/ SweepNext \/ CloseBetting \/ ReadPools \/ Freeze \/ Settle(Sweep)

Next ==
  \/ \E m \in Matches : MatchEvent(m) \/ MatchTask(m)
  \/ \E u \in Users : Press(u)
  \/ SweepTask
  \/ SweepFail \/ Crash
  \/ \E a \in Actors : Fail(a) \/ NoCommunity(a)

\* The event loop runs every task that is ready, and think() restarts the sweep.
Fairness == WF_vars(SweepTask) /\ \A m \in Matches : WF_vars(MatchTask(m))

Spec == Init /\ [][Next]_vars
FairSpec == Spec /\ Fairness

----------------------------------------------------------------------------
\* Properties.

\* What book p owes on the branch staked on its row, should w have won.
Promised(p, w) ==
  LET b == bet[p]
      i == post[p].intent
  IN {Owed(p, b, i, w, u) : u \in Payees(b, i, w)}

\* The winners it was settled for: what a settlement paid before it broke off is not taken
\* back when the result is undone and the book settled for another.
SettledFor(p) == IF p \in overruled THEN Sides ELSE {decided[p]}

RowsOf(p) == {r \in ledger : r.post = p}

\* No book is both refunded and paid out, whichever tasks, retries and crashes shared the
\* settlement (store.claim_terminal: "what stops a refunded book also being paid out"),
\* not even one that was settled for two winners in turn.
RefundXorPayout == \A r, s \in ledger : r.post = s.post => r.kind = s.kind

\* Gold moves only on the staked branch, to the people and in the amounts that branch owes
\* for the stakes on record: a snapshot taken by any task is never out of date.
OnlyPromisedGold == \A p \in PostIds :
  RowsOf(p) \subseteq IF post[p].intent = None THEN {} ELSE UNION {Promised(p, w) : w \in SettledFor(p)}

\* "The post only leaves 'frozen' once the money it owed has been applied" (flow._settle):
\* a book that is resolved has paid everyone it owes for the winner it was last settled for; one
\* that is void or one-sided has paid everyone too, unless no community was found to refund in.
TerminalIsPaid == \A p \in PostIds : post[p].status \in Terminal =>
  Promised(p, decided[p]) \subseteq RowsOf(p) \/ (p \in unrefunded /\ post[p].status # "resolved")

\* Once betting has closed no press, late or stale, changes the book, and it never reopens.
ClosedForGood == [][\A p \in PostIds : post[p].status \in {"frozen"} \cup Terminal =>
                      bet'[p] = bet[p] /\ post'[p].status # "open"]_vars

\* terminal_intent is claimed once and never changes hands.
BranchIsFinal == [][\A p \in PostIds : post[p].intent # None => post'[p].intent = post[p].intent]_vars

\* Why it all holds: the rows, the rows the sweep still holds and the tasks agree.
\* A post has a match once it exists, a branch only once closed, a verdict only once reported.
RowsAgree == \A p \in PostIds :
  /\ post[p].status # None => post[p].match \in Matches
  /\ post[p].status \in {None, "open"} => post[p].intent = None
  /\ post[p].status \in Terminal => post[p].intent # None
  /\ post[p].intent = "settle" => decided[p] \in Sides
  /\ decided[p] # None =>
       post[p].intent = "settle" /\ (decided[p] = result[post[p].match] \/ post[p].match \in undone)

\* While a result stands, its match is over; one that does not stand was undone.
ResultsAgree == \A m \in Matches :
  IF m \in recorded THEN phase[m] = "over" ELSE result[m] # None => m \in undone

\* What the sweep read of a row it has yet to handle is still so.
SweepAgrees == \A p \in PostIds :
  /\ sweep.seen[p] # None => post[p].intent = sweep.seen[p]
  /\ p \in sweep.todo /\ sweep.at = "resume" => phase[post[p].match] = "over"
  /\ p \in sweep.todo => post[p].status # None

\* A task beyond the claim works on its own branch of a closed book, with the stakes and
\* the winner on record; what is not left to credit has been credited.
TaskAgrees(a) ==
  LET t == task[a]
      row == post[t.post]
  IN
  /\ t.pc \in {"find", "open"} \/ t.reopen => a \in Matches
  /\ t.pc \in {"close", "pools", "freeze"} => a = Sweep
  /\ t.pc = "find" => t.intent \in {"settle", "void"}
  /\ t.pc = "find" /\ t.intent = "settle" => t.winner = result[a] /\ t.winner \in Sides /\ phase[a] = "over"
  /\ t.pc \in {"claim", "bets", "money", "close", "pools", "freeze"} => t.post \in PostIds /\ row.status # None
  /\ t.pc \in {"claim", "bets", "money"} => t.intent # None
  /\ t.pc \in {"claim", "bets", "money"} /\ t.intent = "settle" =>
       t.winner = result[row.match] /\ t.winner \in Sides /\ phase[row.match] = "over"
  /\ t.pc \in {"bets", "money"} => row.intent = t.intent
  /\ t.pc \in {"bets", "money"} /\ t.intent = "settle" => t.winner = decided[t.post]
  /\ t.pc \in {"pools", "freeze"} => row.status # "open"
  /\ t.pc = "claim" /\ t.intent = "no_action" =>
       row.status # "open" /\ t.snap = bet[t.post] /\ t.left = Bettors(t.snap)
  /\ t.pc = "money" =>
       /\ t.snap = bet[t.post]
       /\ t.left \subseteq Payees(t.snap, t.intent, t.winner)
       /\ \/ t.post \in unrefunded /\ ~PaysOut(t.snap, t.intent, t.winner)
          \/ \A u \in Payees(t.snap, t.intent, t.winner) \ t.left :
               Owed(t.post, t.snap, t.intent, t.winner, u) \in ledger

IInv == /\ TypeOK /\ OnlyPromisedGold /\ TerminalIsPaid
        /\ RowsAgree /\ ResultsAgree /\ SweepAgrees
        /\ \A a \in Actors : TaskAgrees(a)

\* Staked to be paid for a result that was undone, and perhaps reported again as a draw: no
\* branch the sweep may choose is the one on the row.
Unpayable(p) ==
  /\ post[p].intent = "settle"
  /\ post[p].match \notin recorded \/ result[post[p].match] \notin Sides

\* The resume and abandon sweeps finish every frozen book whose match is gone, through
\* failures and restarts, unless /undo_match has taken away what it was to be paid for.
FrozenBookEnds == \A p \in PostIds :
  (post[p].status = "frozen" /\ phase[post[p].match] = "over")
    ~> (post[p].status \in Terminal \/ Unpayable(p))

\* The tasks together implement the promise made to the bettors.  The verdict is given by
\* the claim, not by the status: it stands from the statement that stakes the branch, until the
\* result is undone and the book settled for another.
Window == [p \in PostIds |-> CASE post[p].status = None -> "unopened"
                                [] post[p].status = "open" -> "open"
                                [] OTHER -> "closed"]
Verdict == [p \in PostIds |-> LET w == decided[p] IN
  CASE post[p].intent = None -> "none"
    [] PaysOut(bet[p], post[p].intent, w) -> w
    [] OTHER -> "refund"]

Revoked == {p \in PostIds : post[p].status # None /\ post[p].match \in undone}

Promise == INSTANCE BookPromise WITH
  window <- Window, stakes <- bet, verdict <- Verdict, moved <- ledger, revoked <- Revoked

KeepsPromise == Promise!Spec
=============================================================================
