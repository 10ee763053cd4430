-------------------------------- MODULE Quiz --------------------------------
(***************************************************************************)
(* The daily quiz (nammaoe2bot/features/quiz): the one job that posts,     *)
(* reveals, grades, pays and closes, the votes that arrive meanwhile, the  *)
(* switch on the web page, failures at any await and crashes.  Every       *)
(* channel here is the only one of its community.  Times are compared, so  *)
(* a deadline is over or not; the date is a counter.                       *)
(***************************************************************************)
EXTENDS Integers, FiniteSets, FiniteSetsExt

CONSTANTS
  Users,
  Rich,       \* those of them whose wallet may be at the ceiling of the faucets
  Channels,
  Options,    \* the options of a card
  Right,      \* the one that is correct
  DaysInWeek, \* DAYS_PER_WEEK, 7 in the code
  MaxPosts,   \* bound: posts in all
  MaxDays,    \* bound: dates
  MaxPresses, \* bound: presses on their way at a time
  MaxFaults   \* bound: failed awaits and crashes

None == "none"

ASSUME ChannelsAssumption == None \notin Channels
ASSUME OptionsAssumption == Right \in Options /\ Rich \subseteq Users
ASSUME BoundsAssumption ==
  /\ DaysInWeek \in Nat \ {0} /\ MaxPosts \in Nat /\ MaxDays \in Nat \ {0} /\ MaxPresses \in Nat /\ MaxFaults \in Nat

VARIABLES
  today,    \* the date
  enabled,  \* quiz_settings.enabled
  lastDay,  \* quiz_settings.last_post_ymd, 0 before the first
  lastWeek, \* quiz_settings.last_leaderboard_week
  post,     \* quiz_posts
  answer,   \* quiz_answers
  paid,     \* gold_ledger rows with the key quiz:{post}:{user}
  press,    \* the post of a vote between the router's read and the store's transaction, 0 for none
  job,      \* QuizJobs._run, between two awaits
  boards,   \* history: leaderboards sent, by channel and week
  faults    \* failures and crashes so far

settings == <<enabled, lastDay, lastWeek>>
vars == <<today, settings, post, answer, paid, press, job, boards, faults>>

Posts == 1..MaxPosts
Verdicts == {None, "correct", "played"}

\* due: now >= closes_at.  sent: the card is in the channel, with its buttons.
NoPost == [status |-> None, channel |-> None, seq |-> 0, due |-> FALSE, sent |-> FALSE]
PostRow == [status : {None, "open", "closed"}, channel : Channels \cup {None}, seq : 0..MaxPosts, due : BOOLEAN, sent : BOOLEAN]

\* No row and a row without a vote are one: answers_for_post reads neither.
NoVote == [choice |-> None, grade |-> None]

\* left: configs the pass has not come to; posts: due posts it has not come to.  votes: the
\* snapshot of the reveal; todo: its voters not graded or not paid yet.  date: now, at the start.
NoVotes == [u \in Users |-> None]
Idle == [at |-> "idle", channel |-> None, left |-> {}, posts |-> {}, post |-> 0, fresh |-> FALSE,
         votes |-> NoVotes, todo |-> {}, failed |-> FALSE, date |-> 0, due |-> {}]
Steps == {"idle", "configs", "clamp", "snapshot", "grade", "pay", "close", "board", "next",
          "create", "send", "claim", "due", "next_due"}

TypeOK ==
  /\ today \in 1..MaxDays /\ enabled \in [Channels -> BOOLEAN]
  /\ lastDay \in [Channels -> 0..MaxDays] /\ lastWeek \in [Channels -> 0..MaxPosts]
  /\ post \in [Posts -> PostRow]
  /\ answer \in [Posts -> [Users -> [choice : Options \cup {None}, grade : Verdicts]]]
  /\ paid \in [Posts -> [Users -> Verdicts]]
  /\ press \in [Users -> 0..MaxPosts]
  /\ job \in [at : Steps, channel : Channels \cup {None}, left : SUBSET Channels, posts : SUBSET Posts,
              post : 0..MaxPosts, fresh : BOOLEAN, votes : [Users -> Options \cup {None}],
              todo : SUBSET Users, failed : BOOLEAN, date : 0..MaxDays, due : SUBSET Posts]
  /\ boards \in [Channels -> [Posts -> Nat]]
  /\ faults \in 0..MaxFaults

Init ==
  /\ today = 1 /\ enabled \in [Channels -> BOOLEAN]
  /\ lastDay = [c \in Channels |-> 0] /\ lastWeek = [c \in Channels |-> 0]
  /\ post = [p \in Posts |-> NoPost]
  /\ answer = [p \in Posts |-> [u \in Users |-> NoVote]]
  /\ paid = [p \in Posts |-> [u \in Users |-> None]]
  /\ press = [u \in Users |-> 0]
  /\ job = Idle
  /\ boards = [c \in Channels |-> [w \in Posts |-> 0]]
  /\ faults = 0

----------------------------------------------------------------------------
\* The calendar and the banks.

Open == {p \in Posts : post[p].status = "open"}
PostsOf(c) == {p \in Posts : post[p].channel = c}

\* max posted seq + 1
NextSeq(c) == Max({post[p].seq : p \in PostsOf(c)} \cup {0}) + 1

\* completed_weeks: every seq of the week is posted.
CompletedWeeks(c) ==
  {w \in Posts : ((w - 1) * DaysInWeek + 1)..(w * DaysInWeek) \subseteq {post[p].seq : p \in PostsOf(c)}}

Free == {p \in Posts : post[p].status = None}

----------------------------------------------------------------------------
\* Votes.

\* The fast path of the router: the row it reads may change before the vote is written.
Press(u, p) ==
  /\ press[u] = 0 /\ Cardinality({v \in Users : press[v] # 0}) < MaxPresses
  /\ p \in Open /\ post[p].sent /\ ~post[p].due
  /\ press' = [press EXCEPT ![u] = p]
  /\ UNCHANGED <<today, settings, post, answer, paid, job, boards, faults>>

\* A bug: the store relies on what the router has read.
OpenAtThePress(p) == p \in Posts

\* _open_for_voting, under the lock of the post's row and with a clock read under it.
OpenForVoting(p) == p \in Open /\ ~post[p].due

\* record_vote: a vote replaces the vote before, and its grade.
Vote(u) ==
  /\ press[u] # 0 /\ press' = [press EXCEPT ![u] = 0]
  /\ \/ /\ OpenForVoting(press[u])
        /\ \E choice \in Options : answer' = [answer EXCEPT ![press[u]][u] = [choice |-> choice, grade |-> None]]
     \/ ~OpenForVoting(press[u]) /\ answer' = answer
  /\ UNCHANGED <<today, settings, post, paid, job, boards, faults>>

----------------------------------------------------------------------------
\* The job.  At(step): it goes on from there; the rest of a step's assignments follow.

At(step) == job.at = step
Go(next) == job' = next
Rest(step) == [job EXCEPT !.at = step]

\* think, and the query of enabled_configs.
Start ==
  /\ At("idle")
  /\ Go([Idle EXCEPT !.at = "configs", !.date = today, !.left = {c \in Channels : enabled[c]},
                     !.due = {p \in Open : post[p].due}])
  /\ UNCHANGED <<today, settings, post, answer, paid, press, boards, faults>>

DailyDue(c) == lastDay[c] # job.date

\* The post revealed before c's next question is its latest that is open; none on the first day.
Latest(c) == PostsOf(c) \cap Open
RevealPrevious(c) ==
  IF Latest(c) = {} THEN [job EXCEPT !.at = "board", !.channel = c]
  ELSE [job EXCEPT !.at = "clamp", !.channel = c, !.post = Max(Latest(c)), !.fresh = TRUE]

\* The next enabled channel; _maybe_post_daily returns when its day is not due.
NextConfig ==
  /\ At("configs")
  /\ \/ \E c \in job.left :
          LET left == [job EXCEPT !.left = @ \ {c}]
          IN Go(IF DailyDue(c) THEN [RevealPrevious(c) EXCEPT !.left = left.left] ELSE left)
     \/ job.left = {} /\ Go(Rest("due"))
  /\ UNCHANGED <<today, settings, post, answer, paid, press, boards, faults>>

\* A bug: the snapshot is read before the door is shut.
SnapshotOpen ==
  /\ At("clamp")
  /\ LET votes == [u \in Users |-> answer[job.post][u].choice]
     IN Go([job EXCEPT !.at = "grade", !.votes = votes, !.todo = {u \in Users : votes[u] # None}])
  /\ UNCHANGED <<today, settings, post, answer, paid, press, boards, faults>>

\* _reveal shuts the door first.
Clamp ==
  /\ At("clamp")
  /\ post' = [post EXCEPT ![job.post].due = TRUE]
  /\ Go(Rest("snapshot"))
  /\ UNCHANGED <<today, settings, answer, paid, press, boards, faults>>

Snapshot ==
  /\ At("snapshot")
  /\ LET votes == [u \in Users |-> answer[job.post][u].choice]
     IN Go([job EXCEPT !.at = "grade", !.votes = votes, !.todo = {u \in Users : votes[u] # None}])
  /\ UNCHANGED <<today, settings, post, answer, paid, press, boards, faults>>

Voters == {u \in Users : job.votes[u] # None}
Grade(u) == IF job.votes[u] = Right THEN "correct" ELSE "played"

WriteGrade ==
  /\ At("grade")
  /\ \/ \E u \in job.todo :
          /\ answer' = [answer EXCEPT ![job.post][u].grade = Grade(u)]
          /\ Go(IF job.todo = {u} THEN [job EXCEPT !.at = "pay", !.todo = Voters] ELSE [job EXCEPT !.todo = @ \ {u}])
     \/ job.todo = {} /\ Go(Rest("pay")) /\ answer' = answer
  /\ UNCHANGED <<today, settings, post, paid, press, boards, faults>>

\* grant_quiz_reward: one row per post and user, and none for a wallet that is full.
Grant(u) ==
  \/ paid[job.post][u] = None /\ paid' = [paid EXCEPT ![job.post][u] = Grade(u)]
  \/ (paid[job.post][u] # None \/ u \in Rich) /\ paid' = paid

\* The channel's turn is over.
NextChannel == [job EXCEPT !.at = "configs", !.channel = None, !.post = 0]

\* A bug: a payment that failed does not keep the post open.
CloseUnpaid ==
  /\ At("pay") /\ job.todo = {}
  /\ Go(Rest("close"))
  /\ UNCHANGED <<today, settings, post, answer, paid, press, boards, faults>>

\* Payments that failed raise once all were tried: the reveal ends, the post stays open.
Unresolved == [job EXCEPT !.at = IF job.fresh THEN "board" ELSE "next_due", !.fresh = FALSE, !.failed = FALSE,
                          !.post = 0, !.votes = NoVotes, !.todo = {}]

Paid ==
  /\ At("pay") /\ job.todo = {}
  /\ Go(IF job.failed THEN Unresolved ELSE Rest("close"))
  /\ UNCHANGED <<today, settings, post, answer, paid, press, boards, faults>>

Pay ==
  /\ At("pay")
  /\ \E u \in job.todo :
       /\ \/ Grant(u) /\ Go([job EXCEPT !.todo = @ \ {u}]) /\ faults' = faults
          \/ /\ faults < MaxFaults /\ faults' = faults + 1
             /\ Go([job EXCEPT !.todo = @ \ {u}, !.failed = TRUE])
             /\ paid' = paid
  /\ UNCHANGED <<today, settings, post, answer, press, boards>>

\* The card is edited, whatever Discord says to that, the answer is announced, and the post is closed.
ClosePost ==
  /\ At("close")
  /\ post' = [post EXCEPT ![job.post].status = "closed"]
  /\ Go(Unresolved)
  /\ UNCHANGED <<today, settings, answer, paid, press, boards, faults>>

\* A bug: the week is noted once its board is sent.
BoardThenNote ==
  /\ At("board")
  /\ LET weeks == {w \in CompletedWeeks(job.channel) : w > lastWeek[job.channel]} IN
     \/ weeks = {} /\ Go(Rest("next")) /\ UNCHANGED <<lastWeek, boards>>
     \/ /\ weeks # {}
        /\ boards' = [boards EXCEPT ![job.channel][Min(weeks)] = @ + 1]
        /\ Go(NextChannel) /\ lastWeek' = lastWeek
  /\ UNCHANGED <<today, enabled, lastDay, post, answer, paid, press, faults>>

\* _maybe_week_leaderboard: the week is noted, then its board is sent or the send fails, for every
\* week completed; last is read once.
Board ==
  /\ At("board")
  /\ LET weeks == {w \in CompletedWeeks(job.channel) : w > lastWeek[job.channel]} IN
     \/ weeks = {} /\ Go(Rest("next")) /\ UNCHANGED <<lastWeek, boards, faults>>
     \/ /\ weeks # {}
        /\ lastWeek' = [lastWeek EXCEPT ![job.channel] = Min(weeks)]
        /\ \/ boards' = [boards EXCEPT ![job.channel][Min(weeks)] = @ + 1] /\ job' = job /\ faults' = faults
           \/ /\ faults < MaxFaults /\ faults' = faults + 1
              /\ boards' = boards /\ Go(NextChannel)
  /\ UNCHANGED <<today, enabled, lastDay, post, answer, paid, press>>

\* next_up: a player question if a board can carry a fair one, else a game question not yet asked;
\* without either (or a free id, a bound) the channel has no quiz today.
Draw ==
  /\ At("next")
  /\ \/ Go(NextChannel)
     \/ Free # {} /\ Go(Rest("create"))
  /\ UNCHANGED <<today, settings, post, answer, paid, press, boards, faults>>

CreatePost ==
  /\ At("create")
  /\ post' = [post EXCEPT ![Min(Free)] =
                [status |-> "open", channel |-> job.channel, seq |-> NextSeq(job.channel), due |-> FALSE, sent |-> FALSE]]
  /\ Go([job EXCEPT !.at = "send", !.post = Min(Free)])
  /\ UNCHANGED <<today, settings, answer, paid, press, boards, faults>>

Send ==
  /\ At("send")
  /\ post' = [post EXCEPT ![job.post].sent = TRUE]
  /\ Go(Rest("claim"))
  /\ UNCHANGED <<today, settings, answer, paid, press, boards, faults>>

\* set_message_id and upsert_config: the day is claimed after the card is in the channel.
ClaimDay ==
  /\ At("claim")
  /\ lastDay' = [lastDay EXCEPT ![job.channel] = job.date]
  /\ Go(NextChannel)
  /\ UNCHANGED <<today, enabled, lastWeek, post, answer, paid, press, boards, faults>>

\* A bug: only posts whose card is in the channel are looked for.
DueToCloseSent ==
  /\ At("due")
  /\ Go([job EXCEPT !.at = "next_due", !.posts = {p \in Open : post[p].due /\ post[p].sent}, !.due = {}, !.date = 0])
  /\ UNCHANGED <<today, settings, post, answer, paid, press, boards, faults>>

\* due_to_close, with the clock of the start: what became due since then may be in it or not.
DueToClose ==
  /\ At("due")
  /\ \E more \in SUBSET ({p \in Open : post[p].due} \ job.due) :
       Go([job EXCEPT !.at = "next_due", !.posts = more \cup (job.due \cap Open), !.due = {}, !.date = 0])
  /\ UNCHANGED <<today, settings, post, answer, paid, press, boards, faults>>

NextDue ==
  /\ At("next_due")
  /\ Go(IF job.posts = {} THEN Idle
        ELSE [job EXCEPT !.at = "clamp", !.post = Min(job.posts), !.posts = @ \ {Min(job.posts)}])
  /\ UNCHANGED <<today, settings, post, answer, paid, press, boards, faults>>

\* An await raises.  A reveal that fails lets the pass go on, a channel that fails ends with itself,
\* anything else ends the pass.
Fail ==
  /\ faults < MaxFaults /\ faults' = faults + 1
  /\ \/ job.at \in {"clamp", "snapshot", "grade", "close"} /\ Go(Unresolved)
     \/ job.at \in {"board", "next", "create", "send", "claim"} /\ Go(NextChannel)
     \/ job.at \in {"configs", "due"} /\ Go(Idle)
  /\ UNCHANGED <<today, settings, post, answer, paid, press, boards>>

\* The process is killed.
Crash ==
  /\ faults < MaxFaults /\ faults' = faults + 1
  /\ job # Idle
  /\ Go(Idle) /\ press' = [u \in Users |-> 0]
  /\ UNCHANGED <<today, settings, post, answer, paid, boards>>

----------------------------------------------------------------------------
\* Time, and the switch.

Expire(p) ==
  /\ p \in Open /\ ~post[p].due
  /\ post' = [post EXCEPT ![p].due = TRUE]
  /\ UNCHANGED <<today, settings, answer, paid, press, job, boards, faults>>

NewDay ==
  /\ today < MaxDays /\ today' = today + 1
  /\ UNCHANGED <<settings, post, answer, paid, press, job, boards, faults>>

\* configure_for_community and disable_for_community.
Switch(c) ==
  /\ enabled' = [enabled EXCEPT ![c] = ~@]
  /\ UNCHANGED <<today, lastDay, lastWeek, post, answer, paid, press, job, boards, faults>>

Job ==
  \/ Start \/ NextConfig \/ Clamp \/ Snapshot \/ WriteGrade \/ Paid \/ Pay \/ ClosePost
  \/ Board \/ Draw \/ CreatePost \/ Send \/ ClaimDay \/ DueToClose \/ NextDue

Next ==
  \/ Job \/ Fail \/ Crash \/ NewDay
  \/ \E c \in Channels : Switch(c)
  \/ \E p \in Posts : Expire(p) \/ \E u \in Users : Press(u, p)
  \/ \E u \in Users : Vote(u)

Spec == Init /\ [][Next]_vars

\* on_think starts a pass when none runs and next_run has come, which is at most a day away.
FairSpec == Spec /\ WF_vars(Job)

----------------------------------------------------------------------------

\* Every vote on a closed post is graded as it was cast: none came after the snapshot and none
\* was changed after its grade ("never graded, never paid, and undetectable", store.record_vote).
GradedAsCast ==
  \A p \in Posts, u \in Users :
    post[p].status = "closed" =>
      answer[p][u].grade = IF answer[p][u].choice = None THEN None
                           ELSE IF answer[p][u].choice = Right THEN "correct" ELSE "played"

\* Money first, terminal status last: on a closed post whoever voted has been paid what his grade
\* says or was at the ceiling, whatever failed and however often it was revealed; nobody else was.
ClosedIsPaid ==
  \A p \in Posts, u \in Users :
    post[p].status = "closed" =>
      \/ paid[p][u] = answer[p][u].grade
      \/ paid[p][u] = None /\ u \in Rich

\* A closed post is closed for good: no vote, no grade and no gold.
ClosedIsFinal ==
  [][\A p \in Posts : post[p].status = "closed" =>
       post'[p].status = "closed" /\ answer'[p] = answer[p] /\ paid'[p] = paid[p]]_vars

\* The leaderboard of a week is sent once at most, and never before the week is over.
BoardOnce ==
  \A c \in Channels, w \in Posts :
    /\ boards[c][w] <= 1
    /\ boards[c][w] = 1 => w \in CompletedWeeks(c)

\* A post past its deadline is closed in the end, whatever failed while it was revealed: being open
\* past the deadline is the retry ticket.
DueIsClosed == \A p \in Posts : (p \in Open /\ post[p].due) ~> (p \notin Open)
=============================================================================
