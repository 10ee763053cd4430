---------------------------- MODULE QuizProofs ----------------------------
(***************************************************************************)
(* TLAPS proofs about Quiz, for any users, channels, options and bounds:   *)
(* what is closed is graded as it was cast, paid, and final, and the board *)
(* of a week is sent once.  What a reveal has read stays true while it     *)
(* goes on, because its post is past its deadline: no vote gets through.   *)
(***************************************************************************)
EXTENDS Quiz, WellFoundedInduction, TLAPS

Verdict(choice) == IF choice = None THEN None ELSE IF choice = Right THEN "correct" ELSE "played"

\* Posts are created in order, and numbered no faster than that.
PostWell(p) ==
  /\ post[p].status = None => post[p] = NoPost /\ \A q \in Posts : q > p => post[q].status = None
  /\ post[p].status # None => post[p].channel \in Channels
  /\ post[p].seq <= p

\* Nobody is paid before the deadline, nor but for the vote that is there.
VoteWell(p, u) ==
  /\ answer[p][u].choice = None => answer[p][u].grade = None
  /\ post[p].status = None => answer[p][u].choice = None
  /\ paid[p][u] # None => post[p].status # None /\ post[p].due /\ paid[p][u] = Verdict(answer[p][u].choice)
  /\ post[p].status = "closed" =>
       /\ answer[p][u].grade = Verdict(answer[p][u].choice)
       /\ paid[p][u] # None \/ answer[p][u].choice = None \/ u \in Rich

PostsWell == \A p \in Posts : PostWell(p)
VotesWell == \A p \in Posts, u \in Users : VoteWell(p, u)

\* The job works on open posts, each once, and shuts the door of one before it reads the votes.
Revealing == {"clamp", "snapshot", "grade", "pay", "close"}
Alone == {"configs", "board", "next", "create", "send", "claim", "due"}
OfChannel == {"board", "next", "create", "send", "claim"}
JobWell ==
  /\ job.posts \subseteq Open
  /\ job.fresh => job.at \in Revealing
  /\ job.fresh \/ job.at \in Alone => job.posts = {}
  /\ job.fresh \/ job.at \in OfChannel => job.channel \in Channels
  /\ job.at = "create" => Free # {}
  /\ job.at = "send" => job.post \in Posts /\ post[job.post].status # None
  /\ job.at \in Revealing => job.post \in Open \ job.posts
  /\ job.at \in Revealing \ {"clamp"} => post[job.post].due

\* What it has read is still true, and what it has done is there.
Graded(u) == answer[job.post][u].grade = Grade(u)
Settled(u) == paid[job.post][u] # None \/ u \in Rich
RevealWell(u) ==
  /\ job.at \in {"grade", "pay", "close"} => job.votes[u] = answer[job.post][u].choice
  /\ job.at \in {"grade", "pay", "close"} /\ u \in job.todo => job.votes[u] # None
  /\ job.at = "grade" /\ job.todo = {} => job.votes[u] = None
  /\ job.at = "grade" /\ job.votes[u] # None /\ u \notin job.todo => Graded(u)
  /\ job.at \in {"pay", "close"} /\ job.votes[u] # None => Graded(u)
  /\ job.at = "pay" /\ ~job.failed /\ job.votes[u] # None /\ u \notin job.todo => Settled(u)
  /\ job.at = "close" /\ job.votes[u] # None => Settled(u)
RevealsWell == \A u \in Users : RevealWell(u)

\* A board that has been sent is of a week that is noted.
BoardsWell ==
  \A c \in Channels, w \in Posts :
    boards[c][w] # 0 => boards[c][w] = 1 /\ w <= lastWeek[c] /\ w \in CompletedWeeks(c)

IInv == TypeOK /\ PostsWell /\ VotesWell /\ JobWell /\ RevealsWell /\ BoardsWell

----------------------------------------------------------------------------
\* The least and the largest of some numbers.

LEMMA MinIsIn ==
  ASSUME NEW S \in SUBSET Nat, S # {}
  PROVE  Min(S) \in S /\ \A x \in S : Min(S) <= x
<1>1. PICK x \in S : \A y \in S : ~(<<y, x>> \in OpToRel(<, Nat))
  BY WFMin, NatLessThanWellFounded, Zenon
<1>2. \A y \in S : <<y, x>> \notin {ss \in Nat \X Nat : ss[1] < ss[2]}
  BY <1>1, Zenon DEF OpToRel
<1>3. \A y \in S : ~(y < x)
  BY <1>2
<1>4. \A y \in S : x <= y
  BY <1>3
<1> QED
  BY <1>4 DEF Min

LEMMA MaxIsIn ==
  ASSUME NEW n \in Nat, NEW S \in SUBSET (0..n), S # {}
  PROVE  Max(S) \in S /\ \A x \in S : x <= Max(S)
<1> DEFINE T == {n - x : x \in S}
<1>1. PICK m \in T : \A y \in T : m <= y
  <2>1. \A x \in S : n - x \in Nat
    OBVIOUS
  <2>2. PICK x \in S : TRUE
    OBVIOUS
  <2>3. T \in SUBSET Nat /\ n - x \in T
    BY <2>1, <2>2
  <2> QED
    BY <2>3, MinIsIn
<1>2. PICK x \in S : m = n - x
  BY <1>1
<1>3. \A y \in S : y <= x
  BY <1>1, <1>2
<1> QED
  BY <1>3 DEF Max

----------------------------------------------------------------------------
\* Steps of the job that change nothing but what it knows.

JobType == [at : Steps, channel : Channels \cup {None}, left : SUBSET Channels, posts : SUBSET Posts,
            post : 0..MaxPosts, fresh : BOOLEAN, votes : [Users -> Options \cup {None}],
            todo : SUBSET Users, failed : BOOLEAN, date : 0..MaxDays, due : SUBSET Posts]

LEMMA FaultCounts ==
  ASSUME TypeOK, faults' = faults \/ (faults < MaxFaults /\ faults' = faults + 1)
  PROVE  faults' \in 0..MaxFaults
BY BoundsAssumption DEF TypeOK

LEMMA DataAlone ==
  ASSUME IInv, UNCHANGED <<settings, post, answer, paid, boards>>
  PROVE  PostsWell' /\ VotesWell' /\ BoardsWell' /\ Open' = Open /\ Free' = Free
BY DEF IInv, PostsWell, PostWell, VotesWell, VoteWell, BoardsWell, CompletedWeeks, PostsOf, Open, Free, settings

\* The job goes on with nothing in its hands.
LEMMA JobFrame ==
  ASSUME IInv, UNCHANGED <<today, settings, post, answer, paid, boards>>, job' \in JobType,
         press' \in [Users -> 0..MaxPosts], faults' \in 0..MaxFaults, JobWell', RevealsWell'
  PROVE  IInv'
<1>1. PostsWell' /\ VotesWell' /\ BoardsWell'
  BY DataAlone
<1>2. TypeOK'
  BY DEF IInv, TypeOK, JobType, settings
<1> QED
  BY <1>1, <1>2 DEF IInv

\* Where no reveal is, there is nothing to say of its votes.
LEMMA NoReveal ==
  ASSUME job'.at \notin {"grade", "pay", "close"}
  PROVE  RevealsWell'
BY DEF RevealsWell, RevealWell

LEMMA IdleIsIdle == Idle \in JobType /\ Idle.at = "idle" /\ Idle.posts = {} /\ Idle.fresh = FALSE
BY BoundsAssumption DEF Idle, JobType, Steps, NoVotes

LEMMA IdleStep ==
  ASSUME IInv, job' = Idle, UNCHANGED <<today, settings, post, answer, paid, boards>>,
         press' \in [Users -> 0..MaxPosts], faults' \in 0..MaxFaults
  PROVE  IInv'
<1>1. JobWell'
  BY IdleIsIdle DEF JobWell, Alone, OfChannel, Revealing
<1>2. RevealsWell'
  BY IdleIsIdle, NoReveal
<1> QED
  BY <1>1, <1>2, IdleIsIdle, JobFrame

LEMMA JobTyped ==
  ASSUME TypeOK
  PROVE  job \in JobType /\ press \in [Users -> 0..MaxPosts] /\ faults \in 0..MaxFaults /\ post \in [Posts -> PostRow]
BY DEF TypeOK, JobType

LEMMA StartStep ==
  ASSUME IInv, Start
  PROVE  IInv'
<1> USE DEF IInv
<1> DEFINE new == [Idle EXCEPT !.at = "configs", !.date = today, !.left = {c \in Channels : enabled[c]},
                               !.due = {p \in Open : post[p].due}]
<1>1. job' = new /\ UNCHANGED <<today, settings, post, answer, paid, press, boards, faults>>
  BY DEF Start, Go
<1>2. today \in 0..MaxDays /\ {p \in Open : post[p].due} \in SUBSET Posts
  BY BoundsAssumption DEF TypeOK, Open
<1>3. new \in JobType /\ new.at = "configs" /\ new.posts = {} /\ new.fresh = FALSE
  BY <1>2, IdleIsIdle DEF JobType, Steps
<1>4. JobWell'
  BY <1>1, <1>3 DEF JobWell, Alone, OfChannel, Revealing
<1>5. RevealsWell'
  BY <1>1, <1>3, NoReveal
<1> QED
  BY <1>1, <1>3, <1>4, <1>5, JobTyped, JobFrame

LEMMA LatestIsOpen ==
  ASSUME NEW c \in Channels, Latest(c) # {}
  PROVE  Max(Latest(c)) \in Open
<1>1. Latest(c) \in SUBSET (0..MaxPosts) /\ Latest(c) \subseteq Open
  BY BoundsAssumption DEF Latest, PostsOf, Open, Posts
<1> QED
  BY <1>1, MaxIsIn, BoundsAssumption

LEMMA NextConfigStep ==
  ASSUME IInv, NextConfig
  PROVE  IInv'
<1> USE DEF IInv
<1>1. /\ job.at = "configs" /\ UNCHANGED <<today, settings, post, answer, paid, press, boards, faults>>
      /\ job.posts = {} /\ job \in JobType /\ job.fresh = FALSE
  BY JobTyped DEF NextConfig, At, JobWell, Alone, Revealing, JobType
<1>2. Open' = Open /\ Free' = Free
  BY <1>1, DataAlone
<1>3. ASSUME NEW new \in JobType, job' = new, new.posts = {}, new.at \in {"configs", "board", "due", "clamp"},
             new.fresh => new.at = "clamp",
             new.at \in {"board", "clamp"} => new.channel \in Channels,
             new.at = "clamp" => new.post \in Open
      PROVE  IInv'
  <2>1. JobWell'
    BY <1>1, <1>2, <1>3 DEF JobWell, Alone, OfChannel, Revealing
  <2>2. RevealsWell'
    BY <1>3, NoReveal
  <2> QED
    BY <1>1, <1>3, <2>1, <2>2, JobTyped, JobFrame
<1>4. ASSUME NEW c \in job.left PROVE job' = [job EXCEPT !.left = @ \ {c}] => IInv'
  <2> DEFINE new == [job EXCEPT !.left = @ \ {c}]
  <2>1. new \in JobType /\ new.posts = {} /\ new.at = "configs" /\ new.fresh = FALSE
    BY <1>1 DEF JobType
  <2> QED
    BY <1>3, <2>1
<1>5. ASSUME NEW c \in job.left, NEW left \in SUBSET Channels
      PROVE job' = [RevealPrevious(c) EXCEPT !.left = left] => IInv'
  <2>0. c \in Channels
    BY <1>1 DEF JobType
  <2>1. CASE Latest(c) = {}
    <3> DEFINE new == [[job EXCEPT !.at = "board", !.channel = c] EXCEPT !.left = left]
    <3>1. new \in JobType /\ new.posts = {} /\ new.at = "board" /\ new.fresh = FALSE /\ new.channel = c
      BY <1>1, <2>0 DEF JobType, Steps
    <3> QED
      BY <1>3, <2>0, <2>1, <3>1 DEF RevealPrevious
  <2>2. CASE Latest(c) # {}
    <3> DEFINE new == [[job EXCEPT !.at = "clamp", !.channel = c, !.post = Max(Latest(c)), !.fresh = TRUE]
                         EXCEPT !.left = left]
    <3>1. Max(Latest(c)) \in Open /\ Max(Latest(c)) \in 0..MaxPosts
      BY <2>0, <2>2, LatestIsOpen, BoundsAssumption DEF Open, Posts
    <3>2. new \in JobType /\ new.posts = {} /\ new.at = "clamp" /\ new.channel = c /\ new.post = Max(Latest(c))
      BY <1>1, <2>0, <3>1 DEF JobType, Steps
    <3> QED
      BY <1>3, <2>0, <2>2, <3>1, <3>2 DEF RevealPrevious
  <2> QED
    BY <2>1, <2>2
<1>6. job' = Rest("due") => IInv'
  <2>1. Rest("due") \in JobType /\ Rest("due").posts = {} /\ Rest("due").at = "due" /\ Rest("due").fresh = FALSE
    BY <1>1 DEF Rest, JobType, Steps
  <2> QED
    BY <1>3, <2>1
<1>7. ASSUME NEW c \in job.left,
             job' = IF DailyDue(c) THEN [RevealPrevious(c) EXCEPT !.left = [job EXCEPT !.left = @ \ {c}].left]
                                   ELSE [job EXCEPT !.left = @ \ {c}]
      PROVE  IInv'
  <2>1. [job EXCEPT !.left = @ \ {c}].left \in SUBSET Channels
    BY <1>1 DEF JobType
  <2> QED
    BY <1>4, <1>5, <1>7, <2>1
<1> QED
  BY <1>6, <1>7 DEF NextConfig, Go

\* The end of a reveal, however it ended.
LEMMA UnresolvedStep ==
  ASSUME TypeOK, JobWell, job.at \in Revealing
  PROVE  /\ Unresolved \in JobType
         /\ Unresolved.at = (IF job.fresh THEN "board" ELSE "next_due") /\ Unresolved.fresh = FALSE
         /\ Unresolved.channel = job.channel /\ Unresolved.posts = job.posts
<1>1. job \in JobType /\ NoVotes \in [Users -> Options \cup {None}] /\ 0 \in 0..MaxPosts
  BY JobTyped, BoundsAssumption DEF NoVotes
<1> QED
  BY <1>1 DEF Unresolved, JobType, Steps

LEMMA NextChannelStep ==
  ASSUME TypeOK
  PROVE  /\ NextChannel \in JobType /\ NextChannel.at = "configs" /\ NextChannel.posts = job.posts
         /\ NextChannel.fresh = job.fresh
<1>1. job \in JobType /\ 0 \in 0..MaxPosts
  BY JobTyped, BoundsAssumption
<1> QED
  BY <1>1 DEF NextChannel, JobType, Steps

LEMMA SnapshotStep ==
  ASSUME IInv, Snapshot
  PROVE  IInv'
<1> USE DEF IInv
<1> DEFINE votes == [u \in Users |-> answer[job.post][u].choice]
           new == [job EXCEPT !.at = "grade", !.votes = votes, !.todo = {u \in Users : votes[u] # None}]
<1>1. /\ job.at = "snapshot" /\ UNCHANGED <<today, settings, post, answer, paid, press, boards, faults>>
      /\ job' = new /\ job \in JobType
  BY JobTyped DEF Snapshot, At, Go
<1>2. job.post \in Open \ job.posts /\ job.post \in Posts /\ post[job.post].due
  BY <1>1 DEF JobWell, Revealing, Open
<1>3. votes \in [Users -> Options \cup {None}]
  BY <1>2 DEF TypeOK
<1>4. /\ new \in JobType /\ new.at = "grade" /\ new.votes = votes /\ new.todo = {u \in Users : votes[u] # None}
      /\ new.post = job.post /\ new.posts = job.posts /\ new.fresh = job.fresh /\ new.channel = job.channel
  BY <1>1, <1>3 DEF JobType, Steps
<1>5. Open' = Open /\ Free' = Free
  BY <1>1, DataAlone
<1> HIDE DEF new
<1>6. JobWell'
  BY <1>1, <1>2, <1>4, <1>5 DEF JobWell, Alone, OfChannel, Revealing
<1>7. RevealsWell'
  BY <1>1, <1>4 DEF RevealsWell, RevealWell
<1> QED
  BY <1>1, <1>4, <1>6, <1>7, JobTyped, JobFrame

LEMMA PaidStep ==
  ASSUME IInv, Paid
  PROVE  IInv'
<1> USE DEF IInv
<1>1. /\ job.at = "pay" /\ job.todo = {} /\ UNCHANGED <<today, settings, post, answer, paid, press, boards, faults>>
      /\ job' = (IF job.failed THEN Unresolved ELSE Rest("close")) /\ job \in JobType
  BY JobTyped DEF Paid, At, Go
<1>2. Open' = Open /\ Free' = Free
  BY <1>1, DataAlone
<1>3. CASE job.failed
  <2>1. /\ job' \in JobType /\ job'.at = (IF job.fresh THEN "board" ELSE "next_due") /\ job'.fresh = FALSE
        /\ job'.channel = job.channel /\ job'.posts = job.posts
    BY <1>1, <1>3, UnresolvedStep DEF Revealing
  <2>2. JobWell'
    BY <1>1, <1>2, <2>1 DEF JobWell, Alone, OfChannel, Revealing
  <2>3. RevealsWell'
    BY <2>1, NoReveal
  <2> QED
    BY <1>1, <2>1, <2>2, <2>3, JobTyped, JobFrame
<1>4. CASE ~job.failed
  <2>1. /\ job' \in JobType /\ job'.at = "close" /\ job'.fresh = job.fresh /\ job'.post = job.post
        /\ job'.channel = job.channel /\ job'.posts = job.posts /\ job'.votes = job.votes /\ job'.todo = {}
    BY <1>1, <1>4 DEF Rest, JobType, Steps
  <2>2. JobWell'
    BY <1>1, <1>2, <2>1 DEF JobWell, Alone, OfChannel, Revealing
  <2>3. RevealsWell'
    BY <1>1, <1>4, <2>1 DEF RevealsWell, RevealWell, Graded, Settled, Grade
  <2> QED
    BY <1>1, <2>1, <2>2, <2>3, JobTyped, JobFrame
<1> QED
  BY <1>3, <1>4

LEMMA DrawStep ==
  ASSUME IInv, Draw
  PROVE  IInv'
<1> USE DEF IInv
<1>1. /\ job.at = "next" /\ UNCHANGED <<today, settings, post, answer, paid, press, boards, faults>>
      /\ job \in JobType /\ job.posts = {} /\ job.fresh = FALSE /\ job.channel \in Channels
  BY JobTyped DEF Draw, At, JobWell, Alone, OfChannel, Revealing, JobType
<1>2. Open' = Open /\ Free' = Free
  BY <1>1, DataAlone
<1>3. CASE job' = NextChannel
  <2>1. job' \in JobType /\ job'.at = "configs" /\ job'.posts = {} /\ job'.fresh = FALSE
    BY <1>1, <1>3, NextChannelStep
  <2>2. JobWell' /\ RevealsWell'
    BY <1>2, <2>1, NoReveal DEF JobWell, Alone, OfChannel, Revealing
  <2> QED
    BY <1>1, <2>1, <2>2, JobTyped, JobFrame
<1>4. CASE Free # {} /\ job' = Rest("create")
  <2>1. job' \in JobType /\ job'.at = "create" /\ job'.posts = {} /\ job'.fresh = FALSE /\ job'.channel = job.channel
    BY <1>1, <1>4 DEF Rest, JobType, Steps
  <2>2. JobWell' /\ RevealsWell'
    BY <1>1, <1>2, <1>4, <2>1, NoReveal DEF JobWell, Alone, OfChannel, Revealing
  <2> QED
    BY <1>1, <2>1, <2>2, JobTyped, JobFrame
<1> QED
  BY <1>3, <1>4 DEF Draw, Go

LEMMA DueToCloseStep ==
  ASSUME IInv, DueToClose
  PROVE  IInv'
<1> USE DEF IInv
<1>1. /\ job.at = "due" /\ UNCHANGED <<today, settings, post, answer, paid, press, boards, faults>>
      /\ job \in JobType /\ job.fresh = FALSE
  BY JobTyped DEF DueToClose, At, JobWell, Revealing, JobType
<1>2. PICK more \in SUBSET Open :
        job' = [job EXCEPT !.at = "next_due", !.posts = more \cup (job.due \cap Open), !.due = {}, !.date = 0]
  BY DEF DueToClose, Go
<1>3. /\ job' \in JobType /\ job'.at = "next_due" /\ job'.posts \subseteq Open /\ job'.fresh = FALSE
  <2>1. more \cup (job.due \cap Open) \in SUBSET Posts /\ more \cup (job.due \cap Open) \subseteq Open
        /\ 0 \in 0..MaxDays
    BY <1>2, BoundsAssumption DEF Open
  <2> QED
    BY <1>1, <1>2, <2>1 DEF JobType, Steps
<1>4. Open' = Open /\ Free' = Free
  BY <1>1, DataAlone
<1>5. JobWell' /\ RevealsWell'
  BY <1>3, <1>4, NoReveal DEF JobWell, Alone, OfChannel, Revealing
<1> QED
  BY <1>1, <1>3, <1>5, JobTyped, JobFrame

LEMMA NextDueStep ==
  ASSUME IInv, NextDue
  PROVE  IInv'
<1> USE DEF IInv
<1>1. /\ job.at = "next_due" /\ UNCHANGED <<today, settings, post, answer, paid, press, boards, faults>>
      /\ job \in JobType /\ job.fresh = FALSE /\ job.posts \subseteq Open
  BY JobTyped DEF NextDue, At, JobWell, Revealing, JobType
<1>2. Open' = Open /\ Free' = Free
  BY <1>1, DataAlone
<1>3. CASE job.posts = {}
  BY <1>1, <1>3, JobTyped, IdleStep DEF NextDue, Go
<1>4. CASE job.posts # {}
  <2> DEFINE p == Min(job.posts)
             new == [job EXCEPT !.at = "clamp", !.post = p, !.posts = @ \ {p}]
  <2>1. p \in job.posts /\ p \in Posts /\ p \in 0..MaxPosts
    BY <1>1, <1>4, MinIsIn DEF JobType, Posts
  <2>2. job' = new
    BY <1>4 DEF NextDue, Go
  <2>3. new \in JobType /\ new.at = "clamp" /\ new.post = p /\ new.posts = job.posts \ {p} /\ new.fresh = FALSE
    BY <1>1, <2>1 DEF JobType, Steps
  <2> HIDE DEF new, p
  <2>4. JobWell' /\ RevealsWell'
    BY <1>1, <1>2, <2>1, <2>2, <2>3, NoReveal DEF JobWell, Alone, OfChannel, Revealing
  <2> QED
    BY <1>1, <2>2, <2>3, <2>4, JobTyped, JobFrame
<1> QED
  BY <1>3, <1>4

LEMMA FailStep ==
  ASSUME IInv, Fail
  PROVE  IInv'
<1> USE DEF IInv
<1>1. UNCHANGED <<today, settings, post, answer, paid, press, boards>> /\ job \in JobType /\ faults' \in 0..MaxFaults
  BY JobTyped, FaultCounts DEF Fail
<1>2. Open' = Open /\ Free' = Free
  BY <1>1, DataAlone
<1>3. CASE job.at \in {"clamp", "snapshot", "grade", "close"} /\ job' = Unresolved
  <2>1. /\ job' \in JobType /\ job'.at = (IF job.fresh THEN "board" ELSE "next_due") /\ job'.fresh = FALSE
        /\ job'.channel = job.channel /\ job'.posts = job.posts
    BY <1>3, UnresolvedStep DEF Revealing
  <2>2. JobWell' /\ RevealsWell'
    BY <1>2, <2>1, NoReveal DEF JobWell, Alone, OfChannel, Revealing
  <2> QED
    BY <1>1, <2>1, <2>2, JobTyped, JobFrame
<1>4. CASE job.at \in {"board", "next", "create", "send", "claim"} /\ job' = NextChannel
  <2>1. job.posts = {} /\ job.fresh = FALSE
    BY <1>1, <1>4 DEF JobWell, Alone, Revealing, JobType
  <2>2. job' \in JobType /\ job'.at = "configs" /\ job'.posts = {} /\ job'.fresh = FALSE
    BY <1>4, <2>1, NextChannelStep
  <2>3. JobWell' /\ RevealsWell'
    BY <1>2, <2>2, NoReveal DEF JobWell, Alone, OfChannel, Revealing
  <2> QED
    BY <1>1, <2>2, <2>3, JobTyped, JobFrame
<1>5. CASE job' = Idle
  BY <1>1, <1>5, JobTyped, IdleStep
<1> QED
  BY <1>3, <1>4, <1>5 DEF Fail, Go

LEMMA CrashStep ==
  ASSUME IInv, Crash
  PROVE  IInv'
<1> USE DEF IInv
<1>1. press' \in [Users -> 0..MaxPosts] /\ faults' \in 0..MaxFaults
  BY FaultCounts, BoundsAssumption DEF Crash
<1> QED
  BY <1>1, IdleStep DEF Crash, Go

----------------------------------------------------------------------------
\* Steps that change a post.

\* A post that is there keeps its place; it is closed with every vote graded and paid.
LEMMA PostFrame ==
  ASSUME IInv, NEW p \in Posts, NEW new \in PostRow, post' = [post EXCEPT ![p] = new],
         post[p].status # None, new.status # None, new.channel = post[p].channel, new.seq = post[p].seq,
         post[p].due => new.due,
         new.status = post[p].status \/ new.status = "closed",
         new.status = "closed" => \A u \in Users :
           /\ answer[p][u].grade = Verdict(answer[p][u].choice)
           /\ paid[p][u] # None \/ answer[p][u].choice = None \/ u \in Rich,
         UNCHANGED <<answer, paid, boards, lastWeek>>
  PROVE  /\ post' \in [Posts -> PostRow] /\ PostsWell' /\ VotesWell' /\ BoardsWell' /\ Free' = Free
         /\ Open \ {p} \subseteq Open' /\ (new.status = "open" => Open' = Open)
         /\ post'[p] = new /\ \A q \in Posts \ {p} : post'[q] = post[q]
<1> USE DEF IInv
<1>1. /\ post' \in [Posts -> PostRow] /\ post'[p] = new /\ \A q \in Posts \ {p} : post'[q] = post[q]
  BY DEF TypeOK
<1>2. \A q \in Posts : (post'[q].status = None <=> post[q].status = None)
                       /\ post'[q].channel = post[q].channel /\ post'[q].seq = post[q].seq
  BY <1>1
<1>3. PostsWell'
  <2>1. ASSUME NEW q \in Posts PROVE PostWell(q)'
    BY <1>1, <1>2 DEF PostsWell, PostWell
  <2> QED
    BY <2>1 DEF PostsWell
<1>4. VotesWell'
  <2>1. ASSUME NEW q \in Posts, NEW u \in Users PROVE VoteWell(q, u)'
    <3>1. VoteWell(q, u)
      BY DEF VotesWell
    <3>2. CASE q = p
      BY <1>1, <3>1, <3>2 DEF VoteWell
    <3>3. CASE q # p
      BY <1>1, <3>1, <3>3 DEF VoteWell
    <3> QED
      BY <3>2, <3>3
  <2> QED
    BY <2>1 DEF VotesWell
<1>5. BoardsWell'
  <2>1. \A c \in Channels : PostsOf(c)' = PostsOf(c)
    BY <1>2 DEF PostsOf
  <2>2. \A c \in Channels : {post[q].seq : q \in PostsOf(c)}' = {post[q].seq : q \in PostsOf(c)}
    BY <1>2, <2>1 DEF PostsOf
  <2>3. \A c \in Channels : CompletedWeeks(c)' = CompletedWeeks(c)
    BY <2>2 DEF CompletedWeeks
  <2> QED
    BY <2>3 DEF BoardsWell
<1>6. Free' = Free
  BY <1>2 DEF Free
<1>7. Open \ {p} \subseteq Open' /\ (new.status = "open" => Open' = Open)
  BY <1>1 DEF Open, PostRow
<1> QED
  BY <1>1, <1>3, <1>4, <1>5, <1>6, <1>7

\* The job is at something else meanwhile, or had not read the votes.
LEMMA RevealKept ==
  ASSUME IInv, UNCHANGED <<answer, paid>>, job'.at = job.at, job'.votes = job.votes, job'.todo = job.todo,
         job'.failed = job.failed, job'.post = job.post
  PROVE  RevealsWell'
BY DEF IInv, RevealsWell, RevealWell, Graded, Settled, Grade

LEMMA ExpireStep ==
  ASSUME IInv, NEW p \in Posts, Expire(p)
  PROVE  IInv'
<1> USE DEF IInv
<1> DEFINE new == [post[p] EXCEPT !.due = TRUE]
<1>1. /\ p \in Open /\ post' = [post EXCEPT ![p] = new]
      /\ UNCHANGED <<today, enabled, lastDay, lastWeek, answer, paid, press, job, boards, faults>>
  BY JobTyped DEF Expire, settings
<1>2. /\ new \in PostRow /\ new.status = post[p].status /\ new.channel = post[p].channel /\ new.seq = post[p].seq
      /\ new.due = TRUE /\ post[p].status = "open" /\ new.status # None /\ new.status # "closed"
  BY <1>1, JobTyped DEF PostRow, Open, None
<1> HIDE DEF new
<1>3. /\ post' \in [Posts -> PostRow] /\ PostsWell' /\ VotesWell' /\ BoardsWell' /\ Free' = Free /\ Open' = Open
      /\ post'[p] = new /\ \A q \in Posts \ {p} : post'[q] = post[q]
  BY <1>1, <1>2, PostFrame
<1>4. JobWell'
  <2>1. \A q \in Posts : (post[q].due => post'[q].due) /\ (post[q].status # None => post'[q].status # None)
    BY <1>2, <1>3
  <2>2. job.at \in Revealing => job.post \in Posts
    BY DEF JobWell, Open
  <2> QED
    BY <1>1, <1>3, <2>1, <2>2 DEF JobWell
<1>5. RevealsWell'
  BY <1>1, RevealKept
<1>6. TypeOK'
  BY <1>1, <1>3 DEF TypeOK
<1> QED
  BY <1>3, <1>4, <1>5, <1>6

LEMMA ClampStep ==
  ASSUME IInv, Clamp
  PROVE  IInv'
<1> USE DEF IInv
<1>0. PICK p \in Open : job.at = "clamp" /\ p = job.post /\ p \notin job.posts
  BY DEF Clamp, At, JobWell, Revealing
<1> DEFINE new == [post[p] EXCEPT !.due = TRUE]
<1>1. /\ job.at = "clamp" /\ p \in Open /\ p \in Posts /\ p \notin job.posts
  BY <1>0 DEF Open
<1>2. /\ post' = [post EXCEPT ![p] = new] /\ job' = Rest("snapshot")
      /\ UNCHANGED <<today, enabled, lastDay, lastWeek, answer, paid, press, boards, faults>>
  BY <1>0, <1>1, JobTyped DEF Clamp, Go, settings
<1>3. /\ new \in PostRow /\ new.status = post[p].status /\ new.channel = post[p].channel /\ new.seq = post[p].seq
      /\ new.due = TRUE /\ post[p].status = "open" /\ new.status # None /\ new.status # "closed"
  BY <1>1, JobTyped DEF PostRow, Open, None
<1>4. /\ job' \in JobType /\ job'.at = "snapshot" /\ job'.post = p /\ job'.posts = job.posts
      /\ job'.fresh = job.fresh /\ job'.channel = job.channel
  BY <1>0, <1>2, JobTyped DEF Rest, JobType, Steps
<1> HIDE DEF new
<1>5. /\ post' \in [Posts -> PostRow] /\ PostsWell' /\ VotesWell' /\ BoardsWell' /\ Free' = Free /\ Open' = Open
      /\ post'[p] = new
  BY <1>1, <1>2, <1>3, PostFrame
<1>6. JobWell'
  BY <1>1, <1>3, <1>4, <1>5 DEF JobWell, Alone, OfChannel, Revealing
<1>7. RevealsWell'
  BY <1>4, NoReveal
<1>8. TypeOK'
  BY <1>2, <1>4, <1>5 DEF TypeOK, JobType
<1> QED
  BY <1>5, <1>6, <1>7, <1>8

LEMMA ClosePostStep ==
  ASSUME IInv, ClosePost
  PROVE  IInv'
<1> USE DEF IInv
<1>0. PICK p \in Open : job.at = "close" /\ p = job.post /\ p \notin job.posts /\ post[p].due
  BY DEF ClosePost, At, JobWell, Revealing
<1> DEFINE new == [post[p] EXCEPT !.status = "closed"]
<1>1. /\ job.at = "close" /\ p \in Open /\ p \in Posts /\ p \notin job.posts /\ post[p].due
  BY <1>0 DEF Open
<1>2. /\ post' = [post EXCEPT ![p] = new] /\ job' = Unresolved
      /\ UNCHANGED <<today, enabled, lastDay, lastWeek, answer, paid, press, boards, faults>>
  BY <1>0, <1>1, JobTyped DEF ClosePost, Go, settings
<1>3. /\ new \in PostRow /\ new.status = "closed" /\ new.channel = post[p].channel /\ new.seq = post[p].seq
      /\ new.due = post[p].due /\ post[p].status = "open" /\ post[p].status # None /\ new.status # None
  BY <1>1, JobTyped DEF PostRow, Open, None
<1>4. /\ job' \in JobType /\ job'.at = (IF job.fresh THEN "board" ELSE "next_due") /\ job'.fresh = FALSE
      /\ job'.channel = job.channel /\ job'.posts = job.posts
  BY <1>1, <1>2, UnresolvedStep DEF Revealing
<1>5. ASSUME NEW u \in Users
      PROVE  /\ answer[p][u].grade = Verdict(answer[p][u].choice)
             /\ paid[p][u] # None \/ answer[p][u].choice = None \/ u \in Rich
  <2>1. RevealWell(u) /\ VoteWell(p, u)
    BY <1>1 DEF RevealsWell, VotesWell
  <2>2. job.votes[u] = answer[p][u].choice
    BY <1>0, <1>1, <2>1 DEF RevealWell
  <2>3. CASE answer[p][u].choice = None
    BY <2>1, <2>3 DEF VoteWell, Verdict
  <2>4. CASE answer[p][u].choice # None
    BY <1>0, <1>1, <2>1, <2>2, <2>4 DEF RevealWell, Graded, Settled, Grade, Verdict
  <2> QED
    BY <2>3, <2>4
<1> HIDE DEF new
<1>6. /\ post' \in [Posts -> PostRow] /\ PostsWell' /\ VotesWell' /\ BoardsWell' /\ Free' = Free
      /\ Open \ {p} \subseteq Open'
  BY <1>1, <1>2, <1>3, <1>5, PostFrame
<1>7. JobWell'
  BY <1>1, <1>4, <1>6 DEF JobWell, Alone, OfChannel, Revealing
<1>8. RevealsWell'
  BY <1>4, NoReveal
<1>9. TypeOK'
  BY <1>2, <1>4, <1>6 DEF TypeOK, JobType
<1> QED
  BY <1>6, <1>7, <1>8, <1>9

LEMMA SendStep ==
  ASSUME IInv, Send
  PROVE  IInv'
<1> USE DEF IInv
<1>0. PICK p \in Posts : job.at = "send" /\ p = job.post /\ post[p].status # None
  BY DEF Send, At, JobWell
<1> DEFINE new == [post[p] EXCEPT !.sent = TRUE]
<1>1. /\ job.at = "send" /\ p \in Posts /\ post[p].status # None /\ job.posts = {} /\ job.fresh = FALSE
      /\ job.channel \in Channels
  BY <1>0, JobTyped DEF Send, At, JobWell, Revealing, Alone, OfChannel, JobType
<1>2. /\ post' = [post EXCEPT ![p] = new] /\ job' = Rest("claim")
      /\ UNCHANGED <<today, enabled, lastDay, lastWeek, answer, paid, press, boards, faults>>
  BY <1>0, <1>1, JobTyped DEF Send, Go, settings
<1>3. /\ new \in PostRow /\ new.status = post[p].status /\ new.channel = post[p].channel /\ new.seq = post[p].seq
      /\ new.due = post[p].due
  BY <1>1, JobTyped DEF PostRow
<1>4. /\ job' \in JobType /\ job'.at = "claim" /\ job'.posts = {} /\ job'.fresh = FALSE /\ job'.channel = job.channel
  BY <1>1, <1>2, JobTyped DEF Rest, JobType, Steps
<1>5. new.status = "closed" => \A u \in Users :
           /\ answer[p][u].grade = Verdict(answer[p][u].choice)
           /\ paid[p][u] # None \/ answer[p][u].choice = None \/ u \in Rich
  BY <1>1, <1>3 DEF VotesWell, VoteWell
<1> HIDE DEF new
<1>6. /\ post' \in [Posts -> PostRow] /\ PostsWell' /\ VotesWell' /\ BoardsWell'
  BY <1>1, <1>2, <1>3, <1>5, PostFrame
<1>7. JobWell'
  BY <1>1, <1>4 DEF JobWell, Alone, OfChannel, Revealing
<1>8. RevealsWell'
  BY <1>4, NoReveal
<1>9. TypeOK'
  BY <1>2, <1>4, <1>6 DEF TypeOK, JobType
<1> QED
  BY <1>6, <1>7, <1>8, <1>9

\* A new post is the first one that is free, and its number is no larger.
LEMMA CreateStep ==
  ASSUME IInv, CreatePost
  PROVE  IInv'
<1> USE DEF IInv
<1>0. PICK p \in Posts, c \in Channels : Free # {} /\ p = Min(Free) /\ c = job.channel
  <2>1. Free # {} /\ job.channel \in Channels
    BY DEF CreatePost, At, JobWell, OfChannel
  <2>2. Free \in SUBSET Nat /\ Free \subseteq Posts
    BY DEF Free, Posts
  <2> QED
    BY <2>1, <2>2, MinIsIn
<1> DEFINE new == [status |-> "open", channel |-> c, seq |-> NextSeq(c), due |-> FALSE, sent |-> FALSE]
<1>1. /\ job.at = "create" /\ Free # {} /\ job.posts = {} /\ job.fresh = FALSE /\ c \in Channels
  BY <1>0, JobTyped DEF CreatePost, At, JobWell, Revealing, Alone, OfChannel, JobType
<1>2. /\ post' = [post EXCEPT ![p] = new] /\ job' = [job EXCEPT !.at = "send", !.post = p]
      /\ UNCHANGED <<today, enabled, lastDay, lastWeek, answer, paid, press, boards, faults>>
  BY <1>0 DEF CreatePost, Go, settings
<1>3. Free \in SUBSET Nat
  BY DEF Free, Posts
<1>4. p \in Free /\ \A q \in Free : p <= q
  BY <1>0, <1>1, <1>3, MinIsIn
<1>5. p \in Posts /\ p \in 0..MaxPosts /\ p \in Nat \ {0} /\ post[p].status = None
  BY <1>4, BoundsAssumption DEF Free, Posts
<1>6. \A q \in Posts : post[q].status # None <=> q < p
  BY <1>4, <1>5, BoundsAssumption DEF Free, Posts, PostsWell, PostWell
<1>7. NextSeq(c) \in 0..MaxPosts /\ NextSeq(c) <= p
  <2> DEFINE S == {post[q].seq : q \in PostsOf(c)} \cup {0}
  <2>1. \A q \in PostsOf(c) : q \in Posts /\ post[q].status # None
    BY <1>1, ChannelsAssumption DEF PostsOf, PostsWell, PostWell, NoPost
  <2>2. \A q \in PostsOf(c) : post[q].seq \in 0..(p - 1)
    <3>1. ASSUME NEW q \in PostsOf(c) PROVE post[q].seq \in 0..(p - 1)
      <4>1. q < p /\ post[q].seq <= q /\ q \in Nat
        BY <1>6, <2>1 DEF PostsWell, PostWell, Posts
      <4>2. post[q].seq \in Nat
        BY <2>1, JobTyped DEF PostRow
      <4> QED
        BY <1>5, <4>1, <4>2
    <3> QED
      BY <3>1
  <2>3. p - 1 \in Nat /\ S \in SUBSET (0..(p - 1)) /\ S # {}
    BY <1>5, <2>2
  <2>4. Max(S) \in 0..(p - 1)
    BY <2>3, MaxIsIn
  <2> HIDE DEF S
  <2>5. NextSeq(c) = Max(S) + 1
    BY DEF NextSeq, S
  <2> QED
    BY <1>5, <2>4, <2>5, BoundsAssumption
<1>8. new \in PostRow /\ new.status = "open" /\ new.channel = c /\ new.seq <= p /\ new.due = FALSE
  BY <1>1, <1>7 DEF PostRow
<1>9. /\ job' \in JobType /\ job'.at = "send" /\ job'.posts = {} /\ job'.fresh = FALSE /\ job'.channel = c
      /\ job'.post = p
  BY <1>0, <1>1, <1>2, <1>5, JobTyped DEF JobType, Steps
<1> HIDE DEF new
<1>10. post' \in [Posts -> PostRow] /\ post'[p] = new /\ \A q \in Posts \ {p} : post'[q] = post[q]
  BY <1>2, <1>5, <1>8, JobTyped
<1>11. PostsWell'
  <2>1. PostWell(p)'
    <3>1. post'[p].status # None /\ post'[p].channel \in Channels /\ post'[p].seq <= p
      BY <1>1, <1>8, <1>10 DEF None
    <3> QED
      BY <3>1 DEF PostWell
  <2>2. ASSUME NEW q \in Posts \ {p} PROVE PostWell(q)'
    <3>1. PostWell(q) /\ post'[q] = post[q]
      BY <1>10 DEF PostsWell
    <3>2. post[q].status = None => q > p
      BY <1>5, <1>6, BoundsAssumption DEF Posts
    <3>3. post[q].status = None => \A r \in Posts : r > q => post'[r].status = None
      BY <1>5, <1>10, <3>1, <3>2, BoundsAssumption DEF PostWell, Posts
    <3> QED
      BY <3>1, <3>3 DEF PostWell
  <2>3. ASSUME NEW q \in Posts PROVE PostWell(q)'
    BY <2>1, <2>2
  <2> QED
    BY <2>3 DEF PostsWell
<1>12. VotesWell'
  <2>1. ASSUME NEW q \in Posts, NEW u \in Users PROVE VoteWell(q, u)'
    <3>1. VoteWell(q, u)
      BY DEF VotesWell
    <3>2. CASE q = p
      BY <1>2, <1>5, <1>8, <1>10, <3>1, <3>2 DEF VoteWell
    <3>3. CASE q # p
      BY <1>2, <1>10, <3>1, <3>3 DEF VoteWell
    <3> QED
      BY <3>2, <3>3
  <2> QED
    BY <2>1 DEF VotesWell
<1>13. BoardsWell'
  <2>0. post[p].channel = None
    BY <1>5 DEF PostsWell, PostWell, NoPost
  <2>1. \A d \in Channels : PostsOf(d) \subseteq PostsOf(d)'
    <3>1. ASSUME NEW d \in Channels, NEW q \in PostsOf(d) PROVE q \in Posts \ {p} /\ post[q].channel = d
      BY <2>0, ChannelsAssumption DEF PostsOf
    <3> QED
      BY <1>10, <3>1 DEF PostsOf
  <2>2. \A d \in Channels : {post[q].seq : q \in PostsOf(d)} \subseteq {post[q].seq : q \in PostsOf(d)}'
    <3>1. ASSUME NEW d \in Channels, NEW q \in PostsOf(d) PROVE q \in PostsOf(d)' /\ post'[q].seq = post[q].seq
      BY <1>10, <2>0, <2>1, ChannelsAssumption DEF PostsOf
    <3> QED
      BY <3>1
  <2>3. \A d \in Channels : CompletedWeeks(d) \subseteq CompletedWeeks(d)'
    BY <2>2 DEF CompletedWeeks
  <2> QED
    BY <1>2, <2>3 DEF BoardsWell
<1>14. JobWell'
  BY <1>1, <1>5, <1>8, <1>9, <1>10 DEF JobWell, Alone, OfChannel, Revealing, None
<1>15. RevealsWell'
  BY <1>9, NoReveal
<1>16. TypeOK'
  BY <1>2, <1>9, <1>10 DEF TypeOK, JobType
<1> QED
  BY <1>11, <1>12, <1>13, <1>14, <1>15, <1>16

----------------------------------------------------------------------------
\* Steps that change a vote, its grade or its pay.

\* What the post p says of u may change, where nothing terminal is and the reveal goes on.
LEMMA VotesFrame ==
  ASSUME IInv, UNCHANGED <<today, enabled, lastDay, lastWeek, post, boards>>,
         press' \in [Users -> 0..MaxPosts], job' \in JobType, faults' \in 0..MaxFaults,
         answer' \in [Posts -> [Users -> [choice : Options \cup {None}, grade : Verdicts]]],
         paid' \in [Posts -> [Users -> Verdicts]],
         VotesWell', JobWell', RevealsWell'
  PROVE  IInv'
<1>1. PostsWell' /\ BoardsWell'
  BY DEF IInv, PostsWell, PostWell, BoardsWell, CompletedWeeks, PostsOf
<1>2. TypeOK'
  BY DEF IInv, TypeOK, JobType
<1> QED
  BY <1>1, <1>2 DEF IInv

AnswerType == [choice : Options \cup {None}, grade : Verdicts]

LEMMA PressStep ==
  ASSUME IInv, NEW p \in Posts, NEW u \in Users, Press(u, p)
  PROVE  IInv'
<1> USE DEF IInv
<1>1. press' \in [Users -> 0..MaxPosts]
  BY BoundsAssumption DEF Press, TypeOK, Posts
<1>2. UNCHANGED <<today, settings, post, answer, paid, job, boards, faults>>
  BY DEF Press
<1>3. JobWell' /\ RevealsWell'
  BY <1>2 DEF JobWell, Open, Free, RevealsWell, RevealWell, Graded, Settled, Grade
<1> QED
  BY <1>1, <1>2, <1>3, JobTyped, JobFrame

\* A vote that gets through is for a post before its deadline: no reveal has read it.
LEMMA VoteStep ==
  ASSUME IInv, NEW u \in Users, Vote(u)
  PROVE  IInv'
<1> USE DEF IInv
<1>1. /\ press' \in [Users -> 0..MaxPosts] /\ press[u] \in 0..MaxPosts
      /\ UNCHANGED <<today, enabled, lastDay, lastWeek, post, paid, job, boards, faults>>
  BY BoundsAssumption DEF Vote, TypeOK, settings
<1>2. CASE answer' = answer
  <2>1. JobWell' /\ RevealsWell'
    BY <1>1, <1>2 DEF JobWell, Open, Free, RevealsWell, RevealWell, Graded, Settled, Grade
  <2> QED
    BY <1>1, <1>2, <2>1, JobTyped, JobFrame DEF settings
<1>3. ASSUME NEW p \in Open, ~post[p].due, NEW choice \in Options,
             answer' = [answer EXCEPT ![p][u] = [choice |-> choice, grade |-> None]]
      PROVE  IInv'
  <2>1. p \in Posts /\ post[p].status = "open" /\ [choice |-> choice, grade |-> None] \in AnswerType
    BY <1>3 DEF Open, AnswerType, Verdicts
  <2>2. answer \in [Posts -> [Users -> AnswerType]]
    BY DEF TypeOK, AnswerType
  <2>3. /\ answer' \in [Posts -> [Users -> AnswerType]]
        /\ answer'[p][u] = [choice |-> choice, grade |-> None]
        /\ \A v \in Users \ {u} : answer'[p][v] = answer[p][v]
        /\ \A q \in Posts \ {p} : answer'[q] = answer[q]
    BY <1>3, <2>1, <2>2
  <2>4. VotesWell'
    <3>1. ASSUME NEW q \in Posts, NEW v \in Users PROVE VoteWell(q, v)'
      <4>1. VoteWell(q, v)
        BY DEF VotesWell
      <4>2. CASE q = p /\ v = u
        BY <1>1, <1>3, <2>1, <2>3, <4>1, <4>2 DEF VoteWell, None
      <4>3. CASE ~(q = p /\ v = u)
        <5>1. answer'[q][v] = answer[q][v]
          BY <2>3, <4>3
        <5> QED
          BY <1>1, <4>1, <5>1 DEF VoteWell
      <4> QED
        BY <4>2, <4>3
    <3> QED
      BY <3>1 DEF VotesWell
  <2>5. JobWell'
    BY <1>1 DEF JobWell, Open, Free
  <2>6. job.at \in {"grade", "pay", "close"} => job.post \in Posts \ {p}
    BY <1>3 DEF JobWell, Revealing, Open
  <2>7. job.at \in {"grade", "pay", "close"} => answer'[job.post] = answer[job.post]
    BY <2>3, <2>6
  <2>8. RevealsWell'
    BY <1>1, <2>7 DEF RevealsWell, RevealWell, Graded, Settled, Grade
  <2> QED
    BY <1>1, <2>3, <2>4, <2>5, <2>8, JobTyped, VotesFrame DEF TypeOK, AnswerType
<1> QED
  BY <1>2, <1>3 DEF Vote, OpenForVoting

LEMMA WriteGradeStep ==
  ASSUME IInv, WriteGrade
  PROVE  IInv'
<1> USE DEF IInv
<1>1. /\ job.at = "grade" /\ UNCHANGED <<today, enabled, lastDay, lastWeek, post, paid, press, boards, faults>>
      /\ job \in JobType
  BY JobTyped DEF WriteGrade, At, settings
<1>2. PICK p \in Open : p = job.post /\ p \notin job.posts /\ post[p].due
  BY <1>1 DEF JobWell, Revealing
<1>3. p \in Posts /\ post[p].status = "open"
  BY <1>2 DEF Open
<1>4. job.votes \in [Users -> Options \cup {None}] /\ job.todo \subseteq Users
  BY <1>1 DEF JobType
<1>5. \A v \in Users : RevealWell(v) /\ job.votes[v] = answer[p][v].choice
  BY <1>1, <1>2 DEF RevealsWell, RevealWell
<1>6. Open' = Open /\ Free' = Free
  BY <1>1 DEF Open, Free
<1>7. CASE job.todo = {} /\ job' = Rest("pay") /\ answer' = answer
  <2>1. /\ job' \in JobType /\ job'.at = "pay" /\ job'.post = p /\ job'.posts = job.posts
        /\ job'.fresh = job.fresh /\ job'.channel = job.channel /\ job'.votes = job.votes
    BY <1>1, <1>2, <1>7 DEF Rest, JobType, Steps
  <2>2. \A v \in Users : job.votes[v] = None
    BY <1>1, <1>5, <1>7 DEF RevealWell
  <2>3. JobWell'
    BY <1>1, <1>2, <1>6, <2>1 DEF JobWell, Alone, OfChannel, Revealing
  <2>4. job'.todo = {}
    BY <1>1, <1>7 DEF Rest, JobType
  <2>5. RevealsWell'
    BY <1>2, <1>5, <1>7, <2>1, <2>2, <2>4 DEF RevealsWell, RevealWell
  <2> QED
    BY <1>1, <1>7, <2>1, <2>3, <2>5, JobTyped, JobFrame DEF settings
<1>8. ASSUME NEW u \in job.todo, answer' = [answer EXCEPT ![p][u].grade = Grade(u)],
             job' = IF job.todo = {u} THEN [job EXCEPT !.at = "pay", !.todo = Voters] ELSE [job EXCEPT !.todo = @ \ {u}]
      PROVE  IInv'
  <2>1. u \in Users /\ job.votes[u] # None /\ Grade(u) = Verdict(answer[p][u].choice) /\ Grade(u) \in Verdicts
    BY <1>1, <1>4, <1>5 DEF RevealWell, Grade, Verdict, Verdicts
  <2>2. answer \in [Posts -> [Users -> AnswerType]]
    BY DEF TypeOK, AnswerType
  <2>3. [answer[p][u] EXCEPT !.grade = Grade(u)] \in AnswerType
    BY <1>3, <2>1, <2>2 DEF AnswerType
  <2>4. /\ answer' \in [Posts -> [Users -> AnswerType]]
        /\ answer'[p][u].choice = answer[p][u].choice /\ answer'[p][u].grade = Grade(u)
        /\ \A v \in Users \ {u} : answer'[p][v] = answer[p][v]
        /\ \A q \in Posts \ {p} : answer'[q] = answer[q]
    BY <1>3, <1>8, <2>1, <2>2, <2>3 DEF AnswerType
  <2>5. VotesWell'
    <3>1. ASSUME NEW q \in Posts, NEW v \in Users PROVE VoteWell(q, v)'
      <4>1. VoteWell(q, v)
        BY DEF VotesWell
      <4>2. CASE q = p /\ v = u
        <5>1. answer[p][u].choice # None
          BY <1>5, <2>1
        <5> QED
          BY <1>1, <1>3, <2>4, <4>1, <4>2, <5>1 DEF VoteWell
      <4>3. CASE ~(q = p /\ v = u)
        <5>1. answer'[q][v] = answer[q][v]
          BY <2>4, <4>3
        <5> QED
          BY <1>1, <4>1, <5>1 DEF VoteWell
      <4> QED
        BY <4>2, <4>3
    <3> QED
      BY <3>1 DEF VotesWell
  <2>6. \A v \in Users : answer'[p][v].choice = answer[p][v].choice
    BY <2>4
  <2>7. \A v \in Users : job.votes[v] # None /\ (v \notin job.todo \/ v = u) => answer'[p][v].grade = Grade(v)
    BY <1>1, <1>2, <1>5, <2>4 DEF RevealWell, Graded
  <2>8. \A v \in Users : v \in job.todo => job.votes[v] # None
    BY <1>1, <1>5 DEF RevealWell
  <2>9. CASE job.todo = {u}
    <3>1. Voters \subseteq Users
      BY DEF Voters
    <3>2. job' = [job EXCEPT !.at = "pay", !.todo = Voters]
      BY <1>8, <2>9
    <3>3. /\ job' \in JobType /\ job'.at = "pay" /\ job'.post = p /\ job'.posts = job.posts /\ job'.todo = Voters
          /\ job'.fresh = job.fresh /\ job'.channel = job.channel /\ job'.votes = job.votes
      BY <1>1, <1>2, <3>1, <3>2 DEF JobType, Steps
    <3>4. JobWell'
      BY <1>1, <1>2, <1>6, <3>3 DEF JobWell, Alone, OfChannel, Revealing
    <3>5. \A v \in Users : (v \in Voters <=> job.votes[v] # None) /\ (job.votes[v] # None => answer'[p][v].grade = Grade(v))
      BY <2>7, <2>9 DEF Voters
    <3>6. \A v \in Users : Grade(v)' = Grade(v)
      BY <3>3 DEF Grade
    <3>7. RevealsWell'
      BY <1>5, <2>6, <3>3, <3>5, <3>6 DEF RevealsWell, RevealWell, Graded
    <3> QED
      BY <1>1, <2>4, <2>5, <3>3, <3>4, <3>7, JobTyped, VotesFrame DEF TypeOK, AnswerType
  <2>10. CASE job.todo # {u}
    <3>1. job' = [job EXCEPT !.todo = @ \ {u}]
      BY <1>8, <2>10
    <3>2. /\ job' \in JobType /\ job'.at = "grade" /\ job'.post = p /\ job'.posts = job.posts /\ job'.todo = job.todo \ {u}
          /\ job'.fresh = job.fresh /\ job'.channel = job.channel /\ job'.votes = job.votes
      BY <1>1, <1>2, <3>1 DEF JobType
    <3>3. job.todo \ {u} # {}
      BY <1>8, <2>10
    <3>4. JobWell'
      BY <1>1, <1>2, <1>6, <3>2 DEF JobWell, Alone, OfChannel, Revealing
    <3>5. \A v \in Users : Grade(v)' = Grade(v)
      BY <3>2 DEF Grade
    <3>6. RevealsWell'
      BY <1>5, <2>6, <2>7, <2>8, <3>2, <3>3, <3>5 DEF RevealsWell, RevealWell, Graded
    <3> QED
      BY <1>1, <2>4, <2>5, <3>2, <3>4, <3>6, JobTyped, VotesFrame DEF TypeOK, AnswerType
  <2> QED
    BY <2>9, <2>10
<1>9. CASE \E u \in job.todo :
             /\ answer' = [answer EXCEPT ![p][u].grade = Grade(u)]
             /\ job' = IF job.todo = {u} THEN [job EXCEPT !.at = "pay", !.todo = Voters] ELSE [job EXCEPT !.todo = @ \ {u}]
  BY <1>8, <1>9
<1> QED
  BY <1>2, <1>7, <1>9 DEF WriteGrade, Go

\* A payment goes to a post past its deadline, for the vote that is there.
LEMMA PayStep ==
  ASSUME IInv, Pay
  PROVE  IInv'
<1> USE DEF IInv
<1>1. /\ job.at = "pay" /\ UNCHANGED <<today, enabled, lastDay, lastWeek, post, answer, press, boards>>
      /\ job \in JobType /\ faults' \in 0..MaxFaults
  BY JobTyped, FaultCounts DEF Pay, At, settings
<1>2. PICK p \in Open : p = job.post /\ p \notin job.posts /\ post[p].due
  BY <1>1 DEF JobWell, Revealing
<1>3. p \in Posts /\ post[p].status = "open"
  BY <1>2 DEF Open
<1>4. job.votes \in [Users -> Options \cup {None}] /\ job.todo \subseteq Users
  BY <1>1 DEF JobType
<1>5. \A v \in Users : RevealWell(v) /\ job.votes[v] = answer[p][v].choice
  BY <1>1, <1>2 DEF RevealsWell, RevealWell
<1>6. Open' = Open /\ Free' = Free
  BY <1>1 DEF Open, Free
<1>7. ASSUME NEW u \in job.todo, NEW new \in JobType, job' = new, new.at = "pay", new.post = p, new.posts = job.posts,
             new.todo = job.todo \ {u}, new.fresh = job.fresh, new.channel = job.channel, new.votes = job.votes,
             paid' \in [Posts -> [Users -> Verdicts]],
             paid' = paid \/ (paid[p][u] = None /\ paid' = [paid EXCEPT ![p][u] = Grade(u)]),
             ~new.failed => ~job.failed /\ (paid'[p][u] # None \/ u \in Rich)
      PROVE  IInv'
  <2>1. u \in Users /\ job.votes[u] # None /\ Grade(u) = Verdict(answer[p][u].choice)
    BY <1>1, <1>4, <1>5 DEF RevealWell, Grade, Verdict
  <2>2. \A q \in Posts, v \in Users : paid'[q][v] = paid[q][v] \/ (q = p /\ v = u /\ paid'[q][v] = Grade(u))
    BY <1>3, <1>7, <2>1 DEF TypeOK
  <2>3. Grade(u) # None
    BY DEF Grade, None
  <2>4. VotesWell'
    <3>1. ASSUME NEW q \in Posts, NEW v \in Users PROVE VoteWell(q, v)'
      <4>1. VoteWell(q, v)
        BY DEF VotesWell
      <4>2. CASE paid'[q][v] = paid[q][v]
        BY <1>1, <4>1, <4>2 DEF VoteWell
      <4>3. CASE q = p /\ v = u /\ paid'[q][v] = Grade(u)
        BY <1>1, <1>2, <1>3, <2>1, <2>3, <4>1, <4>3 DEF VoteWell, None
      <4> QED
        BY <2>2, <4>2, <4>3
    <3> QED
      BY <3>1 DEF VotesWell
  <2>5. JobWell'
    BY <1>1, <1>2, <1>6, <1>7 DEF JobWell, Alone, OfChannel, Revealing
  <2>6. \A v \in Users : Grade(v)' = Grade(v)
    BY <1>7 DEF Grade
  <2>7. \A v \in Users : ~new.failed /\ job.votes[v] # None /\ v \notin new.todo => paid'[p][v] # None \/ v \in Rich
    <3>1. ASSUME NEW v \in Users, ~new.failed, job.votes[v] # None, v \notin new.todo
          PROVE  paid'[p][v] # None \/ v \in Rich
      <4>1. CASE v = u
        BY <1>7, <3>1, <4>1
      <4>2. CASE v # u
        <5>1. Settled(v)
          BY <1>1, <1>5, <1>7, <3>1, <4>2 DEF RevealWell
        <5> QED
          BY <1>2, <1>3, <2>2, <4>2, <5>1 DEF Settled
      <4> QED
        BY <4>1, <4>2
    <3> QED
      BY <3>1
  <2>8. \A v \in Users : Graded(v)' <=> Graded(v)
    BY <1>1, <1>2, <1>7, <2>6 DEF Graded
  <2>9. RevealsWell'
    <3>1. ASSUME NEW v \in Users PROVE RevealWell(v)'
      BY <1>1, <1>2, <1>5, <1>7, <2>7, <2>8 DEF RevealWell, Settled
    <3> QED
      BY <3>1 DEF RevealsWell
  <2> QED
    BY <1>1, <1>7, <2>4, <2>5, <2>9, JobTyped, VotesFrame DEF TypeOK
<1>8. ASSUME NEW u \in job.todo, Grant(u), job' = [job EXCEPT !.todo = @ \ {u}]
      PROVE  IInv'
  <2> DEFINE new == [job EXCEPT !.todo = @ \ {u}]
  <2>1. /\ new \in JobType /\ new.at = "pay" /\ new.post = p /\ new.posts = job.posts /\ new.failed = job.failed
        /\ new.todo = job.todo \ {u} /\ new.fresh = job.fresh /\ new.channel = job.channel /\ new.votes = job.votes
    BY <1>1, <1>2 DEF JobType
  <2>2. paid' = paid \/ (paid[p][u] = None /\ paid' = [paid EXCEPT ![p][u] = Grade(u)])
    BY <1>2, <1>8 DEF Grant
  <2>3. u \in Users /\ Grade(u) \in Verdicts /\ Grade(u) # None
    BY <1>4 DEF Grade, Verdicts, None
  <2>4. paid' \in [Posts -> [Users -> Verdicts]] /\ (paid'[p][u] # None \/ u \in Rich)
    <3>1. paid \in [Posts -> [Users -> Verdicts]]
      BY DEF TypeOK
    <3>2. CASE paid[p][u] = None /\ paid' = [paid EXCEPT ![p][u] = Grade(u)]
      BY <1>3, <2>3, <3>1, <3>2
    <3>3. CASE paid' = paid /\ (paid[p][u] # None \/ u \in Rich)
      BY <3>1, <3>3
    <3> QED
      BY <1>2, <1>8, <3>2, <3>3 DEF Grant
  <2> HIDE DEF new
  <2>5. job' = new
    BY <1>8 DEF new
  <2> QED
    BY <1>7, <2>1, <2>2, <2>4, <2>5
<1>9. ASSUME NEW u \in job.todo, paid' = paid, job' = [job EXCEPT !.todo = @ \ {u}, !.failed = TRUE]
      PROVE  IInv'
  <2> DEFINE new == [job EXCEPT !.todo = @ \ {u}, !.failed = TRUE]
  <2>1. /\ new \in JobType /\ new.at = "pay" /\ new.post = p /\ new.posts = job.posts /\ new.failed = TRUE
        /\ new.todo = job.todo \ {u} /\ new.fresh = job.fresh /\ new.channel = job.channel /\ new.votes = job.votes
    BY <1>1, <1>2 DEF JobType
  <2>2. paid' \in [Posts -> [Users -> Verdicts]]
    BY <1>9 DEF TypeOK
  <2> HIDE DEF new
  <2>3. job' = new
    BY <1>9 DEF new
  <2> QED
    BY <1>7, <1>9, <2>1, <2>2, <2>3
<1> QED
  BY <1>8, <1>9 DEF Pay, Go

----------------------------------------------------------------------------
\* The board, the day and the rest.

LEMMA BoardStep ==
  ASSUME IInv, Board
  PROVE  IInv'
<1> USE DEF IInv
<1>0. PICK c \in Channels : c = job.channel
  BY DEF Board, At, JobWell, OfChannel
<1>1. /\ job.at = "board" /\ UNCHANGED <<today, enabled, lastDay, post, answer, paid, press>>
      /\ job \in JobType /\ job.posts = {} /\ job.fresh = FALSE
  BY JobTyped DEF Board, At, JobWell, Alone, OfChannel, Revealing, JobType
<1>2. Open' = Open /\ Free' = Free /\ PostsWell' /\ VotesWell'
  BY <1>1 DEF Open, Free, PostsWell, PostWell, VotesWell, VoteWell
<1>3. \A d \in Channels : CompletedWeeks(d)' = CompletedWeeks(d)
  BY <1>1 DEF CompletedWeeks, PostsOf
<1>4. ASSUME job' \in JobType, job'.posts = {}, job'.fresh = FALSE,
             \/ job'.at = "configs"
             \/ job'.at \in {"next", "board"} /\ job'.channel = c
      PROVE  JobWell' /\ RevealsWell'
  BY <1>2, <1>4, NoReveal DEF JobWell, Alone, OfChannel, Revealing
<1>5. CASE job' = Rest("next") /\ UNCHANGED <<lastWeek, boards, faults>>
  <2>1. job' \in JobType /\ job'.posts = {} /\ job'.fresh = FALSE /\ job'.at = "next" /\ job'.channel = c
    BY <1>0, <1>1, <1>5 DEF Rest, JobType, Steps
  <2>2. JobWell' /\ RevealsWell'
    BY <1>4, <2>1
  <2> QED
    BY <1>1, <1>5, <2>1, <2>2, JobTyped, JobFrame DEF settings
<1>6. ASSUME NEW w \in CompletedWeeks(c), w > lastWeek[c], lastWeek' = [lastWeek EXCEPT ![c] = w],
             \/ boards' = [boards EXCEPT ![c][w] = @ + 1] /\ job' = job /\ faults' = faults
             \/ boards' = boards /\ job' = NextChannel /\ faults < MaxFaults /\ faults' = faults + 1
      PROVE  IInv'
  <2>1. w \in Posts /\ w \in 0..MaxPosts /\ w \in Nat /\ lastWeek[c] \in Nat
    BY BoundsAssumption DEF CompletedWeeks, Posts, TypeOK
  <2>2. faults' \in 0..MaxFaults
    BY <1>6, FaultCounts
  <2>3. /\ job' \in JobType /\ job'.posts = {} /\ job'.fresh = FALSE
        /\ job'.at = "configs" \/ (job'.at \in {"next", "board"} /\ job'.channel = c)
    <3>1. CASE job' = job
      BY <1>0, <1>1, <3>1
    <3>2. CASE job' = NextChannel
      <4>1. NextChannel \in JobType /\ NextChannel.at = "configs" /\ NextChannel.posts = {} /\ NextChannel.fresh = FALSE
        BY <1>1, NextChannelStep
      <4> QED
        BY <3>2, <4>1
    <3> QED
      BY <1>6, <3>1, <3>2
  <2>4. JobWell' /\ RevealsWell'
    BY <1>4, <2>3
  <2>5. /\ lastWeek \in [Channels -> 0..MaxPosts] /\ boards \in [Channels -> [Posts -> Nat]]
        /\ boards[c][w] \in Nat
    BY <2>1 DEF TypeOK
  <2>6. lastWeek' \in [Channels -> 0..MaxPosts] /\ boards' \in [Channels -> [Posts -> Nat]]
    BY <1>6, <2>1, <2>5
  <2>7. \A d \in Channels : lastWeek'[d] >= lastWeek[d] /\ (d = c => lastWeek'[d] = w)
    BY <1>6, <2>1, <2>5
  <2>8. \A d \in Channels, v \in Posts :
          \/ boards'[d][v] = boards[d][v]
          \/ d = c /\ v = w /\ boards'[d][v] = boards[d][v] + 1
    BY <1>6, <2>1, <2>5
  <2>9. boards[c][w] = 0
    BY <1>6, <2>1, <2>5 DEF BoardsWell
  <2>10. BoardsWell'
    <3>1. ASSUME NEW d \in Channels, NEW v \in Posts, boards'[d][v] # 0
          PROVE  boards'[d][v] = 1 /\ v <= lastWeek'[d] /\ v \in CompletedWeeks(d)
      <4>1. CASE boards'[d][v] = boards[d][v]
        <5>1. boards[d][v] = 1 /\ v <= lastWeek[d] /\ v \in CompletedWeeks(d)
          BY <3>1, <4>1 DEF BoardsWell
        <5>2. v \in Nat /\ lastWeek[d] \in Nat /\ lastWeek'[d] \in Nat
          BY <2>5, <2>6, BoundsAssumption DEF Posts
        <5> QED
          BY <2>7, <4>1, <5>1, <5>2
      <4>2. CASE d = c /\ v = w /\ boards'[d][v] = boards[d][v] + 1
        BY <2>1, <2>7, <2>9, <4>2
      <4> QED
        BY <2>8, <4>1, <4>2
    <3> QED
      BY <1>3, <3>1 DEF BoardsWell
  <2>11. TypeOK'
    BY <1>1, <2>2, <2>3, <2>6 DEF TypeOK, JobType
  <2> QED
    BY <1>2, <2>4, <2>10, <2>11
<1>7. CASE /\ {w \in CompletedWeeks(c) : w > lastWeek[c]} # {}
           /\ lastWeek' = [lastWeek EXCEPT ![c] = Min({w \in CompletedWeeks(c) : w > lastWeek[c]})]
           /\ \/ /\ boards' = [boards EXCEPT ![c][Min({w \in CompletedWeeks(c) : w > lastWeek[c]})] = @ + 1]
                 /\ job' = job /\ faults' = faults
              \/ boards' = boards /\ job' = NextChannel /\ faults < MaxFaults /\ faults' = faults + 1
  <2>1. {w \in CompletedWeeks(c) : w > lastWeek[c]} \in SUBSET Nat
    BY DEF CompletedWeeks, Posts
  <2>2. Min({w \in CompletedWeeks(c) : w > lastWeek[c]}) \in {w \in CompletedWeeks(c) : w > lastWeek[c]}
    BY <1>7, <2>1, MinIsIn
  <2> QED
    BY <1>6, <1>7, <2>2
<1> QED
  BY <1>0, <1>5, <1>7 DEF Board, Go

LEMMA ClaimDayStep ==
  ASSUME IInv, ClaimDay
  PROVE  IInv'
<1> USE DEF IInv
<1>1. /\ job.at = "claim" /\ UNCHANGED <<today, enabled, lastWeek, post, answer, paid, press, boards, faults>>
      /\ job' = NextChannel /\ job \in JobType /\ job.posts = {} /\ job.fresh = FALSE
      /\ lastDay' = [lastDay EXCEPT ![job.channel] = job.date]
  BY JobTyped DEF ClaimDay, At, Go, JobWell, Alone, OfChannel, Revealing, JobType
<1>2. job' \in JobType /\ job'.at = "configs" /\ job'.posts = {} /\ job'.fresh = FALSE
  BY <1>1, NextChannelStep
<1>3. PostsWell' /\ VotesWell' /\ BoardsWell' /\ Open' = Open /\ Free' = Free
  BY <1>1 DEF PostsWell, PostWell, VotesWell, VoteWell, BoardsWell, CompletedWeeks, PostsOf, Open, Free
<1>4. JobWell' /\ RevealsWell'
  BY <1>2, <1>3, NoReveal DEF JobWell, Alone, OfChannel, Revealing
<1>5. lastDay' \in [Channels -> 0..MaxDays]
  <2>1. job.date \in 0..MaxDays /\ lastDay \in [Channels -> 0..MaxDays]
    BY <1>1 DEF JobType, TypeOK
  <2> QED
    BY <1>1, <2>1
<1>6. TypeOK'
  BY <1>1, <1>2, <1>5 DEF TypeOK, JobType
<1> QED
  BY <1>3, <1>4, <1>6

LEMMA RestStep ==
  ASSUME IInv, UNCHANGED <<lastDay, lastWeek, post, answer, paid, press, job, boards, faults>>,
         today' \in 1..MaxDays, enabled' \in [Channels -> BOOLEAN]
  PROVE  IInv'
<1>1. TypeOK'
  BY DEF IInv, TypeOK
<1>2. PostsWell' /\ VotesWell' /\ BoardsWell'
  BY DEF IInv, PostsWell, PostWell, VotesWell, VoteWell, BoardsWell, CompletedWeeks, PostsOf
<1>3. JobWell' /\ RevealsWell'
  BY DEF IInv, JobWell, Open, Free, RevealsWell, RevealWell, Graded, Settled, Grade
<1> QED
  BY <1>1, <1>2, <1>3 DEF IInv

LEMMA NewDayStep ==
  ASSUME IInv, NewDay
  PROVE  IInv'
<1>1. today' \in 1..MaxDays /\ enabled' \in [Channels -> BOOLEAN]
  BY BoundsAssumption DEF IInv, TypeOK, NewDay, settings
<1> QED
  BY <1>1, RestStep DEF NewDay, settings

LEMMA SwitchStep ==
  ASSUME IInv, NEW c \in Channels, Switch(c)
  PROVE  IInv'
<1>1. today' \in 1..MaxDays /\ enabled' \in [Channels -> BOOLEAN]
  BY DEF IInv, TypeOK, Switch
<1> QED
  BY <1>1, RestStep DEF Switch

LEMMA StutterStep ==
  ASSUME IInv, UNCHANGED vars
  PROVE  IInv'
<1>1. today' \in 1..MaxDays /\ enabled' \in [Channels -> BOOLEAN]
  BY DEF IInv, TypeOK, vars, settings
<1> QED
  BY <1>1, RestStep DEF vars, settings

----------------------------------------------------------------------------
\* The start, and all the steps.

LEMMA InitStep ==
  ASSUME Init
  PROVE  IInv
<1>1. job = Idle /\ job \in JobType /\ job.at = "idle" /\ job.posts = {} /\ job.fresh = FALSE
  BY IdleIsIdle DEF Init
<1>2. NoPost \in PostRow /\ NoPost.status = None /\ NoPost.seq = 0 /\ 0 \in 0..MaxPosts /\ 0 \in 0..MaxDays
      /\ 0 \in 0..MaxFaults /\ 1 \in 1..MaxDays
  BY BoundsAssumption DEF NoPost, PostRow
<1>3. NoVote \in AnswerType /\ NoVote.choice = None /\ NoVote.grade = None /\ None \in Verdicts
  BY DEF NoVote, AnswerType, Verdicts
<1>4. TypeOK
  BY <1>1, <1>2, <1>3 DEF Init, TypeOK, JobType, AnswerType
<1>5. \A p \in Posts : post[p] = NoPost
  BY DEF Init
<1>6. PostsWell
  BY <1>2, <1>5 DEF PostsWell, PostWell, Posts
<1>7. VotesWell
  BY <1>2, <1>3, <1>5 DEF Init, VotesWell, VoteWell, None
<1>8. JobWell
  BY <1>1 DEF JobWell, Alone, OfChannel, Revealing
<1>9. RevealsWell
  BY <1>1 DEF RevealsWell, RevealWell
<1>10. BoardsWell
  BY DEF Init, BoardsWell
<1> QED
  BY <1>4, <1>6, <1>7, <1>8, <1>9, <1>10 DEF IInv

LEMMA NextStep ==
  ASSUME IInv, [Next]_vars
  PROVE  IInv'
<1>1. CASE Job
  BY <1>1, StartStep, NextConfigStep, ClampStep, SnapshotStep, WriteGradeStep, PaidStep, PayStep, ClosePostStep,
     BoardStep, DrawStep, CreateStep, SendStep, ClaimDayStep, DueToCloseStep, NextDueStep DEF Job
<1>2. CASE Fail \/ Crash \/ NewDay \/ \E c \in Channels : Switch(c)
  BY <1>2, FailStep, CrashStep, NewDayStep, SwitchStep
<1>3. CASE \E p \in Posts : Expire(p) \/ \E u \in Users : Press(u, p)
  BY <1>3, ExpireStep, PressStep
<1>4. CASE \E u \in Users : Vote(u)
  BY <1>4, VoteStep
<1>5. CASE UNCHANGED vars
  BY <1>5, StutterStep
<1> QED
  BY <1>1, <1>2, <1>3, <1>4, <1>5 DEF Next

\* For every value of the constants, what the next theorems use is an invariant.
THEOREM Inductive == Spec => []IInv
<1>1. Init => IInv
  BY InitStep
<1>2. IInv /\ [Next]_vars => IInv'
  BY NextStep
<1> QED
  BY <1>1, <1>2, PTL DEF Spec

\* Every variable stays in its domain.
THEOREM TypeCorrect == Spec => []TypeOK
<1>1. IInv => TypeOK
  BY DEF IInv
<1> QED
  BY <1>1, Inductive, PTL

\* Whatever the order of votes, reveals, failures and restarts: a closed post has every vote graded
\* as it was cast, and none that came after the reveal has read them (store.record_vote, _reveal).
THEOREM ReadIsGraded == Spec => []GradedAsCast
<1>1. IInv => GradedAsCast
  BY DEF IInv, VotesWell, VoteWell, GradedAsCast, Verdict
<1> QED
  BY <1>1, Inductive, PTL

\* A post is closed only when whoever voted has been paid or cannot be (grant_quiz_reward, _reveal).
THEOREM MoneyFirst == Spec => []ClosedIsPaid
<1>1. IInv => ClosedIsPaid
  <2>1. ASSUME IInv, NEW p \in Posts, NEW u \in Users, post[p].status = "closed"
        PROVE  paid[p][u] = answer[p][u].grade \/ (paid[p][u] = None /\ u \in Rich)
    <3>1. VoteWell(p, u)
      BY <2>1 DEF IInv, VotesWell
    <3> QED
      BY <2>1, <3>1 DEF VoteWell, Verdict
  <2> QED
    BY <2>1 DEF ClosedIsPaid
<1> QED
  BY <1>1, Inductive, PTL

\* The board of a week is sent at most once, after the week (_maybe_week_leaderboard notes it first).
THEOREM NotedThenSent == Spec => []BoardOnce
<1>1. IInv => BoardOnce
  BY DEF IInv, BoardsWell, BoardOnce, TypeOK
<1> QED
  BY <1>1, Inductive, PTL

----------------------------------------------------------------------------
\* What is closed stays as it is.

LEMMA ClosedKept ==
  ASSUME IInv, Next, NEW p \in Posts, post[p].status = "closed"
  PROVE  post'[p].status = "closed" /\ answer'[p] = answer[p] /\ paid'[p] = paid[p]
<1> USE DEF IInv
<1>1. p \notin Open /\ p \notin Free /\ post \in [Posts -> PostRow] /\ post[p] \in PostRow
  BY JobTyped DEF Open, Free, None
<1>2. job.at \in Revealing => job.post \in Posts \ {p}
  BY <1>1 DEF JobWell, Open
<1>3. CASE UNCHANGED <<post, answer, paid>>
  BY <1>3
<1>4. ASSUME Expire(p) \/ \E q \in Posts : Expire(q) PROVE post'[p].status = "closed" /\ UNCHANGED <<answer, paid>>
  BY <1>1, <1>4 DEF Expire
<1>5. ASSUME Clamp \/ ClosePost PROVE post'[p].status = "closed" /\ UNCHANGED <<answer, paid>>
  BY <1>1, <1>2, <1>5 DEF Clamp, ClosePost, At, Revealing
<1>6. ASSUME CreatePost PROVE post'[p].status = "closed" /\ UNCHANGED <<answer, paid>>
  <2>1. Free \in SUBSET Nat /\ Free # {}
    BY <1>6 DEF CreatePost, At, JobWell, Free, Posts
  <2>2. Min(Free) # p
    BY <1>1, <2>1, MinIsIn
  <2> QED
    BY <1>1, <1>6, <2>2 DEF CreatePost
<1>7. ASSUME Send PROVE post'[p].status = "closed" /\ UNCHANGED <<answer, paid>>
  BY <1>1, <1>7 DEF Send, At, JobWell, PostRow
<1>8. ASSUME NEW u \in Users, Vote(u) PROVE UNCHANGED <<post, paid>> /\ answer'[p] = answer[p]
  BY <1>1, <1>8 DEF Vote, OpenForVoting, TypeOK
<1>9. ASSUME WriteGrade PROVE UNCHANGED <<post, paid>> /\ answer'[p] = answer[p]
  BY <1>2, <1>9 DEF WriteGrade, At, Revealing, TypeOK
<1>10. ASSUME Pay PROVE UNCHANGED <<post, answer>> /\ paid'[p] = paid[p]
  BY <1>2, <1>10 DEF Pay, Grant, At, Revealing, TypeOK
<1>11. ASSUME Start \/ NextConfig \/ Snapshot \/ Paid \/ Board \/ Draw \/ ClaimDay \/ DueToClose \/ NextDue
       PROVE  UNCHANGED <<post, answer, paid>>
  BY <1>11 DEF Start, NextConfig, Snapshot, Paid, Board, Draw, ClaimDay, DueToClose, NextDue
<1>12. ASSUME Fail \/ Crash \/ NewDay \/ \E c \in Channels : Switch(c) PROVE UNCHANGED <<post, answer, paid>>
  BY <1>12 DEF Fail, Crash, NewDay, Switch
<1>13. ASSUME \E q \in Posts, u \in Users : Press(u, q) PROVE UNCHANGED <<post, answer, paid>>
  BY <1>13 DEF Press
<1> QED
  BY <1>4, <1>5, <1>6, <1>7, <1>8, <1>9, <1>10, <1>11, <1>12, <1>13 DEF Next, Job

\* A closed post is final: neither a late vote nor another reveal touches it, its votes or its gold.
THEOREM Final == Spec => ClosedIsFinal
<1> DEFINE A == \A p \in Posts : post[p].status = "closed" =>
                  post'[p].status = "closed" /\ answer'[p] = answer[p] /\ paid'[p] = paid[p]
<1>1. IInv /\ [Next]_vars => [A]_vars
  BY ClosedKept
<1> QED
  BY <1>1, Inductive, PTL DEF Spec, ClosedIsFinal
=============================================================================
