---------------------------- MODULE RosterProofs ----------------------------
(***************************************************************************)
(* TLAPS proofs about Roster, for any people and any bounds: however       *)
(* presses in flight and the three tasks that close books interleave with  *)
(* substitutions, no substitute keeps a stake against himself on a book    *)
(* that may be paid.  The inductive invariant is IInv.  A book in play and *)
(* the presses that may yet land on it agree with the teams, for everybody *)
(* the substitution in progress does not move (InPlayAgree); only the      *)
(* newest book is in play (InPlayIsNewest), because a restart that loses   *)
(* its claim has lost it to a refund (RowsAgree).                          *)
(***************************************************************************)
EXTENDS Roster, FiniteSetTheorems, TLAPS

USE DEF Posts

\* Posts are numbered from one.
LEMMA PostNumbers ==
  ASSUME TypeOK
  PROVE  /\ Posts = 1..Len(post) /\ Len(post) \in Nat /\ Len(post) <= MaxPosts
         /\ Posts \subseteq 1..MaxPosts /\ Posts \subseteq 0..MaxPosts /\ Posts \subseteq Nat
<1>1. post \in Seq(Statuses) /\ Len(post) \in Nat /\ Len(post) <= MaxPosts
  BY BoundsAssumption DEF TypeOK
<1>2. Posts = 1..Len(post)
  BY <1>1
<1> QED
  BY <1>1, <1>2, BoundsAssumption

\* A new post is open, unstaked, has no bets, and leaves the others alone.
LEMMA Created ==
  ASSUME TypeOK, CreatePost
  PROVE  /\ post' \in Seq(Statuses) /\ intent' \in Seq(Intents \cup {"none"}) /\ bet' \in Seq([People -> Bet])
         /\ Len(post') = Len(post) + 1 /\ Len(post') \in 0..MaxPosts
         /\ Len(intent') = Len(post') /\ Len(bet') = Len(post')
         /\ Posts' = Posts \cup {Len(post) + 1} /\ Len(post) + 1 \notin Posts
         /\ post'[Len(post) + 1] = "open" /\ intent'[Len(post) + 1] = "none"
         /\ bet'[Len(post) + 1] = [u \in People |-> NoBet]
         /\ \A p \in Posts : post'[p] = post[p] /\ intent'[p] = intent[p] /\ bet'[p] = bet[p]
<1>1. [u \in People |-> NoBet] \in [People -> Bet]
  BY DEF NoBet, Bet
<1>2. "open" \in Statuses /\ "none" \in Intents \cup {"none"}
  BY DEF Statuses
<1>3. /\ post \in Seq(Statuses) /\ intent \in Seq(Intents \cup {"none"}) /\ bet \in Seq([People -> Bet])
      /\ Len(intent) = Len(post) /\ Len(bet) = Len(post) /\ Len(post) \in 0..MaxPosts
  BY DEF TypeOK
<1>4. /\ Len(post) < MaxPosts /\ post' = Append(post, "open") /\ intent' = Append(intent, "none")
      /\ bet' = Append(bet, [u \in People |-> NoBet])
  BY DEF CreatePost
<1>5. /\ post' \in Seq(Statuses) /\ Len(post') = Len(post) + 1
      /\ post'[Len(post) + 1] = "open" /\ \A p \in 1..Len(post) : post'[p] = post[p]
  BY <1>2, <1>3, <1>4
<1>6. /\ bet' \in Seq([People -> Bet]) /\ Len(bet') = Len(post) + 1
      /\ bet'[Len(post) + 1] = [u \in People |-> NoBet] /\ \A p \in 1..Len(post) : bet'[p] = bet[p]
  BY <1>1, <1>3, <1>4
<1>7. /\ intent' \in Seq(Intents \cup {"none"}) /\ Len(intent') = Len(post) + 1
      /\ intent'[Len(post) + 1] = "none" /\ \A p \in 1..Len(post) : intent'[p] = intent[p]
  BY <1>2, <1>3, <1>4
<1> QED
  BY <1>3, <1>4, <1>5, <1>6, <1>7, BoundsAssumption

\* One entry of a sequence changes.
LEMMA Updated ==
  ASSUME NEW S, NEW f \in Seq(S), NEW p \in 1..Len(f), NEW x \in S
  PROVE  /\ [f EXCEPT ![p] = x] \in Seq(S) /\ Len([f EXCEPT ![p] = x]) = Len(f)
         /\ \A q \in 1..Len(f) : [f EXCEPT ![p] = x][q] = IF q = p THEN x ELSE f[q]
  OBVIOUS

\* The entries of the table that a step does not take out of play stay as they were.
RowsKept ==
  /\ Len(post') = Len(post) /\ Posts' = Posts
  /\ \A p \in Posts : /\ intent[p] # "none" => intent'[p] = intent[p]
                      /\ post[p] # "open" => post'[p] # "open"
  /\ phase = "reported" => phase' = "reported"

\* A task that does not move keeps its hold on its book.
LEMMA TaskFrame ==
  ASSUME RowsKept, NEW t \in Tasks, TaskAgrees(t), task'[t] = task[t]
  PROVE  TaskAgrees(t)'
  BY DEF RowsKept, TaskAgrees

\* What stays true when books only leave those in play and nobody changes sides.
LEMMA InPlayFrame ==
  ASSUME InPlayAgree, InPlayIsNewest, PressesAgree,
         Len(post') = Len(post), Posts' = Posts, InPlay' \subseteq InPlay,
         phase' = "live" => phase = "live", carried \cup moved \subseteq carried' \cup moved',
         checked' \subseteq checked, UNCHANGED <<team, bet>>
  PROVE  InPlayAgree' /\ InPlayIsNewest' /\ PressesAgree'
  BY DEF InPlayAgree, Agrees, OnOwnSide, InPlayIsNewest, PressesAgree

\* A restart stays where it is while books only leave those in play.
LEMMA RestartFrame ==
  ASSUME RestartAgrees, opening => opening', opening' => opening, Len(post') = Len(post),
         post = <<>> => post' = <<>>,
         InPlay' \subseteq InPlay, task'["restart"] = task["restart"],
         moved' = moved, task["restart"].at # "no" => phase' = phase
  PROVE  RestartAgrees'
  BY DEF RestartAgrees

\* During a restart no book has been settled, so a book out of play is staked for a refund.
LEMMA RefundedOrFree ==
  ASSUME IInv, phase = "live", NEW p \in InPlay
  PROVE  intent[p] = "none" /\ post[p] \in Live /\ p = Len(post)
<1>1. p \in Posts /\ intent[p] \in Intents \cup {"none"} /\ intent[p] \notin Refunds
  BY PostNumbers DEF InPlay, IInv, TypeOK
<1>2. intent[p] # "settle"
  BY <1>1 DEF IInv, RowsAgree
<1> QED
  BY <1>1, <1>2 DEF Intents, IInv, RowsAgree, InPlayIsNewest

\* Before the first post there is nothing to disagree with.
LEMMA InitIInv == Init => IInv
  BY BoundsAssumption DEF Init, IInv, TypeOK, Statuses, Bet, Pressed, Idle, Tasks, Task, InPlayAgree, InPlay,
     RowsAgree, TasksAgree, TaskAgrees, RestartAgrees, PressesAgree, InPlayIsNewest

\* Both ways of inserting a post: no other book is in play.
LEMMA CreateStep ==
  ASSUME IInv, CreatePost, InPlay = {}, UNCHANGED <<team, phase, checked, carried>>
  PROVE  /\ InPlayAgree' /\ InPlayIsNewest' /\ PressesAgree' /\ RowsAgree'
         /\ \A t \in Tasks : task'[t] = task[t] => TaskAgrees(t)'
<1>0. Len(post) \in Nat
  BY DEF IInv, TypeOK
<1> PICK new \in Nat : new = Len(post) + 1
  BY <1>0
<1>1. /\ Posts' = Posts \cup {new} /\ new \notin Posts /\ Len(post') = new
      /\ post'[new] = "open" /\ intent'[new] = "none" /\ bet'[new] = [u \in People |-> NoBet]
      /\ \A p \in Posts : post'[p] = post[p] /\ intent'[p] = intent[p] /\ bet'[p] = bet[p]
  BY Created DEF IInv
<1>2. InPlay' = {new}
  BY <1>1 DEF InPlay, Refunds
<1>3. \A x \in checked : x.post # new
  BY <1>1 DEF IInv, PressesAgree
<1>4. ASSUME NEW u \in People PROVE Agrees(u, new)'
  BY <1>1, <1>3 DEF Agrees, OnOwnSide, NoBet
<1>5. InPlayAgree' /\ InPlayIsNewest'
  BY <1>1, <1>2, <1>4 DEF InPlayAgree, InPlayIsNewest
<1>6. PressesAgree' /\ RowsAgree'
  BY <1>1 DEF IInv, PressesAgree, RowsAgree, Live
<1>7. ASSUME NEW t \in Tasks, task'[t] = task[t] PROVE TaskAgrees(t)'
  BY <1>1, <1>7 DEF IInv, TasksAgree, TaskAgrees
<1> QED
  BY <1>5, <1>6, <1>7

\* The first post of the match.
LEMMA OpenStep == IInv /\ OpenForMatch => IInv'
<1> SUFFICES ASSUME IInv, OpenForMatch PROVE IInv'
  OBVIOUS
<1>1. /\ CreatePost /\ post = <<>> /\ opening /\ opening' = FALSE
      /\ UNCHANGED <<team, phase, checked, task, moved, carried, presses, edits, slips>>
  BY DEF OpenForMatch, IInv, RestartAgrees
<1>2. InPlay = {} /\ Posts = {}
  BY <1>1 DEF InPlay
<1>3. /\ InPlayAgree' /\ InPlayIsNewest' /\ PressesAgree' /\ RowsAgree'
      /\ \A t \in Tasks : TaskAgrees(t)'
  BY <1>1, <1>2, CreateStep
<1>4. task["restart"].at \notin {"claim", "money", "open"}
  BY <1>1, <1>2 DEF IInv, RestartAgrees, TasksAgree, TaskAgrees, Tasks
<1>5. RestartAgrees'
  BY <1>1, <1>4 DEF IInv, RestartAgrees
<1>6. TypeOK'
  BY <1>1, Created DEF IInv, TypeOK
<1> QED
  BY <1>3, <1>5, <1>6 DEF IInv, TasksAgree

----------------------------------------------------------------------------
\* Presses.

\* A press that passes the check agrees with the roster it was checked against.
LEMMA CheckStep ==
  ASSUME IInv, NEW u \in People, NEW p \in Posts, NEW side \in Sides, Check(u, p, side)
  PROVE  IInv'
<1> DEFINE own == SideOf(u) \in Sides
           y == [user |-> u, post |-> p, side |-> side, player |-> own]
<1>1. /\ checked' = checked \cup {y}
      /\ SideOf(u) \in Sides => side = SideOf(u)
      /\ presses' = presses + 1 /\ presses < MaxPresses
      /\ UNCHANGED <<team, phase, opening, books, bet, task, moved, carried, edits, slips>>
  BY DEF Check
<1>2. PICK x \in Pressed : x = y
  <2>1. p \in 1..MaxPosts
    BY PostNumbers DEF IInv
  <2>2. own \in BOOLEAN
    OBVIOUS
  <2> HIDE DEF own
  <2> QED
    BY <2>1, <2>2 DEF Pressed
<1>3. x.user = u /\ x.post = p /\ x.side = side /\ (x.player <=> SideOf(u) \in Sides)
  BY <1>2, Zenon
<1>4. checked' = checked \cup {x}
  BY <1>1, <1>2
<1> HIDE DEF own, y
<1>5. TypeOK'
  BY <1>1, <1>4, BoundsAssumption DEF IInv, TypeOK, books
<1>6. ASSUME NEW q \in InPlay, NEW v \in People, Agrees(v, q)
      PROVE  Agrees(v, q)'
  <2>1. x.user = v => /\ phase = "live" /\ team[v] \in Sides => x.side = team[v]
                      /\ x.player => x.side = team[v]
    BY <1>1, <1>3 DEF SideOf, Sides
  <2> QED
    BY <1>1, <1>4, <1>6, <2>1 DEF Agrees, OnOwnSide
<1>7. InPlayAgree'
  BY <1>1, <1>6 DEF IInv, InPlayAgree, InPlay, books
<1>8. PressesAgree'
  BY <1>1, <1>3, <1>4 DEF IInv, PressesAgree, books
<1>9. RestartAgrees' /\ RowsAgree' /\ TasksAgree' /\ InPlayIsNewest'
  BY <1>1 DEF IInv, RestartAgrees, RowsAgree, TasksAgree, TaskAgrees, InPlayIsNewest, InPlay, books
<1> QED
  BY <1>5, <1>7, <1>8, <1>9 DEF IInv

\* Only the bet of one user on one open post changes, to a value that agrees.
LEMMA BetStep ==
  ASSUME IInv, NEW p \in Posts, post[p] = "open", NEW u \in People, NEW b \in Bet,
         bet' = [bet EXCEPT ![p][u] = b], checked' \subseteq checked,
         u \notin carried \cup moved =>
           /\ phase = "live" /\ b # NoBet /\ team[u] \in Sides => b.side = team[u]
           /\ b.player => b.side = team[u],
         UNCHANGED <<team, phase, opening, books, task, moved, carried, presses, edits, slips>>
  PROVE  IInv'
<1>1. bet \in Seq([People -> Bet]) /\ Len(bet) = Len(post) /\ Len(post) \in Nat
  BY DEF IInv, TypeOK
<1>2. [bet[p] EXCEPT ![u] = b] \in [People -> Bet]
  BY <1>1
<1>3. bet' = [bet EXCEPT ![p] = [bet[p] EXCEPT ![u] = b]]
  OBVIOUS
<1>4. bet' \in Seq([People -> Bet]) /\ Len(bet') = Len(bet)
  BY <1>1, <1>2, <1>3
<1>5. \A q \in Posts : \A v \in People : bet'[q][v] = IF q = p /\ v = u THEN b ELSE bet[q][v]
  BY <1>1, <1>2, <1>3
<1>6. TypeOK'
  BY <1>4 DEF IInv, TypeOK, books
<1>7. InPlayAgree'
  BY <1>5 DEF IInv, InPlayAgree, InPlay, Agrees, OnOwnSide, books
<1>8. RestartAgrees' /\ RowsAgree' /\ TasksAgree' /\ InPlayIsNewest' /\ PressesAgree'
  BY DEF IInv, RestartAgrees, RowsAgree, TasksAgree, TaskAgrees, InPlayIsNewest, InPlay, PressesAgree, books
<1> QED
  BY <1>6, <1>7, <1>8 DEF IInv

\* The press lands: its post is still open, so the roster it agreed with still stands.
LEMMA PlaceStep ==
  ASSUME IInv, NEW x \in checked, PlaceBet(x)
  PROVE  IInv'
<1> DEFINE b == [side |-> x.side, player |-> x.player]
           lands == AcceptsBets(x.post) /\ bet[x.post][x.user].side \in {"none", x.side}
<1>1. /\ bet' = IF lands THEN [bet EXCEPT ![x.post][x.user] = b] ELSE bet
      /\ checked' \subseteq checked
      /\ UNCHANGED <<team, phase, opening, books, task, moved, carried, presses, edits, slips>>
  BY DEF PlaceBet
<1>2. x.post \in Posts /\ x \in Pressed
  BY DEF IInv, PressesAgree, TypeOK
<1>3. x.user \in People /\ b \in Bet
  BY <1>2 DEF Pressed, Bet
<1>4. CASE lands
  <2>1. post[x.post] = "open" /\ x.post \in InPlay
    BY <1>2, <1>4 DEF AcceptsBets, InPlay, IInv, RowsAgree, Refunds
  <2>2. x.user \notin carried \cup moved => Agrees(x.user, x.post)
    BY <1>3, <2>1 DEF IInv, InPlayAgree
  <2>3. x.user \notin carried \cup moved =>
          /\ phase = "live" /\ b # NoBet /\ team[x.user] \in Sides => b.side = team[x.user]
          /\ b.player => b.side = team[x.user]
    BY <2>2 DEF Agrees
  <2> HIDE DEF b
  <2> QED
    BY <1>1, <1>2, <1>3, <1>4, <2>1, <2>3, BetStep
<1>5. CASE ~lands
  <2>1. bet' = bet
    BY <1>1, <1>5
  <2>2. /\ InPlayAgree' /\ InPlayIsNewest' /\ PressesAgree'
    BY <1>1, <2>1, InPlayFrame DEF IInv, InPlay, books
  <2>3. TypeOK' /\ RestartAgrees' /\ RowsAgree' /\ TasksAgree'
    BY <1>1, <2>1 DEF IInv, TypeOK, RestartAgrees, RowsAgree, TasksAgree, TaskAgrees, InPlay, books
  <2> QED
    BY <2>2, <2>3 DEF IInv
<1> QED
  BY <1>4, <1>5

\* A cancelled bet says nothing about anybody's side.
LEMMA CancelStep ==
  ASSUME IInv, NEW u \in People, NEW p \in Posts, CancelBet(u, p)
  PROVE  IInv'
<1>1. NoBet \in Bet /\ ~NoBet.player
  BY DEF NoBet, Bet
<1>2. /\ post[p] = "open" /\ bet' = [bet EXCEPT ![p][u] = NoBet] /\ checked' \subseteq checked
      /\ UNCHANGED <<team, phase, opening, books, task, moved, carried, presses, edits, slips>>
  BY DEF CancelBet, AcceptsBets
<1> QED
  BY <1>1, <1>2, BetStep

----------------------------------------------------------------------------
\* Roster changes.

\* The teams change for the people the edit or the history names, while the match is live.
LEMMA TeamStep ==
  ASSUME IInv, MayEdit, team' \in [People -> Sides \cup {"out"}],
         carried' \subseteq People, carried \subseteq carried', moved' \subseteq People,
         task' \in {task, [task EXCEPT !["restart"].at = "find"]},
         task'["restart"].at = "no" => moved' = {},
         edits' \in 0..MaxEdits, slips' \in 0..MaxSlips,
         \A u \in People \ (carried' \cup moved') : team'[u] = team[u],
         UNCHANGED <<phase, opening, books, bet, checked, presses>>
  PROVE  IInv'
<1>1. phase = "live" /\ moved = {} /\ task["restart"].at = "no"
  BY DEF MayEdit, IInv, RestartAgrees
<1>2. /\ task' \in [Tasks -> Task] /\ task'["restart"].at \in {"no", "find"}
      /\ \A t \in Tasks : /\ task'[t].book = task[t].book /\ task'[t].branch = task[t].branch
                          /\ task'[t].at = task[t].at \/ task'[t].at \in {"no", "find"}
  BY <1>1 DEF IInv, TypeOK, Tasks, Task
<1>3. TypeOK'
  BY <1>2 DEF IInv, TypeOK, books
<1>4. InPlayAgree'
  BY <1>1 DEF IInv, InPlayAgree, InPlay, Agrees, OnOwnSide, books
<1>5. TasksAgree'
  BY <1>2 DEF IInv, TasksAgree, TaskAgrees, books
<1>6. RestartAgrees'
  BY <1>1, <1>2 DEF IInv, RestartAgrees, books
<1>7. RowsAgree' /\ InPlayIsNewest' /\ PressesAgree'
  BY DEF IInv, RowsAgree, InPlayIsNewest, InPlay, PressesAgree, books
<1> QED
  BY <1>3, <1>4, <1>5, <1>6, <1>7 DEF IInv

\* Whatever new teams a substitution makes, it names everybody it moves.
LEMMA SubstituteStep ==
  ASSUME IInv, NEW new \in [People -> Sides \cup {"out"}], MayEdit, edits < MaxEdits, Substitute(new)
  PROVE  IInv'
<1>1. /\ team' = new /\ edits' = edits + 1
      /\ task' = [task EXCEPT !["restart"].at = "find"] /\ moved' = {u \in People : new[u] # team[u]}
      /\ UNCHANGED <<phase, opening, books, bet, checked, carried, presses, slips>>
  BY DEF Substitute
<1>2. edits' \in 0..MaxEdits /\ slips' \in 0..MaxSlips /\ carried' \subseteq People
  BY <1>1, BoundsAssumption DEF IInv, TypeOK
<1>3. task'["restart"].at = "find"
  BY <1>1 DEF IInv, TypeOK, Tasks, Task
<1> QED
  BY <1>1, <1>2, <1>3, TeamStep

\* sub_for.
LEMMA SubForStep ==
  ASSUME IInv, NEW u \in People, NEW v \in People, SubFor(u, v)
  PROVE  IInv'
<1> DEFINE new == [team EXCEPT ![u] = "out", ![v] = team[u]]
<1>1. new \in [People -> Sides \cup {"out"}]
  BY DEF IInv, TypeOK
<1>2. MayEdit /\ edits < MaxEdits /\ Substitute(new)
  BY DEF SubFor, MaySubstitute
<1> HIDE DEF new
<1> QED
  BY <1>1, <1>2, SubstituteStep

\* sub_auto.
LEMMA SubAutoStep ==
  ASSUME IInv, NEW u \in People, NEW v \in People, SubAuto(u, v)
  PROVE  IInv'
<1>1. PICK new \in [People -> Sides \cup {"out"}] : Substitute(new)
  BY DEF SubAuto
<1>2. MayEdit /\ edits < MaxEdits
  BY DEF SubAuto, MaySubstitute
<1> QED
  BY <1>1, <1>2, SubstituteStep

\* put: the moved player joins those the book no longer answers for.
LEMMA PutStep ==
  ASSUME IInv, NEW u \in People, NEW side \in Sides, Put(u, side)
  PROVE  IInv'
<1>1. /\ MayEdit /\ team' = [team EXCEPT ![u] = side] /\ carried' = carried \cup {u}
      /\ slips < MaxSlips /\ slips' = slips + 1
      /\ UNCHANGED <<phase, opening, books, bet, checked, task, moved, presses, edits>>
  BY DEF Put
<1>2. moved = {}
  BY <1>1 DEF MayEdit, IInv, RestartAgrees
<1>3. slips' \in 0..MaxSlips /\ carried' \subseteq People /\ team' \in [People -> Sides \cup {"out"}]
  BY <1>1, BoundsAssumption DEF IInv, TypeOK
<1>4. \A v \in People \ (carried' \cup moved') : team'[v] = team[v]
  BY <1>1 DEF IInv, TypeOK
<1>5. edits' \in 0..MaxEdits /\ carried \subseteq carried' /\ moved' \subseteq People
  BY <1>1, <1>2 DEF IInv, TypeOK
<1> QED
  BY <1>1, <1>2, <1>3, <1>4, <1>5, TeamStep

----------------------------------------------------------------------------
\* Closing books.

\* Only tasks and their history change.
LEMMA TaskStep ==
  ASSUME IInv, NEW t \in Tasks, task' \in [Tasks -> Task], TaskAgrees(t)',
         \A u \in Tasks \ {t} : task'[u] = task[u],
         carried' \subseteq People, moved' \subseteq People, slips' \in 0..MaxSlips,
         carried \cup moved \subseteq carried' \cup moved', RestartAgrees',
         UNCHANGED <<team, phase, opening, books, bet, checked, presses, edits>>
  PROVE  IInv'
<1>1. TypeOK' /\ RowsAgree'
  BY DEF IInv, TypeOK, RowsAgree, books
<1>2. TasksAgree'
  BY TaskFrame DEF IInv, TasksAgree, RowsKept, books
<1>3. InPlayAgree' /\ InPlayIsNewest' /\ PressesAgree'
  BY InPlayFrame DEF IInv, InPlay, books
<1> QED
  BY <1>1, <1>2, <1>3 DEF IInv

\* The status of a row changes, never back to open, and no branch does.
LEMMA StatusStep ==
  ASSUME IInv, NEW t \in Tasks, task' \in [Tasks -> Task], TaskAgrees(t)',
         \A u \in Tasks \ {t} : task'[u] = task[u],
         NEW p \in Posts, NEW s \in Statuses \ {"open"}, post' = [post EXCEPT ![p] = s],
         intent[p] = "none" => s \in Live, s = "resolved" => intent[p] = "settle",
         task'["restart"] # task["restart"] => t = "restart" /\ RestartAgrees',
         UNCHANGED <<team, phase, opening, intent, bet, checked, moved, carried, presses, edits, slips>>
  PROVE  IInv'
<1>1. /\ post \in Seq(Statuses) /\ p \in 1..Len(post) /\ Posts = 1..Len(post)
  BY PostNumbers DEF IInv, TypeOK
<1>2. /\ post' \in Seq(Statuses) /\ Len(post') = Len(post)
      /\ \A q \in 1..Len(post) : post'[q] = IF q = p THEN s ELSE post[q]
  BY <1>1, Updated
<1>3. Posts' = Posts /\ InPlay' = InPlay
  BY <1>1, <1>2 DEF InPlay
<1>4. TypeOK'
  BY <1>2 DEF IInv, TypeOK
<1>5. RowsAgree'
  BY <1>1, <1>2, <1>3 DEF IInv, RowsAgree
<1>6. TasksAgree'
  <2>1. RowsKept
    BY <1>1, <1>2, <1>3 DEF RowsKept
  <2> QED
    BY <2>1, TaskFrame DEF IInv, TasksAgree
<1>7. InPlayAgree' /\ InPlayIsNewest' /\ PressesAgree'
  BY <1>2, <1>3, InPlayFrame DEF IInv
<1>8. RestartAgrees'
  <2>1. ~opening
    BY <1>1 DEF IInv, RestartAgrees
  <2>2. CASE task'["restart"] = task["restart"]
    BY <1>3, <2>1, <2>2 DEF IInv, RestartAgrees
  <2> QED
    BY <2>2
<1> QED
  BY <1>4, <1>5, <1>6, <1>7, <1>8 DEF IInv

\* What a task does after its book.
LEMMA AfterFacts ==
  ASSUME TypeOK, NEW t \in Tasks, After(t)
  PROVE  /\ task' \in [Tasks -> Task] /\ \A u \in Tasks \ {t} : task'[u] = task[u]
         /\ task'[t].at = (IF t = "restart" THEN "open" ELSE "no") /\ task'[t].branch = "none"
<1> DEFINE new == IF t = "restart" THEN [Idle EXCEPT !.at = "open"] ELSE Idle
<1>1. /\ new \in Task /\ new.at = (IF t = "restart" THEN "open" ELSE "no") /\ new.branch = "none"
  <2>1. [Idle EXCEPT !.at = "open"] \in Task /\ Idle \in Task
    BY BoundsAssumption DEF Idle, Task
  <2> QED
    BY <2>1 DEF Idle
<1>2. task' = [task EXCEPT ![t] = new] /\ task \in [Tasks -> Task]
  BY DEF After, TypeOK
<1> HIDE DEF new
<1> QED
  BY <1>1, <1>2

\* A claim that is lost, or that finds its own branch, changes no row.
LEMMA LostClaim ==
  ASSUME IInv, NEW t \in Tasks, task[t].at = "claim", ~Claimable(task[t].book), UNCHANGED books,
         IF post[task[t].book] \in Live /\ intent[task[t].book] = task[t].branch
         THEN task' = [task EXCEPT ![t].at = "money"] ELSE After(t),
         UNCHANGED <<team, phase, opening, bet, checked, moved, carried, presses, edits, slips>>
  PROVE  IInv'
<1> DEFINE p == task[t].book
<1>1. p \in Posts /\ task[t] \in Task /\ TaskAgrees(t) /\ task[t].branch # "none"
  BY DEF IInv, TypeOK, TasksAgree, TaskAgrees
<1>2. \/ /\ task'[t] = [task[t] EXCEPT !.at = "money"] /\ intent[p] = task[t].branch
      \/ task'[t] = IF t = "restart" THEN [Idle EXCEPT !.at = "open"] ELSE Idle
  BY DEF After, IInv, TypeOK
<1>3. task' \in [Tasks -> Task] /\ \A u \in Tasks \ {t} : task'[u] = task[u]
  <2>1. CASE After(t)
    BY <2>1, AfterFacts DEF IInv
  <2>2. CASE task' = [task EXCEPT ![t].at = "money"]
    BY <2>2 DEF IInv, TypeOK, Task
  <2> QED
    BY <2>1, <2>2
<1>4. TaskAgrees(t)'
  BY <1>1, <1>2 DEF TaskAgrees, Idle, books, Task
<1>5. RestartAgrees'
  <2>1. CASE t # "restart"
    BY <1>3, <2>1 DEF IInv, RestartAgrees, InPlay, books, Tasks
  <2>2. CASE t = "restart"
    <3>1. phase = "live" /\ InPlay \subseteq {p} /\ task[t].branch = "void" /\ ~opening
      BY <1>1, <2>2, PostNumbers DEF IInv, RestartAgrees
    <3>2. p \notin InPlay
      BY RefundedOrFree, <3>1 DEF Claimable
    <3>3. InPlay' = {}
      BY <3>1, <3>2 DEF InPlay, books
    <3>4. task'["restart"].at \in {"money", "open"}
      BY <1>1, <1>2, <2>2 DEF Idle, Task
    <3> QED
      BY <3>1, <3>3, <3>4 DEF RestartAgrees
  <2> QED
    BY <2>1, <2>2
<1> QED
  BY <1>3, <1>4, <1>5, TaskStep DEF IInv, TypeOK

\* A claim that is won stakes the task's branch; a refund takes the book out of play.
LEMMA WonClaim ==
  ASSUME IInv, NEW t \in Tasks, task[t].at = "claim", Claimable(task[t].book),
         post' = [post EXCEPT ![task[t].book] = "frozen"],
         intent' = [intent EXCEPT ![task[t].book] = task[t].branch],
         task' = [task EXCEPT ![t].at = "money"],
         UNCHANGED <<team, phase, opening, bet, checked, moved, carried, presses, edits, slips>>
  PROVE  IInv'
<1> DEFINE p == task[t].book
           branch == task[t].branch
<1>1. /\ p \in Posts /\ task[t] \in Task /\ branch \in Intents
      /\ branch = "settle" => phase = "reported"
  BY DEF IInv, TypeOK, TasksAgree, TaskAgrees, Task
<1>2. intent[p] = "none" /\ post[p] \in Live
  BY DEF Claimable
<1>3. Posts = 1..Len(post) /\ Len(intent) = Len(post)
  BY PostNumbers DEF IInv, TypeOK
<1>4. /\ post' \in Seq(Statuses) /\ Len(post') = Len(post)
      /\ \A q \in Posts : post'[q] = IF q = p THEN "frozen" ELSE post[q]
  BY <1>1, <1>3, Updated DEF Statuses, IInv, TypeOK
<1>5. /\ intent' \in Seq(Intents \cup {"none"}) /\ Len(intent') = Len(post)
      /\ \A q \in Posts : intent'[q] = IF q = p THEN branch ELSE intent[q]
  BY <1>1, <1>3, Updated DEF IInv, TypeOK
<1>6. Posts' = Posts /\ InPlay' \subseteq InPlay
  BY <1>1, <1>2, <1>3, <1>4, <1>5 DEF InPlay, Refunds
<1>7. /\ task' \in [Tasks -> Task] /\ task'[t].at = "money" /\ task'[t].book = p
      /\ task'[t].branch = branch /\ \A u \in Tasks \ {t} : task'[u] = task[u]
  BY <1>1 DEF IInv, TypeOK, Task
<1> HIDE DEF p, branch
<1>8. TypeOK'
  BY <1>4, <1>5, <1>7 DEF IInv, TypeOK
<1>9. RowsAgree'
  BY <1>1, <1>4, <1>5, <1>6 DEF IInv, RowsAgree, Live, Intents
<1>10. TasksAgree'
  <2>1. RowsKept
    BY <1>2, <1>4, <1>5, <1>6 DEF RowsKept, p
  <2>2. TaskAgrees(t)'
    BY <1>1, <1>5, <1>6, <1>7 DEF TaskAgrees, Intents, Refunds
  <2> QED
    BY <1>7, <2>1, <2>2, TaskFrame DEF IInv, TasksAgree
<1>11. InPlayAgree' /\ InPlayIsNewest' /\ PressesAgree'
  BY <1>4, <1>6, InPlayFrame DEF IInv
<1>12. RestartAgrees'
  <2>1. ~opening
    BY <1>1, <1>3 DEF IInv, RestartAgrees
  <2>2. CASE t # "restart"
    BY <1>6, <1>7, <2>1, <2>2 DEF IInv, RestartAgrees, Tasks
  <2>3. CASE t = "restart"
    <3>1. phase = "live" /\ InPlay \subseteq {p} /\ branch = "void"
      BY <2>3 DEF IInv, RestartAgrees, p, branch
    <3>2. InPlay' = {}
      BY <1>1, <1>5, <1>6, <3>1 DEF InPlay, Refunds
    <3> QED
      BY <1>7, <2>1, <2>3, <3>1, <3>2 DEF RestartAgrees
  <2> QED
    BY <2>2, <2>3
<1> QED
  BY <1>8, <1>9, <1>10, <1>11, <1>12 DEF IInv

\* _close_book.
LEMMA ClaimStep ==
  ASSUME IInv, NEW t \in Tasks, Claim(t)
  PROVE  IInv'
  BY WonClaim, LostClaim DEF Claim

\* The status is written of the branch staked on the row.
LEMMA FinishStep ==
  ASSUME IInv, NEW t \in Tasks, Finish(t)
  PROVE  IInv'
<1> DEFINE p == task[t].book
<1>1. /\ p \in Posts /\ task[t] \in Task /\ task[t].branch \in Intents /\ intent[p] = task[t].branch
      /\ task[t].at = "money"
  BY DEF Finish, IInv, TypeOK, TasksAgree, TaskAgrees, Task
<1>2. PICK s \in Statuses \ {"open"} : s = Ending(p, task[t].branch) /\ (s = "resolved" => intent[p] = "settle")
  <2>1. CASE task[t].branch # "settle"
    <3>1. Ending(p, task[t].branch) = task[t].branch
      BY <2>1 DEF Ending
    <3>2. task[t].branch \in {"void", "no_action"}
      BY <1>1, <2>1 DEF Intents, Refunds
    <3> QED
      BY <3>1, <3>2 DEF Statuses
  <2>2. CASE task[t].branch = "settle"
    <3>1. Ending(p, "settle") \in {"resolved", "void"}
      BY DEF Ending
    <3> QED
      BY <1>1, <2>2, <3>1 DEF Statuses
  <2> QED
    BY <2>1, <2>2
<1>3. /\ post' = [post EXCEPT ![p] = s] /\ After(t)
      /\ UNCHANGED <<team, phase, opening, intent, bet, checked, moved, carried, presses, edits, slips>>
  BY <1>2 DEF Finish
<1>4. /\ task' \in [Tasks -> Task] /\ \A u \in Tasks \ {t} : task'[u] = task[u]
      /\ task'[t].at = (IF t = "restart" THEN "open" ELSE "no") /\ task'[t].branch = "none"
  BY <1>3, AfterFacts DEF IInv
<1>5. TaskAgrees(t)'
  BY <1>4 DEF TaskAgrees
<1>6. t = "restart" => RestartAgrees'
  <2> SUFFICES ASSUME t = "restart" PROVE RestartAgrees'
    OBVIOUS
  <2>1. phase = "live" /\ InPlay = {} /\ ~opening /\ task'["restart"].at = "open"
    BY <1>1, <1>4 DEF IInv, RestartAgrees
  <2>2. Posts' = Posts
    BY <1>1, <1>3, PostNumbers, Updated DEF IInv, TypeOK
  <2>3. InPlay' = {}
    BY <1>3, <2>1, <2>2 DEF InPlay
  <2> QED
    BY <1>3, <2>1, <2>3 DEF RestartAgrees
<1>7. task'["restart"] # task["restart"] => t = "restart"
  BY <1>4 DEF Tasks
<1>8. intent[p] = "none" => s \in Live
  BY <1>1 DEF Intents, Refunds
<1> HIDE DEF p
<1> QED
  BY <1>1, <1>2, <1>3, <1>4, <1>5, <1>6, <1>7, <1>8, StatusStep

\* A task that fails holds nothing; a failed restart leaves its people to the history.
LEMMA FailStep ==
  ASSUME IInv, NEW t \in Tasks, Fails(t)
  PROVE  IInv'
<1>1. /\ slips < MaxSlips /\ slips' = slips + 1 /\ task' = [task EXCEPT ![t] = Idle]
      /\ IF t = "restart" THEN carried' = carried \cup moved /\ moved' = {} ELSE UNCHANGED <<moved, carried>>
      /\ UNCHANGED <<team, phase, opening, books, bet, checked, presses, edits>>
  BY DEF Fails
<1>2. /\ task' \in [Tasks -> Task] /\ task'[t] = Idle /\ \A u \in Tasks \ {t} : task'[u] = task[u]
  BY <1>1, BoundsAssumption DEF IInv, TypeOK, Task, Idle
<1>3. TaskAgrees(t)'
  <2>1. task'[t].at = "no" /\ task'[t].branch = "none"
    BY <1>2 DEF Idle
  <2> QED
    BY <2>1 DEF TaskAgrees
<1>4. RestartAgrees'
  <2>1. CASE t # "restart"
    BY <1>1, <1>2, <2>1 DEF IInv, RestartAgrees, InPlay, books, Tasks
  <2>2. CASE t = "restart"
    BY <1>1, <1>2, <2>2 DEF IInv, RestartAgrees, Idle, books
  <2> QED
    BY <2>1, <2>2
<1>5. /\ carried' \subseteq People /\ moved' \subseteq People /\ slips' \in 0..MaxSlips
      /\ carried \cup moved \subseteq carried' \cup moved'
  BY <1>1, BoundsAssumption DEF IInv, TypeOK
<1> QED
  BY <1>1, <1>2, <1>3, <1>4, <1>5, TaskStep

----------------------------------------------------------------------------
\* Restarts, the end of the match, the sweep.

\* restart_for_match looks for the book: if any is in play, it is the newest.
LEMMA FindStep == IInv /\ RestartFind => IInv'
<1> SUFFICES ASSUME IInv, RestartFind PROVE IInv'
  OBVIOUS
<1>1. /\ task["restart"].at = "find" /\ phase = "live"
      /\ UNCHANGED <<team, phase, opening, books, bet, checked, carried, presses, edits, slips>>
  BY DEF RestartFind, IInv, RestartAgrees
<1>2. CASE LiveForMatch = {} /\ task' = [task EXCEPT !["restart"] = Idle] /\ moved' = {}
  <2>1. InPlay = {}
    BY <1>1, <1>2, RefundedOrFree DEF LiveForMatch, InPlay
  <2>2. InPlay' = {}
    BY <1>1, <2>1 DEF InPlay, books
  <2>3. task' \in [Tasks -> Task] /\ task'["restart"] = Idle /\ \A u \in Tasks \ {"restart"} : task'[u] = task[u]
    BY <1>2, BoundsAssumption DEF IInv, TypeOK, Task, Idle, Tasks
  <2>4. TypeOK' /\ RowsAgree' /\ PressesAgree'
    BY <1>1, <1>2, <2>3 DEF IInv, TypeOK, RowsAgree, PressesAgree, books
  <2>5. InPlayAgree' /\ InPlayIsNewest'
    BY <2>2 DEF InPlayAgree, InPlayIsNewest
  <2>6. RestartAgrees'
    BY <1>1, <1>2, <2>3 DEF IInv, RestartAgrees, Idle, books
  <2>7. TasksAgree'
    <3>1. TaskAgrees("restart")'
      BY <2>3 DEF TaskAgrees, Idle
    <3>2. RowsKept
      BY <1>1 DEF RowsKept, books
    <3> QED
      BY <2>3, <3>1, <3>2, TaskFrame DEF IInv, TasksAgree
  <2> QED
    BY <2>4, <2>5, <2>6, <2>7 DEF IInv
<1>3. ASSUME NEW p \in Posts, Newest(p), moved' = moved,
             task' = [task EXCEPT !["restart"] = [at |-> "claim", book |-> p, branch |-> "void"]]
      PROVE  IInv'
  <2>1. InPlay \subseteq {p}
    <3>1. ASSUME NEW q \in InPlay PROVE q = p
      <4>1. q = Len(post) /\ q \in LiveForMatch
        BY <1>1, RefundedOrFree DEF LiveForMatch, InPlay
      <4>2. q <= p /\ p <= Len(post) /\ p \in Nat /\ q \in Nat
        BY <1>3, <4>1, PostNumbers DEF Newest, IInv
      <4> QED
        BY <4>1, <4>2
    <3> QED
      BY <3>1
  <2>2. /\ task'["restart"] = [at |-> "claim", book |-> p, branch |-> "void"]
        /\ task' \in [Tasks -> Task] /\ \A u \in Tasks \ {"restart"} : task'[u] = task[u]
    BY <1>3, PostNumbers DEF IInv, TypeOK, Task, Tasks, Intents, Refunds
  <2>3. RestartAgrees'
    BY <1>1, <1>3, <2>1, <2>2 DEF IInv, RestartAgrees, InPlay, books
  <2>4. TaskAgrees("restart")'
    BY <1>1, <2>2 DEF TaskAgrees, books
  <2>5. carried' \subseteq People /\ moved' \subseteq People /\ slips' \in 0..MaxSlips
    BY <1>1, <1>3 DEF IInv, TypeOK
  <2> QED
    BY <1>1, <1>3, <2>2, <2>3, <2>4, <2>5, TaskStep DEF Tasks
<1> QED
  BY <1>2, <1>3 DEF RestartFind

\* The fresh book of a restart.
LEMMA ReopenStep == IInv /\ RestartOpen => IInv'
<1> SUFFICES ASSUME IInv, RestartOpen PROVE IInv'
  OBVIOUS
<1>1. /\ CreatePost /\ task["restart"].at = "open" /\ task' = [task EXCEPT !["restart"] = Idle] /\ moved' = {}
      /\ UNCHANGED <<team, phase, opening, checked, carried, presses, edits, slips>>
  BY DEF RestartOpen
<1>2. InPlay = {} /\ ~opening
  BY <1>1 DEF IInv, RestartAgrees
<1>3. /\ task' \in [Tasks -> Task] /\ task'["restart"] = Idle /\ \A u \in Tasks \ {"restart"} : task'[u] = task[u]
  BY <1>1, BoundsAssumption DEF IInv, TypeOK, Task, Idle, Tasks
<1>4. TypeOK'
  BY <1>1, <1>3, Created, BoundsAssumption DEF IInv, TypeOK
<1>5. RestartAgrees'
  BY <1>1, <1>2, <1>3 DEF RestartAgrees, Idle
<1>6. /\ InPlayAgree' /\ InPlayIsNewest' /\ PressesAgree' /\ RowsAgree'
      /\ \A t \in Tasks \ {"restart"} : TaskAgrees(t)'
  BY <1>1, <1>2, <1>3, CreateStep
<1>7. TaskAgrees("restart")'
  BY <1>3 DEF TaskAgrees, Idle
<1> QED
  BY <1>4, <1>5, <1>6, <1>7 DEF IInv, TasksAgree

\* The match ends, never in the middle of an edit.
LEMMA EndStep ==
  ASSUME IInv, NEW end \in {"reported", "dropped"}, End(end)
  PROVE  IInv'
<1>1. /\ phase = "live" /\ task["restart"].at = "no" /\ phase' = end
      /\ task' = [task EXCEPT !["settle"].at = "find"]
      /\ UNCHANGED <<team, opening, books, bet, checked, moved, carried, presses, edits, slips>>
  BY DEF End, MayEnd
<1>2. /\ task' \in [Tasks -> Task] /\ task'["restart"] = task["restart"]
      /\ task'["settle"].at = "find" /\ task'["settle"].branch = task["settle"].branch
      /\ \A u \in Tasks \ {"settle"} : task'[u] = task[u]
  BY <1>1 DEF IInv, TypeOK, Task, Tasks
<1>3. TypeOK' /\ RestartAgrees'
  BY <1>1, <1>2 DEF IInv, TypeOK, RestartAgrees, books
<1>4. RowsAgree'
  BY <1>1 DEF IInv, RowsAgree, books
<1>5. TasksAgree'
  <2>1. RowsKept
    BY <1>1 DEF RowsKept, books
  <2>2. TaskAgrees("settle")'
    BY <1>1, <1>2 DEF IInv, TasksAgree, TaskAgrees, Tasks
  <2> QED
    BY <1>2, <2>1, <2>2, TaskFrame DEF IInv, TasksAgree
<1>6. InPlayAgree' /\ InPlayIsNewest' /\ PressesAgree'
  BY <1>1, InPlayFrame DEF IInv, InPlay, books
<1> QED
  BY <1>3, <1>4, <1>5, <1>6 DEF IInv

\* A task takes a book in hand, or none: no row changes.
LEMMA TakeStep ==
  ASSUME IInv, NEW t \in Tasks \ {"restart"}, NEW new \in Task, task' = [task EXCEPT ![t] = new],
         TaskAgrees(t)',
         UNCHANGED <<team, phase, opening, books, bet, checked, moved, carried, presses, edits, slips>>
  PROVE  IInv'
<1>1. /\ task' \in [Tasks -> Task] /\ task'["restart"] = task["restart"]
      /\ \A u \in Tasks \ {t} : task'[u] = task[u]
  BY DEF IInv, TypeOK, Tasks
<1>2. RestartAgrees'
  BY <1>1 DEF IInv, RestartAgrees, InPlay, books
<1> QED
  BY <1>1, <1>2, TaskStep DEF IInv, TypeOK

\* Both resume paths ask the match for its verdict.
LEMMA VerdictFacts == Verdict \in {"settle", "void"} /\ (Verdict = "settle" => phase = "reported")
  BY DEF Verdict

\* resolve_for_match and void_for_match.
LEMMA SettleFindStep == IInv /\ SettleFind => IInv'
<1> SUFFICES ASSUME IInv, SettleFind PROVE IInv'
  OBVIOUS
<1>1. UNCHANGED <<team, phase, opening, books, bet, checked, moved, carried, presses, edits, slips>>
  BY DEF SettleFind
<1>2. task \in [Tasks -> Task] /\ "settle" \in Tasks \ {"restart"}
  BY DEF IInv, TypeOK, Tasks
<1>3. CASE task' = [task EXCEPT !["settle"] = Idle]
  <2>1. Idle \in Task /\ task'["settle"] = Idle
    BY <1>2, <1>3, BoundsAssumption DEF Idle, Task
  <2>2. TaskAgrees("settle")'
    BY <2>1 DEF TaskAgrees, Idle
  <2> QED
    BY <1>1, <1>2, <1>3, <2>1, <2>2, TakeStep
<1>4. ASSUME NEW p \in Posts, task' = [task EXCEPT !["settle"] = [at |-> "claim", book |-> p, branch |-> Verdict]]
      PROVE  IInv'
  <2> DEFINE new == [at |-> "claim", book |-> p, branch |-> Verdict]
  <2>1. new \in Task /\ task'["settle"] = new
    BY <1>2, <1>4, VerdictFacts, PostNumbers DEF Task, Intents, Refunds, IInv
  <2>2. TaskAgrees("settle")'
    BY <1>1, <2>1, VerdictFacts DEF TaskAgrees, books
  <2> QED
    BY <1>1, <1>2, <1>4, <2>1, <2>2, TakeStep
<1> QED
  BY <1>3, <1>4 DEF SettleFind

\* _resume and the abandoned books.
LEMMA ResumeStep ==
  ASSUME IInv, NEW p \in Posts, SweepResume(p)
  PROVE  IInv'
<1>1. UNCHANGED <<team, phase, opening, books, bet, checked, moved, carried, presses, edits, slips>>
  BY DEF SweepResume
<1>2. task \in [Tasks -> Task] /\ "sweep" \in Tasks \ {"restart"}
  BY DEF IInv, TypeOK, Tasks
<1> DEFINE new == IF intent[p] \in Refunds THEN [at |-> "money", book |-> p, branch |-> intent[p]]
                                           ELSE [at |-> "claim", book |-> p, branch |-> Verdict]
<1>3. task' = [task EXCEPT !["sweep"] = new]
  BY DEF SweepResume
<1>4. p \in 0..MaxPosts /\ Refunds \subseteq Intents /\ "settle" \notin Refunds /\ "none" \notin Refunds
  BY PostNumbers DEF IInv, Intents, Refunds
<1>5. new \in Task /\ task'["sweep"] = new
  BY <1>2, <1>3, <1>4, VerdictFacts DEF Task, Intents, Refunds
<1>6. /\ new.at \in {"money", "claim"} /\ new.book = p
      /\ new.at = "money" => new.branch = intent[p] /\ intent[p] \in Refunds
      /\ new.at = "claim" => new.branch = Verdict
  OBVIOUS
<1> HIDE DEF new
<1>7. TaskAgrees("sweep")'
  BY <1>1, <1>4, <1>5, <1>6, VerdictFacts DEF TaskAgrees, books
<1> QED
  BY <1>1, <1>2, <1>3, <1>5, <1>7, TakeStep

\* The sweep ends the open phase of a book.
LEMMA CloseStep ==
  ASSUME IInv, NEW p \in Posts, SweepClose(p)
  PROVE  IInv'
<1>1. /\ post[p] = "open" /\ post' = [post EXCEPT ![p] = "frozen"]
      /\ UNCHANGED <<team, phase, opening, intent, bet, checked, moved, carried, presses, edits, slips>>
  BY DEF SweepClose
<1>2. PICK new \in {[at |-> "claim", book |-> p, branch |-> "no_action"], [at |-> "lock", book |-> p, branch |-> "none"]} :
         task' = [task EXCEPT !["sweep"] = new]
  BY DEF SweepClose
<1>3. /\ task' \in [Tasks -> Task] /\ task'["sweep"] = new /\ \A u \in Tasks \ {"sweep"} : task'[u] = task[u]
  BY <1>2, PostNumbers DEF IInv, TypeOK, Task, Tasks, Intents, Refunds
<1>4. /\ Posts' = Posts /\ post'[p] = "frozen"
  BY <1>1, PostNumbers, Updated DEF IInv, TypeOK, Statuses
<1>5. TaskAgrees("sweep")'
  BY <1>2, <1>3, <1>4 DEF TaskAgrees
<1> QED
  BY <1>1, <1>3, <1>5, StatusStep DEF Tasks, Statuses, Live

\* store.freeze.
LEMMA LockStep == IInv /\ SweepLock => IInv'
<1> SUFFICES ASSUME IInv, SweepLock PROVE IInv'
  OBVIOUS
<1>1. PICK p \in Posts : p = task["sweep"].book
  BY DEF SweepLock, IInv, TasksAgree, TaskAgrees, Tasks
<1>2. /\ post' = [post EXCEPT ![p] = "frozen"] /\ task' = [task EXCEPT !["sweep"] = Idle]
      /\ UNCHANGED <<team, phase, opening, intent, bet, checked, moved, carried, presses, edits, slips>>
  BY <1>1 DEF SweepLock
<1>3. /\ task' \in [Tasks -> Task] /\ task'["sweep"] = Idle /\ \A u \in Tasks \ {"sweep"} : task'[u] = task[u]
  BY <1>2, BoundsAssumption DEF IInv, TypeOK, Task, Idle, Tasks
<1>4. TaskAgrees("sweep")'
  BY <1>3 DEF TaskAgrees, Idle
<1> QED
  BY <1>2, <1>3, <1>4, StatusStep DEF Tasks, Statuses, Live

----------------------------------------------------------------------------
\* The theorems.

LEMMA StutterStep == IInv /\ UNCHANGED vars => IInv'
  BY DEF vars, books, IInv, TypeOK, InPlayAgree, InPlay, Agrees, OnOwnSide, RestartAgrees, PressesAgree,
     RowsAgree, TasksAgree, TaskAgrees, InPlayIsNewest

\* Every step keeps the invariant.
LEMMA NextStep == IInv /\ [Next]_vars => IInv'
<1> SUFFICES ASSUME IInv, [Next]_vars PROVE IInv'
  OBVIOUS
<1>1. CASE OpenForMatch
  BY <1>1, OpenStep
<1>2. CASE Press
  BY <1>2, CheckStep, PlaceStep, CancelStep DEF Press
<1>3. CASE Edit
  BY <1>3, SubForStep, SubAutoStep, PutStep DEF Edit
<1>4. CASE RestartFind \/ RestartOpen \/ SettleFind
  BY <1>4, FindStep, ReopenStep, SettleFindStep
<1>5. CASE Sweep
  BY <1>5, CloseStep, ResumeStep, LockStep DEF Sweep
<1>6. ASSUME NEW end \in {"reported", "dropped"}, End(end) PROVE IInv'
  BY <1>6, EndStep
<1>7. ASSUME NEW t \in Tasks, Claim(t) \/ Finish(t) \/ Fails(t) PROVE IInv'
  BY <1>7, ClaimStep, FinishStep, FailStep
<1>8. CASE UNCHANGED vars
  BY <1>8, StutterStep
<1> QED
  BY <1>1, <1>2, <1>3, <1>4, <1>5, <1>6, <1>7, <1>8 DEF Next

\* Books in play, presses in flight and the tasks that close books agree with the roster in
\* every reachable state.
THEOREM RosterInductive == Spec => []IInv
<1> QED
  BY InitIInv, NextStep, PTL DEF Spec

\* Every variable keeps its type.
THEOREM RosterTypes == Spec => []TypeOK
<1>1. IInv => TypeOK
  BY DEF IInv
<1> QED
  BY RosterInductive, <1>1, PTL

\* Between roster changes nobody a substitution moved holds a stake against himself on a book
\* that may be paid.
THEOREM SubstitutesSafe == Spec => []SubstitutesAreSafe
<1>1. IInv => SubstitutesAreSafe
  BY DEF IInv, RestartAgrees, InPlayAgree, Agrees, SubstitutesAreSafe
<1> QED
  BY RosterInductive, <1>1, PTL

\* The report's self-bets are true of the reported roster.
THEOREM SelfBetsAreTrue == Spec => []NamedBackThemselves
<1>1. IInv => NamedBackThemselves
  <2> SUFFICES ASSUME IInv, NEW p \in Posts, post[p] = "resolved", NEW u \in People \ carried
               PROVE  bet[p][u].player => bet[p][u].side = team[u]
    BY DEF NamedBackThemselves
  <2>1. intent[p] = "settle" /\ phase = "reported"
    BY DEF IInv, RowsAgree
  <2>2. p \in InPlay /\ moved = {}
    BY <2>1 DEF InPlay, Refunds, IInv, RestartAgrees
  <2> QED
    BY <2>2 DEF IInv, InPlayAgree, Agrees
<1> QED
  BY RosterInductive, <1>1, PTL

\* All the books of a match but one are staked for a refund.
THEOREM BookInPlayIsUnique == Spec => []OneBookInPlay
<1>1. IInv => OneBookInPlay
  <2>1. SUFFICES ASSUME InPlayIsNewest PROVE Cardinality(InPlay) <= 1
    BY DEF IInv, OneBookInPlay
  <2>2. CASE InPlay = {}
    BY <2>2, FS_EmptySet
  <2>3. CASE InPlay # {}
    <3>1. PICK p \in InPlay : InPlay = {p}
      BY <2>1, <2>3 DEF InPlayIsNewest
    <3> QED
      BY <3>1, FS_Singleton
  <2> QED
    BY <2>2, <2>3
<1> QED
  BY RosterInductive, <1>1, PTL
=============================================================================
