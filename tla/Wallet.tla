------------------------------- MODULE Wallet -------------------------------
(***************************************************************************)
(* The gold bank of one community (nammaoe2bot/features/betting/gold.py),  *)
(* the stake buttons that reach it (interactions.py) and the weekly tax    *)
(* (tax.py, tax_policy.py).  Every action is one transaction of gold.py:   *)
(* ledger row and cached balance move together.  How a book is settled is  *)
(* Betting's subject; here it closes once, with its verdict.               *)
(*                                                                         *)
(* A stake button carries the amount it was drawn with, so a press may     *)
(* offer an amount of an older balance, and Discord may deliver one press  *)
(* several times.                                                          *)
(***************************************************************************)
EXTENDS Scoring

CONSTANTS
  PostIds,       \* ids prediction_posts can hand out (AUTO_INCREMENT)
  MatchIds, QuizIds,
  Amounts,       \* bound: stakes that users press
  MaxPresses,    \* bound: interaction ids Discord hands out
  MaxWeek        \* bound: weekly cutoffs that pass

ASSUME PostIdsAssumption == PostIds \subseteq Nat \ {0} /\ IsFiniteSet(PostIds)
ASSUME AmountsAssumption == Amounts \subseteq Nat
ASSUME WeekAssumption == MaxWeek \in Nat

VARIABLES
  balance,    \* gold_balances, 0 for a missing row
  ledger,     \* gold_ledger: the rows that carry an idem_key
  cancelled,  \* gold_ledger: the sum of each user's "cancel" rows on a post, which have none
  bet,        \* prediction_bets
  post,       \* prediction_posts: status, verdict, and the week opened_at and freezes_at fall in
  seeded,     \* the week of a user's "seed" row, or NotSeeded
  offered,    \* amounts on the buttons a user may still press
  sent,       \* presses Discord has sent, and may send again
  week,       \* cutoffs passed
  assessed    \* gold_tax_runs: weeks with completed_at

vars == <<balance, ledger, cancelled, bet, post, seeded, offered, sent, week, assessed>>

NotSeeded == -1
NoBet == [side |-> "team0", stake |-> 0]
NoPost == [status |-> "none", verdict |-> "none", opened |-> 0, closed |-> 0]

TypeOK ==
  /\ balance \in [Users -> Nat]
  /\ \A u \in Users : \A p \in PostIds :
       cancelled[u][p] \in Nat /\ bet[p][u].side \in Sides /\ bet[p][u].stake \in Nat
  /\ \A p \in PostIds : post[p].status \in {"none", "open", "closed"}
  /\ seeded \in [Users -> Int]
  /\ week \in 0..MaxWeek /\ assessed \subseteq 0..MaxWeek
  /\ \A r \in ledger : r.user \in Users /\ r.amount \in Int \ {0}

Init ==
  /\ balance = [u \in Users |-> 0] /\ ledger = {}
  /\ cancelled = [u \in Users |-> [p \in PostIds |-> 0]]
  /\ bet = [p \in PostIds |-> [u \in Users |-> NoBet]]
  /\ post = [p \in PostIds |-> NoPost]
  /\ seeded = [u \in Users |-> NotSeeded]
  /\ offered = [u \in Users |-> {}] /\ sent = {}
  /\ week = 0 /\ assessed = {}

----------------------------------------------------------------------------
\* Rows.  A row's idem_key is its kind, the thing it refers to, and the user.

Row(kind, ref, u, p, amount) == [kind |-> kind, ref |-> ref, user |-> u, post |-> p, amount |-> amount]

FreshAlways(kind, ref, u) == TRUE     \* mutant: the result of INSERT IGNORE is not looked at
Fresh(kind, ref, u) == ~ \E r \in ledger : r.kind = kind /\ r.ref = ref /\ r.user = u

\* INSERT of a row and the matching UPDATE of gold_balances.
Apply(r) ==
  /\ ledger' = ledger \cup {r}
  /\ balance' = [balance EXCEPT ![r.user] = @ + r.amount]

\* _credit: a positive movement, once.
Pays(r) == r.amount > 0
CreditRow(r) == /\ Pays(r) /\ Fresh(r.kind, r.ref, r.user) /\ Apply(r)

\* ensure_seeded, from bulk_seed and at the start of every press and every faucet.
EnsureSeeded(u) ==
  /\ CreditRow(Row("seed", 0, u, 0, 500))
  /\ seeded' = [seeded EXCEPT ![u] = week]
  /\ UNCHANGED <<cancelled, bet, post, offered, sent, week, assessed>>

----------------------------------------------------------------------------
\* The book, as much of it as the bank sees.

OpenBook(p) ==
  /\ post[p].status = "none" /\ \A q \in PostIds : q < p => post[q].status # "none"
  /\ post' = [post EXCEPT ![p] = [NoPost EXCEPT !.status = "open", !.opened = week]]
  /\ UNCHANGED <<balance, ledger, cancelled, bet, seeded, offered, sent, week, assessed>>

CloseBook(p, verdict) ==
  /\ post[p].status = "open"
  /\ verdict \in Sides => Winners(bet[p], verdict) # {}
  /\ post' = [post EXCEPT ![p].status = "closed", ![p].verdict = verdict, ![p].closed = week]
  /\ UNCHANGED <<balance, ledger, cancelled, bet, seeded, offered, sent, week, assessed>>

\* refund_post and pay_post, one user of the loop, as often as settlement is retried.
SettleUser(p, u) ==
  /\ post[p].status = "closed"
  /\ LET w == post[p].verdict IN
       IF w \in Sides
       THEN u \in Winners(bet[p], w) /\ CreditRow(Row("payout", p, u, p, Share(bet[p], w, u)))
       ELSE CreditRow(Row("refund", p, u, p, bet[p][u].stake))
  /\ UNCHANGED <<cancelled, bet, post, seeded, offered, sent, week, assessed>>

----------------------------------------------------------------------------
\* The buttons.

Buttons(gold) == StakeOptions(gold) \cap Amounts

\* _choose_stake and stake_view: a message with the options of the balance just read.
Choose(u) ==
  /\ \E p \in PostIds : post[p].status = "open"
  /\ seeded[u] # NotSeeded
  /\ offered' = [offered EXCEPT ![u] = @ \cup Buttons(balance[u])]
  /\ UNCHANGED <<balance, ledger, cancelled, bet, post, seeded, sent, week, assessed>>

Press(u, p, side, stake) ==
  /\ Cardinality(sent) < MaxPresses
  /\ stake \in offered[u] /\ post[p].status # "none"
  /\ sent' = sent \cup {[id |-> Cardinality(sent) + 1, user |-> u, post |-> p, side |-> side, stake |-> stake]}
  /\ UNCHANGED <<balance, ledger, cancelled, bet, post, seeded, offered, week, assessed>>

AcceptsBetsAlways(p) == TRUE     \* mutant: the status is not read again under the lock
AcceptsBets(p) == post[p].status = "open"

\* The row after one more stake: additive on the same side, and the primary key is the side lock.
Overwritten(b, x) == [side |-> x.side, stake |-> x.stake]     \* mutant: SET stake=%s
Added(b, x) == [side |-> x.side, stake |-> b.stake + x.stake]

\* place_bet, once or again for one press.  A refusal rolls everything back; except for a
\* closed book or a locked side the reply draws the buttons anew.
Deliver(x) ==
  LET u == x.user
      b == bet[x.post][u]
      new == Fresh("bet", x.id, u)
      takes == new /\ x.stake \in StakeOptions(balance[u])
      locked == b.stake > 0 /\ b.side # x.side
  IN
  /\ x \in sent /\ AcceptsBets(x.post)
  /\ ~(takes /\ locked)
  /\ IF takes
     THEN /\ Apply(Row("bet", x.id, u, x.post, -x.stake))
          /\ bet' = [bet EXCEPT ![x.post][u] = Added(b, x)]
     ELSE UNCHANGED <<balance, ledger, bet>>
  /\ offered' = [offered EXCEPT ![u] = @ \cup Buttons(balance'[u])]
  /\ UNCHANGED <<cancelled, post, seeded, sent, week, assessed>>

\* cancel_bet: the deleted row is the refund token.
CancelBet(u, p) ==
  LET stake == bet[p][u].stake IN
  /\ AcceptsBets(p) /\ stake > 0
  /\ bet' = [bet EXCEPT ![p][u] = NoBet]
  /\ cancelled' = [cancelled EXCEPT ![u][p] = @ + stake]
  /\ balance' = [balance EXCEPT ![u] = @ + stake]
  /\ UNCHANGED <<ledger, post, seeded, offered, sent, week, assessed>>

----------------------------------------------------------------------------
\* The faucets.  The amount is decided when it is applied: a grant of nothing leaves no
\* row, so a later retry may still pay.

GrantMatchReward(u, m) ==
  /\ seeded[u] # NotSeeded
  /\ CreditRow(Row("match_reward", m, u, 0, RewardAmount(balance[u])))
  /\ UNCHANGED <<cancelled, bet, post, seeded, offered, sent, week, assessed>>

GrantQuizReward(u, q, correct) ==
  /\ seeded[u] # NotSeeded
  /\ CreditRow(Row("quiz", q, u, 0, QuizRewardAmount(balance[u], correct)))
  /\ UNCHANGED <<cancelled, bet, post, seeded, offered, sent, week, assessed>>

----------------------------------------------------------------------------
\* The weekly tax of a policy activated in week 0; cutoff k begins week k and assesses
\* week k - 1.

Cutoff ==
  /\ week < MaxWeek
  /\ week' = week + 1
  /\ UNCHANGED <<balance, ledger, cancelled, bet, post, seeded, offered, sent, assessed>>

\* tax_candidates: a book somebody could have bet on, and the bets that count.
Opportunity(k) == \E p \in PostIds :
  post[p].status # "none" /\ post[p].opened < k /\ (post[p].status = "open" \/ post[p].closed >= k - 1)

ParticipatedByOpening(u, k) == \E p \in PostIds :     \* mutant: by the week the book opened
  post[p].status = "closed" /\ post[p].opened = k - 1 /\ bet[p][u].stake > 0
Participated(u, k) == \E p \in PostIds :
  post[p].status = "closed" /\ post[p].closed = k - 1 /\ bet[p][u].stake > 0

Tax(u, k) ==
  IF ~Opportunity(k) \/ seeded[u] = NotSeeded \/ seeded[u] >= k - 1 THEN 0
  ELSE TaxAmount(balance[u], Participated(u, k))

\* latest_cutoff only, never before first_cutoff, and gold_tax_runs says not yet.
Due(k) == week = k /\ k >= 2 /\ k \notin assessed

\* _apply_weekly_tax: every wallet of the community in one transaction.
RunTax(k) ==
  /\ Due(k)
  /\ ledger' = ledger \cup {Row("tax", k, u, 0, -Tax(u, k)) : u \in {v \in Users : Tax(v, k) > 0}}
  /\ balance' = [u \in Users |-> balance[u] - Tax(u, k)]
  /\ assessed' = assessed \cup {k}
  /\ UNCHANGED <<cancelled, bet, post, seeded, offered, sent, week>>

----------------------------------------------------------------------------
UserStep(u) ==
  \/ EnsureSeeded(u) \/ Choose(u)
  \/ \E m \in MatchIds : GrantMatchReward(u, m)
  \/ \E q \in QuizIds, correct \in BOOLEAN : GrantQuizReward(u, q, correct)
  \/ \E p \in PostIds :
       \/ CancelBet(u, p) \/ SettleUser(p, u)
       \/ \E side \in Sides : \E stake \in offered[u] : Press(u, p, side, stake)

Next ==
  \/ \E u \in Users : UserStep(u)
  \/ \E p \in PostIds : OpenBook(p) \/ \E v \in Sides \cup {"refund"} : CloseBook(p, v)
  \/ \E x \in sent : Deliver(x)
  \/ Cutoff \/ \E k \in 0..MaxWeek : RunTax(k)

Spec == Init /\ [][Next]_vars

----------------------------------------------------------------------------
\* Properties.

Sum(S) == SumFunctionOnSet([r \in S |-> r.amount], S)

\* gold.reconcile finds nothing: the cached balance is the sum of the ledger, whatever was
\* retried, refused or delivered twice.
CacheIsLedger == \A u \in Users :
  balance[u] = Sum({r \in ledger : r.user = u}) + SumFunctionOnSet(cancelled[u], PostIds)

\* What a user has on a book is what the ledger says was staked on it and not taken back.
StakesAreBacked == \A u \in Users : \A p \in PostIds :
  bet[p][u].stake = -Sum({r \in ledger : r.kind = "bet" /\ r.user = u /\ r.post = p}) - cancelled[u][p]

\* Over its whole life a book gives back at most what it took: stakes, cancellations, refunds
\* and winnings of everybody together never create gold.
BooksNeverMint == \A p \in PostIds :
  Sum({r \in ledger : r.post = p}) + SumFunctionOnSet([u \in Users |-> cancelled[u][p]], Users) <= 0

\* docs/GOLD.md: playing and the quiz only ever top a wallet up toward 500, and "Taxes never reduce
\* your available gold below 500", even when a reward or the tax is retried after bets and winnings
\* have moved the balance.
FlowsStopAt500 == [][\A r \in ledger' \ ledger :
  /\ r.kind \in {"match_reward", "quiz"} => balance'[r.user] <= 500
  /\ r.kind = "tax" => balance'[r.user] >= 500]_vars

\* A stake that was still placed when its book closed spares its owner the tax of that week,
\* however late the assessment runs.
BettorsAreSpared == \A r \in ledger : r.kind = "tax" =>
  \A p \in PostIds : post[p].status = "closed" /\ post[p].closed = r.ref - 1 => bet[p][r.user].stake = 0
=============================================================================
