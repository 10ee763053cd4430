------------------------------ MODULE Scoring ------------------------------
(***************************************************************************)
(* The betting rules that move no state: nammaoe2bot/features/betting/     *)
(* scoring.py and tax_policy.py.  A book gives every user a side and a     *)
(* stake; stake 0 stands for "no prediction_bets row".                     *)
(***************************************************************************)
EXTENDS Integers, FiniteSetsExt

CONSTANT Users     \* people who may bet

ASSUME UsersAssumption == IsFiniteSet(Users)

Sides == {"team0", "team1"}

Bettors(b) == {u \in Users : b[u].stake > 0}
Backers(b, side) == {u \in Bettors(b) : b[u].side = side}
OneSided(b) == \E side \in Sides : Backers(b, side) = {}
Pool(b, S) == SumFunctionOnSet([u \in S |-> b[u].stake], S)

\* payouts: who is paid when side w wins, and each one's floor of the whole pot.
Winners(b, w) == IF OneSided(b) THEN {} ELSE Backers(b, w)
ShareRoundedUp(b, w, u) ==     \* mutant
  LET d == Pool(b, Backers(b, w)) IN (b[u].stake * Pool(b, Bettors(b)) + d - 1) \div d
ShareByLosers(b, w, u) ==      \* mutant: divided by the losing pool
  (b[u].stake * Pool(b, Bettors(b))) \div Pool(b, Bettors(b) \ Backers(b, w))
Share(b, w, u) == (b[u].stake * Pool(b, Bettors(b))) \div Pool(b, Backers(b, w))
Burned(b, w) ==
  IF Winners(b, w) = {} THEN 0
  ELSE Pool(b, Bettors(b)) - SumFunctionOnSet([u \in Users |-> Share(b, w, u)], Winners(b, w))

\* stake_options: 10%, 25% and 50% of the 500-gold band, shrunk to a small wallet.
StakeOptions(balance) ==
  LET ceiling == 500 * ((balance + 499) \div 500)
      reference == Min({ceiling, 2 * balance})
  IN IF balance < 10 THEN {}
     ELSE {Min({balance, Max({10, reference \div d})}) : d \in {10, 4, 2}}

Room(balance) == Max({0, 500 - balance})
RewardFlat(balance) == 100     \* mutant: without the ceiling
RewardAmount(balance) == Min({100, Room(balance)})
QuizRewardAmount(balance, correct) == Min({IF correct THEN 50 ELSE 10, Room(balance)})

\* tax_amount, for a wallet seeded before the week it is assessed for.
TaxAmount(balance, participated) ==
  IF balance <= 500 \/ participated THEN 0 ELSE Min({balance \div 10, balance - 500})
=============================================================================
