-------------------------------- MODULE Pot --------------------------------
(***************************************************************************)
(* The odds of one open book as presses come in: what scoring.payouts      *)
(* would pay if the match were reported now.  PlaceBet's and CancelBet's   *)
(* effect on prediction_bets is gold.place_bet's and gold.cancel_bet's.    *)
(***************************************************************************)
EXTENDS Scoring

CONSTANT MaxStake        \* bound: most gold one user can have on the book

VARIABLE book

NoStake == [side |-> "team0", stake |-> 0]

OddsInit == book = [u \in Users |-> NoStake]

\* The first press locks the side, later ones add to it.
PlaceBet(u, side, stake) ==
  /\ book[u].stake + stake <= MaxStake
  /\ book[u].stake > 0 => book[u].side = side
  /\ book' = [book EXCEPT ![u] = [side |-> side, stake |-> @.stake + stake]]

CancelPress(u) ==
  /\ book[u].stake > 0
  /\ book' = [book EXCEPT ![u] = NoStake]

OddsNext == \E u \in Users :
  \/ \E side \in Sides, stake \in 1..MaxStake : PlaceBet(u, side, stake)
  \/ CancelPress(u)

OddsSpec == OddsInit /\ [][OddsNext]_book

\* However the floors fall, no gold is minted (fewer coins than there are winners are burned),
\* backing the winner never loses gold, equal stakes are paid equally and a larger one never less.
FairPot == \A w \in Sides :
  /\ Burned(book, w) >= 0 /\ (Winners(book, w) # {} => Burned(book, w) < Cardinality(Winners(book, w)))
  /\ \A u \in Winners(book, w) :
       /\ Share(book, w, u) >= book[u].stake
       /\ \A v \in Winners(book, w) : book[u].stake <= book[v].stake => Share(book, w, u) <= Share(book, w, v)

\* The odds move the way the card says: another press against a winner never lowers what
\* the winner is paid, another press beside them never raises it.
OddsMove == [][\A v \in Users, side \in Sides, stake \in 1..MaxStake :
  PlaceBet(v, side, stake) =>
    \A w \in Sides : \A u \in Winners(book, w) \ {v} :
      IF side = w THEN Share(book', w, u) <= Share(book, w, u)
                  ELSE Share(book', w, u) >= Share(book, w, u)]_book
=============================================================================
