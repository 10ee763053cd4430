---------------------------- MODULE BookPromise ----------------------------
(***************************************************************************)
(* What a book promises the people who bet on it, whoever settles it and   *)
(* however often settlement is interrupted: stakes move only while it is   *)
(* open; it is closed once; one verdict is given, once, unless the result  *)
(* it rests on is revoked; from then on the only gold that moves is what   *)
(* the verdict owes, once to each payee.                                   *)
(* The specification knows no tasks, no sweep and no match.                *)
(***************************************************************************)
EXTENDS Scoring

CONSTANTS PostIds, MaxStake

VARIABLES
  window,    \* "unopened", "open" or "closed"
  stakes,    \* the book: side and stake of every user
  verdict,   \* "none", "refund", or the side that is paid
  moved,     \* the ledger rows written so far
  revoked    \* books of a match whose result was undone

NoBet == [side |-> "team0", stake |-> 0]

Init ==
  /\ window = [p \in PostIds |-> "unopened"]
  /\ stakes = [p \in PostIds |-> [u \in Users |-> NoBet]]
  /\ verdict = [p \in PostIds |-> "none"]
  /\ moved = {} /\ revoked = {}

Open(p) ==
  /\ window[p] = "unopened"
  /\ window' = [window EXCEPT ![p] = "open"]
  /\ revoked' \in {revoked, revoked \cup {p}}
  /\ UNCHANGED <<stakes, verdict, moved>>

Stake(p, u, side) ==
  /\ window[p] = "open"
  /\ stakes[p][u].stake < MaxStake
  /\ stakes[p][u].stake > 0 => stakes[p][u].side = side
  /\ stakes' = [stakes EXCEPT ![p][u] = [side |-> side, stake |-> stakes[p][u].stake + 1]]
  /\ UNCHANGED <<window, verdict, moved, revoked>>

Withdraw(p, u) ==
  /\ window[p] = "open"
  /\ stakes' = [stakes EXCEPT ![p][u] = NoBet]
  /\ UNCHANGED <<window, verdict, moved, revoked>>

Close(p) ==
  /\ window[p] = "open"
  /\ window' = [window EXCEPT ![p] = "closed"]
  /\ UNCHANGED <<stakes, verdict, moved, revoked>>

\* Only a side of a two-sided book can be paid; an open book is closed by its verdict.
Decide(p, v) ==
  /\ window[p] \in {"open", "closed"} /\ verdict[p] = "none"
  /\ v \in Sides => Winners(stakes[p], v) # {}
  /\ window' = [window EXCEPT ![p] = "closed"]
  /\ verdict' = [verdict EXCEPT ![p] = v]
  /\ UNCHANGED <<stakes, moved, revoked>>

Revoke ==
  /\ \E S \in SUBSET PostIds : revoked' = revoked \cup S
  /\ UNCHANGED <<window, stakes, verdict, moved>>

\* The result was undone and the other side reported: it is paid as well.
Overrule(p, v) ==
  /\ p \in revoked /\ verdict[p] \in Sides /\ v \in Sides
  /\ verdict' = [verdict EXCEPT ![p] = v]
  /\ UNCHANGED <<window, stakes, moved, revoked>>

Due(p, u) ==
  IF verdict[p] \in Sides
  THEN [kind |-> "payout", post |-> p, user |-> u, amount |-> Share(stakes[p], verdict[p], u)]
  ELSE [kind |-> "refund", post |-> p, user |-> u, amount |-> stakes[p][u].stake]

Payee(p, u) ==
  IF verdict[p] \in Sides THEN u \in Winners(stakes[p], verdict[p]) ELSE u \in Bettors(stakes[p])

Pay(p, u) ==
  /\ verdict[p] # "none" /\ Payee(p, u)
  /\ moved' = moved \cup {Due(p, u)}
  /\ UNCHANGED <<window, stakes, verdict, revoked>>

Step(p) ==
  \/ Open(p) \/ Close(p)
  \/ \E v \in Sides \cup {"refund"} : Decide(p, v) \/ Overrule(p, v)
  \/ \E u \in Users : Pay(p, u) \/ Withdraw(p, u) \/ \E side \in Sides : Stake(p, u, side)

Next == Revoke \/ \E p \in PostIds : Step(p)

Spec == Init /\ [][Next]_<<window, stakes, verdict, moved, revoked>>
=============================================================================
