--------------------------- MODULE BettingProofs ---------------------------
(***************************************************************************)
(* TLAPS proofs about Betting, for every set of users, matches and posts   *)
(* and every bound.  The argument is one inductive invariant, IInv.  Rows  *)
(* of the database only ever move one way (RowsGrow), so what a task       *)
(* remembers of them across its awaits stays true (TaskAgrees), so the     *)
(* money and the status it writes in the end are right.  With it, every    *)
(* step of the tasks is a step of BookPromise or a stutter (PromiseKept).  *)
(***************************************************************************)
EXTENDS Betting, TLAPS

\* Every action moves the rows one way: a post keeps its match, a staked branch and the bets of
\* a closed book stay, and ledger rows are never taken back.  A winner a book is settled for
\* changes only while the book lives, to the winner on record; what it was before is remembered.
RowsGrow ==
  /\ \A p \in PostIds :
       /\ post[p].status # None => post'[p].match = post[p].match /\ post'[p].status # None
       /\ post[p].intent # None => post'[p].intent = post[p].intent
       /\ post[p].status \notin {None, "open"} => post'[p].status # "open" /\ bet'[p] = bet[p]
       /\ decided'[p] # decided[p] =>
            /\ post[p].status \in Live /\ post'[p].status = "frozen" /\ post'[p].intent = "settle"
            /\ decided'[p] = result[post[p].match] /\ decided'[p] \in Sides
            /\ decided[p] = None \/ p \in overruled'
  /\ ledger \subseteq ledger' /\ overruled \subseteq overruled' /\ unrefunded \subseteq unrefunded'
  /\ \A m \in Matches : phase[m] = "over" => result'[m] = result[m]

\* A match that is over stays so, but for a crash.
Onward == \A m \in Matches : phase[m] = "over" => phase'[m] = "over"

----------------------------------------------------------------------------
\* Types.

\* An idle task is a task.
LEMMA IdleType == Idle \in Task
  BY BoundsAssumption DEF Idle, Task, EmptyBook, NoBet, Book, PCs, Sides, None

\* Moving a task to another program point leaves a task.
LEMMA PcType == \A t \in Task : \A pc \in PCs : [t EXCEPT !.pc = pc] \in Task
  BY DEF Task

\* What a task does after its book is a task.
LEMMA AfterType ==
  ASSUME TypeOK, NEW a \in Actors, AfterBook(a)
  PROVE  task' \in [Actors -> Task]
<1>1. [Idle EXCEPT !.pc = "open"] \in Task
  BY IdleType, PcType DEF PCs
<1> QED
  BY <1>1, IdleType DEF TypeOK, AfterBook

\* Inserting a post keeps prediction_posts well typed.
LEMMA CreateType ==
  ASSUME TypeOK, NEW m \in Matches, CreatePost(m)
  PROVE  post' \in [PostIds -> PostRow]
  BY DEF TypeOK, CreatePost, PostRow, Live, Terminal, None

----------------------------------------------------------------------------
\* Frames: what follows for the parts of the invariant an action does not touch.

\* What a staked branch owes should w win stays what it was.
LEMMA PromiseStable ==
  ASSUME TypeOK, RowsAgree, RowsGrow, NEW p \in PostIds, post[p].intent # None
  PROVE  \A w : Promised(p, w)' = Promised(p, w)
<1>1. post[p].status \notin {None, "open"}
  BY DEF RowsAgree
<1>2. bet'[p] = bet[p] /\ post'[p].intent = post[p].intent
  BY <1>1 DEF RowsGrow
<1> QED
  BY <1>2 DEF Promised

\* On a refund branch the winner does not matter.
LEMMA RefundsAnyway ==
  ASSUME NEW p \in PostIds, post[p].intent # "settle"
  PROVE  \A w, v : Promised(p, w) = Promised(p, v)
  BY DEF Promised, Owed, Payees, PaysOut

\* What a staked branch may have paid only grows.
LEMMA PaidForGrows ==
  ASSUME IInv, RowsGrow, NEW p \in PostIds, post[p].intent # None
  PROVE  UNION {Promised(p, w) : w \in SettledFor(p)} \subseteq UNION {Promised(p, w)' : w \in SettledFor(p)'}
<1>1. \A w : Promised(p, w)' = Promised(p, w)
  BY PromiseStable DEF IInv
<1>2. CASE post[p].intent = "settle"
  <2>1. decided[p] \in Sides /\ decided'[p] \in Sides
    BY <1>2 DEF IInv, RowsAgree, RowsGrow
  <2>2. SettledFor(p) \subseteq SettledFor(p)'
    BY <2>1 DEF SettledFor, RowsGrow, Sides, None
  <2> QED
    BY <1>1, <2>2
<1>3. CASE post[p].intent # "settle"
  <2>1. PICK v \in SettledFor(p)' : TRUE
    BY DEF SettledFor, Sides
  <2>2. \A w : Promised(p, w) = Promised(p, v)
    BY <1>3, RefundsAnyway
  <2>3. Promised(p, v) = Promised(p, v)'
    BY <1>1
  <2> QED
    BY <2>1, <2>2, <2>3
<1> QED
  BY <1>2, <1>3

\* Without new ledger rows or new terminal posts the money stays right.
LEMMA MoneyFrame ==
  ASSUME IInv, RowsGrow, ledger' = ledger,
         \A p \in PostIds : post'[p].status \in Terminal => post[p].status = post'[p].status
  PROVE  OnlyPromisedGold' /\ TerminalIsPaid'
<1>1. \A p \in PostIds : RowsOf(p)' = RowsOf(p)
  BY DEF RowsOf
<1>2. ASSUME NEW p \in PostIds
      PROVE  RowsOf(p)' \subseteq IF post'[p].intent = None THEN {}
                                  ELSE UNION {Promised(p, w)' : w \in SettledFor(p)'}
  <2>1. CASE post[p].intent = None
    BY <1>1, <2>1 DEF IInv, OnlyPromisedGold
  <2>2. CASE post[p].intent # None
    <3>1. post'[p].intent # None
      BY <2>2 DEF RowsGrow
    <3>2. RowsOf(p) \subseteq UNION {Promised(p, w) : w \in SettledFor(p)}
      BY <2>2 DEF IInv, OnlyPromisedGold
    <3> QED
      BY <1>1, <2>2, <3>1, <3>2, PaidForGrows
  <2> QED
    BY <2>1, <2>2
<1>3. ASSUME NEW p \in PostIds, post'[p].status \in Terminal
      PROVE  Promised(p, decided[p])' \subseteq RowsOf(p)' \/ (p \in unrefunded' /\ post'[p].status # "resolved")
  <2>1. post[p].status = post'[p].status /\ post[p].intent # None
    BY <1>3 DEF IInv, RowsAgree
  <2>2. decided'[p] = decided[p] /\ unrefunded \subseteq unrefunded'
    BY <1>3, <2>1 DEF RowsGrow, Terminal
  <2>3. Promised(p, decided[p])' = Promised(p, decided[p])
    <3>1. bet'[p] = bet[p] /\ post'[p].intent = post[p].intent
      BY <1>3, <2>1 DEF RowsGrow, Terminal, None
    <3> QED
      BY <2>2, <3>1 DEF Promised
  <2> QED
    BY <1>1, <1>3, <2>1, <2>2, <2>3 DEF IInv, TerminalIsPaid
<1> QED
  BY <1>2, <1>3 DEF OnlyPromisedGold, TerminalIsPaid

\* A task that does not move keeps agreeing with the rows.
LEMMA TaskFrame ==
  ASSUME IInv, RowsGrow, Onward, NEW a \in Actors, task'[a] = task[a]
  PROVE  TaskAgrees(a)'
<1> DEFINE t == task[a]
<1>1. TaskAgrees(a) /\ t \in Task
  BY DEF IInv, TypeOK
<1>2. CASE t.post \in PostIds /\ post[t.post].status # None
  <2>1. post'[t.post].match = post[t.post].match /\ post'[t.post].status # None /\ post[t.post].match \in Matches
    BY <1>2 DEF RowsGrow, IInv, RowsAgree
  <2>2. t.pc \in {"bets", "money"} => post'[t.post].intent = t.intent
    BY <1>1, <1>2 DEF TaskAgrees, RowsGrow
  <2>3. /\ t.pc \in {"pools", "freeze"} => post'[t.post].status # "open"
        /\ t.pc = "claim" /\ t.intent = "no_action" => post'[t.post].status # "open" /\ t.snap = bet'[t.post]
    BY <1>1, <1>2 DEF TaskAgrees, RowsGrow
  <2>4. t.pc = "money" => t.snap = bet'[t.post]
    <3>1. t.pc = "money" => post[t.post].status \notin {None, "open"}
      BY <1>1, <1>2 DEF TaskAgrees, IInv, RowsAgree
    <3> QED
      BY <1>1, <1>2, <3>1 DEF TaskAgrees, RowsGrow
  <2>5. /\ t.pc = "find" /\ t.intent = "settle" => t.winner = result'[a] /\ phase'[a] = "over"
        /\ t.pc \in {"claim", "bets", "money"} /\ t.intent = "settle" =>
             t.winner = result'[post'[t.post].match] /\ phase'[post'[t.post].match] = "over"
    BY <1>1, <2>1 DEF TaskAgrees, RowsGrow, Onward
  <2>6. t.pc \in {"bets", "money"} /\ t.intent = "settle" => t.winner = decided'[t.post]
    BY <1>1, <1>2 DEF TaskAgrees, RowsGrow
  <2> QED
    BY <1>1, <1>2, <2>1, <2>2, <2>3, <2>4, <2>5, <2>6 DEF TaskAgrees, RowsGrow
<1>3. CASE ~(t.post \in PostIds /\ post[t.post].status # None)
  <2>1. t.pc \in {"idle", "find", "open"}
    BY <1>1, <1>3 DEF TaskAgrees, Task, PCs
  <2> QED
    BY <1>1, <2>1 DEF TaskAgrees, RowsGrow, Onward
<1> QED
  BY <1>2, <1>3

\* An idle task, and one that is about to open a book for its match, agree with anything.
LEMMA RestAgrees ==
  ASSUME NEW a \in Actors, task'[a] = Idle \/ (a \in Matches /\ task'[a] = [Idle EXCEPT !.pc = "open"])
  PROVE  TaskAgrees(a)'
  BY DEF TaskAgrees, Idle

\* The rows the sweep still holds stay true while it does not move.
LEMMA SweepFrame ==
  ASSUME IInv, RowsGrow, Onward, sweep' = sweep
  PROVE  SweepAgrees'
  BY DEF IInv, SweepAgrees, RowsAgree, RowsGrow, Onward, None

\* Nothing happens to the rows.
LEMMA RowsFrame ==
  ASSUME IInv, UNCHANGED <<post, bet, ledger, matches, verdicts, unrefunded>>
  PROVE  RowsGrow /\ OnlyPromisedGold' /\ TerminalIsPaid' /\ RowsAgree'
<1>1. RowsGrow
  BY DEF RowsGrow, matches, verdicts
<1>2. RowsAgree'
  BY DEF IInv, RowsAgree, matches, verdicts
<1> QED
  BY <1>1, <1>2, MoneyFrame

\* Only task a moves, if any.
LEMMA TasksFrame ==
  ASSUME IInv, RowsGrow, Onward, NEW a \in Actors, \A b \in Actors \ {a} : task'[b] = task[b], TaskAgrees(a)'
  PROVE  \A b \in Actors : TaskAgrees(b)'
  BY TaskFrame

\* Inserting an open post disturbs no agreement.
LEMMA CreateFacts ==
  ASSUME IInv, NEW m \in Matches, CreatePost(m), UNCHANGED <<bet, ledger, matches, verdicts, unrefunded>>
  PROVE  RowsGrow /\ OnlyPromisedGold' /\ TerminalIsPaid' /\ RowsAgree'
<1>1. \A p \in PostIds : \/ post'[p] = post[p]
                         \/ /\ post[p].status = None
                            /\ post'[p] = [match |-> m, status |-> "open", intent |-> None]
  BY DEF CreatePost, IInv, TypeOK
<1>2. RowsGrow
  BY <1>1 DEF RowsGrow, IInv, RowsAgree, matches, verdicts, None
<1>3. RowsAgree'
  BY <1>1 DEF IInv, RowsAgree, matches, verdicts, None, Terminal
<1>4. \A p \in PostIds : post'[p].status \in Terminal => post[p].status = post'[p].status
  BY <1>1 DEF Terminal
<1> QED
  BY <1>2, <1>3, <1>4, MoneyFrame

----------------------------------------------------------------------------
\* One lemma per action: it preserves IInv, and moves the rows one way.

LEMMA StepGoLive ==
  ASSUME IInv, NEW m \in Matches, GoLive(m)
  PROVE  IInv' /\ RowsGrow
<1>1. UNCHANGED <<post, bet, ledger, matches, verdicts, unrefunded, task, sweep>>
  BY DEF GoLive, rows, matches, verdicts
<1>2. TypeOK'
  BY DEF IInv, TypeOK, GoLive, rows, matches, verdicts
<1>3. RowsGrow /\ OnlyPromisedGold' /\ TerminalIsPaid' /\ RowsAgree'
  BY <1>1, RowsFrame
<1>4. ResultsAgree'
  BY DEF IInv, TypeOK, ResultsAgree, GoLive, rows, matches
<1>5. Onward
  BY DEF Onward, GoLive, IInv, TypeOK
<1>6. SweepAgrees' /\ \A a \in Actors : TaskAgrees(a)'
  BY <1>1, <1>3, <1>5, SweepFrame, TaskFrame
<1> QED
  BY <1>2, <1>3, <1>4, <1>6 DEF IInv

LEMMA StepOpenForMatch ==
  ASSUME IInv, NEW m \in Matches, OpenForMatch(m)
  PROVE  IInv' /\ RowsGrow
<1>1. TypeOK'
  BY CreateType DEF IInv, TypeOK, OpenForMatch, matches, verdicts
<1>2. RowsGrow /\ OnlyPromisedGold' /\ TerminalIsPaid' /\ RowsAgree'
  BY CreateFacts DEF OpenForMatch
<1>3. ResultsAgree'
  BY DEF IInv, ResultsAgree, OpenForMatch, matches
<1>4. SweepAgrees' /\ \A a \in Actors : TaskAgrees(a)'
  BY <1>2, SweepFrame, TaskFrame DEF OpenForMatch, Onward
<1> QED
  BY <1>1, <1>2, <1>3, <1>4 DEF IInv

LEMMA StepLaunch ==
  ASSUME IInv, NEW m \in Matches, Launch(m)
  PROVE  IInv' /\ RowsGrow
<1>1. UNCHANGED <<post, bet, ledger, matches, verdicts, unrefunded, phase, task, sweep>>
  BY DEF Launch, memory
<1>2. TypeOK'
  BY DEF IInv, TypeOK, Launch, memory, matches, verdicts
<1>3. RowsGrow /\ OnlyPromisedGold' /\ TerminalIsPaid' /\ RowsAgree'
  BY <1>1, RowsFrame
<1>4. ResultsAgree' /\ SweepAgrees' /\ \A a \in Actors : TaskAgrees(a)'
  BY <1>1, <1>3, SweepFrame, TaskFrame DEF IInv, ResultsAgree, matches, Onward
<1> QED
  BY <1>2, <1>3, <1>4 DEF IInv

\* A result that is taken back leaves a match that was undone.
LEMMA StepUndoMatch ==
  ASSUME IInv, NEW m \in Matches, UndoMatch(m)
  PROVE  IInv' /\ RowsGrow
<1>1. /\ UNCHANGED <<post, bet, ledger, result, decided, overruled, unrefunded, phase, task, sweep>>
      /\ recorded' = recorded \ {m} /\ undone' = undone \cup {m}
  BY DEF UndoMatch, memory, verdicts
<1>2. TypeOK'
  BY BoundsAssumption DEF IInv, TypeOK, UndoMatch, memory, verdicts
<1>3. RowsGrow /\ Onward
  BY <1>1 DEF RowsGrow, Onward
<1>4. OnlyPromisedGold' /\ TerminalIsPaid'
  BY <1>1, <1>3, MoneyFrame
<1>5. RowsAgree' /\ ResultsAgree'
  BY <1>1 DEF IInv, RowsAgree, ResultsAgree
<1>6. SweepAgrees' /\ \A a \in Actors : TaskAgrees(a)'
  BY <1>1, <1>3, SweepFrame, TaskFrame
<1> QED
  BY <1>2, <1>3, <1>4, <1>5, <1>6 DEF IInv

\* The one action that writes a result.  A book was settled for an earlier one only if that
\* was undone, and no task remembers it.
LEMMA StepReport ==
  ASSUME IInv, NEW m \in Matches, NEW w \in Sides \cup {"draw"}, Report(m, w)
  PROVE  IInv' /\ RowsGrow
<1> DEFINE new == [Idle EXCEPT !.pc = "find", !.winner = w,
                               !.intent = IF w = "draw" THEN "void" ELSE "settle"]
<1>1. new \in Task /\ m \in Actors
  BY IdleType DEF Task, PCs, Intents, Actors
<1>2. TypeOK'
  BY <1>1 DEF IInv, TypeOK, Report, verdicts
<1>3. /\ phase[m] = "live" /\ m \notin recorded
      /\ result'[m] = w /\ phase'[m] = "over" /\ recorded' = recorded \cup {m} /\ undone' = undone
      /\ \A n \in Matches \ {m} : result'[n] = result[n] /\ phase'[n] = phase[n]
      /\ UNCHANGED <<post, bet, ledger, decided, overruled, unrefunded, sweep>>
  BY DEF IInv, TypeOK, ResultsAgree, Report, verdicts
<1>4. RowsGrow /\ Onward
  <2>1. \A n \in Matches : phase[n] = "over" => result'[n] = result[n] /\ phase'[n] = "over"
    BY <1>3
  <2> QED
    BY <1>3, <2>1 DEF RowsGrow, Onward
<1>5. OnlyPromisedGold' /\ TerminalIsPaid'
  BY <1>3, <1>4, MoneyFrame
<1>6. RowsAgree'
  <2>1. result[m] # None => m \in undone
    BY <1>3 DEF IInv, ResultsAgree
  <2>2. ASSUME NEW p \in PostIds, decided[p] # None
        PROVE  decided[p] = result'[post[p].match] \/ post[p].match \in undone
    <3>1. /\ post[p].match \in Matches /\ decided[p] \in Sides
          /\ decided[p] = result[post[p].match] \/ post[p].match \in undone
      BY <2>2 DEF IInv, RowsAgree, None
    <3> QED
      BY <1>3, <2>1, <2>2, <3>1
  <2> QED
    BY <1>3, <2>2 DEF IInv, RowsAgree
<1>7. ResultsAgree'
  BY <1>3 DEF IInv, ResultsAgree
<1>8. TaskAgrees(m)'
  <2>1. task'[m] = new
    BY <1>1 DEF IInv, TypeOK, Report
  <2>2. /\ new.pc = "find" /\ new.winner = w
        /\ new.intent = (IF w = "draw" THEN "void" ELSE "settle")
    BY DEF Idle
  <2> HIDE DEF new
  <2> QED
    BY <1>3, <2>1, <2>2 DEF TaskAgrees, Sides
<1>9. \A b \in Actors : TaskAgrees(b)'
  BY <1>1, <1>4, <1>8, TasksFrame DEF Report, IInv, TypeOK
<1>10. SweepAgrees'
  BY <1>3, <1>4, SweepFrame
<1> QED
  BY <1>2, <1>4, <1>5, <1>6, <1>7, <1>9, <1>10 DEF IInv

\* A cancelled match and a changed roster start a void.
LEMMA StepVoid ==
  ASSUME IInv, NEW m \in Matches, Cancel(m) \/ RosterChange(m)
  PROVE  IInv' /\ RowsGrow
<1>1. UNCHANGED <<post, bet, ledger, matches, verdicts, unrefunded, sweep>>
  BY DEF Cancel, RosterChange, rows, matches, verdicts
<1>2. m \in Actors /\ \A b \in Actors \ {m} : task'[b] = task[b]
  BY DEF IInv, TypeOK, Cancel, RosterChange, Actors
<1>3. task' \in [Actors -> Task] /\ task'[m].pc = "find" /\ task'[m].intent = "void"
  <2>1. \A t \in {[Idle EXCEPT !.pc = "find", !.intent = "void"],
                  [Idle EXCEPT !.pc = "find", !.intent = "void", !.reopen = TRUE]} :
          t \in Task /\ t.pc = "find" /\ t.intent = "void"
    BY IdleType DEF Task, PCs, Intents
  <2> QED
    BY <1>2, <2>1 DEF IInv, TypeOK, Cancel, RosterChange
<1>4. TypeOK'
  BY <1>3 DEF IInv, TypeOK, Cancel, RosterChange, rows, matches, verdicts
<1>5. RowsGrow /\ OnlyPromisedGold' /\ TerminalIsPaid' /\ RowsAgree'
  BY <1>1, RowsFrame
<1>6. ResultsAgree'
  BY DEF IInv, TypeOK, ResultsAgree, Cancel, RosterChange, rows, matches, verdicts
<1>7. TaskAgrees(m)'
  BY <1>3 DEF TaskAgrees
<1>8. Onward
  BY DEF Onward, Cancel, RosterChange, IInv, TypeOK
<1>9. SweepAgrees' /\ \A a \in Actors : TaskAgrees(a)'
  BY <1>1, <1>2, <1>5, <1>7, <1>8, SweepFrame, TasksFrame
<1> QED
  BY <1>4, <1>5, <1>6, <1>9 DEF IInv

\* Presses change only open books, which have staked nothing and moved no gold.
LEMMA StepPress ==
  ASSUME IInv, NEW u \in Users, NEW p \in PostIds, NEW side \in Sides,
         PlaceBet(u, p, side) \/ CancelBet(u, p)
  PROVE  IInv' /\ RowsGrow
<1>1. /\ post[p].status = "open"
      /\ UNCHANGED <<post, ledger, matches, verdicts, unrefunded, phase, task, sweep>>
      /\ \A q \in PostIds \ {p} : bet'[q] = bet[q]
  BY DEF PlaceBet, CancelBet, AcceptsBets, memory, IInv, TypeOK
<1>2. bet' \in [PostIds -> Book]
  <2>1. CASE PlaceBet(u, p, side)
    BY <2>1, BoundsAssumption DEF IInv, TypeOK, PlaceBet, Book
  <2>2. CASE CancelBet(u, p)
    BY <2>2, BoundsAssumption DEF IInv, TypeOK, CancelBet, Book, NoBet, Sides
  <2> QED
    BY <2>1, <2>2
<1>3. TypeOK'
  BY <1>1, <1>2 DEF IInv, TypeOK, PlaceBet, CancelBet, memory, matches, verdicts
<1>4. RowsGrow
  BY <1>1 DEF RowsGrow, matches, verdicts
<1>5. OnlyPromisedGold' /\ TerminalIsPaid'
  BY <1>1, <1>4, MoneyFrame
<1>6. RowsAgree' /\ ResultsAgree'
  BY <1>1 DEF IInv, RowsAgree, ResultsAgree, matches, verdicts
<1>7. SweepAgrees' /\ \A a \in Actors : TaskAgrees(a)'
  BY <1>1, <1>4, SweepFrame, TaskFrame DEF Onward
<1> QED
  BY <1>3, <1>4, <1>5, <1>6, <1>7 DEF IInv

LEMMA StepFind ==
  ASSUME IInv, NEW m \in Matches, Find(m)
  PROVE  IInv' /\ RowsGrow
<1>1. /\ UNCHANGED <<post, bet, ledger, matches, verdicts, unrefunded, phase, sweep>>
      /\ m \in Actors /\ task[m] \in Task /\ TaskAgrees(m)
      /\ \A b \in Actors \ {m} : task'[b] = task[b]
  BY DEF Find, rows, matches, verdicts, IInv, TypeOK, Actors, Done
<1>2. RowsGrow /\ OnlyPromisedGold' /\ TerminalIsPaid' /\ RowsAgree'
  BY <1>1, RowsFrame
<1>3. task'[m] \in Task /\ TaskAgrees(m)'
  <2>1. CASE Done(m)
    BY <1>1, <2>1, IdleType, RestAgrees DEF Done, IInv, TypeOK
  <2>2. CASE \E p \in LivePosts(m) : task' = [task EXCEPT ![m].pc = "claim", ![m].post = p]
    <3>1. PICK p \in LivePosts(m) : task' = [task EXCEPT ![m].pc = "claim", ![m].post = p]
      BY <2>2
    <3>2. p \in PostIds /\ post[p].match = m /\ post[p].status # None
      BY DEF LivePosts, Live, None
    <3>3. task'[m] = [task[m] EXCEPT !.pc = "claim", !.post = p]
      BY <1>1, <3>1 DEF IInv, TypeOK
    <3>4. task'[m] \in Task
      BY <1>1, <3>2, <3>3 DEF Task, PCs
    <3>5. /\ task'[m].pc = "claim" /\ task'[m].post = p
          /\ task'[m].intent = task[m].intent /\ task'[m].winner = task[m].winner
      BY <1>1, <3>3 DEF Task
    <3> QED
      BY <1>1, <3>2, <3>4, <3>5 DEF TaskAgrees, Find, None, matches
  <2> QED
    BY <2>1, <2>2 DEF Find
<1>4. task' \in [Actors -> Task]
  BY <1>1, <1>3 DEF Find, Done, IInv, TypeOK
<1>5. TypeOK'
  BY <1>4 DEF IInv, TypeOK, Find, rows, matches, verdicts
<1>6. ResultsAgree' /\ SweepAgrees' /\ \A a \in Actors : TaskAgrees(a)'
  BY <1>1, <1>2, <1>3, SweepFrame, TasksFrame DEF IInv, ResultsAgree, matches, Onward
<1> QED
  BY <1>2, <1>5, <1>6 DEF IInv

\* The claim is where a branch is staked, only on a row without one, and where a branch that
\* pays gets its winner: the one on record, which every task of the match works for.
LEMMA StepClaim ==
  ASSUME IInv, NEW a \in Actors, Claim(a)
  PROVE  IInv' /\ RowsGrow
<1> DEFINE p == task[a].post
           mine == task[a].intent
           win == task[a].winner
           free == Unclaimed(p)
           ours == free \/ (post[p].status \in Live /\ post[p].intent = mine)
           pays == ours /\ mine = "settle"
           next == IF mine = "no_action" THEN "money" ELSE "bets"
<1>0. /\ UNCHANGED <<bet, ledger, recorded, result, undone, unrefunded, phase, sweep>>
      /\ IF pays THEN SettleFor(p, win) ELSE UNCHANGED <<decided, overruled>>
  BY DEF Claim, matches, verdicts
<1>1. /\ task[a] \in Task /\ TaskAgrees(a) /\ task[a].pc = "claim"
      /\ p \in PostIds /\ mine \in Intents /\ post[p] \in PostRow
      /\ post' = IF free THEN [post EXCEPT ![p].status = "frozen", ![p].intent = mine] ELSE post
      /\ IF ours THEN task' = [task EXCEPT ![a].pc = next] ELSE AfterBook(a)
  BY DEF Claim, Goto, IInv, TypeOK, TaskAgrees, Task
<1>2. /\ mine = "settle" => win \in Sides /\ win = result[post[p].match]
      /\ post[p].status # None /\ post[p].match \in Matches
  BY <1>1 DEF TaskAgrees, IInv, RowsAgree
<1> HIDE DEF p, mine, win, free, ours, pays, next
<1>3. free => post'[p] = [match |-> post[p].match, status |-> "frozen", intent |-> mine]
  BY <1>1 DEF IInv, TypeOK, PostRow
<1>4. /\ ~free => post' = post
      /\ \A q \in PostIds \ {p} : post'[q] = post[q]
  BY <1>1 DEF IInv, TypeOK
<1>5. /\ free => post[p].status \in Live /\ post[p].intent = None /\ decided[p] = None
      /\ ours => post[p].status \in Live /\ post'[p].intent = mine /\ post'[p].match = post[p].match
  <2>1. free => post[p].status \in Live /\ post[p].intent = None
    BY DEF free, Unclaimed
  <2>2. free => decided[p] = None
    BY <1>1, <2>1 DEF IInv, RowsAgree, None
  <2> QED
    BY <1>3, <1>4, <2>1, <2>2 DEF ours
<1>6. /\ pays => post'[p].status = "frozen" /\ decided'[p] = win
      /\ ~pays => decided'[p] = decided[p]
      /\ \A q \in PostIds \ {p} : decided'[q] = decided[q]
      /\ decided[p] \in {None, decided'[p]} \/ p \in overruled'
      /\ overruled \subseteq overruled' /\ overruled' \subseteq PostIds
      /\ decided' \in [PostIds -> Sides \cup {None}]
  <2>1. decided \in [PostIds -> Sides \cup {None}] /\ overruled \subseteq PostIds
    BY DEF IInv, TypeOK
  <2>2. CASE pays
    <3>1. post'[p].status = "frozen"
      <4>1. post[p].intent # None /\ post[p].status \in Live => post[p].status = "frozen"
        BY <1>1 DEF IInv, RowsAgree, Live
      <4> QED
        BY <1>3, <1>4, <1>5, <2>2, <4>1 DEF pays, ours, None
    <3>2. decided' = [decided EXCEPT ![p] = win] /\ win \in Sides
      BY <1>0, <1>2, <2>2 DEF SettleFor, pays
    <3>3. overruled' = IF decided[p] \in {None, win} THEN overruled ELSE overruled \cup {p}
      BY <1>0, <2>2 DEF SettleFor
    <3> QED
      BY <1>1, <2>1, <2>2, <3>1, <3>2, <3>3
  <2>3. CASE ~pays
    BY <1>0, <2>1, <2>3
  <2> QED
    BY <2>2, <2>3
<1>7. RowsGrow /\ Onward
  <2>1. \A q \in PostIds : decided'[q] # decided[q] =>
          /\ post[q].status \in Live /\ post'[q].status = "frozen" /\ post'[q].intent = "settle"
          /\ decided'[q] = result[post[q].match] /\ decided'[q] \in Sides
          /\ decided[q] = None \/ q \in overruled'
    BY <1>2, <1>5, <1>6 DEF pays
  <2>2. \A q \in PostIds :
          /\ post[q].status # None => post'[q].match = post[q].match /\ post'[q].status # None
          /\ post[q].intent # None => post'[q].intent = post[q].intent
          /\ post[q].status \notin {None, "open"} => post'[q].status # "open" /\ bet'[q] = bet[q]
    BY <1>0, <1>3, <1>4, <1>5 DEF None
  <2> QED
    BY <1>0, <1>6, <2>1, <2>2 DEF RowsGrow, Onward
<1>8. OnlyPromisedGold' /\ TerminalIsPaid'
  <2>1. \A q \in PostIds : post'[q].status \in Terminal => post[q].status = post'[q].status
    BY <1>3, <1>4 DEF Terminal
  <2> QED
    BY <1>0, <1>7, <2>1, MoneyFrame
<1>9. RowsAgree'
  <2>1. RowsAgree
    BY DEF IInv
  <2>2. \A q \in PostIds \ {p} : post'[q] = post[q] /\ decided'[q] = decided[q]
    BY <1>4, <1>6
  <2>3. CASE free
    <3>1. pays <=> mine = "settle"
      BY <2>3 DEF pays, ours
    <3>2. mine # "settle" => decided'[p] = None
      BY <1>5, <1>6, <2>3, <3>1
    <3>3. /\ post'[p].status = "frozen" /\ post'[p].intent = mine /\ mine # None
          /\ post'[p].match = post[p].match /\ post[p].match \in Matches
          /\ mine = "settle" => decided'[p] \in Sides /\ decided'[p] = result'[post[p].match]
      BY <1>0, <1>1, <1>2, <1>3, <1>6, <2>3, <3>1 DEF Intents, None
    <3> QED
      BY <1>0, <2>1, <2>2, <3>2, <3>3 DEF RowsAgree, None, Terminal
  <2>4. CASE ~free
    <3>1. post' = post
      BY <1>4, <2>4
    <3>2. pays => post[p].intent = "settle"
      BY <1>5, <2>4, <3>1 DEF pays
    <3> QED
      BY <1>0, <1>2, <1>6, <2>1, <2>2, <3>1, <3>2 DEF RowsAgree, pays
  <2> QED
    BY <2>3, <2>4
<1>10. ResultsAgree' /\ SweepAgrees'
  BY <1>0, <1>7, SweepFrame DEF IInv, ResultsAgree
<1>11. /\ task' \in [Actors -> Task] /\ TaskAgrees(a)'
       /\ \A b \in Actors \ {a} : task'[b] = task[b]
  <2>1. CASE ours
    <3>1. task'[a] = [task[a] EXCEPT !.pc = next] /\ next \in {"money", "bets"}
      BY <1>1, <2>1 DEF IInv, TypeOK, next
    <3>2. task'[a] \in Task
      BY <1>1, <3>1, PcType DEF PCs
    <3>3. /\ task'[a].pc = next /\ task'[a].post = p /\ task'[a].intent = mine
          /\ task'[a].winner = win /\ task'[a].snap = task[a].snap
          /\ task'[a].left = task[a].left /\ task'[a].reopen = task[a].reopen
      BY <1>1, <3>1 DEF Task, p, mine, win
    <3>4. post'[p].intent = mine /\ post'[p].match = post[p].match /\ post'[p].status # None
      BY <1>3, <1>4, <1>5, <2>1 DEF Live, None
    <3>5. next = "money" => /\ mine = "no_action" /\ task[a].snap = bet[p]
                            /\ task[a].left = Bettors(task[a].snap)
      BY <1>1 DEF TaskAgrees, next, p, mine
    <3>6. next = "money" => task[a].left = Payees(task[a].snap, mine, win)
      BY <3>5 DEF Payees, PaysOut
    <3>7. mine = "settle" => /\ win = result'[post'[p].match] /\ win \in Sides
                             /\ phase'[post'[p].match] = "over" /\ win = decided'[p]
      BY <1>0, <1>1, <1>2, <1>6, <2>1, <3>4 DEF TaskAgrees, pays, p, mine
    <3>8. (task[a].reopen => a \in Matches) /\ mine \in {"settle", "void", "no_action"}
      BY <1>1 DEF TaskAgrees, Intents
    <3>9. ASSUME next = "bets" PROVE TaskAgrees(a)'
      BY <1>0, <1>1, <3>3, <3>4, <3>7, <3>8, <3>9 DEF TaskAgrees, None
    <3>10. ASSUME next = "money" PROVE TaskAgrees(a)'
      BY <1>0, <1>1, <3>3, <3>4, <3>5, <3>6, <3>8, <3>10 DEF TaskAgrees, None
    <3> QED
      BY <1>1, <2>1, <3>1, <3>2, <3>9, <3>10 DEF IInv, TypeOK
  <2>2. CASE ~ours
    <3>1. AfterBook(a) /\ (task[a].reopen => a \in Matches)
      BY <1>1, <2>2 DEF TaskAgrees
    <3> QED
      BY <3>1, AfterType, RestAgrees DEF AfterBook, IInv, TypeOK
  <2> QED
    BY <2>1, <2>2
<1>12. TypeOK'
  <2>1. post' \in [PostIds -> PostRow]
    BY <1>1 DEF IInv, TypeOK, PostRow, Live
  <2> QED
    BY <1>0, <1>6, <1>11, <2>1 DEF IInv, TypeOK, Claim, matches
<1>13. \A b \in Actors : TaskAgrees(b)'
  BY <1>7, <1>11, TasksFrame
<1> QED
  BY <1>7, <1>8, <1>9, <1>10, <1>12, <1>13 DEF IInv

\* Bets are read of a closed book, so the snapshot is the book.
LEMMA StepReadBets ==
  ASSUME IInv, NEW a \in Actors, ReadBets(a)
  PROVE  IInv' /\ RowsGrow
<1> DEFINE t == task[a]
<1>1. /\ UNCHANGED <<post, bet, ledger, matches, verdicts, unrefunded, phase, sweep>>
      /\ t \in Task /\ TaskAgrees(a) /\ t.pc = "bets"
      /\ \A b \in Actors \ {a} : task'[b] = task[b]
      /\ task'[a] = [t EXCEPT !.pc = "money", !.snap = bet[t.post],
                             !.left = Payees(bet[t.post], t.intent, t.winner)]
  BY DEF ReadBets, rows, matches, verdicts, IInv, TypeOK
<1>2. RowsGrow /\ OnlyPromisedGold' /\ TerminalIsPaid' /\ RowsAgree'
  BY <1>1, RowsFrame
<1>3. /\ t.post \in PostIds /\ bet[t.post] \in Book
      /\ Payees(bet[t.post], t.intent, t.winner) \subseteq Users
  BY <1>1 DEF TaskAgrees, IInv, TypeOK, Payees, Winners, Backers, Bettors
<1>4. task'[a] \in Task
  BY <1>1, <1>3 DEF Task, PCs
<1>5. /\ task'[a].pc = "money" /\ task'[a].post = t.post /\ task'[a].intent = t.intent
      /\ task'[a].winner = t.winner /\ task'[a].snap = bet[t.post] /\ task'[a].reopen = t.reopen
      /\ task'[a].left = Payees(bet[t.post], t.intent, t.winner)
  BY <1>1 DEF Task
<1>6. TaskAgrees(a)'
  BY <1>1, <1>5 DEF TaskAgrees, matches, verdicts
<1>7. TypeOK'
  BY <1>1, <1>4 DEF IInv, TypeOK, ReadBets, rows, matches, verdicts
<1>8. ResultsAgree' /\ SweepAgrees' /\ \A b \in Actors : TaskAgrees(b)'
  BY <1>1, <1>2, <1>6, SweepFrame, TasksFrame DEF IInv, ResultsAgree, matches, Onward
<1> QED
  BY <1>2, <1>7, <1>8 DEF IInv

\* A payee has one side and one stake: his row under one winner is his row under any other.
LEMMA OneRowEach ==
  ASSUME NEW p, NEW b \in Book, NEW i, NEW w \in Sides, NEW v \in Sides, NEW u \in Users,
         u \in Payees(b, i, w), u \in Payees(b, i, v)
  PROVE  Owed(p, b, i, w, u) = Owed(p, b, i, v, u)
<1>1. Winners(b, w) # {} <=> Winners(b, v) # {}
  BY DEF Winners, OneSided
<1>2. CASE PaysOut(b, i, w)
  <2>1. PaysOut(b, i, v)
    BY <1>1, <1>2 DEF PaysOut
  <2>2. u \in Winners(b, w) /\ u \in Winners(b, v)
    BY <1>2, <2>1 DEF Payees
  <2>3. w = v
    BY <2>2 DEF Winners, Backers
  <2> QED
    BY <2>3
<1>3. CASE ~PaysOut(b, i, w)
  <2>1. ~PaysOut(b, i, v)
    BY <1>1, <1>3 DEF PaysOut
  <2> QED
    BY <1>3, <2>1 DEF Owed
<1> QED
  BY <1>2, <1>3

\* What a task works from is what its post has staked, so it owes what is promised.
LEMMA MoneyFacts ==
  ASSUME IInv, NEW a \in Actors, task[a].pc = "money"
  PROVE  LET t == task[a] IN
         /\ t.post \in PostIds /\ post[t.post].intent = t.intent /\ t.intent # None
         /\ post[t.post].status \notin {None, "open"} /\ post[t.post].match \in Matches
         /\ t.snap = bet[t.post] /\ t.snap \in Book
         /\ t.left \subseteq Payees(t.snap, t.intent, t.winner)
         /\ Payees(t.snap, t.intent, t.winner) \subseteq Users
         /\ t.intent = "settle" => t.winner = decided[t.post] /\ t.winner \in Sides
         /\ t.winner \in SettledFor(t.post) \/ t.intent # "settle"
         /\ \A w : Promised(t.post, w) = {Owed(t.post, t.snap, t.intent, w, v) : v \in Payees(t.snap, t.intent, w)}
         /\ Promised(t.post, decided[t.post]) = Promised(t.post, t.winner)
<1> DEFINE t == task[a]
<1>1. TaskAgrees(a) /\ t \in Task
  BY DEF IInv, TypeOK
<1>2. /\ t.post \in PostIds /\ post[t.post].intent = t.intent /\ t.intent # None
      /\ t.snap = bet[t.post] /\ t.left \subseteq Payees(t.snap, t.intent, t.winner)
      /\ t.intent = "settle" => t.winner = decided[t.post] /\ t.winner \in Sides
  BY <1>1 DEF TaskAgrees
<1>3. post[t.post].status \notin {None, "open"} /\ post[t.post].match \in Matches
  BY <1>2 DEF IInv, RowsAgree
<1>4. t.snap \in Book
  BY <1>2 DEF IInv, TypeOK
<1>5. Payees(t.snap, t.intent, t.winner) \subseteq Users
  BY DEF Payees, Winners, Backers, Bettors
<1>6. t.winner \in SettledFor(t.post) \/ t.intent # "settle"
  BY <1>2 DEF SettledFor
<1>7. \A w : Promised(t.post, w) = {Owed(t.post, t.snap, t.intent, w, v) : v \in Payees(t.snap, t.intent, w)}
  BY <1>2 DEF Promised
<1>8. Promised(t.post, decided[t.post]) = Promised(t.post, t.winner)
  BY <1>2, RefundsAnyway
<1> QED
  BY <1>2, <1>3, <1>4, <1>5, <1>6, <1>7, <1>8

\* A credit inserts a promised row, or finds the very same row under its key, even if an earlier
\* settlement for another winner wrote it.
LEMMA StepCredit ==
  ASSUME IInv, NEW a \in Actors, NEW u \in Users, Credit(a, u)
  PROVE  IInv' /\ RowsGrow
<1> DEFINE t == task[a]
           r == Owed(t.post, t.snap, t.intent, t.winner, u)
           paid == UNION {Promised(t.post, w) : w \in SettledFor(t.post)}
<1>1. /\ UNCHANGED <<post, bet, recorded, result, undone, decided, overruled, unrefunded, phase, sweep>>
      /\ t \in Task /\ TaskAgrees(a) /\ t.pc = "money" /\ u \in t.left
      /\ \A b \in Actors \ {a} : task'[b] = task[b]
      /\ task'[a] = [t EXCEPT !.left = t.left \ {u}]
      /\ Insert(r)
  BY DEF Credit, IInv, TypeOK, matches, verdicts
<1>2. /\ t.post \in PostIds /\ post[t.post].intent = t.intent /\ t.intent # None
      /\ t.snap = bet[t.post] /\ t.snap \in Book /\ u \in Payees(t.snap, t.intent, t.winner)
      /\ t.intent = "settle" => t.winner = decided[t.post] /\ t.winner \in Sides
      /\ t.winner \in SettledFor(t.post) \/ t.intent # "settle"
      /\ \A w : Promised(t.post, w) = {Owed(t.post, t.snap, t.intent, w, v) : v \in Payees(t.snap, t.intent, w)}
  BY <1>1, MoneyFacts
<1>3. \A w, v : /\ Owed(t.post, t.snap, t.intent, w, v).post = t.post
               /\ Owed(t.post, t.snap, t.intent, w, v).user = v
               /\ Owed(t.post, t.snap, t.intent, w, v).kind \in {"refund", "payout"}
  BY DEF Owed
<1>4. RowsOf(t.post) \subseteq paid
  BY <1>2 DEF IInv, OnlyPromisedGold
<1>5. r \in paid
  <2>1. PICK w \in SettledFor(t.post) : t.intent = "settle" => w = t.winner
    BY <1>2 DEF SettledFor, Sides
  <2>2. Promised(t.post, w) = Promised(t.post, t.winner)
    BY <1>2, <2>1, RefundsAnyway
  <2>3. r \in Promised(t.post, w)
    BY <1>2, <2>2
  <2> QED
    BY <2>1, <2>3
<1>6. \A old \in RowsOf(t.post) : old.user = u => old = r
  <2>1. SUFFICES ASSUME NEW old \in RowsOf(t.post), old.user = u PROVE old = r
    OBVIOUS
  <2>2. PICK w \in SettledFor(t.post) : old \in Promised(t.post, w)
    BY <1>4, <2>1
  <2>3. u \in Payees(t.snap, t.intent, w) /\ old = Owed(t.post, t.snap, t.intent, w, u)
    BY <1>2, <1>3, <2>1, <2>2
  <2>4. CASE t.intent = "settle"
    <3>1. w \in Sides
      BY <1>2, <2>2, <2>4 DEF SettledFor
    <3> QED
      BY <1>2, <2>3, <2>4, <3>1, OneRowEach
  <2>5. CASE t.intent # "settle"
    BY <2>3, <2>5 DEF Owed, PaysOut
  <2> QED
    BY <2>4, <2>5
<1> HIDE DEF r, paid
<1>7. r.post = t.post /\ r.user = u /\ r.kind \in {"refund", "payout"}
  BY <1>3 DEF r
<1>8. r \in ledger' /\ ledger \subseteq ledger' /\ ledger' \subseteq ledger \cup {r}
  <2>1. CASE \E old \in ledger : old.kind = r.kind /\ old.post = r.post /\ old.user = r.user
    <3>1. PICK old \in ledger : old.kind = r.kind /\ old.post = r.post /\ old.user = r.user
      BY <2>1
    <3>2. old = r
      BY <1>6, <1>7, <3>1 DEF RowsOf
    <3> QED
      BY <1>1, <2>1, <3>1, <3>2 DEF Insert
  <2>2. CASE ~\E old \in ledger : old.kind = r.kind /\ old.post = r.post /\ old.user = r.user
    BY <1>1, <2>2 DEF Insert
  <2> QED
    BY <2>1, <2>2
<1>9. RowsGrow /\ Onward
  BY <1>1, <1>8 DEF RowsGrow, Onward
<1>10. \A p \in PostIds : SettledFor(p)' = SettledFor(p) /\ \A w : Promised(p, w)' = Promised(p, w)
  BY <1>1 DEF Promised, SettledFor
<1>11. OnlyPromisedGold'
  <2>1. \A p \in PostIds : RowsOf(p)' \subseteq RowsOf(p) \cup (IF p = t.post THEN {r} ELSE {})
    BY <1>7, <1>8 DEF RowsOf
  <2>2. ASSUME NEW p \in PostIds
        PROVE  RowsOf(p)' \subseteq IF post'[p].intent = None THEN {}
                                    ELSE UNION {Promised(p, w)' : w \in SettledFor(p)'}
    <3>1. UNION {Promised(p, w)' : w \in SettledFor(p)'} = UNION {Promised(p, w) : w \in SettledFor(p)}
      BY <1>10
    <3>2. CASE p = t.post
      BY <1>1, <1>2, <1>4, <1>5, <2>1, <3>1, <3>2 DEF paid
    <3>3. CASE p # t.post
      BY <1>1, <2>1, <3>1, <3>3 DEF IInv, OnlyPromisedGold
    <3> QED
      BY <3>2, <3>3
  <2> QED
    BY <2>2 DEF OnlyPromisedGold
<1>12. TerminalIsPaid'
  <2>1. \A p \in PostIds : Promised(p, decided[p])' = Promised(p, decided[p])
    BY <1>1 DEF Promised
  <2> QED
    BY <1>1, <1>8, <2>1 DEF IInv, TerminalIsPaid, RowsOf
<1>13. RowsAgree' /\ ResultsAgree' /\ SweepAgrees'
  BY <1>1, <1>9, SweepFrame DEF IInv, RowsAgree, ResultsAgree
<1>14. task'[a] \in Task
  BY <1>1 DEF Task
<1>15. /\ task'[a].pc = "money" /\ task'[a].post = t.post /\ task'[a].intent = t.intent
       /\ task'[a].winner = t.winner /\ task'[a].snap = t.snap /\ task'[a].reopen = t.reopen
       /\ task'[a].left = t.left \ {u}
  BY <1>1 DEF Task
<1>16. TaskAgrees(a)'
  BY <1>1, <1>8, <1>15 DEF TaskAgrees, r
<1>17. TypeOK'
  BY <1>1, <1>2, <1>7, <1>8, <1>14 DEF IInv, TypeOK, Credit
<1> QED
  BY <1>1, <1>9, <1>11, <1>12, <1>13, <1>16, <1>17, TasksFrame DEF IInv

\* Without a community a payout is dropped, and refunds are skipped for good.
LEMMA StepNoCommunity ==
  ASSUME IInv, NEW a \in Actors, NoCommunity(a)
  PROVE  IInv' /\ RowsGrow
<1> DEFINE t == task[a]
           out == PaysOut(t.snap, t.intent, t.winner)
<1>1. /\ UNCHANGED <<post, bet, ledger, recorded, result, undone, decided, overruled, phase, sweep>>
      /\ t \in Task /\ TaskAgrees(a) /\ t.pc = "money"
      /\ IF out THEN task' = [task EXCEPT ![a] = Idle] /\ unrefunded' = unrefunded
                ELSE task' = [task EXCEPT ![a].left = {}] /\ unrefunded' = unrefunded \cup {t.post}
  BY DEF NoCommunity, Done, IInv, TypeOK, matches, verdicts
<1>2. t.post \in PostIds /\ unrefunded \subseteq unrefunded'
  BY <1>1, MoneyFacts
<1>3. RowsGrow /\ Onward
  BY <1>1, <1>2 DEF RowsGrow, Onward
<1>4. OnlyPromisedGold' /\ TerminalIsPaid'
  BY <1>1, <1>3, MoneyFrame
<1>5. RowsAgree' /\ ResultsAgree' /\ SweepAgrees'
  BY <1>1, <1>3, SweepFrame DEF IInv, RowsAgree, ResultsAgree
<1>6. TaskAgrees(a)' /\ task' \in [Actors -> Task] /\ \A b \in Actors \ {a} : task'[b] = task[b]
  <2>1. CASE out
    BY <1>1, <2>1, IdleType, RestAgrees DEF IInv, TypeOK
  <2>2. CASE ~out
    <3>1. task'[a] = [t EXCEPT !.left = {}] /\ t.post \in unrefunded'
      BY <1>1, <2>2 DEF IInv, TypeOK
    <3>2. /\ task'[a] \in Task /\ task'[a].pc = "money" /\ task'[a].post = t.post /\ task'[a].intent = t.intent
          /\ task'[a].winner = t.winner /\ task'[a].snap = t.snap /\ task'[a].reopen = t.reopen
          /\ task'[a].left = {}
      BY <1>1, <3>1 DEF Task
    <3>3. TaskAgrees(a)'
      BY <1>1, <2>2, <3>1, <3>2 DEF TaskAgrees
    <3> QED
      BY <1>1, <2>2, <3>2, <3>3 DEF IInv, TypeOK
  <2> QED
    BY <2>1, <2>2
<1>7. TypeOK'
  <2>1. faults' \in 0..MaxFaults /\ unrefunded' \subseteq PostIds
    BY <1>1, <1>2, BoundsAssumption DEF IInv, TypeOK, NoCommunity
  <2> QED
    BY <1>1, <1>6, <2>1 DEF IInv, TypeOK, NoCommunity, matches, verdicts
<1> QED
  BY <1>3, <1>4, <1>5, <1>6, <1>7, TasksFrame DEF IInv

\* The status follows the money: nobody is left to credit.
LEMMA StepFinish ==
  ASSUME IInv, NEW a \in Actors, Finish(a)
  PROVE  IInv' /\ RowsGrow
<1> DEFINE t == task[a]
           out == Outcome(t.snap, t.intent, t.winner)
<1>1. /\ UNCHANGED <<bet, ledger, recorded, result, undone, decided, overruled, unrefunded, phase, sweep>>
      /\ t \in Task /\ TaskAgrees(a) /\ t.pc = "money" /\ t.left = {}
      /\ post' = [post EXCEPT ![t.post].status = out] /\ AfterBook(a)
  BY DEF Finish, IInv, TypeOK, matches, verdicts
<1>2. /\ t.post \in PostIds /\ post[t.post].intent = t.intent /\ t.intent # None
      /\ post[t.post].match \in Matches /\ post[t.post].status \notin {None, "open"}
      /\ \A w : Promised(t.post, w) = {Owed(t.post, t.snap, t.intent, w, v) : v \in Payees(t.snap, t.intent, w)}
      /\ Promised(t.post, decided[t.post]) = Promised(t.post, t.winner)
  BY <1>1, MoneyFacts
<1>3. /\ out \in Terminal /\ (t.reopen => a \in Matches)
      /\ out = "resolved" => PaysOut(t.snap, t.intent, t.winner) \/ Payees(t.snap, t.intent, t.winner) = {}
  BY <1>1 DEF TaskAgrees, Outcome, Terminal, PaysOut, Payees
<1> HIDE DEF out
<1>4. /\ post'[t.post] = [match |-> post[t.post].match, status |-> out, intent |-> t.intent]
      /\ \A q \in PostIds \ {t.post} : post'[q] = post[q]
  BY <1>1, <1>2 DEF IInv, TypeOK, PostRow
<1>5. RowsGrow /\ Onward
  BY <1>1, <1>2, <1>3, <1>4 DEF RowsGrow, Onward, Terminal, None
<1>6. \A p \in PostIds : /\ post'[p].intent = post[p].intent
                         /\ RowsOf(p)' = RowsOf(p) /\ SettledFor(p)' = SettledFor(p)
                         /\ \A w : Promised(p, w)' = Promised(p, w)
  <2>1. \A p \in PostIds : post'[p].intent = post[p].intent
    BY <1>2, <1>4
  <2> QED
    BY <1>1, <2>1 DEF Promised, RowsOf, SettledFor
<1>7. OnlyPromisedGold'
  <2>1. ASSUME NEW p \in PostIds
        PROVE  RowsOf(p)' \subseteq IF post'[p].intent = None THEN {}
                                    ELSE UNION {Promised(p, w)' : w \in SettledFor(p)'}
    <3>1. UNION {Promised(p, w)' : w \in SettledFor(p)'} = UNION {Promised(p, w) : w \in SettledFor(p)}
      BY <1>6
    <3> QED
      BY <1>6, <3>1 DEF IInv, OnlyPromisedGold
  <2> QED
    BY <2>1 DEF OnlyPromisedGold
<1>8. TerminalIsPaid'
  <2>1. \A w, v : Owed(t.post, t.snap, t.intent, w, v).post = t.post
    BY DEF Owed
  <2>2. \/ Promised(t.post, decided[t.post]) \subseteq RowsOf(t.post)
        \/ t.post \in unrefunded /\ out # "resolved"
    <3>1. CASE \A v \in Payees(t.snap, t.intent, t.winner) :
                 Owed(t.post, t.snap, t.intent, t.winner, v) \in ledger
      BY <1>2, <2>1, <3>1 DEF RowsOf
    <3>2. CASE t.post \in unrefunded /\ ~PaysOut(t.snap, t.intent, t.winner)
      BY <1>2, <1>3, <3>2
    <3> QED
      BY <1>1, <3>1, <3>2 DEF TaskAgrees
  <2>3. \A p \in PostIds : Promised(p, decided[p])' = Promised(p, decided[p])
    BY <1>1, <1>6 DEF Promised
  <2> QED
    BY <1>1, <1>4, <1>6, <2>2, <2>3 DEF IInv, TerminalIsPaid
<1>9. RowsAgree' /\ ResultsAgree' /\ SweepAgrees'
  <2>1. RowsAgree'
    BY <1>1, <1>2, <1>3, <1>4 DEF IInv, RowsAgree, Terminal, None
  <2> QED
    BY <1>1, <1>5, <2>1, SweepFrame DEF IInv, ResultsAgree
<1>10. TaskAgrees(a)' /\ \A b \in Actors \ {a} : task'[b] = task[b]
  BY <1>1, <1>3, RestAgrees DEF AfterBook, IInv, TypeOK
<1>11. TypeOK'
  <2>1. post' \in [PostIds -> PostRow]
    BY <1>1, <1>2, <1>3 DEF IInv, TypeOK, PostRow
  <2> QED
    BY <1>1, <2>1, AfterType DEF IInv, TypeOK, Finish
<1> QED
  BY <1>5, <1>7, <1>8, <1>9, <1>10, <1>11, TasksFrame DEF IInv

LEMMA StepReopen ==
  ASSUME IInv, NEW m \in Matches, Reopen(m)
  PROVE  IInv' /\ RowsGrow
<1>1. m \in Actors /\ UNCHANGED <<bet, ledger, matches, verdicts, unrefunded, phase, sweep>> /\ Done(m)
  BY DEF Reopen, Actors
<1>2. TypeOK'
  BY <1>1, CreateType, IdleType DEF IInv, TypeOK, Reopen, Done, matches, verdicts
<1>3. RowsGrow /\ OnlyPromisedGold' /\ TerminalIsPaid' /\ RowsAgree'
  BY <1>1, CreateFacts DEF Reopen
<1>4. ResultsAgree' /\ SweepAgrees'
  BY <1>1, <1>3, SweepFrame DEF IInv, ResultsAgree, matches, Onward
<1>5. TaskAgrees(m)' /\ \A b \in Actors \ {m} : task'[b] = task[b]
  BY <1>1, RestAgrees DEF Done, IInv, TypeOK
<1> QED
  BY <1>1, <1>2, <1>3, <1>4, <1>5, TasksFrame DEF IInv, Onward

\* A query of the sweep records the intents as they are, and it cannot be running a task.
LEMMA LoadFacts ==
  ASSUME IInv, NEW S \in SUBSET PostIds, \A p \in S : post[p].status # None,
         NEW at \in {"freeze", "resume", "abandon"}, Load(at, S),
         at = "resume" => \A p \in S : phase[post[p].match] = "over",
         UNCHANGED <<rows, phase, opening, task, faults, undos>>
  PROVE  IInv' /\ RowsGrow
<1>1. UNCHANGED <<post, bet, ledger, matches, verdicts, unrefunded, phase, task>>
  BY DEF rows, matches, verdicts
<1>2. RowsGrow /\ OnlyPromisedGold' /\ TerminalIsPaid' /\ RowsAgree'
  BY <1>1, RowsFrame
<1>3. \A p \in PostIds : post[p].intent \in Intents \cup {None}
  BY DEF IInv, TypeOK, PostRow
<1>4. sweep' \in Loop
  BY <1>3 DEF Load, Loop
<1>5. TypeOK'
  BY <1>4 DEF IInv, TypeOK, rows, matches, verdicts
<1>6. ResultsAgree' /\ SweepAgrees'
  BY <1>1 DEF IInv, ResultsAgree, SweepAgrees, Load, matches
<1>7. \A a \in Actors : TaskAgrees(a)'
  BY <1>1, <1>2, TaskFrame DEF Onward
<1> QED
  BY <1>2, <1>5, <1>6, <1>7 DEF IInv

LEMMA StepQuery ==
  ASSUME IInv, SweepStart \/ SweepUnsettled \/ SweepAbandoned
  PROVE  IInv' /\ RowsGrow
<1>1. CASE SweepStart
  BY <1>1, LoadFacts DEF SweepStart, None
<1>2. CASE SweepUnsettled
  <2>1. \A p \in UnsettledBooks : post[p].status # None /\ phase[post[p].match] = "over"
    BY DEF UnsettledBooks, IInv, RowsAgree, ResultsAgree, None
  <2>2. UnsettledBooks \subseteq PostIds
    BY DEF UnsettledBooks
  <2> QED
    BY <1>2, <2>1, <2>2, LoadFacts DEF SweepUnsettled
<1>3. CASE SweepAbandoned
  BY <1>3, LoadFacts DEF SweepAbandoned, AbandonedBooks, None
<1> QED
  BY <1>1, <1>2, <1>3

\* The end of a pass holds no rows; an error in it holds none either.
LEMMA StepPassEnd ==
  ASSUME IInv, SweepEnd \/ SweepFail
  PROVE  IInv' /\ RowsGrow
<1>1. UNCHANGED <<post, bet, ledger, matches, verdicts, unrefunded, phase, task>> /\ sweep' = SweepIdle
  BY DEF SweepEnd, SweepFail, rows
<1>2. NoRows \in [PostIds -> Intents \cup {None}]
  BY DEF NoRows
<1>3. SweepIdle \in Loop /\ SweepIdle.todo = {} /\ SweepIdle.seen = NoRows
  BY <1>2 DEF SweepIdle, Loop
<1>4. faults' \in 0..MaxFaults /\ undos' = undos
  BY BoundsAssumption DEF IInv, TypeOK, SweepEnd, SweepFail
<1>5. TypeOK'
  BY <1>1, <1>3, <1>4 DEF IInv, TypeOK, SweepEnd, SweepFail, rows, matches, verdicts
<1>6. RowsGrow /\ OnlyPromisedGold' /\ TerminalIsPaid' /\ RowsAgree'
  BY <1>1, RowsFrame
<1>7. SweepAgrees'
  BY <1>1, <1>3 DEF SweepAgrees, NoRows
<1>8. ResultsAgree' /\ \A a \in Actors : TaskAgrees(a)'
  BY <1>1, <1>6, TaskFrame DEF IInv, ResultsAgree, matches, Onward
<1> QED
  BY <1>5, <1>6, <1>7, <1>8 DEF IInv

\* The task of the next row starts from what the sweep read of it, which is still so.
LEMMA StepSweepNext ==
  ASSUME IInv, SweepNext
  PROVE  IInv' /\ RowsGrow
<1>1. PICK p \in sweep.todo :
        /\ LET m == post[p].match
               w == IF sweep.at = "resume" THEN result[m] ELSE None
               t == [Idle EXCEPT !.post = p, !.winner = w]
           IN task' = [task EXCEPT ![Sweep] =
                IF sweep.at = "freeze" THEN [t EXCEPT !.pc = "close"]
                ELSE IF sweep.seen[p] \in {"void", "no_action"}
                     THEN [t EXCEPT !.pc = "bets", !.intent = sweep.seen[p]]
                     ELSE [t EXCEPT !.pc = "claim",
                                    !.intent = IF w \in Sides THEN "settle" ELSE "void"]]
        /\ sweep' = [sweep EXCEPT !.todo = @ \ {p}, !.seen[p] = None]
  BY DEF SweepNext
<1>2. UNCHANGED <<post, bet, ledger, matches, verdicts, unrefunded, phase>> /\ UNCHANGED <<opening, faults, undos>>
  BY DEF SweepNext, rows, matches, verdicts
<1>3. /\ p \in PostIds /\ post[p].status # None /\ post[p].match \in Matches
      /\ sweep.seen[p] # None => post[p].intent = sweep.seen[p]
      /\ Sweep \in Actors
  BY <1>1 DEF IInv, TypeOK, Loop, SweepAgrees, RowsAgree, Actors
<1>4. RowsGrow /\ OnlyPromisedGold' /\ TerminalIsPaid' /\ RowsAgree'
  BY <1>2, RowsFrame
<1>5. sweep' \in Loop /\ SweepAgrees'
  <2>1. /\ sweep' \in Loop /\ sweep'.todo = sweep.todo \ {p}
        /\ sweep'.seen = [sweep.seen EXCEPT ![p] = None] /\ sweep'.at = sweep.at
    BY <1>1, <1>3 DEF IInv, TypeOK, Loop
  <2>2. \A q \in PostIds : sweep'.seen[q] # None => q # p /\ sweep'.seen[q] = sweep.seen[q]
    BY <1>3, <2>1 DEF IInv, TypeOK, Loop
  <2> QED
    BY <1>2, <2>1, <2>2 DEF IInv, SweepAgrees
<1> DEFINE w == IF sweep.at = "resume" THEN result[post[p].match] ELSE None
           t == [Idle EXCEPT !.post = p, !.winner = w]
           seen == sweep.seen[p]
           new == IF sweep.at = "freeze" THEN [t EXCEPT !.pc = "close"]
                  ELSE IF seen \in {"void", "no_action"}
                       THEN [t EXCEPT !.pc = "bets", !.intent = seen]
                       ELSE [t EXCEPT !.pc = "claim",
                                      !.intent = IF w \in Sides THEN "settle" ELSE "void"]
<1>6. task' = [task EXCEPT ![Sweep] = new]
  BY <1>1
<1>7. /\ w \in Sides \cup {"draw", None}
      /\ w \in Sides => w = result[post[p].match] /\ phase[post[p].match] = "over"
  BY <1>1, <1>3 DEF IInv, TypeOK, SweepAgrees, None, Sides
<1>8. t \in Task /\ t.post = p /\ t.winner = w /\ t.reopen = FALSE
  BY <1>3, <1>7, IdleType DEF Task, Idle
<1> HIDE DEF w, t, seen
<1>9. new \in Task /\ new.post = p /\ new.winner = w /\ new.reopen = FALSE
  BY <1>8 DEF Task, PCs, Intents
<1>10. \/ new.pc = "close"
       \/ new.pc = "bets" /\ new.intent = seen /\ seen \in {"void", "no_action"}
       \/ new.pc = "claim" /\ new.intent = (IF w \in Sides THEN "settle" ELSE "void")
  BY <1>8 DEF Task
<1> HIDE DEF new
<1>11. task'[Sweep] = new /\ \A b \in Actors \ {Sweep} : task'[b] = task[b]
  BY <1>3, <1>6 DEF IInv, TypeOK
<1>12. TaskAgrees(Sweep)'
  <2>1. CASE new.pc = "close"
    BY <1>2, <1>3, <1>9, <1>11, <2>1 DEF TaskAgrees
  <2>2. CASE new.pc = "bets" /\ new.intent = seen /\ seen \in {"void", "no_action"}
    BY <1>2, <1>3, <1>9, <1>11, <2>2 DEF TaskAgrees, seen, None
  <2>3. CASE new.pc = "claim" /\ new.intent = (IF w \in Sides THEN "settle" ELSE "void")
    BY <1>2, <1>3, <1>7, <1>9, <1>11, <2>3 DEF TaskAgrees, None, matches
  <2> QED
    BY <1>10, <2>1, <2>2, <2>3
<1>13. TypeOK'
  <2>1. task' \in [Actors -> Task]
    BY <1>6, <1>9 DEF IInv, TypeOK
  <2> QED
    BY <1>2, <1>5, <2>1 DEF IInv, TypeOK, SweepNext, rows, matches, verdicts
<1>14. ResultsAgree' /\ Onward
  BY <1>2 DEF IInv, ResultsAgree, matches, Onward
<1> QED
  BY <1>3, <1>4, <1>5, <1>11, <1>12, <1>13, <1>14, TasksFrame DEF IInv

\* Closing the window leaves the branch unstaked.
LEMMA StepCloseBetting ==
  ASSUME IInv, CloseBetting
  PROVE  IInv' /\ RowsGrow
<1> DEFINE p == task[Sweep].post
           open == post[p].status = "open"
<1>1. UNCHANGED <<bet, ledger, matches, verdicts, unrefunded, phase, sweep>>
  BY DEF CloseBetting
<1>2. /\ Sweep \in Actors /\ task[Sweep] \in Task /\ TaskAgrees(Sweep) /\ task[Sweep].pc = "close"
      /\ p \in PostIds /\ post[p] \in PostRow /\ post[p].status # None
      /\ IF open THEN /\ post' = [post EXCEPT ![p].status = "frozen"]
                      /\ task' = [task EXCEPT ![Sweep].pc = "pools"]
                 ELSE post' = post /\ task' = [task EXCEPT ![Sweep] = Idle]
  BY DEF CloseBetting, Goto, Done, IInv, TypeOK, TaskAgrees, Actors
<1> HIDE DEF p
<1>3. /\ open => post'[p] = [match |-> post[p].match, status |-> "frozen", intent |-> post[p].intent]
      /\ ~open => post' = post
      /\ \A q \in PostIds \ {p} : post'[q] = post[q]
  BY <1>2 DEF IInv, TypeOK, PostRow
<1>4. /\ post' \in [PostIds -> PostRow]
      /\ task' \in [Actors -> Task]
      /\ \A b \in Actors \ {Sweep} : task'[b] = task[b]
  <2>1. post \in [PostIds -> PostRow] /\ task \in [Actors -> Task]
    BY DEF IInv, TypeOK
  <2>2. post' \in [PostIds -> PostRow]
    BY <1>2, <2>1 DEF PostRow, Live
  <2>3. [task[Sweep] EXCEPT !.pc = "pools"] \in Task
    BY <1>2, PcType DEF PCs
  <2> QED
    BY <1>2, <2>1, <2>2, <2>3, IdleType
<1>5. RowsGrow
  <2>1. CASE open
    BY <1>1, <1>2, <1>3, <2>1 DEF RowsGrow, None, matches, verdicts
  <2>2. CASE ~open
    BY <1>1, <1>3, <2>2 DEF RowsGrow, matches, verdicts
  <2> QED
    BY <2>1, <2>2
<1>6. OnlyPromisedGold' /\ TerminalIsPaid'
  <2>1. \A q \in PostIds : post'[q].status \in Terminal => post[q].status = post'[q].status
    BY <1>3 DEF Terminal
  <2> QED
    BY <1>1, <1>5, <2>1, MoneyFrame
<1>7. RowsAgree'
  BY <1>1, <1>2, <1>3 DEF IInv, RowsAgree, None, Terminal, matches, verdicts
<1>8. TaskAgrees(Sweep)'
  <2>1. CASE open
    <3>1. task'[Sweep] = [task[Sweep] EXCEPT !.pc = "pools"]
      BY <1>2, <2>1 DEF IInv, TypeOK
    <3>2. task'[Sweep].pc = "pools" /\ task'[Sweep].post = p /\ task'[Sweep].reopen = task[Sweep].reopen
      BY <1>2, <3>1 DEF Task, p
    <3> QED
      BY <1>2, <1>3, <2>1, <3>2 DEF TaskAgrees, None
  <2>2. CASE ~open
    BY <1>2, <2>2, RestAgrees DEF IInv, TypeOK
  <2> QED
    BY <2>1, <2>2
<1>9. TypeOK'
  BY <1>1, <1>4 DEF IInv, TypeOK, CloseBetting, matches, verdicts
<1>10. ResultsAgree' /\ SweepAgrees'
  BY <1>1, <1>5, SweepFrame DEF IInv, ResultsAgree, matches, Onward
<1> QED
  BY <1>1, <1>2, <1>4, <1>5, <1>6, <1>7, <1>8, <1>9, <1>10, TasksFrame DEF IInv, Onward

\* The bets of a closed book decide whether there is a bet at all.
LEMMA StepReadPools ==
  ASSUME IInv, ReadPools
  PROVE  IInv' /\ RowsGrow
<1> DEFINE t == task[Sweep]
           b == bet[t.post]
           void == [t EXCEPT !.pc = "claim", !.intent = "no_action", !.snap = b, !.left = Bettors(b)]
           wait == [t EXCEPT !.pc = "freeze"]
<1>1. /\ UNCHANGED <<post, bet, ledger, matches, verdicts, unrefunded, phase, sweep>>
      /\ Sweep \in Actors /\ t \in Task /\ TaskAgrees(Sweep) /\ t.pc = "pools"
      /\ \A c \in Actors \ {Sweep} : task'[c] = task[c]
      /\ task'[Sweep] = void \/ task'[Sweep] = wait
  BY DEF ReadPools, rows, matches, verdicts, IInv, TypeOK, Actors
<1>2. RowsGrow /\ OnlyPromisedGold' /\ TerminalIsPaid' /\ RowsAgree'
  BY <1>1, RowsFrame
<1>3. t.post \in PostIds /\ b \in Book /\ Bettors(b) \subseteq Users
  BY <1>1 DEF TaskAgrees, IInv, TypeOK, Bettors
<1>4. /\ void \in Task /\ void.pc = "claim" /\ void.intent = "no_action" /\ void.snap = b
      /\ void.left = Bettors(b) /\ void.post = t.post /\ void.reopen = t.reopen
  BY <1>1, <1>3 DEF Task, PCs, Intents
<1>5. wait \in Task /\ wait.pc = "freeze" /\ wait.post = t.post /\ wait.reopen = t.reopen
  BY <1>1 DEF Task, PCs
<1> HIDE DEF void, wait
<1>6. TaskAgrees(Sweep)'
  <2>1. CASE task'[Sweep] = void
    BY <1>1, <1>4, <2>1 DEF TaskAgrees, None
  <2>2. CASE task'[Sweep] = wait
    BY <1>1, <1>5, <2>2 DEF TaskAgrees
  <2> QED
    BY <1>1, <2>1, <2>2
<1>7. TypeOK'
  <2>1. task' \in [Actors -> Task]
    BY <1>1, <1>4, <1>5 DEF IInv, TypeOK, ReadPools
  <2> QED
    BY <1>1, <2>1 DEF IInv, TypeOK, ReadPools, rows, matches, verdicts
<1>8. ResultsAgree' /\ SweepAgrees' /\ \A c \in Actors : TaskAgrees(c)'
  BY <1>1, <1>2, <1>6, SweepFrame, TasksFrame DEF IInv, ResultsAgree, matches, Onward
<1> QED
  BY <1>2, <1>7, <1>8 DEF IInv

\* The late freeze may reopen nothing and unpay nothing: it can only take a status back.
LEMMA StepFreeze ==
  ASSUME IInv, Freeze
  PROVE  IInv' /\ RowsGrow
<1> DEFINE p == task[Sweep].post
<1>1. UNCHANGED <<bet, ledger, matches, verdicts, unrefunded, phase, sweep>>
  BY DEF Freeze
<1>2. /\ Sweep \in Actors /\ p \in PostIds /\ post[p] \in PostRow /\ post[p].status \notin {None, "open"}
      /\ post' = [post EXCEPT ![p].status = "frozen"]
      /\ task' = [task EXCEPT ![Sweep] = Idle]
  BY DEF Freeze, Done, IInv, TypeOK, TaskAgrees, Actors
<1>3. /\ post'[p] = [match |-> post[p].match, status |-> "frozen", intent |-> post[p].intent]
      /\ \A q \in PostIds \ {p} : post'[q] = post[q]
  BY <1>2 DEF IInv, TypeOK, PostRow
<1> HIDE DEF p
<1>4. RowsGrow
  BY <1>1, <1>2, <1>3 DEF RowsGrow, None, matches, verdicts
<1>5. OnlyPromisedGold' /\ TerminalIsPaid'
  <2>1. \A q \in PostIds : post'[q].status \in Terminal => post[q].status = post'[q].status
    BY <1>3 DEF Terminal
  <2> QED
    BY <1>1, <1>4, <2>1, MoneyFrame
<1>6. RowsAgree'
  BY <1>1, <1>2, <1>3 DEF IInv, RowsAgree, None, Terminal, matches, verdicts
<1>7. TypeOK'
  <2>1. post' \in [PostIds -> PostRow] /\ task' \in [Actors -> Task]
    BY <1>2, IdleType DEF IInv, TypeOK, PostRow, Live
  <2> QED
    BY <1>1, <2>1 DEF IInv, TypeOK, Freeze, matches, verdicts
<1>8. TaskAgrees(Sweep)' /\ \A b \in Actors \ {Sweep} : task'[b] = task[b]
  BY <1>2, RestAgrees DEF IInv, TypeOK
<1>9. ResultsAgree' /\ SweepAgrees'
  BY <1>1, <1>4, SweepFrame DEF IInv, ResultsAgree, matches, Onward
<1> QED
  BY <1>1, <1>2, <1>4, <1>5, <1>6, <1>7, <1>8, <1>9, TasksFrame DEF IInv, Onward

LEMMA StepFail ==
  ASSUME IInv, NEW a \in Actors, Fail(a)
  PROVE  IInv' /\ RowsGrow
<1>1. /\ UNCHANGED <<post, bet, ledger, matches, verdicts, unrefunded, phase, sweep>>
      /\ task' = [task EXCEPT ![a] = Idle]
  BY DEF Fail, Done, rows, matches, verdicts
<1>2. RowsGrow /\ OnlyPromisedGold' /\ TerminalIsPaid' /\ RowsAgree'
  BY <1>1, RowsFrame
<1>3. TypeOK'
  <2>1. task' \in [Actors -> Task] /\ faults' \in 0..MaxFaults
    BY <1>1, IdleType, BoundsAssumption DEF IInv, TypeOK, Fail
  <2> QED
    BY <1>1, <2>1 DEF IInv, TypeOK, Fail, rows, matches, verdicts
<1>4. TaskAgrees(a)' /\ \A b \in Actors \ {a} : task'[b] = task[b]
  BY <1>1, RestAgrees DEF IInv, TypeOK
<1>5. ResultsAgree' /\ SweepAgrees'
  BY <1>1, <1>2, SweepFrame DEF IInv, ResultsAgree, matches, Onward
<1> QED
  BY <1>1, <1>2, <1>3, <1>4, <1>5, TasksFrame DEF IInv, Onward

\* A crash forgets every task and every row the sweep held, and restores no reported match.
LEMMA StepCrash ==
  ASSUME IInv, Crash
  PROVE  IInv' /\ RowsGrow
<1>1. /\ UNCHANGED <<post, bet, ledger, launched, matches, verdicts, unrefunded>>
      /\ task' = [a \in Actors |-> Idle] /\ sweep' = SweepIdle
  BY DEF Crash, rows, matches, verdicts
<1>2. RowsGrow /\ OnlyPromisedGold' /\ TerminalIsPaid' /\ RowsAgree'
  BY <1>1, RowsFrame
<1>3. TypeOK'
  <2>1. NoRows \in [PostIds -> Intents \cup {None}]
    BY DEF NoRows
  <2>2. sweep' \in Loop /\ task' \in [Actors -> Task]
    BY <1>1, <2>1, IdleType DEF SweepIdle, Loop
  <2>3. /\ faults' \in 0..MaxFaults /\ undos' = undos /\ opening' = {}
        /\ phase' \in [Matches -> {"forming", "live", "over"}]
    BY BoundsAssumption DEF IInv, TypeOK, Crash
  <2> QED
    BY <1>1, <2>2, <2>3 DEF IInv, TypeOK, matches, verdicts
<1>4. ResultsAgree'
  BY <1>1 DEF IInv, Crash, ResultsAgree, Restored, matches
<1>5. SweepAgrees'
  BY <1>1 DEF SweepAgrees, SweepIdle, NoRows
<1>6. \A a \in Actors : TaskAgrees(a)'
  BY <1>1, RestAgrees
<1> QED
  BY <1>2, <1>3, <1>4, <1>5, <1>6 DEF IInv

----------------------------------------------------------------------------
\* The invariant, and what follows from it.

LEMMA InitIInv == Init => IInv
<1> SUFFICES ASSUME Init PROVE IInv
  OBVIOUS
<1>1. post \in [PostIds -> PostRow]
  BY DEF Init, PostRow
<1>2. EmptyBook \in Book
  BY BoundsAssumption DEF EmptyBook, NoBet, Book, Sides
<1>3. bet \in [PostIds -> Book] /\ task \in [Actors -> Task]
  BY <1>2, IdleType DEF Init
<1>4. sweep \in Loop
  <2>1. NoRows \in [PostIds -> Intents \cup {None}]
    BY DEF NoRows
  <2> QED
    BY <2>1 DEF Init, SweepIdle, Loop
<1>5. TypeOK
  BY <1>1, <1>3, <1>4, BoundsAssumption DEF Init, TypeOK, NoRows
<1>6. OnlyPromisedGold /\ TerminalIsPaid /\ RowsAgree
  BY DEF Init, OnlyPromisedGold, TerminalIsPaid, RowsAgree, RowsOf, NoRows, Terminal, None
<1>7. ResultsAgree /\ SweepAgrees
  BY DEF Init, ResultsAgree, SweepAgrees, SweepIdle, NoRows
<1>8. \A a \in Actors : TaskAgrees(a)
  BY DEF Init, TaskAgrees, Idle
<1> QED
  BY <1>5, <1>6, <1>7, <1>8 DEF IInv

LEMMA StepSettle ==
  ASSUME IInv, NEW a \in Actors, Settle(a)
  PROVE  IInv' /\ RowsGrow
  BY StepClaim, StepReadBets, StepCredit, StepFinish DEF Settle

LEMMA StepMatch ==
  ASSUME IInv, NEW m \in Matches, MatchEvent(m) \/ MatchTask(m)
  PROVE  IInv' /\ RowsGrow
<1>1. CASE MatchEvent(m)
  BY <1>1, StepGoLive, StepLaunch, StepVoid, StepUndoMatch, StepReport DEF MatchEvent
<1>2. CASE MatchTask(m)
  BY <1>2, StepOpenForMatch, StepFind, StepSettle, StepReopen DEF MatchTask, Actors
<1> QED
  BY <1>1, <1>2

LEMMA StepSweepTask ==
  ASSUME IInv, SweepTask
  PROVE  IInv' /\ RowsGrow
  BY StepQuery, StepPassEnd, StepSweepNext, StepCloseBetting, StepReadPools, StepFreeze, StepSettle
     DEF SweepTask, Actors

\* Every step preserves the invariant and moves the rows one way.
LEMMA NextStep ==
  ASSUME IInv, [Next]_vars
  PROVE  IInv' /\ RowsGrow
<1>1. CASE Next
  <2>1. CASE \E m \in Matches : MatchEvent(m) \/ MatchTask(m)
    BY <2>1, StepMatch
  <2>2. CASE \E u \in Users : Press(u)
    <3>1. Sides # {}
      BY DEF Sides
    <3> QED
      BY <2>2, <3>1, StepPress DEF Press
  <2>3. CASE SweepTask
    BY <2>3, StepSweepTask
  <2>4. CASE SweepFail
    BY <2>4, StepPassEnd
  <2>5. CASE Crash
    BY <2>5, StepCrash
  <2>6. CASE \E a \in Actors : Fail(a) \/ NoCommunity(a)
    BY <2>6, StepFail, StepNoCommunity
  <2> QED
    BY <1>1, <2>1, <2>2, <2>3, <2>4, <2>5, <2>6 DEF Next
<1>2. CASE UNCHANGED vars
  <2>1. UNCHANGED <<post, bet, ledger, launched, matches, verdicts, unrefunded, phase, opening, task, sweep, faults, undos>>
    BY <1>2 DEF vars, rows, matches, verdicts, memory
  <2>2. RowsGrow /\ OnlyPromisedGold' /\ TerminalIsPaid' /\ RowsAgree'
    BY <2>1, RowsFrame
  <2>3. TypeOK' /\ ResultsAgree' /\ SweepAgrees' /\ \A a \in Actors : TaskAgrees(a)'
    BY <2>1, <2>2, SweepFrame, TaskFrame DEF IInv, TypeOK, ResultsAgree, matches, verdicts, Onward
  <2> QED
    BY <2>2, <2>3 DEF IInv
<1> QED
  BY <1>1, <1>2

\* The inductive invariant: rows, sweep and tasks agree in every reachable state.
THEOREM Inductive == Spec => []IInv
<1>1. IInv /\ [Next]_vars => IInv'
  BY NextStep
<1> QED
  BY InitIInv, <1>1, PTL DEF Spec

\* Every variable keeps its type.
THEOREM TypeCorrect == Spec => []TypeOK
<1>1. IInv => TypeOK
  BY DEF IInv
<1> QED
  BY Inductive, <1>1, PTL

\* No task, retry, crash or late sweep moves gold that the staked branch does not owe.
THEOREM GoldIsPromised == Spec => []OnlyPromisedGold
<1>1. IInv => OnlyPromisedGold
  BY DEF IInv
<1> QED
  BY Inductive, <1>1, PTL

\* A post is terminal only once everyone it owes has been paid, unless a refund found no community.
THEOREM PaidBeforeTerminal == Spec => []TerminalIsPaid
<1>1. IInv => TerminalIsPaid
  BY DEF IInv
<1> QED
  BY Inductive, <1>1, PTL

\* No post is ever both refunded and paid out, even one that is settled for two winners in turn:
\* whether a book has two sides does not depend on who won.
THEOREM NeverBoth == Spec => []RefundXorPayout
<1>1. IInv => RefundXorPayout
  <2>1. SUFFICES ASSUME IInv, NEW r \in ledger, NEW s \in ledger, r.post = s.post
                 PROVE  r.kind = s.kind
    BY DEF RefundXorPayout
  <2> DEFINE p == r.post
             paid == post[p].intent = "settle" /\ ~OneSided(bet[p])
  <2>2. p \in PostIds /\ r \in RowsOf(p) /\ s \in RowsOf(p)
    BY <2>1 DEF IInv, TypeOK, RowsOf
  <2>3. ASSUME NEW x \in RowsOf(p)
        PROVE  x.kind = IF paid THEN "payout" ELSE "refund"
    <3>1. PICK w \in SettledFor(p) : x \in Promised(p, w)
      BY <2>1, <2>2, <2>3 DEF IInv, OnlyPromisedGold
    <3>2. post[p].intent = "settle" => w \in Sides
      BY <2>1, <2>2 DEF IInv, RowsAgree, SettledFor
    <3>3. PaysOut(bet[p], post[p].intent, w) <=> paid
      BY <3>2 DEF PaysOut, Winners, OneSided
    <3> QED
      BY <3>1, <3>3 DEF Promised, Owed
  <2> QED
    BY <2>2, <2>3
<1> QED
  BY Inductive, <1>1, PTL

\* Once betting closes the stakes stand and it never opens again.
THEOREM ClosedStaysClosed == Spec => ClosedForGood
<1>1. IInv /\ [Next]_vars => [\A p \in PostIds : post[p].status \in {"frozen"} \cup Terminal =>
                                bet'[p] = bet[p] /\ post'[p].status # "open"]_vars
  <2>1. SUFFICES ASSUME IInv, [Next]_vars, NEW p \in PostIds, post[p].status \in {"frozen"} \cup Terminal
                 PROVE  bet'[p] = bet[p] /\ post'[p].status # "open"
    OBVIOUS
  <2>2. post[p].status \notin {None, "open"}
    BY <2>1 DEF Terminal, None
  <2> QED
    BY <2>1, <2>2, NextStep DEF RowsGrow
<1> QED
  BY Inductive, <1>1, PTL DEF Spec, ClosedForGood

\* A staked branch never changes hands.
THEOREM BranchStays == Spec => BranchIsFinal
<1>1. IInv /\ [Next]_vars => [\A p \in PostIds : post[p].intent # None => post'[p].intent = post[p].intent]_vars
  BY NextStep DEF RowsGrow
<1> QED
  BY Inductive, <1>1, PTL DEF Spec, BranchIsFinal
----------------------------------------------------------------------------
\* The refinement of BookPromise.

\* Betting and BookPromise mean the same by winners and shares.
LEMMA SameRules ==
  \A b, w, u : /\ Promise!Winners(b, w) = Winners(b, w) /\ Promise!Bettors(b) = Bettors(b)
               /\ Promise!Share(b, w, u) = Share(b, w, u)
<1>1. \A b, w, u : Promise!Share(b, w, u) = Share(b, w, u)
  BY DEF Promise!Share, Share, Promise!Pool, Pool, Promise!SumFunctionOnSet, SumFunctionOnSet,
         Promise!FoldFunctionOnSet, FoldFunctionOnSet, Promise!MapThenFoldSet, MapThenFoldSet,
         Promise!Backers, Backers, Promise!Bettors, Bettors
<1>2. \A b, w : Promise!Winners(b, w) = Winners(b, w) /\ Promise!Bettors(b) = Bettors(b)
  BY DEF Promise!Winners, Winners, Promise!OneSided, OneSided, Promise!Backers, Backers,
         Promise!Bettors, Bettors, Promise!Sides, Sides
<1> QED
  BY <1>1, <1>2

\* What the promise sees of the tasks.
promised == <<Window, bet, Verdict, ledger, Revoked>>

\* A post that stays unborn, open or closed keeps its window.
LEMMA SameWindow ==
  ASSUME NEW p \in PostIds,
         post'[p].status \in {None, "open"} \/ post[p].status \in {None, "open"} => post'[p].status = post[p].status
  PROVE  Window'[p] = Window[p]
  BY DEF Window

\* A function changes at one place.
LEMMA MovesAt ==
  ASSUME NEW f, NEW g, f = [q \in PostIds |-> f[q]], g = [q \in PostIds |-> g[q]],
         NEW p \in PostIds, \A q \in PostIds \ {p} : g[q] = f[q]
  PROVE  g = [f EXCEPT ![p] = g[p]]
  OBVIOUS

\* One book changes its window, or its verdict.
LEMMA WindowMoves ==
  ASSUME NEW p \in PostIds, \A q \in PostIds \ {p} : Window'[q] = Window[q]
  PROVE  Window' = [Window EXCEPT ![p] = Window'[p]]
<1>1. Window = [q \in PostIds |-> Window[q]]
  BY DEF Window
<1>2. Window' = [q \in PostIds |-> Window'[q]]
  BY DEF Window
<1> QED
  BY <1>1, <1>2, MovesAt, Zenon

LEMMA VerdictMoves ==
  ASSUME NEW p \in PostIds, \A q \in PostIds \ {p} : Verdict'[q] = Verdict[q]
  PROVE  Verdict' = [Verdict EXCEPT ![p] = Verdict'[p]]
<1>1. Verdict = [q \in PostIds |-> Verdict[q]]
  BY DEF Verdict
<1>2. Verdict' = [q \in PostIds |-> Verdict'[q]]
  BY DEF Verdict
<1> QED
  BY <1>1, <1>2, MovesAt, Zenon

\* Whose books are revoked.
LEMMA SameRevoked ==
  ASSUME undone' = undone,
         \A p \in PostIds : post'[p].match = post[p].match /\ (post'[p].status = None <=> post[p].status = None)
  PROVE  Revoked' = Revoked
  BY DEF Revoked

\* Without a claim there is no new verdict: what an old one rests on stays.
LEMMA SameVerdict ==
  ASSUME IInv, RowsGrow, NEW p \in PostIds, post'[p].intent = post[p].intent, decided'[p] = decided[p]
  PROVE  Verdict'[p] = Verdict[p]
<1>1. CASE post[p].intent = "settle"
  <2>1. post[p].status \notin {None, "open"}
    BY <1>1 DEF IInv, RowsAgree, None
  <2>2. bet'[p] = bet[p]
    BY <2>1 DEF RowsGrow
  <2> QED
    BY <2>2 DEF Verdict
<1>2. CASE post[p].intent # "settle"
  BY <1>2 DEF Verdict, PaysOut
<1> QED
  BY <1>1, <1>2

LEMMA SameVerdicts ==
  ASSUME IInv, RowsGrow, decided' = decided, \A p \in PostIds : post'[p].intent = post[p].intent
  PROVE  Verdict' = Verdict
<1>1. \A p \in PostIds : Verdict'[p] = Verdict[p]
  BY SameVerdict
<1>2. Verdict = [q \in PostIds |-> Verdict[q]]
  BY DEF Verdict
<1>3. Verdict' = [q \in PostIds |-> Verdict'[q]]
  BY DEF Verdict
<1> QED
  BY <1>1, <1>2, <1>3

\* What the promise does not see.
LEMMA Stutter ==
  ASSUME IInv, RowsGrow, UNCHANGED <<bet, ledger, undone, decided>>,
         \A p \in PostIds : /\ post'[p].status \in {None, "open"} \/ post[p].status \in {None, "open"}
                                 => post'[p].status = post[p].status
                            /\ post'[p].intent = post[p].intent /\ post'[p].match = post[p].match
  PROVE  UNCHANGED promised
<1>1. \A p \in PostIds : Window'[p] = Window[p]
  BY SameWindow
<1>2. Window' = Window
  BY <1>1 DEF Window
<1>3. Verdict' = Verdict
  BY SameVerdicts
<1>4. Revoked' = Revoked
  BY SameRevoked DEF None
<1> QED
  BY <1>2, <1>3, <1>4 DEF promised

\* An inserted post is a book that opens.
LEMMA CreateOpens ==
  ASSUME IInv, RowsGrow, NEW m \in Matches, CreatePost(m), UNCHANGED <<bet, ledger, undone, decided>>
  PROVE  (\E p \in PostIds : Promise!Open(p)) \/ UNCHANGED promised
<1>1. CASE post' = post
  BY <1>1, Stutter
<1>2. CASE post' # post
  <2>1. PICK p \in PostIds : /\ post[p].status = None
                             /\ post' = [post EXCEPT ![p] = [match |-> m, status |-> "open", intent |-> None]]
    BY <1>2 DEF CreatePost
  <2>2. /\ post'[p] = [match |-> m, status |-> "open", intent |-> None]
        /\ \A q \in PostIds \ {p} : post'[q] = post[q]
    BY <2>1 DEF IInv, TypeOK
  <2>3. post[p].intent = None /\ None # "open"
    BY <2>1 DEF IInv, RowsAgree, None
  <2>4. Verdict' = Verdict
    BY <2>2, <2>3, SameVerdicts
  <2>5. Window[p] = "unopened" /\ Window'[p] = "open" /\ \A q \in PostIds \ {p} : Window'[q] = Window[q]
    BY <2>1, <2>2, <2>3 DEF Window
  <2>6. Window' = [Window EXCEPT ![p] = "open"]
    BY <2>5, WindowMoves
  <2>7. Revoked' \in {Revoked, Revoked \cup {p}}
    <3>1. \A q \in PostIds \ {p} : q \in Revoked' <=> q \in Revoked
      BY <2>2 DEF Revoked
    <3>2. p \notin Revoked
      BY <2>1 DEF Revoked
    <3>3. Revoked \subseteq PostIds /\ Revoked' \subseteq PostIds
      BY DEF Revoked
    <3> QED
      BY <3>1, <3>2, <3>3
  <2>8. Promise!Open(p)
    BY <2>4, <2>5, <2>6, <2>7 DEF Promise!Open
  <2> QED
    BY <2>8
<1> QED
  BY <1>1, <1>2

\* A press is a stake, or its withdrawal.
LEMMA PressStakes ==
  ASSUME IInv, RowsGrow, NEW u \in Users, NEW p \in PostIds, NEW side \in Sides,
         PlaceBet(u, p, side) \/ CancelBet(u, p)
  PROVE  Promise!Stake(p, u, side) \/ Promise!Withdraw(p, u)
<1>1. post[p].status = "open" /\ UNCHANGED <<post, ledger, undone, decided>>
  BY DEF PlaceBet, CancelBet, AcceptsBets, matches, verdicts
<1>2. Window' = Window /\ Window[p] = "open"
  BY <1>1 DEF Window, None
<1>3. Verdict' = Verdict /\ Revoked' = Revoked
  BY <1>1, SameVerdicts, SameRevoked
<1>4. CASE PlaceBet(u, p, side)
  <2>1. Promise!Stake(p, u, side)
    BY <1>1, <1>2, <1>3, <1>4 DEF Promise!Stake, PlaceBet
  <2> QED
    BY <2>1
<1>5. CASE CancelBet(u, p)
  <2>1. Promise!Withdraw(p, u)
    BY <1>1, <1>2, <1>3, <1>5 DEF Promise!Withdraw, CancelBet, Promise!NoBet, NoBet
  <2> QED
    BY <2>1
<1> QED
  BY <1>4, <1>5

\* A claim that succeeds is the verdict; one that settles for another winner overrules it.
LEMMA ClaimDecides ==
  ASSUME IInv, RowsGrow, NEW a \in Actors, Claim(a)
  PROVE  \/ \E p \in PostIds, v \in Sides \cup {"refund"} : Promise!Decide(p, v) \/ Promise!Overrule(p, v)
         \/ UNCHANGED promised
<1> DEFINE p == task[a].post
           v == Verdict'[p]
<1>1. /\ UNCHANGED <<bet, ledger, result, undone>> /\ task[a].pc = "claim"
      /\ p \in PostIds /\ task[a].intent \in Intents /\ post[p].status # None
      /\ \A q \in PostIds \ {p} : decided'[q] = decided[q]
  BY DEF Claim, SettleFor, IInv, TypeOK, TaskAgrees, Task, matches, verdicts
<1>2. ASSUME ~Unclaimed(p), decided'[p] = decided[p]
      PROVE  UNCHANGED promised
  <2>1. post' = post /\ decided' = decided
    <3>1. decided = [q \in PostIds |-> decided[q]] /\ decided' = [q \in PostIds |-> decided'[q]]
      BY <1>1, StepClaim DEF IInv, TypeOK
    <3> QED
      BY <1>1, <1>2, <3>1 DEF Claim
  <2> QED
    BY <1>1, <2>1, Stutter
<1>3. ASSUME ~Unclaimed(p), decided'[p] # decided[p]
      PROVE  Promise!Overrule(p, v) \/ UNCHANGED promised
  <2>1. post' = post
    BY <1>3 DEF Claim
  <2>2. /\ decided'[p] = result[post[p].match] /\ decided'[p] \in Sides /\ post[p].intent = "settle"
    BY <1>1, <1>3, <2>1 DEF RowsGrow
  <2>3. decided[p] \in Sides /\ p \in Revoked
    BY <1>1, <1>3, <2>2 DEF IInv, RowsAgree, Revoked, Sides, None
  <2>4. Window' = Window /\ Revoked' = Revoked
    BY <1>1, <2>1 DEF Window, Revoked
  <2>5. \A q \in PostIds \ {p} : Verdict'[q] = Verdict[q]
    BY <1>1, <2>1, SameVerdict
  <2>6. Winners(bet[p], decided[p]) # {} <=> Winners(bet[p], decided'[p]) # {}
    BY <2>2, <2>3 DEF Winners, OneSided
  <2>7. CASE Winners(bet[p], decided[p]) = {}
    <3>1. Verdict'[p] = Verdict[p]
      BY <1>1, <2>1, <2>2, <2>6, <2>7 DEF Verdict, PaysOut, None
    <3>2. Verdict' = Verdict
      BY <2>5, <3>1 DEF Verdict
    <3> QED
      BY <1>1, <2>4, <3>2 DEF promised
  <2>8. CASE Winners(bet[p], decided[p]) # {}
    <3>1. Verdict[p] = decided[p] /\ v = decided'[p]
      BY <1>1, <2>1, <2>2, <2>6, <2>8 DEF Verdict, PaysOut, None
    <3>2. Verdict' = [Verdict EXCEPT ![p] = v]
      BY <1>1, <2>5, VerdictMoves
    <3>3. Promise!Overrule(p, v)
      BY <1>1, <2>2, <2>3, <2>4, <3>1, <3>2 DEF Promise!Overrule, Promise!Sides, Sides
    <3> QED
      BY <3>3
  <2> QED
    BY <2>7, <2>8
<1>4. CASE Unclaimed(p)
  <2>1. post' = [post EXCEPT ![p].status = "frozen", ![p].intent = task[a].intent]
    BY <1>4 DEF Claim
  <2>2. /\ post'[p].status = "frozen" /\ post'[p].intent = task[a].intent /\ post'[p].match = post[p].match
        /\ \A q \in PostIds \ {p} : post'[q] = post[q]
    BY <1>1, <2>1 DEF IInv, TypeOK, PostRow
  <2>3. post[p].status \in Live /\ post[p].intent = None
    BY <1>4 DEF Unclaimed
  <2>4. /\ Window[p] \in {"open", "closed"} /\ Window'[p] = "closed"
        /\ \A q \in PostIds \ {p} : Window'[q] = Window[q]
    BY <1>1, <2>2, <2>3 DEF Window, Live, None
  <2>5. Window' = [Window EXCEPT ![p] = "closed"]
    BY <1>1, <2>4, WindowMoves
  <2>6. Verdict[p] = "none" /\ \A q \in PostIds \ {p} : Verdict'[q] = Verdict[q]
    <3>1. Verdict[p] = "none"
      BY <1>1, <2>3 DEF Verdict, PaysOut, None
    <3>2. ASSUME NEW q \in PostIds \ {p} PROVE Verdict'[q] = Verdict[q]
      BY <1>1, <2>2, <3>2, SameVerdict
    <3> QED
      BY <3>1, <3>2
  <2>7. /\ v \in Sides \cup {"refund"}
        /\ v \in Sides => Winners(bet[p], v) # {}
    <3>1. task[a].intent = "settle" => decided'[p] \in Sides
      <4>1. task[a].intent = "settle" => task[a].winner \in Sides
        BY <1>1 DEF IInv, TaskAgrees
      <4> QED
        BY <1>1, <1>4, <4>1 DEF Claim, SettleFor, IInv, TypeOK
    <3> QED
      BY <1>1, <2>2, <3>1 DEF Verdict, PaysOut, Intents, None, Sides
  <2>8. Verdict' = [Verdict EXCEPT ![p] = v]
    BY <1>1, <2>6, VerdictMoves
  <2>9. Revoked' = Revoked
    <3>1. \A q \in PostIds : post'[q].match = post[q].match /\ (post'[q].status = None <=> post[q].status = None)
      BY <1>1, <2>2 DEF None
    <3> QED
      BY <1>1, <3>1, SameRevoked
  <2>10. Promise!Decide(p, v)
    BY <1>1, <2>4, <2>5, <2>6, <2>7, <2>8, <2>9, SameRules DEF Promise!Decide, Promise!Sides, Sides
  <2> QED
    BY <1>1, <2>7, <2>10
<1>5. Promise!Overrule(p, v) => v \in Sides \cup {"refund"}
  BY DEF Promise!Overrule, Promise!Sides, Sides
<1> QED
  BY <1>1, <1>2, <1>3, <1>4, <1>5

\* A credit that is not a repetition pays what the verdict owes.
LEMMA CreditPays ==
  ASSUME IInv, RowsGrow, NEW a \in Actors, NEW u \in Users, Credit(a, u)
  PROVE  (\E p \in PostIds : Promise!Pay(p, u)) \/ UNCHANGED promised
<1> DEFINE t == task[a]
           p == t.post
           b == bet[p]
           row == Owed(p, b, t.intent, t.winner, u)
<1>1. UNCHANGED <<post, bet, undone, decided>> /\ t.pc = "money" /\ u \in t.left
  BY DEF Credit, matches, verdicts
<1>2. /\ p \in PostIds /\ post[p].intent = t.intent /\ t.intent # None /\ t.snap = b
      /\ t.left \subseteq Payees(b, t.intent, t.winner)
      /\ t.intent = "settle" => t.winner = decided[p] /\ t.winner \in Sides
  BY <1>1, MoneyFacts
<1>3. ledger' = ledger \/ ledger' = ledger \cup {row}
  BY <1>2 DEF Credit, Insert
<1>4. CASE ledger' = ledger
  BY <1>1, <1>4, Stutter
<1>5. CASE ledger' = ledger \cup {row}
  <2>1. Window' = Window /\ Verdict' = Verdict /\ Revoked' = Revoked
    BY <1>1, SameVerdicts DEF Window, Revoked
  <2>2. /\ Verdict[p] # "none"
        /\ Verdict[p] \in Sides => /\ u \in Winners(b, Verdict[p])
                                    /\ row = [kind |-> "payout", post |-> p, user |-> u, amount |-> Share(b, Verdict[p], u)]
        /\ Verdict[p] \notin Sides => /\ u \in Bettors(b)
                                       /\ row = [kind |-> "refund", post |-> p, user |-> u, amount |-> b[u].stake]
    BY <1>1, <1>2 DEF Verdict, Payees, PaysOut, Owed, Sides
  <2>3. Promise!Payee(p, u) /\ Promise!Due(p, u) = row
    BY <1>2, <2>2, SameRules DEF Promise!Payee, Promise!Due, Promise!Sides, Sides
  <2>4. Promise!Pay(p, u)
    BY <1>1, <1>2, <1>5, <2>1, <2>2, <2>3 DEF Promise!Pay
  <2> QED
    BY <1>2, <2>4
<1> QED
  BY <1>3, <1>4, <1>5

\* The sweep closes a book.
LEMMA CloseCloses ==
  ASSUME IInv, RowsGrow, CloseBetting
  PROVE  (\E p \in PostIds : Promise!Close(p)) \/ UNCHANGED promised
<1> DEFINE p == task[Sweep].post
<1>1. UNCHANGED <<bet, ledger, undone, decided>> /\ task[Sweep].pc = "close"
  BY DEF CloseBetting, matches, verdicts
<1>2. p \in PostIds
  BY <1>1 DEF IInv, TaskAgrees, Actors
<1>3. CASE post' = post
  BY <1>1, <1>3, Stutter
<1>4. CASE post[p].status = "open" /\ post' = [post EXCEPT ![p].status = "frozen"]
  <2>1. /\ post'[p].status = "frozen" /\ post'[p].intent = post[p].intent /\ post'[p].match = post[p].match
        /\ \A q \in PostIds \ {p} : post'[q] = post[q]
    BY <1>2, <1>4 DEF IInv, TypeOK, PostRow
  <2>2. Window[p] = "open" /\ Window'[p] = "closed" /\ \A q \in PostIds \ {p} : Window'[q] = Window[q]
    BY <1>2, <1>4, <2>1 DEF Window, None
  <2>3. Window' = [Window EXCEPT ![p] = "closed"]
    BY <1>2, <2>2, WindowMoves
  <2>4. Verdict' = Verdict /\ Revoked' = Revoked
    BY <1>1, <1>4, <2>1, SameVerdicts, SameRevoked DEF None
  <2>5. Promise!Close(p)
    BY <1>1, <2>2, <2>3, <2>4 DEF Promise!Close
  <2> QED
    BY <1>2, <2>5
<1> QED
  BY <1>3, <1>4 DEF CloseBetting

\* The status that ends a settlement, and one written over it, change nothing of the promise.
LEMMA StatusStutters ==
  ASSUME IInv, RowsGrow, Freeze \/ \E a \in Actors : Finish(a)
  PROVE  UNCHANGED promised
<1>1. \E p \in PostIds, status \in Terminal \cup {"frozen"} :
        post[p].status \notin {None, "open"} /\ post' = [post EXCEPT ![p].status = status]
  <2>1. CASE Freeze
    <3>1. task[Sweep].post \in PostIds /\ post[task[Sweep].post].status \notin {None, "open"}
      BY <2>1 DEF IInv, TaskAgrees, Actors, Freeze
    <3> QED
      BY <2>1, <3>1 DEF Freeze
  <2>2. ASSUME NEW a \in Actors, Finish(a)
        PROVE  \E p \in PostIds, status \in Terminal \cup {"frozen"} :
                 post[p].status \notin {None, "open"} /\ post' = [post EXCEPT ![p].status = status]
    <3>1. task[a].post \in PostIds /\ post[task[a].post].intent # None
      BY <2>2 DEF IInv, TaskAgrees, Finish
    <3>2. post[task[a].post].status \notin {None, "open"}
      BY <3>1 DEF IInv, RowsAgree
    <3>3. Outcome(task[a].snap, task[a].intent, task[a].winner) \in Terminal
      BY DEF Outcome, Terminal
    <3> QED
      BY <2>2, <3>1, <3>2, <3>3 DEF Finish
  <2> QED
    BY <2>1, <2>2
<1>2. PICK p \in PostIds, status \in Terminal \cup {"frozen"} :
        post[p].status \notin {None, "open"} /\ post' = [post EXCEPT ![p].status = status]
  BY <1>1
<1>3. /\ post'[p].status = status /\ post'[p].intent = post[p].intent /\ post'[p].match = post[p].match
      /\ \A q \in PostIds \ {p} : post'[q] = post[q]
  BY <1>2 DEF IInv, TypeOK, PostRow
<1>4. status \notin {None, "open"}
  BY DEF Terminal, None
<1>5. UNCHANGED <<bet, ledger, undone, decided>>
  BY DEF Freeze, Finish, matches, verdicts
<1> QED
  BY <1>2, <1>3, <1>4, <1>5, Stutter

\* Every other step is none of the promise's business.
LEMMA OthersStutter ==
  ASSUME IInv, RowsGrow, UNCHANGED <<post, bet, ledger, undone, decided>>
  PROVE  UNCHANGED promised
  BY Stutter

\* An undone result revokes the books of its match.
LEMMA UndoRevokes ==
  ASSUME IInv, RowsGrow, NEW m \in Matches, UndoMatch(m)
  PROVE  Promise!Revoke
<1>1. UNCHANGED <<post, bet, ledger, decided>> /\ undone' = undone \cup {m}
  BY DEF UndoMatch, verdicts
<1>2. Window' = Window /\ Verdict' = Verdict
  BY <1>1, SameVerdicts DEF Window
<1>3. Revoked' = Revoked \cup {p \in PostIds : post[p].status # None /\ post[p].match = m}
  BY <1>1 DEF Revoked
<1> QED
  BY <1>1, <1>2, <1>3 DEF Promise!Revoke

\* One step of a match, and one of the sweep.
LEMMA MatchStep ==
  ASSUME IInv, RowsGrow, NEW m \in Matches, MatchEvent(m) \/ MatchTask(m)
  PROVE  [Promise!Next]_promised
<1>1. CASE GoLive(m) \/ Launch(m) \/ Cancel(m) \/ RosterChange(m) \/ (\E w \in Sides \cup {"draw"} : Report(m, w))
           \/ Find(m) \/ ReadBets(m)
  BY <1>1, OthersStutter
     DEF GoLive, Launch, Cancel, RosterChange, Report, Find, ReadBets, rows, matches, verdicts
<1>2. CASE OpenForMatch(m) \/ Reopen(m)
  BY <1>2, CreateOpens DEF OpenForMatch, Reopen, Promise!Next, Promise!Step, matches, verdicts
<1>3. CASE UndoMatch(m)
  <2>1. Promise!Revoke
    BY <1>3, UndoRevokes
  <2> QED
    BY <2>1 DEF Promise!Next
<1>4. m \in Actors
  BY DEF Actors
<1>5. CASE Claim(m) \/ (\E u \in Users : Credit(m, u)) \/ Finish(m)
  BY <1>4, <1>5, ClaimDecides, CreditPays, StatusStutters DEF Promise!Next, Promise!Step, Promise!Sides, Sides
<1> QED
  BY <1>1, <1>2, <1>3, <1>5 DEF MatchEvent, MatchTask, Settle

LEMMA SweepStep ==
  ASSUME IInv, RowsGrow, SweepTask
  PROVE  [Promise!Next]_promised
<1>1. Sweep \in Actors
  BY DEF Actors
<1>2. CASE Claim(Sweep) \/ (\E u \in Users : Credit(Sweep, u)) \/ Finish(Sweep) \/ Freeze
  BY <1>1, <1>2, ClaimDecides, CreditPays, StatusStutters DEF Promise!Next, Promise!Step, Promise!Sides, Sides
<1>3. CASE CloseBetting
  BY <1>3, CloseCloses DEF Promise!Next, Promise!Step
<1>4. CASE \/ ReadBets(Sweep) \/ SweepStart \/ SweepUnsettled \/ SweepAbandoned \/ SweepEnd
           \/ SweepNext \/ ReadPools
  BY <1>4, OthersStutter
     DEF ReadBets, SweepStart, SweepUnsettled, SweepAbandoned, SweepEnd, SweepNext, ReadPools, rows, matches, verdicts
<1> QED
  BY <1>2, <1>3, <1>4 DEF SweepTask, Settle

\* Each step of the tasks is a step of the promise, or none.
LEMMA StepPromised ==
  ASSUME IInv, [Next]_vars
  PROVE  [Promise!Next]_promised
<1>1. RowsGrow
  BY NextStep
<1>2. CASE \E m \in Matches : MatchEvent(m) \/ MatchTask(m)
  BY <1>1, <1>2, MatchStep
<1>3. CASE \E u \in Users : Press(u)
  <2>1. PICK u \in Users, p \in PostIds, side \in Sides : CancelBet(u, p) \/ PlaceBet(u, p, side)
    BY <1>3 DEF Press, Sides
  <2> QED
    BY <1>1, <2>1, PressStakes DEF Promise!Next, Promise!Step, Promise!Sides, Sides
<1>4. CASE SweepTask
  BY <1>1, <1>4, SweepStep
<1>5. CASE SweepFail \/ Crash \/ (\E a \in Actors : Fail(a) \/ NoCommunity(a)) \/ UNCHANGED vars
  BY <1>1, <1>5, OthersStutter DEF SweepFail, Crash, Fail, NoCommunity, vars, rows, matches, verdicts
<1> QED
  BY <1>2, <1>3, <1>4, <1>5 DEF Next

\* The tasks, interleaved, failing and retried as they are, implement the promise.
THEOREM PromiseKept == Spec => KeepsPromise
<1>1. Init => Promise!Init
  BY DEF Init, Promise!Init, Window, Verdict, PaysOut, Revoked, EmptyBook, NoBet, Promise!NoBet, None
<1>2. IInv /\ [Next]_vars => [Promise!Next]_promised
  BY StepPromised
<1> QED
  BY Inductive, <1>1, <1>2, PTL DEF Spec, KeepsPromise, Promise!Spec, promised
=============================================================================
