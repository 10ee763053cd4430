---------------------------- MODULE DerivedProofs ---------------------------
(***************************************************************************)
(* TLAPS proofs about what is derived: about Refresh, and after it about   *)
(* Ingest, whose facts it counts.                                          *)
(*                                                                         *)
(* Refresh, for any users, profiles, boards and bounds: no stale rollup    *)
(* goes unnoticed, and no stale board.  What the comparison of stamps sees *)
(* is carried along with what the job has read: whenever a count of a      *)
(* user's games differs from what is due to him, some stamp that the       *)
(* comparison looks at is not older than the count, be the count stored or *)
(* still in the hands of the job.  The rows of a board are followed the    *)
(* same way; that a rollup is then rebuilt in a later second is what makes *)
(* the boards, which look at the rollups alone, notice.                    *)
(*                                                                         *)
(* Ingest, for any replays, labels and bounds: a replay that is done has   *)
(* its rows, and a classification is lost only from the hands of a         *)
(* reconciler that fails.  Whatever the tables, the job and the reconciler *)
(* hold of a classification is all of it, and what the reconciler holds it *)
(* has not given up on.                                                    *)
(***************************************************************************)
EXTENDS Refresh, Ingest, FiniteSetTheorems, WellFoundedInduction, TLAPS

\* Counters of the inputs stay within their bound.
InputsCounted == picks.n <= edits /\ \A p \in Profiles : games[p].n <= edits + 1

Mine(u, p) == owner[p] = u \/ <<p, u>> \in claims

\* A stamp of u's p that is not older than time.
Evidence(u, p, time) ==
  \/ owner[p] = u /\ games[p].n > 0 /\ games[p].at >= time
  \/ Mine(u, p) /\ bound[p] >= time

\* A count of p for u, taken by a pass that began at time.
Watched(u, p, count, time) ==
  <<p, u>> \notin unseen =>
    /\ count # Due(u, p) /\ p \notin late => Evidence(u, p, time)
    /\ count # 0 => Mine(u, p)

RollupsWatched == \A u \in Users, p \in Profiles : Stored(u) => Watched(u, p, rollup[u].seen[p], rollup[u].at)
WriteWatched == At("write") => \A p \in Profiles : Watched(job.user, p, job.seen[p], job.time)
StatsWatched ==
  At("stats") => \A p \in Profiles : <<p, job.user>> \notin unseen =>
    /\ p \in job.profiles => Mine(job.user, p)
    /\ (p \in job.profiles) # (owner[p] = job.user) /\ p \notin late
         => Mine(job.user, p) /\ bound[p] >= job.time
Clocks ==
  /\ \A u \in Users : rollup[u].at <= now
  /\ job.time <= now
  /\ ~At("idle") => job.time \in Times
  /\ job.at \in {"stats", "write"} => job.user \in Users

\* Whom a link is to displace is in the conflicts by then.
LinksNoted == \A l \in links : l.noted => <<l.profile, l.saw>> \in claims

IInv ==
  TypeOK /\ InputsCounted /\ LinksNoted /\ Clocks /\ RollupsWatched /\ StatsWatched /\ WriteWatched

----------------------------------------------------------------------------
\* The inputs.

\* Whose share of p a step changes without a sign.
Silent(p) == {owner[p], owner'[p]} \ {Nobody} \subseteq {u \in Users : <<p, u>> \in unseen'} /\ owner'[p] # Nobody

\* What a change of the inputs does to one profile, unless it comes late.
Timely(p) ==
  /\ owner'[p] # owner[p] => bound'[p] = now \/ Silent(p)
  /\ bound'[p] # bound[p] => bound'[p] = now
  /\ games'[p] # games[p] => games'[p].n > 0 /\ games'[p].at = now
Recorded(p) == owner'[p] # owner[p] /\ owner[p] # Nobody => <<p, owner[p]>> \in claims' \cup unseen'

InputStep ==
  /\ claims \subseteq claims' /\ late \subseteq late' /\ unseen \subseteq unseen'
  /\ \A p \in Profiles : Recorded(p) /\ (p \notin late' => Timely(p))
  /\ UNCHANGED <<now, stored, aged, job, tried, faults>>

\* Whoever loses a profile is recorded, and every other stamp is of this second or late.
LEMMA MovedStep ==
  ASSUME TypeOK, NEW lost \in SUBSET Profiles, NEW to \in [Profiles -> Owners],
         NEW time \in Times, Stamped(time, lost), Moved(lost, to, time),
         UNCHANGED <<games, picks>>, OnlyRows, OnlyInputs, Edit
  PROVE  InputStep /\ TypeOK'
<1>1. \A p \in Profiles : owner'[p] = (IF p \in lost THEN to[p] ELSE owner[p])
                       /\ bound'[p] = (IF p \in lost THEN time ELSE bound[p])
  BY DEF Moved
<1>2. \A p \in lost : p \notin late' => time = now
  BY DEF Stamped, TypeOK, Times
<1>3. \A p \in Profiles : Recorded(p)
  BY <1>1 DEF Recorded, Moved
<1>4. \A p \in Profiles : p \notin late' => Timely(p)
  BY <1>1, <1>2 DEF Timely
<1>5. InputStep
  BY <1>3, <1>4 DEF InputStep, OnlyInputs, OnlyRows, Moved, Stamped
<1>6. owner' \in [Profiles -> Owners] /\ bound' \in [Profiles -> Times]
  BY DEF Moved, TypeOK
<1>7. claims' \subseteq Profiles \X Users
  BY DEF Moved, TypeOK, Owners
<1>8. late' \subseteq Profiles \cup {Picks} /\ edits' \in 0..MaxEdits
  BY BoundsAssumption DEF Stamped, Edit, TypeOK
<1> QED
  BY <1>5, <1>6, <1>7, <1>8 DEF OnlyInputs, OnlyRows, TypeOK, stored

LEMMA WriteGamesStep ==
  ASSUME TypeOK, InputsCounted, NEW p \in Profiles, WriteGames(p)
  PROVE  InputStep /\ TypeOK' /\ InputsCounted'
<1>1. PICK time \in Times :
        Stamped(time, {p}) /\ games' = [games EXCEPT ![p] = [n |-> @.n + 1, at |-> time]]
  BY DEF WriteGames
<1>2. games[p].n \in Nat /\ games[p].n + 1 \in Versions /\ edits' = edits + 1 /\ edits \in Nat
  BY BoundsAssumption DEF WriteGames, Edit, TypeOK, InputsCounted, Versions
<1>3. \A q \in Profiles : games'[q] = IF q = p THEN [n |-> games[p].n + 1, at |-> time] ELSE games[q]
  BY <1>1 DEF TypeOK
<1>4. games' \in [Profiles -> [n : Versions, at : Times]]
  BY <1>1, <1>2 DEF TypeOK
<1>5. time = now \/ p \in late'
  BY <1>1 DEF Stamped, TypeOK, Times
<1>6. InputStep
  BY <1>1, <1>2, <1>3, <1>5 DEF InputStep, WriteGames, OnlyInputs, OnlyRows, Recorded, Timely, Stamped
<1>7. late' \subseteq Profiles \cup {Picks} /\ edits' \in 0..MaxEdits
  BY <1>1, BoundsAssumption DEF WriteGames, Stamped, Edit, TypeOK
<1>8. InputsCounted'
  BY <1>2, <1>3 DEF WriteGames, InputsCounted, TypeOK, Versions
<1> QED
  BY <1>4, <1>6, <1>7, <1>8 DEF WriteGames, OnlyInputs, OnlyRows, TypeOK, stored

LEMMA RecordPicksStep ==
  ASSUME TypeOK, InputsCounted, RecordPicks
  PROVE  InputStep /\ TypeOK' /\ InputsCounted'
<1>1. PICK time \in Times : Stamped(time, {Picks}) /\ picks' = [n |-> picks.n + 1, at |-> time]
  BY DEF RecordPicks
<1>2. edits' = edits + 1 /\ edits \in Nat /\ picks.n \in Nat /\ picks.n + 1 \in Versions /\ edits' \in 0..MaxEdits
  BY BoundsAssumption DEF RecordPicks, Edit, TypeOK, InputsCounted, Versions
<1>3. InputStep
  BY <1>1 DEF InputStep, RecordPicks, OnlyInputs, OnlyRows, Recorded, Timely, Stamped
<1>4. late' \subseteq Profiles \cup {Picks} /\ picks' \in [n : Versions, at : Times]
  BY <1>1, <1>2 DEF Stamped, TypeOK
<1>5. InputsCounted'
  BY <1>1, <1>2 DEF RecordPicks, InputsCounted, TypeOK, Versions
<1> QED
  BY <1>2, <1>3, <1>4, <1>5 DEF RecordPicks, OnlyInputs, OnlyRows, TypeOK, stored

\* The moves of profiles in one transaction.
LEMMA MoveSteps ==
  ASSUME TypeOK, InputsCounted, NEW p \in Profiles,
         Unlink(p) \/ \E u \in Users, additional \in BOOLEAN : Relink(p, u, additional)
  PROVE  InputStep /\ TypeOK' /\ InputsCounted'
<1>0. Edit /\ UNCHANGED <<games, picks>> /\ OnlyRows /\ OnlyInputs
  BY DEF Unlink, Relink
<1>1. InputsCounted'
  BY <1>0, BoundsAssumption DEF Edit, InputsCounted, TypeOK, Versions
<1>2. CASE Unlink(p)
  <2>1. PICK time \in Times : Stamped(time, {p}) /\ Moved({p}, [q \in Profiles |-> Nobody], time)
    BY <1>2 DEF Unlink
  <2>2. [q \in Profiles |-> Nobody] \in [Profiles -> Owners]
    BY DEF Owners
  <2> QED
    BY <1>0, <1>1, <2>1, <2>2, MovedStep
<1>3. ASSUME NEW u \in Users, NEW additional \in BOOLEAN, Relink(p, u, additional)
      PROVE  InputStep /\ TypeOK'
  <2> DEFINE others == {q \in Profiles \ {p} : owner[q] = u /\ ~additional}
             lost == others \cup (IF owner[p] = u THEN {} ELSE {p})
             to == [q \in Profiles |-> IF q = p THEN u ELSE Nobody]
  <2>1. PICK time \in Times : Stamped(time, lost) /\ Moved(lost, to, time)
    BY <1>3 DEF Relink
  <2>2. to \in [Profiles -> Owners] /\ lost \in SUBSET Profiles
    BY DEF Owners
  <2> HIDE DEF lost, to
  <2> QED
    BY <1>0, <2>1, <2>2, MovedStep
<1> QED
  BY <1>1, <1>2, <1>3

\* A link that only looked, was refused, or noted whom it displaces, moves nothing.
LEMMA NotedSteps ==
  ASSUME TypeOK, InputsCounted, LinksNoted,
         \/ \E p \in Profiles, u \in Users : Look(p, u)
         \/ \E l \in links : Refuse(l) \/ Note(l)
  PROVE  InputStep /\ TypeOK' /\ InputsCounted' /\ LinksNoted'
<1>0. links \subseteq Link /\ claims \subseteq Profiles \X Users /\ edits \in 0..MaxEdits /\ now \in Times
  BY DEF TypeOK
<1>1. ASSUME NEW p \in Profiles, NEW u \in Users, Look(p, u)
      PROVE  InputStep /\ TypeOK' /\ InputsCounted' /\ LinksNoted'
  <2>1. PICK instant \in 0..now :
          links' = links \cup {[user |-> u, profile |-> p, saw |-> owner[p], time |-> instant, noted |-> FALSE]}
    BY <1>1 DEF Look
  <2>2. owner[p] \in Owners /\ instant \in Times
    BY <1>0, BoundsAssumption DEF TypeOK, Times
  <2>3. links' \subseteq Link
    <3>1. [user |-> u, profile |-> p, saw |-> owner[p], time |-> instant, noted |-> FALSE] \in Link
      BY <2>2 DEF Link
    <3> QED
      BY <1>0, <2>1, <3>1
  <2>4. UNCHANGED <<inputs, history, stored, now, aged, job, tried, faults>> /\ edits' = edits + 1 /\ edits' \in 0..MaxEdits
    BY <1>0, <1>1, BoundsAssumption DEF Look, Edit, OnlyInputs
  <2>5. InputStep
    BY <2>4 DEF inputs, history, InputStep, Recorded, Timely
  <2>6. LinksNoted'
    BY <2>1, <2>4 DEF LinksNoted, inputs
  <2>7. InputsCounted'
    BY <1>0, <2>4, BoundsAssumption DEF inputs, InputsCounted, TypeOK, Versions
  <2> QED
    BY <2>3, <2>4, <2>5, <2>6, <2>7 DEF TypeOK, inputs, history, stored
<1>2. ASSUME NEW l \in links, Refuse(l) \/ Note(l)
      PROVE  InputStep /\ TypeOK' /\ InputsCounted' /\ LinksNoted'
  <2>1. l \in Link /\ l.profile \in Profiles /\ l.user \in Users /\ (Rival(l) => l.saw \in Users)
    BY <1>0 DEF Link, Rival, Owners
  <2>2. UNCHANGED <<owner, bound, games, picks, history, stored, now, aged, job, tried, faults, edits>>
    BY <1>2 DEF Refuse, Note, OnlyInputs
  <2>3. claims \subseteq claims' /\ claims' \subseteq Profiles \X Users
    BY <1>0, <1>2, <2>1 DEF Refuse, Note
  <2>4. InputStep
    BY <2>2, <2>3 DEF history, InputStep, Recorded, Timely
  <2>5. [l EXCEPT !.noted = TRUE] \in Link /\ [l EXCEPT !.noted = TRUE].profile = l.profile
        /\ [l EXCEPT !.noted = TRUE].saw = l.saw
    BY <2>1 DEF Link
  <2>6. links' \subseteq Link
    BY <1>0, <1>2, <2>5 DEF Refuse, Note
  <2>7. LinksNoted'
    <3>1. CASE Refuse(l)
      BY <2>3, <3>1 DEF LinksNoted, Refuse
    <3>2. CASE Note(l)
      BY <2>3, <2>5, <3>2 DEF LinksNoted, Note
    <3> QED
      BY <1>2, <3>1, <3>2
  <2>8. InputsCounted'
    BY <2>2 DEF InputsCounted
  <2> QED
    BY <2>2, <2>3, <2>4, <2>6, <2>7, <2>8 DEF TypeOK, history, stored
<1> QED
  BY <1>1, <1>2

\* A link that goes through moves its profile from an owner who is recorded, or without a sign.
LEMMA StoreStep ==
  ASSUME TypeOK, InputsCounted, LinksNoted, NEW l \in links, Store(l)
  PROVE  InputStep /\ TypeOK' /\ InputsCounted' /\ LinksNoted'
<1> DEFINE p == l.profile
<1>1. p \in Profiles /\ l.user \in Users /\ l.saw \in Owners /\ l.time \in Times /\ l.user # Nobody /\ owner[p] \in Owners
  BY OwnersAssumption DEF TypeOK, Link
<1>2. UNCHANGED <<claims, games, picks, edits, stored, now, aged, job, tried, faults>> /\ links' \subseteq links
  BY DEF Store, OnlyInputs
<1>3. \A q \in Profiles : owner'[q] = IF q = p THEN l.user ELSE owner[q]
  BY DEF Store, TypeOK
<1>4. unseen' = unseen \cup Missed(l) /\ late \subseteq late'
  BY DEF Store, Stamped
<1>5. Missed(l) \subseteq Profiles \X Users
  <2> DEFINE other == owner[p]
             missed == IF other \in {l.saw, l.user} THEN {}
                       ELSE IF l.saw = l.user THEN {other, l.user}
                       ELSE {other} \ {u \in Users : <<p, u>> \in claims}
  <2>1. missed \ {Nobody} \subseteq Users
    BY <1>1 DEF Owners
  <2>2. Missed(l) = {<<p, u>> : u \in missed \ {Nobody}}
    BY DEF Missed
  <2> HIDE DEF missed
  <2> QED
    BY <1>1, <2>1, <2>2
<1>6. ASSUME owner[p] # l.user, owner[p] # Nobody
      PROVE  <<p, owner[p]>> \in claims' \cup unseen'
  <2>1. CASE owner[p] = l.saw
    BY <1>2, <1>6, <2>1 DEF Store, Rival, LinksNoted
  <2>2. CASE owner[p] # l.saw
    BY <1>1, <1>2, <1>4, <1>6, <2>2 DEF Missed, Owners
  <2> QED
    BY <2>1, <2>2
<1>7. ASSUME l.saw = l.user, owner[p] # l.user
      PROVE  Silent(p)
  <2>1. <<p, l.user>> \in unseen' /\ (owner[p] # Nobody => <<p, owner[p]>> \in unseen')
    BY <1>1, <1>4, <1>7 DEF Missed, Owners
  <2> QED
    BY <1>1, <1>3, <2>1 DEF Silent, Owners
<1>8. \A q \in Profiles : bound'[q] = IF q = p /\ l.saw # l.user THEN l.time ELSE bound[q]
  BY DEF Store, TypeOK
<1>9. l.saw # l.user /\ p \notin late' => l.time = now
  <2>1. l.saw # l.user => Stamped(l.time, {p})
    BY DEF Store
  <2>2. l.time \in Int /\ now \in Int
    BY <1>1 DEF TypeOK, Times
  <2>3. ASSUME l.saw # l.user, p \notin late' PROVE ~(l.time < now) /\ l.time \in 0..now
    BY <2>1, <2>3 DEF Stamped
  <2> QED
    BY <2>2, <2>3
<1>10. InputStep
  <2>1. ASSUME NEW q \in Profiles PROVE Recorded(q) /\ (q \notin late' => Timely(q))
    <3>1. CASE q # p
      BY <1>2, <1>3, <1>8, <3>1 DEF Recorded, Timely
    <3>2. CASE q = p
      BY <1>2, <1>3, <1>6, <1>7, <1>8, <1>9, <3>2 DEF Recorded, Timely
    <3> QED
      BY <3>1, <3>2
  <2> QED
    BY <1>2, <1>4, <2>1 DEF InputStep
<1>11. owner' \in [Profiles -> Owners] /\ bound' \in [Profiles -> Times]
  BY <1>1 DEF Store, TypeOK, Owners
<1>12. late' \subseteq Profiles \cup {Picks} /\ unseen' \subseteq Profiles \X Users
  BY <1>1, <1>4, <1>5 DEF Store, Stamped, TypeOK
<1>13. InputsCounted' /\ LinksNoted'
  BY <1>2 DEF InputsCounted, LinksNoted
<1> QED
  BY <1>2, <1>10, <1>11, <1>12, <1>13 DEF TypeOK, stored

\* A count that was watched is watched after the inputs change.
LEMMA WatchedStays ==
  ASSUME TypeOK, TypeOK', InputStep, NEW u \in Users, NEW p \in Profiles,
         NEW count \in Versions, NEW time \in Times, time <= now, Watched(u, p, count, time)
  PROVE  Watched(u, p, count, time)'
<1>1. now \in Int /\ time \in Int /\ bound[p] \in Int /\ bound'[p] \in Int
      /\ games[p].at \in Int /\ games'[p].at \in Int /\ games[p].n \in Nat /\ games'[p].n \in Nat
  BY DEF TypeOK, Times, Versions
<1> SUFFICES ASSUME <<p, u>> \notin unseen'
             PROVE  /\ count # Due(u, p)' /\ p \notin late' => Evidence(u, p, time)'
                    /\ count # 0 => Mine(u, p)'
  BY DEF Watched
<1>0. <<p, u>> \notin unseen
  BY DEF InputStep
<1>2. Mine(u, p) => Mine(u, p)'
  BY OwnersAssumption DEF InputStep, Recorded, Mine
<1>3. ASSUME p \notin late', count # Due(u, p)'
      PROVE  Evidence(u, p, time)'
  <2>0. Timely(p) /\ p \notin late
    BY <1>3 DEF InputStep
  <2>1. CASE bound'[p] # bound[p] /\ Mine(u, p)'
    BY <1>1, <2>0, <2>1 DEF Timely, Evidence, Mine
  <2>2. CASE bound'[p] # bound[p] /\ ~Mine(u, p)'
    <3>1. ~Mine(u, p) /\ count = 0
      BY <1>0, <1>2, <2>2 DEF Watched
    <3>2. Due(u, p)' = 0
      BY <2>2 DEF Due, Mine
    <3> QED
      BY <1>3, <3>1, <3>2
  <2>3. CASE bound'[p] = bound[p] /\ (owner'[p] = u) = (owner[p] = u)
    <3>1. CASE games'[p] = games[p]
      <4>1. count # Due(u, p)
        BY <1>3, <2>3, <3>1 DEF Due
      <4> QED
        BY <1>0, <1>2, <2>0, <2>3, <3>1, <4>1 DEF Watched, Evidence
    <3>2. CASE games'[p] # games[p] /\ owner[p] = u
      BY <1>1, <2>0, <2>3, <3>2 DEF Timely, Evidence
    <3>3. CASE owner[p] # u
      <4>1. count # Due(u, p)
        BY <1>3, <2>3, <3>3 DEF Due
      <4> QED
        BY <1>0, <1>2, <2>0, <2>3, <3>3, <4>1 DEF Watched, Evidence
    <3> QED
      BY <3>1, <3>2, <3>3
  <2>4. CASE bound'[p] = bound[p] /\ (owner'[p] = u) # (owner[p] = u)
    <3>1. bound'[p] = now
      <4>1. u \in {owner[p], owner'[p]} \ {Nobody} /\ owner'[p] # owner[p]
        BY <2>4, OwnersAssumption
      <4> QED
        BY <2>0, <4>1 DEF Timely, Silent
    <3>2. CASE Mine(u, p)'
      BY <1>1, <3>1, <3>2 DEF Evidence, Mine
    <3>3. CASE ~Mine(u, p)'
      BY <1>0, <1>2, <1>3, <3>3 DEF Watched, Due, Mine
    <3> QED
      BY <3>2, <3>3
  <2> QED
    BY <2>1, <2>2, <2>3, <2>4
<1> QED
  BY <1>0, <1>2, <1>3 DEF Watched

\* Nothing of the job moves when the inputs do.
LEMMA InputsKeep ==
  ASSUME IInv, TypeOK', InputStep
  PROVE  (Clocks /\ RollupsWatched /\ StatsWatched /\ WriteWatched)'
<1>0. UNCHANGED <<now, rollup, job>>
  BY DEF InputStep, stored
<1>1. Clocks'
  BY <1>0 DEF IInv, Clocks, At
<1>2. ASSUME NEW u \in Users, NEW p \in Profiles, Stored(u)'
      PROVE  Watched(u, p, rollup[u].seen[p], rollup[u].at)'
  <2>1. PICK count \in Versions : count = rollup[u].seen[p]
    BY DEF IInv, TypeOK
  <2>2. PICK time \in Times : time = rollup[u].at
    BY <1>0, <1>2 DEF IInv, TypeOK, Stored
  <2>3. Watched(u, p, count, time) /\ time <= now
    BY <1>0, <1>2, <2>1, <2>2 DEF IInv, RollupsWatched, Clocks, Stored
  <2>4. Watched(u, p, count, time)'
    BY <2>3, WatchedStays DEF IInv
  <2> QED
    BY <1>0, <2>1, <2>2, <2>4
<1>3. WriteWatched'
  <2> SUFFICES ASSUME At("write"), NEW p \in Profiles
               PROVE  Watched(job.user, p, job.seen[p], job.time)'
    BY <1>0 DEF WriteWatched, At
  <2>1. PICK u \in Users : u = job.user
    BY DEF IInv, Clocks, At
  <2>2. PICK count \in Versions : count = job.seen[p]
    BY DEF IInv, TypeOK, Jobs
  <2>3. PICK time \in Times : time = job.time
    BY DEF IInv, Clocks, At
  <2>4. Watched(u, p, count, time)'
    BY <2>1, <2>2, <2>3, WatchedStays DEF IInv, WriteWatched, Clocks
  <2> QED
    BY <1>0, <2>1, <2>2, <2>3, <2>4
<1>4. StatsWatched'
  <2> SUFFICES ASSUME At("stats"), NEW p \in Profiles, <<p, job.user>> \notin unseen'
               PROVE  /\ p \in job.profiles => Mine(job.user, p)'
                      /\ (p \in job.profiles) # (owner'[p] = job.user) /\ p \notin late'
                           => Mine(job.user, p)' /\ bound'[p] >= job.time
    BY <1>0 DEF StatsWatched, At
  <2>1. job.user \in Users /\ job.time \in Times /\ job.time <= now /\ now \in Int /\ bound[p] \in Int
    BY DEF IInv, Clocks, At, TypeOK, Times
  <2>0. <<p, job.user>> \notin unseen
    BY DEF InputStep
  <2>2. Mine(job.user, p) => Mine(job.user, p)'
    BY <2>1, OwnersAssumption DEF InputStep, Recorded, Mine
  <2>3. p \in job.profiles => Mine(job.user, p)
    BY <2>0 DEF IInv, StatsWatched
  <2>4. ASSUME (p \in job.profiles) # (owner'[p] = job.user), p \notin late'
        PROVE  Mine(job.user, p)' /\ bound'[p] >= job.time
    <3>0. Timely(p) /\ p \notin late
      BY <2>4 DEF InputStep
    <3>1. CASE (owner'[p] = job.user) = (owner[p] = job.user)
      <4>1. Mine(job.user, p) /\ bound[p] >= job.time
        BY <2>0, <2>4, <3>0, <3>1 DEF IInv, StatsWatched
      <4> QED
        BY <2>1, <2>2, <3>0, <4>1 DEF Timely
    <3>2. CASE (owner'[p] = job.user) # (owner[p] = job.user)
      <4>0. job.user \in {owner[p], owner'[p]} \ {Nobody} /\ owner'[p] # owner[p]
        BY <2>1, <3>2, OwnersAssumption
      <4>1. bound'[p] >= job.time
        BY <2>1, <3>0, <4>0 DEF Timely, Silent
      <4>2. owner'[p] = job.user \/ p \in job.profiles
        BY <2>4
      <4>3. Mine(job.user, p)'
        BY <1>0, <2>2, <2>3, <4>2 DEF Mine
      <4> QED
        BY <4>1, <4>3
    <3> QED
      BY <3>1, <3>2
  <2> QED
    BY <2>2, <2>3, <2>4
<1> QED
  BY <1>0, <1>1, <1>2, <1>3, <1>4 DEF RollupsWatched, Stored

----------------------------------------------------------------------------
\* The job.

\* What a step of the job leaves in its hands.
LEMMA HandTypes == Zero \in [Profiles -> Versions] /\ Blank \in [Profiles -> Owners \X Versions] /\ Idle \in Jobs
<1>1. Zero \in [Profiles -> Versions] /\ Blank \in [Profiles -> Owners \X Versions]
  BY BoundsAssumption DEF Zero, Blank, Versions, Owners
<1>2. Nobody \in Owners /\ "idle" \in Steps
  BY DEF Owners, Steps
<1> QED
  BY <1>1, <1>2 DEF Idle, Jobs

LEMMA HandKeeps ==
  ASSUME job \in Jobs
  PROVE  Done \in Jobs /\ NextUser \in Jobs
<1>1. Done \in Jobs
  BY HandTypes DEF Done, Jobs
<1>2. Nobody \in Owners /\ "batch" \in Steps
  BY DEF Owners, Steps
<1> QED
  BY <1>1, <1>2, HandTypes DEF NextUser, Jobs

LEMMA StepTypes ==
  ASSUME TypeOK, Job \/ Fail \/ Restart
  PROVE  job' \in Jobs
<1>0. job \in Jobs /\ now \in Times /\ games \in [Profiles -> [n : Versions, at : Times]] /\ owner \in [Profiles -> Owners]
  BY DEF TypeOK
<1>1. {"list", "batch", "stats", "write", "communities", "sources", "boards", "civs"} \subseteq Steps
  BY DEF Steps
<1>2. CASE Start
  BY <1>0, <1>1, <1>2, HandTypes DEF Start, Jobs
<1>3. CASE List
  <2>1. PICK batch \in SUBSET Attemptable :
          job' = [job EXCEPT !.at = IF batch = {} THEN "communities" ELSE "batch", !.left = batch]
    BY <1>3 DEF List
  <2>2. batch \subseteq Users
    BY DEF Attemptable
  <2> QED
    BY <1>0, <1>1, <2>1, <2>2 DEF Jobs
<1>4. CASE ReadProfiles
  <2>1. CASE job' = Done
    BY <1>0, <2>1, HandKeeps
  <2>2. ASSUME NEW u \in Users,
               job' = [job EXCEPT !.at = "stats", !.left = @ \ {u}, !.user = u, !.profiles = Owned(u)]
        PROVE  job' \in Jobs
    <3>1. u \in Owners /\ Owned(u) \in SUBSET Profiles /\ job.left \ {u} \in SUBSET Users
      BY <1>0 DEF Owners, Owned, Jobs
    <3> QED
      BY <1>0, <1>1, <2>2, <3>1 DEF Jobs
  <2>3. job.left \subseteq Users
    BY <1>0 DEF Jobs
  <2> QED
    BY <1>4, <2>1, <2>2, <2>3 DEF ReadProfiles
<1>5. CASE ReadGames
  <2> DEFINE counts == [p \in Profiles |-> IF p \in job.profiles THEN games[p].n ELSE 0]
  <2>1. counts \in [Profiles -> Versions]
    BY <1>0, BoundsAssumption DEF Versions
  <2>2. job' = [job EXCEPT !.at = "write", !.profiles = {}, !.seen = counts]
    BY <1>5 DEF ReadGames
  <2> HIDE DEF counts
  <2> QED
    BY <1>0, <1>1, <2>1, <2>2 DEF Jobs
<1>6. CASE WriteRollup
  BY <1>0, <1>6, HandKeeps DEF WriteRollup
<1>7. CASE ListCommunities
  BY <1>0, <1>1, <1>7, HandKeeps DEF ListCommunities, Jobs
<1>8. CASE ReadSources
  <2> DEFINE rows == [p \in Profiles |-> Shown(p)]
  <2>1. rows \in [Profiles -> Owners \X Versions]
    BY <1>0, BoundsAssumption DEF Shown, Owners, Versions
  <2>2. job' = [job EXCEPT !.at = "boards", !.boards = Metrics, !.rows = rows]
    BY <1>8 DEF ReadSources
  <2> HIDE DEF rows
  <2> QED
    BY <1>0, <1>1, <2>1, <2>2 DEF Jobs
<1>9. CASE WriteBoard
  <2>1. CASE job' = [job EXCEPT !.at = "civs", !.rows = Blank]
    BY <1>0, <1>1, <2>1, HandTypes DEF Jobs
  <2>2. ASSUME NEW m, job' = [job EXCEPT !.boards = @ \ {m}]
        PROVE  job' \in Jobs
    BY <1>0, <2>2 DEF Jobs
  <2> QED
    BY <1>9, <2>1, <2>2 DEF WriteBoard
<1>10. CASE WriteCivs
  BY <1>0, <1>10, HandKeeps DEF WriteCivs
<1>11. CASE Fail
  <2>1. CASE job' = NextUser \/ job' = Done
    BY <1>0, <2>1, HandKeeps
  <2>2. CASE job' = [job EXCEPT !.at = "civs", !.failed = TRUE]
    BY <1>0, <1>1, <2>2 DEF Jobs
  <2>3. ASSUME NEW m, job' = [job EXCEPT !.boards = @ \ {m}, !.failed = TRUE]
        PROVE  job' \in Jobs
    BY <1>0, <2>3 DEF Jobs
  <2> QED
    BY <1>11, <2>1, <2>2, <2>3 DEF Fail
<1>12. CASE Restart
  BY <1>0, <1>12, HandKeeps DEF Restart
<1> QED
  BY <1>2, <1>3, <1>4, <1>5, <1>6, <1>7, <1>8, <1>9, <1>10, <1>11, <1>12 DEF Job

\* The types of what a step of the job stores.
LEMMA JobTypes ==
  ASSUME IInv, Job \/ Fail \/ Restart
  PROVE  TypeOK' /\ InputsCounted' /\ LinksNoted'
<1>0. UNCHANGED <<now, owner, bound, claims, games, picks, late, unseen, edits>> /\ job' \in Jobs /\ links' \subseteq links
  BY StepTypes DEF IInv, Job, Start, List, ReadProfiles, ReadGames, WriteRollup, ListCommunities,
         ReadSources, WriteBoard, WriteCivs, Fail, Restart, OnlyJob, inputs, history
<1>1. InputsCounted' /\ LinksNoted'
  BY <1>0 DEF IInv, InputsCounted, LinksNoted
<1> DEFINE Rest == rollup' \in [Users -> [at : Times \cup {Absent}, seen : [Profiles -> Versions]]]
                /\ board' \in [Metrics -> [at : Times \cup {Absent}, seen : [Profiles -> Owners \X Versions]]]
                /\ civs' \in Versions /\ aged' \subseteq Users \cup {Boards}
                /\ tried' \in [Users \cup {Community} -> 0..MaxAttempts] /\ faults' \in 0..MaxFaults
<1>2. ASSUME UNCHANGED <<rollup, board, civs, aged, tried, faults>>
      PROVE  Rest
  BY <1>2 DEF IInv, TypeOK
<1>3. ASSUME WriteRollup
      PROVE  Rest
  <2>1. job.user \in Users /\ job.time \in Times /\ job.seen \in [Profiles -> Versions]
    BY <1>3 DEF WriteRollup, IInv, TypeOK, Jobs, Clocks, At
  <2>2. NoRollup \in [at : Times \cup {Absent}, seen : [Profiles -> Versions]]
    BY HandTypes DEF NoRollup
  <2>3. rollup' \in [Users -> [at : Times \cup {Absent}, seen : [Profiles -> Versions]]]
    BY <1>3, <2>1, <2>2 DEF WriteRollup, IInv, TypeOK
  <2>4. tried' \in [Users \cup {Community} -> 0..MaxAttempts]
    BY <1>3, <2>1, BoundsAssumption DEF WriteRollup, Succeeded, IInv, TypeOK
  <2> QED
    BY <1>3, <2>3, <2>4 DEF WriteRollup, IInv, TypeOK
<1>4. ASSUME WriteBoard
      PROVE  Rest
  <2>1. job.time \in Times /\ job.rows \in [Profiles -> Owners \X Versions]
    BY <1>4 DEF WriteBoard, IInv, TypeOK, Jobs, Clocks, At
  <2>2. board' \in [Metrics -> [at : Times \cup {Absent}, seen : [Profiles -> Owners \X Versions]]]
    <3>1. board' = board \/ \E m : board' = [board EXCEPT ![m] = [at |-> job.time, seen |-> job.rows]]
      BY <1>4 DEF WriteBoard
    <3>2. board \in [Metrics -> [at : Times \cup {Absent}, seen : [Profiles -> Owners \X Versions]]]
      BY DEF IInv, TypeOK
    <3>3. [at |-> job.time, seen |-> job.rows] \in [at : Times \cup {Absent}, seen : [Profiles -> Owners \X Versions]]
      BY <2>1
    <3> QED
      BY <3>1, <3>2, <3>3
  <2>3. aged' \subseteq Users \cup {Boards}
    BY <1>4 DEF WriteBoard, IInv, TypeOK
  <2> QED
    BY <1>4, <2>2, <2>3 DEF WriteBoard, IInv, TypeOK
<1>5. ASSUME WriteCivs
      PROVE  Rest
  <2>1. tried' \in [Users \cup {Community} -> 0..MaxAttempts]
    BY <1>5, BoundsAssumption DEF WriteCivs, Failed, Succeeded, IInv, TypeOK
  <2>2. civs' \in Versions
    BY <1>5 DEF WriteCivs, IInv, TypeOK
  <2> QED
    BY <1>5, <2>1, <2>2 DEF WriteCivs, IInv, TypeOK
<1>6. ASSUME Fail \/ Restart
      PROVE  Rest
  <2>0. tried \in [Users \cup {Community} -> 0..MaxAttempts] /\ MaxAttempts \in Nat /\ faults \in 0..MaxFaults
    BY BoundsAssumption DEF IInv, TypeOK
  <2>a. Fault /\ \/ tried' = tried
                 \/ tried' = [k \in Users \cup {Community} |-> 0]
                 \/ \E key : Failed(key)
    BY <1>6 DEF Fail, Restart
  <2>1. tried' \in [Users \cup {Community} -> 0..MaxAttempts]
    BY <2>0, <2>a DEF Failed
  <2>2. faults' \in 0..MaxFaults
    BY <2>0, <2>a, BoundsAssumption DEF Fault
  <2>3. UNCHANGED <<rollup, board, civs, aged>>
    BY <1>6 DEF Fail, Restart, stored
  <2> QED
    BY <2>1, <2>2, <2>3 DEF IInv, TypeOK
<1>7. ASSUME Start \/ List \/ ReadProfiles \/ ReadGames \/ ListCommunities \/ ReadSources
      PROVE  Rest
  BY <1>2, <1>7 DEF Start, List, ReadProfiles, ReadGames, ListCommunities, ReadSources, stored
<1>8. Rest
  BY <1>3, <1>4, <1>5, <1>6, <1>7 DEF Job
<1> QED
  BY <1>0, <1>1, <1>8 DEF IInv, TypeOK

\* What the job has read, and what it writes of it.
LEMMA JobKeeps ==
  ASSUME IInv, TypeOK', Job \/ Fail \/ Restart
  PROVE  (Clocks /\ RollupsWatched /\ StatsWatched /\ WriteWatched)'
<1>0. UNCHANGED <<now, owner, bound, claims, games, late, unseen>> /\ links' \subseteq links
  BY DEF Job, Start, List, ReadProfiles, ReadGames, WriteRollup, ListCommunities,
         ReadSources, WriteBoard, WriteCivs, Fail, Restart, OnlyJob, inputs, history
<1>1. \A u, p, count, time : Watched(u, p, count, time)' <=> Watched(u, p, count, time)
  BY <1>0 DEF Watched, Evidence, Mine, Due
<1>2. CASE rollup' = rollup /\ job'.at \notin {"stats", "write"} /\ job'.time = job.time /\ ~At("idle")
  BY <1>0, <1>2 DEF IInv, Clocks, RollupsWatched, StatsWatched, WriteWatched, At, Stored, Watched, Evidence, Mine, Due
<1>3. CASE Start
  BY <1>0, <1>3 DEF IInv, TypeOK, Times, Start, Idle, OnlyJob, stored, Clocks, RollupsWatched, StatsWatched,
                    WriteWatched, At, Stored, Watched, Evidence, Mine, Due
<1>4. CASE ReadProfiles /\ job.left # {} /\ job'.at = "stats"
  <2>0. PICK u \in job.left : job' = [job EXCEPT !.at = "stats", !.left = @ \ {u}, !.user = u, !.profiles = Owned(u)]
    BY <1>4 DEF ReadProfiles, Done, Idle
  <2>1. rollup' = rollup /\ At("batch") /\ job'.time = job.time
        /\ job'.user \in Users /\ job'.profiles = Owned(job'.user)
    BY <1>4, <2>0 DEF ReadProfiles, IInv, TypeOK, stored, Jobs
  <2>2. StatsWatched'
    BY <1>0, <2>1 DEF StatsWatched, Owned, Mine
  <2> QED
    BY <1>0, <1>4, <2>1, <2>2 DEF IInv, Clocks, RollupsWatched, WriteWatched, At, Stored, Watched, Evidence, Mine, Due
<1>5. CASE ReadGames
  <2>1. rollup' = rollup /\ At("stats") /\ job'.at = "write" /\ job'.time = job.time /\ job'.user = job.user
        /\ job'.seen = [p \in Profiles |-> IF p \in job.profiles THEN games[p].n ELSE 0]
        /\ job.user \in Users /\ job.time \in Times
    BY <1>5 DEF ReadGames, IInv, TypeOK, stored, Clocks, At
  <2>2. ASSUME NEW p \in Profiles
        PROVE  Watched(job.user, p, job'.seen[p], job.time)
    BY <2>1 DEF IInv, StatsWatched, Watched, Evidence, Due
  <2>3. WriteWatched'
    BY <1>0, <2>1, <2>2 DEF WriteWatched, Watched, Evidence, Mine, Due
  <2> QED
    BY <1>0, <2>1, <2>3 DEF IInv, Clocks, RollupsWatched, StatsWatched, At, Stored, Watched, Evidence, Mine, Due
<1>6. CASE WriteRollup
  <2>1. At("write") /\ job.user \in Users /\ job.time \in Times /\ job.time <= now
    BY <1>6 DEF WriteRollup, IInv, Clocks, At
  <2>2. job'.at = "batch" /\ job'.time = job.time
    BY <1>6 DEF WriteRollup, NextUser, IInv, TypeOK
  <2>3. \A u \in Users : rollup'[u] = IF u = job.user
          THEN IF job.seen = Zero THEN NoRollup ELSE [at |-> job.time, seen |-> job.seen]
          ELSE rollup[u]
    BY <1>6 DEF WriteRollup, IInv, TypeOK
  <2>4. ASSUME NEW u \in Users, NEW p \in Profiles, Stored(u)'
        PROVE  Watched(u, p, rollup'[u].seen[p], rollup'[u].at)
    <3>1. CASE u = job.user
      BY <2>1, <2>3, <2>4, <3>1 DEF IInv, WriteWatched, Stored, NoRollup
    <3>2. CASE u # job.user
      BY <2>3, <2>4, <3>2 DEF IInv, RollupsWatched, Stored
    <3> QED
      BY <3>1, <3>2
  <2>5. RollupsWatched'
    BY <1>0, <2>4 DEF RollupsWatched, Watched, Evidence, Mine, Due
  <2>6. \A u \in Users : rollup'[u].at <= now
    <3>1. now \in Int /\ 0 <= now /\ NoRollup.at = -1
      BY DEF IInv, TypeOK, Times, NoRollup, Absent
    <3> QED
      BY <2>1, <2>3, <3>1 DEF IInv, Clocks
  <2> QED
    BY <1>0, <2>1, <2>2, <2>5, <2>6 DEF IInv, Clocks, StatsWatched, WriteWatched, At
<1>7. CASE List \/ (ReadProfiles /\ job'.at # "stats") \/ ListCommunities \/ ReadSources \/ WriteBoard \/ WriteCivs \/ Fail
  <2>1. rollup' = rollup /\ ~At("idle")
    BY <1>7 DEF List, ReadProfiles, ListCommunities, ReadSources, WriteBoard, WriteCivs, Fail, At, stored
  <2> DEFINE Quiet == job'.at \notin {"stats", "write"} /\ job'.time = job.time
  <2>0. job \in Jobs
    BY DEF IInv, TypeOK
  <2>a. Done.at = "idle" /\ Done.time = job.time /\ NextUser.at = "batch" /\ NextUser.time = job.time
    BY <2>0 DEF Done, Idle, NextUser, Jobs
  <2>b. ASSUME At("boards"), NEW m, job' = [job EXCEPT !.boards = @ \ {m}] \/ job' = [job EXCEPT !.boards = @ \ {m}, !.failed = TRUE]
        PROVE  job'.at = "boards" /\ job'.time = job.time
    BY <2>0, <2>b DEF Jobs, At
  <2>c. ASSUME List \/ ListCommunities \/ ReadSources \/ WriteCivs
        PROVE  Quiet
    BY <2>0, <2>a, <2>c DEF List, ListCommunities, ReadSources, WriteCivs, Jobs
  <2>d. ASSUME ReadProfiles /\ job'.at # "stats"
        PROVE  Quiet
    <3>1. CASE job' = Done
      BY <2>a, <3>1
    <3>2. ASSUME NEW u \in job.left,
                 job' = [job EXCEPT !.at = "stats", !.left = @ \ {u}, !.user = u, !.profiles = Owned(u)]
          PROVE  FALSE
      BY <2>0, <2>d, <3>2 DEF Jobs
    <3> QED
      BY <2>d, <2>a, <3>1, <3>2 DEF ReadProfiles
  <2>e. ASSUME WriteBoard
        PROVE  Quiet
    <3>1. CASE job' = [job EXCEPT !.at = "civs", !.rows = Blank]
      BY <2>0, <3>1 DEF Jobs
    <3> QED
      BY <2>e, <2>b, <3>1 DEF WriteBoard
  <2>f. ASSUME Fail
        PROVE  Quiet
    <3>1. CASE job' = [job EXCEPT !.at = "civs", !.failed = TRUE]
      BY <2>0, <3>1 DEF Jobs
    <3> QED
      BY <2>f, <2>a, <2>b, <3>1 DEF Fail, At
  <2>2. Quiet
    BY <1>7, <2>c, <2>d, <2>e, <2>f
  <2> QED
    BY <1>2, <2>1, <2>2
<1>8. CASE Restart
  <2>1. rollup' = rollup /\ job'.at = "idle" /\ job'.time = job.time
    BY <1>8 DEF Restart, Done, Idle, stored
  <2> QED
    BY <1>0, <2>1 DEF IInv, Clocks, RollupsWatched, StatsWatched, WriteWatched, At, Stored, Watched, Evidence, Mine, Due
<1>9. CASE ReadProfiles /\ job'.at = "stats" /\ job.left = {}
  BY <1>9 DEF ReadProfiles, Done, Idle
<1> QED
  BY <1>3, <1>4, <1>5, <1>6, <1>7, <1>8, <1>9 DEF Job

----------------------------------------------------------------------------
LEMMA InitIInv == Init => IInv
<1> SUFFICES ASSUME Init PROVE IInv
  OBVIOUS
<1>1. TypeOK
  <2>1. NoRollup \in [at : Times \cup {Absent}, seen : [Profiles -> Versions]]
        /\ NoBoard \in [at : Times \cup {Absent}, seen : [Profiles -> Owners \X Versions]]
    BY HandTypes DEF NoRollup, NoBoard
  <2>2. 0 \in Times /\ 0 \in Versions /\ 1 \in Versions
    BY BoundsAssumption DEF Times, Versions
  <2>3. rollup \in [Users -> [at : Times \cup {Absent}, seen : [Profiles -> Versions]]]
        /\ board \in [Metrics -> [at : Times \cup {Absent}, seen : [Profiles -> Owners \X Versions]]]
    BY <2>1 DEF Init
  <2>4. games \in [Profiles -> [n : Versions, at : Times]] /\ picks \in [n : Versions, at : Times]
        /\ bound \in [Profiles -> Times]
    BY <2>2 DEF Init, Zero
  <2>5. tried \in [Users \cup {Community} -> 0..MaxAttempts] /\ edits \in 0..MaxEdits /\ faults \in 0..MaxFaults
    BY BoundsAssumption DEF Init
  <2> QED
    BY <2>2, <2>3, <2>4, <2>5, HandTypes, OwnersAssumption DEF Init, TypeOK, Owners
<1>2. InputsCounted /\ LinksNoted /\ Clocks /\ RollupsWatched /\ StatsWatched /\ WriteWatched
  BY DEF Init, InputsCounted, LinksNoted, Clocks, RollupsWatched, StatsWatched, WriteWatched, At, Idle, Stored, NoRollup, Absent
<1> QED
  BY <1>1, <1>2 DEF IInv

LEMMA NextIInv == IInv /\ [Next]_vars => IInv'
<1> SUFFICES ASSUME IInv, [Next]_vars PROVE IInv'
  OBVIOUS
<1>1. CASE UNCHANGED vars
  BY <1>1 DEF IInv, vars, inputs, stored, history, TypeOK, InputsCounted, LinksNoted, Clocks, RollupsWatched, StatsWatched, WriteWatched,
              At, Stored, Watched, Evidence, Mine, Due
<1>2. CASE Job \/ Fail \/ Restart
  BY <1>2, JobTypes, JobKeeps DEF IInv
<1>3. CASE Tick
  <2>1. TypeOK' /\ now' = now + 1 /\ now \in Int
    <3>1. now \in Int /\ now' \in Times /\ now' = now + 1
      BY <1>3, BoundsAssumption DEF Tick, IInv, TypeOK, Times
    <3> QED
      BY <1>3, <3>1 DEF Tick, IInv, TypeOK, inputs, stored, history
  <2>2. Clocks'
    <3>1. UNCHANGED <<rollup, job>> /\ now < now' /\ now \in Int
      BY <1>3, <2>1 DEF Tick, stored
    <3>2. \A u \in Users : rollup[u].at \in Int
      BY DEF IInv, TypeOK, Times, Absent
    <3>3. job.time \in Int
      BY DEF IInv, TypeOK, Jobs, Times, Absent
    <3> QED
      BY <2>1, <3>1, <3>2, <3>3 DEF IInv, Clocks, At
  <2> QED
    BY <1>3, <2>1, <2>2 DEF Tick, IInv, InputsCounted, LinksNoted, RollupsWatched, StatsWatched, WriteWatched, inputs, stored, history,
              At, Stored, Watched, Evidence, Mine, Due
<1>4. CASE Day
  <2>1. TypeOK'
    BY <1>4 DEF Day, IInv, TypeOK, inputs, stored, history
  <2> QED
    BY <1>4, <2>1 DEF Day, IInv, InputsCounted, LinksNoted, Clocks, RollupsWatched, StatsWatched, WriteWatched, inputs, stored,
              history,
              At, Stored, Watched, Evidence, Mine, Due
<1>5. CASE RecordPicks
  BY <1>5, RecordPicksStep, InputsKeep DEF IInv, LinksNoted, RecordPicks, OnlyRows
<1>6. ASSUME NEW p \in Profiles, WriteGames(p)
      PROVE  IInv'
  BY <1>6, WriteGamesStep, InputsKeep DEF IInv, LinksNoted, WriteGames, OnlyRows
<1>7. ASSUME NEW p \in Profiles, Unlink(p) \/ \E u \in Users, additional \in BOOLEAN : Relink(p, u, additional)
      PROVE  IInv'
  <2>1. LinksNoted'
    BY <1>7 DEF IInv, LinksNoted, Unlink, Relink, Moved, OnlyRows
  <2> QED
    BY <1>7, <2>1, MoveSteps, InputsKeep DEF IInv
<1>8. CASE \/ \E p \in Profiles, u \in Users : Look(p, u)
           \/ \E l \in links : Refuse(l) \/ Note(l)
  BY <1>8, NotedSteps, InputsKeep DEF IInv
<1>9. ASSUME NEW l \in links, Store(l)
      PROVE  IInv'
  BY <1>9, StoreStep, InputsKeep DEF IInv
<1> QED
  BY <1>1, <1>2, <1>3, <1>4, <1>5, <1>6, <1>7, <1>8, <1>9 DEF Next

\* Every variable keeps its type: no counter of the inputs passes its bound.
THEOREM TypeCorrect == Spec => []TypeOK
<1>1. IInv => TypeOK
  BY DEF IInv
<1> QED
  BY <1>1, InitIInv, NextIInv, PTL DEF Spec

\* A rollup that differs from what its user's games imply is pending at once, however its pass
\* overlapped with moves of profiles, new games and other passes, unless the input came late or the
\* share of the user was changed without a sign, by a link over an owner it had not seen.
THEOREM NoStaleRollupHides == Spec => []StaleIsPending
<1>1. IInv => StaleIsPending
  <2> SUFFICES ASSUME IInv, NEW u \in Users, NEW p \in Profiles, Stored(u),
                      rollup[u].seen[p] # Due(u, p), p \notin late, <<p, u>> \notin unseen
               PROVE  Changed(u)
    BY DEF StaleIsPending
  <2>1. Evidence(u, p, rollup[u].at)
    BY DEF IInv, RollupsWatched, Watched
  <2>2. StaleInput(u, rollup[u].at)
    BY <2>1 DEF Evidence, Mine, StaleInput, Owned, Associated
  <2> QED
    BY <2>2 DEF Changed
<1> QED
  BY <1>1, InitIInv, NextIInv, PTL DEF Spec
----------------------------------------------------------------------------
\* The boards.

\* A row of p read by a pass that began at time: it is p's row still, or a stamp of p is not older
\* than the pass; and whoever it names plays with p or lost it.
RowWatched(p, line, time) ==
  /\ line # Shown(p) /\ p \notin late /\ <<p, owner[p]>> \notin unseen
       => bound[p] >= time \/ (owner[p] # Nobody /\ games[p].n > 0 /\ games[p].at >= time)
  /\ line[1] \in Users /\ <<p, line[1]>> \notin unseen => Mine(line[1], p)

BoardsWatched ==
  \A m \in Metrics : board[m].at # Absent =>
    board[m].at \in 0..now /\ \A p \in Profiles : RowWatched(p, board[m].seen[p], board[m].at)
RowsWatched == At("boards") => \A p \in Profiles : RowWatched(p, job.rows[p], job.time)

BoardInv == BoardsWatched /\ RowsWatched

\* A row that was watched is watched after the inputs change.
LEMMA RowStays ==
  ASSUME TypeOK, TypeOK', InputStep, NEW p \in Profiles, NEW line, NEW time \in Times, time <= now,
         RowWatched(p, line, time)
  PROVE  RowWatched(p, line, time)'
<1>1. now \in Int /\ time \in Int /\ bound[p] \in Int /\ bound'[p] \in Int
      /\ games[p].at \in Int /\ games'[p].at \in Int /\ games[p].n \in Nat /\ games'[p].n \in Nat
  BY DEF TypeOK, Times, Versions
<1>2. line[1] \in Users /\ <<p, line[1]>> \notin unseen' => Mine(line[1], p)'
  BY OwnersAssumption DEF RowWatched, InputStep, Recorded, Mine
<1>3. ASSUME p \notin late', <<p, owner'[p]>> \notin unseen', line # Shown(p)'
      PROVE  bound'[p] >= time \/ (owner'[p] # Nobody /\ games'[p].n > 0 /\ games'[p].at >= time)
  <2>1. Timely(p) /\ p \notin late
    BY <1>3 DEF InputStep
  <2>2. CASE bound'[p] # bound[p] \/ owner'[p] # owner[p]
    <3>1. owner'[p] # owner[p] => bound'[p] = now
      BY <1>3, <2>1 DEF Timely, Silent
    <3> QED
      BY <1>1, <2>1, <2>2, <3>1 DEF Timely
  <2>3. CASE bound'[p] = bound[p] /\ owner'[p] = owner[p] /\ games'[p] # games[p] /\ owner[p] # Nobody
    BY <1>1, <2>1, <2>3 DEF Timely
  <2>4. CASE bound'[p] = bound[p] /\ owner'[p] = owner[p] /\ (games'[p] = games[p] \/ owner[p] = Nobody)
    <3>1. Shown(p)' = Shown(p)
      BY <2>4 DEF Shown
    <3>2. bound[p] >= time \/ (owner[p] # Nobody /\ games[p].n > 0 /\ games[p].at >= time)
      BY <1>3, <2>1, <2>4, <3>1 DEF RowWatched, InputStep
    <3> QED
      BY <2>4, <3>2
  <2> QED
    BY <2>2, <2>3, <2>4
<1> QED
  BY <1>2, <1>3 DEF RowWatched

\* The boards and the rows in the job's hands are as well watched after the inputs change.
LEMMA InputsKeepBoards ==
  ASSUME IInv, TypeOK', InputStep, BoardInv
  PROVE  BoardInv'
<1>1. UNCHANGED <<now, board, job>>
  BY DEF InputStep, stored
<1>2. ASSUME NEW m \in Metrics, board[m].at # Absent, NEW p \in Profiles
      PROVE  RowWatched(p, board[m].seen[p], board[m].at)'
  <2>1. PICK time \in Times : time = board[m].at
    BY <1>2 DEF IInv, TypeOK
  <2>2. PICK line : line = board[m].seen[p]
    OBVIOUS
  <2>3. RowWatched(p, line, time) /\ time <= now
    BY <1>2, <2>1, <2>2 DEF BoardInv, BoardsWatched, IInv, TypeOK, Times
  <2>4. RowWatched(p, line, time)'
    BY <2>3, RowStays DEF IInv
  <2> QED
    BY <1>1, <2>1, <2>2, <2>4
<1>3. BoardsWatched'
  BY <1>1, <1>2 DEF BoardInv, BoardsWatched
<1>4. ASSUME At("boards"), NEW p \in Profiles
      PROVE  RowWatched(p, job.rows[p], job.time)'
  <2>1. PICK time \in Times : time = job.time
    BY <1>4 DEF IInv, Clocks, At
  <2>2. PICK line : line = job.rows[p]
    OBVIOUS
  <2>3. RowWatched(p, line, time) /\ time <= now
    BY <1>4, <2>1, <2>2 DEF BoardInv, RowsWatched, IInv, Clocks
  <2>4. RowWatched(p, line, time)'
    BY <2>3, RowStays DEF IInv
  <2> QED
    BY <1>1, <2>1, <2>2, <2>4
<1>5. RowsWatched'
  BY <1>1, <1>4 DEF RowsWatched, At
<1> QED
  BY <1>3, <1>5 DEF BoardInv

\* The rows the job reads are of its pass, and the boards it writes are those rows.
LEMMA JobKeepsBoards ==
  ASSUME IInv, TypeOK', Job \/ Fail \/ Restart, BoardInv
  PROVE  BoardInv'
<1>0. UNCHANGED <<now, owner, bound, claims, games, late, unseen>> /\ links' \subseteq links
  BY DEF Job, Start, List, ReadProfiles, ReadGames, WriteRollup, ListCommunities,
         ReadSources, WriteBoard, WriteCivs, Fail, Restart, OnlyJob, inputs, history
<1>1. \A p, line, time : RowWatched(p, line, time)' <=> RowWatched(p, line, time)
  BY <1>0 DEF RowWatched, Shown, Mine
<1>2. job \in Jobs
  BY DEF IInv, TypeOK
<1>3. board' = board => BoardsWatched'
  BY <1>0, <1>1 DEF BoardInv, BoardsWatched
<1>4. job'.at # "boards" => RowsWatched'
  BY DEF RowsWatched, At
<1>5. At("boards") /\ job'.at = "boards" /\ job'.rows = job.rows /\ job'.time = job.time => RowsWatched'
  BY <1>0, <1>1 DEF BoardInv, RowsWatched, At
<1>6. Done.at = "idle" /\ NextUser.at = "batch" /\ Idle.at = "idle"
  BY <1>2 DEF Done, Idle, NextUser, Jobs
<1>7. CASE Start \/ List \/ ReadProfiles \/ ReadGames \/ WriteRollup \/ ListCommunities \/ WriteCivs \/ Restart
  <2>1. board' = board
    BY <1>7 DEF Start, List, ReadProfiles, ReadGames, WriteRollup, ListCommunities, WriteCivs, Restart, stored
  <2>2. job'.at # "boards"
    <3>1. CASE Start
      BY <1>6, <3>1 DEF Start, Idle
    <3>2. CASE ReadProfiles
      <4>1. CASE job' = Done
        BY <1>6, <4>1
      <4>2. ASSUME NEW u, job' = [job EXCEPT !.at = "stats", !.left = @ \ {u}, !.user = u, !.profiles = Owned(u)]
            PROVE  job'.at = "stats"
        BY <1>2, <4>2 DEF Jobs
      <4> QED
        BY <3>2, <4>1, <4>2 DEF ReadProfiles
    <3>3. CASE ~Start /\ ~ReadProfiles
      BY <1>2, <1>6, <1>7, <3>3 DEF List, ReadGames, WriteRollup, ListCommunities, WriteCivs, Restart, Jobs
    <3> QED
      BY <3>1, <3>2, <3>3
  <2> QED
    BY <1>3, <1>4, <2>1, <2>2 DEF BoardInv
<1>8. CASE ReadSources
  <2>1. board' = board /\ job'.rows = [p \in Profiles |-> Shown(p)]
    BY <1>2, <1>8 DEF ReadSources, stored, Jobs
  <2>2. ASSUME NEW p \in Profiles PROVE RowWatched(p, Shown(p), job'.time)
    <3>1. Shown(p)[1] \in Users => owner[p] = Shown(p)[1]
      BY OwnersAssumption DEF Shown
    <3> QED
      BY <3>1 DEF RowWatched, Mine
  <2>3. RowsWatched'
    BY <1>1, <2>1, <2>2 DEF RowsWatched
  <2> QED
    BY <1>3, <2>1, <2>3 DEF BoardInv
<1>9. CASE WriteBoard
  <2>0. At("boards") /\ job.time \in 0..now
    BY <1>9 DEF WriteBoard, IInv, Clocks, At, TypeOK, Times
  <2>1. ASSUME NEW m \in job.boards, board' = [board EXCEPT ![m] = [at |-> job.time, seen |-> job.rows]],
               job' = [job EXCEPT !.boards = @ \ {m}]
        PROVE  BoardInv'
    <3>1. RowsWatched'
      BY <1>2, <1>5, <2>0, <2>1 DEF Jobs, At
    <3>2. \A n \in Metrics : board'[n] = IF n = m THEN [at |-> job.time, seen |-> job.rows] ELSE board[n]
      BY <2>1 DEF IInv, TypeOK
    <3>3. ASSUME NEW n \in Metrics, board'[n].at # Absent
          PROVE  board'[n].at \in 0..now /\ \A p \in Profiles : RowWatched(p, board'[n].seen[p], board'[n].at)
      <4>1. CASE n = m
        BY <2>0, <3>2, <4>1 DEF BoardInv, RowsWatched
      <4>2. CASE n # m
        BY <3>2, <3>3, <4>2 DEF BoardInv, BoardsWatched
      <4> QED
        BY <4>1, <4>2
    <3>4. BoardsWatched'
      BY <1>0, <1>1, <3>3 DEF BoardsWatched
    <3> QED
      BY <3>1, <3>4 DEF BoardInv
  <2>2. CASE job' = [job EXCEPT !.at = "civs", !.rows = Blank] /\ board' = board
    BY <1>2, <1>3, <1>4, <2>2 DEF BoardInv, Jobs
  <2> QED
    BY <1>9, <2>1, <2>2 DEF WriteBoard
<1>10. CASE Fail
  <2>1. board' = board
    BY <1>10 DEF Fail, stored
  <2>2. CASE job' = NextUser \/ job' = Done \/ job' = [job EXCEPT !.at = "civs", !.failed = TRUE]
    BY <1>2, <1>3, <1>4, <1>6, <2>1, <2>2 DEF BoardInv, Jobs
  <2>3. ASSUME At("boards"), NEW m, job' = [job EXCEPT !.boards = @ \ {m}, !.failed = TRUE]
        PROVE  BoardInv'
    BY <1>2, <1>3, <1>5, <2>1, <2>3 DEF BoardInv, Jobs, At
  <2> QED
    BY <1>10, <2>2, <2>3 DEF Fail
<1> QED
  BY <1>7, <1>8, <1>9, <1>10 DEF Job

\* The boards' invariant holds at first, and every step keeps it.
LEMMA InitBoards == Init => BoardInv
  BY DEF Init, BoardInv, BoardsWatched, RowsWatched, NoBoard, Idle, At

LEMMA NextBoards == IInv /\ BoardInv /\ [Next]_vars => BoardInv'
<1> SUFFICES ASSUME IInv, BoardInv, [Next]_vars PROVE BoardInv'
  OBVIOUS
<1>0. TypeOK'
  BY NextIInv DEF IInv
<1>1. CASE UNCHANGED <<inputs, history, job, board>> /\ now' \in Int /\ now <= now'
  <2>1. \A p, line, time : RowWatched(p, line, time)' <=> RowWatched(p, line, time)
    BY <1>1 DEF RowWatched, Shown, Mine, inputs, history
  <2>2. \A time : time \in 0..now => time \in 0..now'
    BY <1>1 DEF IInv, TypeOK, Times
  <2> QED
    BY <1>1, <2>1, <2>2 DEF BoardInv, BoardsWatched, RowsWatched, At
<1>2. CASE UNCHANGED vars
  BY <1>1, <1>2 DEF vars, inputs, stored, IInv, TypeOK, Times
<1>3. CASE Tick
  BY <1>1, <1>3 DEF Tick, inputs, stored, IInv, TypeOK, Times
<1>4. CASE Day
  BY <1>1, <1>4 DEF Day, inputs, stored, IInv, TypeOK, Times
<1>5. CASE Job \/ Fail \/ Restart
  BY <1>0, <1>5, JobKeepsBoards
<1>6. CASE RecordPicks
  BY <1>6, RecordPicksStep, InputsKeepBoards DEF IInv
<1>7. ASSUME NEW p \in Profiles, WriteGames(p)
      PROVE  BoardInv'
  BY <1>7, WriteGamesStep, InputsKeepBoards DEF IInv
<1>8. ASSUME NEW p \in Profiles, Unlink(p) \/ \E u \in Users, additional \in BOOLEAN : Relink(p, u, additional)
      PROVE  BoardInv'
  BY <1>8, MoveSteps, InputsKeepBoards DEF IInv
<1>9. CASE \/ \E p \in Profiles, u \in Users : Look(p, u)
           \/ \E l \in links : Refuse(l) \/ Note(l)
  BY <1>9, NotedSteps, InputsKeepBoards DEF IInv
<1>10. ASSUME NEW l \in links, Store(l)
       PROVE  BoardInv'
  BY <1>10, StoreStep, InputsKeepBoards DEF IInv
<1> QED
  BY <1>2, <1>3, <1>4, <1>5, <1>6, <1>7, <1>8, <1>9, <1>10 DEF Next

\* A board that a rollup of u is not older than is rebuilt; so is one with a row of u's that a stamp
\* of his is not older than, once his rollup is.
LEMMA StampReaches ==
  ASSUME IInv, NEW m \in Metrics, board[m].at \in Times, NEW u \in Users, NEW time \in Times,
         time >= board[m].at, Implied(u), Stored(u) /\ rollup[u].at <= time => StaleInput(u, rollup[u].at)
  PROVE  BoardsChanged \/ Changed(u)
<1>1. CASE ~Stored(u)
  BY <1>1 DEF Changed, Missing
<1>2. CASE Stored(u) /\ rollup[u].at <= time
  BY <1>2 DEF Changed
<1>3. CASE Stored(u) /\ rollup[u].at > time
  <2>1. rollup[u].at \in Times
    BY <1>3 DEF Stored, IInv, TypeOK
  <2>2. rollup[u].at >= board[m].at
    BY <1>3, <2>1 DEF Times
  <2> QED
    BY <1>3, <2>2 DEF BoardsChanged, StaleBoard
<1>4. Stored(u) => rollup[u].at \in Int
  BY DEF Stored, IInv, TypeOK, Times
<1> QED
  BY <1>1, <1>2, <1>3, <1>4 DEF Times

\* Boards that lack a game, or show one as that of a player who lost it, are pending or trail a
\* rollup that is, whatever happened between the pass that read their rows and the writes.
THEOREM NoStaleBoardHides == Spec => []BoardsTrail
<1>1. IInv /\ BoardInv => BoardsTrail
  <2> SUFFICES ASSUME IInv, BoardInv, NEW m \in Metrics, NEW p \in Profiles \ late,
                      board[m].at # Absent, board[m].seen[p] # Shown(p),
                      {<<p, board[m].seen[p][1]>>, <<p, owner[p]>>} \cap unseen = {},
                      (board[m].seen[p][1] \in Users /\ Implied(board[m].seen[p][1])) \/ Shown(p) # <<Nobody, 0>>
               PROVE  BoardsChanged \/ \E u \in Users : Changed(u)
    BY DEF BoardsTrail
  <2>1. board[m].at \in Times /\ bound[p] \in Times /\ games[p].at \in Times /\ games[p].n \in Nat /\ owner[p] \in Owners
    BY DEF IInv, TypeOK, Versions
  <2>2. RowWatched(p, board[m].seen[p], board[m].at)
    BY DEF BoardInv, BoardsWatched
  <2>3. CASE Shown(p) # <<Nobody, 0>>
    <3>1. owner[p] \in Users /\ games[p].n > 0
      BY <2>1, <2>3 DEF Shown, Owners
    <3>2. p \in Owned(owner[p]) /\ p \in Associated(owner[p]) /\ Implied(owner[p])
      BY <3>1 DEF Owned, Associated, Implied
    <3>3. PICK date \in {bound[p], games[p].at} : date >= board[m].at
      BY <2>2 DEF RowWatched
    <3>4. Stored(owner[p]) /\ rollup[owner[p]].at <= date => StaleInput(owner[p], rollup[owner[p]].at)
      <4>1. \A time \in Times : time <= date => bound[p] >= time \/ games[p].at >= time
        BY <2>1 DEF Times
      <4>2. Stored(owner[p]) => rollup[owner[p]].at \in Times
        BY <3>1 DEF Stored, IInv, TypeOK
      <4> QED
        BY <3>1, <3>2, <4>1, <4>2 DEF StaleInput
    <3>5. date \in Times
      BY <2>1
    <3> QED
      BY <2>1, <3>1, <3>2, <3>3, <3>4, <3>5, StampReaches
  <2>4. CASE Shown(p) = <<Nobody, 0>>
    <3> DEFINE u == board[m].seen[p][1]
    <3>1. u \in Users /\ Implied(u) /\ Mine(u, p)
      BY <2>2, <2>4 DEF RowWatched
    <3>2. bound[p] >= board[m].at
      BY <2>1, <2>2, <2>4 DEF RowWatched, Shown
    <3>3. Stored(u) /\ rollup[u].at <= bound[p] => StaleInput(u, rollup[u].at)
      <4>1. p \in Associated(u)
        BY <3>1 DEF Mine, Associated, Owned
      <4>2. Stored(u) => rollup[u].at \in Times
        BY <3>1 DEF Stored, IInv, TypeOK
      <4>3. \A time \in Times : time <= bound[p] => bound[p] >= time
        BY <2>1 DEF Times
      <4> QED
        BY <4>1, <4>2, <4>3 DEF StaleInput
    <3> HIDE DEF u
    <3> QED
      BY <2>1, <3>1, <3>2, <3>3, StampReaches
  <2> QED
    BY <2>3, <2>4
<1> QED
  BY <1>1, InitIInv, NextIInv, InitBoards, NextBoards, PTL DEF Spec

----------------------------------------------------------------------------
\* Ingest.

\* The greatest of some replays is one of them.
LEMMA MaxIn ==
  ASSUME NEW S \in SUBSET Replays, S # {}
  PROVE  Max(S) \in S
<1> DEFINE Gaps == {MaxReplay - r : r \in S}
<1>0. MaxReplay \in Nat /\ \A r \in S : r \in Int /\ MaxReplay - r \in Nat
  BY VersionsAssumption, LabelsAssumption DEF Replays
<1>1. MaxReplay \in Nat /\ Gaps \subseteq Nat /\ Gaps # {}
  BY <1>0
<1>2. PICK n \in Gaps : \A m \in Gaps : ~(m < n)
  <2>1. PICK n \in Gaps : \A m \in Gaps : ~(<<m, n>> \in OpToRel(<, Nat))
    BY <1>1, NatLessThanWellFounded, WFMin
  <2> QED
    BY <1>1, <2>1, Zenon DEF OpToRel
<1>3. PICK r \in S : n = MaxReplay - r
  BY <1>2
<1>4. ASSUME NEW s \in S PROVE r >= s
  <2>1. ~(MaxReplay - s < MaxReplay - r)
    BY <1>2, <1>3
  <2> QED
    BY <1>0, <2>1
<1> QED
  BY <1>3, <1>4 DEF Max

\* Where the job has a replay, whose row is being processed; and where that replay's rows are written.
Working == JobSteps \ {"idle", "find"}
Written == Working \ {"fetch", "parse", "clear", "players", "except"}
JobHolds ==
  ingester.at \in Working =>
    /\ ingester.replay \in Replays /\ row[ingester.replay].status = "processing"
    /\ ingester.at \in Written => ingester.replay \in players

\* What can be read of a classification is all of it or nothing.
Classified ==
  \A r \in Replays :
    /\ cls[r] \in {{}, content[r]} /\ labels[r] \in {{}, content[r]}
    /\ stamp[r] \in {NoStamp, Cardinality(content[r])}

\* What the reconciler holds: a slot, or the classification of its replay; nothing only where nothing was found.
BackHolds ==
  /\ back.at \in {"idle", "stats", "labels"} <=> back.replay = 0
  /\ back.replay \notin back.ids
  /\ back.at \in {"stats_clear", "stats_write"} => back.rows \in {{}, {"slot"}}
  /\ BackAt("labels_trust") => back.rows = {}
  /\ back.at \in {"labels_clear", "labels_write"} => back.rows = content[back.replay]

\* It holds no match that it has given up on.
Drains(kind) ==
  back.at \in (IF kind = "stats" THEN {"stats", "stats_clear", "stats_write"}
               ELSE {"labels", "labels_trust", "labels_clear", "labels_write"})
Trying == \A kind \in Kinds : Drains(kind) =>
  \A r \in Replays : r \in back.ids \/ r = back.replay => attempted[kind][r] < AttemptLimit

IngestInv == IngestTypeOK /\ DoneIsStored /\ JobHolds /\ Classified /\ BackHolds /\ Trying

\* The sizes of what is finite.
LEMMA Sizes ==
  ASSUME NEW C \in SUBSET Labels
  PROVE  Cardinality(C) \in 0..Cardinality(Labels) /\ (Cardinality(C) = 0 => C = {})
  BY FS_Subset, FS_CardinalityType, FS_EmptySet, VersionsAssumption, LabelsAssumption

LEMMA InitIngest ==
  ASSUME IngestInit
  PROVE  IngestInv
<1>1. MaxReplay \in Nat /\ MaxVersion \in Nat /\ MaxVersion >= 1 /\ MaxFailures \in Nat
  BY VersionsAssumption, LabelsAssumption
<1>2. NoRow \in [status : Statuses, attempts : 0..AttemptLimit, due : BOOLEAN, old : BOOLEAN, parser : 0..MaxVersion]
  BY <1>1 DEF NoRow, Statuses, AttemptLimit
<1>3. IdleJob \in [at : JobSteps, replay : 0..MaxReplay, attempts : 0..AttemptLimit]
  BY <1>1 DEF IdleJob, JobSteps, AttemptLimit
<1>4. IdleBack \in [at : BackSteps, ids : SUBSET Replays, replay : 0..MaxReplay, rows : SUBSET (Labels \cup {"slot"})]
  BY <1>1 DEF IdleBack, BackSteps
<1>5. [r \in Replays |-> NoRow] \in [Replays -> [status : Statuses, attempts : 0..AttemptLimit, due : BOOLEAN, old : BOOLEAN, parser : 0..MaxVersion]]
  BY <1>2
<1>a. stamp \in [Replays -> {NoStamp} \cup 0..Cardinality(Labels)] /\ cls \in [Replays -> SUBSET Labels]
      /\ labels \in [Replays -> SUBSET Labels]
  BY DEF IngestInit
<1>b. attempted \in [Kinds -> [Replays -> 0..AttemptLimit]] /\ stats \in [Replays -> 0..MaxVersion]
  BY <1>1 DEF IngestInit, AttemptLimit
<1>c. failures \in 0..MaxFailures /\ version \in 1..MaxVersion
  BY <1>1 DEF IngestInit
<1>6. IngestTypeOK
  BY <1>3, <1>4, <1>5, <1>a, <1>b, <1>c DEF IngestInit, IngestTypeOK
<1>7. DoneIsStored /\ JobHolds /\ Classified
  BY DEF IngestInit, DoneIsStored, JobHolds, Classified, NoRow, IdleJob, Working
<1>8. BackHolds /\ Trying
  BY DEF IngestInit, BackHolds, Trying, IdleBack, BackAt, Drains, AttemptLimit, Kinds
<1> QED
  BY <1>6, <1>7, <1>8 DEF IngestInv
----------------------------------------------------------------------------
\* The job.

RowType == [status : Statuses, attempts : 0..AttemptLimit, due : BOOLEAN, old : BOOLEAN, parser : 0..MaxVersion]

\* A step of the job that ends, or moves on without a table.
LEMMA JobGoes ==
  ASSUME IngestInv, NEW step \in JobSteps, Go(step)
  PROVE  ingester' = [at |-> step, replay |-> ingester.replay, attempts |-> ingester.attempts]
         /\ ingester' \in [at : JobSteps, replay : 0..MaxReplay, attempts : 0..AttemptLimit]
  BY DEF IngestInv, IngestTypeOK, Go

\* The tables of the ingest stay classified, and what the reconciler holds is what it was.
LEMMA BackStays ==
  ASSUME IngestInv, UNCHANGED <<content, back, attempted>>
  PROVE  BackHolds' /\ Trying'
  BY DEF IngestInv, BackHolds, Trying, Drains, BackAt

\* The job ends with a status that is not done.
LEMMA CountedTypes ==
  ASSUME IngestInv
  PROVE  Counted \in 0..AttemptLimit
<1> DEFINE S == {ingester.attempts + 1, AttemptLimit}
<1>1. ingester.attempts \in 0..3 /\ S = {ingester.attempts + 1, 3}
  BY DEF IngestInv, IngestTypeOK, AttemptLimit
<1>2. \E x \in S : \A y \in S : x <= y
  BY <1>1
<1>3. Min(S) \in S /\ \A y \in S : Min(S) <= y
  BY <1>2 DEF Min
<1> QED
  BY <1>1, <1>3 DEF Counted, AttemptLimit

LEMMA EndStep ==
  ASSUME IngestInv, ingester.at \in Working, NEW fields \in RowType, Ends(fields),
         fields.status = "done" => ingester.at \in Written,
         NoTable, UNCHANGED <<world, version, picked, back, attempted>>, reopened' \in BOOLEAN, failures' \in 0..MaxFailures
  PROVE  IngestInv'
<1>1. ingester.replay \in Replays /\ ingester' = IdleJob /\ row' = [row EXCEPT ![ingester.replay] = fields]
  BY DEF Ends, Upsert, IngestInv, JobHolds
<1>2. ingester' \in [at : JobSteps, replay : 0..MaxReplay, attempts : 0..AttemptLimit]
  BY <1>1, VersionsAssumption, LabelsAssumption DEF IdleJob, JobSteps, AttemptLimit
<1>3. row' \in [Replays -> RowType]
  BY <1>1 DEF IngestInv, IngestTypeOK, RowType
<1>4. IngestTypeOK'
  BY <1>2, <1>3 DEF IngestInv, IngestTypeOK, RowType, NoTable, source, derived, world
<1>5. DoneIsStored'
  BY <1>1 DEF IngestInv, IngestTypeOK, DoneIsStored, JobHolds, NoTable, source
<1>6. JobHolds' /\ Classified'
  BY <1>1 DEF IngestInv, JobHolds, Classified, IdleJob, Working, NoTable, source, derived, world
<1> QED
  BY <1>4, <1>5, <1>6, BackStays DEF IngestInv, world

\* The job goes on to a step at which it holds a replay.
LEMMA GoStep ==
  ASSUME IngestInv, ingester.at \in Working, NEW step \in Working, Go(step),
         step \in Written => ingester.replay \in players',
         UNCHANGED <<world, version, picked, row, back, attempted, reopened>>, failures' \in 0..MaxFailures,
         players' \subseteq Replays, \A r \in players : r # ingester.replay => r \in players',
         stats' \in [Replays -> 0..MaxVersion], cls' \in [Replays -> SUBSET Labels], labels' \in [Replays -> SUBSET Labels],
         stamp' \in [Replays -> {NoStamp} \cup 0..Cardinality(Labels)], Classified'
  PROVE  IngestInv'
<1>1. ingester' = [at |-> step, replay |-> ingester.replay, attempts |-> ingester.attempts]
      /\ ingester' \in [at : JobSteps, replay : 0..MaxReplay, attempts : 0..AttemptLimit]
  BY JobGoes DEF Working
<1>2. IngestTypeOK'
  BY <1>1 DEF IngestInv, IngestTypeOK, world
<1>3. DoneIsStored' /\ JobHolds'
  BY <1>1 DEF IngestInv, DoneIsStored, JobHolds
<1> QED
  BY <1>2, <1>3, BackStays DEF IngestInv, world

LEMMA JobStep ==
  ASSUME IngestInv, IngestOne
  PROVE  IngestInv'
<1> USE DEF IngestInv
<1>0. /\ row \in [Replays -> RowType] /\ ingester \in [at : JobSteps, replay : 0..MaxReplay, attempts : 0..AttemptLimit]
      /\ content \in [Replays -> SUBSET Labels] /\ version \in 1..MaxVersion /\ MaxVersion \in Nat /\ failures \in 0..MaxFailures
      /\ MaxFailures \in Nat /\ MaxReplay \in Nat
  BY VersionsAssumption, LabelsAssumption DEF IngestTypeOK, RowType
<1>1. IngestFault => failures' \in 0..MaxFailures
  BY <1>0 DEF IngestFault
<1>2. ingester.at \in Working => ingester.replay \in Replays /\ row[ingester.replay] \in RowType
  BY <1>0 DEF JobHolds
<1>3. Working = {"fetch", "parse", "clear", "players", "cls_clear", "cls", "stamp", "stats_clear", "stats",
                 "labels_clear", "labels", "done", "except"}
      /\ Written = {"cls_clear", "cls", "stamp", "stats_clear", "stats", "labels_clear", "labels", "done"}
  BY DEF Working, Written, JobSteps
<1>4. NoTable => Classified' \/ ~UNCHANGED world
  BY DEF NoTable, source, derived, world, Classified
<1>5. ASSUME StartIngest \/ Find
      PROVE  IngestInv'
  <2>1. UNCHANGED <<format, content, version, picked, back, attempted, players, cls, stamp, stats, labels, failures>>
        /\ reopened' \in BOOLEAN
    BY <1>5 DEF StartIngest, Find, OnlyIngest, NoTable, source, derived, world, IngestTypeOK
  <2>2. Classified' /\ BackHolds' /\ Trying'
    BY <2>1, BackStays DEF Classified
  <2>3. ASSUME ingester' \in [at : JobSteps, replay : 0..MaxReplay, attempts : 0..AttemptLimit],
               row' \in [Replays -> RowType],
               JobHolds', DoneIsStored'
        PROVE  IngestInv'
    BY <2>1, <2>2, <2>3 DEF IngestTypeOK, RowType
  <2>4. CASE StartIngest
    <3>1. ingester'.at = "find" /\ ingester' \in [at : JobSteps, replay : 0..MaxReplay, attempts : 0..AttemptLimit]
      BY <1>0, <2>4 DEF StartIngest, Go, JobSteps
    <3>2. \A r \in Replays : Reopened(row[r]) \in RowType /\ (Reopened(row[r]).status = "done" => row[r].status = "done")
      BY <1>0 DEF Reopened, RowType, Statuses, Retryable
    <3>3. row' \in [Replays -> RowType] /\ \A r \in Replays : row'[r].status = "done" => row[r].status = "done"
      BY <1>0, <2>4, <3>2 DEF StartIngest
    <3>4. DoneIsStored' /\ JobHolds'
      BY <1>3, <2>1, <3>1, <3>3 DEF DoneIsStored, JobHolds
    <3> QED
      BY <2>3, <3>1, <3>3, <3>4
  <2>5. ASSUME NEW r \in Work, ingester' = [at |-> "fetch", replay |-> r, attempts |-> row[r].attempts],
               Upsert(r, [row[r] EXCEPT !.status = "processing"])
        PROVE  IngestInv'
    <3>1. r \in Replays
      <4>1. New \subseteq Replays /\ DueRetries \subseteq Replays
        BY DEF New, DueRetries, IngestTypeOK
      <4> QED
        BY <2>5, <4>1, MaxIn DEF Work
    <3>2. [row[r] EXCEPT !.status = "processing"] \in RowType
      BY <1>0, <3>1 DEF RowType, Statuses
    <3>3. row' \in [Replays -> RowType] /\ row'[r].status = "processing" /\ \A s \in Replays : s # r => row'[s] = row[s]
      BY <1>0, <2>5, <3>1, <3>2 DEF Upsert, RowType
    <3>4. ingester' \in [at : JobSteps, replay : 0..MaxReplay, attempts : 0..AttemptLimit]
      BY <1>0, <2>5, <3>1 DEF JobSteps, Replays, RowType
    <3>5. DoneIsStored' /\ JobHolds'
      BY <1>3, <2>1, <2>5, <3>1, <3>3 DEF DoneIsStored, JobHolds
    <3> QED
      BY <2>3, <3>3, <3>4, <3>5
  <2>6. CASE ingester' = IdleJob /\ row' = row
    <3>1. ingester' \in [at : JobSteps, replay : 0..MaxReplay, attempts : 0..AttemptLimit]
      BY <1>0, <2>6 DEF IdleJob, JobSteps, AttemptLimit
    <3>2. DoneIsStored' /\ JobHolds'
      BY <1>3, <2>1, <2>6 DEF DoneIsStored, JobHolds, IdleJob
    <3> QED
      BY <1>0, <2>3, <2>6, <3>1, <3>2
  <2> QED
    BY <1>5, <2>4, <2>5, <2>6 DEF Find
<1>6. ASSUME NEW fields \in RowType, Ends(fields), ingester.at \in Working,
             fields.status = "done" => ingester.at \in Written,
             OnlyIngest, NoTable, UNCHANGED reopened, failures' \in 0..MaxFailures
      PROVE  IngestInv'
  BY <1>6, EndStep DEF OnlyIngest, IngestTypeOK
<1>7. ASSUME NEW step \in Working, Go(step), ingester.at \in Working, OnlyIngest, UNCHANGED <<row, reopened>>,
             failures' \in 0..MaxFailures,
             step \in Written => ingester.replay \in players', players' \subseteq Replays,
             \A r \in players : r # ingester.replay => r \in players',
             stats' \in [Replays -> 0..MaxVersion], cls' \in [Replays -> SUBSET Labels], labels' \in [Replays -> SUBSET Labels],
             stamp' \in [Replays -> {NoStamp} \cup 0..Cardinality(Labels)], Classified'
      PROVE  IngestInv'
  BY <1>7, GoStep DEF OnlyIngest
<1>8. ASSUME NEW step \in Working, Go(step), ingester.at \in Working, OnlyIngest, UNCHANGED <<row, reopened>>,
             failures' \in 0..MaxFailures,
             step \in Written => ingester.replay \in players, NoTable
      PROVE  IngestInv'
  BY <1>4, <1>7, <1>8 DEF NoTable, source, derived, IngestTypeOK, OnlyIngest
<1>9. CASE Fetch
  <2>0. ingester.at \in Working
    BY <1>3, <1>9 DEF Fetch, Running
  <2>1. Unavailable \in RowType /\ Unavailable.status # "done"
    BY <1>2, <2>0, CountedTypes DEF Unavailable, RowType, Statuses, Retryable
  <2>2. [row[ingester.replay] EXCEPT !.status = "unavailable", !.due = FALSE] \in RowType
    BY <1>2, <2>0 DEF RowType, Statuses, Retryable
  <2>3. [row[ingester.replay] EXCEPT !.status = "unavailable", !.due = FALSE].status = "unavailable"
    BY <1>2, <2>0 DEF RowType
  <2>4. CASE Ends(Unavailable) /\ failures' = failures
    BY <1>0, <1>6, <1>9, <2>0, <2>1, <2>4 DEF Fetch
  <2>5. CASE IngestFault /\ Ends([row[ingester.replay] EXCEPT !.status = "unavailable", !.due = FALSE])
    BY <1>1, <1>6, <1>9, <2>0, <2>2, <2>3, <2>5 DEF Fetch
  <2>6. CASE Go("parse") /\ UNCHANGED <<row, failures>>
    BY <1>0, <1>3, <1>8, <1>9, <2>0, <2>6 DEF Fetch
  <2> QED
    BY <1>9, <2>4, <2>5, <2>6 DEF Fetch
<1>10. CASE Parse
  <2>0. ingester.at \in Working
    BY <1>3, <1>10 DEF Parse, Running
  <2>1. Unparsed \in RowType /\ Unparsed.status # "done"
    BY <1>2, <2>0, CountedTypes DEF Unparsed, RowType, Statuses, Retryable
  <2> DEFINE shelved == [row[ingester.replay] EXCEPT !.status = "pending_parser_update", !.parser = version]
  <2>2. shelved \in RowType /\ shelved.status = "pending_parser_update"
    <3>1. version \in 0..MaxVersion /\ row[ingester.replay] \in RowType /\ "pending_parser_update" \in Statuses
      BY <1>0, <1>2, <2>0 DEF Statuses
    <3> QED
      BY <3>1 DEF RowType
  <2>3. CASE Go("clear") /\ UNCHANGED <<row, failures>>
    BY <1>0, <1>3, <1>8, <1>10, <2>0, <2>3 DEF Parse
  <2>4. CASE Ends(Unparsed) /\ failures' = failures
    BY <1>0, <1>6, <1>10, <2>0, <2>1, <2>4 DEF Parse
  <2>5. CASE Ends(shelved) /\ (failures' = failures \/ IngestFault)
    <3> HIDE DEF shelved
    <3> QED
      BY <1>0, <1>1, <1>6, <1>10, <2>0, <2>2, <2>5 DEF Parse
  <2> QED
    BY <1>10, <2>3, <2>4, <2>5 DEF Parse
<1>11. CASE Clear \/ WritePlayers
  <2>1. ingester.at \in Working /\ players' \subseteq Replays /\ (\A r \in players : r # ingester.replay => r \in players')
        /\ OnlyIngest /\ UNCHANGED <<row, cls, stamp, stats, labels, reopened, failures>>
    BY <1>2, <1>3, <1>11 DEF Clear, WritePlayers, Running, IngestTypeOK, derived
  <2>2. Classified'
    BY <2>1 DEF Classified, OnlyIngest, world
  <2>3. Go("players") \/ (Go("cls_clear") /\ ingester.replay \in players')
    BY <1>11 DEF Clear, WritePlayers
  <2> QED
    BY <1>0, <1>3, <1>7, <2>1, <2>2, <2>3 DEF IngestTypeOK
<1>12. CASE ClearResults \/ WriteResults \/ Stamp \/ ClearStats \/ WriteStats \/ ClearLabels \/ WriteLabels
  <2>1. ingester.at \in Written /\ ingester.at \in Working /\ ingester.replay \in Replays /\ ingester.replay \in players /\ OnlyIngest
        /\ UNCHANGED <<content, row, players, reopened, failures>>
    BY <1>2, <1>3, <1>12 DEF ClearResults, WriteResults, Stamp, ClearStats, WriteStats, ClearLabels,
                             WriteLabels, Running, JobHolds, derived, source, OnlyIngest, world
  <2>2. PICK step \in Written : Go(step) /\ step \in Working
    BY <1>3, <1>12 DEF ClearResults, WriteResults, Stamp, ClearStats, WriteStats, ClearLabels,
                       WriteLabels
  <2>3. /\ cls' = cls \/ \E c \in {{}, content[ingester.replay]} : cls' = [cls EXCEPT ![ingester.replay] = c]
        /\ labels' = labels \/ \E c \in {{}, content[ingester.replay]} : labels' = [labels EXCEPT ![ingester.replay] = c]
        /\ stats' = stats \/ \E c \in {0, version} : stats' = [stats EXCEPT ![ingester.replay] = c]
        /\ stamp' = stamp \/ stamp' = [stamp EXCEPT ![ingester.replay] = Cardinality(content[ingester.replay])]
    BY <1>12 DEF ClearResults, WriteResults, Stamp, ClearStats, WriteStats, ClearLabels,
                 WriteLabels, derived, source
  <2>4. Cardinality(content[ingester.replay]) \in 0..Cardinality(Labels) /\ content[ingester.replay] \in SUBSET Labels
    BY <1>0, <2>1, Sizes
  <2>5. stats' \in [Replays -> 0..MaxVersion] /\ cls' \in [Replays -> SUBSET Labels] /\ labels' \in [Replays -> SUBSET Labels]
        /\ stamp' \in [Replays -> {NoStamp} \cup 0..Cardinality(Labels)]
    <3>1. stats' \in [Replays -> 0..MaxVersion]
      <4>1. stats \in [Replays -> 0..MaxVersion] /\ {0, version} \subseteq 0..MaxVersion
        BY <1>0 DEF IngestTypeOK
      <4>2. \A c \in 0..MaxVersion : [stats EXCEPT ![ingester.replay] = c] \in [Replays -> 0..MaxVersion]
        BY <4>1
      <4> QED
        BY <2>3, <4>1, <4>2
    <3>2. cls' \in [Replays -> SUBSET Labels]
      BY <1>0, <2>3, <2>4 DEF IngestTypeOK
    <3>3. labels' \in [Replays -> SUBSET Labels]
      BY <1>0, <2>3, <2>4 DEF IngestTypeOK
    <3>4. stamp' \in [Replays -> {NoStamp} \cup 0..Cardinality(Labels)]
      BY <1>0, <2>3, <2>4 DEF IngestTypeOK
    <3> QED
      BY <3>1, <3>2, <3>3, <3>4
  <2>6. Classified'
    BY <2>1, <2>3 DEF Classified, IngestTypeOK
  <2> QED
    BY <1>0, <1>7, <2>1, <2>2, <2>5, <2>6 DEF IngestTypeOK
<1>13. CASE MarkDone
  <2> DEFINE fields == [row[ingester.replay] EXCEPT !.status = "done", !.attempts = Counted, !.parser = version]
  <2>0. ingester.at \in Working /\ ingester.at \in Written
    BY <1>3, <1>13 DEF MarkDone, Running
  <2>1. fields \in RowType
    <3>1. version \in 0..MaxVersion /\ row[ingester.replay] \in RowType /\ "done" \in Statuses
      BY <1>0, <1>2, <2>0 DEF Statuses
    <3> QED
      BY <3>1, CountedTypes DEF RowType
  <2> HIDE DEF fields
  <2> QED
    BY <1>0, <1>6, <1>13, <2>0, <2>1 DEF MarkDone, fields
<1>14. CASE Except
  <2> DEFINE fields == [row[ingester.replay] EXCEPT !.status = "parse_failed", !.attempts = Counted, !.due = FALSE]
  <2>0. ingester.at \in Working
    BY <1>3, <1>14 DEF Except, Running
  <2>1. fields \in RowType /\ fields.status = "parse_failed"
    BY <1>2, <2>0, CountedTypes DEF RowType, Statuses, Retryable
  <2>2. Ends(fields)
    BY <1>14 DEF Except
  <2> HIDE DEF fields
  <2> QED
    BY <1>0, <1>6, <1>14, <2>0, <2>1, <2>2 DEF Except
<1> QED
  BY <1>5, <1>9, <1>10, <1>11, <1>12, <1>13, <1>14 DEF IngestOne

LEMMA JobFailsStep ==
  ASSUME IngestInv, JobFails
  PROVE  IngestInv'
<1>0. /\ failures' \in 0..MaxFailures
      /\ UNCHANGED <<world, version, picked, back, attempted, row, reopened, players, cls, stamp, stats, labels>>
  BY VersionsAssumption, LabelsAssumption DEF IngestInv, IngestTypeOK, IngestFault, JobFails, NoTable, source, derived
<1>1. Classified'
  BY <1>0 DEF IngestInv, Classified, world
<1>2. Working = {"fetch", "parse", "clear", "players", "cls_clear", "cls", "stamp", "stats_clear", "stats",
                 "labels_clear", "labels", "done", "except"}
      /\ Written = {"cls_clear", "cls", "stamp", "stats_clear", "stats", "labels_clear", "labels", "done"}
  BY DEF Working, Written, JobSteps
<1>3. CASE ingester' = IdleJob
  <2>1. ingester' \in [at : JobSteps, replay : 0..MaxReplay, attempts : 0..AttemptLimit]
    BY <1>3, VersionsAssumption, LabelsAssumption DEF IdleJob, JobSteps, AttemptLimit
  <2>2. IngestTypeOK'
    BY <1>0, <2>1 DEF IngestInv, IngestTypeOK, world
  <2>3. DoneIsStored' /\ JobHolds'
    BY <1>0, <1>2, <1>3 DEF IngestInv, DoneIsStored, JobHolds, IdleJob
  <2> QED
    BY <1>0, <1>1, <2>2, <2>3, BackStays DEF IngestInv, world
<1>4. ASSUME NEW step \in Working, Go(step), ingester.at \in Working, step \in Written => ingester.at \in Written
      PROVE  IngestInv'
  <2>1. step \in Written => ingester.replay \in players
    BY <1>4 DEF IngestInv, JobHolds
  <2> QED
    BY <1>0, <1>1, <1>4, <2>1, GoStep DEF IngestInv, IngestTypeOK
<1> QED
  BY <1>2, <1>3, <1>4 DEF JobFails
----------------------------------------------------------------------------
\* The reconciler.

BackType == [at : BackSteps, ids : SUBSET Replays, replay : 0..MaxReplay, rows : SUBSET (Labels \cup {"slot"})]
TriedType == [Kinds -> [Replays -> 0..AttemptLimit]]

\* Whatever the reconciler does to its own, the rest of the invariant needs only its tables.
LEMMA BackKeeps ==
  ASSUME IngestInv, OnlyBack, failures' \in 0..MaxFailures, back' \in BackType, attempted' \in TriedType,
         stats' \in [Replays -> 0..MaxVersion],
         labels' = labels \/ \E r \in Replays : \E c \in {{}, content[r]} : labels' = [labels EXCEPT ![r] = c],
         BackHolds', Trying'
  PROVE  IngestInv'
<1>1. content \in [Replays -> SUBSET Labels] /\ labels \in [Replays -> SUBSET Labels]
  BY DEF IngestInv, IngestTypeOK
<1>2. labels' \in [Replays -> SUBSET Labels] /\ \A r \in Replays : labels'[r] \in {labels[r], {}, content[r]}
  BY <1>1
<1>3. UNCHANGED <<format, content, version, picked, row, players, cls, stamp, reopened, ingester>>
  BY DEF OnlyBack, world, source
<1>4. IngestTypeOK'
  BY <1>2, <1>3 DEF IngestInv, IngestTypeOK, BackType, TriedType
<1>5. Classified' /\ DoneIsStored' /\ JobHolds'
  BY <1>2, <1>3 DEF IngestInv, Classified, DoneIsStored, JobHolds
<1> QED
  BY <1>4, <1>5 DEF IngestInv

\* What is drained of a kind no longer holds a replay.
LEMMA DrainedStep ==
  ASSUME IngestInv, NEW kind \in Kinds, Drained(kind), Drains(kind),
         BackSucceeded(kind) \/ BackFailed(kind) \/ attempted' = attempted, back.replay \in Replays
  PROVE  back' \in BackType /\ attempted' \in TriedType /\ BackHolds' /\ Trying'
<1>1. back' = [at |-> kind, ids |-> back.ids, replay |-> 0, rows |-> {}]
  BY DEF Drained, IngestInv, IngestTypeOK
<1>2. back.ids \subseteq Replays /\ kind \in BackSteps /\ 0 \in 0..MaxReplay /\ 0 \notin Replays
  <2>1. back.ids \subseteq Replays /\ kind \in BackSteps
    BY DEF IngestInv, IngestTypeOK, Kinds, BackSteps
  <2> QED
    BY <2>1, VersionsAssumption, LabelsAssumption DEF Replays
<1>3. back' \in BackType
  BY <1>1, <1>2 DEF BackType
<1>4. attempted[kind] \in [Replays -> 0..AttemptLimit] /\ attempted[kind][back.replay] < AttemptLimit
  BY DEF IngestInv, IngestTypeOK, Trying
<1> DEFINE to(n) == attempted' = [attempted EXCEPT ![kind][back.replay] = n]
<1>5. attempted' = attempted \/ \E n \in 0..AttemptLimit : to(n)
  <2>1. attempted[kind][back.replay] + 1 \in 0..AttemptLimit /\ 0 \in 0..AttemptLimit
    BY <1>4 DEF AttemptLimit
  <2> QED
    BY <2>1 DEF BackSucceeded, BackFailed
<1>6. attempted' \in TriedType
  <2>1. attempted \in TriedType
    BY DEF IngestInv, IngestTypeOK, TriedType
  <2>2. ASSUME NEW n \in 0..AttemptLimit, to(n) PROVE attempted' \in TriedType
    BY <2>1, <2>2 DEF TriedType
  <2> QED
    BY <1>5, <2>1, <2>2
<1>7. BackHolds'
  BY <1>1, <1>2 DEF BackHolds, BackAt, Kinds
<1>8. Trying'
  <2>1. ASSUME NEW r \in Replays, r \in back.ids PROVE attempted'[kind][r] < AttemptLimit
    <3>1. attempted[kind][r] < AttemptLimit /\ r # back.replay
      BY <2>1 DEF IngestInv, Trying, BackHolds
    <3> QED
      BY <1>5, <2>1, <3>1 DEF IngestInv, IngestTypeOK
  <2>2. \A k \in Kinds : Drains(k)' => k = kind
    BY <1>1 DEF Drains, Kinds
  <2> QED
    BY <1>1, <1>2, <2>1, <2>2 DEF Trying
<1> QED
  BY <1>3, <1>6, <1>7, <1>8

\* A step of the reconciler that takes up a replay, or goes on with the one it holds.
LEMMA HeldStep ==
  ASSUME IngestInv, back' \in BackType, attempted' = attempted, BackHolds',
         \A kind \in Kinds : Drains(kind)' =>
           \A r \in Replays : r \in back'.ids \/ r = back'.replay =>
             (Drains(kind) /\ (r \in back.ids \/ r = back.replay)) \/ attempted[kind][r] < AttemptLimit
  PROVE  attempted' \in TriedType /\ Trying'
  BY DEF IngestInv, IngestTypeOK, TriedType, Trying

LEMMA BackStep ==
  ASSUME IngestInv, Back \/ BackFails
  PROVE  IngestInv'
<1>0. /\ content \in [Replays -> SUBSET Labels] /\ version \in 0..MaxVersion /\ 0 \in 0..MaxVersion /\ failures' \in 0..MaxFailures
      /\ back \in BackType /\ OnlyBack /\ MaxReplay \in Nat /\ 0 \notin Replays /\ Replays \subseteq 0..MaxReplay
      /\ stats \in [Replays -> 0..MaxVersion]
  BY VersionsAssumption, LabelsAssumption DEF IngestInv, IngestTypeOK, BackType, Back, BackFails, IngestFault, StartStats, StartLabels,
         EndPass, ReadPlayers, RewriteStats, ReadResults, Trust, RewriteLabels, Replays
<1>1. {"idle", "stats", "stats_clear", "stats_write", "labels", "labels_trust", "labels_clear", "labels_write"} = BackSteps
      /\ Kinds = {"stats", "labels"}
  BY DEF BackSteps, Kinds
<1>2. back.at \in {"stats_clear", "stats_write", "labels_trust", "labels_clear", "labels_write"} => back.replay \in Replays
  BY <1>0, <1>1 DEF IngestInv, BackHolds, BackType, Replays
<1>3. ASSUME back' \in BackType, attempted' \in TriedType, UNCHANGED <<stats, labels>>, BackHolds', Trying'
      PROVE  IngestInv'
  BY <1>0, <1>3, BackKeeps
<1>4. CASE StartStats \/ StartLabels \/ EndPass
  <2>1. PICK at \in {"idle", "stats", "labels"}, ids \in SUBSET Replays :
          /\ back' = [at |-> at, ids |-> ids, replay |-> 0, rows |-> {}]
          /\ \A kind \in Kinds, r \in ids : at = kind => attempted[kind][r] < AttemptLimit
          /\ at = "idle" => ids = {}
    <3>1. CASE StartStats
      <4> DEFINE ids == StatsPending \cap Unquarantined("stats")
      <4>1. ids \in SUBSET Replays /\ \A r \in ids : attempted["stats"][r] < AttemptLimit
        BY DEF Unquarantined
      <4>2. back' = [at |-> "stats", ids |-> ids, replay |-> 0, rows |-> {}]
        BY <3>1 DEF StartStats, IdleBack
      <4> HIDE DEF ids
      <4> QED
        BY <4>1, <4>2
    <3>2. CASE StartLabels
      <4> DEFINE ids == LabelsPending \cap Unquarantined("labels")
      <4>1. ids \in SUBSET Replays /\ \A r \in ids : attempted["labels"][r] < AttemptLimit
        BY DEF Unquarantined
      <4>2. back' = [at |-> "labels", ids |-> ids, replay |-> 0, rows |-> {}]
        BY <3>2 DEF StartLabels, IdleBack
      <4> HIDE DEF ids
      <4> QED
        BY <4>1, <4>2
    <3>3. CASE EndPass
      BY <3>3 DEF EndPass, IdleBack
    <3> QED
      BY <1>4, <3>1, <3>2, <3>3
  <2>2. back' \in BackType /\ BackHolds'
    BY <1>0, <1>1, <2>1 DEF BackType, BackHolds, BackAt
  <2>3. attempted' = attempted /\ UNCHANGED <<stats, labels>>
    BY <1>4 DEF StartStats, StartLabels, EndPass, derived
  <2>4. Trying' /\ attempted' \in TriedType
    <3>1. \A kind \in Kinds : Drains(kind)' => back'.at = kind
      BY <1>1, <2>1 DEF Drains
    <3> QED
      BY <1>0, <2>1, <2>3, <3>1 DEF Trying, IngestInv, IngestTypeOK, TriedType
  <2> QED
    BY <1>3, <2>2, <2>3, <2>4
<1>5. CASE ReadPlayers \/ ReadResults
  <2>0. back.ids # {} /\ back.ids \subseteq Replays /\ Latest \in back.ids /\ attempted' = attempted /\ UNCHANGED <<stats, labels>>
    BY <1>0, <1>5, MaxIn DEF ReadPlayers, ReadResults, Latest, BackType, derived
  <2>1. PICK at \in BackSteps, rows \in {{}, {"slot"}, cls[Latest]} :
          /\ back' = [at |-> at, ids |-> back.ids \ {Latest}, replay |-> Latest, rows |-> rows]
          /\ \/ BackAt("stats") /\ at = "stats_clear" /\ rows \in {{}, {"slot"}}
             \/ BackAt("labels") /\ rows = cls[Latest] /\ at = IF cls[Latest] = {} THEN "labels_trust" ELSE "labels_clear"
    BY <1>1, <1>5 DEF ReadPlayers, ReadResults
  <2>2. cls[Latest] \in {{}, content[Latest]} /\ content[Latest] \subseteq Labels
    BY <1>0, <2>0 DEF IngestInv, Classified
  <2>3. back' \in BackType /\ BackHolds'
    <3>1. UNCHANGED content
      BY <1>0 DEF OnlyBack, world
    <3> QED
      BY <1>0, <2>0, <2>1, <2>2, <3>1 DEF BackType, BackHolds, BackAt
  <2>4. Trying' /\ attempted' \in TriedType
    <3>1. \A kind \in Kinds : Drains(kind)' => Drains(kind)
      BY <1>1, <2>1 DEF Drains, BackAt
    <3> QED
      BY <2>0, <2>1, <2>3, <3>1, HeldStep
  <2> QED
    BY <1>3, <2>0, <2>3, <2>4
<1>6. ASSUME NEW at \in BackSteps, back' = [back EXCEPT !.at = at], attempted' = attempted, back.at # "idle",
             \A kind \in Kinds : Drains(kind)' <=> Drains(kind), BackHolds'
      PROVE  back' \in BackType /\ attempted' \in TriedType /\ Trying'
  <2>1. back' \in BackType /\ back'.ids = back.ids /\ back'.replay = back.replay
    BY <1>0, <1>6 DEF BackType
  <2> QED
    BY <1>6, <2>1, HeldStep
<1>7. CASE RewriteStats
  <2>0. back.at \in {"stats_clear", "stats_write"} /\ back.replay \in Replays /\ Drains("stats") /\ "stats" \in Kinds
    BY <1>1, <1>2, <1>7 DEF RewriteStats, BackAt, Drains
  <2>1. stats' \in [Replays -> 0..MaxVersion] /\ labels' = labels
    <3>1. \A c \in 0..MaxVersion : [stats EXCEPT ![back.replay] = c] \in [Replays -> 0..MaxVersion]
      BY <1>0, <2>0
    <3> QED
      BY <1>0, <1>7, <3>1 DEF RewriteStats
  <2>2. CASE Drained("stats") /\ BackSucceeded("stats")
    BY <1>0, <2>0, <2>1, <2>2, DrainedStep, BackKeeps
  <2>3. CASE back' = [back EXCEPT !.at = "stats_write"] /\ attempted' = attempted
    <3>1. BackHolds' /\ \A kind \in Kinds : Drains(kind)' <=> Drains(kind)
      BY <1>0, <1>1, <2>0, <2>3 DEF IngestInv, BackHolds, BackType, Drains, BackAt
    <3> QED
      BY <1>0, <1>1, <1>6, <2>0, <2>1, <2>3, <3>1, BackKeeps
  <2> QED
    BY <1>7, <2>2, <2>3 DEF RewriteStats
<1>8. CASE Trust
  <2>0. BackAt("labels_trust") /\ back.replay \in Replays /\ Drains("labels") /\ "labels" \in Kinds /\ UNCHANGED <<stats, labels>>
    BY <1>1, <1>2, <1>8 DEF Trust, BackAt, Drains, derived
  <2>1. CASE Drained("labels") /\ BackFailed("labels")
    BY <1>3, <2>0, <2>1, DrainedStep
  <2>2. CASE Trustworthy(back.replay) /\ back' = [back EXCEPT !.at = "labels_clear"] /\ attempted' = attempted
    <3>1. back.rows = {} /\ content[back.replay] = {}
      <4>1. stamp[back.replay] = 0 /\ stamp[back.replay] \in {NoStamp, Cardinality(content[back.replay])}
        BY <2>0, <2>2 DEF Trustworthy, IngestInv, Classified
      <4>2. Cardinality(content[back.replay]) = 0
        BY <4>1 DEF NoStamp
      <4> QED
        BY <1>0, <2>0, <4>2, Sizes DEF IngestInv, BackHolds
    <3>2. UNCHANGED content
      BY <1>0 DEF OnlyBack, world
    <3>3. BackHolds' /\ \A kind \in Kinds : Drains(kind)' <=> Drains(kind)
      BY <1>0, <1>1, <2>0, <2>2, <3>1, <3>2 DEF IngestInv, BackHolds, BackType, Drains, BackAt
    <3> QED
      BY <1>1, <1>3, <1>6, <2>0, <2>2, <3>3 DEF BackAt
  <2> QED
    BY <1>8, <2>1, <2>2 DEF Trust
<1>9. CASE RewriteLabels
  <2>0. back.at \in {"labels_clear", "labels_write"} /\ back.replay \in Replays /\ Drains("labels") /\ "labels" \in Kinds
        /\ stats' = stats /\ back.rows = content[back.replay] /\ UNCHANGED content
    BY <1>0, <1>1, <1>2, <1>9 DEF RewriteLabels, BackAt, Drains, IngestInv, BackHolds, OnlyBack, world
  <2>1. \E c \in {{}, content[back.replay]} : labels' = [labels EXCEPT ![back.replay] = c]
    BY <1>9, <2>0 DEF RewriteLabels
  <2>2. CASE Drained("labels") /\ BackSucceeded("labels")
    BY <1>0, <2>0, <2>1, <2>2, DrainedStep, BackKeeps
  <2>3. CASE back' = [back EXCEPT !.at = "labels_write"] /\ attempted' = attempted
    <3>1. BackHolds' /\ \A kind \in Kinds : Drains(kind)' <=> Drains(kind)
      BY <1>0, <1>1, <2>0, <2>3 DEF IngestInv, BackHolds, BackType, Drains, BackAt
    <3> QED
      BY <1>0, <1>1, <1>6, <2>0, <2>1, <2>3, <3>1, BackKeeps
  <2> QED
    BY <1>9, <2>2, <2>3 DEF RewriteLabels
<1>10. CASE BackFails
  <2>0. UNCHANGED <<stats, labels>>
    BY <1>10 DEF BackFails, derived
  <2>1. CASE BackAt("stats") /\ back' = [back EXCEPT !.ids = {}] /\ attempted' = attempted
    <3>1. back' \in BackType /\ back'.at = back.at /\ back'.ids = {} /\ back'.replay = back.replay /\ back'.rows = back.rows
      BY <1>0, <2>1 DEF BackType
    <3>2. BackHolds' /\ \A kind \in Kinds : Drains(kind)' <=> Drains(kind)
      BY <1>1, <2>1, <3>1 DEF IngestInv, BackHolds, Drains, BackAt
    <3> QED
      BY <1>3, <2>0, <2>1, <3>1, <3>2, HeldStep
  <2>2. CASE BackAt("labels") /\ back' = IdleBack /\ attempted' = attempted
    <3>1. back' \in BackType /\ BackHolds' /\ \A kind \in Kinds : ~Drains(kind)'
      BY <1>0, <1>1, <2>2 DEF BackType, BackHolds, BackAt, IdleBack, Drains
    <3> QED
      BY <1>3, <2>0, <2>2, <3>1, HeldStep
  <2>3. ASSUME NEW kind \in Kinds, Drains(kind), Drained(kind), BackFailed(kind), back.replay \in Replays
        PROVE  IngestInv'
    BY <1>3, <2>0, <2>3, DrainedStep
  <2> QED
    BY <1>1, <1>2, <1>10, <2>1, <2>2, <2>3 DEF BackFails, Drains, BackAt
<1> QED
  BY <1>4, <1>5, <1>7, <1>8, <1>9, <1>10 DEF Back

\* What happens outside, and restarts.
LEMMA WorldStep ==
  ASSUME IngestInv, IngestRestart \/ (\E r \in Replays : Pick(r) \/ Late(r) \/ Age(r))
  PROVE  IngestInv'
<1>1. CASE IngestRestart
  <2>1. ingester' = IdleJob /\ back' = IdleBack /\ attempted' = [k \in Kinds |-> [r \in Replays |-> 0]] /\ reopened' = FALSE
        /\ UNCHANGED <<format, content, picked, row, players, cls, stamp, stats, labels>>
    BY <1>1 DEF IngestRestart, world, source, derived
  <2>2. version' \in 1..MaxVersion /\ failures' \in 0..MaxFailures
    BY <1>1, VersionsAssumption, LabelsAssumption DEF IngestRestart, IngestFault, IngestInv, IngestTypeOK
  <2>3. ingester' \in [at : JobSteps, replay : 0..MaxReplay, attempts : 0..AttemptLimit] /\ back' \in BackType /\ attempted' \in TriedType
    BY <2>1, VersionsAssumption, LabelsAssumption DEF IdleJob, JobSteps, AttemptLimit, IdleBack, BackSteps, BackType, TriedType
  <2>4. IngestTypeOK'
    BY <2>1, <2>2, <2>3 DEF IngestInv, IngestTypeOK, BackType, TriedType
  <2> QED
    BY <2>1, <2>4 DEF IngestInv, DoneIsStored, JobHolds, Classified, BackHolds, Trying, Drains, Kinds, BackAt,
                      IdleJob, IdleBack, Working
<1>2. ASSUME NEW r \in Replays, Pick(r)
      PROVE  IngestInv'
  BY <1>2, BackStays DEF IngestInv, IngestTypeOK, Pick, DoneIsStored, JobHolds, Classified, world, source,
                         derived
<1>3. ASSUME NEW r \in Replays, Late(r) \/ Age(r)
      PROVE  IngestInv'
  <2>0. row \in [Replays -> RowType]
    BY DEF IngestInv, IngestTypeOK, RowType
  <2>1. row' \in [Replays -> RowType] /\ \A s \in Replays : row'[s].status = row[s].status
    <3>1. row[r] \in RowType
      BY <1>3, <2>0
    <3>2. PICK fields \in RowType : row' = [row EXCEPT ![r] = fields] /\ fields.status = row[r].status
      <4>1. [row[r] EXCEPT !.due = TRUE] \in RowType /\ [row[r] EXCEPT !.old = TRUE] \in RowType
        BY <3>1 DEF RowType
      <4>2. [row[r] EXCEPT !.due = TRUE].status = row[r].status /\ [row[r] EXCEPT !.old = TRUE].status = row[r].status
        BY <3>1 DEF RowType
      <4>3. row' = [row EXCEPT ![r] = [row[r] EXCEPT !.due = TRUE]] \/ row' = [row EXCEPT ![r] = [row[r] EXCEPT !.old = TRUE]]
        BY <1>3 DEF Late, Age
      <4> QED
        BY <4>1, <4>2, <4>3
    <3> QED
      BY <2>0, <3>2
  <2>2. UNCHANGED <<format, content, version, picked, players, cls, stamp, stats, labels, reopened, ingester, back, attempted, failures>>
    BY <1>3 DEF Late, Age, world, source, derived
  <2>3. IngestTypeOK'
    BY <2>1, <2>2 DEF IngestInv, IngestTypeOK, RowType
  <2> QED
    BY <2>1, <2>2, <2>3, BackStays DEF IngestInv, DoneIsStored, JobHolds, Classified
<1> QED
  BY <1>1, <1>2, <1>3

LEMMA NextIngest ==
  ASSUME IngestInv, [IngestNext]_ingestVars
  PROVE  IngestInv'
<1>1. ASSUME IngestInv, UNCHANGED ingestVars PROVE IngestInv'
  BY <1>1, BackStays DEF ingestVars, world, source, derived, IngestInv, IngestTypeOK, DoneIsStored, JobHolds,
                         Classified
<1> QED
  BY <1>1, JobStep, JobFailsStep, BackStep, WorldStep DEF IngestNext

\* Every variable keeps its type.
THEOREM IngestTypes == IngestSpec => []IngestTypeOK
<1>0. (IngestInit => IngestInv) /\ (IngestInv /\ [IngestNext]_ingestVars => IngestInv')
  BY InitIngest, NextIngest
<1>1. IngestInv => IngestTypeOK
  BY DEF IngestInv
<1> QED
  BY <1>0, <1>1, PTL DEF IngestSpec

\* However ingests fail, are repeated or interrupted, a replay that is done has its rows.
THEOREM DoneKeepsRows == IngestSpec => []DoneIsStored
<1>0. (IngestInit => IngestInv) /\ (IngestInv /\ [IngestNext]_ingestVars => IngestInv')
  BY InitIngest, NextIngest
<1>1. IngestInv => DoneIsStored
  BY DEF IngestInv
<1> QED
  BY <1>0, <1>1, PTL DEF IngestSpec

\* A classification leaves the tables only while its replay is ingested again, or from the hands of a
\* reconciler that fails.
LEMMA KnownStays ==
  ASSUME IngestInv, IngestInv', [IngestNext]_ingestVars, NEW r \in Replays, Known(r),
         ingester.replay # r, ~HandsFail(r)
  PROVE  Known(r)'
<1>0. content[r] \subseteq Labels /\ content' = content /\ cls[r] \in {{}, content[r]} /\ labels[r] \in {{}, content[r]}
      /\ cls'[r] \in {{}, content[r]} /\ labels'[r] \in {{}, content[r]}
  <2>1. content' = content
    BY DEF IngestNext, ingestVars, world, IngestOne, StartIngest, Find, Fetch, Parse, Clear, WritePlayers,
           ClearResults, WriteResults, Stamp, ClearStats, WriteStats, ClearLabels, WriteLabels,
           MarkDone, Except, OnlyIngest, JobFails, Back, BackFails, StartStats, StartLabels, EndPass,
           ReadPlayers, RewriteStats, ReadResults, Trust, RewriteLabels, OnlyBack, IngestRestart,
           Pick, Late, Age
  <2> QED
    BY <2>1 DEF IngestInv, IngestTypeOK, Classified
<1>1. CASE content[r] = {}
  BY <1>0, <1>1 DEF Known
<1>2. CASE content[r] # {} /\ cls'[r] = cls[r] /\ labels'[r] = labels[r] /\ back' = back
  BY <1>0, <1>2 DEF Known
<1>3. CASE content[r] # {} /\ UNCHANGED <<cls, labels>>
  <2>1. CASE content[r] \in {cls[r], labels[r]}
    BY <1>0, <1>3, <2>1 DEF Known
  <2>2. CASE content[r] \notin {cls[r], labels[r]}
    <3>1. back.replay = r /\ back.rows = content[r] /\ back'.replay = r
      BY <1>3, <2>2 DEF Known, HandsFail
    <3>2. back.at \in {"labels_clear", "labels_write"}
      <4>1. r # 0
        BY DEF Replays
      <4>2. content[r] # {"slot"}
        BY <1>0, VersionsAssumption, LabelsAssumption
      <4>3. back.at \in BackSteps
        BY DEF IngestInv, IngestTypeOK
      <4> QED
        BY <1>3, <3>1, <4>1, <4>2, <4>3 DEF IngestInv, BackHolds, BackSteps, BackAt
    <3>3. back'.rows = content[r]
      <4>1. ASSUME Back \/ BackFails PROVE back' = IdleBack \/ Drained("stats") \/ Drained("labels") \/ back'.rows = back.rows
        BY <3>2, <4>1 DEF Back, BackFails, StartStats, StartLabels, EndPass, ReadPlayers,
                          RewriteStats, ReadResults, Trust, RewriteLabels, BackAt, IngestInv, IngestTypeOK
      <4>2. back'.replay # 0
        BY <3>1 DEF Replays
      <4>3. IdleBack.replay = 0 /\ \A kind : Drained(kind) => back'.replay = 0
        BY DEF IdleBack, Drained, IngestInv, IngestTypeOK
      <4>4. Back \/ BackFails \/ back' = back \/ back' = IdleBack
        BY DEF IngestNext, ingestVars, IngestOne, StartIngest, Find, Fetch, Parse, Clear, WritePlayers,
               ClearResults, WriteResults, Stamp, ClearStats, WriteStats, ClearLabels,
               WriteLabels, MarkDone, Except, OnlyIngest, JobFails, IngestRestart, Pick, Late, Age
      <4> QED
        BY <3>1, <4>1, <4>2, <4>3, <4>4
    <3> QED
      BY <1>0, <3>1, <3>3 DEF Known
  <2> QED
    BY <2>1, <2>2
<1>4. CASE content[r] # {} /\ RewriteLabels
  <2>1. cls' = cls /\ back.at \in {"labels_clear", "labels_write"} /\ back.replay \in Replays /\ back.rows = content[back.replay]
    <3>1. back.at \in {"labels_clear", "labels_write"} /\ cls' = cls
      BY <1>4 DEF RewriteLabels, BackAt, OnlyBack, source
    <3>2. back.replay \in 0..MaxReplay /\ back.replay # 0
      BY <3>1 DEF IngestInv, IngestTypeOK, BackHolds
    <3> QED
      BY <3>1, <3>2, VersionsAssumption, LabelsAssumption DEF IngestInv, BackHolds, Replays
  <2>2. CASE back.replay # r
    <3>1. labels'[r] = labels[r]
      BY <1>4, <2>1, <2>2 DEF RewriteLabels, IngestInv, IngestTypeOK
    <3> QED
      BY <1>0, <2>1, <2>2, <3>1 DEF Known
  <2>3. CASE back.replay = r /\ BackAt("labels_clear")
    <3>1. back' = [back EXCEPT !.at = "labels_write"]
      BY <1>4, <2>1, <2>3 DEF RewriteLabels, BackAt
    <3>2. back'.replay = r /\ back'.rows = content[r]
      BY <2>1, <2>3, <3>1 DEF IngestInv, IngestTypeOK
    <3> QED
      BY <1>0, <3>2 DEF Known
  <2>4. CASE back.replay = r /\ BackAt("labels_write")
    <3>1. labels'[r] = content[r]
      BY <1>4, <2>1, <2>4 DEF RewriteLabels, BackAt, IngestInv, IngestTypeOK
    <3> QED
      BY <1>0, <3>1 DEF Known
  <2> QED
    BY <2>1, <2>2, <2>3, <2>4 DEF BackAt
<1>5. CASE content[r] # {} /\ (ClearResults \/ WriteResults \/ ClearLabels \/ WriteLabels)
  <2>1. cls'[r] = cls[r] /\ labels'[r] = labels[r] /\ back' = back
    BY <1>5 DEF ClearResults, WriteResults, ClearLabels, WriteLabels, OnlyIngest, IngestInv, IngestTypeOK,
                derived, source
  <2> QED
    BY <1>2, <1>5, <2>1
<1>6. UNCHANGED <<cls, labels>> \/ RewriteLabels \/ ClearResults \/ WriteResults \/ ClearLabels \/ WriteLabels
  BY DEF IngestNext, ingestVars, IngestOne, StartIngest, Find, Fetch, Parse, Clear, WritePlayers, Stamp,
         ClearStats, WriteStats, MarkDone, Except, OnlyIngest, NoTable, JobFails, Back, BackFails,
         StartStats, StartLabels, EndPass, ReadPlayers, RewriteStats, ReadResults, Trust,
         OnlyBack, IngestRestart, Pick, Late, Age, source, derived
<1> QED
  BY <1>1, <1>3, <1>4, <1>5, <1>6

\* No step but that of a reconciler that fails between its deletes and its inserts loses the labels of a
\* replay that had them, and of the replay whose ingest is under way nothing is asked.
THEOREM ClassificationStays == IngestSpec => ClassifiedStays
<1>0. (IngestInit => IngestInv) /\ (IngestInv /\ [IngestNext]_ingestVars => IngestInv')
  BY InitIngest, NextIngest
<1>1. IngestInv /\ IngestInv' /\ [IngestNext]_ingestVars
        => [\A r \in Replays : Known(r) /\ ingester.replay # r /\ ~HandsFail(r) => Known(r)']_ingestVars
  BY KnownStays
<1> QED
  BY <1>0, <1>1, PTL DEF IngestSpec, ClassifiedStays
=============================================================================
