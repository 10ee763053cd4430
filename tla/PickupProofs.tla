---------------------------- MODULE PickupProofs ----------------------------
(***************************************************************************)
(* The safety of Pickup, for any people, any queue size, any matches and   *)
(* any number of coroutines.                                               *)
(*                                                                         *)
(* LaunchedOnce and EndsOnce follow from IInv, and nothing about the queue *)
(* is needed: who launches, edits or ends a match is settled by the        *)
(* match's row and by the coroutines that work on it.                      *)
(*                                                                         *)
(* SeatedOnce follows from Seating, which rests on IInv: a place is lost   *)
(* when it moves from one holder to the next, so Seating says of everybody *)
(* who holds him, and of whoever is between two holders which coroutine    *)
(* makes good for it.  Most steps only take places away (Calm); the others *)
(* make people join the queue or start out of it (Joins, StartsOut), swap  *)
(* one player for another (Swaps), publish a match or abort one.           *)
(***************************************************************************)
EXTENDS Pickup, SequenceTheorems, FiniteSetTheorems, WellFoundedInduction, TLAPS

About(m) == {t \in tasks : t.m = m}
Holds(m) == OneLaunch(m) /\ OneEditor(m) /\ OneEnd(m)

\* The shape of rows and coroutines, as far as IInv reads them.
Fields == {"state", "active", "players", "ready", "waiting", "flag", "launches", "ends"}
TaskFields == {"at", "m", "who", "tick", "rest"}
RowShape(r) ==
  /\ DOMAIN r = Fields
  /\ r.active \in BOOLEAN /\ r.waiting \in BOOLEAN /\ r.flag \in BOOLEAN
TaskShape(t) ==
  /\ DOMAIN t = TaskFields
  /\ IF t.at \in {"create", "restart"} THEN t.m = 0 ELSE t.at \in Steps /\ t.m \in MatchIds
Shape ==
  /\ match = [m \in MatchIds |-> match[m]]
  /\ \A m \in MatchIds : RowShape(match[m])
  /\ \A t \in tasks : TaskShape(t)

Strong == Shape /\ IInv

\* Holds(m), of a row r and a set T of coroutines that need not be the present ones.
LaunchingIn(T, m) == {t \in T : t.m = m /\ t.at \in {"checkin", "finish"}}
EditingIn(T, m) == {t \in T : t.m = m /\ t.at \in {"sub", "cancel", "report"}}
LaunchOf(r, T, m) ==
  /\ \A s, t \in LaunchingIn(T, m) : s = t
  /\ r.waiting => r.state \notin {"none", "init"} /\ LaunchingIn(T, m) = {}
  /\ r.state \in {"none", "init"} => LaunchingIn(T, m) = {}
  /\ \/ r.launches = 0
     \/ /\ r.launches = 1
        /\ r.state \notin {"none", "init"} /\ ~r.waiting /\ LaunchingIn(T, m) = {}
EditOf(r, T, m) ==
  /\ \A s, t \in EditingIn(T, m) : s = t
  /\ r.flag <=> EditingIn(T, m) # {}
EndOf(r, T, m) ==
  /\ r.active => r.ends = {} /\ r.state # "none"
  /\ r.state = "none" => r = NoMatch /\ \A t \in T : t.m # m
  /\ "cancelled" \in r.ends => \A t \in EditingIn(T, m) : t.at # "report"
  /\ ~({"recorded", "cancelled"} \subseteq r.ends)
  /\ \A e, f \in r.ends \ {"recorded"} : e = f
HoldsOf(r, T, m) == LaunchOf(r, T, m) /\ EditOf(r, T, m) /\ EndOf(r, T, m)

LEMMA HoldsIsHoldsOf ==
  ASSUME NEW m
  PROVE  /\ Holds(m) <=> HoldsOf(match[m], tasks, m)
         /\ Holds(m)' <=> HoldsOf(match'[m], tasks', m)
BY DEF Holds, HoldsOf, OneLaunch, OneEditor, OneEnd, Launching, Editing,
       LaunchOf, EditOf, EndOf, LaunchingIn, EditingIn

\* The new coroutines and the new row of a step keep their shape.
LEMMA ShapeOfOn ==
  ASSUME NEW at \in Steps, NEW m, NEW who, NEW tick,
         IF at \in {"create", "restart"} THEN m = 0 ELSE m \in MatchIds
  PROVE  TaskShape(On(at, m, who, tick))
BY DEF TaskShape, TaskFields, On

\* A step about m alone: what it leaves as it was keeps its invariant.
LEMMA StepAbout ==
  ASSUME Strong, NEW m \in MatchIds, NEW row,
         match' = [match EXCEPT ![m] = row], RowShape(row),
         \A t \in tasks' : TaskShape(t),
         \A n \in MatchIds \ {m} : About(n)' = About(n),
         HoldsOf(row, tasks', m)
  PROVE  Strong'
<1>1. Shape'
  BY DEF Strong, Shape
<1>2. ASSUME NEW n \in MatchIds, n # m
      PROVE  Holds(n)'
  <2>1. match'[n] = match[n] /\ About(n)' = About(n)
    BY <1>2 DEF Strong, Shape
  <2>2. Launching(n)' = Launching(n) /\ Editing(n)' = Editing(n)
    BY <2>1 DEF About, Launching, Editing
  <2>3. Holds(n)
    BY DEF Strong, IInv, Holds
  <2>4. OneLaunch(n)' /\ OneEditor(n)'
    BY <2>1, <2>2, <2>3 DEF Holds, OneLaunch, OneEditor
  <2>5. (\A t \in tasks : t.m # n) => \A t \in tasks' : t.m # n
    BY <2>1 DEF About
  <2>6. OneEnd(n)'
    BY <2>1, <2>2, <2>3, <2>5 DEF Holds, OneEnd
  <2> QED BY <2>4, <2>6 DEF Holds
<1>3. Holds(m)'
  <2>1. match'[m] = row
    BY DEF Strong, Shape
  <2> QED BY <2>1, HoldsIsHoldsOf
<1>4. IInv'
  BY <1>2, <1>3 DEF IInv, Holds
<1> QED BY <1>1, <1>4 DEF Strong

\* A step that touches no row and no coroutine of a match.
LEMMA StepAside ==
  ASSUME Strong, match' = match, \A t \in tasks' : TaskShape(t),
         \A n \in MatchIds : About(n)' = About(n)
  PROVE  Strong'
<1>1. Shape'
  BY DEF Strong, Shape
<1>2. ASSUME NEW n \in MatchIds
      PROVE  Holds(n)'
  <2>1. match'[n] = match[n] /\ About(n)' = About(n)
    OBVIOUS
  <2>2. Launching(n)' = Launching(n) /\ Editing(n)' = Editing(n)
    BY <2>1 DEF About, Launching, Editing
  <2>3. Holds(n)
    BY DEF Strong, IInv, Holds
  <2>4. OneLaunch(n)' /\ OneEditor(n)'
    BY <2>1, <2>2, <2>3 DEF Holds, OneLaunch, OneEditor
  <2>5. (\A t \in tasks : t.m # n) => \A t \in tasks' : t.m # n
    BY <2>1 DEF About
  <2>6. OneEnd(n)'
    BY <2>1, <2>2, <2>3, <2>5 DEF Holds, OneEnd
  <2> QED BY <2>4, <2>6 DEF Holds
<1>3. IInv'
  BY <1>2 DEF IInv, Holds
<1> QED BY <1>1, <1>3 DEF Strong

\* What Strong says of one match, in one step.
LEMMA StrongGives ==
  ASSUME Strong, NEW m \in MatchIds
  PROVE  RowShape(match[m]) /\ HoldsOf(match[m], tasks, m)
BY HoldsIsHoldsOf DEF Strong, Shape, IInv, Holds

----------------------------------------------------------------------------
\* Steps that touch the queue only, or a match that does not exist yet.

LEMMA InitStrong == Init => Strong
<1> SUFFICES ASSUME Init PROVE Strong
  OBVIOUS
<1>1. Shape
  BY DEF Init, Shape, NoMatch, RowShape, Fields
<1>2. ASSUME NEW m \in MatchIds PROVE OneLaunch(m) /\ OneEditor(m) /\ OneEnd(m)
  BY DEF Init, NoMatch, OneLaunch, OneEditor, OneEnd, Launching, Editing
<1> QED BY <1>1, <1>2 DEF Strong, IInv

\* The coroutine of a start is about no match.
LEMMA StartAside ==
  ASSUME Strong, match' = match, NEW q, NEW at \in {"create", "restart"}, NEW tick, NEW rest,
         Start(q, at, tick, rest, tasks)
  PROVE  Strong'
<1> DEFINE s == [On(at, 0, q, tick) EXCEPT !.rest = rest]
<1>1. tasks' = tasks \cup {s}
  BY DEF Start
<1>2. TaskShape(s) /\ s.m = 0
  BY DEF TaskShape, TaskFields, On
<1>3. \A t \in tasks' : TaskShape(t)
  BY <1>1, <1>2 DEF Strong, Shape
<1>4. ASSUME NEW n \in MatchIds PROVE About(n)' = About(n)
  BY <1>1, <1>2, IdsAssumption DEF About
<1> QED BY <1>3, <1>4, StepAside

LEMMA AddKeeps ==
  ASSUME Strong, NEW u, NEW moderator, Add(u, moderator)
  PROVE  Strong'
<1> DEFINE q == Append(queue, u)
<1>1. match' = match
  BY DEF Add
<1>2. CASE Len(q) = Size
  <2>1. Start(q, "create", FALSE, <<>>, tasks)
    BY <1>2 DEF Add
  <2> QED BY <1>1, <2>1, StartAside
<1>3. CASE Len(q) # Size
  <2>1. tasks' = tasks
    BY <1>3 DEF Add
  <2> QED BY <1>1, <2>1, StepAside DEF Strong, Shape, About
<1> QED BY <1>2, <1>3

LEMMA LeaveKeeps ==
  ASSUME Strong, NEW u, Leave(u)
  PROVE  Strong'
BY StepAside DEF Leave, Strong, Shape, About

LEMMA PublishKeeps ==
  ASSUME Strong, NEW t \in tasks, Publish(t)
  PROVE  Strong'
<1>1. PICK m \in Unused :
        match' = [match EXCEPT ![m] =
                    [NoMatch EXCEPT !.state = "init", !.active = TRUE, !.players = t.who]]
  BY DEF Publish
<1> DEFINE row == [NoMatch EXCEPT !.state = "init", !.active = TRUE, !.players = t.who]
<1>2. m \in MatchIds /\ match[m].state = "none"
  BY DEF Unused
<1>3. tasks' = tasks \ {t} /\ t.m = 0
  BY DEF Publish, Creating, Tasks, Strong, Shape, TaskShape
<1>4. RowShape(row)
  BY DEF RowShape, NoMatch, Fields
<1>5. \A s \in tasks' : TaskShape(s)
  BY <1>3 DEF Strong, Shape
<1>6. \A n \in MatchIds : About(n)' = About(n)
  BY <1>3, IdsAssumption DEF About
<1>7. \A s \in tasks' : s.m # m
  BY <1>2, <1>3, StrongGives DEF HoldsOf, EndOf
<1>8. HoldsOf(row, tasks', m)
  BY <1>7 DEF HoldsOf, LaunchOf, EditOf, EndOf, LaunchingIn, EditingIn, NoMatch
<1> QED BY <1>1, <1>2, <1>4, <1>5, <1>6, <1>8, StepAbout

----------------------------------------------------------------------------
\* Steps of one match.  Each shows the new row, the coroutines that end and begin, and HoldsOf of
\* the two.

LEMMA StepOn ==
  ASSUME Strong, NEW m \in MatchIds, NEW row,
         match' = [match EXCEPT ![m] = row], RowShape(row),
         \A s \in tasks \ tasks' : s.m = m,
         \A s \in tasks' \ tasks : s.m = m /\ TaskShape(s),
         HoldsOf(row, tasks', m)
  PROVE  Strong'
<1>1. \A s \in tasks' : TaskShape(s)
  BY DEF Strong, Shape
<1>2. \A n \in MatchIds \ {m} : About(n)' = About(n)
  BY DEF About
<1> QED BY <1>1, <1>2, StepAbout

\* A coroutine of a match: the match exists.
LEMMA TaskOfMatch ==
  ASSUME Strong, NEW t \in tasks, t.at \notin {"create", "restart"}
  PROVE  t.m \in MatchIds /\ match[t.m].state # "none" /\ t.at \in Steps /\ TaskShape(t)
<1>1. t.m \in MatchIds /\ t.at \in Steps /\ TaskShape(t)
  BY DEF Strong, Shape, TaskShape
<1> QED BY <1>1, StrongGives DEF HoldsOf, EndOf

\* A coroutine ends or begins that neither launches nor edits.
LEMMA BystanderKeeps ==
  ASSUME NEW row, NEW T, NEW U, NEW m, HoldsOf(row, T, m), row.state # "none",
         \A s \in (T \ U) \cup (U \ T) :
           s.at \notin {"checkin", "finish", "sub", "cancel", "report"}
  PROVE  HoldsOf(row, U, m)
<1>1. LaunchingIn(U, m) = LaunchingIn(T, m) /\ EditingIn(U, m) = EditingIn(T, m)
  BY DEF LaunchingIn, EditingIn
<1> QED BY <1>1 DEF HoldsOf, LaunchOf, EditOf, EndOf

\* refresh takes the callback's right to launch, if everybody is ready, and gives it to finish.
LEMMA RefreshKeeps ==
  ASSUME Strong, NEW m \in MatchIds, NEW row, NEW tick, NEW others \in SUBSET tasks,
         RowShape(row), row.state # "none", HoldsOf(row, others, m),
         \A s \in tasks \ others : s.m = m,
         Refresh(m, row, tick, others)
  PROVE  Strong'
<1>1. CASE ToSet(row.players) \subseteq row.ready /\ row.waiting
  <2> DEFINE s == On("finish", m, <<>>, tick)
             new == [row EXCEPT !.waiting = FALSE, !.ready = {}]
  <2>1. match' = [match EXCEPT ![m] = new] /\ tasks' = others \cup {s}
    BY <1>1 DEF Refresh
  <2>2. TaskShape(s) /\ s.m = m /\ s.at = "finish"
    BY DEF On, TaskShape, TaskFields, Steps
  <2>3. /\ RowShape(new) /\ ~new.waiting
        /\ new.state = row.state /\ new.flag = row.flag /\ new.active = row.active
        /\ new.launches = row.launches /\ new.ends = row.ends
    BY DEF RowShape, Fields
  <2>4. row.launches = 0 /\ row.state \notin {"none", "init"} /\ LaunchingIn(others, m) = {}
    BY <1>1 DEF HoldsOf, LaunchOf
  <2>5. LaunchingIn(tasks', m) = {s} /\ EditingIn(tasks', m) = EditingIn(others, m)
    BY <2>1, <2>2, <2>4 DEF LaunchingIn, EditingIn
  <2>6. HoldsOf(new, tasks', m)
    BY <2>3, <2>4, <2>5 DEF HoldsOf, LaunchOf, EditOf, EndOf
  <2> QED BY <2>1, <2>2, <2>3, <2>6, StepOn
<1>2. CASE ~(ToSet(row.players) \subseteq row.ready /\ row.waiting)
  <2>1. match' = [match EXCEPT ![m] = row] /\ tasks' = others
    BY <1>2 DEF Refresh
  <2> QED BY <2>1, StepOn
<1> QED BY <1>1, <1>2

LEMMA TickCheckInKeeps ==
  ASSUME Strong, NEW m \in MatchIds, TickCheckIn(m)
  PROVE  Strong'
<1> DEFINE s == On("checkin", m, <<>>, TRUE)
           row == [match[m] EXCEPT !.state = "checkin"]
<1>1. match' = [match EXCEPT ![m] = row] /\ tasks' = tasks \cup {s} /\ match[m].state = "init"
  BY DEF TickCheckIn, Thinks
<1>2. TaskShape(s) /\ s.m = m /\ s.at = "checkin"
  BY DEF On, TaskShape, TaskFields, Steps
<1>3. RowShape(match[m]) /\ HoldsOf(match[m], tasks, m)
  BY StrongGives
<1>4. /\ RowShape(row) /\ row.state = "checkin"
      /\ row.waiting = match[m].waiting /\ row.flag = match[m].flag /\ row.active = match[m].active
      /\ row.launches = match[m].launches /\ row.ends = match[m].ends
  BY <1>3 DEF RowShape, Fields
<1>5. ~match[m].waiting /\ match[m].launches = 0 /\ LaunchingIn(tasks, m) = {}
  BY <1>1, <1>3 DEF HoldsOf, LaunchOf
<1>6. LaunchingIn(tasks', m) = {s} /\ EditingIn(tasks', m) = EditingIn(tasks, m)
  BY <1>1, <1>2, <1>5 DEF LaunchingIn, EditingIn
<1>7. HoldsOf(row, tasks', m)
  BY <1>3, <1>4, <1>5, <1>6 DEF HoldsOf, LaunchOf, EditOf, EndOf
<1> QED BY <1>1, <1>2, <1>4, <1>7, StepOn

LEMMA CheckInKeeps ==
  ASSUME Strong, NEW t \in tasks, CheckIn(t)
  PROVE  Strong'
<1> DEFINE m == t.m
           others == tasks \ {t}
           row == [match[m] EXCEPT !.waiting = TRUE]
<1>1. t.at = "checkin" /\ Refresh(m, row, TRUE, others)
  BY DEF CheckIn
<1>2. m \in MatchIds /\ match[m].state # "none"
  BY <1>1, TaskOfMatch
<1>3. RowShape(match[m]) /\ HoldsOf(match[m], tasks, m)
  BY <1>2, StrongGives
<1>4. /\ RowShape(row) /\ row.waiting
      /\ row.state = match[m].state /\ row.flag = match[m].flag /\ row.active = match[m].active
      /\ row.launches = match[m].launches /\ row.ends = match[m].ends
  BY <1>3 DEF RowShape, Fields
<1>5. t \in LaunchingIn(tasks, m)
  BY <1>1 DEF LaunchingIn
<1>6. /\ LaunchingIn(tasks, m) = {t}
      /\ match[m].launches = 0 /\ match[m].state \notin {"none", "init"}
  BY <1>3, <1>5 DEF HoldsOf, LaunchOf
<1>7. LaunchingIn(others, m) = {} /\ EditingIn(others, m) = EditingIn(tasks, m)
  BY <1>1, <1>6 DEF LaunchingIn, EditingIn
<1>8. HoldsOf(row, others, m)
  BY <1>3, <1>4, <1>6, <1>7 DEF HoldsOf, LaunchOf, EditOf, EndOf
<1> QED BY <1>1, <1>2, <1>4, <1>8, RefreshKeeps

LEMMA ReadyKeeps ==
  ASSUME Strong, NEW m \in MatchIds, NEW u, Ready(m, u)
  PROVE  Strong'
<1> DEFINE row == [match[m] EXCEPT !.ready = @ \cup {u}]
<1>1. Refresh(m, row, FALSE, tasks) /\ match[m].state = "checkin"
  BY DEF Ready, Reacts
<1>2. RowShape(match[m]) /\ HoldsOf(match[m], tasks, m)
  BY StrongGives
<1>3. /\ RowShape(row) /\ row.waiting = match[m].waiting
      /\ row.state = match[m].state /\ row.flag = match[m].flag /\ row.active = match[m].active
      /\ row.launches = match[m].launches /\ row.ends = match[m].ends
  BY <1>2 DEF RowShape, Fields
<1>4. HoldsOf(row, tasks, m) /\ row.state # "none"
  BY <1>1, <1>2, <1>3 DEF HoldsOf, LaunchOf, EditOf, EndOf
<1> QED BY <1>1, <1>3, <1>4, RefreshKeeps

LEMMA UnreadyKeeps ==
  ASSUME Strong, NEW m \in MatchIds, NEW u, Unready(m, u)
  PROVE  Strong'
<1> DEFINE row == [match[m] EXCEPT !.ready = @ \ {u}]
<1>1. match' = [match EXCEPT ![m] = row] /\ tasks' = tasks /\ match[m].state = "checkin"
  BY DEF Unready, Reacts
<1>2. RowShape(match[m]) /\ HoldsOf(match[m], tasks, m)
  BY StrongGives
<1>3. /\ RowShape(row) /\ row.waiting = match[m].waiting
      /\ row.state = match[m].state /\ row.flag = match[m].flag /\ row.active = match[m].active
      /\ row.launches = match[m].launches /\ row.ends = match[m].ends
  BY <1>2 DEF RowShape, Fields
<1>4. HoldsOf(row, tasks', m)
  BY <1>1, <1>2, <1>3 DEF HoldsOf, LaunchOf, EditOf, EndOf
<1> QED BY <1>1, <1>3, <1>4, StepOn

LEMMA FinishKeeps ==
  ASSUME Strong, NEW t \in tasks, Finish(t)
  PROVE  Strong'
<1> DEFINE m == t.m
           row == [match[m] EXCEPT !.state = "waiting", !.launches = @ + 1]
<1>1. /\ t.at = "finish" /\ tasks' = tasks \ {t}
      /\ match' = [match EXCEPT ![m].state = "waiting", ![m].launches = @ + 1]
  BY DEF Finish
<1>2. m \in MatchIds /\ match[m].state # "none"
  BY <1>1, TaskOfMatch
<1>3. RowShape(match[m]) /\ HoldsOf(match[m], tasks, m)
  BY <1>2, StrongGives
<1>4. /\ RowShape(row) /\ row.waiting = match[m].waiting
      /\ row.state = "waiting" /\ row.flag = match[m].flag /\ row.active = match[m].active
      /\ row.launches = match[m].launches + 1 /\ row.ends = match[m].ends
  BY <1>3 DEF RowShape, Fields
<1>5. t \in LaunchingIn(tasks, m)
  BY <1>1 DEF LaunchingIn
<1>6. LaunchingIn(tasks, m) = {t} /\ match[m].launches = 0 /\ ~match[m].waiting
  BY <1>3, <1>5 DEF HoldsOf, LaunchOf
<1>7. LaunchingIn(tasks', m) = {} /\ EditingIn(tasks', m) = EditingIn(tasks, m)
  BY <1>1, <1>6 DEF LaunchingIn, EditingIn
<1>8. HoldsOf(row, tasks', m)
  BY <1>3, <1>4, <1>6, <1>7, 0 + 1 = 1 DEF HoldsOf, LaunchOf, EditOf, EndOf
<1>9. match' = [match EXCEPT ![m] = row]
  BY <1>1, <1>2 DEF Strong, Shape
<1> QED BY <1>1, <1>2, <1>4, <1>8, <1>9, StepOn

\* A row whose callback is as it was, or popped, and whose players and ready may have changed.
LEMMA QuietRow ==
  ASSUME NEW old, NEW new, NEW T, NEW m, HoldsOf(old, T, m), old.state # "none",
         new.waiting => old.waiting, new.state = old.state, new.flag = old.flag,
         new.active = old.active, new.launches = old.launches, new.ends = old.ends
  PROVE  HoldsOf(new, T, m)
BY DEF HoldsOf, LaunchOf, EditOf, EndOf

\* A match is taken out of the active ones.
LEMMA RemovedKeeps ==
  ASSUME NEW old, NEW T, NEW m, NEW how \in {"reverted", "dropped"},
         RowShape(old), HoldsOf(old, T, m), old.active
  PROVE  RowShape(Removed(old, how)) /\ HoldsOf(Removed(old, how), T, m)
<1> DEFINE new == Removed(old, how)
<1>1. /\ RowShape(new) /\ ~new.active /\ new.ends = old.ends \cup {how}
      /\ new.waiting = old.waiting /\ new.state = old.state /\ new.flag = old.flag
      /\ new.launches = old.launches
  BY DEF RowShape, Fields, Removed
<1>2. old.ends = {} /\ old.state # "none"
  BY DEF HoldsOf, EndOf
<1>3. new.ends = {how}
  BY <1>1, <1>2
<1>4. EndOf(new, T, m)
  BY <1>1, <1>2, <1>3 DEF EndOf
<1> QED BY <1>1, <1>4 DEF HoldsOf, LaunchOf, EditOf

\* What revert does to the coroutines.
LEMMA RevertTasks ==
  ASSUME NEW back, NEW tick, NEW others, Revert(back, tick, others)
  PROVE  \/ tasks' = others
         \/ \E s : tasks' = others \cup {s} /\ TaskShape(s) /\ s.m = 0 /\ s.at = "restart"
<1> DEFINE fill == Min({Len(queue), Max({0, Size - Len(back)})})
           q == back \o SubSeq(queue, 1, fill)
           rest == SubSeq(queue, fill + 1, Len(queue))
           s == [On("restart", 0, q, tick) EXCEPT !.rest = rest]
<1>1. TaskShape(s) /\ s.m = 0 /\ s.at = "restart"
  BY DEF TaskShape, TaskFields, On
<1>2. CASE Len(q) >= Size
  <2>1. Start(q, "restart", tick, rest, others)
    BY <1>2 DEF Revert
  <2>2. tasks' = others \cup {s}
    BY <2>1 DEF Start
  <2> QED BY <1>1, <2>2
<1>3. CASE ~(Len(q) >= Size)
  BY <1>3 DEF Revert
<1> QED BY <1>2, <1>3

LEMMA ReplacePlayerKeeps ==
  ASSUME Strong, NEW m \in MatchIds, NEW out, match[m].state # "none", ReplacePlayer(m, out)
  PROVE  Strong'
<1> DEFINE s == On("replace", m, <<>>, FALSE)
           in == Candidate
           row == [Swapped(match[m], out, in) EXCEPT !.ready = @ \ {out}]
<1>1. match' = [match EXCEPT ![m] = row] /\ tasks' = tasks \cup {s}
  BY DEF ReplacePlayer, Strong, Shape
<1>2. TaskShape(s) /\ s.m = m /\ s.at = "replace"
  BY DEF On, TaskShape, TaskFields, Steps
<1>3. RowShape(match[m]) /\ HoldsOf(match[m], tasks, m)
  BY StrongGives
<1>4. /\ RowShape(row) /\ row.waiting = match[m].waiting
      /\ row.state = match[m].state /\ row.flag = match[m].flag /\ row.active = match[m].active
      /\ row.launches = match[m].launches /\ row.ends = match[m].ends
  BY <1>3 DEF RowShape, Fields, Swapped
<1>5. HoldsOf(row, tasks, m)
  BY <1>3, <1>4, QuietRow
<1>6. HoldsOf(row, tasks', m)
  BY <1>1, <1>2, <1>4, <1>5, BystanderKeeps
<1> QED BY <1>1, <1>2, <1>4, <1>6, StepOn

\* The callback is popped, and a coroutine goes to work that neither launches nor edits.
LEMMA PopKeeps ==
  ASSUME Strong, NEW m \in MatchIds, match[m].state # "none", NEW s, TaskShape(s), s.m = m,
         s.at \in {"single", "abort"},
         match' = [match EXCEPT ![m].waiting = FALSE], tasks' = tasks \cup {s}
  PROVE  Strong'
<1> DEFINE row == [match[m] EXCEPT !.waiting = FALSE]
<1>1. match' = [match EXCEPT ![m] = row]
  BY DEF Strong, Shape
<1>2. RowShape(match[m]) /\ HoldsOf(match[m], tasks, m)
  BY StrongGives
<1>3. /\ RowShape(row) /\ ~row.waiting
      /\ row.state = match[m].state /\ row.flag = match[m].flag /\ row.active = match[m].active
      /\ row.launches = match[m].launches /\ row.ends = match[m].ends
  BY <1>2 DEF RowShape, Fields
<1>4. HoldsOf(row, tasks, m)
  BY <1>2, <1>3, QuietRow
<1>5. HoldsOf(row, tasks', m)
  BY <1>3, <1>4, BystanderKeeps
<1> QED BY <1>1, <1>3, <1>5, StepOn

LEMMA BackOutKeeps ==
  ASSUME Strong, NEW m \in MatchIds, NEW u, BackOut(m, u)
  PROVE  Strong'
<1>1. match[m].state # "none"
  BY DEF BackOut, Reacts
<1>2. CASE ReplacePlayer(m, u)
  BY <1>1, <1>2, ReplacePlayerKeeps
<1>3. CASE /\ match' = [match EXCEPT ![m].waiting = FALSE]
           /\ tasks' = tasks \cup {On("single", m, <<u>>, FALSE)}
  <2> DEFINE s == On("single", m, <<u>>, FALSE)
  <2>1. TaskShape(s) /\ s.m = m /\ s.at = "single"
    BY DEF On, TaskShape, TaskFields, Steps
  <2> QED BY <1>1, <1>3, <2>1, PopKeeps
<1> QED BY <1>2, <1>3 DEF BackOut

LEMMA SubAutoCheckInKeeps ==
  ASSUME Strong, NEW m \in MatchIds, NEW out, SubAutoCheckIn(m, out)
  PROVE  Strong'
BY ReplacePlayerKeeps DEF SubAutoCheckIn

LEMMA ReplacedKeeps ==
  ASSUME Strong, NEW t \in tasks, Replaced(t)
  PROVE  Strong'
<1> DEFINE m == t.m
           others == tasks \ {t}
<1>1. t.at = "replace" /\ Refresh(m, match[m], FALSE, others)
  BY DEF Replaced
<1>2. m \in MatchIds /\ match[m].state # "none"
  BY <1>1, TaskOfMatch
<1>3. RowShape(match[m]) /\ HoldsOf(match[m], tasks, m)
  BY <1>2, StrongGives
<1>4. HoldsOf(match[m], others, m)
  BY <1>1, <1>2, <1>3, BystanderKeeps
<1> QED BY <1>1, <1>2, <1>3, <1>4, RefreshKeeps

\* A coroutine that neither launches nor edits ends, and may start another match.
LEMMA RevertKeeps ==
  ASSUME Strong, NEW t \in tasks, t.at \in {"single", "revert"}, NEW row,
         RowShape(row), HoldsOf(row, tasks, t.m), row.state # "none",
         match' = [match EXCEPT ![t.m] = row],
         NEW back, NEW tick, Revert(back, tick, tasks \ {t})
  PROVE  Strong'
<1> DEFINE m == t.m
<1>1. m \in MatchIds
  BY TaskOfMatch
<1>2. CASE tasks' = tasks \ {t}
  <2>1. HoldsOf(row, tasks', m)
    BY <1>2, BystanderKeeps
  <2> QED BY <1>1, <1>2, <2>1, StepOn
<1>3. ASSUME NEW s, tasks' = (tasks \ {t}) \cup {s}, TaskShape(s), s.m = 0, s.at = "restart"
      PROVE  Strong'
  <2>1. HoldsOf(row, tasks', m)
    BY <1>3, BystanderKeeps
  <2>2. \A x \in tasks' : TaskShape(x)
    BY <1>3 DEF Strong, Shape
  <2>3. \A n \in MatchIds \ {m} : About(n)' = About(n)
    BY <1>3, IdsAssumption DEF About
  <2> QED BY <1>1, <2>1, <2>2, <2>3, StepAbout
<1> QED BY <1>2, <1>3, RevertTasks

LEMMA RevertSingleKeeps ==
  ASSUME Strong, NEW t \in tasks, RevertSingle(t)
  PROVE  Strong'
<1> DEFINE m == t.m
<1>1. t.at = "single"
  BY DEF RevertSingle
<1>2. m \in MatchIds /\ match[m].state # "none"
  BY <1>1, TaskOfMatch
<1>3. RowShape(match[m]) /\ HoldsOf(match[m], tasks, m)
  BY <1>2, StrongGives
<1>4. CASE match[m].active
  <2> DEFINE row == Removed(match[m], "reverted")
  <2>1. RowShape(row) /\ HoldsOf(row, tasks, m)
    BY <1>3, <1>4, RemovedKeeps
  <2>2. row.state = match[m].state
    BY <1>3 DEF RowShape, Fields, Removed
  <2>3. match' = [match EXCEPT ![m] = row]
    BY <1>4 DEF RevertSingle, Strong, Shape
  <2>4. PICK back : Revert(back, FALSE, tasks \ {t})
    BY <1>4 DEF RevertSingle
  <2> QED BY <1>1, <1>2, <2>1, <2>2, <2>3, <2>4, RevertKeeps
<1>5. CASE ~match[m].active
  <2>1. match' = [match EXCEPT ![m] = match[m]] /\ tasks' = tasks \ {t}
    BY <1>5 DEF RevertSingle, Strong, Shape
  <2>2. HoldsOf(match[m], tasks', m)
    BY <1>1, <1>2, <1>3, <2>1, BystanderKeeps
  <2> QED BY <1>2, <1>3, <2>1, <2>2, StepOn
<1> QED BY <1>4, <1>5

LEMMA TickAbortKeeps ==
  ASSUME Strong, NEW m \in MatchIds, TickAbort(m)
  PROVE  Strong'
<1> DEFINE s == On("abort", m, <<>>, TRUE)
<1>1. match[m].state # "none"
  BY DEF TickAbort, Thinks
<1>2. match' = [match EXCEPT ![m].waiting = FALSE] /\ tasks' = tasks \cup {s}
  BY DEF TickAbort
<1>3. TaskShape(s) /\ s.m = m /\ s.at = "abort"
  BY DEF On, TaskShape, TaskFields, Steps
<1> QED BY <1>1, <1>2, <1>3, PopKeeps

LEMMA AbortKeeps ==
  ASSUME Strong, NEW t \in tasks, Abort(t)
  PROVE  Strong'
<1> DEFINE m == t.m
           s == [t EXCEPT !.at = "revert"]
<1>1. t.at = "abort"
  BY DEF Abort
<1>2. m \in MatchIds /\ match[m].state # "none" /\ TaskShape(t)
  BY <1>1, TaskOfMatch
<1>3. RowShape(match[m]) /\ HoldsOf(match[m], tasks, m)
  BY <1>2, StrongGives
<1>4. TaskShape(s) /\ s.m = m /\ s.at = "revert"
  BY <1>2 DEF TaskShape, TaskFields, Steps
<1>5. CASE match[m].active
  <2> DEFINE row == Removed(match[m], "reverted")
  <2>1. RowShape(row) /\ HoldsOf(row, tasks, m)
    BY <1>3, <1>5, RemovedKeeps
  <2>2. row.state = match[m].state
    BY <1>3 DEF RowShape, Fields, Removed
  <2>3. match' = [match EXCEPT ![m] = row] /\ tasks' = (tasks \ {t}) \cup {s}
    BY <1>5 DEF Abort, Strong, Shape
  <2>4. HoldsOf(row, tasks', m)
    BY <1>1, <1>2, <1>4, <2>1, <2>2, <2>3, BystanderKeeps
  <2> QED BY <1>2, <1>4, <2>1, <2>3, <2>4, StepOn
<1>6. CASE ~match[m].active
  <2>1. match' = [match EXCEPT ![m] = match[m]] /\ tasks' = tasks \ {t}
    BY <1>6 DEF Abort, Strong, Shape
  <2>2. HoldsOf(match[m], tasks', m)
    BY <1>1, <1>2, <1>3, <2>1, BystanderKeeps
  <2> QED BY <1>2, <1>3, <2>1, <2>2, StepOn
<1> QED BY <1>5, <1>6

LEMMA AbortRevertsKeeps ==
  ASSUME Strong, NEW t \in tasks, AbortReverts(t)
  PROVE  Strong'
<1> DEFINE m == t.m
<1>1. t.at = "revert"
  BY DEF AbortReverts
<1>2. m \in MatchIds /\ match[m].state # "none"
  BY <1>1, TaskOfMatch
<1>3. RowShape(match[m]) /\ HoldsOf(match[m], tasks, m)
  BY <1>2, StrongGives
<1>4. match' = [match EXCEPT ![m] = match[m]]
  BY DEF AbortReverts, Strong, Shape
<1>5. PICK back : Revert(back, TRUE, tasks \ {t})
  BY DEF AbortReverts
<1> QED BY <1>1, <1>2, <1>3, <1>4, <1>5, RevertKeeps

LEMMA TickFinishKeeps ==
  ASSUME Strong, NEW m \in MatchIds, TickFinish(m)
  PROVE  Strong'
<1> DEFINE s == On("finish", m, <<>>, TRUE)
           row == [match[m] EXCEPT !.waiting = FALSE, !.ready = {}]
<1>1. /\ match[m].waiting /\ tasks' = tasks \cup {s}
      /\ match' = [match EXCEPT ![m].waiting = FALSE, ![m].ready = {}]
  BY DEF TickFinish
<1>2. TaskShape(s) /\ s.m = m /\ s.at = "finish"
  BY DEF On, TaskShape, TaskFields, Steps
<1>3. RowShape(match[m]) /\ HoldsOf(match[m], tasks, m)
  BY StrongGives
<1>4. /\ RowShape(row) /\ ~row.waiting
      /\ row.state = match[m].state /\ row.flag = match[m].flag /\ row.active = match[m].active
      /\ row.launches = match[m].launches /\ row.ends = match[m].ends
  BY <1>3 DEF RowShape, Fields
<1>5. /\ match[m].launches = 0 /\ match[m].state \notin {"none", "init"}
      /\ LaunchingIn(tasks, m) = {}
  BY <1>1, <1>3 DEF HoldsOf, LaunchOf
<1>6. LaunchingIn(tasks', m) = {s} /\ EditingIn(tasks', m) = EditingIn(tasks, m)
  BY <1>1, <1>2, <1>5 DEF LaunchingIn, EditingIn
<1>7. HoldsOf(row, tasks', m)
  BY <1>3, <1>4, <1>5, <1>6 DEF HoldsOf, LaunchOf, EditOf, EndOf
<1>8. match' = [match EXCEPT ![m] = row]
  BY <1>1 DEF Strong, Shape
<1> QED BY <1>1, <1>2, <1>4, <1>7, <1>8, StepOn

LEMMA TickDropKeeps ==
  ASSUME Strong, NEW m \in MatchIds, TickDrop(m)
  PROVE  Strong'
<1> DEFINE row == Removed(match[m], "dropped")
<1>1. match[m].active /\ tasks' = tasks /\ match' = [match EXCEPT ![m] = row]
  BY DEF TickDrop, Thinks, Strong, Shape
<1>2. RowShape(match[m]) /\ HoldsOf(match[m], tasks, m)
  BY StrongGives
<1>3. RowShape(row) /\ HoldsOf(row, tasks', m)
  BY <1>1, <1>2, RemovedKeeps
<1> QED BY <1>1, <1>3, StepOn

----------------------------------------------------------------------------
\* Editors: a flag goes up with its coroutine and down with it.

LEMMA RaiseKeeps ==
  ASSUME Strong, NEW m \in MatchIds, match[m].active, ~match[m].flag, NEW row, RowShape(row),
         row.waiting => match[m].waiting, row.flag, row.state = match[m].state,
         row.active = match[m].active, row.launches = match[m].launches, row.ends = match[m].ends,
         NEW s, TaskShape(s), s.m = m, s.at \in {"sub", "cancel", "report"},
         match' = [match EXCEPT ![m] = row], tasks' = tasks \cup {s}
  PROVE  Strong'
<1>1. HoldsOf(match[m], tasks, m)
  BY StrongGives
<1>2. EditingIn(tasks, m) = {} /\ match[m].ends = {} /\ match[m].state # "none"
  BY <1>1 DEF HoldsOf, EditOf, EndOf
<1>3. EditingIn(tasks', m) = {s} /\ LaunchingIn(tasks', m) = LaunchingIn(tasks, m)
  BY <1>2 DEF EditingIn, LaunchingIn
<1>4. LaunchOf(row, tasks', m)
  BY <1>1, <1>3 DEF HoldsOf, LaunchOf
<1>5. EditOf(row, tasks', m)
  BY <1>3 DEF EditOf
<1>6. EndOf(row, tasks', m)
  BY <1>2 DEF EndOf
<1>7. HoldsOf(row, tasks', m)
  BY <1>4, <1>5, <1>6 DEF HoldsOf
<1> QED BY <1>7, StepOn

LEMMA SubstituteKeeps ==
  ASSUME Strong, NEW m \in MatchIds, NEW out, NEW in, MayEdit(m), Substitute(m, out, in)
  PROVE  Strong'
<1> DEFINE s == On("sub", m, <<in>>, FALSE)
           row == [Swapped(match[m], out, in) EXCEPT !.flag = TRUE]
<1>1. match' = [match EXCEPT ![m] = row] /\ tasks' = tasks \cup {s}
  BY DEF Substitute, Strong, Shape
<1>2. TaskShape(s) /\ s.m = m /\ s.at = "sub"
  BY DEF On, TaskShape, TaskFields, Steps
<1>3. RowShape(match[m])
  BY StrongGives
<1>4. /\ RowShape(row) /\ row.waiting = match[m].waiting /\ row.flag
      /\ row.state = match[m].state /\ row.active = match[m].active
      /\ row.launches = match[m].launches /\ row.ends = match[m].ends
  BY <1>3 DEF RowShape, Fields, Swapped
<1>5. match[m].active /\ ~match[m].flag
  BY DEF MayEdit
<1> QED BY <1>1, <1>2, <1>4, <1>5, RaiseKeeps

LEMMA CancelKeeps ==
  ASSUME Strong, NEW m \in MatchIds, Cancel(m)
  PROVE  Strong'
<1> DEFINE s == On("cancel", m, <<>>, FALSE)
           row == [match[m] EXCEPT !.flag = TRUE, !.waiting = FALSE]
<1>1. match' = [match EXCEPT ![m] = row] /\ tasks' = tasks \cup {s}
  BY DEF Cancel, Strong, Shape
<1>2. TaskShape(s) /\ s.m = m /\ s.at = "cancel"
  BY DEF On, TaskShape, TaskFields, Steps
<1>3. RowShape(match[m])
  BY StrongGives
<1>4. /\ RowShape(row) /\ ~row.waiting /\ row.flag
      /\ row.state = match[m].state /\ row.active = match[m].active
      /\ row.launches = match[m].launches /\ row.ends = match[m].ends
  BY <1>3 DEF RowShape, Fields
<1>5. match[m].active /\ ~match[m].flag
  BY DEF Cancel, MayEdit
<1> QED BY <1>1, <1>2, <1>4, <1>5, RaiseKeeps

LEMMA ReportKeeps ==
  ASSUME Strong, NEW m \in MatchIds, Report(m)
  PROVE  Strong'
<1> DEFINE s == On("report", m, <<>>, FALSE)
           row == [match[m] EXCEPT !.flag = TRUE]
<1>1. match' = [match EXCEPT ![m] = row] /\ tasks' = tasks \cup {s}
  BY DEF Report, Strong, Shape
<1>2. TaskShape(s) /\ s.m = m /\ s.at = "report"
  BY DEF On, TaskShape, TaskFields, Steps
<1>3. RowShape(match[m])
  BY StrongGives
<1>4. /\ RowShape(row) /\ row.waiting = match[m].waiting /\ row.flag
      /\ row.state = match[m].state /\ row.active = match[m].active
      /\ row.launches = match[m].launches /\ row.ends = match[m].ends
  BY <1>3 DEF RowShape, Fields
<1>5. match[m].active /\ ~match[m].flag
  BY DEF Report, MayEdit
<1> QED BY <1>1, <1>2, <1>4, <1>5, RaiseKeeps

\* An editor ends: its flag is down, and the match is as it was or has ended.
LEMMA LowerKeeps ==
  ASSUME Strong, NEW t \in tasks, t.at \in {"sub", "cancel", "report"}, NEW row, RowShape(row),
         ~row.flag, row.waiting = match[t.m].waiting, row.state = match[t.m].state,
         row.launches = match[t.m].launches,
         \/ row.active = match[t.m].active /\ row.ends = match[t.m].ends
         \/ /\ t.at = "cancel" /\ match[t.m].active
            /\ ~row.active /\ row.ends = match[t.m].ends \cup {"cancelled"}
         \/ /\ t.at = "report"
            /\ ~row.active /\ row.ends = match[t.m].ends \cup {"recorded"},
         match' = [match EXCEPT ![t.m] = row], tasks' = tasks \ {t}
  PROVE  Strong'
<1> DEFINE m == t.m
<1>1. m \in MatchIds /\ match[m].state # "none"
  BY TaskOfMatch
<1>2. HoldsOf(match[m], tasks, m)
  BY <1>1, StrongGives
<1>3. t \in EditingIn(tasks, m)
  BY DEF EditingIn
<1>4. EditingIn(tasks, m) = {t}
  BY <1>2, <1>3 DEF HoldsOf, EditOf
<1>5. EditingIn(tasks', m) = {} /\ LaunchingIn(tasks', m) = LaunchingIn(tasks, m)
  BY <1>4 DEF EditingIn, LaunchingIn
<1>6. LaunchOf(row, tasks', m)
  BY <1>2, <1>5 DEF HoldsOf, LaunchOf
<1>7. EditOf(row, tasks', m)
  BY <1>5 DEF EditOf
<1>8. EndOf(row, tasks', m)
  <2>1. CASE row.active = match[m].active /\ row.ends = match[m].ends
    BY <1>1, <1>2, <1>5, <2>1 DEF HoldsOf, EndOf
  <2>2. CASE /\ t.at = "cancel" /\ match[m].active
             /\ ~row.active /\ row.ends = match[m].ends \cup {"cancelled"}
    <3>1. row.ends = {"cancelled"}
      BY <1>2, <2>2 DEF HoldsOf, EndOf
    <3> QED BY <1>1, <1>5, <2>2, <3>1 DEF EndOf
  <2>3. CASE /\ t.at = "report"
             /\ ~row.active /\ row.ends = match[m].ends \cup {"recorded"}
    <3>1. "cancelled" \notin match[m].ends
      BY <1>2, <1>3, <2>3 DEF HoldsOf, EndOf
    <3>2. row.ends \ {"recorded"} = match[m].ends \ {"recorded"} /\ "cancelled" \notin row.ends
      BY <2>3, <3>1
    <3> QED BY <1>1, <1>2, <2>3, <3>2 DEF HoldsOf, EndOf
  <2> QED BY <2>1, <2>2, <2>3
<1>9. HoldsOf(row, tasks', m)
  BY <1>6, <1>7, <1>8 DEF HoldsOf
<1> QED BY <1>1, <1>9, StepOn

LEMMA SubstitutedKeeps ==
  ASSUME Strong, NEW t \in tasks, t.at \in {"sub", "report"},
         match' = [match EXCEPT ![t.m].flag = FALSE], tasks' = tasks \ {t}
  PROVE  Strong'
<1> DEFINE row == [match[t.m] EXCEPT !.flag = FALSE]
<1>1. t.m \in MatchIds
  BY TaskOfMatch
<1>2. RowShape(match[t.m])
  BY <1>1, StrongGives
<1>3. /\ RowShape(row) /\ ~row.flag /\ row.waiting = match[t.m].waiting
      /\ row.state = match[t.m].state /\ row.active = match[t.m].active
      /\ row.launches = match[t.m].launches /\ row.ends = match[t.m].ends
  BY <1>2 DEF RowShape, Fields
<1>4. match' = [match EXCEPT ![t.m] = row]
  BY DEF Strong, Shape
<1> QED BY <1>3, <1>4, LowerKeeps

LEMMA CancelledKeeps ==
  ASSUME Strong, NEW t \in tasks, Cancelled(t)
  PROVE  Strong'
<1> DEFINE old == match[t.m]
           row == [(IF old.active THEN Removed(old, "cancelled") ELSE old) EXCEPT !.flag = FALSE]
<1>1. t.at = "cancel" /\ tasks' = tasks \ {t} /\ match' = [match EXCEPT ![t.m] = row]
  BY DEF Cancelled, Strong, Shape
<1>2. t.m \in MatchIds
  BY <1>1, TaskOfMatch
<1>3. RowShape(old)
  BY <1>2, StrongGives
<1>4. /\ RowShape(row) /\ ~row.flag /\ row.waiting = old.waiting
      /\ row.state = old.state /\ row.launches = old.launches
  BY <1>3 DEF RowShape, Fields, Removed
<1>5. IF old.active THEN ~row.active /\ row.ends = old.ends \cup {"cancelled"}
                    ELSE row.active = old.active /\ row.ends = old.ends
  BY <1>3 DEF RowShape, Fields, Removed
<1> QED BY <1>1, <1>4, <1>5, LowerKeeps

LEMMA ReportedKeeps ==
  ASSUME Strong, NEW t \in tasks, Reported(t)
  PROVE  Strong'
<1> DEFINE old == match[t.m]
           row == [Removed(old, "recorded") EXCEPT !.flag = FALSE]
<1>1. t.at = "report" /\ tasks' = tasks \ {t} /\ match' = [match EXCEPT ![t.m] = row]
  BY DEF Reported, Strong, Shape
<1>2. t.m \in MatchIds
  BY <1>1, TaskOfMatch
<1>3. RowShape(old)
  BY <1>2, StrongGives
<1>4. /\ RowShape(row) /\ ~row.flag /\ row.waiting = old.waiting /\ ~row.active
      /\ row.state = old.state /\ row.launches = old.launches
      /\ row.ends = old.ends \cup {"recorded"}
  BY <1>3 DEF RowShape, Fields, Removed
<1> QED BY <1>1, <1>4, LowerKeeps

LEMMA FailKeeps ==
  ASSUME Strong, NEW t \in tasks, Fail(t)
  PROVE  Strong'
<1>1. t.at \notin {"abort", "cancel"} /\ tasks' = tasks \ {t}
  BY DEF Fail
<1>2. CASE t.at \in {"sub", "report"}
  BY <1>1, <1>2, SubstitutedKeeps DEF Fail
<1>3. CASE t.at \in {"create", "restart"}
  <2>1. match' = match /\ t.m = 0
    BY <1>3 DEF Fail, Strong, Shape, TaskShape
  <2>2. \A n \in MatchIds : About(n)' = About(n)
    BY <1>1, <2>1, IdsAssumption DEF About
  <2>3. \A s \in tasks' : TaskShape(s)
    BY <1>1 DEF Strong, Shape
  <2> QED BY <2>1, <2>2, <2>3, StepAside
<1>4. CASE t.at \notin {"sub", "report", "create", "restart"}
  <2> DEFINE m == t.m
  <2>1. m \in MatchIds /\ match[m].state # "none"
    BY <1>4, TaskOfMatch
  <2>2. RowShape(match[m]) /\ HoldsOf(match[m], tasks, m)
    BY <2>1, StrongGives
  <2>3. match' = [match EXCEPT ![m] = match[m]]
    BY <1>4 DEF Fail, Strong, Shape
  <2>4. EditingIn(tasks', m) = EditingIn(tasks, m)
    BY <1>1, <1>4 DEF EditingIn
  <2>5. LaunchingIn(tasks', m) \subseteq LaunchingIn(tasks, m)
    BY <1>1 DEF LaunchingIn
  <2>6. HoldsOf(match[m], tasks', m)
    BY <1>1, <2>1, <2>2, <2>4, <2>5 DEF HoldsOf, LaunchOf, EditOf, EndOf
  <2> QED BY <1>1, <2>1, <2>2, <2>3, <2>6, StepOn
<1> QED BY <1>2, <1>3, <1>4

----------------------------------------------------------------------------
\* The steps together.

LEMMA TickKeeps ==
  ASSUME Strong, NEW m \in MatchIds, Tick(m)
  PROVE  Strong'
BY TickCheckInKeeps, TickAbortKeeps, TickFinishKeeps, TickDropKeeps DEF Tick

LEMMA ResumeKeeps ==
  ASSUME Strong, NEW t \in tasks, Resume(t)
  PROVE  Strong'
<1>1. Substituted(t) => Strong'
  BY SubstitutedKeeps DEF Substituted
<1> QED BY <1>1, PublishKeeps, CheckInKeeps, FinishKeeps, ReplacedKeeps, RevertSingleKeeps,
           AbortKeeps, AbortRevertsKeeps, CancelledKeeps, ReportedKeeps DEF Resume

LEMMA NextKeeps ==
  ASSUME Strong, [Next]_vars
  PROVE  Strong'
<1>1. ASSUME NEW u \in People, Leave(u) \/ \E moderator \in BOOLEAN : Add(u, moderator)
      PROVE  Strong'
  BY <1>1, LeaveKeeps, AddKeeps
<1>2. ASSUME NEW m \in MatchIds, Tick(m) \/ Cancel(m) \/ Report(m)
      PROVE  Strong'
  BY <1>2, TickKeeps, CancelKeeps, ReportKeeps
<1>3. ASSUME NEW m \in MatchIds, NEW u \in People,
             Ready(m, u) \/ Unready(m, u) \/ BackOut(m, u) \/ SubAutoCheckIn(m, u)
      PROVE  Strong'
  BY <1>3, ReadyKeeps, UnreadyKeeps, BackOutKeeps, SubAutoCheckInKeeps
<1>4. ASSUME NEW m \in MatchIds, NEW u \in People,
             SubAuto(m, u) \/ \E v \in People : SubFor(m, u, v)
      PROVE  Strong'
  BY <1>4, SubstituteKeeps DEF SubAuto, SubFor
<1>5. ASSUME NEW t \in tasks, Resume(t) \/ Fail(t)
      PROVE  Strong'
  BY <1>5, ResumeKeeps, FailKeeps
<1>6. CASE UNCHANGED vars
  BY <1>6, StepAside DEF vars, Strong, Shape, About
<1> QED BY <1>1, <1>2, <1>3, <1>4, <1>5, <1>6 DEF Next

LEMMA StrongAlways == Spec => []Strong
<1>1. Init => Strong
  BY InitStrong
<1>2. Strong /\ [Next]_vars => Strong'
  BY NextKeeps
<1> QED BY <1>1, <1>2, PTL DEF Spec

\* In every reachable state one holder has the right to launch a match, one coroutine edits,
\* cancels or reports it, and it leaves the active matches one way.
THEOREM PickupInductive == Spec => []IInv
<1>1. Strong => IInv
  BY DEF Strong
<1> QED BY <1>1, StrongAlways, PTL

\* No match goes live twice, whether the timer, the last reaction or a replacement finishes its
\* check-in (CheckIn.finish, Match.next_state).
THEOREM LaunchOnce == Spec => []LaunchedOnce
<1>1. Strong => LaunchedOnce
  BY DEF Strong, IInv, OneLaunch, LaunchedOnce
<1> QED BY <1>1, StrongAlways, PTL

\* No match is both recorded and cancelled, or taken out of the active matches two ways
\* (Match.finish_match, Match.cancel, CheckIn.abort_timeout, CheckIn.revert_single, on_think).
THEOREM EndOnce == Spec => []EndsOnce
<1>1. Strong => EndsOnce
  BY DEF Strong, IInv, OneEnd, EndsOnce
<1> QED BY <1>1, StrongAlways, PTL
----------------------------------------------------------------------------
\* Sequences: who is in one, and who is in it once.

OnceIn(s, u) == \A i, j \in DOMAIN s : s[i] = u /\ s[j] = u => i = j

\* Every set of naturals with a member has a least one.
LEMMA LeastOf ==
  ASSUME NEW I \in SUBSET Nat, I # {}
  PROVE  Min(I) \in I /\ \A i \in I : Min(I) <= i
<1>1. PICK n \in I : \A m \in I : ~(<<m, n>> \in OpToRel(<, Nat))
  BY NatLessThanWellFounded, WFMin
<1>2. \A m \in I : ~(m < n)
  BY <1>1, Zenon DEF OpToRel
<1>3. \E n_1 \in I : \A m \in I : n_1 <= m
  BY <1>2
<1> QED
  BY <1>3 DEF Min

LEMMA Concat ==
  ASSUME NEW a \in Seq(People), NEW b \in Seq(People), NEW u
  PROVE  /\ a \o b \in Seq(People)
         /\ u \in ToSet(a \o b) <=> u \in ToSet(a) \/ u \in ToSet(b)
         /\ OnceIn(a \o b, u) <=> OnceIn(a, u) /\ OnceIn(b, u) /\ ~(u \in ToSet(a) /\ u \in ToSet(b))
<1>1. a \o b \in Seq(People) /\ Len(a \o b) = Len(a) + Len(b)
  OBVIOUS
<1>2. /\ \A i \in DOMAIN a : i \in DOMAIN (a \o b) /\ (a \o b)[i] = a[i]
      /\ \A i \in DOMAIN b : Len(a) + i \in DOMAIN (a \o b) /\ (a \o b)[Len(a) + i] = b[i]
      /\ \A i \in DOMAIN (a \o b) : \/ i \in DOMAIN a /\ (a \o b)[i] = a[i]
                                    \/ i - Len(a) \in DOMAIN b /\ (a \o b)[i] = b[i - Len(a)]
  OBVIOUS
<1>3. u \in ToSet(a \o b) <=> u \in ToSet(a) \/ u \in ToSet(b)
  <2>1. ASSUME u \in ToSet(a \o b) PROVE u \in ToSet(a) \/ u \in ToSet(b)
    <3>1. PICK i \in DOMAIN (a \o b) : (a \o b)[i] = u
      BY <2>1 DEF ToSet
    <3> QED
      BY <1>2, <3>1 DEF ToSet
  <2>2. ASSUME u \in ToSet(a) PROVE u \in ToSet(a \o b)
    BY <1>2, <2>2 DEF ToSet
  <2>3. ASSUME u \in ToSet(b) PROVE u \in ToSet(a \o b)
    <3>1. PICK i \in DOMAIN b : b[i] = u
      BY <2>3 DEF ToSet
    <3> QED
      BY <1>2, <3>1 DEF ToSet
  <2> QED
    BY <2>1, <2>2, <2>3
<1>4. DOMAIN a = 1..Len(a) /\ DOMAIN b = 1..Len(b) /\ Len(a) \in Nat /\ Len(b) \in Nat
  OBVIOUS
<1> DEFINE c == a \o b
<1>5. ASSUME OnceIn(c, u)
      PROVE  OnceIn(a, u) /\ OnceIn(b, u) /\ ~(u \in ToSet(a) /\ u \in ToSet(b))
  <2>1. OnceIn(a, u)
    BY <1>2, <1>5 DEF OnceIn
  <2>2. OnceIn(b, u)
    <3> SUFFICES ASSUME NEW i \in DOMAIN b, NEW j \in DOMAIN b, b[i] = u, b[j] = u PROVE i = j
      BY DEF OnceIn
    <3>1. Len(a) + i = Len(a) + j
      BY <1>2, <1>5 DEF OnceIn
    <3> QED
      BY <1>4, <3>1
  <2>3. ASSUME u \in ToSet(a), u \in ToSet(b) PROVE FALSE
    <3>1. PICK i \in DOMAIN a : a[i] = u
      BY <2>3 DEF ToSet
    <3>2. PICK j \in DOMAIN b : b[j] = u
      BY <2>3 DEF ToSet
    <3>3. i = Len(a) + j
      BY <1>2, <1>5, <3>1, <3>2 DEF OnceIn
    <3> QED
      BY <1>4, <3>1, <3>2, <3>3
  <2> QED
    BY <2>1, <2>2, <2>3
<1>6. ASSUME OnceIn(a, u), OnceIn(b, u), ~(u \in ToSet(a) /\ u \in ToSet(b))
      PROVE  OnceIn(c, u)
  <2> SUFFICES ASSUME NEW i \in DOMAIN c, NEW j \in DOMAIN c, c[i] = u, c[j] = u PROVE i = j
    BY DEF OnceIn
  <2>1. \/ i \in DOMAIN a /\ a[i] = u
        \/ i - Len(a) \in DOMAIN b /\ b[i - Len(a)] = u
    BY <1>2
  <2>2. \/ j \in DOMAIN a /\ a[j] = u
        \/ j - Len(a) \in DOMAIN b /\ b[j - Len(a)] = u
    BY <1>2
  <2>3. i \in Int /\ j \in Int
    BY <1>1
  <2>4. i = j \/ i - Len(a) = j - Len(a)
    BY <1>6, <2>1, <2>2 DEF OnceIn, ToSet
  <2> QED
    BY <1>4, <2>3, <2>4
<1> QED
  BY <1>1, <1>3, <1>5, <1>6

\* A sequence cut in two.
LEMMA Split ==
  ASSUME NEW s \in Seq(People), NEW n \in 0..Len(s)
  PROVE  /\ SubSeq(s, 1, n) \in Seq(People) /\ SubSeq(s, n + 1, Len(s)) \in Seq(People)
         /\ s = SubSeq(s, 1, n) \o SubSeq(s, n + 1, Len(s))
<1>1. Len(s) \in Nat /\ \A i \in 1..Len(s) : s[i] \in People
  OBVIOUS
<1>2. SubSeq(s, 1, n) \in Seq(People) /\ SubSeq(s, n + 1, Len(s)) \in Seq(People)
  BY <1>1, SubSeqProperties
<1>3. SubSeq(s, 1, n) \o SubSeq(s, n + 1, Len(s)) = SubSeq(s, 1, Len(s))
  <2>1. 1 \in 1..Len(s) + 1 /\ n \in (1 - 1)..Len(s) /\ Len(s) \in n..Len(s)
    BY <1>1
  <2> QED
    BY <2>1, ConcatAdjacentSubSeq
<1> QED
  BY <1>2, <1>3, SubSeqFull

LEMMA Appended ==
  ASSUME NEW s \in Seq(People), NEW e \in People, NEW u
  PROVE  /\ Append(s, e) \in Seq(People)
         /\ u \in ToSet(Append(s, e)) <=> u \in ToSet(s) \/ u = e
         /\ OnceIn(Append(s, e), u) <=> OnceIn(s, u) /\ ~(u = e /\ u \in ToSet(s))
<1> DEFINE last == <<e>>
<1>1. Append(s, e) = s \o last /\ last \in Seq(People)
  BY AppendIsConcat
<1>2. (u \in ToSet(last) <=> u = e) /\ OnceIn(last, u)
  <2>1. DOMAIN last = {1} /\ last[1] = e
    OBVIOUS
  <2> HIDE DEF last
  <2> QED
    BY <2>1, Zenon DEF ToSet, OnceIn
<1> HIDE DEF last
<1>3. /\ s \o last \in Seq(People)
      /\ u \in ToSet(s \o last) <=> u \in ToSet(s) \/ u \in ToSet(last)
      /\ OnceIn(s \o last, u) <=> OnceIn(s, u) /\ OnceIn(last, u) /\ ~(u \in ToSet(s) /\ u \in ToSet(last))
  BY <1>1, Concat
<1> QED
  BY <1>1, <1>2, <1>3

\* The first e taken out.
LEMMA FirstRemoved ==
  ASSUME NEW s \in Seq(People), NEW e \in ToSet(s), NEW u
  PROVE  /\ RemoveFirst(s, e) \in Seq(People)
         /\ u \in ToSet(RemoveFirst(s, e)) => u \in ToSet(s)
         /\ u # e /\ u \in ToSet(s) => u \in ToSet(RemoveFirst(s, e))
         /\ OnceIn(s, u) => OnceIn(RemoveFirst(s, e), u) /\ (u = e => u \notin ToSet(RemoveFirst(s, e)))
<1> DEFINE I == {i \in 1..Len(s) : s[i] = e}
           k == Min(I)
<1>1. RemoveFirst(s, e) = IF I # {} THEN SubSeq(s, 1, k - 1) \o SubSeq(s, k + 1, Len(s)) ELSE s
  BY DEF RemoveFirst, SelectInSeq, RemoveAt
<1>2. I # {} /\ I \in SUBSET Nat
  BY DEF ToSet
<1>3. k \in 1..Len(s) /\ s[k] = e
  BY <1>2, LeastOf
<1> HIDE DEF k, I
<1> DEFINE a == SubSeq(s, 1, k - 1)
           b == SubSeq(s, k + 1, Len(s))
<1>4. a \in Seq(People) /\ b \in Seq(People) /\ RemoveFirst(s, e) = a \o b
  <2>1. k \in 0..Len(s) /\ k - 1 \in 0..Len(s)
    BY <1>3
  <2> QED
    BY <1>1, <1>2, <2>1, Split
<1>5. s = Append(a, e) \o b /\ Append(a, e) \in Seq(People)
  <2>1. k \in 0..Len(s) /\ SubSeq(s, 1, k) = Append(a, e)
    BY <1>3, SubSeqRecursiveSecond, AppendIsConcat
  <2> QED
    BY <2>1, Split
<1>6. e \in People
  BY <1>3
<1> HIDE DEF a, b
<1>6a. /\ u \in ToSet(Append(a, e)) <=> u \in ToSet(a) \/ u = e
       /\ OnceIn(Append(a, e), u) <=> OnceIn(a, u) /\ ~(u = e /\ u \in ToSet(a))
  BY <1>4, <1>6, Appended
<1>7. /\ u \in ToSet(s) <=> u \in ToSet(Append(a, e)) \/ u \in ToSet(b)
      /\ OnceIn(s, u) <=> OnceIn(Append(a, e), u) /\ OnceIn(b, u) /\ ~(u \in ToSet(Append(a, e)) /\ u \in ToSet(b))
  BY <1>4, <1>5, Concat
<1>8. /\ a \o b \in Seq(People)
      /\ u \in ToSet(a \o b) <=> u \in ToSet(a) \/ u \in ToSet(b)
      /\ OnceIn(a \o b, u) <=> OnceIn(a, u) /\ OnceIn(b, u) /\ ~(u \in ToSet(a) /\ u \in ToSet(b))
  BY <1>4, Concat
<1> QED
  BY <1>4, <1>6a, <1>7, <1>8

\* Every natural number is in B when 0 is and the next one of each in B.
LEMMA NatInductionIn ==
  ASSUME NEW B \in SUBSET Nat, 0 \in B, \A n \in B : n + 1 \in B
  PROVE  B = Nat
<1> DEFINE C == Nat \ B
<1>1. SUFFICES ASSUME C # {} PROVE FALSE
  OBVIOUS
<1>2. C \in SUBSET Nat
  OBVIOUS
<1>3. PICK n \in C : \A m \in C : n <= m
  <2> HIDE DEF C
  <2> QED
    BY <1>1, <1>2, LeastOf
<1>4. n # 0 /\ n - 1 \in Nat /\ n - 1 \notin C
  BY <1>3
<1> QED
  BY <1>3, <1>4

\* The sequences kept so far, of the first n of s.
Keeps(s, S, n, k) ==
  k = [i \in 0..n |-> IF i = 0 THEN <<>> ELSE IF s[i] \in S THEN k[i - 1] ELSE Append(k[i - 1], s[i])]

LEMMA KeepsExists ==
  ASSUME NEW s, NEW S, NEW l \in Nat
  PROVE  \E k : Keeps(s, S, l, k)
<1> DEFINE B == {n \in Nat : \E k : Keeps(s, S, n, k)}
<1>1. 0 \in B
  <2> DEFINE k == [i \in {0} |-> <<>>]
  <2>1. Keeps(s, S, 0, k)
    BY DEF Keeps
  <2> QED
    BY <2>1
<1>2. ASSUME NEW n \in B PROVE n + 1 \in B
  <2>1. PICK k : Keeps(s, S, n, k)
    BY <1>2
  <2> DEFINE h == [i \in 0..(n + 1) |->
                     IF i <= n THEN k[i] ELSE IF s[i] \in S THEN k[i - 1] ELSE Append(k[i - 1], s[i])]
             e == [i \in 0..(n + 1) |->
                     IF i = 0 THEN <<>> ELSE IF s[i] \in S THEN h[i - 1] ELSE Append(h[i - 1], s[i])]
  <2>2. ASSUME NEW i \in 0..(n + 1) PROVE h[i] = e[i]
    <3>1. CASE i = n + 1
      <4>1. h[i - 1] = k[i - 1] /\ i # 0
        BY <3>1
      <4> QED
        BY <3>1, <4>1
    <3>2. CASE i \in 0..n
      <4>1. k[i] = IF i = 0 THEN <<>> ELSE IF s[i] \in S THEN k[i - 1] ELSE Append(k[i - 1], s[i])
        BY <2>1, <3>2, Zenon DEF Keeps
      <4>2. i # 0 => h[i - 1] = k[i - 1]
        BY <3>2
      <4>3. h[i] = k[i]
        BY <3>2
      <4> QED
        BY <4>1, <4>2, <4>3
    <3> QED
      BY <3>1, <3>2
  <2>3. h = e
    BY <2>2
  <2>4. Keeps(s, S, n + 1, h)
    BY <2>3, Zenon DEF Keeps
  <2> QED
    BY <2>4
<1>3. B = Nat
  <2>1. B \in SUBSET Nat
    OBVIOUS
  <2> HIDE DEF B
  <2> QED
    BY <1>1, <1>2, <2>1, NatInductionIn
<1> QED
  BY <1>3

\* All of S taken out.
LEMMA AllRemoved ==
  ASSUME NEW s \in Seq(People), NEW S, NEW u
  PROVE  /\ Without(s, S) \in Seq(People)
         /\ u \in ToSet(Without(s, S)) => u \in ToSet(s) /\ u \notin S
         /\ OnceIn(s, u) => OnceIn(Without(s, S), u)
<1> DEFINE l == Len(s)
<1>0. l \in Nat /\ \A i \in 1..l : s[i] \in People
  OBVIOUS
<1>1. PICK k : Keeps(s, S, l, k) /\ Without(s, S) = k[l]
  <2>1. Without(s, S) = (CHOOSE k : Keeps(s, S, l, k))[l]
    BY DEF Without, Keeps
  <2> QED
    BY <1>0, <2>1, KeepsExists
<1> DEFINE Early(n) == \E i \in 1..n : s[i] = u
           Good(n) == /\ k[n] \in Seq(People)
                      /\ u \in ToSet(k[n]) => u \notin S /\ Early(n)
                      /\ OnceIn(s, u) => OnceIn(k[n], u)
           B == {n \in Nat : n <= l => Good(n)}
<1>2. ASSUME NEW n \in 0..l PROVE k[n] = IF n = 0 THEN <<>> ELSE IF s[n] \in S THEN k[n - 1] ELSE Append(k[n - 1], s[n])
  BY <1>1, Zenon DEF Keeps
<1>3. Good(0)
  <2>1. k[0] = <<>>
    BY <1>0, <1>2
  <2> QED
    BY <2>1 DEF ToSet, OnceIn
<1>4. ASSUME NEW n \in Nat, n + 1 <= l, Good(n) PROVE Good(n + 1)
  <2>1. k[n + 1] = IF s[n + 1] \in S THEN k[n] ELSE Append(k[n], s[n + 1])
    BY <1>0, <1>2, <1>4
  <2>2. s[n + 1] \in People /\ n + 1 \in 1..l /\ (Early(n) => Early(n + 1))
    BY <1>0, <1>4
  <2>3. CASE s[n + 1] \in S
    BY <1>4, <2>1, <2>2, <2>3
  <2>4. CASE s[n + 1] \notin S
    <3> DEFINE w == k[n]
               e == s[n + 1]
    <3>1. /\ Append(w, e) \in Seq(People)
          /\ u \in ToSet(Append(w, e)) <=> u \in ToSet(w) \/ u = e
          /\ OnceIn(Append(w, e), u) <=> OnceIn(w, u) /\ ~(u = e /\ u \in ToSet(w))
      BY <1>4, <2>2, Appended
    <3>2. OnceIn(s, u) /\ u = e => ~Early(n)
      BY <1>0, <1>4, <2>2 DEF OnceIn
    <3>3. u = e => Early(n + 1)
      BY <2>2
    <3>4. k[n + 1] = Append(w, e)
      BY <2>1, <2>4
    <3> HIDE DEF w, e, Early
    <3>5. w \in Seq(People) /\ (u \in ToSet(w) => u \notin S /\ Early(n)) /\ (OnceIn(s, u) => OnceIn(w, u))
      BY <1>4 DEF w
    <3>6. u = e => u \notin S
      BY <2>4 DEF e
    <3> QED
      BY <2>2, <3>1, <3>2, <3>3, <3>4, <3>5, <3>6
  <2> QED
    BY <2>3, <2>4
<1>5. B = Nat
  <2>1. B \in SUBSET Nat /\ 0 \in B
    BY <1>3
  <2>2. ASSUME NEW n \in B PROVE n + 1 \in B
    <3>1. n + 1 <= l => n <= l
      BY <1>0, <2>2
    <3> HIDE DEF Good, l
    <3> QED
      BY <1>4, <2>2, <3>1
  <2> HIDE DEF B
  <2> QED
    BY <2>1, <2>2, NatInductionIn
<1>6. Good(l)
  BY <1>0, <1>5
<1>7. Early(l) => u \in ToSet(s)
  BY <1>0 DEF ToSet
<1> QED
  BY <1>1, <1>6, <1>7

----------------------------------------------------------------------------
(***************************************************************************)
(* SeatedOnce.  Where u is, without counting: the roster of a match, a     *)
(* start's list or the ready of an aborted match hold him.                 *)
(***************************************************************************)

Queued(u) == u \in ToSet(queue) /\ u \notin Entering
Plays(u, m) == m \in MatchIds /\ match[m].active /\ u \in ToSet(match[m].players)
Starts(u, t) == t \in tasks /\ t.at \in {"create", "restart"} /\ (u \in ToSet(t.who) \/ u \in ToSet(t.rest))
Returns(u, t) == t \in tasks /\ t.at = "revert" /\ u \in match[t.m].ready

Apart(u) ==
  /\ \A m, n : Plays(u, m) /\ Plays(u, n) => m = n
  /\ \A s, t : Starts(u, s) /\ Starts(u, t) => s = t
  /\ \A s, t : Returns(u, s) /\ Returns(u, t) => s = t
  /\ \A m, t : Plays(u, m) => ~Starts(u, t) /\ ~Returns(u, t)
  /\ \A s, t : Starts(u, s) => ~Returns(u, t)
  /\ Queued(u) => \A m, t : ~Plays(u, m) /\ ~Starts(u, t) /\ ~Returns(u, t)

Once(u) ==
  /\ u \notin Entering => OnceIn(queue, u)
  /\ \A m \in MatchIds : match[m].active => OnceIn(match[m].players, u)
  /\ \A t \in tasks : t.at \in {"create", "restart"} => OnceIn(t.who \o t.rest, u)

\* Whoever is being substituted in is not held by a start; held by an abort he is not queued.  Whoever
\* plays and is queued is being substituted into just that match, and is not among its ready when it
\* is about to be aborted.
SubOf(u, m, s) == s \in tasks /\ s.at = "sub" /\ s.m = m /\ u \in ToSet(s.who)
Enters(u) ==
  /\ u \in Entering => \A t : ~Starts(u, t)
  /\ u \in Entering /\ u \in ToSet(queue) => \A t : ~Returns(u, t)
  /\ \A m : Plays(u, m) /\ u \in ToSet(queue) => \E s : SubOf(u, m, s)
  /\ \A s, t : t \in tasks /\ t.at = "abort" /\ SubOf(u, t.m, s) => u \notin match[t.m].ready

SeatOf(u) == Apart(u) /\ Once(u) /\ Enters(u)

\* on_think runs one at a time, and it is who aborts: no callback is registered behind its back.
OneTick ==
  /\ \A s, t \in tasks : s.tick /\ t.tick => s = t
  /\ \A t \in tasks : t.at \in {"checkin", "abort", "revert"} => t.tick
  /\ \A t \in tasks : t.at \in {"abort", "revert"} => ~match[t.m].waiting

\* Who is ready plays, until all are.
Finishing(m) == \E t \in tasks : t.at = "finish" /\ t.m = m
ReadyPlay ==
  \A m \in MatchIds :
    /\ match[m].active => match[m].ready \subseteq ToSet(match[m].players) \cup exposed
    /\ match[m].state = "waiting" \/ Finishing(m) => match[m].ready = {}

Lists ==
  /\ queue \in Seq(People)
  /\ \A m \in MatchIds : match[m].players \in Seq(People) /\ match[m].ready \subseteq People
  /\ \A t \in tasks : t.who \in Seq(People) /\ t.rest \in Seq(People)

Seating == Lists /\ OneTick /\ ReadyPlay /\ \A u \in People \ exposed : SeatOf(u)

\* A step that seats nobody anew: players leave lists, or keep their place.
Calm ==
  /\ queue' = queue \/ \E S : queue' = Without(queue, S)
  /\ exposed \subseteq exposed'
  /\ \A m \in MatchIds :
       /\ match'[m].players = match[m].players
       /\ match'[m].active => match[m].active
       /\ match'[m].ready \subseteq match[m].ready
            \cup IF match[m].waiting /\ match[m].state = "checkin" THEN ToSet(match[m].players) ELSE {}
       /\ match'[m].state = "waiting" => match[m].state = "waiting" \/ Finishing(m)
  /\ \A t \in tasks' \ tasks :
       /\ t.who \in Seq(People) /\ t.rest \in Seq(People)
       /\ t.at \in {"checkin", "finish", "replace", "single", "abort", "cancel", "report"} /\ t.m \in MatchIds
       /\ t.at = "finish" => match'[t.m].ready = {}
       /\ t.at = "abort" => ~match[t.m].flag /\ match'[t.m].ready = match[t.m].ready
  /\ \A t \in tasks \ tasks' :
       t.at = "sub" => \A u \in ToSet(t.who) : u \notin ToSet(queue') \/ u \in exposed'

LEMMA CalmKeeps ==
  ASSUME Strong, Seating, Calm, OneTick'
  PROVE  Seating'
<1>1. /\ queue' \in Seq(People)
      /\ \A u : u \in ToSet(queue') => u \in ToSet(queue)
      /\ \A u : OnceIn(queue, u) => OnceIn(queue', u)
  <2>1. queue \in Seq(People)
    BY DEF Seating, Lists
  <2>2. CASE queue' = queue
    BY <2>1, <2>2
  <2>3. ASSUME NEW S, queue' = Without(queue, S)
        PROVE  /\ queue' \in Seq(People)
               /\ \A u : u \in ToSet(queue') => u \in ToSet(queue)
               /\ \A u : OnceIn(queue, u) => OnceIn(queue', u)
    BY <2>1, <2>3, AllRemoved
  <2> QED
    BY <2>2, <2>3 DEF Calm
<1>2. \A t \in tasks' : t \in tasks \/ t.at \in {"checkin", "finish", "replace", "single", "abort", "cancel", "report"}
  BY DEF Calm
<1>3. Lists'
  <2>1. \A m \in MatchIds : match'[m].players \in Seq(People) /\ match'[m].ready \subseteq People
    <3> SUFFICES ASSUME NEW m \in MatchIds
                 PROVE  match'[m].players \in Seq(People) /\ match'[m].ready \subseteq People
      OBVIOUS
    <3>1. match[m].players \in Seq(People) /\ match[m].ready \subseteq People
      BY DEF Seating, Lists
    <3>2. ToSet(match[m].players) \subseteq People
      BY <3>1 DEF ToSet
    <3> QED
      BY <3>1, <3>2 DEF Calm
  <2>2. \A t \in tasks' : t.who \in Seq(People) /\ t.rest \in Seq(People)
    BY DEF Calm, Seating, Lists
  <2> QED
    BY <1>1, <2>1, <2>2 DEF Lists
<1>4. ReadyPlay'
  <2> SUFFICES ASSUME NEW m \in MatchIds
               PROVE  /\ match'[m].active => match'[m].ready \subseteq ToSet(match'[m].players) \cup exposed'
                      /\ match'[m].state = "waiting" \/ Finishing(m)' => match'[m].ready = {}
    BY DEF ReadyPlay
  <2>1. /\ match[m].active => match[m].ready \subseteq ToSet(match[m].players) \cup exposed
        /\ match[m].state = "waiting" \/ Finishing(m) => match[m].ready = {}
    BY DEF Seating, ReadyPlay
  <2>2. match'[m].active => match'[m].ready \subseteq ToSet(match'[m].players) \cup exposed'
    BY <2>1 DEF Calm
  <2>3. Finishing(m) => ~match[m].waiting
    <3>1. match[m].waiting => Launching(m) = {}
      BY DEF Strong, IInv, OneLaunch
    <3> QED
      BY <3>1 DEF Launching, Finishing
  <2>4. match[m].state = "waiting" \/ Finishing(m) => match'[m].ready = {}
    BY <2>1, <2>3 DEF Calm
  <2>5. Finishing(m)' => Finishing(m) \/ match'[m].ready = {}
    BY DEF Finishing, Calm
  <2> QED
    BY <2>2, <2>4, <2>5 DEF Calm
<1>5. ASSUME NEW u \in People \ exposed' PROVE SeatOf(u)'
  <2>1. SeatOf(u)
    BY DEF Seating, Calm
  <2>2. u \in Entering' => u \in Entering
    BY <1>2 DEF Entering, Tasks
  <2>3. u \in Entering /\ u \notin Entering' => u \notin ToSet(queue')
    <3> SUFFICES ASSUME u \in Entering, u \notin Entering' PROVE u \notin ToSet(queue')
      OBVIOUS
    <3>1. PICK t \in tasks : t.at = "sub" /\ u \in ToSet(t.who)
      BY DEF Entering, Tasks
    <3>2. t \notin tasks'
      BY <3>1 DEF Entering, Tasks
    <3> QED
      BY <3>1, <3>2 DEF Calm
  <2>4. Queued(u)' => Queued(u)
    BY <1>1, <2>3 DEF Queued
  <2>5. \A m : Plays(u, m)' => Plays(u, m)
    BY DEF Plays, Calm
  <2>6. \A t : Starts(u, t)' => Starts(u, t)
    BY <1>2 DEF Starts
  <2>7. ASSUME NEW t, Returns(u, t)' PROVE Returns(u, t)
    <3>1. t \in tasks /\ t.at = "revert"
      BY <1>2, <2>7 DEF Returns
    <3>2. t.m \in MatchIds /\ ~match[t.m].waiting
      BY <3>1 DEF Seating, OneTick, Strong, Shape, TaskShape
    <3> QED
      BY <2>7, <3>1, <3>2 DEF Returns, Calm
  <2>8. Apart(u)'
    BY <2>1, <2>4, <2>5, <2>6, <2>7, Zenon DEF SeatOf, Apart
  <2>9. Once(u)'
    <3>1. u \notin Entering' => OnceIn(queue', u)
      <4>1. CASE u \notin Entering
        BY <1>1, <2>1, <4>1 DEF SeatOf, Once
      <4>2. CASE u \in Entering
        BY <2>3, <4>2 DEF OnceIn, ToSet
      <4> QED
        BY <4>1, <4>2
    <3>2. \A m \in MatchIds : match'[m].active => OnceIn(match'[m].players, u)
      BY <2>1 DEF SeatOf, Once, Calm
    <3>3. \A t \in tasks' : t.at \in {"create", "restart"} => OnceIn(t.who \o t.rest, u)
      BY <1>2, <2>1 DEF SeatOf, Once
    <3> QED
      BY <3>1, <3>2, <3>3 DEF Once
  <2>10. Enters(u)'
    <3>1. u \in Entering' => \A t : ~Starts(u, t)'
      BY <2>1, <2>2, <2>6 DEF SeatOf, Enters
    <3>2. u \in Entering' /\ u \in ToSet(queue') => \A t : ~Returns(u, t)'
      BY <1>1, <2>1, <2>2, <2>7 DEF SeatOf, Enters
    <3>3. ASSUME NEW m, Plays(u, m)', u \in ToSet(queue') PROVE \E s : SubOf(u, m, s)'
      <4>1. PICK s : SubOf(u, m, s)
        BY <1>1, <2>1, <2>5, <3>3 DEF SeatOf, Enters
      <4>2. s \in tasks'
        BY <3>3, <4>1 DEF SubOf, Calm
      <4> QED
        BY <4>1, <4>2 DEF SubOf
    <3>4. ASSUME NEW s, NEW t, t \in tasks', t.at = "abort", SubOf(u, t.m, s)' PROVE u \notin match'[t.m].ready
      <4>1. SubOf(u, t.m, s)
        BY <1>2, <3>4 DEF SubOf
      <4>2. t.m \in MatchIds
        BY <3>4, <4>1 DEF SubOf, Strong, Shape, TaskShape
      <4>3. t \in tasks
        <5>1. s \in Editing(t.m)
          BY <4>1 DEF SubOf, Editing
        <5>2. match[t.m].flag
          BY <4>2, <5>1 DEF Strong, IInv, OneEditor
        <5> QED
          BY <3>4, <5>2 DEF Calm
      <4>4. ~match[t.m].waiting
        BY <3>4, <4>3 DEF Seating, OneTick
      <4> QED
        BY <2>1, <3>4, <4>1, <4>2, <4>3, <4>4 DEF SeatOf, Enters, Calm
    <3> QED
      BY <3>1, <3>2, <3>3, <3>4 DEF Enters
  <2> QED
    BY <2>8, <2>9, <2>10 DEF SeatOf
<1> QED
  BY <1>3, <1>4, <1>5 DEF Seating

\* The clock's turn is taken by one coroutine, which may hand it on.
LEMMA TickStep ==
  ASSUME OneTick, NEW T \in SUBSET tasks, NEW N, tasks' = T \cup N,
         \A s, t \in N : s.tick /\ t.tick => s = t,
         \A s \in N, t \in T : s.tick => ~t.tick,
         \A s \in N : s.at \in {"checkin", "abort", "revert"} => s.tick,
         \A t \in tasks' : t.at \in {"abort", "revert"} => ~match'[t.m].waiting
  PROVE  OneTick'
<1>1. \A t \in T : t \in tasks
  OBVIOUS
<1> QED
  BY <1>1 DEF OneTick

\* A step about m alone, that gives it a row, leaves the coroutines T and adds N.
Calmly(m, row, T, N) ==
  /\ match' = [match EXCEPT ![m] = row]
  /\ queue' = queue \/ \E S : queue' = Without(queue, S)
  /\ exposed \subseteq exposed'
  /\ row.players = match[m].players /\ (row.active => match[m].active)
  /\ row.ready \subseteq match[m].ready
       \cup IF match[m].waiting /\ match[m].state = "checkin" THEN ToSet(match[m].players) ELSE {}
  /\ row.state = "waiting" => match[m].state = "waiting" \/ Finishing(m)
  /\ row.waiting => match[m].waiting \/ \A t \in T : ~t.tick
  /\ T \subseteq tasks /\ tasks' = T \cup N
  /\ \A t \in tasks \ T :
       t.at = "sub" => \A u \in ToSet(t.who) : u \notin ToSet(queue') \/ u \in exposed'
  /\ \A t \in N :
       /\ t.who \in Seq(People) /\ t.rest \in Seq(People) /\ t.m = m
       /\ t.at \in {"checkin", "finish", "replace", "single", "abort", "cancel", "report"}
       /\ t.at = "finish" => row.ready = {}
       /\ t.at = "abort" => ~match[m].flag /\ row.ready = match[m].ready /\ ~row.waiting
       /\ t.at \in {"checkin", "abort"} => t.tick
  /\ \A s, t \in N : s.tick /\ t.tick => s = t
  /\ \A s \in N, t \in T : s.tick => ~t.tick

LEMMA RowCalm ==
  ASSUME Strong, Seating, NEW m \in MatchIds, NEW row, NEW T, NEW N, Calmly(m, row, T, N)
  PROVE  Calm /\ OneTick'
<1>0. T \in SUBSET tasks
  BY DEF Calmly
<1>1. match'[m] = row /\ \A n \in MatchIds : n # m => match'[n] = match[n]
  BY DEF Strong, Shape, Calmly
<1>2. \A t \in tasks' \ tasks : t \in N
  BY DEF Calmly
<1>3. Calm
  BY <1>1, <1>2 DEF Calm, Calmly
<1>4. ASSUME NEW t \in tasks', t.at \in {"abort", "revert"} PROVE ~match'[t.m].waiting
  <2>1. CASE t \in N
    BY <1>1, <1>4, <2>1 DEF Calmly
  <2>2. CASE t \in T
    <3>1. t \in tasks /\ t.tick /\ ~match[t.m].waiting /\ t.m \in MatchIds
      BY <1>0, <1>4, <2>2 DEF Seating, OneTick, Strong, Shape, TaskShape
    <3> QED
      BY <1>1, <2>2, <3>1 DEF Calmly
  <2> QED
    BY <2>1, <2>2 DEF Calmly
<1>5. OneTick'
  <2>1. \A s \in N : s.at \in {"checkin", "abort", "revert"} => s.tick
    BY DEF Calmly
  <2>2. /\ tasks' = T \cup N /\ (\A s, t \in N : s.tick /\ t.tick => s = t)
        /\ \A s \in N, t \in T : s.tick => ~t.tick
    BY Zenon DEF Calmly
  <2> QED
    BY <1>0, <1>4, <2>1, <2>2, TickStep DEF Seating
<1> QED
  BY <1>3, <1>5

LEMMA LeaveCalm ==
  ASSUME Strong, Seating, NEW u, Leave(u)
  PROVE  Calm /\ OneTick'
  BY DEF Leave, Calm, Seating, OneTick

LEMMA TickCheckInCalm ==
  ASSUME Strong, Seating, NEW m \in MatchIds, TickCheckIn(m)
  PROVE  Calm /\ OneTick'
<1> DEFINE s == On("checkin", m, <<>>, TRUE)
           row == [match[m] EXCEPT !.state = "checkin"]
<1>1. match' = [match EXCEPT ![m] = row]
  BY DEF TickCheckIn, Strong, Shape
<1>2. RowShape(match[m])
  BY DEF Strong, Shape
<1>3. /\ row.players = match[m].players /\ row.active = match[m].active /\ row.ready = match[m].ready
      /\ row.waiting = match[m].waiting /\ row.state = "checkin"
  BY <1>2 DEF RowShape, Fields
<1>4. tasks' = tasks \cup {s} /\ queue' = queue /\ exposed' = exposed /\ \A t \in tasks : ~t.tick
  BY DEF TickCheckIn, Thinks, Ticking
<1>5. s.at = "checkin" /\ s.m = m /\ s.who \in Seq(People) /\ s.rest \in Seq(People) /\ s.tick
  BY DEF On
<1> HIDE DEF s, row
<1>6. Calmly(m, row, tasks, {s})
  BY <1>1, <1>3, <1>4, <1>5 DEF Calmly
<1> QED
  BY <1>6, RowCalm

\* The fields of a row.
LEMMA RowOf ==
  ASSUME Strong, NEW m \in MatchIds
  PROVE  DOMAIN match[m] = {"state", "active", "players", "ready", "waiting", "flag", "launches", "ends"}
  BY DEF Strong, Shape, RowShape, Fields

LEMMA RefreshCalm ==
  ASSUME Strong, Seating, NEW m \in MatchIds, NEW row, NEW tick \in BOOLEAN, NEW T \in SUBSET tasks,
         Refresh(m, row, tick, T), queue' = queue, exposed' = exposed,
         DOMAIN row = {"state", "active", "players", "ready", "waiting", "flag", "launches", "ends"},
         row.players = match[m].players, row.active = match[m].active, row.state = match[m].state,
         row.ready \subseteq match[m].ready
           \cup IF match[m].waiting /\ match[m].state = "checkin" THEN ToSet(match[m].players) ELSE {},
         row.waiting => match[m].waiting \/ \A t \in T : ~t.tick,
         tick => \A t \in T : ~t.tick,
         \A t \in tasks \ T : t.at # "sub"
  PROVE  Calm /\ OneTick'
<1> DEFINE done == [row EXCEPT !.waiting = FALSE, !.ready = {}]
           s == On("finish", m, <<>>, tick)
<1>1. /\ done.players = row.players /\ done.active = row.active /\ done.state = row.state
      /\ done.ready = {} /\ done.waiting = FALSE
  OBVIOUS
<1>2. s.at = "finish" /\ s.m = m /\ s.who \in Seq(People) /\ s.rest \in Seq(People) /\ s.tick = tick
  BY DEF On
<1>3. \/ match' = [match EXCEPT ![m] = done] /\ tasks' = T \cup {s}
      \/ match' = [match EXCEPT ![m] = row] /\ tasks' = T
  BY DEF Refresh
<1> HIDE DEF done, s
<1>4. CASE match' = [match EXCEPT ![m] = done] /\ tasks' = T \cup {s}
  <2>1. Calmly(m, done, T, {s})
    BY <1>1, <1>2, <1>4 DEF Calmly
  <2> QED
    BY <2>1, RowCalm
<1>5. CASE match' = [match EXCEPT ![m] = row] /\ tasks' = T
  <2>1. Calmly(m, row, T, {})
    BY <1>5 DEF Calmly
  <2> QED
    BY <2>1, RowCalm
<1> QED
  BY <1>3, <1>4, <1>5

LEMMA CheckInCalm ==
  ASSUME Strong, Seating, NEW t \in tasks, CheckIn(t)
  PROVE  Calm /\ OneTick'
<1> DEFINE m == t.m
           row == [match[m] EXCEPT !.waiting = TRUE]
<1>1. t.at = "checkin" /\ Refresh(m, row, TRUE, tasks \ {t}) /\ queue' = queue /\ exposed' = exposed
  BY DEF CheckIn
<1>2. m \in MatchIds
  BY <1>1, TaskOfMatch
<1>3. \A s \in tasks \ {t} : ~s.tick
  BY <1>1 DEF Seating, OneTick
<1>4. DOMAIN match[m] = {"state", "active", "players", "ready", "waiting", "flag", "launches", "ends"}
  BY <1>2, RowOf
<1> QED
  BY <1>1, <1>2, <1>3, <1>4, RefreshCalm

LEMMA ReadyCalm ==
  ASSUME Strong, Seating, NEW m \in MatchIds, NEW u, Ready(m, u)
  PROVE  Calm /\ OneTick'
<1> DEFINE row == [match[m] EXCEPT !.ready = @ \cup {u}]
<1>1. Reacts(m, u) /\ Refresh(m, row, FALSE, tasks) /\ queue' = queue /\ exposed' = exposed
  BY DEF Ready
<1>2. DOMAIN match[m] = {"state", "active", "players", "ready", "waiting", "flag", "launches", "ends"}
  BY RowOf
<1> QED
  BY <1>1, <1>2, RefreshCalm DEF Reacts

LEMMA ReplacedCalm ==
  ASSUME Strong, Seating, NEW t \in tasks, Replaced(t)
  PROVE  Calm /\ OneTick'
<1> DEFINE m == t.m
           row == match[m]
<1>1. t.at = "replace" /\ Refresh(m, row, FALSE, tasks \ {t}) /\ queue' = queue /\ exposed' = exposed
  BY DEF Replaced
<1>2. m \in MatchIds
  BY <1>1, TaskOfMatch
<1>3. DOMAIN row = {"state", "active", "players", "ready", "waiting", "flag", "launches", "ends"}
  BY <1>2, RowOf
<1>4. /\ row.players = match[m].players /\ row.active = match[m].active /\ row.state = match[m].state
      /\ row.ready \subseteq match[m].ready
           \cup IF match[m].waiting /\ match[m].state = "checkin" THEN ToSet(match[m].players) ELSE {}
  OBVIOUS
<1> DEFINE T == tasks \ {t}
<1>5. T \in SUBSET tasks /\ \A s \in tasks \ T : s.at # "sub"
  BY <1>1
<1>6. FALSE \in BOOLEAN /\ Refresh(m, row, FALSE, T) /\ (row.waiting => match[m].waiting \/ \A s \in T : ~s.tick)
  BY <1>1
<1> HIDE DEF m, row, T
<1> QED
  BY <1>1, <1>2, <1>3, <1>4, <1>5, <1>6, RefreshCalm

LEMMA UnreadyCalm ==
  ASSUME Strong, Seating, NEW m \in MatchIds, NEW u, Unready(m, u)
  PROVE  Calm /\ OneTick'
<1> DEFINE row == [match[m] EXCEPT !.ready = @ \ {u}]
<1>1. match' = [match EXCEPT ![m] = row] /\ tasks' = tasks /\ queue' = queue /\ exposed' = exposed
  BY DEF Unready, Strong, Shape
<1>2. /\ row.players = match[m].players /\ row.active = match[m].active /\ row.state = match[m].state
      /\ row.ready \subseteq match[m].ready /\ row.waiting = match[m].waiting
  BY RowOf
<1> HIDE DEF row
<1>3. Calmly(m, row, tasks, {})
  BY <1>1, <1>2 DEF Calmly
<1> QED
  BY <1>3, RowCalm

LEMMA FinishCalm ==
  ASSUME Strong, Seating, NEW t \in tasks, Finish(t)
  PROVE  Calm /\ OneTick'
<1> DEFINE m == t.m
           row == [match[m] EXCEPT !.state = "waiting", !.launches = @ + 1]
<1>1. t.at = "finish" /\ tasks' = tasks \ {t} /\ queue' = queue /\ exposed' = exposed
  BY DEF Finish
<1>2. m \in MatchIds
  BY <1>1, TaskOfMatch
<1>3. match' = [match EXCEPT ![m] = row]
  BY <1>2 DEF Finish, Strong, Shape
<1>4. /\ row.players = match[m].players /\ row.active = match[m].active
      /\ row.ready = match[m].ready /\ row.waiting = match[m].waiting
  BY <1>2, RowOf
<1>5. Finishing(m)
  BY <1>1 DEF Finishing
<1> HIDE DEF row
<1>6. Calmly(m, row, tasks \ {t}, {})
  BY <1>1, <1>2, <1>3, <1>4, <1>5 DEF Calmly
<1> QED
  BY <1>2, <1>6, RowCalm

\* The callback is popped, and perhaps whoever was ready forgotten; a coroutine takes over.
LEMMA PopCalm ==
  ASSUME Strong, Seating, NEW m \in MatchIds, NEW row, NEW s, match' = [match EXCEPT ![m] = row],
         tasks' = tasks \cup {s}, queue' = queue, exposed' = exposed,
         row.players = match[m].players, row.active = match[m].active, row.state = match[m].state,
         row.ready = match[m].ready \/ row.ready = {}, ~row.waiting,
         s.who \in Seq(People), s.rest \in Seq(People), s.m = m,
         s.at \in {"finish", "single", "abort", "cancel"},
         s.at = "finish" => row.ready = {},
         s.at = "abort" => s.tick /\ ~match[m].flag /\ row.ready = match[m].ready,
         s.tick => ~Ticking
  PROVE  Calm /\ OneTick'
<1>1. Calmly(m, row, tasks, {s})
  BY DEF Calmly, Ticking
<1> QED
  BY <1>1, RowCalm

LEMMA BackOutCalm ==
  ASSUME Strong, Seating, NEW m \in MatchIds, NEW u \in People, BackOut(m, u), ~ReplacePlayer(m, u)
  PROVE  Calm /\ OneTick'
<1> DEFINE row == [match[m] EXCEPT !.waiting = FALSE]
           s == On("single", m, <<u>>, FALSE)
<1>1. match' = [match EXCEPT ![m] = row] /\ tasks' = tasks \cup {s} /\ queue' = queue /\ exposed' = exposed
  BY DEF BackOut, Strong, Shape
<1>2. /\ row.players = match[m].players /\ row.active = match[m].active /\ row.state = match[m].state
      /\ row.ready = match[m].ready /\ ~row.waiting
  BY RowOf
<1>3. s.at = "single" /\ s.m = m /\ s.who \in Seq(People) /\ s.rest \in Seq(People) /\ ~s.tick
  BY DEF On
<1> QED
  BY <1>1, <1>2, <1>3, PopCalm

LEMMA TickAbortCalm ==
  ASSUME Strong, Seating, NEW m \in MatchIds, TickAbort(m)
  PROVE  Calm /\ OneTick'
<1> DEFINE row == [match[m] EXCEPT !.waiting = FALSE]
           s == On("abort", m, <<>>, TRUE)
<1>1. match' = [match EXCEPT ![m] = row] /\ tasks' = tasks \cup {s} /\ queue' = queue /\ exposed' = exposed
  BY DEF TickAbort, Strong, Shape
<1>2. /\ row.players = match[m].players /\ row.active = match[m].active /\ row.state = match[m].state
      /\ row.ready = match[m].ready /\ ~row.waiting
  BY RowOf
<1>3. s.at = "abort" /\ s.m = m /\ s.who \in Seq(People) /\ s.rest \in Seq(People) /\ s.tick
  BY DEF On
<1>4. ~Ticking /\ ~match[m].flag
  BY DEF TickAbort, Thinks
<1> QED
  BY <1>1, <1>2, <1>3, <1>4, PopCalm

LEMMA TickFinishCalm ==
  ASSUME Strong, Seating, NEW m \in MatchIds, TickFinish(m)
  PROVE  Calm /\ OneTick'
<1> DEFINE row == [match[m] EXCEPT !.waiting = FALSE, !.ready = {}]
           s == On("finish", m, <<>>, TRUE)
<1>1. match' = [match EXCEPT ![m] = row] /\ tasks' = tasks \cup {s} /\ queue' = queue /\ exposed' = exposed
  BY DEF TickFinish, Strong, Shape
<1>2. /\ row.players = match[m].players /\ row.active = match[m].active /\ row.state = match[m].state
      /\ row.ready = {} /\ ~row.waiting
  BY RowOf
<1>3. s.at = "finish" /\ s.m = m /\ s.who \in Seq(People) /\ s.rest \in Seq(People) /\ s.tick
  BY DEF On
<1>4. ~Ticking
  BY DEF TickFinish, Thinks
<1> QED
  BY <1>1, <1>2, <1>3, <1>4, PopCalm

LEMMA CancelCalm ==
  ASSUME Strong, Seating, NEW m \in MatchIds, Cancel(m)
  PROVE  Calm /\ OneTick'
<1> DEFINE row == [match[m] EXCEPT !.flag = TRUE, !.waiting = FALSE]
           s == On("cancel", m, <<>>, FALSE)
<1>1. match' = [match EXCEPT ![m] = row] /\ tasks' = tasks \cup {s} /\ queue' = queue /\ exposed' = exposed
  BY DEF Cancel, Strong, Shape
<1>2. /\ row.players = match[m].players /\ row.active = match[m].active /\ row.state = match[m].state
      /\ row.ready = match[m].ready /\ ~row.waiting
  BY RowOf
<1>3. s.at = "cancel" /\ s.m = m /\ s.who \in Seq(People) /\ s.rest \in Seq(People) /\ ~s.tick
  BY DEF On
<1> QED
  BY <1>1, <1>2, <1>3, PopCalm

LEMMA ReportCalm ==
  ASSUME Strong, Seating, NEW m \in MatchIds, Report(m)
  PROVE  Calm /\ OneTick'
<1> DEFINE row == [match[m] EXCEPT !.flag = TRUE]
           s == On("report", m, <<>>, FALSE)
<1>1. match' = [match EXCEPT ![m] = row] /\ tasks' = tasks \cup {s} /\ queue' = queue /\ exposed' = exposed
  BY DEF Report, Strong, Shape
<1>2. /\ row.players = match[m].players /\ row.active = match[m].active /\ row.state = match[m].state
      /\ row.ready = match[m].ready /\ row.waiting = match[m].waiting
  BY RowOf
<1>3. s.at = "report" /\ s.m = m /\ s.who \in Seq(People) /\ s.rest \in Seq(People) /\ ~s.tick
  BY DEF On
<1> HIDE DEF row, s
<1>4. Calmly(m, row, tasks, {s})
  BY <1>1, <1>2, <1>3 DEF Calmly
<1> QED
  BY <1>4, RowCalm

\* A coroutine ends, and with it at most the match is over or its flag comes down.
LEMMA EndCalm ==
  ASSUME Strong, Seating, NEW m \in MatchIds, NEW row, NEW T \in SUBSET tasks, match' = [match EXCEPT ![m] = row],
         tasks' = T, queue' = queue \/ \E S : queue' = Without(queue, S), exposed \subseteq exposed',
         row.players = match[m].players, row.active => match[m].active, row.state = match[m].state,
         row.ready = match[m].ready, row.waiting = match[m].waiting,
         \A t \in tasks \ T : t.at = "sub" => \A u \in ToSet(t.who) : u \notin ToSet(queue') \/ u \in exposed'
  PROVE  Calm /\ OneTick'
<1>1. Calmly(m, row, T, {})
  BY DEF Calmly
<1> QED
  BY <1>1, RowCalm

LEMMA TickDropCalm ==
  ASSUME Strong, Seating, NEW m \in MatchIds, TickDrop(m)
  PROVE  Calm /\ OneTick'
<1> DEFINE row == Removed(match[m], "dropped")
<1>1. match' = [match EXCEPT ![m] = row] /\ tasks' = tasks /\ queue' = queue /\ exposed' = exposed
  BY DEF TickDrop, Strong, Shape
<1>2. /\ row.players = match[m].players /\ ~row.active /\ row.state = match[m].state
      /\ row.ready = match[m].ready /\ row.waiting = match[m].waiting
  BY RowOf DEF Removed
<1> QED
  BY <1>1, <1>2, EndCalm

LEMMA SubstitutedCalm ==
  ASSUME Strong, Seating, NEW t \in tasks, Substituted(t)
  PROVE  Calm /\ OneTick'
<1> DEFINE m == t.m
           row == [match[m] EXCEPT !.flag = FALSE]
<1>1. t.at = "sub" /\ queue' = Without(queue, ToSet(t.who)) /\ tasks' = tasks \ {t} /\ exposed' = exposed
  BY DEF Substituted
<1>2. m \in MatchIds
  BY <1>1, TaskOfMatch
<1>3. match' = [match EXCEPT ![m] = row]
  BY <1>2 DEF Substituted, Strong, Shape
<1>4. /\ row.players = match[m].players /\ row.active = match[m].active /\ row.state = match[m].state
      /\ row.ready = match[m].ready /\ row.waiting = match[m].waiting
  BY <1>2, RowOf
<1>5. \A u \in ToSet(t.who) : u \notin ToSet(queue')
  BY <1>1, AllRemoved DEF Seating, Lists
<1> HIDE DEF m, row
<1>6. \A s \in tasks \ (tasks \ {t}) : \A u \in ToSet(s.who) : u \notin ToSet(queue')
  BY <1>5
<1> QED
  BY <1>1, <1>2, <1>3, <1>4, <1>6, EndCalm

LEMMA CancelledCalm ==
  ASSUME Strong, Seating, NEW t \in tasks, Cancelled(t)
  PROVE  Calm /\ OneTick'
<1> DEFINE m == t.m
           row == [(IF match[m].active THEN Removed(match[m], "cancelled") ELSE match[m]) EXCEPT !.flag = FALSE]
<1>1. t.at = "cancel" /\ queue' = queue /\ tasks' = tasks \ {t} /\ exposed' = exposed
  BY DEF Cancelled
<1>2. m \in MatchIds
  BY <1>1, TaskOfMatch
<1>3. match' = [match EXCEPT ![m] = row]
  BY <1>2 DEF Cancelled, Strong, Shape
<1>4. /\ row.players = match[m].players /\ (row.active => match[m].active) /\ row.state = match[m].state
      /\ row.ready = match[m].ready /\ row.waiting = match[m].waiting
  BY <1>2, RowOf DEF Removed
<1> HIDE DEF m, row
<1> QED
  BY <1>1, <1>2, <1>3, <1>4, EndCalm

LEMMA ReportedCalm ==
  ASSUME Strong, Seating, NEW t \in tasks, Reported(t)
  PROVE  Calm /\ OneTick'
<1> DEFINE m == t.m
           row == [Removed(match[m], "recorded") EXCEPT !.flag = FALSE]
<1>1. t.at = "report" /\ queue' = queue /\ tasks' = tasks \ {t} /\ exposed' = exposed
  BY DEF Reported
<1>2. m \in MatchIds
  BY <1>1, TaskOfMatch
<1>3. match' = [match EXCEPT ![m] = row]
  BY <1>2 DEF Reported, Strong, Shape
<1>4. /\ row.players = match[m].players /\ ~row.active /\ row.state = match[m].state
      /\ row.ready = match[m].ready /\ row.waiting = match[m].waiting
  BY <1>2, RowOf DEF Removed
<1> HIDE DEF m, row
<1> QED
  BY <1>1, <1>2, <1>3, <1>4, EndCalm

\* A coroutine is gone, and nothing else happens.
LEMMA GoneCalm ==
  ASSUME Strong, Seating, NEW t \in tasks, match' = match, tasks' = tasks \ {t}, queue' = queue,
         exposed \subseteq exposed', t.at = "sub" => ToSet(t.who) \subseteq exposed'
  PROVE  Calm /\ OneTick'
<1>1. \A s \in tasks' : s \in tasks
  OBVIOUS
<1>2. Calm
  BY DEF Calm
<1>3. OneTick'
  BY <1>1 DEF OneTick, Seating
<1> QED
  BY <1>2, <1>3

LEMMA FailCalm ==
  ASSUME Strong, Seating, NEW t \in tasks, Fail(t)
  PROVE  Calm /\ OneTick'
<1> DEFINE m == t.m
           row == [match[m] EXCEPT !.flag = FALSE]
<1>1. tasks' = tasks \ {t} /\ queue' = queue /\ exposed \subseteq exposed'
  BY DEF Fail, Expose
<1>2. t.at = "sub" => ToSet(t.who) \subseteq exposed'
  BY DEF Fail, Expose
<1>3. CASE t.at \in {"sub", "report"}
  <2>1. m \in MatchIds
    BY <1>3, TaskOfMatch
  <2>2. match' = [match EXCEPT ![m] = row]
    BY <1>3, <2>1 DEF Fail, Strong, Shape
  <2>3. /\ row.players = match[m].players /\ row.active = match[m].active /\ row.state = match[m].state
        /\ row.ready = match[m].ready /\ row.waiting = match[m].waiting
    BY <2>1, RowOf
  <2> HIDE DEF m, row
  <2>4. \A s \in tasks \ (tasks \ {t}) : s.at = "sub" => \A u \in ToSet(s.who) : u \in exposed'
    BY <1>2
  <2> QED
    BY <1>1, <2>1, <2>2, <2>3, <2>4, EndCalm
<1>4. CASE t.at \notin {"sub", "report"}
  <2>1. match' = match
    BY <1>4 DEF Fail
  <2> QED
    BY <1>1, <1>4, <2>1, GoneCalm
<1> QED
  BY <1>3, <1>4

----------------------------------------------------------------------------
(***************************************************************************)
(* The steps that seat people anew.                                        *)
(***************************************************************************)

\* Those in extra join the queue, or start out of it with everybody in it: of whoever holds nobody else
\* any more.
Free(u, T) ==
  /\ \A m : ~Plays(u, m)'
  /\ \A t \in T : ~Starts(u, t) /\ ~Returns(u, t)
Joining(list, extra) ==
  \A u : /\ u \in ToSet(list) <=> u \in ToSet(queue) \/ u \in ToSet(extra)
         /\ OnceIn(list, u) <=>
              OnceIn(queue, u) /\ OnceIn(extra, u) /\ ~(u \in ToSet(queue) /\ u \in ToSet(extra))
Joins(extra, T) ==
  /\ tasks' = T /\ queue' \in Seq(People)
  /\ Joining(queue', extra)
StartsOut(extra, T, s) ==
  /\ tasks' = T \cup {s} /\ queue' = <<>>
  /\ s.at \in {"create", "restart"} /\ s.who \in Seq(People) /\ s.rest \in Seq(People)
  /\ s.tick => \A t \in T : ~t.tick
  /\ Joining(s.who \o s.rest, extra)
  /\ \A u \in Entering : u \in exposed' \/ (u \notin ToSet(queue) /\ u \notin ToSet(extra))

LEMMA JoinKeeps ==
  ASSUME Strong, Seating, NEW extra, NEW T \in SUBSET tasks, NEW s,
         Joins(extra, T) \/ StartsOut(extra, T, s),
         \A t \in tasks \ T : t.at # "sub",
         exposed \subseteq exposed',
         \A m \in MatchIds :
           /\ match'[m].players = match[m].players /\ match'[m].ready = match[m].ready
           /\ match'[m].waiting = match[m].waiting /\ match'[m].state = match[m].state
           /\ match'[m].active => match[m].active,
         \A u \in ToSet(extra) : \/ u \in exposed'
                                 \/ /\ OnceIn(extra, u) /\ Free(u, T)
                                    /\ u \in ToSet(queue) => u \in Entering
  PROVE  Seating'
<1>0. \A t \in T : t \in tasks
  OBVIOUS
<1>1. \A t \in tasks' : t \in T \/ (StartsOut(extra, T, s) /\ t = s)
  BY DEF Joins, StartsOut
<1>2. Lists'
  <2>1. queue' \in Seq(People)
    <3>1. <<>> \in Seq(People)
      OBVIOUS
    <3> QED
      BY <3>1, Zenon DEF Joins, StartsOut
  <2>2. \A m \in MatchIds : match'[m].players \in Seq(People) /\ match'[m].ready \subseteq People
    BY DEF Seating, Lists
  <2>3. \A t \in tasks' : t.who \in Seq(People) /\ t.rest \in Seq(People)
    BY <1>0, <1>1 DEF Seating, Lists, StartsOut
  <2> QED
    BY <2>1, <2>2, <2>3 DEF Lists
<1>3. \A m : Finishing(m)' => Finishing(m)
  BY <1>0, <1>1 DEF Finishing, StartsOut
<1>4. ReadyPlay'
  BY <1>3 DEF Seating, ReadyPlay
<1>5. OneTick'
  <2>1. ASSUME NEW t \in T, t.at \in {"abort", "revert"} PROVE ~match'[t.m].waiting
    <3>1. ~match[t.m].waiting /\ t.m \in MatchIds
      BY <1>0, <2>1, TaskOfMatch DEF Seating, OneTick
    <3> QED
      BY <3>1
  <2>2. CASE tasks' = T
    BY <1>0, <2>1, <2>2 DEF Seating, OneTick
  <2>3. CASE StartsOut(extra, T, s)
    <3> DEFINE N == {s}
    <3>1. tasks' = T \cup N /\ s.at \in {"create", "restart"} /\ \A x \in N, t \in T : x.tick => ~t.tick
      BY <2>3 DEF StartsOut
    <3>2. (\A x, t \in N : x.tick /\ t.tick => x = t) /\ (\A x \in N : x.at \in {"checkin", "abort", "revert"} => x.tick)
      BY <3>1
    <3>3. \A t \in tasks' : t.at \in {"abort", "revert"} => ~match'[t.m].waiting
      BY <2>1, <3>1
    <3> HIDE DEF N
    <3> QED
      BY <3>1, <3>2, <3>3, TickStep DEF Seating
  <2> QED
    BY <2>2, <2>3 DEF Joins
<1>6. ASSUME NEW u \in People \ exposed' PROVE SeatOf(u)'
  <2>1. SeatOf(u)
    BY DEF Seating
  <2>2. u \in ToSet(extra) => OnceIn(extra, u) /\ Free(u, T) /\ (u \in ToSet(queue) => u \in Entering)
    OBVIOUS
  <2>3. u \in Entering' <=> u \in Entering
    BY <1>0, <1>1 DEF Entering, Tasks, StartsOut, Joins
  <2>4. \A m : Plays(u, m)' => Plays(u, m)
    BY DEF Plays
  <2>5. ASSUME NEW t, Returns(u, t)' PROVE t \in T /\ Returns(u, t)
    <3>1. t \in T /\ t.at = "revert" /\ u \in match'[t.m].ready
      BY <1>1, <2>5 DEF Returns, StartsOut
    <3>2. t.m \in MatchIds
      BY <1>0, <3>1, TaskOfMatch
    <3> QED
      BY <1>0, <3>1, <3>2 DEF Returns
  <2>6. \A m, x : SubOf(u, m, x)' <=> SubOf(u, m, x)
    BY <1>0, <1>1 DEF SubOf, StartsOut, Joins
  <2>7. \A t : t \in tasks' /\ t.at = "abort" => t \in tasks /\ t.m \in MatchIds
    BY <1>0, <1>1, TaskOfMatch DEF StartsOut
  <2>8. u \in ToSet(queue) \/ u \notin ToSet(extra) => (u \notin ToSet(extra) => OnceIn(extra, u))
    BY DEF OnceIn, ToSet
  <2>9. Enters(u) /\ Apart(u) /\ Once(u)
    BY <2>1 DEF SeatOf
  <2>10. CASE Joins(extra, T)
    <3>1. tasks' = T /\ (u \in ToSet(queue') <=> u \in ToSet(queue) \/ u \in ToSet(extra))
      BY <2>10 DEF Joins, Joining
    <3>2. u \notin Entering => OnceIn(queue', u)
      BY <2>2, <2>8, <2>9, <2>10 DEF Joins, Joining, Once
    <3>3. \A t : Starts(u, t)' => t \in T /\ Starts(u, t)
      BY <1>0, <3>1 DEF Starts
    <3>4. Queued(u)' => Queued(u) \/ u \in ToSet(extra)
      BY <2>3, <3>1 DEF Queued
    <3>5. Apart(u)'
      <4>1. CASE u \in ToSet(extra)
        BY <2>2, <2>4, <2>5, <2>9, <3>3, <4>1 DEF Apart, Free
      <4>2. CASE u \notin ToSet(extra)
        <5>1. Queued(u)' => Queued(u)
          BY <3>4, <4>2
        <5> QED
          BY <2>4, <2>5, <2>9, <3>3, <5>1, Zenon DEF Apart
      <4> QED
        BY <4>1, <4>2
    <3>6. Once(u)'
      BY <1>0, <2>3, <2>9, <3>1, <3>2 DEF Once
    <3>7. Enters(u)'
      <4>1. u \in Entering' => \A t : ~Starts(u, t)'
        BY <2>3, <2>9, <3>3 DEF Enters
      <4>2. u \in Entering' /\ u \in ToSet(queue') => \A t : ~Returns(u, t)'
        BY <2>2, <2>3, <2>5, <2>9, <3>1 DEF Enters, Free
      <4>3. \A m : Plays(u, m)' /\ u \in ToSet(queue') => \E x : SubOf(u, m, x)'
        BY <2>2, <2>4, <2>6, <2>9, <3>1 DEF Enters, Free
      <4>4. \A x, t : t \in tasks' /\ t.at = "abort" /\ SubOf(u, t.m, x)' => u \notin match'[t.m].ready
        BY <2>6, <2>7, <2>9 DEF Enters
      <4> QED
        BY <4>1, <4>2, <4>3, <4>4 DEF Enters
    <3> QED
      BY <3>5, <3>6, <3>7 DEF SeatOf
  <2>11. CASE StartsOut(extra, T, s)
    <3> DEFINE In == u \in ToSet(queue) \/ u \in ToSet(extra)
               list == s.who \o s.rest
    <3>1. tasks' = T \cup {s} /\ queue' = <<>> /\ s.at \in {"create", "restart"}
      BY <2>11 DEF StartsOut
    <3>2. u \in ToSet(s.who) \/ u \in ToSet(s.rest) <=> In
      <4>1. u \in ToSet(list) <=> u \in ToSet(s.who) \/ u \in ToSet(s.rest)
        BY <2>11, Concat DEF StartsOut
      <4>2. u \in ToSet(list) <=> In
        BY <2>11 DEF StartsOut, Joining
      <4> QED
        BY <4>1, <4>2
    <3>3. In => u \notin Entering
      BY <2>11 DEF StartsOut
    <3>4. OnceIn(list, u)
      <4>1. OnceIn(queue, u) \/ u \in Entering
        BY <2>9 DEF Once
      <4>2. OnceIn(list, u) \/ In
        <5>1. u \notin ToSet(queue) => OnceIn(queue, u)
          BY DEF OnceIn, ToSet
        <5> QED
          BY <2>8, <2>11, <5>1 DEF StartsOut, Joining
      <4> QED
        BY <2>2, <2>8, <2>11, <3>3, <4>1, <4>2 DEF StartsOut, Joining
    <3>5. u \notin ToSet(queue')
      BY <3>1 DEF ToSet
    <3>6. \A t : Starts(u, t)' => (t = s /\ In) \/ (t \in T /\ Starts(u, t))
      BY <1>0, <3>1, <3>2 DEF Starts
    <3>7. In => (\A t \in T : ~Starts(u, t) /\ ~Returns(u, t)) /\ \A m : ~Plays(u, m)'
      <4>1. CASE u \in ToSet(extra)
        BY <2>2, <4>1 DEF Free
      <4>2. CASE u \in ToSet(queue)
        BY <2>4, <2>9, <3>3, <4>2 DEF Apart, Queued
      <4> QED
        BY <4>1, <4>2
    <3>8. ~Queued(u)'
      BY <3>5 DEF Queued
    <3> HIDE DEF In
    <3>9. Apart(u)'
      <4>1. CASE In
        BY <2>5, <3>6, <3>7, <3>8, <4>1 DEF Apart
      <4>2. CASE ~In
        <5>1. \A t : Starts(u, t)' => Starts(u, t)
          BY <3>6, <4>2
        <5> QED
          BY <2>4, <2>5, <2>9, <3>8, <5>1, Zenon DEF Apart
      <4> QED
        BY <4>1, <4>2
    <3>10. Once(u)'
      <4>1. OnceIn(queue', u)
        BY <3>5 DEF OnceIn, ToSet
      <4>2. \A t \in tasks' : t.at \in {"create", "restart"} => OnceIn(t.who \o t.rest, u)
        BY <1>0, <2>9, <3>1, <3>4 DEF Once
      <4> QED
        BY <2>9, <4>1, <4>2 DEF Once
    <3>11. Enters(u)'
      <4>1. u \in Entering' => \A t : ~Starts(u, t)'
        BY <2>3, <2>9, <3>3, <3>6 DEF Enters
      <4>2. \A x, t : t \in tasks' /\ t.at = "abort" /\ SubOf(u, t.m, x)' => u \notin match'[t.m].ready
        BY <2>6, <2>7, <2>9 DEF Enters
      <4> QED
        BY <3>5, <4>1, <4>2 DEF Enters
    <3> QED
      BY <3>9, <3>10, <3>11 DEF SeatOf
  <2> QED
    BY <2>10, <2>11
<1> QED
  BY <1>2, <1>4, <1>5, <1>6 DEF Seating

LEMMA AddSeats ==
  ASSUME Strong, Seating, NEW u \in People, NEW moderator, Add(u, moderator)
  PROVE  Seating'
<1> DEFINE q == Append(queue, u)
           extra == <<u>>
           s == [On("create", 0, q, FALSE) EXCEPT !.rest = <<>>]
<1>1. queue \in Seq(People) /\ u \notin ToSet(queue) /\ match' = match
  BY DEF Add, Seating, Lists
<1>2. q \in Seq(People) /\ extra \in Seq(People) /\ q = queue \o extra
  BY <1>1
<1>3. ToSet(extra) = {u} /\ OnceIn(extra, u)
  <2>1. DOMAIN extra = {1} /\ extra[1] = u
    OBVIOUS
  <2> HIDE DEF extra
  <2> QED
    BY <2>1, Zenon DEF ToSet, OnceIn
<1>4. /\ s.at = "create" /\ s.who = q /\ s.rest = <<>> /\ ~s.tick
      /\ s.who \in Seq(People) /\ s.rest \in Seq(People) /\ s.who \o s.rest = q
  BY <1>2 DEF On
<1>5. \/ queue' = q /\ tasks' = tasks /\ Len(q) # Size
      \/ queue' = <<>> /\ tasks' = tasks \cup {s} /\ Len(q) = Size
  BY DEF Add, Start
<1>6. exposed' = exposed \cup {v \in ToSet(q) : \/ v = u /\ (InMatch(u) \/ Held(u))
                                                \/ Len(q) = Size /\ v \in Entering}
  BY DEF Add, Expose
<1>7. Joining(q, extra)
  <2> HIDE DEF q, extra
  <2> QED
    BY <1>1, <1>2, Concat DEF Joining
<1>8. \A v : v \in ToSet(q) <=> v \in ToSet(queue) \/ v = u
  BY <1>3, <1>7 DEF Joining
<1>9. u \in exposed' \/ Free(u, tasks)
  <2> SUFFICES ASSUME u \notin exposed' PROVE Free(u, tasks)
    OBVIOUS
  <2>1. ~InMatch(u) /\ ~Held(u)
    BY <1>6, <1>8
  <2>2. \A m : ~Plays(u, m)'
    BY <1>1, <2>1 DEF Plays, InMatch
  <2>3. ASSUME NEW t \in tasks, Starts(u, t) PROVE FALSE
    <3>1. t \in Creating
      BY <2>3 DEF Starts, Creating, Tasks
    <3>2. t.who \in Seq(People) /\ t.rest \in Seq(People)
      BY DEF Seating, Lists
    <3>3. u \in ToSet(t.who \o t.rest)
      BY <2>3, <3>2, Concat DEF Starts
    <3> QED
      BY <2>1, <3>1, <3>3 DEF Held
  <2>4. \A t \in tasks : ~Returns(u, t)
    BY <2>1 DEF Returns, Held, Tasks
  <2> QED
    BY <2>2, <2>3, <2>4 DEF Free
<1> HIDE DEF q, extra, s
<1>10. Joins(extra, tasks) \/ StartsOut(extra, tasks, s)
  <2>1. CASE queue' = q /\ tasks' = tasks
    BY <1>2, <1>7, <2>1 DEF Joins
  <2>2. CASE queue' = <<>> /\ tasks' = tasks \cup {s} /\ Len(q) = Size
    <3>1. \A v \in Entering : v \in exposed' \/ (v \notin ToSet(queue) /\ v \notin ToSet(extra))
      BY <1>3, <1>6, <1>8, <2>2
    <3> QED
      BY <1>4, <1>7, <2>2, <3>1 DEF StartsOut
  <2> QED
    BY <1>5, <2>1, <2>2
<1> QED
  BY <1>1, <1>3, <1>6, <1>9, <1>10, JoinKeeps

\* Whoever a revert brings back joins the queue, or starts out of it.
LEMMA Reverts ==
  ASSUME NEW back \in Seq(People), NEW tick \in BOOLEAN, NEW T, Revert(back, tick, T), queue \in Seq(People),
         tick => \A t \in T : ~t.tick
  PROVE  /\ exposed \subseteq exposed'
         /\ \E s : Joins(back, T) \/ StartsOut(back, T, s)
<1> DEFINE room == Max({0, Size - Len(back)})
           fill == Min({Len(queue), room})
           kept == SubSeq(queue, 1, fill)
           rest == SubSeq(queue, fill + 1, Len(queue))
           q == back \o kept
           s == [On("restart", 0, q, tick) EXCEPT !.rest = rest]
<1>1. /\ Len(queue) \in Nat /\ Len(back) \in Nat /\ Size \in Nat
      /\ room \in Nat /\ room >= Size - Len(back)
  <2>1. Len(queue) \in Nat /\ Len(back) \in Nat /\ Size \in Nat
    BY SizeAssumption
  <2> DEFINE I == {0, Size - Len(back)}
  <2>2. \E x \in I : \A y \in I : x >= y
    BY <2>1
  <2>3. Max(I) \in I /\ \A y \in I : Max(I) >= y
    BY <2>2 DEF Max
  <2> QED
    BY <2>1, <2>3
<1>2. fill \in 0..Len(queue) /\ (fill = room \/ fill = Len(queue))
  <2> HIDE DEF room
  <2> DEFINE I == {Len(queue), room}
  <2>1. I \in SUBSET Nat /\ I # {}
    BY <1>1
  <2>2. Min(I) \in I /\ \A i \in I : Min(I) <= i
    BY <2>1, LeastOf
  <2> QED
    BY <1>1, <2>1, <2>2
<1> HIDE DEF fill, room
<1>3. kept \in Seq(People) /\ rest \in Seq(People) /\ queue = kept \o rest /\ Len(kept) = fill
  <2>1. Len(SubSeq(queue, 1, fill)) = fill
    BY <1>1, <1>2
  <2> QED
    BY <1>2, <2>1, Split
<1>4. fill = Len(queue) => kept = queue
  BY SubSeqFull
<1>5. Joining(back \o queue, back)
  BY Concat DEF Joining
<1>6. s.at = "restart" /\ s.who = q /\ s.rest = rest /\ s.tick = tick
  BY DEF On
<1>7. CASE Len(q) >= Size
  <2>1. /\ queue' = <<>> /\ tasks' = T \cup {s}
        /\ exposed' = exposed \cup (Entering \cap ToSet(back \o queue))
    BY <1>7 DEF Revert, Start, Expose, fill, room
  <2>2. q \in Seq(People) /\ q \o rest = back \o queue
    <3> HIDE DEF kept, rest
    <3> QED
      BY <1>3
  <2>3. \A v \in Entering : v \in exposed' \/ (v \notin ToSet(queue) /\ v \notin ToSet(back))
    BY <2>1, Concat
  <2> HIDE DEF q, rest, s
  <2>4. StartsOut(back, T, s)
    BY <1>3, <1>5, <1>6, <2>1, <2>2, <2>3 DEF StartsOut
  <2> QED
    BY <2>1, <2>4
<1>8. CASE ~(Len(q) >= Size)
  <2>1. queue' = q /\ tasks' = T /\ exposed' = exposed
    BY <1>8 DEF Revert, fill, room
  <2>2. Len(q) = Len(back) + fill
    BY <1>3
  <2>3. kept = queue
    BY <1>1, <1>2, <1>4, <1>8, <2>2
  <2>4. q \in Seq(People) /\ q = back \o queue
    BY <2>3, Concat
  <2>5. Joins(back, T)
    BY <1>5, <2>1, <2>4 DEF Joins
  <2> QED
    BY <2>1, <2>5
<1> QED
  BY <1>7, <1>8

LEMMA RevertSingleSeats ==
  ASSUME Strong, Seating, NEW t \in tasks, RevertSingle(t)
  PROVE  Seating'
<1> DEFINE m == t.m
           row == Removed(match[m], "reverted")
           T == tasks \ {t}
           back == Without(match[m].players, ToSet(t.who))
<1>1. t.at = "single" /\ m \in MatchIds
  BY TaskOfMatch DEF RevertSingle
<1>2. CASE ~match[m].active
  <2>1. match' = match /\ tasks' = tasks \ {t} /\ queue' = queue /\ exposed' = exposed
    BY <1>2 DEF RevertSingle
  <2> QED
    BY <1>1, <2>1, GoneCalm, CalmKeeps
<1>3. CASE match[m].active
  <2>1. match' = [match EXCEPT ![m] = row] /\ Revert(back, FALSE, T)
    BY <1>1, <1>3 DEF RevertSingle, Strong, Shape
  <2>2. /\ row.players = match[m].players /\ row.ready = match[m].ready /\ ~row.active
        /\ row.waiting = match[m].waiting /\ row.state = match[m].state
    BY <1>1, RowOf DEF Removed
  <2>3. match'[m] = row /\ \A n \in MatchIds : n # m => match'[n] = match[n]
    BY <1>1, <2>1 DEF Strong, Shape
  <2>4. /\ back \in Seq(People)
        /\ \A u : u \in ToSet(back) => u \in ToSet(match[m].players)
        /\ \A u : OnceIn(match[m].players, u) => OnceIn(back, u)
    BY <1>1, AllRemoved DEF Seating, Lists
  <2> HIDE DEF row, back
  <2>5. PICK s : exposed \subseteq exposed' /\ (Joins(back, T) \/ StartsOut(back, T, s))
    <3>1. FALSE \in BOOLEAN /\ queue \in Seq(People)
      BY DEF Seating, Lists
    <3> HIDE DEF T
    <3> QED
      BY <2>1, <2>4, <3>1, Reverts
  <2>6. ASSUME NEW u \in ToSet(back), u \notin exposed'
        PROVE  OnceIn(back, u) /\ Free(u, T) /\ (u \in ToSet(queue) => u \in Entering)
    <3>1. u \in People \ exposed
      BY <2>4, <2>5, <2>6 DEF ToSet
    <3>2. SeatOf(u) /\ Plays(u, m)
      BY <1>1, <1>3, <2>4, <2>6, <3>1 DEF Seating, Plays
    <3>3. \A n : ~Plays(u, n)'
      BY <2>2, <2>3, <3>2 DEF Plays, SeatOf, Apart
    <3>4. Free(u, T)
      BY <3>2, <3>3 DEF Free, SeatOf, Apart
    <3>5. OnceIn(back, u)
      BY <1>1, <1>3, <2>4, <3>2 DEF SeatOf, Once
    <3>6. u \in ToSet(queue) => u \in Entering
      BY <3>2 DEF Queued, SeatOf, Apart
    <3> QED
      BY <3>4, <3>5, <3>6
  <2>7. T \in SUBSET tasks /\ \A x \in tasks \ T : x.at # "sub"
    BY <1>1
  <2>8. \A n \in MatchIds :
          /\ match'[n].players = match[n].players /\ match'[n].ready = match[n].ready
          /\ match'[n].waiting = match[n].waiting /\ match'[n].state = match[n].state
          /\ match'[n].active => match[n].active
    BY <2>2, <2>3
  <2> HIDE DEF T, m
  <2> QED
    BY <2>5, <2>6, <2>7, <2>8, JoinKeeps
<1> QED
  BY <1>2, <1>3

LEMMA AbortRevertsSeats ==
  ASSUME Strong, Seating, NEW t \in tasks, AbortReverts(t)
  PROVE  Seating'
<1> DEFINE m == t.m
           T == tasks \ {t}
<1>1. t.at = "revert" /\ m \in MatchIds /\ match' = match
  BY TaskOfMatch DEF AbortReverts
<1>2. PICK back \in SetToSeqs(match[m].ready) : Revert(back, TRUE, T)
  BY DEF AbortReverts
<1>3. /\ back \in Seq(People)
      /\ \A u : u \in ToSet(back) => u \in match[m].ready
      /\ \A u : OnceIn(back, u)
  <2>1. match[m].ready \subseteq People
    BY <1>1 DEF Seating, Lists
  <2>2. /\ back \in [1..Cardinality(match[m].ready) -> match[m].ready]
        /\ \A i, j \in DOMAIN back : back[i] = back[j] => i = j
    BY DEF SetToSeqs
  <2>2a. Cardinality(match[m].ready) \in Nat
    BY <2>1, PeopleAssumption, FS_Subset, FS_CardinalityType
  <2>3. \A u : OnceIn(back, u)
    BY <2>2, Zenon DEF OnceIn
  <2>4. \A u \in ToSet(back) : u \in match[m].ready
    BY <2>2 DEF ToSet
  <2>5. back \in Seq(People)
    BY <2>1, <2>2, <2>2a
  <2> QED
    BY <2>3, <2>4, <2>5
<1>4. T \in SUBSET tasks /\ (\A x \in tasks \ T : x.at # "sub") /\ (\A x \in T : ~x.tick)
  BY <1>1 DEF Seating, OneTick
<1> HIDE DEF T
<1>5. PICK s : exposed \subseteq exposed' /\ (Joins(back, T) \/ StartsOut(back, T, s))
  <2>1. TRUE \in BOOLEAN /\ queue \in Seq(People)
    BY DEF Seating, Lists
  <2> QED
    BY <1>2, <1>3, <1>4, <2>1, Reverts
<1>6. ASSUME NEW u \in ToSet(back), u \notin exposed'
      PROVE  OnceIn(back, u) /\ Free(u, T) /\ (u \in ToSet(queue) => u \in Entering)
  <2>1. u \in People \ exposed
    BY <1>3, <1>5, <1>6 DEF ToSet
  <2>2. SeatOf(u) /\ Returns(u, t)
    BY <1>1, <1>3, <1>6, <2>1 DEF Seating, Returns
  <2>3. \A n : Plays(u, n)' <=> Plays(u, n)
    BY <1>1 DEF Plays
  <2>4. \A x \in T : x # t
    BY DEF T
  <2>5. Free(u, T)
    BY <2>2, <2>3, <2>4 DEF Free, SeatOf, Apart
  <2>6. u \in ToSet(queue) => u \in Entering
    BY <2>2 DEF Queued, SeatOf, Apart
  <2> QED
    BY <1>3, <2>5, <2>6
<1>7. \A n \in MatchIds :
        /\ match'[n].players = match[n].players /\ match'[n].ready = match[n].ready
        /\ match'[n].waiting = match[n].waiting /\ match'[n].state = match[n].state
        /\ match'[n].active => match[n].active
  BY <1>1
<1> QED
  BY <1>4, <1>5, <1>6, <1>7, JoinKeeps

LEMMA PublishSeats ==
  ASSUME Strong, Seating, NEW t \in tasks, Publish(t)
  PROVE  Seating'
<1> DEFINE T == tasks \ {t}
<1>1. /\ t.at \in {"create", "restart"} /\ t.who \in Seq(People) /\ t.rest \in Seq(People)
      /\ queue' = (IF t.at = "restart" THEN t.rest ELSE queue) /\ tasks' = T /\ exposed' = exposed
  BY DEF Publish, Creating, Tasks, Seating, Lists
<1>2. PICK m \in Unused :
        match' = [match EXCEPT ![m] =
                    [NoMatch EXCEPT !.state = "init", !.active = TRUE, !.players = t.who]]
  BY DEF Publish
<1>3. m \in MatchIds /\ match[m] = NoMatch /\ \A x \in tasks : x.m # m
  BY DEF Unused, Strong, IInv, OneEnd
<1>4. ~match[m].active
  BY <1>3 DEF NoMatch
<1>5. /\ match'[m].players = t.who /\ match'[m].active /\ match'[m].ready = {}
      /\ match'[m].state = "init" /\ ~match'[m].waiting
      /\ \A n \in MatchIds : n # m => match'[n] = match[n]
  BY <1>2, <1>3 DEF Strong, Shape, NoMatch
<1>6. \A x \in T : x \in tasks /\ x # t
  OBVIOUS
<1>7. \A x \in T : x.at \notin {"create", "restart"} => x.m \in MatchIds /\ x.m # m
  BY <1>3, <1>6, TaskOfMatch
<1> HIDE DEF T
<1>8. Lists'
  <2>1. queue' \in Seq(People)
    BY <1>1 DEF Seating, Lists
  <2>2. \A n \in MatchIds : match'[n].players \in Seq(People) /\ match'[n].ready \subseteq People
    BY <1>1, <1>5 DEF Seating, Lists
  <2>3. \A x \in tasks' : x.who \in Seq(People) /\ x.rest \in Seq(People)
    BY <1>1, <1>6 DEF Seating, Lists
  <2> QED
    BY <2>1, <2>2, <2>3 DEF Lists
<1>9. ReadyPlay'
  <2> SUFFICES ASSUME NEW n \in MatchIds
               PROVE  /\ match'[n].active => match'[n].ready \subseteq ToSet(match'[n].players) \cup exposed'
                      /\ match'[n].state = "waiting" \/ Finishing(n)' => match'[n].ready = {}
    BY DEF ReadyPlay
  <2>1. Finishing(n)' => Finishing(n)
    BY <1>1, <1>6 DEF Finishing
  <2>2. /\ match[n].active => match[n].ready \subseteq ToSet(match[n].players) \cup exposed
        /\ match[n].state = "waiting" \/ Finishing(n) => match[n].ready = {}
    BY DEF Seating, ReadyPlay
  <2> QED
    BY <1>1, <1>5, <2>1, <2>2
<1>10. OneTick'
  <2>1. ASSUME NEW x \in tasks', x.at \in {"abort", "revert"} PROVE ~match'[x.m].waiting
    <3>1. x.m \in MatchIds /\ x.m # m /\ x \in tasks
      BY <1>1, <1>6, <1>7, <2>1
    <3> QED
      BY <1>5, <2>1, <3>1 DEF Seating, OneTick
  <2> QED
    BY <1>1, <1>6, <2>1 DEF Seating, OneTick
<1>11. ASSUME NEW u \in People \ exposed' PROVE SeatOf(u)'
  <2>1. Apart(u) /\ Once(u) /\ Enters(u)
    BY <1>1 DEF Seating, SeatOf
  <2>2. u \in Entering' <=> u \in Entering
    BY <1>1, <1>6 DEF Entering, Tasks, T
  <2>3. \A n : Plays(u, n)' <=> (IF n = m THEN u \in ToSet(t.who) ELSE Plays(u, n))
    BY <1>3, <1>5 DEF Plays
  <2>4. \A x : Starts(u, x)' => x # t /\ Starts(u, x)
    BY <1>1, <1>6 DEF Starts
  <2>5. \A x : Returns(u, x)' => Returns(u, x)
    <3> SUFFICES ASSUME NEW x, Returns(u, x)' PROVE Returns(u, x)
      OBVIOUS
    <3>1. x \in T /\ x.at = "revert" /\ x \in tasks
      BY <1>1, <1>6 DEF Returns
    <3>2. x.m \in MatchIds /\ x.m # m
      BY <1>7, <3>1
    <3> QED
      BY <1>5, <3>1, <3>2 DEF Returns
  <2>6. u \in ToSet(t.who) \/ u \in ToSet(t.rest) => Starts(u, t)
    BY <1>1 DEF Starts
  <2>7. ~(u \in ToSet(t.who) /\ u \in ToSet(t.rest)) /\ OnceIn(t.who, u) /\ OnceIn(t.rest, u)
    <3>1. OnceIn(t.who \o t.rest, u)
      BY <1>1, <2>1 DEF Once
    <3> QED
      BY <1>1, <3>1, Concat
  <2>8. u \in ToSet(queue') => u \in ToSet(queue) \/ (u \in ToSet(t.rest) /\ t.at = "restart")
    BY <1>1
  <2>9. u \in ToSet(t.who) => u \notin ToSet(queue')
    <3> SUFFICES ASSUME u \in ToSet(t.who), u \in ToSet(queue') PROVE FALSE
      OBVIOUS
    <3>1. u \in ToSet(queue) /\ Starts(u, t)
      BY <2>6, <2>7, <2>8
    <3>2. u \notin Entering
      BY <2>1, <3>1 DEF Enters
    <3> QED
      BY <2>1, <3>1, <3>2 DEF Apart, Queued
  <2>10. Apart(u)'
    <3>1. CASE u \in ToSet(t.who)
      BY <2>1, <2>3, <2>4, <2>5, <2>6, <2>9, <3>1 DEF Apart, Queued
    <3>2. CASE u \notin ToSet(t.who)
      <4>1. \A n : Plays(u, n)' => Plays(u, n)
        BY <2>3, <3>2
      <4>2. Queued(u)' => Queued(u) \/ Starts(u, t)
        BY <2>2, <2>6, <2>8 DEF Queued
      <4>3. ASSUME Starts(u, t)
            PROVE  \A n, x : ~Plays(u, n)' /\ ~Starts(u, x)' /\ ~Returns(u, x)'
        BY <2>1, <2>4, <2>5, <4>1, <4>3 DEF Apart
      <4> QED
        BY <2>1, <2>4, <2>5, <4>1, <4>2, <4>3 DEF Apart
    <3> QED
      BY <3>1, <3>2
  <2>11. Once(u)'
    <3>1. u \notin Entering' => OnceIn(queue', u)
      BY <1>1, <2>1, <2>2, <2>7 DEF Once
    <3>2. \A n \in MatchIds : match'[n].active => OnceIn(match'[n].players, u)
      BY <1>5, <2>1, <2>7 DEF Once
    <3>3. \A x \in tasks' : x.at \in {"create", "restart"} => OnceIn(x.who \o x.rest, u)
      BY <1>1, <1>6, <2>1 DEF Once
    <3> QED
      BY <3>1, <3>2, <3>3 DEF Once
  <2>12. Enters(u)'
    <3>1. u \in Entering' => \A x : ~Starts(u, x)'
      BY <2>1, <2>2, <2>4 DEF Enters
    <3>2. u \in Entering' /\ u \in ToSet(queue') => \A x : ~Returns(u, x)'
      BY <2>1, <2>2, <2>5, <2>6, <2>8 DEF Enters
    <3>3. ASSUME NEW n, Plays(u, n)', u \in ToSet(queue') PROVE \E s : SubOf(u, n, s)'
      <4>1. n # m /\ Plays(u, n)
        BY <2>3, <2>9, <3>3
      <4>2. u \in ToSet(queue)
        BY <2>1, <2>6, <2>8, <3>3, <4>1 DEF Apart
      <4>3. PICK s : SubOf(u, n, s)
        BY <2>1, <4>1, <4>2 DEF Enters
      <4>4. s \in tasks'
        BY <1>1, <4>3 DEF SubOf, T
      <4> QED
        BY <4>3, <4>4 DEF SubOf
    <3>4. ASSUME NEW s, NEW x, x \in tasks', x.at = "abort", SubOf(u, x.m, s)' PROVE u \notin match'[x.m].ready
      <4>1. x \in tasks /\ x.m \in MatchIds /\ x.m # m /\ SubOf(u, x.m, s)
        BY <1>1, <1>6, <1>7, <3>4 DEF SubOf
      <4> QED
        BY <1>5, <2>1, <3>4, <4>1 DEF Enters
    <3> QED
      BY <3>1, <3>2, <3>3, <3>4 DEF Enters
  <2> QED
    BY <2>10, <2>11, <2>12 DEF SeatOf
<1> QED
  BY <1>8, <1>9, <1>10, <1>11 DEF Seating

\* Whoever was ready is put back in the queue a moment after the match is gone.
LEMMA AbortSeats ==
  ASSUME Strong, Seating, NEW t \in tasks, Abort(t)
  PROVE  Seating'
<1> DEFINE m == t.m
           row == Removed(match[m], "reverted")
           T == tasks \ {t}
           r == [t EXCEPT !.at = "revert"]
<1>1. t.at = "abort" /\ m \in MatchIds /\ queue' = queue /\ exposed' = exposed
  BY TaskOfMatch DEF Abort
<1>2. CASE ~match[m].active
  <2>1. match' = match /\ tasks' = tasks \ {t}
    BY <1>2 DEF Abort
  <2> QED
    BY <1>1, <2>1, GoneCalm, CalmKeeps
<1>3. CASE match[m].active
  <2>1. match' = [match EXCEPT ![m] = row] /\ tasks' = T \cup {r}
    BY <1>1, <1>3 DEF Abort, Strong, Shape
  <2>2. /\ row.players = match[m].players /\ row.ready = match[m].ready /\ ~row.active
        /\ row.waiting = match[m].waiting /\ row.state = match[m].state
    BY <1>1, RowOf DEF Removed
  <2>3. match'[m] = row /\ \A n \in MatchIds : n # m => match'[n] = match[n]
    BY <1>1, <2>1 DEF Strong, Shape
  <2>4. r.at = "revert" /\ r.m = m /\ r.who = t.who /\ r.rest = t.rest /\ r.tick = t.tick
    BY <1>1 DEF Strong, Shape, TaskShape, TaskFields
  <2>5. \A n \in MatchIds :
          /\ match'[n].players = match[n].players /\ match'[n].ready = match[n].ready
          /\ match'[n].waiting = match[n].waiting /\ match'[n].state = match[n].state
          /\ match'[n].active => match[n].active /\ n # m
    BY <2>2, <2>3
  <2>6. (\A x \in T : x \in tasks /\ x # t) /\ T \in SUBSET tasks
    OBVIOUS
  <2>7. t.tick /\ ~match[m].waiting
    BY <1>1 DEF Seating, OneTick
  <2> HIDE DEF row, r, T
  <2>8. Lists'
    <3>1. \A n \in MatchIds : match'[n].players \in Seq(People) /\ match'[n].ready \subseteq People
      BY <2>5 DEF Seating, Lists
    <3>2. \A x \in tasks' : x.who \in Seq(People) /\ x.rest \in Seq(People)
      BY <2>1, <2>4, <2>6 DEF Seating, Lists
    <3> QED
      BY <1>1, <3>1, <3>2 DEF Seating, Lists
  <2>9. ReadyPlay'
    <3>1. \A n : Finishing(n)' => Finishing(n)
      BY <2>1, <2>4, <2>6 DEF Finishing
    <3> QED
      BY <1>1, <2>5, <3>1 DEF Seating, ReadyPlay
  <2>10. OneTick'
    <3> DEFINE N == {r}
    <3>1. \A x \in T : x.at \in {"abort", "revert"} => ~match'[x.m].waiting
      BY <2>5, <2>6, TaskOfMatch DEF Seating, OneTick
    <3>2. \A x \in T : ~x.tick
      BY <2>6, <2>7 DEF Seating, OneTick
    <3>3. tasks' = T \cup N /\ (\A x, y \in N : x.tick /\ y.tick => x = y)
          /\ (\A x \in N, y \in T : x.tick => ~y.tick)
          /\ \A x \in N : x.at \in {"checkin", "abort", "revert"} => x.tick
      BY <2>1, <2>4, <2>7, <3>2
    <3>4. \A x \in tasks' : x.at \in {"abort", "revert"} => ~match'[x.m].waiting
      BY <1>1, <2>1, <2>4, <2>5, <2>7, <3>1
    <3> HIDE DEF N
    <3> QED
      BY <2>6, <3>3, <3>4, TickStep DEF Seating
  <2>11. ASSUME NEW u \in People \ exposed' PROVE SeatOf(u)'
    <3>1. Apart(u) /\ Once(u) /\ Enters(u)
      BY <1>1 DEF Seating, SeatOf
    <3>2. u \in Entering' <=> u \in Entering
      BY <1>1, <2>1, <2>4, <2>6 DEF Entering, Tasks, T
    <3>3. Queued(u)' <=> Queued(u)
      BY <1>1, <3>2 DEF Queued
    <3>4. \A n : Plays(u, n)' => n # m /\ Plays(u, n)
      BY <2>5 DEF Plays
    <3>5. \A x : Starts(u, x)' => Starts(u, x)
      BY <2>1, <2>4, <2>6 DEF Starts
    <3>6. u \in match[m].ready => Plays(u, m)
      BY <1>1, <1>3 DEF Seating, ReadyPlay, Plays
    <3>7. \A x : Returns(u, x)' => (x = r /\ u \in match[m].ready) \/ Returns(u, x)
      BY <1>1, <2>1, <2>4, <2>5, <2>6, TaskOfMatch DEF Returns
    <3>8. u \in match[m].ready =>
            /\ \A n : ~Plays(u, n)'
            /\ \A x : ~Starts(u, x)' /\ (Returns(u, x)' => x = r)
            /\ ~Queued(u)'
      BY <3>1, <3>3, <3>4, <3>5, <3>6, <3>7 DEF Apart
    <3>9. Apart(u)'
      <4>1. CASE u \in match[m].ready
        BY <3>8, <4>1 DEF Apart
      <4>2. CASE u \notin match[m].ready
        <5>1. \A x : Returns(u, x)' => Returns(u, x)
          BY <3>7, <4>2
        <5> QED
          BY <3>1, <3>3, <3>4, <3>5, <5>1, Zenon DEF Apart
      <4> QED
        BY <4>1, <4>2
    <3>10. Once(u)'
      <4>1. \A n \in MatchIds : match'[n].active => OnceIn(match'[n].players, u)
        BY <2>5, <3>1 DEF Once
      <4>2. \A x \in tasks' : x.at \in {"create", "restart"} => OnceIn(x.who \o x.rest, u)
        BY <2>1, <2>4, <2>6, <3>1 DEF Once
      <4> QED
        BY <1>1, <3>1, <3>2, <4>1, <4>2 DEF Once
    <3>11. Enters(u)'
      <4>1. u \in Entering' => \A x : ~Starts(u, x)'
        BY <3>1, <3>2, <3>5 DEF Enters
      <4>2. u \in Entering' /\ u \in ToSet(queue') => \A x : ~Returns(u, x)'
        <5>1. ASSUME u \in match[m].ready, u \in ToSet(queue) PROVE FALSE
          <6>1. PICK s : SubOf(u, m, s)
            BY <3>1, <3>6, <5>1 DEF Enters
          <6> QED
            BY <1>1, <3>1, <5>1, <6>1 DEF Enters
        <5> QED
          BY <1>1, <3>1, <3>2, <3>7, <5>1 DEF Enters
      <4>3. ASSUME NEW n, Plays(u, n)', u \in ToSet(queue') PROVE \E s : SubOf(u, n, s)'
        <5>1. PICK s : SubOf(u, n, s)
          BY <1>1, <3>1, <3>4, <4>3 DEF Enters
        <5>2. s \in tasks'
          BY <1>1, <2>1, <5>1 DEF SubOf, T
        <5> QED
          BY <5>1, <5>2 DEF SubOf
      <4>4. ASSUME NEW s, NEW x, x \in tasks', x.at = "abort", SubOf(u, x.m, s)' PROVE u \notin match'[x.m].ready
        <5>1. x \in tasks /\ SubOf(u, x.m, s)
          BY <2>1, <2>4, <2>6, <4>4 DEF SubOf
        <5>2. x.m \in MatchIds
          BY <4>4, <5>1, TaskOfMatch
        <5> QED
          BY <2>5, <3>1, <4>4, <5>1, <5>2 DEF Enters
      <4> QED
        BY <4>1, <4>2, <4>3, <4>4 DEF Enters
    <3> QED
      BY <3>9, <3>10, <3>11 DEF SeatOf
  <2> QED
    BY <2>8, <2>9, <2>10, <2>11 DEF Seating
<1> QED
  BY <1>2, <1>3

\* In takes out's place in m, in the hands of the coroutine s.
Swaps(m, row, out, in, s) ==
  /\ match' = [match EXCEPT ![m] = row]
  /\ out \in ToSet(match[m].players) /\ in \in People /\ ~InMatch(in)
  /\ row.players = Append(RemoveFirst(match[m].players, out), in)
  /\ row.active = match[m].active /\ row.waiting = match[m].waiting /\ row.state = match[m].state
  /\ row.ready \subseteq match[m].ready /\ (out \in row.ready => out \in exposed')
  /\ exposed \subseteq exposed'
  /\ \A t \in tasks : in \in exposed' \/ (~Starts(in, t) /\ ~Returns(in, t))
  /\ tasks' = tasks \cup {s} /\ s.m = m /\ s.who \in Seq(People) /\ s.rest \in Seq(People) /\ ~s.tick
  /\ \/ s.at = "replace" /\ queue' = Without(queue, {in})
     \/ s.at = "sub" /\ queue' = queue /\ ToSet(s.who) = {in} /\ match[m].active

LEMMA SwapKeeps ==
  ASSUME Strong, Seating, NEW m \in MatchIds, NEW row, NEW out, NEW in, NEW s, Swaps(m, row, out, in, s)
  PROVE  Seating'
<1> DEFINE left == RemoveFirst(match[m].players, out)
<1>1. /\ match'[m] = row /\ row.active = match[m].active
      /\ \A n \in MatchIds : n # m => match'[n] = match[n]
  BY DEF Swaps, Strong, Shape
<1>2. \A u : u \in ToSet(queue') => u \in ToSet(queue)
  BY AllRemoved DEF Swaps, Seating, Lists
<1>3. queue' \in Seq(People) /\ \A u : OnceIn(queue, u) => OnceIn(queue', u)
  BY AllRemoved DEF Swaps, Seating, Lists
<1>4. \/ s.at = "replace" /\ in \notin ToSet(queue')
      \/ s.at = "sub" /\ match[m].active /\ \A u : u \in ToSet(s.who) <=> u = in
  BY AllRemoved DEF Swaps, Seating, Lists
<1>5. match[m].players \in Seq(People) /\ out \in ToSet(match[m].players) /\ in \in People
  BY DEF Swaps, Seating, Lists
<1>6. /\ left \in Seq(People)
      /\ \A u : /\ u \in ToSet(left) => u \in ToSet(match[m].players)
                /\ u # out /\ u \in ToSet(match[m].players) => u \in ToSet(left)
                /\ OnceIn(match[m].players, u) => OnceIn(left, u)
  BY <1>5, FirstRemoved
<1>7. /\ row.players = Append(left, in) /\ row.players \in Seq(People)
      /\ \A u : /\ u \in ToSet(row.players) <=> u \in ToSet(left) \/ u = in
                /\ OnceIn(row.players, u) <=> OnceIn(left, u) /\ ~(u = in /\ u \in ToSet(left))
  <2>1. row.players = Append(left, in)
    BY DEF Swaps
  <2> HIDE DEF left
  <2> QED
    BY <1>5, <1>6, <2>1, Appended
<1>8. match[m].active => in \notin ToSet(match[m].players)
  BY <1>1 DEF Swaps, InMatch
<1>9. tasks' = tasks \cup {s} /\ s.m = m /\ ~s.tick /\ s.at \in {"replace", "sub"}
  BY DEF Swaps
<1> HIDE DEF left
<1>10. Lists'
  <2>1. match[m].ready \subseteq People
    BY DEF Seating, Lists
  <2>2. \A n \in MatchIds : match'[n].players \in Seq(People) /\ match'[n].ready \subseteq People
    BY <1>1, <1>7, <2>1 DEF Swaps, Seating, Lists
  <2>3. \A x \in tasks' : x.who \in Seq(People) /\ x.rest \in Seq(People)
    BY <1>9 DEF Swaps, Seating, Lists
  <2> QED
    BY <1>3, <2>2, <2>3 DEF Lists
<1>11. ReadyPlay'
  <2> SUFFICES ASSUME NEW n \in MatchIds
               PROVE  /\ match'[n].active => match'[n].ready \subseteq ToSet(match'[n].players) \cup exposed'
                      /\ match'[n].state = "waiting" \/ Finishing(n)' => match'[n].ready = {}
    BY DEF ReadyPlay
  <2>1. Finishing(n)' => Finishing(n)
    BY <1>9 DEF Finishing
  <2>2. /\ match[n].active => match[n].ready \subseteq ToSet(match[n].players) \cup exposed
        /\ match[n].state = "waiting" \/ Finishing(n) => match[n].ready = {}
    BY DEF Seating, ReadyPlay
  <2>3. exposed \subseteq exposed' /\ row.ready \subseteq match[m].ready /\ row.state = match[m].state
        /\ (out \in row.ready => out \in exposed')
    BY DEF Swaps
  <2>4. n = m /\ row.active => row.ready \subseteq ToSet(row.players) \cup exposed'
    BY <1>1, <1>6, <1>7, <2>2, <2>3
  <2> QED
    BY <1>1, <2>1, <2>2, <2>3, <2>4
<1>12. OneTick'
  <2> DEFINE N == {s}
  <2>1. ASSUME NEW x \in tasks, x.at \in {"abort", "revert"} PROVE ~match'[x.m].waiting
    <3>1. x.m \in MatchIds /\ ~match[x.m].waiting
      BY <2>1, TaskOfMatch DEF Seating, OneTick
    <3> QED
      BY <1>1, <3>1 DEF Swaps
  <2>2. tasks' = tasks \cup N /\ (\A x, y \in N : x.tick /\ y.tick => x = y)
        /\ (\A x \in N, y \in tasks : x.tick => ~y.tick)
        /\ \A x \in N : x.at \in {"checkin", "abort", "revert"} => x.tick
    BY <1>9
  <2>3. \A x \in tasks' : x.at \in {"abort", "revert"} => ~match'[x.m].waiting
    BY <1>9, <2>1
  <2> HIDE DEF N
  <2> QED
    BY <2>2, <2>3, TickStep DEF Seating
<1>13. ASSUME NEW u \in People \ exposed' PROVE SeatOf(u)'
  <2>1. Apart(u) /\ Once(u) /\ Enters(u)
    BY DEF Seating, SeatOf, Swaps
  <2>2. \A x : Starts(u, x)' => Starts(u, x)
    BY <1>9 DEF Starts
  <2>3. ASSUME NEW x, Returns(u, x)' PROVE Returns(u, x)
    <3>1. x \in tasks /\ x.at = "revert" /\ x.m \in MatchIds
      BY <1>9, <2>3, TaskOfMatch DEF Returns
    <3> QED
      BY <1>1, <2>3, <3>1 DEF Returns, Swaps
  <2>4. \A n \in MatchIds : match'[n].active => OnceIn(match'[n].players, u)
    <3>1. row.active => OnceIn(row.players, u)
      BY <1>1, <1>6, <1>7, <1>8, <2>1 DEF Once
    <3> QED
      BY <1>1, <2>1, <3>1 DEF Once
  <2>5. \A x \in tasks' : x.at \in {"create", "restart"} => OnceIn(x.who \o x.rest, u)
    BY <1>9, <2>1 DEF Once
  <2>6. ASSUME NEW x, NEW y, x \in tasks', x.at = "abort", SubOf(u, x.m, y)' PROVE u \notin match'[x.m].ready
    <3>1. x \in tasks /\ x.m \in MatchIds
      BY <1>9, <2>6, TaskOfMatch
    <3>2. match'[x.m].ready \subseteq match[x.m].ready
      BY <1>1, <3>1 DEF Swaps
    <3>3. CASE y \in tasks
      BY <2>1, <2>6, <3>1, <3>2, <3>3 DEF Enters, SubOf
    <3>4. CASE y = s
      <4>1. u = in /\ x.m = m /\ match[m].active
        BY <1>4, <1>9, <2>6, <3>4 DEF SubOf
      <4>2. u \notin match[m].ready
        BY <1>1, <1>8, <4>1 DEF Seating, ReadyPlay, Swaps
      <4> QED
        BY <3>2, <4>1, <4>2
    <3> QED
      BY <1>9, <2>6, <3>3, <3>4 DEF SubOf
  <2>7. \A n, x : SubOf(u, n, x) => SubOf(u, n, x)'
    BY <1>9 DEF SubOf
  <2>8. CASE u # in
    <3>1. u \in Entering' <=> u \in Entering
      BY <1>4, <1>9, <2>8 DEF Entering, Tasks
    <3>2. Queued(u)' => Queued(u)
      BY <1>2, <3>1 DEF Queued
    <3>3. \A n : Plays(u, n)' => Plays(u, n)
      BY <1>1, <1>6, <1>7, <2>8 DEF Plays
    <3>4. Apart(u)'
      BY <2>1, <2>2, <2>3, <3>2, <3>3, Zenon DEF Apart
    <3>5. Once(u)'
      BY <1>3, <2>1, <2>4, <2>5, <3>1 DEF Once
    <3>6. Enters(u)'
      <4>1. u \in Entering' => \A x : ~Starts(u, x)'
        BY <2>1, <2>2, <3>1 DEF Enters
      <4>2. u \in Entering' /\ u \in ToSet(queue') => \A x : ~Returns(u, x)'
        BY <1>2, <2>1, <2>3, <3>1 DEF Enters
      <4>3. \A n : Plays(u, n)' /\ u \in ToSet(queue') => \E x : SubOf(u, n, x)'
        BY <1>2, <2>1, <2>7, <3>3 DEF Enters
      <4> QED
        BY <2>6, <4>1, <4>2, <4>3 DEF Enters
    <3> QED
      BY <3>4, <3>5, <3>6 DEF SeatOf
  <2>9. CASE u = in
    <3>1. \A n : Plays(u, n)' => n = m
      BY <1>1, <2>9 DEF Plays, Swaps, InMatch
    <3>2. \A x : ~Starts(u, x) /\ ~Returns(u, x)
      BY <2>9 DEF Swaps, Starts, Returns
    <3>3. \/ u \notin ToSet(queue')
          \/ SubOf(u, m, s)' /\ u \in Entering'
      BY <1>4, <1>9, <2>9 DEF SubOf, Entering, Tasks
    <3>4. Apart(u)'
      BY <2>2, <2>3, <3>1, <3>2, <3>3 DEF Apart, Queued
    <3>5. u \notin Entering' => OnceIn(queue', u)
      BY <3>3 DEF OnceIn, ToSet
    <3>6. Once(u)'
      BY <2>4, <2>5, <3>5 DEF Once
    <3>7. Enters(u)'
      <4>1. \A n : Plays(u, n)' /\ u \in ToSet(queue') => \E x : SubOf(u, n, x)'
        BY <3>1, <3>3
      <4> QED
        BY <2>2, <2>3, <2>6, <3>2, <4>1 DEF Enters
    <3> QED
      BY <3>4, <3>6, <3>7 DEF SeatOf
  <2> QED
    BY <2>8, <2>9
<1> QED
  BY <1>10, <1>11, <1>12, <1>13 DEF Seating

\* The first in the queue who does not play: nobody else holds him.
LEMMA CandidateFree ==
  ASSUME Strong, Seating, Available # {}
  PROVE  /\ Candidate \in People /\ Candidate \in ToSet(queue) /\ ~InMatch(Candidate)
         /\ \A t \in tasks : Candidate \in exposed \/ (~Starts(Candidate, t) /\ ~Returns(Candidate, t))
<1>1. queue \in Seq(People)
  BY DEF Seating, Lists
<1>2. Available \in SUBSET Nat
  BY <1>1 DEF Available
<1>3. Min(Available) \in Available
  BY <1>2, LeastOf
<1>4. Candidate \in People /\ Candidate \in ToSet(queue) /\ ~InMatch(Candidate)
  <2> DEFINE i == Min(Available)
  <2>1. i \in DOMAIN queue /\ ~InMatch(queue[i]) /\ Candidate = queue[i]
    BY <1>3 DEF Available, Candidate
  <2> HIDE DEF i
  <2>2. queue[i] \in People /\ queue[i] \in ToSet(queue)
    BY <1>1, <2>1 DEF ToSet
  <2> QED
    BY <2>1, <2>2
<1>5. CASE Candidate \notin exposed
  <2>1. SeatOf(Candidate)
    BY <1>4, <1>5 DEF Seating
  <2> QED
    BY <1>4, <2>1 DEF SeatOf, Apart, Enters, Queued
<1> QED
  BY <1>4, <1>5

LEMMA ReplaceSeats ==
  ASSUME Strong, Seating, NEW m \in MatchIds, NEW out, ReplacePlayer(m, out), exposed' = exposed,
         out \in ToSet(match[m].players)
  PROVE  Seating'
<1> DEFINE in == Candidate
           row == [Swapped(match[m], out, in) EXCEPT !.ready = @ \ {out}]
           s == On("replace", m, <<>>, FALSE)
<1>1. match' = [match EXCEPT ![m] = row] /\ queue' = Without(queue, {in}) /\ tasks' = tasks \cup {s}
  BY DEF ReplacePlayer
<1>2. /\ row.players = Append(RemoveFirst(match[m].players, out), in) /\ row.active = match[m].active
      /\ row.waiting = match[m].waiting /\ row.state = match[m].state /\ row.ready = match[m].ready \ {out}
  BY RowOf DEF Swapped
<1>3. s.at = "replace" /\ s.m = m /\ s.who \in Seq(People) /\ s.rest \in Seq(People) /\ ~s.tick
  BY DEF On
<1>4. /\ in \in People /\ ~InMatch(in)
      /\ \A t \in tasks : in \in exposed \/ (~Starts(in, t) /\ ~Returns(in, t))
  BY CandidateFree DEF ReplacePlayer
<1> HIDE DEF in, row, s
<1>5. Swaps(m, row, out, in, s)
  BY <1>1, <1>2, <1>3, <1>4 DEF Swaps
<1> QED
  BY <1>5, SwapKeeps

LEMMA SubstituteSeats ==
  ASSUME Strong, Seating, NEW m \in MatchIds, NEW out, NEW in \in People, Substitute(m, out, in),
         match[m].active, out \in ToSet(match[m].players), ~InMatch(in), exposed \subseteq exposed',
         out \in match[m].ready => out \in exposed',
         \A t \in tasks : in \in exposed' \/ (~Starts(in, t) /\ ~Returns(in, t))
  PROVE  Seating'
<1> DEFINE row == [Swapped(match[m], out, in) EXCEPT !.flag = TRUE]
           s == On("sub", m, <<in>>, FALSE)
<1>1. match' = [match EXCEPT ![m] = row] /\ queue' = queue /\ tasks' = tasks \cup {s}
  BY DEF Substitute
<1>2. /\ row.players = Append(RemoveFirst(match[m].players, out), in) /\ row.active = match[m].active
      /\ row.waiting = match[m].waiting /\ row.state = match[m].state /\ row.ready = match[m].ready
  BY RowOf DEF Swapped
<1>3. s.at = "sub" /\ s.m = m /\ s.who = <<in>> /\ s.rest \in Seq(People) /\ ~s.tick
  BY DEF On
<1>4. <<in>> \in Seq(People) /\ ToSet(<<in>>) = {in}
  BY DEF ToSet
<1> HIDE DEF row, s
<1>5. Swaps(m, row, out, in, s)
  BY <1>1, <1>2, <1>3, <1>4 DEF Swaps
<1> QED
  BY <1>5, SwapKeeps

LEMMA SubForSeats ==
  ASSUME Strong, Seating, NEW m \in MatchIds, NEW out, NEW in \in People, SubFor(m, out, in)
  PROVE  Seating'
<1>1. exposed' = exposed \cup ({v \in {in} : Held(v)} \cup ({out} \cap match[m].ready))
  BY DEF SubFor, Expose
<1>2. ASSUME NEW t \in tasks, Starts(in, t) \/ Returns(in, t) PROVE Held(in)
  <2>1. CASE Starts(in, t)
    <3>1. t \in Creating /\ t.who \in Seq(People) /\ t.rest \in Seq(People)
      BY <2>1 DEF Starts, Creating, Tasks, Seating, Lists
    <3>2. in \in ToSet(t.who \o t.rest)
      BY <2>1, <3>1, Concat DEF Starts
    <3> QED
      BY <3>1, <3>2 DEF Held
  <2>2. CASE Returns(in, t)
    BY <2>2 DEF Returns, Held, Tasks
  <2> QED
    BY <1>2, <2>1, <2>2
<1>3. /\ Substitute(m, out, in) /\ match[m].active /\ out \in ToSet(match[m].players) /\ ~InMatch(in)
  BY DEF SubFor, MayEdit
<1> QED
  BY <1>1, <1>2, <1>3, SubstituteSeats

LEMMA SubAutoSeats ==
  ASSUME Strong, Seating, NEW m \in MatchIds, NEW out, SubAuto(m, out)
  PROVE  Seating'
<1>1. /\ Substitute(m, out, Candidate) /\ match[m].active /\ out \in ToSet(match[m].players)
      /\ exposed' = exposed /\ Available # {} /\ match[m].state = "waiting"
  BY DEF SubAuto, MayEdit
<1>2. match[m].ready = {}
  BY <1>1 DEF Seating, ReadyPlay
<1> QED
  BY <1>1, <1>2, CandidateFree, SubstituteSeats

LEMMA ResumeSeats ==
  ASSUME Strong, Seating, NEW t \in tasks, Resume(t)
  PROVE  Seating'
BY PublishSeats, CheckInCalm, FinishCalm, ReplacedCalm, RevertSingleSeats, AbortSeats, AbortRevertsSeats,
   SubstitutedCalm, CancelledCalm, ReportedCalm, CalmKeeps DEF Resume

LEMMA BackOutSeats ==
  ASSUME Strong, Seating, NEW m \in MatchIds, NEW u \in People, BackOut(m, u)
  PROVE  Seating'
<1>1. CASE ReplacePlayer(m, u)
  <2>1. u \in ToSet(match[m].players) /\ exposed' = exposed
    BY DEF BackOut, Reacts
  <2> QED
    BY <1>1, <2>1, ReplaceSeats
<1>2. CASE ~ReplacePlayer(m, u)
  BY <1>2, BackOutCalm, CalmKeeps
<1> QED
  BY <1>1, <1>2

\* Every step keeps Seating.
LEMMA NextSeats ==
  ASSUME Strong, Seating, [Next]_vars
  PROVE  Seating'
<1>1. ASSUME NEW u \in People, Leave(u) \/ \E moderator \in BOOLEAN : Add(u, moderator)
      PROVE  Seating'
  BY <1>1, LeaveCalm, CalmKeeps, AddSeats
<1>2. ASSUME NEW m \in MatchIds, Tick(m) \/ Cancel(m) \/ Report(m)
      PROVE  Seating'
  BY <1>2, TickCheckInCalm, TickAbortCalm, TickFinishCalm, TickDropCalm, CancelCalm, ReportCalm, CalmKeeps DEF Tick
<1>3. ASSUME NEW m \in MatchIds, NEW u \in People, Ready(m, u) \/ Unready(m, u) \/ BackOut(m, u)
      PROVE  Seating'
  BY <1>3, ReadyCalm, UnreadyCalm, CalmKeeps, BackOutSeats
<1>4. ASSUME NEW m \in MatchIds, NEW u \in People, SubAutoCheckIn(m, u)
      PROVE  Seating'
  BY <1>4, ReplaceSeats DEF SubAutoCheckIn
<1>5. ASSUME NEW m \in MatchIds, NEW u \in People, SubAuto(m, u) \/ \E v \in People : SubFor(m, u, v)
      PROVE  Seating'
  BY <1>5, SubAutoSeats, SubForSeats
<1>6. ASSUME NEW t \in tasks, Resume(t) \/ Fail(t)
      PROVE  Seating'
  BY <1>6, ResumeSeats, FailCalm, CalmKeeps
<1>7. CASE UNCHANGED vars
  <2>1. Calm
    BY <1>7 DEF Calm, vars
  <2>2. OneTick'
    BY <1>7 DEF vars, Seating, OneTick
  <2> QED
    BY <2>1, <2>2, CalmKeeps
<1> QED
  BY <1>1, <1>2, <1>3, <1>4, <1>5, <1>6, <1>7 DEF Next

LEMMA InitSeats == Init => Seating
<1> SUFFICES ASSUME Init PROVE Seating
  OBVIOUS
<1>1. queue = <<>> /\ tasks = {} /\ \A m \in MatchIds : match[m] = NoMatch
  BY DEF Init
<1>2. \A m \in MatchIds : ~match[m].active /\ match[m].ready = {} /\ match[m].players = <<>>
  BY <1>1 DEF NoMatch
<1>3. Lists /\ OneTick /\ ReadyPlay
  <2>1. <<>> \in Seq(People)
    OBVIOUS
  <2>2. Lists
    BY <1>1, <1>2, <2>1, Zenon DEF Lists
  <2>3. OneTick /\ ReadyPlay
    BY <1>1, <1>2 DEF OneTick, ReadyPlay
  <2> QED
    BY <2>2, <2>3
<1>4. ASSUME NEW u PROVE SeatOf(u)
  <2>1. u \notin ToSet(queue) /\ OnceIn(queue, u)
    BY <1>1 DEF ToSet, OnceIn
  <2>2. \A m, t : ~Plays(u, m) /\ ~Starts(u, t) /\ ~Returns(u, t)
    BY <1>1, <1>2 DEF Plays, Starts, Returns
  <2>3. Apart(u) /\ Enters(u)
    BY <1>1, <2>1, <2>2 DEF Apart, Enters, Queued
  <2>4. Once(u)
    BY <1>1, <1>2, <2>1 DEF Once
  <2> QED
    BY <2>3, <2>4 DEF SeatOf
<1> QED
  BY <1>3, <1>4 DEF Seating

\* Seating is what SeatedOnce counts.
LEMMA SeatingCounts == Seating => SeatedOnce
<1> SUFFICES ASSUME Seating, NEW u \in People \ exposed, NEW a \in Places(u), NEW b \in Places(u)
             PROVE  a = b
  BY DEF SeatedOnce
<1> DEFINE Queueing(p) == u \notin Entering /\ \E i \in DOMAIN queue : queue[i] = u /\ p = <<"queue", 0, i>>
           Playing(p, m) == /\ m \in MatchIds /\ match[m].active
                            /\ \E i \in DOMAIN match[m].players : match[m].players[i] = u /\ p = <<"match", m, i>>
           Starting(p, t) == /\ t \in tasks /\ t.at \in {"create", "restart"}
                             /\ \E i \in DOMAIN (t.who \o t.rest) : (t.who \o t.rest)[i] = u /\ p = <<"start", t, i>>
           Returning(p, t) == Returns(u, t) /\ p = <<"revert", t, 0>>
<1>1. ASSUME NEW p \in Places(u)
      PROVE  Queueing(p) \/ (\E m : Playing(p, m)) \/ (\E t : Starting(p, t)) \/ \E t : Returning(p, t)
  <2> DEFINE A == IF u \in Entering THEN {} ELSE Seats("queue", 0, queue, u)
             B == UNION {Seats("match", m, match[m].players, u) : m \in {n \in MatchIds : match[n].active}}
             C == UNION {Seats("start", t, t.who \o t.rest, u) : t \in Creating}
             D == {<<"revert", t, 0>> : t \in {r \in Tasks("revert") : u \in match[r.m].ready}}
  <2>1. p \in A => Queueing(p)
    BY DEF Seats
  <2>2. p \in B => \E m : Playing(p, m)
    BY DEF Seats
  <2>3. p \in C => \E t : Starting(p, t)
    BY DEF Seats, Creating, Tasks
  <2>4. p \in D => \E t : Returning(p, t)
    BY DEF Returns, Tasks
  <2>5. Places(u) = A \cup B \cup C \cup D
    BY Zenon DEF Places
  <2> HIDE DEF A, B, C, D, Queueing, Playing, Starting, Returning
  <2> QED
    BY <2>1, <2>2, <2>3, <2>4, <2>5
<1>2. Apart(u) /\ Once(u)
  BY DEF Seating, SeatOf
<1>3. \A p : Queueing(p) => Queued(u)
  BY DEF Queued, ToSet
<1>4. \A p, m : Playing(p, m) => Plays(u, m)
  BY DEF Plays, ToSet
<1>5. ASSUME NEW p, NEW t, Starting(p, t) PROVE Starts(u, t)
  <2>1. t.who \in Seq(People) /\ t.rest \in Seq(People) /\ u \in ToSet(t.who \o t.rest)
    BY <1>5 DEF Seating, Lists, ToSet
  <2> QED
    BY <1>5, <2>1, Concat DEF Starts
<1>6. \A p, t : Returning(p, t) => Returns(u, t)
  OBVIOUS
<1>7. \A p, q : Queueing(p) /\ Queueing(q) => p = q
  BY <1>2 DEF Once, OnceIn
<1>8. \A p, q, m : Playing(p, m) /\ Playing(q, m) => p = q
  BY <1>2 DEF Once, OnceIn
<1>9. \A p, q, t : Starting(p, t) /\ Starting(q, t) => p = q
  BY <1>2 DEF Once, OnceIn
<1>10. \A p, q, t : Returning(p, t) /\ Returning(q, t) => p = q
  OBVIOUS
<1> HIDE DEF Queueing, Playing, Starting, Returning
<1> QED
  BY <1>1, <1>2, <1>3, <1>4, <1>5, <1>6, <1>7, <1>8, <1>9, <1>10 DEF Apart

LEMMA SeatingAlways == Spec => [](Strong /\ Seating)
<1>1. Init => Strong /\ Seating
  BY InitStrong, InitSeats
<1>2. Strong /\ Seating /\ [Next]_vars => Strong' /\ Seating'
  BY NextKeeps, NextSeats
<1> QED
  BY <1>1, <1>2, PTL DEF Spec

\* Nobody is seated twice: not in the queue and a match, not in two matches, not by a start, a revert
\* or a replacement that waits, except by the gaps SeatedOnce names (PickupQueue.add_member, start,
\* revert, Match.new, CheckIn.abort_timeout, revert_single, replace_player, Match.sub_for, sub_auto).
THEOREM SeatOnce == Spec => []SeatedOnce
<1>1. Strong /\ Seating => SeatedOnce
  BY SeatingCounts
<1> QED
  BY <1>1, SeatingAlways, PTL
=============================================================================
