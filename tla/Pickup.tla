------------------------------- MODULE Pickup -------------------------------
(***************************************************************************)
(* One pickup queue and its matches up to their end: joining, the start,   *)
(* the check-in with its replacements, substitution, cancel and report     *)
(* (nammaoe2bot/pickup).  A coroutine runs from one await to the next, so  *)
(* an action is what happens between two awaits, and a member of tasks is  *)
(* a coroutine that waits.  The queue is full at Size and starts itself.   *)
(***************************************************************************)
EXTENDS Integers, FiniteSets, SequencesExt

CONSTANTS
  People,     \* members of the guild
  Size,       \* cfg.size
  MatchIds,   \* bound: ids next_match hands out
  MaxTasks,   \* bound: coroutines waiting at a time
  MaxExposed  \* bound: people who meet a gap

ASSUME PeopleAssumption == IsFiniteSet(People)
ASSUME SizeAssumption == Size \in Nat \ {0}
ASSUME IdsAssumption == MatchIds \subseteq Nat \ {0}

VARIABLES
  discard,  \* the setting check_in_discard
  queue,    \* PickupQueue.queue
  match,    \* the Match objects
  tasks,    \* the coroutines that wait
  exposed   \* history: people who met one of the gaps named below

vars == <<discard, queue, match, tasks, exposed>>

\* active: the match is in active_matches.  waiting: its check-in's callback is in
\* waiting_reactions.  flag: one of _editing_roster, _cancelling, _finishing and _reporting.
\* launches and ends are history: how often it was announced as live, and how it ended.
NoMatch == [state |-> "none", active |-> FALSE, players |-> <<>>, ready |-> {}, waiting |-> FALSE,
            flag |-> FALSE, launches |-> 0, ends |-> {}]
MatchRow == [state : {"none", "init", "checkin", "waiting"}, active : BOOLEAN,
             players : Seq(People), ready : SUBSET People, waiting : BOOLEAN, flag : BOOLEAN,
             launches : Nat, ends : SUBSET {"recorded", "cancelled", "reverted", "dropped"}]

\* who: the people the task is about.  tick: it runs inside on_think, which runs one at a time.
\* rest: what revert writes over the queue when the start it waits for returns.
Steps == {"create", "restart", "checkin", "finish", "replace", "single", "abort", "revert",
          "cancel", "sub", "report"}
Task == [at : Steps, m : MatchIds \cup {0}, who : Seq(People), tick : BOOLEAN, rest : Seq(People)]
On(at, m, who, tick) == [at |-> at, m |-> m, who |-> who, tick |-> tick, rest |-> <<>>]

TypeOK ==
  /\ discard \in BOOLEAN
  /\ queue \in Seq(People)
  /\ match \in [MatchIds -> MatchRow]
  /\ tasks \subseteq Task
  /\ exposed \subseteq People

Init ==
  /\ discard \in BOOLEAN
  /\ queue = <<>>
  /\ match = [m \in MatchIds |-> NoMatch]
  /\ tasks = {} /\ exposed = {}

----------------------------------------------------------------------------
\* Who is where.

\* The order of the others is kept.
Without(s, S) ==
  LET kept[i \in 0..Len(s)] ==
        IF i = 0 THEN <<>> ELSE IF s[i] \in S THEN kept[i - 1] ELSE Append(kept[i - 1], s[i])
  IN kept[Len(s)]

InMatch(u) == \E m \in MatchIds : match[m].active /\ u \in ToSet(match[m].players)
Tasks(at) == {t \in tasks : t.at = at}
Creating == Tasks("create") \cup Tasks("restart")

\* In the hands of a coroutine, and in no roster that the checks read: popped for a match that is
\* not in active_matches yet, or ready in one that is no longer there.
Held(u) == \/ \E t \in Creating : u \in ToSet(t.who \o t.rest)
           \/ \E t \in Tasks("revert") : u \in match[t.m].ready

\* Substituted into a match, and still in the queue.
Entering == UNION {ToSet(t.who) : t \in Tasks("sub")}

Ticking == \E t \in tasks : t.tick
Room == Cardinality(tasks) < MaxTasks
Expose(S) == exposed' = exposed \cup S /\ Cardinality(exposed') <= MaxExposed
Unused == {m \in MatchIds : match[m].state = "none"}

----------------------------------------------------------------------------
\* The queue.

\* PickupQueue.start, called with q as the queue: everybody is popped, Match.new waits for the
\* ratings and an id.
Start(q, at, tick, rest, others) ==
  /\ Cardinality(Creating) < Cardinality(Unused)
  /\ queue' = <<>>
  /\ tasks' = others \cup {[On(at, 0, q, tick) EXCEPT !.rest = rest]}

\* add_member after check_allowed_to_add; a moderator's add_player skips the check.
Add(u, moderator) ==
  /\ moderator \/ ~InMatch(u)
  /\ Len(queue) < Size /\ u \notin ToSet(queue)
  /\ LET q == Append(queue, u) IN
     /\ IF Len(q) = Size THEN Room /\ Start(q, "create", FALSE, <<>>, tasks)
                         ELSE queue' = q /\ tasks' = tasks
     /\ Expose({v \in ToSet(q) : \/ v = u /\ (InMatch(u) \/ Held(u))
                                 \/ Len(q) = Size /\ v \in Entering})
  /\ UNCHANGED <<discard, match>>

\* /remove, remove_player, and the expiry timer.
Leave(u) ==
  /\ u \in ToSet(queue)
  /\ queue' = Without(queue, {u})
  /\ UNCHANGED <<discard, match, tasks, exposed>>

\* PickupQueue.revert: the people back come first, the queue fills up what is left of its size,
\* and what was not needed is written back when the start returns.
Revert(back, tick, others) ==
  LET fill == Min({Len(queue), Max({0, Size - Len(back)})})
      q == back \o SubSeq(queue, 1, fill)
  IN IF Len(q) >= Size
     THEN /\ Start(q, "restart", tick, SubSeq(queue, fill + 1, Len(queue)), others)
          /\ Expose(Entering \cap ToSet(back \o queue))
     ELSE queue' = q /\ tasks' = others /\ exposed' = exposed

\* Match.new publishes the match; a revert that waited for it goes on.
Publish(t) ==
  /\ t \in Creating
  /\ \E m \in Unused :
       /\ \A n \in Unused : m <= n
       /\ match' = [match EXCEPT ![m] =
                     [NoMatch EXCEPT !.state = "init", !.active = TRUE, !.players = t.who]]
  /\ queue' = IF t.at = "restart" THEN t.rest ELSE queue
  /\ tasks' = tasks \ {t}
  /\ UNCHANGED <<discard, exposed>>

----------------------------------------------------------------------------
\* The check-in.

\* Match.think, of a match on_think finds.
Thinks(m, state) == match[m].active /\ ~match[m].flag /\ match[m].state = state /\ ~Ticking /\ Room

Removed(row, how) == [row EXCEPT !.active = FALSE, !.ends = @ \cup {how}]

\* refresh, and finish up to its await: the callback is popped without a default, so without it
\* finish raises.
Refresh(m, row, tick, others) ==
  LET finishes == ToSet(row.players) \subseteq row.ready /\ row.waiting
  IN /\ match' = [match EXCEPT ![m] = IF finishes THEN [row EXCEPT !.waiting = FALSE, !.ready = {}] ELSE row]
     /\ tasks' = IF finishes THEN others \cup {On("finish", m, <<>>, tick)} ELSE others

TickCheckIn(m) ==
  /\ Thinks(m, "init")
  /\ match' = [match EXCEPT ![m].state = "checkin"]
  /\ tasks' = tasks \cup {On("checkin", m, <<>>, TRUE)}
  /\ UNCHANGED <<discard, queue, exposed>>

\* The card and its reactions are posted; the callback is registered whatever became of the match.
CheckIn(t) ==
  /\ t.at = "checkin"
  /\ Refresh(t.m, [match[t.m] EXCEPT !.waiting = TRUE], TRUE, tasks \ {t})
  /\ UNCHANGED <<discard, queue, exposed>>

Reacts(m, u) == match[m].waiting /\ match[m].state = "checkin" /\ u \in ToSet(match[m].players)

Ready(m, u) ==
  /\ Reacts(m, u) /\ Room
  /\ Refresh(m, [match[m] EXCEPT !.ready = @ \cup {u}], FALSE, tasks)
  /\ UNCHANGED <<discard, queue, exposed>>

Unready(m, u) ==
  /\ Reacts(m, u)
  /\ match' = [match EXCEPT ![m].ready = @ \ {u}]
  /\ UNCHANGED <<discard, queue, tasks, exposed>>

\* Once the card is deleted: next_state takes the match live, in active_matches or not.
Finish(t) ==
  /\ t.at = "finish"
  /\ match' = [match EXCEPT ![t.m].state = "waiting", ![t.m].launches = @ + 1]
  /\ tasks' = tasks \ {t}
  /\ UNCHANGED <<discard, queue, exposed>>

\* pick_available: the first in the queue who is in no active match.
Available == {i \in DOMAIN queue : ~InMatch(queue[i])}
Candidate == queue[Min(Available)]

Swapped(row, out, in) == [row EXCEPT !.players = Append(RemoveFirst(@, out), in)]

ReplacePlayer(m, out) ==
  /\ Available # {}
  /\ match' = [match EXCEPT ![m] = [Swapped(match[m], out, Candidate) EXCEPT !.ready = @ \ {out}]]
  /\ queue' = Without(queue, {Candidate})
  /\ tasks' = tasks \cup {On("replace", m, <<>>, FALSE)}

\* The reaction "not ready": a replacement, or the end of the match.
BackOut(m, u) ==
  /\ Reacts(m, u) /\ discard /\ Room
  /\ \/ ReplacePlayer(m, u)
     \/ /\ Available = {}
        /\ match' = [match EXCEPT ![m].waiting = FALSE]
        /\ tasks' = tasks \cup {On("single", m, <<u>>, FALSE)}
        /\ queue' = queue
  /\ UNCHANGED <<discard, exposed>>

\* /subauto during the check-in: no flag of the match is read.
SubAutoCheckIn(m, out) ==
  /\ match[m].active /\ match[m].state = "checkin" /\ out \in ToSet(match[m].players)
  /\ Room
  /\ ReplacePlayer(m, out)
  /\ UNCHANGED <<discard, exposed>>

\* replace_player has read the ratings: refresh.
Replaced(t) ==
  /\ t.at = "replace"
  /\ Refresh(t.m, match[t.m], FALSE, tasks \ {t})
  /\ UNCHANGED <<discard, queue, exposed>>

\* revert_single; removing a match that is not there raises.
RevertSingle(t) ==
  /\ t.at = "single"
  /\ IF match[t.m].active
     THEN /\ match' = [match EXCEPT ![t.m] = Removed(@, "reverted")]
          /\ Revert(Without(match[t.m].players, ToSet(t.who)), FALSE, tasks \ {t})
     ELSE tasks' = tasks \ {t} /\ UNCHANGED <<queue, match, exposed>>
  /\ UNCHANGED discard

\* A bug: a check-in without its card is not aborted.
TickAbortShown(m) ==
  /\ Thinks(m, "checkin") /\ discard /\ match[m].waiting
  /\ match' = [match EXCEPT ![m].waiting = FALSE]
  /\ tasks' = tasks \cup {On("abort", m, <<>>, TRUE)}
  /\ UNCHANGED <<discard, queue, exposed>>

\* The time is over.  With discard the match is aborted: the card is deleted, then the match leaves
\* active_matches, then a notice is sent, then the ready go back to the queue.
TickAbort(m) ==
  /\ Thinks(m, "checkin") /\ discard
  /\ match' = [match EXCEPT ![m].waiting = FALSE]
  /\ tasks' = tasks \cup {On("abort", m, <<>>, TRUE)}
  /\ UNCHANGED <<discard, queue, exposed>>

Abort(t) ==
  /\ t.at = "abort"
  /\ IF match[t.m].active
     THEN /\ match' = [match EXCEPT ![t.m] = Removed(@, "reverted")]
          /\ tasks' = (tasks \ {t}) \cup {[t EXCEPT !.at = "revert"]}
     ELSE tasks' = tasks \ {t} /\ match' = match
  /\ UNCHANGED <<discard, queue, exposed>>

AbortReverts(t) ==
  /\ t.at = "revert"
  /\ \E back \in SetToSeqs(match[t.m].ready) : Revert(back, TRUE, tasks \ {t})
  /\ UNCHANGED <<discard, match>>

\* A bug: the callback is popped with a default.
TickFinishAgain(m) ==
  /\ Thinks(m, "checkin") /\ ~discard
  /\ match' = [match EXCEPT ![m].waiting = FALSE, ![m].ready = {}]
  /\ tasks' = tasks \cup {On("finish", m, <<>>, TRUE)}
  /\ UNCHANGED <<discard, queue, exposed>>

\* Without discard it goes on with whoever is there.
TickFinish(m) ==
  /\ Thinks(m, "checkin") /\ ~discard /\ match[m].waiting
  /\ match' = [match EXCEPT ![m].waiting = FALSE, ![m].ready = {}]
  /\ tasks' = tasks \cup {On("finish", m, <<>>, TRUE)}
  /\ UNCHANGED <<discard, queue, exposed>>

\* finish raises at every tick, and on_think drops the match after five.
TickDrop(m) ==
  /\ Thinks(m, "checkin") /\ ~discard /\ ~match[m].waiting
  /\ match' = [match EXCEPT ![m] = Removed(@, "dropped")]
  /\ UNCHANGED <<discard, queue, tasks, exposed>>

----------------------------------------------------------------------------
\* Changes the match's flags keep apart: substitutions, the report and the cancellation.

\* A bug: the flags are not read.
MayEditAlways(m) == match[m].active /\ Room

MayEdit(m) == match[m].active /\ ~match[m].flag /\ Room

Substitute(m, out, in) ==
  /\ match' = [match EXCEPT ![m] = [Swapped(match[m], out, in) EXCEPT !.flag = TRUE]]
  /\ tasks' = tasks \cup {On("sub", m, <<in>>, FALSE)}
  /\ UNCHANGED <<discard, queue>>

\* /subfor and /subforce, also during the check-in: ready_players keeps whoever goes out.
SubFor(m, out, in) ==
  /\ MayEdit(m) /\ match[m].state \in {"checkin", "waiting"}
  /\ out \in ToSet(match[m].players) /\ ~InMatch(in)
  /\ Substitute(m, out, in)
  /\ Expose({u \in {in} : Held(u)} \cup ({out} \cap match[m].ready))

SubAuto(m, out) ==
  /\ MayEdit(m) /\ match[m].state = "waiting"
  /\ out \in ToSet(match[m].players) /\ Available # {}
  /\ Substitute(m, out, Candidate)
  /\ exposed' = exposed

\* A bug: the player is left in the queue.
SubstitutedStays(t) ==
  /\ t.at = "sub"
  /\ match' = [match EXCEPT ![t.m].flag = FALSE]
  /\ tasks' = tasks \ {t}
  /\ UNCHANGED <<discard, queue, exposed>>

\* The ratings are read: only now does the player leave the queue.
Substituted(t) ==
  /\ t.at = "sub"
  /\ queue' = Without(queue, ToSet(t.who))
  /\ match' = [match EXCEPT ![t.m].flag = FALSE]
  /\ tasks' = tasks \ {t}
  /\ UNCHANGED <<discard, exposed>>

Cancel(m) ==
  /\ MayEdit(m)
  /\ match' = [match EXCEPT ![m].flag = TRUE, ![m].waiting = FALSE]
  /\ tasks' = tasks \cup {On("cancel", m, <<>>, FALSE)}
  /\ UNCHANGED <<discard, queue, exposed>>

Cancelled(t) ==
  /\ t.at = "cancel"
  /\ match' = [match EXCEPT ![t.m] = [(IF @.active THEN Removed(@, "cancelled") ELSE @) EXCEPT !.flag = FALSE]]
  /\ tasks' = tasks \ {t}
  /\ UNCHANGED <<discard, queue, exposed>>

Report(m) ==
  /\ MayEdit(m) /\ match[m].state = "waiting"
  /\ match' = [match EXCEPT ![m].flag = TRUE]
  /\ tasks' = tasks \cup {On("report", m, <<>>, FALSE)}
  /\ UNCHANGED <<discard, queue, exposed>>

Reported(t) ==
  /\ t.at = "report"
  /\ match' = [match EXCEPT ![t.m] = [Removed(@, "recorded") EXCEPT !.flag = FALSE]]
  /\ tasks' = tasks \ {t}
  /\ UNCHANGED <<discard, queue, exposed>>

\* Discord or the database raises at the await; abort_timeout and cancel catch what it is.
Fail(t) ==
  /\ t.at \notin {"abort", "cancel"}
  /\ match' = IF t.at \in {"sub", "report"} THEN [match EXCEPT ![t.m].flag = FALSE] ELSE match
  /\ tasks' = tasks \ {t}
  /\ Expose(IF t.at = "sub" THEN ToSet(t.who) ELSE {})
  /\ UNCHANGED <<discard, queue>>

----------------------------------------------------------------------------

Resume(t) ==
  \/ Publish(t) \/ CheckIn(t) \/ Finish(t) \/ Replaced(t) \/ RevertSingle(t) \/ Abort(t)
  \/ AbortReverts(t) \/ Substituted(t) \/ Cancelled(t) \/ Reported(t)

Tick(m) == TickCheckIn(m) \/ TickAbort(m) \/ TickFinish(m) \/ TickDrop(m)

Next ==
  \/ \E u \in People : Leave(u) \/ \E moderator \in BOOLEAN : Add(u, moderator)
  \/ \E m \in MatchIds :
       \/ Tick(m) \/ Cancel(m) \/ Report(m)
       \/ \E u \in People :
            \/ Ready(m, u) \/ Unready(m, u) \/ BackOut(m, u) \/ SubAutoCheckIn(m, u) \/ SubAuto(m, u)
            \/ \E v \in People : SubFor(m, u, v)
  \/ \E t \in tasks : Resume(t) \/ Fail(t)

Spec == Init /\ [][Next]_vars

\* A coroutine whose await is over goes on.  on_think comes back every second to every active match,
\* and finds its flags down sooner or later: they are up for one read of the database.
Fairness ==
  \A m \in MatchIds \cup {0} :
    /\ \A at \in Steps : WF_vars(\E t \in tasks : t.m = m /\ t.at = at /\ Resume(t))
    /\ m # 0 => SF_vars(Tick(m))

FairSpec == Spec /\ Fairness

----------------------------------------------------------------------------

(***************************************************************************)
(* Safety.                                                                 *)
(***************************************************************************)

\* The places u has: in the queue (a substitute's old place does not count), in active matches, in
\* what a coroutine holds.
Seats(at, x, s, u) == {<<at, x, i>> : i \in {j \in DOMAIN s : s[j] = u}}
Places(u) ==
  (IF u \in Entering THEN {} ELSE Seats("queue", 0, queue, u))
  \cup (UNION {Seats("match", m, match[m].players, u) : m \in {n \in MatchIds : match[n].active}})
  \cup (UNION {Seats("start", t, t.who \o t.rest, u) : t \in Creating})
  \cup {<<"revert", t, 0>> : t \in {r \in Tasks("revert") : u \in match[r.m].ready}}

\* Nobody is twice in the queue, twice in a match, in two matches, or queued while he plays, except
\* who joined while a coroutine held him (or, put there by a moderator, while he played), was
\* started out of the queue or set aside by a revert while being substituted in, or was substituted
\* out when ready.
SeatedOnce == \A u \in People \ exposed : \A a, b \in Places(u) : a = b

\* A match goes live at most once, though the timer, the last reaction, a replacement and a
\* substitution may all finish its check-in.
LaunchedOnce == \A m \in MatchIds : match[m].launches <= 1

\* A match is not both recorded and cancelled, and leaves the active matches one way only among
\* cancelled, reverted and dropped.
EndsOnce ==
  \A m \in MatchIds : /\ ~({"recorded", "cancelled"} \subseteq match[m].ends)
                      /\ \A e, f \in match[m].ends \ {"recorded"} : e = f

----------------------------------------------------------------------------
(***************************************************************************)
(* The inductive invariant of LaunchedOnce and EndsOnce.                   *)
(***************************************************************************)

\* The one right to launch m: held by a match that has not checked in, by the coroutine that posts
\* the card, by the callback, by the coroutine that deletes the card; then it is spent.
Launching(m) == {t \in tasks : t.m = m /\ t.at \in {"checkin", "finish"}}
OneLaunch(m) ==
  /\ \A s, t \in Launching(m) : s = t
  /\ match[m].waiting => match[m].state \notin {"none", "init"} /\ Launching(m) = {}
  /\ match[m].state \in {"none", "init"} => Launching(m) = {}
  /\ \/ match[m].launches = 0
     \/ /\ match[m].launches = 1
        /\ match[m].state \notin {"none", "init"} /\ ~match[m].waiting /\ Launching(m) = {}

\* The flags let one coroutine at a time edit, cancel or report m.
Editing(m) == {t \in tasks : t.m = m /\ t.at \in {"sub", "cancel", "report"}}
OneEditor(m) ==
  /\ \A s, t \in Editing(m) : s = t
  /\ match[m].flag <=> Editing(m) # {}

OneEnd(m) ==
  /\ match[m].active => match[m].ends = {} /\ match[m].state # "none"
  /\ match[m].state = "none" => match[m] = NoMatch /\ \A t \in tasks : t.m # m
  /\ "cancelled" \in match[m].ends => \A t \in Editing(m) : t.at # "report"
  /\ ~({"recorded", "cancelled"} \subseteq match[m].ends)
  /\ \A e, f \in match[m].ends \ {"recorded"} : e = f

\* Launches, edits and ends of every match are exclusive: LaunchedOnce and EndsOnce with what it
\* takes to keep them.
IInv == \A m \in MatchIds : OneLaunch(m) /\ OneEditor(m) /\ OneEnd(m)

----------------------------------------------------------------------------
(***************************************************************************)
(* Liveness.                                                               *)
(***************************************************************************)

InCheckIn(m) == match[m].active /\ match[m].state = "checkin"
Replacing(m) == \E t \in Tasks("replace") : t.m = m

\* A check-in ends, whatever call fails and even if its card could not be posted, unless players are
\* replaced again and again: each replacement starts the clock anew.
CheckInEnds == \A m \in MatchIds : []<>(~InCheckIn(m) \/ Replacing(m))
=============================================================================
