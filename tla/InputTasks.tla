------------------------------ MODULE InputTasks ------------------------------
(****************************************************************************)
(* Input on the timed task pool (task_pool.h, thread_pool.h, input.cpp).    *)
(*                                                                          *)
(* The control thread queues each input message of a session as a task; the *)
(* pool's one worker runs them in order, and the delayed tasks when they    *)
(* are due: the repetition of the key pressed last, the delayed release of  *)
(* the left button.  The thread that joins a session arms a watchdog,       *)
(* cancels the delayed tasks and queues the release of everything pressed.  *)
(* A delayed task is known by its address, which may name another task once *)
(* it is gone.                                                              *)
(****************************************************************************)
EXTENDS Integers, SequencesExt

CONSTANTS
  Sessions, Clients,     \* sessions; those whose clients send
  Keys, Left,            \* keys of the keyboard; the left button
  Ids, NoId, Disabled,   \* addresses; nullptr; DISABLE_LEFT_BUTTON_DELAY
  NoTask,                \* the worker runs nothing
  MaxMessages            \* bound on the messages of all clients

Buttons == Keys \cup {Left}

Task == [kind : {"press", "release", "abs", "rel", "repeat", "left", "watchdog", "all"},
         on : Buttons, of : Sessions]

ASSUME InputAssumption ==
  /\ Clients \subseteq Sessions /\ Left \notin Keys
  /\ NoId \notin Ids /\ Disabled \notin Ids /\ NoId # Disabled
  /\ NoTask \notin [task : Task, id : Ids \cup {NoId}]
  /\ MaxMessages \in Nat

VARIABLES
  tasks,            \* _tasks
  timers, due,      \* _timer_tasks by address; those whose time has come, in order
  worker, running,  \* where the worker is; the task it runs
  go,               \* _continue
  pressed,          \* key_press and mouse_press
  down,             \* what the operating system holds down
  repeatId, leftId, \* key_press_repeat_id; mouse_left_button_timeout
  stage, watch,     \* how far the join of a session is; its force_kill
  sent

vars == <<tasks, timers, due, worker, running, go, pressed, down, repeatId, leftId,
          stage, watch, sent>>

pool == <<tasks, timers, due, worker, running, go>>
input == <<pressed, down, repeatId, leftId>>
joining == <<stage, watch>>

Message(s) == [kind : {"press", "release"}, on : Buttons, of : {s}]
                \cup [kind : {"abs", "rel"}, on : {Left}, of : {s}]

Repeat(k, s) == [kind |-> "repeat", on |-> k, of |-> s]
Delayed(s) == [kind |-> "left", on |-> Left, of |-> s]
Watchdog(s) == [kind |-> "watchdog", on |-> Left, of |-> s]
ReleaseAll(s) == [kind |-> "all", on |-> Left, of |-> s]

-----------------------------------------------------------------------------
(* The pool.                                                                *)

Ready == tasks # <<>> \/ due # <<>>

\* The worker after a notification; the lock that the pusher holds orders it with
\* the worker's own look.
Notified == IF worker \in {"asleep", "until"} THEN "awake" ELSE worker

\* A task to run at once; who pushes wakes the worker.
push(task) ==
  /\ tasks' = Append(tasks, task) /\ worker' = Notified
  /\ UNCHANGED <<timers, due>>

Held == {repeatId} \cup {leftId[s] : s \in Sessions} \cup {watch[s] : s \in Sessions}

\* The addresses a new task may get, when those of "gone" are free again: any
\* that somebody remembers, and one for all that nobody does.
Fresh(gone) ==
  LET free == Ids \ ((DOMAIN timers \ gone) \cup (IF running = NoTask THEN {} ELSE {running.id}))
  IN (free \cap Held) \cup {i \in free \ Held : \A j \in free \ Held : i <= j}

\* What is due, without the one entry of that address.
NotDue(id) ==
  IF id \notin ToSet(due) THEN due
  ELSE LET n == CHOOSE n \in DOMAIN due : due[n] = id
       IN [k \in 1..(Len(due) - 1) |-> due[IF k < n THEN k ELSE k + 1]]

Without(ids) == [i \in DOMAIN timers \ ids |-> timers[i]]

With(ids, new, task) ==
  [i \in (DOMAIN timers \ ids) \cup {new} |-> IF i = new THEN task ELSE timers[i]]

\* Mutation of cancel: a task already due stays on its way.
MutCancel(id) ==
  /\ timers' = Without({id})
  /\ UNCHANGED <<tasks, due, worker, running, go>>

\* The delayed task of that address goes, whatever it is, if it still waits.
cancel(id) ==
  /\ timers' = Without({id}) /\ due' = NotDue(id)
  /\ UNCHANGED <<tasks, worker, running, go>>

\* The time of a delayed task comes.
Due(i) ==
  /\ i \in DOMAIN timers \ ToSet(due) /\ timers[i].kind # "watchdog"
  /\ due' = Append(due, i)
  /\ worker' = IF worker = "until" THEN "awake" ELSE worker
  /\ UNCHANGED <<tasks, timers, running, go, input, joining, sent>>

\* The worker takes the next task; without one, the delayed task whose time came
\* first; or it finds nothing, which ends it when it runs what the stopped pool left.
PopTask ==
  /\ worker = "awake" /\ running = NoTask /\ tasks # <<>>
  /\ running' = [task |-> Head(tasks), id |-> NoId] /\ tasks' = Tail(tasks)
  /\ UNCHANGED <<timers, due, worker, go, input, joining, sent>>

PopDue ==
  /\ worker = "awake" /\ running = NoTask /\ tasks = <<>> /\ due # <<>>
  /\ running' = [task |-> timers[Head(due)], id |-> Head(due)]
  /\ timers' = Without({Head(due)}) /\ due' = Tail(due)
  /\ UNCHANGED <<tasks, worker, go, input, joining, sent>>

PopNothing ==
  /\ worker = "awake" /\ running = NoTask /\ ~Ready
  /\ worker' \in {"none"} \cup IF go THEN {} ELSE {"stopped"}
  /\ UNCHANGED <<tasks, timers, due, running, go, input, joining, sent>>

\* Mutation of Sleep: what came in between is not looked at.
MutSleep ==
  /\ worker = "none"
  /\ worker' = IF ~go THEN "stopped" ELSE IF timers = <<>> THEN "asleep" ELSE "until"
  /\ UNCHANGED <<tasks, timers, due, running, go, input, joining, sent>>

\* Under the lock it looks again, then leaves the loop, or waits for a
\* notification or for the first timer.
Sleep ==
  /\ worker = "none"
  /\ worker' = IF Ready THEN "awake"
               ELSE IF ~go THEN "stopped"
               ELSE IF timers = <<>> THEN "asleep" ELSE "until"
  /\ UNCHANGED <<tasks, timers, due, running, go, input, joining, sent>>

\* The host stops the pool once the sessions are joined.
Stop ==
  /\ go /\ \A s \in Sessions : stage[s] = "joined"
  /\ go' = FALSE /\ worker' = Notified
  /\ UNCHANGED <<tasks, timers, due, running, input, joining, sent>>

-----------------------------------------------------------------------------
(* What the tasks do.                                                       *)

\* The task that runs is of kind k; it is gone after the step.
Runs(k) == running # NoTask /\ running.task.kind = k /\ running' = NoTask

Same == UNCHANGED <<tasks, worker, go, joining, sent>>

\* Mutation of PressKey: the repetition of the previous key goes on.
MutPressKey ==
  /\ Runs("press") /\ running.task.on \in Keys
  /\ LET k == running.task.on IN
     IF k \in pressed
     THEN UNCHANGED <<timers, due, input>>
     ELSE /\ \E new \in Fresh({}) :
               timers' = With({}, new, Repeat(k, running.task.of)) /\ repeatId' = new
          /\ pressed' = pressed \cup {k} /\ down' = down \cup {k}
          /\ UNCHANGED <<due, leftId>>
  /\ Same

\* A key goes down: it is repeated from now on, instead of the previous one.
PressKey ==
  /\ Runs("press") /\ running.task.on \in Keys
  /\ LET k == running.task.on IN
     IF k \in pressed
     THEN UNCHANGED <<timers, due, input>>
     ELSE /\ \E new \in Fresh({repeatId}) :
               /\ timers' = With({repeatId}, new, Repeat(k, running.task.of))
               /\ repeatId' = new
          /\ due' = NotDue(repeatId)
          /\ pressed' = pressed \cup {k} /\ down' = down \cup {k}
          /\ UNCHANGED leftId
  /\ Same

\* A key goes up; its repetition finds that out by itself.
ReleaseKey ==
  /\ Runs("release") /\ running.task.on \in Keys
  /\ pressed' = pressed \ {running.task.on}
  /\ down' = IF running.task.on \in pressed THEN down \ {running.task.on} ELSE down
  /\ UNCHANGED <<timers, due, repeatId, leftId>> /\ Same

\* Mutation of RepeatKey: a key released meanwhile is pressed again.
MutRepeatKey ==
  /\ Runs("repeat")
  /\ down' = down \cup {running.task.on}
  /\ \E new \in Fresh({}) : timers' = With({}, new, running.task) /\ repeatId' = new
  /\ UNCHANGED <<due, pressed, leftId>> /\ Same

\* A key still pressed is pressed again, and later once more.
RepeatKey ==
  /\ Runs("repeat")
  /\ IF running.task.on \in pressed
     THEN /\ down' = down \cup {running.task.on}
          /\ \E new \in Fresh({}) : timers' = With({}, new, running.task) /\ repeatId' = new
     ELSE repeatId' = NoId /\ UNCHANGED <<down, timers>>
  /\ UNCHANGED <<due, pressed, leftId>> /\ Same

PressLeft ==
  /\ Runs("press") /\ running.task.on = Left
  /\ pressed' = pressed \cup {Left}
  /\ down' = IF Left \in pressed THEN down ELSE down \cup {Left}
  /\ UNCHANGED <<timers, due, repeatId, leftId>> /\ Same

\* The button goes up: later, when the pointer last moved to a position and no
\* release is pending; else at once.
ReleaseLeft ==
  /\ Runs("release") /\ running.task.on = Left
  /\ pressed' = pressed \ {Left}
  /\ LET s == running.task.of IN
     IF Left \in pressed /\ leftId[s] = NoId
     THEN \E new \in Fresh({}) : /\ timers' = With({}, new, Delayed(s))
                                 /\ leftId' = [leftId EXCEPT ![s] = new]
                                 /\ UNCHANGED down
     ELSE /\ down' = IF Left \in pressed THEN down \ {Left} ELSE down
          /\ UNCHANGED <<timers, leftId>>
  /\ UNCHANGED <<due, repeatId>> /\ Same

\* Mutation of LateLeft: the test is the other way round.
MutLateLeft ==
  /\ Runs("left")
  /\ IF Left \notin pressed
     THEN UNCHANGED <<down, leftId>>
     ELSE down' = down \ {Left} /\ leftId' = [leftId EXCEPT ![running.task.of] = NoId]
  /\ UNCHANGED <<timers, due, pressed, repeatId>> /\ Same

\* The delayed release: nothing, and the stale address is kept, when the button
\* was pressed again.
LateLeft ==
  /\ Runs("left")
  /\ IF Left \in pressed
     THEN UNCHANGED <<down, leftId>>
     ELSE down' = down \ {Left} /\ leftId' = [leftId EXCEPT ![running.task.of] = NoId]
  /\ UNCHANGED <<timers, due, pressed, repeatId>> /\ Same

\* The pointer moves: relative moves switch the delay off, absolute ones on.
Move ==
  /\ \/ Runs("rel") /\ leftId' = [leftId EXCEPT ![running.task.of] = Disabled]
     \/ Runs("abs") /\ leftId' = [leftId EXCEPT ![running.task.of] =
                                    IF @ = Disabled THEN NoId ELSE @]
  /\ UNCHANGED <<timers, due, pressed, down, repeatId>> /\ Same

\* All that is pressed goes up, whichever session pressed it.
Release ==
  /\ Runs("all")
  /\ down' = down \ pressed /\ pressed' = {}
  /\ UNCHANGED <<timers, due, repeatId, leftId>> /\ Same

Run == \/ PressKey \/ ReleaseKey \/ RepeatKey \/ PressLeft \/ ReleaseLeft
       \/ LateLeft \/ Move \/ Release

-----------------------------------------------------------------------------
(* The control thread and the thread that joins.                            *)

\* A message of a client is queued.
Send(s) ==
  /\ s \in Clients /\ stage[s] = "live" /\ sent < MaxMessages
  /\ \E m \in Message(s) : push(m)
  /\ sent' = sent + 1
  /\ UNCHANGED <<running, go, input, joining>>

\* The control thread lets go of the session (controlEnd).
ControlEnd(s) ==
  /\ stage[s] = "live"
  /\ stage' = [stage EXCEPT ![s] = "ended"]
  /\ UNCHANGED <<pool, input, watch, sent>>

\* A join begins with its watchdog, perhaps before the control thread lets go.
JoinBegins(s) ==
  /\ watch[s] = NoId /\ stage[s] # "joined"
  /\ \E new \in Fresh({}) :
       /\ timers' = With({}, new, Watchdog(s))
       /\ watch' = [watch EXCEPT ![s] = new]
  /\ worker' = Notified
  /\ UNCHANGED <<tasks, due, running, go, input, stage, sent>>

Step(s, from, to) ==
  /\ watch[s] # NoId /\ stage[s] = from
  /\ stage' = [stage EXCEPT ![s] = to]
  /\ UNCHANGED <<input, sent>>

\* reset: the two delayed tasks are cancelled, their addresses kept, and the
\* release is queued.
ResetRepeat(s) == Step(s, "ended", "repeat") /\ cancel(repeatId) /\ UNCHANGED watch
ResetLeft(s) == Step(s, "repeat", "left") /\ cancel(leftId[s]) /\ UNCHANGED watch
ResetRelease(s) ==
  Step(s, "left", "reset") /\ push(ReleaseAll(s)) /\ UNCHANGED <<running, go, watch>>

\* The join returns and cancels its watchdog.
JoinEnds(s) ==
  Step(s, "reset", "joined") /\ cancel(watch[s]) /\ watch' = [watch EXCEPT ![s] = NoId]

Join(s) == JoinBegins(s) \/ ResetRepeat(s) \/ ResetLeft(s) \/ ResetRelease(s) \/ JoinEnds(s)

-----------------------------------------------------------------------------
Init ==
  /\ tasks = <<>> /\ timers = <<>> /\ due = <<>>
  /\ worker = "awake" /\ running = NoTask /\ go = TRUE
  /\ pressed = {} /\ down = {} /\ repeatId = NoId /\ leftId = [s \in Sessions |-> NoId]
  /\ stage = [s \in Sessions |-> "live"] /\ watch = [s \in Sessions |-> NoId]
  /\ sent = 0

Next ==
  \/ (\E i \in Ids : Due(i)) \/ PopTask \/ PopDue \/ PopNothing \/ Sleep \/ Run \/ Stop
  \/ \E s \in Sessions : Send(s) \/ ControlEnd(s) \/ Join(s)

Spec == Init /\ [][Next]_vars

\* The worker goes on, and time passes; neither clients nor joins are owed.
FairSpec ==
  /\ Spec
  /\ WF_vars(PopTask \/ PopDue \/ PopNothing \/ Sleep \/ Run)
  /\ \A i \in Ids : WF_vars(Due(i))

-----------------------------------------------------------------------------
(* Properties.                                                              *)

\* The state is of its type; what is due is among the timers, once each.
TypeOK ==
  /\ tasks \in Seq(Task)
  /\ DOMAIN timers \subseteq Ids /\ timers \in [DOMAIN timers -> Task]
  /\ ToSet(due) \subseteq DOMAIN timers /\ due \in Seq(Ids) /\ IsInjective(due)
  /\ worker \in {"awake", "none", "asleep", "until", "stopped"}
  /\ running \in {NoTask} \cup [task : Task, id : Ids \cup {NoId}]
  /\ go \in BOOLEAN
  /\ pressed \subseteq Buttons /\ down \subseteq Buttons
  /\ repeatId \in Ids \cup {NoId} /\ leftId \in [Sessions -> Ids \cup {NoId, Disabled}]
  /\ stage \in [Sessions -> {"live", "ended", "repeat", "left", "reset", "joined"}]
  /\ watch \in [Sessions -> Ids \cup {NoId}]
  /\ sent \in 0..MaxMessages

\* One key repeats at a time, whichever addresses are reused: a repetition that
\* waits is the only one and none runs.
OneRepeat ==
  \A i \in DOMAIN timers : timers[i].kind = "repeat" =>
    /\ \A j \in DOMAIN timers : timers[j].kind = "repeat" => i = j
    /\ running # NoTask => running.task.kind # "repeat"

\* A repetition never holds down a key that its client has released.
HeldIsPressed == down \cap Keys \subseteq pressed

\* The worker sleeps, or has left, only with nothing to run: no notification comes
\* between its look and its wait, and nothing is queued once the pool is stopped
\* (thread_pool.h).
SleepsWithoutWork ==
  /\ worker \in {"asleep", "until"} => ~Ready /\ go
  /\ worker = "asleep" => DOMAIN timers = {}
  /\ worker = "stopped" => tasks = <<>> /\ ~go

\* Once every session has queued its release and the worker has run all that is
\* queued, nothing is pressed and no key is held down: neither a message nor a
\* repetition comes after the last release.
ReleasedInTheEnd ==
  (\A s \in Sessions : stage[s] \in {"reset", "joined"}) /\ tasks = <<>> /\ running = NoTask
    => pressed = {} /\ down \cap Keys = {}

\* When the last session is joined no key stays down and none is repeated, however
\* the resets, the repetitions and the addresses interleave
\* (stream.cpp: "Reset input on session stop to avoid stuck repeated keys").
KeysComeUp ==
  (\A s \in Sessions : stage[s] = "joined") ~> [](down \cap Keys = {})

\* A left button whose client has released it comes up, until some session ends:
\* a reset cancels the delayed release.
LeftComesUp ==
  Left \in down \ pressed
    ~> (Left \notin down \ pressed \/ \E s \in Sessions : stage[s] # "live")

\* A join that has not returned is watched: its watchdog waits, so that a hang
\* ends the process (stream.cpp: "Cancel the kill task if we manage to return
\* from this function").
JoinIsWatched ==
  \A s \in Sessions : watch[s] # NoId
    => watch[s] \in DOMAIN timers /\ timers[watch[s]] = Watchdog(s)
=============================================================================
