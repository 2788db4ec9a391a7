--------------------------- MODULE InputTasksProofs ---------------------------
(* Proofs about InputTasks: for any sessions, keys, addresses and messages,   *)
(* one key repeats at a time and no repetition holds down a released key.     *)
EXTENDS InputTasks, SequenceTheorems, TLAPS

\* What waits in the queue is a message or the release of everything.
Queued == [kind : {"press", "release", "abs", "rel", "all"}, on : Buttons, of : Sessions]

\* The repetition that waits is the one whose address is remembered, and while
\* one waits none runs.
RepeatInv ==
  /\ tasks \in Seq(Queued)
  /\ \A i \in DOMAIN timers : timers[i].kind = "repeat" =>
       /\ i = repeatId
       /\ running # NoTask => running.task.kind # "repeat"

IInv == TypeOK /\ RepeatInv /\ HeldIsPressed

\* The sessions are all past their release; all are joined before the pool stops.
Settled == \A s \in Sessions : stage[s] \in {"reset", "joined"}

\* The last release comes after the last message: it waits at the end of the
\* queue, or runs, or has run, and what runs after it presses nothing.
ReleaseInv ==
  /\ \A i \in DOMAIN timers : timers[i].kind # "press"
  /\ Settled =>
       \/ tasks # <<>> /\ tasks[Len(tasks)].kind = "all"
       \/ tasks = <<>> /\ running # NoTask /\ running.task.kind = "all"
       \/ tasks = <<>> /\ pressed = {} /\ (running # NoTask => running.task.kind # "press")

\* The worker runs a task only when it is awake; the pool stops after the joins.
WorkerInv ==
  /\ running # NoTask => worker = "awake"
  /\ go \/ \A s \in Sessions : stage[s] = "joined"
  /\ SleepsWithoutWork

LEMMA QueuedTask == Queued \subseteq Task
BY DEF Queued, Task

LEMMA MessageQueued == \A s \in Sessions : Message(s) \subseteq Queued
BY DEF Message, Queued, Buttons

LEMMA Tasks ==
  /\ \A k \in Keys, s \in Sessions : Repeat(k, s) \in Task
  /\ \A s \in Sessions : /\ Delayed(s) \in Task /\ Watchdog(s) \in Task
                         /\ ReleaseAll(s) \in Queued
BY DEF Repeat, Delayed, Watchdog, ReleaseAll, Task, Queued, Buttons

\* A new task gets an address that no task which waits has.
LEMMA FreshIsFree ==
  ASSUME NEW gone, NEW new \in Fresh(gone)
  PROVE  new \in Ids /\ new \notin DOMAIN timers \ gone
BY DEF Fresh

\* Taking an address out of what is due leaves the others, once each.
LEMMA NotDueType ==
  ASSUME due \in Seq(Ids), IsInjective(due), NEW id
  PROVE  /\ NotDue(id) \in Seq(Ids) /\ IsInjective(NotDue(id))
         /\ ToSet(NotDue(id)) \subseteq ToSet(due) \ {id}
<1>1. CASE id \notin ToSet(due)
  BY <1>1 DEF NotDue, ToSet
<1>2. CASE id \in ToSet(due)
  <2> DEFINE n == CHOOSE k \in DOMAIN due : due[k] = id
             rest == [k \in 1..(Len(due) - 1) |-> due[IF k < n THEN k ELSE k + 1]]
  <2>1. n \in DOMAIN due /\ due[n] = id
    BY <1>2 DEF ToSet
  <2>2. NotDue(id) = rest
    BY <1>2 DEF NotDue
  <2>3. DOMAIN due = 1..Len(due) /\ Len(due) \in Nat /\ \A k \in DOMAIN due : due[k] \in Ids
    OBVIOUS
  <2> HIDE DEF n
  <2>4. Len(due) - 1 \in Nat
    BY <2>1, <2>3
  <2>5. \A k \in 1..(Len(due) - 1) :
          (IF k < n THEN k ELSE k + 1) \in DOMAIN due \ {n}
    BY <2>1, <2>3
  <2>6. \A k \in DOMAIN due : k # n => due[k] # id
    BY <2>1 DEF IsInjective
  <2>7. rest \in Seq(Ids) /\ DOMAIN rest = 1..(Len(due) - 1)
    BY <2>3, <2>4, <2>5
  <2>8. IsInjective(rest)
    <3> SUFFICES ASSUME NEW a \in 1..(Len(due) - 1), NEW b \in 1..(Len(due) - 1),
                        rest[a] = rest[b]
                 PROVE  a = b
      BY <2>7 DEF IsInjective
    <3>1. due[IF a < n THEN a ELSE a + 1] = due[IF b < n THEN b ELSE b + 1]
      OBVIOUS
    <3>2. (IF a < n THEN a ELSE a + 1) = (IF b < n THEN b ELSE b + 1)
      BY <3>1, <2>5 DEF IsInjective
    <3> QED BY <3>2, <2>1, <2>3
  <2>9. ToSet(rest) \subseteq ToSet(due) \ {id}
    BY <2>5, <2>6, <2>7 DEF ToSet
  <2> QED BY <2>2, <2>7, <2>8, <2>9
<1> QED BY <1>1, <1>2

\* Adding a timer, and removing some.
LEMMA WithType ==
  ASSUME IInv, NEW gone, NEW new \in Ids, NEW task \in Task,
         timers' = With(gone, new, task)
  PROVE  /\ DOMAIN timers' = (DOMAIN timers \ gone) \cup {new}
         /\ DOMAIN timers' \subseteq Ids /\ timers' \in [DOMAIN timers' -> Task]
         /\ timers'[new] = task
         /\ \A i \in DOMAIN timers \ gone : i # new => timers'[i] = timers[i]
BY DEF With, IInv, TypeOK

LEMMA AddType ==
  ASSUME IInv, NEW new \in Fresh({}), NEW task \in Task, timers' = With({}, new, task)
  PROVE  /\ new \in Ids /\ new \notin DOMAIN timers
         /\ DOMAIN timers' = DOMAIN timers \cup {new} /\ timers'[new] = task
         /\ DOMAIN timers' \subseteq Ids /\ timers' \in [DOMAIN timers' -> Task]
         /\ \A i \in DOMAIN timers : timers'[i] = timers[i]
<1>1. new \in Ids /\ new \notin DOMAIN timers \ {}
  BY FreshIsFree
<1>2. /\ DOMAIN timers' = (DOMAIN timers \ {}) \cup {new}
      /\ DOMAIN timers' \subseteq Ids /\ timers' \in [DOMAIN timers' -> Task]
      /\ timers'[new] = task
      /\ \A i \in DOMAIN timers \ {} : i # new => timers'[i] = timers[i]
  BY <1>1, WithType
<1> QED BY <1>1, <1>2

LEMMA WithoutType ==
  ASSUME TypeOK, NEW gone
  PROVE  LET f == Without(gone) IN
         /\ DOMAIN f = DOMAIN timers \ gone
         /\ DOMAIN f \subseteq Ids /\ f \in [DOMAIN f -> Task]
         /\ \A i \in DOMAIN f : f[i] = timers[i]
BY DEF Without, TypeOK

LEMMA InitInv == Init => IInv
<1> SUFFICES ASSUME Init PROVE IInv
  OBVIOUS
<1> USE DEF Init
<1>1. DOMAIN timers = {} /\ timers \in [DOMAIN timers -> Task]
  OBVIOUS
<1>2. due \in Seq(Ids) /\ ToSet(due) \subseteq DOMAIN timers /\ IsInjective(due)
  BY DEF ToSet, IsInjective
<1>3. tasks \in Seq(Queued) /\ tasks \in Seq(Task)
  OBVIOUS
<1>4. TypeOK
  BY InputAssumption, <1>1, <1>2, <1>3 DEF TypeOK
<1>5. RepeatInv /\ HeldIsPressed
  BY <1>1, <1>3 DEF RepeatInv, HeldIsPressed
<1> QED BY <1>4, <1>5 DEF IInv

LEMMA TypeFrame == IInv /\ UNCHANGED vars => IInv'
<1> SUFFICES ASSUME IInv, UNCHANGED vars PROVE IInv'
  OBVIOUS
<1> USE DEF vars, IInv
<1>1. TypeOK'
  BY DEF TypeOK, ToSet, IsInjective
<1>2. RepeatInv' /\ HeldIsPressed'
  BY DEF RepeatInv, HeldIsPressed
<1> QED BY <1>1, <1>2

LEMMA DueStep == ASSUME IInv, NEW i \in Ids, Due(i) PROVE IInv'
<1> USE DEF IInv, Due, input, joining
<1>1. due' \in Seq(Ids) /\ ToSet(due') \subseteq DOMAIN timers /\ IsInjective(due')
  <2>1. due \in Seq(Ids) /\ IsInjective(due) /\ ToSet(due) \subseteq DOMAIN timers
    BY DEF TypeOK
  <2>2. i \notin ToSet(due) /\ i \in DOMAIN timers /\ due' = Append(due, i)
    OBVIOUS
  <2>3. DOMAIN due' = 1..(Len(due) + 1) /\ DOMAIN due = 1..Len(due) /\ Len(due) \in Nat
        /\ due'[Len(due) + 1] = i /\ \A k \in DOMAIN due : due'[k] = due[k]
    BY <2>1, <2>2
  <2>4. \A k \in DOMAIN due : due[k] # i
    BY <2>2 DEF ToSet
  <2> QED BY <2>1, <2>2, <2>3, <2>4 DEF IsInjective, ToSet
<1>2. TypeOK'
  BY <1>1 DEF TypeOK, Notified
<1>3. RepeatInv' /\ HeldIsPressed'
  BY DEF RepeatInv, HeldIsPressed
<1> QED BY <1>2, <1>3

LEMMA PopTaskStep == ASSUME IInv, PopTask PROVE IInv'
<1> USE DEF IInv, PopTask, input, joining
<1>1. Head(tasks) \in Queued /\ Tail(tasks) \in Seq(Queued) /\ Tail(tasks) \in Seq(Task)
  BY DEF TypeOK, RepeatInv
<1>2. TypeOK'
  BY <1>1, QueuedTask DEF TypeOK, ToSet, IsInjective
<1>3. Head(tasks).kind # "repeat"
  BY <1>1 DEF Queued
<1>4. RepeatInv' /\ HeldIsPressed'
  BY <1>1, <1>3 DEF RepeatInv, HeldIsPressed
<1> QED BY <1>2, <1>4

LEMMA PopDueStep == ASSUME IInv, PopDue PROVE IInv'
<1> USE DEF IInv, PopDue, input, joining
<1> DEFINE h == Head(due)
<1>1. due \in Seq(Ids) /\ due # <<>> /\ IsInjective(due) /\ ToSet(due) \subseteq DOMAIN timers
  BY DEF TypeOK
<1>2. h = due[1] /\ 1 \in DOMAIN due /\ h \in DOMAIN timers /\ h \in Ids
  BY <1>1 DEF ToSet
<1>3. /\ due' \in Seq(Ids) /\ IsInjective(due')
      /\ ToSet(due') \subseteq DOMAIN timers \ {h}
  <2>1. due' = Tail(due) /\ Len(due) \in Nat \ {0} /\ DOMAIN due = 1..Len(due)
    BY <1>1
  <2>2. /\ due' \in Seq(Ids) /\ DOMAIN due' = 1..(Len(due) - 1)
        /\ \A k \in 1..(Len(due) - 1) : due'[k] = due[k + 1] /\ k + 1 \in DOMAIN due
    BY <1>1, <2>1
  <2>3. \A k \in 1..(Len(due) - 1) : due[k + 1] # h
    BY <1>1, <1>2, <2>1, <2>2 DEF IsInjective
  <2>4. IsInjective(due')
    <3> SUFFICES ASSUME NEW a \in 1..(Len(due) - 1), NEW b \in 1..(Len(due) - 1),
                        due'[a] = due'[b]
                 PROVE  a = b
      BY <2>2 DEF IsInjective
    <3>1. a + 1 = b + 1
      BY <1>1, <2>2 DEF IsInjective
    <3> QED BY <3>1, <2>1
  <2> QED BY <1>1, <2>2, <2>3, <2>4 DEF ToSet
<1>4. timers[h] \in Task
  BY <1>2 DEF TypeOK
<1> HIDE DEF h
<1>5. timers' = Without({h}) /\ running' = [task |-> timers[h], id |-> h]
  BY DEF h
<1>6. /\ DOMAIN timers' = DOMAIN timers \ {h}
      /\ DOMAIN timers' \subseteq Ids /\ timers' \in [DOMAIN timers' -> Task]
      /\ \A i \in DOMAIN timers' : timers'[i] = timers[i]
  BY <1>5, WithoutType
<1>7. TypeOK'
  <2>1. running' \in [task : Task, id : Ids \cup {NoId}]
    BY <1>2, <1>4, <1>5
  <2> QED BY <1>3, <1>6, <2>1 DEF TypeOK
<1>8. RepeatInv'
  <2>1. running'.task = timers[h]
    BY <1>5
  <2> QED BY <1>2, <1>6, <2>1 DEF RepeatInv
<1>9. HeldIsPressed'
  BY DEF HeldIsPressed
<1> QED BY <1>7, <1>8, <1>9

LEMMA IdleStep == ASSUME IInv, PopNothing \/ Sleep \/ Stop PROVE IInv'
<1> USE DEF IInv, PopNothing, Sleep, Stop, Notified, input, joining
<1>a. /\ UNCHANGED <<tasks, timers, due, running, pressed, down, repeatId, leftId, stage, watch, sent>>
      /\ go' \in BOOLEAN /\ worker' \in {"awake", "none", "asleep", "until", "stopped"}
  BY DEF TypeOK
<1> HIDE DEF PopNothing, Sleep, Stop, Notified
<1>1. TypeOK'
  BY <1>a DEF TypeOK, ToSet, IsInjective
<1>2. RepeatInv' /\ HeldIsPressed'
  BY <1>a DEF RepeatInv, HeldIsPressed
<1> QED BY <1>1, <1>2

\* The step of a task: what runs is a task, and nothing runs afterwards.
LEMMA RunsTask ==
  ASSUME IInv, NEW k, Runs(k)
  PROVE  /\ running \in [task : Task, id : Ids \cup {NoId}] /\ running.task \in Task
         /\ running.task.kind = k /\ running.task.on \in Buttons
         /\ running.task.of \in Sessions
         /\ running # NoTask /\ running' = NoTask
BY DEF IInv, TypeOK, Runs, Task

\* A step that only changes what is pressed and held.
LEMMA ButtonStep ==
  ASSUME IInv, UNCHANGED <<tasks, timers, due, worker, go, joining, sent, repeatId>>,
         running' = NoTask,
         pressed' \subseteq Buttons, down' \subseteq Buttons,
         leftId' \in [Sessions -> Ids \cup {NoId, Disabled}],
         down' \cap Keys \subseteq pressed'
  PROVE  IInv'
<1> USE DEF IInv, joining
<1>1. TypeOK'
  BY DEF TypeOK, ToSet, IsInjective
<1>2. RepeatInv' /\ HeldIsPressed'
  BY DEF RepeatInv, HeldIsPressed
<1> QED BY <1>1, <1>2

LEMMA ReleaseKeyStep == ASSUME IInv, ReleaseKey PROVE IInv'
<1> USE DEF ReleaseKey, Same
<1>1. running' = NoTask
  BY DEF Runs
<1>2. /\ pressed \subseteq Buttons /\ down \subseteq Buttons /\ down \cap Keys \subseteq pressed
      /\ leftId \in [Sessions -> Ids \cup {NoId, Disabled}]
  BY DEF IInv, TypeOK, HeldIsPressed
<1>3. down' \cap Keys \subseteq pressed'
  BY <1>2
<1> QED BY <1>1, <1>2, <1>3, ButtonStep

LEMMA PressLeftStep == ASSUME IInv, PressLeft PROVE IInv'
<1> USE DEF PressLeft, Same
<1>1. running' = NoTask
  BY DEF Runs
<1>2. /\ pressed \subseteq Buttons /\ down \subseteq Buttons /\ down \cap Keys \subseteq pressed
      /\ leftId \in [Sessions -> Ids \cup {NoId, Disabled}]
  BY DEF IInv, TypeOK, HeldIsPressed
<1> QED BY <1>1, <1>2, ButtonStep, InputAssumption DEF Buttons

LEMMA ReleaseStep == ASSUME IInv, Release PROVE IInv'
<1> USE DEF Release, Same
<1>1. running' = NoTask
  BY DEF Runs
<1>2. /\ pressed \subseteq Buttons /\ down \subseteq Buttons /\ down \cap Keys \subseteq pressed
      /\ leftId \in [Sessions -> Ids \cup {NoId, Disabled}]
  BY DEF IInv, TypeOK, HeldIsPressed
<1> QED BY <1>1, <1>2, ButtonStep

LEMMA LateLeftStep == ASSUME IInv, LateLeft PROVE IInv'
<1> USE DEF LateLeft, Same
<1>1. running' = NoTask /\ running.task.of \in Sessions
  BY RunsTask
<1>2. /\ pressed \subseteq Buttons /\ down \subseteq Buttons /\ down \cap Keys \subseteq pressed
      /\ leftId \in [Sessions -> Ids \cup {NoId, Disabled}]
  BY DEF IInv, TypeOK, HeldIsPressed
<1>3. leftId' \in [Sessions -> Ids \cup {NoId, Disabled}]
  BY <1>1, <1>2
<1> QED BY <1>1, <1>2, <1>3, ButtonStep

LEMMA MoveStep == ASSUME IInv, Move PROVE IInv'
<1> USE DEF Move, Same
<1>1. running' = NoTask
  BY DEF Runs
<1>2. /\ pressed \subseteq Buttons /\ down \subseteq Buttons /\ down \cap Keys \subseteq pressed
      /\ leftId \in [Sessions -> Ids \cup {NoId, Disabled}]
  BY DEF IInv, TypeOK, HeldIsPressed
<1>3. leftId' \in [Sessions -> Ids \cup {NoId, Disabled}]
  BY <1>2
<1> QED BY <1>1, <1>2, <1>3, ButtonStep

\* The key's repetition replaces the one that waits.
LEMMA PressKeyStep == ASSUME IInv, PressKey PROVE IInv'
<1> DEFINE k == running.task.on
           s == running.task.of
<1> USE DEF PressKey, Same, input, joining
<1>0. k \in Keys /\ s \in Sessions /\ running' = NoTask
  BY RunsTask
<1>1. CASE k \in pressed
  <2>1. UNCHANGED <<timers, due, pressed, down, repeatId, leftId>>
    BY <1>1
  <2> QED BY <1>0, <2>1, ButtonStep DEF IInv, TypeOK, HeldIsPressed
<1>2. CASE k \notin pressed
  <2>1. PICK new \in Fresh({repeatId}) :
          /\ timers' = With({repeatId}, new, Repeat(k, s)) /\ repeatId' = new
    BY <1>2
  <2>2. /\ due' = NotDue(repeatId) /\ leftId' = leftId
        /\ pressed' = pressed \cup {k} /\ down' = down \cup {k}
        /\ UNCHANGED <<tasks, worker, go, stage, watch, sent>>
    BY <1>2
  <2> HIDE DEF k, s, PressKey
  <2>3. new \in Ids /\ new \notin DOMAIN timers \ {repeatId}
    BY FreshIsFree
  <2>4. Repeat(k, s) \in Task /\ k \in Buttons
    BY <1>0, Tasks DEF Buttons
  <2>5. /\ DOMAIN timers' = (DOMAIN timers \ {repeatId}) \cup {new}
        /\ DOMAIN timers' \subseteq Ids /\ timers' \in [DOMAIN timers' -> Task]
        /\ \A i \in DOMAIN timers \ {repeatId} : timers'[i] = timers[i]
    BY <2>1, <2>3, <2>4, WithType
  <2>6. /\ due' \in Seq(Ids) /\ IsInjective(due')
        /\ ToSet(due') \subseteq DOMAIN timers'
    BY <2>2, <2>5, NotDueType DEF IInv, TypeOK
  <2>7. TypeOK'
    BY <1>0, <2>1, <2>2, <2>3, <2>4, <2>5, <2>6 DEF IInv, TypeOK
  <2>8. RepeatInv'
    BY <1>0, <2>1, <2>2, <2>5 DEF IInv, RepeatInv
  <2>9. HeldIsPressed'
    BY <2>2 DEF IInv, HeldIsPressed
  <2> QED BY <2>7, <2>8, <2>9 DEF IInv
<1> QED BY <1>1, <1>2

\* A repetition that runs finds none that waits.
LEMMA RepeatKeyStep == ASSUME IInv, RepeatKey PROVE IInv'
<1> DEFINE k == running.task.on
<1> USE DEF RepeatKey, Same, input, joining
<1>0. /\ running.task \in Task /\ running.task.kind = "repeat" /\ k \in Buttons
      /\ running # NoTask /\ running' = NoTask
  BY RunsTask
<1>1. \A i \in DOMAIN timers : timers[i].kind # "repeat"
  BY <1>0 DEF IInv, RepeatInv
<1>2. CASE k \in pressed
  <2>1. PICK new \in Fresh({}) :
          timers' = With({}, new, running.task) /\ repeatId' = new
    BY <1>2
  <2>2. /\ down' = down \cup {k} /\ UNCHANGED <<due, pressed, leftId>>
        /\ UNCHANGED <<tasks, worker, go, stage, watch, sent>>
    BY <1>2
  <2> HIDE DEF RepeatKey
  <2>5. /\ new \in Ids /\ new \notin DOMAIN timers
        /\ DOMAIN timers' = DOMAIN timers \cup {new}
        /\ DOMAIN timers' \subseteq Ids /\ timers' \in [DOMAIN timers' -> Task]
        /\ \A i \in DOMAIN timers : timers'[i] = timers[i]
    BY <1>0, <2>1, AddType
  <2>6. /\ due' \in Seq(Ids) /\ IsInjective(due') /\ ToSet(due') \subseteq DOMAIN timers'
    BY <2>2, <2>5 DEF IInv, TypeOK, IsInjective, ToSet
  <2>7. TypeOK'
    BY <1>0, <2>1, <2>2, <2>5, <2>6 DEF IInv, TypeOK
  <2>8. RepeatInv'
    BY <1>0, <1>1, <2>1, <2>2, <2>5 DEF IInv, RepeatInv
  <2>9. HeldIsPressed'
    BY <1>2, <2>2 DEF IInv, HeldIsPressed
  <2> QED BY <2>7, <2>8, <2>9 DEF IInv
<1>3. CASE k \notin pressed
  <2>1. repeatId' = NoId /\ UNCHANGED <<down, timers, due, pressed, leftId>>
    BY <1>3
  <2>2. TypeOK'
    BY <1>0, <2>1 DEF IInv, TypeOK, ToSet, IsInjective
  <2>3. RepeatInv' /\ HeldIsPressed'
    BY <1>0, <1>1, <2>1 DEF IInv, RepeatInv, HeldIsPressed
  <2> QED BY <2>2, <2>3 DEF IInv
<1> QED BY <1>2, <1>3

LEMMA ReleaseLeftStep == ASSUME IInv, ReleaseLeft PROVE IInv'
<1> DEFINE s == running.task.of
<1> USE DEF ReleaseLeft, Same, input, joining
<1>0. s \in Sessions /\ running' = NoTask
  BY RunsTask
<1>1. /\ pressed \subseteq Buttons /\ down \subseteq Buttons /\ down \cap Keys \subseteq pressed
      /\ leftId \in [Sessions -> Ids \cup {NoId, Disabled}] /\ Left \notin Keys
  BY InputAssumption DEF IInv, TypeOK, HeldIsPressed
<1>2. CASE Left \in pressed /\ leftId[s] = NoId
  <2>1. PICK new \in Fresh({}) :
          /\ timers' = With({}, new, Delayed(s)) /\ leftId' = [leftId EXCEPT ![s] = new]
          /\ UNCHANGED down
    BY <1>2
  <2>2. /\ pressed' = pressed \ {Left} /\ UNCHANGED <<due, repeatId>>
        /\ UNCHANGED <<tasks, worker, go, stage, watch, sent>>
    BY <1>2
  <2> HIDE DEF ReleaseLeft, s
  <2>3. Delayed(s) \in Task
    BY <1>0, Tasks
  <2>5. /\ DOMAIN timers' = DOMAIN timers \cup {new} /\ timers'[new] = Delayed(s)
        /\ DOMAIN timers' \subseteq Ids /\ timers' \in [DOMAIN timers' -> Task]
        /\ \A i \in DOMAIN timers : timers'[i] = timers[i]
    BY <2>1, <2>3, AddType
  <2>6. /\ due' \in Seq(Ids) /\ IsInjective(due') /\ ToSet(due') \subseteq DOMAIN timers'
    BY <2>2, <2>5 DEF IInv, TypeOK, IsInjective, ToSet
  <2>7. TypeOK'
    BY <1>0, <1>1, <2>1, <2>2, <2>3, <2>5, <2>6 DEF IInv, TypeOK
  <2>8. RepeatInv'
    BY <1>0, <2>2, <2>5 DEF IInv, RepeatInv, Delayed
  <2>9. HeldIsPressed'
    BY <1>1, <2>1, <2>2 DEF HeldIsPressed
  <2> QED BY <2>7, <2>8, <2>9 DEF IInv
<1>3. CASE ~(Left \in pressed /\ leftId[s] = NoId)
  <2>1. /\ down' = IF Left \in pressed THEN down \ {Left} ELSE down
        /\ UNCHANGED <<timers, leftId, due, repeatId>>
    BY <1>3
  <2> QED BY <1>0, <1>1, <2>1, ButtonStep
<1> QED BY <1>2, <1>3

\* A step of the threads that join changes the timers and what is due.
LEMMA JoinFrame ==
  ASSUME IInv, UNCHANGED <<running, go, input, sent>>,
         stage' \in [Sessions -> {"live", "ended", "repeat", "left", "reset", "joined"}],
         watch' \in [Sessions -> Ids \cup {NoId}],
         tasks' \in Seq(Queued),
         worker' \in {"awake", "none", "asleep", "until", "stopped"},
         DOMAIN timers' \subseteq Ids, timers' \in [DOMAIN timers' -> Task],
         due' \in Seq(Ids), IsInjective(due'), ToSet(due') \subseteq DOMAIN timers',
         \A i \in DOMAIN timers' : timers'[i].kind = "repeat" =>
           i \in DOMAIN timers /\ timers'[i] = timers[i]
  PROVE  IInv'
<1> USE DEF IInv, input
<1>1. tasks' \in Seq(Task)
  BY QueuedTask
<1>2. TypeOK'
  BY <1>1 DEF TypeOK
<1>3. RepeatInv' /\ HeldIsPressed'
  BY DEF RepeatInv, HeldIsPressed
<1> QED BY <1>2, <1>3

LEMMA SameType ==
  ASSUME IInv
  PROVE  /\ stage \in [Sessions -> {"live", "ended", "repeat", "left", "reset", "joined"}]
         /\ watch \in [Sessions -> Ids \cup {NoId}]
         /\ worker \in {"awake", "none", "asleep", "until", "stopped"}
         /\ Notified \in {"awake", "none", "asleep", "until", "stopped"}
         /\ tasks \in Seq(Queued) /\ \A t \in Queued : Append(tasks, t) \in Seq(Queued)
         /\ DOMAIN timers \subseteq Ids /\ timers \in [DOMAIN timers -> Task]
         /\ due \in Seq(Ids) /\ IsInjective(due) /\ ToSet(due) \subseteq DOMAIN timers
BY DEF IInv, TypeOK, RepeatInv, Notified

LEMMA SendStep == ASSUME IInv, NEW s \in Sessions, Send(s) PROVE IInv'
<1> USE DEF Send, push, joining
<1>1. PICK m \in Message(s) : push(m)
  OBVIOUS
<1>2. m \in Queued
  BY MessageQueued
<1>3. /\ tasks' = Append(tasks, m) /\ worker' = Notified
      /\ UNCHANGED <<timers, due, running, go, pressed, down, repeatId, leftId, stage, watch>>
      /\ sent' \in 0..MaxMessages
  BY <1>1, InputAssumption DEF IInv, TypeOK, input
<1> HIDE DEF Send, push
<1>4. tasks' \in Seq(Queued) /\ tasks' \in Seq(Task)
  BY <1>2, <1>3, SameType, QueuedTask
<1>5. TypeOK'
  BY <1>3, <1>4, SameType DEF IInv, TypeOK, ToSet, IsInjective
<1>6. RepeatInv' /\ HeldIsPressed'
  BY <1>3, <1>4 DEF IInv, RepeatInv, HeldIsPressed
<1> QED BY <1>5, <1>6 DEF IInv

LEMMA ControlEndStep == ASSUME IInv, NEW s \in Sessions, ControlEnd(s) PROVE IInv'
<1> USE DEF ControlEnd, pool
<1>1. stage' \in [Sessions -> {"live", "ended", "repeat", "left", "reset", "joined"}]
  BY SameType
<1>2. TypeOK'
  BY <1>1 DEF IInv, TypeOK, ToSet, IsInjective, input
<1>3. RepeatInv' /\ HeldIsPressed'
  BY DEF IInv, RepeatInv, HeldIsPressed, input
<1> QED BY <1>2, <1>3 DEF IInv

LEMMA JoinBeginsStep == ASSUME IInv, NEW s \in Sessions, JoinBegins(s) PROVE IInv'
<1> USE DEF JoinBegins
<1>1. PICK new \in Fresh({}) :
        timers' = With({}, new, Watchdog(s)) /\ watch' = [watch EXCEPT ![s] = new]
  OBVIOUS
<1>2. /\ worker' = Notified
      /\ UNCHANGED <<tasks, due, running, go, input, stage, sent>>
  OBVIOUS
<1> HIDE DEF JoinBegins
<1>3. /\ new \in Ids /\ new \notin DOMAIN timers
      /\ DOMAIN timers' = DOMAIN timers \cup {new} /\ timers'[new] = Watchdog(s)
      /\ DOMAIN timers' \subseteq Ids /\ timers' \in [DOMAIN timers' -> Task]
      /\ \A i \in DOMAIN timers : timers'[i] = timers[i]
  BY <1>1, AddType, Tasks
<1>4. watch' \in [Sessions -> Ids \cup {NoId}]
  BY <1>1, <1>3, SameType
<1>5. due' \in Seq(Ids) /\ IsInjective(due') /\ ToSet(due') \subseteq DOMAIN timers'
  BY <1>2, <1>3, SameType DEF IsInjective, ToSet
<1>6. \A i \in DOMAIN timers' : timers'[i].kind = "repeat" =>
        i \in DOMAIN timers /\ timers'[i] = timers[i]
  BY <1>3 DEF Watchdog
<1> QED BY <1>2, <1>3, <1>4, <1>5, <1>6, SameType, JoinFrame

\* Cancelling an address, whatever it names.
LEMMA CancelStep ==
  ASSUME IInv, NEW id, cancel(id), UNCHANGED <<input, sent>>,
         stage' \in [Sessions -> {"live", "ended", "repeat", "left", "reset", "joined"}],
         watch' \in [Sessions -> Ids \cup {NoId}]
  PROVE  IInv'
<1>1. /\ timers' = Without({id}) /\ due' = NotDue(id)
      /\ UNCHANGED <<tasks, worker, running, go>>
  BY DEF cancel
<1>2. /\ DOMAIN timers' = DOMAIN timers \ {id}
      /\ DOMAIN timers' \subseteq Ids /\ timers' \in [DOMAIN timers' -> Task]
      /\ \A i \in DOMAIN timers' : timers'[i] = timers[i]
  BY <1>1, WithoutType DEF IInv
<1>3. due' \in Seq(Ids) /\ IsInjective(due') /\ ToSet(due') \subseteq DOMAIN timers'
  BY <1>1, <1>2, SameType, NotDueType
<1> QED BY <1>1, <1>2, <1>3, SameType, JoinFrame

LEMMA ResetStep ==
  ASSUME IInv, NEW s \in Sessions,
         ResetRepeat(s) \/ ResetLeft(s) \/ ResetRelease(s) \/ JoinEnds(s)
  PROVE  IInv'
<1> USE SameType
<1>1. CASE ResetRepeat(s)
  <2>1. stage' \in [Sessions -> {"live", "ended", "repeat", "left", "reset", "joined"}]
    BY <1>1 DEF ResetRepeat, Step
  <2> QED BY <1>1, <2>1, CancelStep DEF ResetRepeat, Step
<1>2. CASE ResetLeft(s)
  <2>1. stage' \in [Sessions -> {"live", "ended", "repeat", "left", "reset", "joined"}]
    BY <1>2 DEF ResetLeft, Step
  <2> QED BY <1>2, <2>1, CancelStep DEF ResetLeft, Step
<1>3. CASE ResetRelease(s)
  <2>1. /\ stage' \in [Sessions -> {"live", "ended", "repeat", "left", "reset", "joined"}]
        /\ tasks' = Append(tasks, ReleaseAll(s)) /\ worker' = Notified
        /\ UNCHANGED <<timers, due, running, go, watch, input, sent>>
    BY <1>3 DEF ResetRelease, Step, push
  <2>2. tasks' \in Seq(Queued)
    BY <2>1, Tasks
  <2>3. due' \in Seq(Ids) /\ IsInjective(due') /\ ToSet(due') \subseteq DOMAIN timers'
    BY <2>1 DEF IsInjective, ToSet
  <2> QED BY <2>1, <2>2, <2>3, JoinFrame
<1>4. CASE JoinEnds(s)
  <2>1. /\ stage' \in [Sessions -> {"live", "ended", "repeat", "left", "reset", "joined"}]
        /\ watch' \in [Sessions -> Ids \cup {NoId}]
    BY <1>4 DEF JoinEnds, Step
  <2> QED BY <1>4, <2>1, CancelStep DEF JoinEnds, Step
<1> QED BY <1>1, <1>2, <1>3, <1>4

LEMMA NextInv == ASSUME IInv, [Next]_vars PROVE IInv'
<1>1. CASE \E i \in Ids : Due(i)
  BY <1>1, DueStep
<1>2. CASE PopTask \/ PopDue \/ PopNothing \/ Sleep \/ Stop
  BY <1>2, PopTaskStep, PopDueStep, IdleStep
<1>3. CASE Run
  BY <1>3, PressKeyStep, ReleaseKeyStep, RepeatKeyStep, PressLeftStep, ReleaseLeftStep,
     LateLeftStep, MoveStep, ReleaseStep DEF Run
<1>4. ASSUME NEW s \in Sessions, Send(s) \/ ControlEnd(s) \/ Join(s) PROVE IInv'
  BY <1>4, SendStep, ControlEndStep, JoinBeginsStep, ResetStep DEF Join
<1>5. CASE UNCHANGED vars
  BY <1>5, TypeFrame
<1> QED BY <1>1, <1>2, <1>3, <1>4, <1>5 DEF Next

LEMMA Invariance == Spec => []IInv
BY InitInv, NextInv, PTL DEF Spec

\* The state is of its type, for any number of addresses and messages.
THEOREM InputTypeOK == Spec => []TypeOK
BY Invariance, PTL DEF IInv

\* One key repeats at a time: a repetition that waits is the only one, whatever
\* addresses are reused and whenever sessions are reset.
THEOREM InputOneRepeat == Spec => []OneRepeat
<1>1. IInv => OneRepeat
  BY DEF IInv, RepeatInv, OneRepeat
<1> QED BY <1>1, Invariance, PTL

\* No repetition holds down a key that its client has released.
THEOREM InputHeldIsPressed == Spec => []HeldIsPressed
BY Invariance, PTL DEF IInv

-----------------------------------------------------------------------------
(* The releases, and the worker's sleep.                                      *)

FullInv == IInv /\ ReleaseInv /\ WorkerInv

LEMMA FullInit == Init => FullInv
<1> SUFFICES ASSUME Init PROVE FullInv
  OBVIOUS
<1>1. IInv
  BY InitInv
<1>2. ReleaseInv /\ WorkerInv
  BY DEF Init, ReleaseInv, WorkerInv, SleepsWithoutWork, Settled
<1> QED BY <1>1, <1>2 DEF FullInv

LEMMA FullFrame == FullInv /\ UNCHANGED vars => (ReleaseInv /\ WorkerInv)'
BY DEF FullInv, vars, ReleaseInv, WorkerInv, SleepsWithoutWork, Settled, Ready

LEMMA FullDue == ASSUME FullInv, NEW i \in Ids, Due(i) PROVE (ReleaseInv /\ WorkerInv)'
<1> USE DEF FullInv, Due, input, joining
<1>1. ReleaseInv'
  BY DEF ReleaseInv, Settled
<1>2. WorkerInv'
  BY DEF WorkerInv, SleepsWithoutWork, Ready
<1> QED BY <1>1, <1>2

\* Taking the last task of the queue: it runs, and it is the release if all are settled.
LEMMA FullPopTask == ASSUME FullInv, PopTask PROVE (ReleaseInv /\ WorkerInv)'
<1> USE DEF PopTask, input, joining
<1>1. WorkerInv'
  BY DEF FullInv, WorkerInv, SleepsWithoutWork, Ready
<1>2. tasks \in Seq(Queued) /\ tasks # <<>>
  BY DEF FullInv, IInv, RepeatInv
<1>3. Len(tasks) \in Nat \ {0} /\ Len(tasks') = Len(tasks) - 1
  BY <1>2
<1>4. CASE Len(tasks) = 1
  <2>1. tasks' = <<>> /\ running'.task = tasks[Len(tasks)]
    BY <1>2, <1>3, <1>4
  <2>2. Head(tasks) \in Task
    BY <1>2, QueuedTask
  <2>3. running' # NoTask
    BY <2>2, InputAssumption
  <2> QED BY <1>1, <1>2, <2>1, <2>3 DEF FullInv, ReleaseInv, Settled
<1>5. CASE Len(tasks) # 1
  <2>1. Len(tasks') \in 1..(Len(tasks) - 1) /\ tasks' = Tail(tasks)
    BY <1>3, <1>5
  <2>2. \A k \in 1..(Len(tasks) - 1) : tasks'[k] = tasks[k + 1]
    BY <1>2, <2>1
  <2>3. tasks'[Len(tasks')] = tasks[Len(tasks)] /\ tasks' # <<>>
    BY <1>3, <2>1, <2>2
  <2> QED BY <1>1, <1>2, <2>3 DEF FullInv, ReleaseInv, Settled
<1> QED BY <1>4, <1>5

LEMMA FullPopDue == ASSUME FullInv, PopDue PROVE (ReleaseInv /\ WorkerInv)'
<1> USE DEF PopDue, input, joining
<1>1. Head(due) \in DOMAIN timers
  BY DEF FullInv, IInv, TypeOK, ToSet
<1>2. /\ running' = [task |-> timers[Head(due)], id |-> Head(due)]
      /\ timers' = Without({Head(due)}) /\ tasks = <<>> /\ tasks' = <<>>
      /\ running = NoTask /\ UNCHANGED <<worker, go, pressed, stage>> /\ worker = "awake"
  OBVIOUS
<1>3. \A i \in DOMAIN timers' : i \in DOMAIN timers /\ timers'[i] = timers[i]
  BY <1>2 DEF Without
<1>4. running'.task.kind # "press"
  BY <1>1, <1>2 DEF FullInv, ReleaseInv
<1>5. ReleaseInv'
  BY <1>2, <1>3, <1>4 DEF FullInv, ReleaseInv, Settled
<1>6. WorkerInv'
  BY <1>2 DEF FullInv, WorkerInv, SleepsWithoutWork
<1> QED BY <1>5, <1>6

LEMMA FullIdle == ASSUME FullInv, PopNothing \/ Sleep \/ Stop PROVE (ReleaseInv /\ WorkerInv)'
<1> USE DEF PopNothing, Sleep, Stop, Notified, input, joining
<1>1. UNCHANGED <<tasks, timers, due, running, pressed, stage>>
  OBVIOUS
<1>2. ReleaseInv'
  BY <1>1 DEF FullInv, ReleaseInv, Settled
<1>3. WorkerInv'
  <2> USE DEF FullInv, WorkerInv, SleepsWithoutWork, Ready
  <2>1. CASE PopNothing
    BY <2>1
  <2>2. CASE Sleep
    BY <2>2
  <2>3. CASE Stop
    BY <2>3
  <2> QED BY <2>1, <2>2, <2>3
<1> QED BY <1>2, <1>3

\* A task runs: the worker is awake, the queue stays, only a press adds to what is
\* pressed, and the delayed tasks that it adds press nothing for the first time.
LEMMA RunFrame ==
  ASSUME FullInv, NEW k, Runs(k), Same,
         \A i \in DOMAIN timers' : timers'[i].kind # "press",
         pressed' \subseteq pressed \/ k = "press", k = "all" => pressed' = {}
  PROVE  (ReleaseInv /\ WorkerInv)'
<1> USE DEF Same, joining, FullInv
<1>1. /\ running # NoTask /\ running.task.kind = k /\ running' = NoTask
      /\ UNCHANGED <<tasks, worker, go, stage>>
  BY DEF Runs
<1>2. ReleaseInv'
  BY <1>1 DEF ReleaseInv, Settled
<1>3. WorkerInv'
  BY <1>1 DEF WorkerInv, SleepsWithoutWork
<1> QED BY <1>2, <1>3

LEMMA FullRun == ASSUME FullInv, Run PROVE (ReleaseInv /\ WorkerInv)'
<1>0. \A i \in DOMAIN timers : timers[i].kind # "press"
  BY DEF FullInv, ReleaseInv
<1>1. CASE PressKey
  <2> DEFINE new == repeatId'
  <2>1. \/ timers' = timers
        \/ timers' = With({repeatId}, new, Repeat(running.task.on, running.task.of))
    BY <1>1 DEF PressKey, input
  <2>2. \A i \in DOMAIN timers' : timers'[i].kind # "press"
    BY <1>0, <2>1 DEF With, Repeat
  <2> QED BY <1>1, <2>2, RunFrame DEF PressKey
<1>2. CASE RepeatKey
  <2>1. running.task.kind = "repeat"
    BY <1>2 DEF RepeatKey, Runs
  <2>2. timers' = timers \/ timers' = With({}, repeatId', running.task)
    BY <1>2 DEF RepeatKey
  <2>3. \A i \in DOMAIN timers' : timers'[i].kind # "press"
    BY <1>0, <2>1, <2>2 DEF With
  <2> QED BY <1>2, <2>3, RunFrame DEF RepeatKey
<1>3. CASE ReleaseLeft
  <2>1. timers' = timers \/ \E new : timers' = With({}, new, Delayed(running.task.of))
    BY <1>3 DEF ReleaseLeft
  <2>2. \A i \in DOMAIN timers' : timers'[i].kind # "press"
    <3>1. CASE timers' = timers
      BY <1>0, <3>1
    <3>2. ASSUME NEW new, timers' = With({}, new, Delayed(running.task.of))
          PROVE  \A i \in DOMAIN timers' : timers'[i].kind # "press"
      BY <1>0, <3>2 DEF With, Delayed
    <3> QED BY <2>1, <3>1, <3>2
  <2> QED BY <1>3, <2>2, RunFrame DEF ReleaseLeft
<1>4. CASE ReleaseKey
  BY <1>0, <1>4, RunFrame DEF ReleaseKey
<1>5. CASE PressLeft
  BY <1>0, <1>5, RunFrame DEF PressLeft
<1>6. CASE LateLeft
  BY <1>0, <1>6, RunFrame DEF LateLeft
<1>7. CASE Move
  <2>1. timers' = timers /\ pressed' = pressed /\ Same
    BY <1>7 DEF Move
  <2>2. Runs("rel") \/ Runs("abs")
    BY <1>7 DEF Move
  <2> QED BY <1>0, <2>1, <2>2, RunFrame
<1>8. CASE Release
  BY <1>0, <1>8, RunFrame DEF Release
<1> QED BY <1>1, <1>2, <1>3, <1>4, <1>5, <1>6, <1>7, <1>8 DEF Run

\* A message comes while its session is live, so that neither all are settled nor
\* is the pool stopped.
LEMMA FullSend == ASSUME FullInv, NEW s \in Sessions, Send(s) PROVE (ReleaseInv /\ WorkerInv)'
<1>1. PICK m \in Message(s) : push(m)
  BY DEF Send
<1>2. /\ tasks' = Append(tasks, m) /\ worker' = Notified /\ stage[s] = "live"
      /\ UNCHANGED <<timers, due, running, go, pressed, stage>>
  BY <1>1 DEF Send, push, input, joining
<1>3. ~Settled /\ ~Settled' /\ go /\ stage[s] # "joined"
  BY <1>2 DEF FullInv, WorkerInv, Settled
<1>4. ReleaseInv'
  BY <1>2, <1>3 DEF FullInv, ReleaseInv
<1>5. WorkerInv'
  BY <1>2, <1>3 DEF FullInv, WorkerInv, SleepsWithoutWork, Notified
<1> QED BY <1>4, <1>5

LEMMA FullControlEnd ==
  ASSUME FullInv, NEW s \in Sessions, ControlEnd(s) PROVE (ReleaseInv /\ WorkerInv)'
<1>1. /\ stage \in [Sessions -> {"live", "ended", "repeat", "left", "reset", "joined"}]
      /\ stage[s] = "live" /\ stage' = [stage EXCEPT ![s] = "ended"]
      /\ UNCHANGED <<tasks, timers, due, worker, running, go, pressed>>
  BY DEF FullInv, IInv, TypeOK, ControlEnd, pool, input
<1>2. ~Settled' /\ go
  BY <1>1 DEF FullInv, WorkerInv, Settled
<1>3. ReleaseInv'
  BY <1>1, <1>2 DEF FullInv, ReleaseInv
<1>4. WorkerInv'
  BY <1>1, <1>2 DEF FullInv, WorkerInv, SleepsWithoutWork, Ready
<1> QED BY <1>3, <1>4

LEMMA FullJoinBegins ==
  ASSUME FullInv, NEW s \in Sessions, JoinBegins(s) PROVE (ReleaseInv /\ WorkerInv)'
<1>1. PICK new \in Ids : timers' = With({}, new, Watchdog(s))
  BY FreshIsFree DEF JoinBegins
<1>2. /\ worker' = Notified /\ stage[s] # "joined"
      /\ UNCHANGED <<tasks, due, running, go, pressed, stage>>
  BY DEF JoinBegins, input
<1>3. \A i \in DOMAIN timers' : timers'[i].kind # "press"
  BY <1>1 DEF FullInv, ReleaseInv, With, Watchdog
<1>4. ReleaseInv'
  BY <1>2, <1>3 DEF FullInv, ReleaseInv, Settled
<1>5. WorkerInv'
  BY <1>2 DEF FullInv, WorkerInv, SleepsWithoutWork, Notified
<1> QED BY <1>4, <1>5

\* A cancellation leaves fewer delayed tasks.
LEMMA FullCancel ==
  ASSUME FullInv, NEW id, cancel(id), UNCHANGED input, NEW s \in Sessions,
         NEW from, NEW to, Step(s, from, to),
         <<from, to>> \in {<<"ended", "repeat">>, <<"repeat", "left">>, <<"reset", "joined">>}
  PROVE  (ReleaseInv /\ WorkerInv)'
<1>1. /\ stage \in [Sessions -> {"live", "ended", "repeat", "left", "reset", "joined"}]
      /\ stage[s] = from /\ stage' = [stage EXCEPT ![s] = to]
      /\ UNCHANGED <<tasks, worker, running, go, pressed>>
  BY DEF FullInv, IInv, TypeOK, Step, cancel, input
<1>2. /\ DOMAIN timers' \subseteq DOMAIN timers
      /\ \A i \in DOMAIN timers' : timers'[i] = timers[i]
  BY DEF cancel, Without
<1>3. due = <<>> => due' = <<>>
  BY DEF cancel, NotDue, ToSet
<1>4. Settled' => Settled
  BY <1>1 DEF Settled
<1>5. ReleaseInv'
  BY <1>1, <1>2, <1>4 DEF FullInv, ReleaseInv
<1>6. (\A r \in Sessions : stage[r] = "joined") => \A r \in Sessions : stage'[r] = "joined"
  BY <1>1
<1>7. WorkerInv'
  BY <1>1, <1>2, <1>3, <1>6 DEF FullInv, WorkerInv, SleepsWithoutWork, Ready
<1> QED BY <1>5, <1>7

LEMMA FullReset ==
  ASSUME FullInv, NEW s \in Sessions,
         ResetRepeat(s) \/ ResetLeft(s) \/ ResetRelease(s) \/ JoinEnds(s)
  PROVE  (ReleaseInv /\ WorkerInv)'
<1>1. CASE ResetRepeat(s)
  BY <1>1, FullCancel DEF ResetRepeat, Step
<1>2. CASE ResetLeft(s)
  BY <1>2, FullCancel DEF ResetLeft, Step
<1>3. CASE JoinEnds(s)
  BY <1>3, FullCancel DEF JoinEnds, Step
<1>4. CASE ResetRelease(s)
  <2>1. /\ tasks' = Append(tasks, ReleaseAll(s)) /\ worker' = Notified
        /\ stage[s] = "left" /\ stage' = [stage EXCEPT ![s] = "reset"]
        /\ UNCHANGED <<timers, due, running, go, pressed>>
    BY <1>4 DEF ResetRelease, Step, push, input
  <2>2. tasks \in Seq(Queued) /\ ReleaseAll(s) \in Queued
    BY Tasks DEF FullInv, IInv, RepeatInv
  <2>3. tasks' # <<>> /\ tasks'[Len(tasks')] = ReleaseAll(s)
    BY <2>1, <2>2
  <2>4. ReleaseInv'
    BY <2>1, <2>3 DEF FullInv, ReleaseInv, ReleaseAll
  <2>5. go
    BY <2>1 DEF FullInv, WorkerInv
  <2>6. WorkerInv'
    BY <2>1, <2>5 DEF FullInv, WorkerInv, SleepsWithoutWork, Notified
  <2> QED BY <2>4, <2>6
<1> QED BY <1>1, <1>2, <1>3, <1>4

LEMMA FullNext == ASSUME FullInv, [Next]_vars PROVE FullInv'
<1>0. IInv'
  BY NextInv DEF FullInv
<1>1. CASE \E i \in Ids : Due(i)
  BY <1>0, <1>1, FullDue DEF FullInv
<1>2. CASE PopTask \/ PopDue \/ PopNothing \/ Sleep \/ Stop
  BY <1>0, <1>2, FullPopTask, FullPopDue, FullIdle DEF FullInv
<1>3. CASE Run
  BY <1>0, <1>3, FullRun DEF FullInv
<1>4. ASSUME NEW s \in Sessions, Send(s) \/ ControlEnd(s) \/ Join(s) PROVE FullInv'
  BY <1>0, <1>4, FullSend, FullControlEnd, FullJoinBegins, FullReset DEF Join, FullInv
<1>5. CASE UNCHANGED vars
  BY <1>0, <1>5, FullFrame DEF FullInv
<1> QED BY <1>1, <1>2, <1>3, <1>4, <1>5 DEF Next

LEMMA FullInvariance == Spec => []FullInv
BY FullInit, FullNext, PTL DEF Spec

\* The worker never sleeps over work, and leaves only once the queue is empty.
THEOREM InputSleepsWithoutWork == Spec => []SleepsWithoutWork
<1>1. FullInv => SleepsWithoutWork
  BY DEF FullInv, WorkerInv
<1> QED BY <1>1, FullInvariance, PTL

\* When all releases are queued and all that is queued has run, no key is down,
\* however the messages, the repetitions and the resets interleaved.
THEOREM InputReleasedInTheEnd == Spec => []ReleasedInTheEnd
<1>1. FullInv => ReleasedInTheEnd
  BY DEF FullInv, IInv, ReleaseInv, Settled, ReleasedInTheEnd, HeldIsPressed
<1> QED BY <1>1, FullInvariance, PTL
=============================================================================
