---------------------------- MODULE DisplaySession ----------------------------
(****************************************************************************)
(* The display settings of a stream: who changes them, who puts them back.  *)
(*                                                                          *)
(* session_t (src/src/display_device/session.cpp) applies a request before  *)
(* a stream and restores the user's layout after it, both under its mutex.  *)
(* What Windows refuses (a locked desktop, no access to the CCD API) is left*)
(* to two background workers: the retry timer (state_retry_timer.h), whose  *)
(* callback runs under the same mutex, and the listener's worker            *)
(* (session_listener.cpp), which runs a task once the desktop is unlocked.  *)
(* settings_t keeps a snapshot of the user's layout in memory and in a file.*)
(*                                                                          *)
(* A call that holds the mutex is one step, except where it looks at        *)
(* something the mutex does not protect and acts on it later: there the     *)
(* mutex stays held, "holder" says what for, and the rest is another step.  *)
(* The generation that a callback captured is only ever compared with the   *)
(* current one: a callback is "current" until the generation is next raised.*)
(****************************************************************************)
EXTENDS Naturals, Sequences

CONSTANTS
  Requests,         \* what streams ask of the display; also the layouts they get
  VddRequests,      \* those that need the virtual display
  Offers,           \* the sets of requests that the clients of one host may make
  Orig, Other,      \* the user's layout; one that nobody asked for
  Extended,         \* what Windows shows when the virtual display arrives
  NoSnap,           \* no snapshot
  Void,             \* a snapshot of the virtual display alone, which restores nothing
  MaxRetries,       \* start_polling_restore's limit, 20 in the code
  MaxTasks          \* bound on the tasks that wait for an unlock or the worker

Layouts == Requests \cup {Orig, Other, Extended}
VddLayouts == VddRequests \cup {Extended}
Physical == Layouts \ VddLayouts
Snapshots == Physical \cup {NoSnap, Void}

ASSUME DisplayAssumption ==
  /\ VddRequests \subseteq Requests
  /\ Offers \subseteq SUBSET Requests
  /\ {Orig, Other, Extended} \cap Requests = {}
  /\ Orig # Other /\ Extended \notin {Orig, Other}
  /\ {NoSnap, Void} \cap Layouts = {} /\ NoSnap # Void
  /\ MaxRetries \in Nat \ {0} /\ MaxTasks \in Nat \ {0}

VARIABLES
  d,       \* session_t, settings_t, the timer, the listener and the display
  up,      \* the process runs
  helper,  \* config::video.display_session_helper, read when the process starts
  offered, \* what the clients of this host ask for
  locked,  \* the desktop is locked
  event,   \* WTS_SESSION_UNLOCK is on its way to the listener's window
  host,    \* where the requests of the clients stand
  app,     \* an application runs
  home,    \* history: the user's layout, NoSnap once he took over by a reset
  killed   \* history: the process ended with the display not restored

vars == <<d, up, helper, offered, locked, event, host, app, home, killed>>

-----------------------------------------------------------------------------
(* The state behind the mutex, and what is in the hands of the workers.     *)

Task == {"current", "stale"}

\* What the retry timer holds: nothing, a deferred apply, a polled restore.
Timer == [kind : {"none"}]
         \cup [kind : {"apply"}, gen : Task, request : Requests, pre : Snapshots]
         \cup [kind : {"restore"}, gen : Task, tries : 0..MaxRetries]

NoTimer == [kind |-> "none"]

Display ==
  [shown : Layouts,                             \* what Windows shows
   base : Physical,                             \* and without the virtual display
   vdd : BOOLEAN,                               \* the virtual display exists
   file : Snapshots,                            \* original_display_settings.json
   saved : Snapshots,                           \* settings_t::persistent_data
   use_vdd : {"none", "vdd", "physical"},       \* current_use_vdd
   pre : Snapshots,                             \* pending_vdd_.initial_topology
   pending : BOOLEAN,                           \* pending_restore_
   timer : Timer,
   waiting : Task \cup {"none"},                \* pending_task_
   queue : Seq(Task),                           \* task_queue_
   running : Task \cup {"none"},                \* the task the worker has taken
   \* What session_t's mutex is held for between two steps.
   holder : {"free", "add_locked", "add_unlocked", "task", "poll", "apply"}]

\* Windows shows layout l.
Show(x, l) == [x EXCEPT !.shown = l, !.base = IF l \in VddLayouts THEN @ ELSE l]

Outdated(t) == IF t = "none" THEN "none" ELSE "stale"

\* The three statements that begin configure_display and restore_state_impl:
\* raise the generation, drop the task that waits for an unlock, disarm.
Invalidated(x) ==
  [x EXCEPT !.waiting = "none", !.timer = NoTimer,
            !.queue = [i \in DOMAIN x.queue |-> "stale"],
            !.running = Outdated(x.running)]

cancel_pending_display_retry(x) == [Invalidated(x) EXCEPT !.pending = FALSE]

stop_timer_and_clear_vdd_state(x) ==
  [cancel_pending_display_retry(x) EXCEPT !.use_vdd = "none", !.pre = NoSnap]

\* is_changing_settings_going_to_fail answers no: on a locked desktop only when
\* the helper makes the changes.  It may answer yes at any time.
MayAccept == helper \/ ~locked

-----------------------------------------------------------------------------
(* settings_t.                                                              *)

\* revert_settings: the snapshot in memory, or else the file's.
Snapshot(x) == IF x.saved = NoSnap THEN x.file ELSE x.saved

Reverted(x) ==
  [Show(x, IF Snapshot(x) \in Physical THEN Snapshot(x) ELSE x.shown)
     EXCEPT !.saved = NoSnap, !.file = NoSnap]

\* It failed, perhaps after it had changed something, and keeps the snapshot.
NotReverted(x) ==
  {[Show(x, l) EXCEPT !.saved = Snapshot(x)] : l \in {x.shown, IF x.vdd THEN Extended ELSE Other}}

\* The layout that a first snapshot takes down: the one saved before the virtual
\* display was created; otherwise what is shown, the virtual display left out.
\* Where nothing else is left, a request that needs it is not recorded.
Initial(x, r, pre) ==
  IF pre # NoSnap THEN pre
  ELSE IF x.shown \notin VddRequests THEN x.base
  ELSE IF r \in VddRequests THEN NoSnap ELSE Void

\* Mutation of Applied: every request takes a snapshot of its own.
MutApplied(x, r, l, pre) ==
  LET snap == Initial(x, r, pre) IN [Show(x, l) EXCEPT !.saved = snap, !.file = snap]

\* apply_config for r has put layout l on the display.  The first snapshot is
\* kept; one without a modification is not taken, or is let go.
Applied(x, r, l, pre) ==
  LET first == IF Initial(x, r, pre) = l THEN NoSnap ELSE Initial(x, r, pre)
      snap == IF x.saved = NoSnap THEN first ELSE x.saved IN
  IF x.saved = r /\ l = r THEN Reverted(x)
  ELSE [Show(x, l) EXCEPT !.saved = snap, !.file = IF snap = NoSnap THEN @ ELSE snap]

\* What apply_config may start from: a physical request whose topology is not
\* that of the last one first reverts to the snapshot.
Switched(x, r) ==
  {x} \cup IF r \in VddRequests \/ x.saved = NoSnap THEN {} ELSE {Reverted(x)}

\* The layouts that a change to r may have reached when it fails.
Partly(x, r) == {x.shown, r, IF r \in VddRequests THEN Extended ELSE Other}

\* Where apply_config fails: the revert before it, some change, or the saving
\* of the file after the changes.
ApplyFailed(x, r, pre) ==
  (IF r \in VddRequests \/ x.saved = NoSnap THEN {} ELSE NotReverted(x))
  \cup (UNION {{Applied(y, r, l, pre) : l \in Partly(y, r)} : y \in Switched(x, r)})
  \cup {[Applied(y, r, r, pre) EXCEPT !.file = y.file] :
           y \in {w \in Switched(x, r) : Applied(w, r, r, pre).saved # NoSnap}}

ApplySucceeded(x, r, pre) ==
  {[Applied(y, r, r, pre) EXCEPT !.pre = NoSnap, !.timer = NoTimer] : y \in Switched(x, r)}

\* The virtual display goes, and Windows shows the other displays as before.
Destroyed(x) == Show([x EXCEPT !.vdd = FALSE], IF x.shown \in VddLayouts THEN x.base ELSE x.shown)

-----------------------------------------------------------------------------
(* session_t.                                                               *)

\* Mutation of Restored: the snapshot that could not be restored is let go.
MutRestored(x) ==
  LET y == Destroyed(Invalidated(x)) IN
  IF y.use_vdd = "none" \/ y.saved = NoSnap
  THEN {stop_timer_and_clear_vdd_state(y)}
  ELSE {stop_timer_and_clear_vdd_state([z EXCEPT !.saved = NoSnap]) :
          z \in {y} \cup IF MayAccept THEN {Reverted(y)} \cup NotReverted(y) ELSE {}}

\* restore_state_impl: the states it may leave.  Without a configured session
\* or a snapshot in memory only the virtual display is cleaned up.  When the
\* layout cannot be restored now, add_unlock_task samples the lock and adds.
Restored(x) ==
  LET y == Destroyed(Invalidated(x)) IN
  IF y.use_vdd = "none" \/ y.saved = NoSnap
  THEN {stop_timer_and_clear_vdd_state(y)}
  ELSE (IF MayAccept THEN {stop_timer_and_clear_vdd_state(Reverted(y))} ELSE {})
       \cup {[z EXCEPT !.pending = TRUE,
                       !.holder = IF locked THEN "add_locked" ELSE "add_unlocked"] :
               z \in {y} \cup IF MayAccept THEN NotReverted(y) ELSE {}}

\* The virtual display that r needs: the layout before its creation is kept
\* for the snapshot, unless a snapshot is still to be restored.
Prepared(x, r) ==
  IF r \notin VddRequests THEN {x}
  ELSE LET y == IF x.pending /\ x.saved # NoSnap THEN cancel_pending_display_retry(x)
                ELSE IF x.vdd THEN x ELSE [x EXCEPT !.pre = x.shown] IN
       {[Show(y, l) EXCEPT !.vdd = TRUE] : l \in {x.shown, Extended}}

\* The settings are applied at once: the display stage or apply_config fails
\* and is undone, or the modes are refused and the caller decides, or success.
Changed(x, r) ==
  Restored(x)
  \cup (UNION {Restored(y) : y \in ApplyFailed(x, r, x.pre)})
  \cup ApplyFailed(x, r, x.pre)
  \cup ApplySucceeded(x, r, x.pre)

\* The request becomes the session's, and Windows lets it be applied or not:
\* then the stream starts without it and the timer is to apply it later.
Settled(x, r) ==
  LET y == [x EXCEPT !.use_vdd = IF r \in VddRequests THEN "vdd" ELSE "physical"] IN
  (IF MayAccept THEN Changed(cancel_pending_display_retry(y), r) ELSE {})
  \cup (IF helper THEN Restored(y)
        ELSE {[y EXCEPT !.timer = [kind |-> "apply", gen |-> "current",
                                   request |-> r, pre |-> y.pre]]})

\* configure_display: the states it may leave.  The configuration may not parse,
\* the driver or the console may be unusable, the virtual display may fail.
Configured(x, r, newcomer) ==
  LET y == IF newcomer /\ x.vdd THEN cancel_pending_display_retry(x) ELSE Invalidated(x) IN
  Restored(y) \cup {y}
  \cup UNION {Restored(z) \cup Settled(z, r) : z \in Prepared(y, r)}

-----------------------------------------------------------------------------
(* The callers: the launch and resume handlers, the last video session's    *)
(* join, the completion of /cancel, the control thread, the web interface.  *)

MutexFree == up /\ d.holder = "free"

\* Bound: as many unlock tasks as MaxTasks are on their way.
Room == Len(d.queue) + (IF d.waiting = "none" THEN 0 ELSE 1) < MaxTasks

Called == MutexFree /\ Room

\* Mutation of busy: a request counts only once its ticket is published.
MutBusy == host = "streaming"

\* session_starting_or_active: a preparation, a ticket or a session.
busy == host \in {"preparing", "configured", "streaming"}

\* A launch, or the resume of the running application, takes its preparation
\* guard and finds no session.
BeginRequest ==
  /\ up /\ host = "rest"
  /\ host' = "preparing"
  /\ UNCHANGED <<d, up, helper, offered, locked, event, app, home, killed>>

\* Its display is configured; the recovery of a failed one configures again.
ConfigureDisplay(r, newcomer) ==
  /\ Called /\ host \in {"preparing", "configured"}
  /\ r \in offered /\ (newcomer => app)
  /\ d' \in Configured(d, r, newcomer)
  /\ host' = "configured"
  /\ UNCHANGED <<up, helper, offered, locked, event, app, home, killed>>

\* The recovery gives the display back and tries without it.
RecoverDisplay ==
  /\ Called /\ host = "configured"
  /\ d' \in Restored(d)
  /\ UNCHANGED <<up, helper, offered, locked, event, host, app, home, killed>>

\* The ticket is registered; the stream follows.
PublishTicket ==
  /\ up /\ host = "configured" /\ d.holder \notin {"add_locked", "add_unlocked"}
  /\ host' = "streaming" /\ app' = TRUE
  /\ UNCHANGED <<d, up, helper, offered, locked, event, home, killed>>

\* The request is refused and its preparation ends.  A launch, or a resume that
\* got past the display, restores it in its fail guard; else nothing does.
RefuseRequest ==
  /\ up /\ host = "configured" /\ d.holder \notin {"add_locked", "add_unlocked"}
  /\ host' \in {"refused"} \cup IF app THEN {"rest"} ELSE {}
  /\ UNCHANGED <<d, up, helper, offered, locked, event, app, home, killed>>

RefusalRestores ==
  /\ Called /\ host = "refused"
  /\ d' \in Restored(d)
  /\ host' = "rest"
  /\ UNCHANGED <<up, helper, offered, locked, event, app, home, killed>>

\* The control thread of a stream is asked for another resolution.
ReconfigureDisplay(r) ==
  /\ Called /\ host = "streaming" /\ r \in offered
  /\ d' \in Configured(d, r, FALSE)
  /\ UNCHANGED <<up, helper, offered, locked, event, host, app, home, killed>>

\* The last video session has left; its join restores the display unless the
\* application is still there to be resumed.
SessionsEnd ==
  /\ up /\ host = "streaming"
  /\ d.holder \notin {"add_locked", "add_unlocked"}
  /\ host' = IF app THEN "rest" ELSE "refused"
  /\ UNCHANGED <<d, up, helper, offered, locked, event, app, home, killed>>

\* The application exits by itself, or the completion of /cancel ends it.
AppExits ==
  /\ up /\ app
  /\ app' = FALSE
  /\ UNCHANGED <<d, up, helper, offered, locked, event, host, home, killed>>

\* The completion of /cancel.  It has ended the sessions and the application, but
\* the next request may be anywhere by now.
Cancel ==
  /\ Called
  /\ d' \in Restored(d)
  /\ UNCHANGED <<up, helper, offered, locked, event, host, app, home, killed>>

\* Mutation of ResetPersistence: the retry of the restore goes on.
MutResetPersistence ==
  /\ MutexFree
  /\ d' = [d EXCEPT !.saved = NoSnap, !.file = NoSnap]
  /\ home' = NoSnap
  /\ UNCHANGED <<up, helper, offered, locked, event, host, app, killed>>

\* The user gives up the snapshot, which is tried one last time.
ResetPersistence ==
  /\ MutexFree
  /\ \E x \in {d} \cup (IF d.saved = NoSnap THEN {}
                        ELSE {Reverted(d), Reverted(Destroyed(d))} \cup NotReverted(d)) :
        d' = stop_timer_and_clear_vdd_state([x EXCEPT !.saved = NoSnap, !.file = NoSnap])
  /\ home' = NoSnap
  /\ UNCHANGED <<up, helper, offered, locked, event, host, app, killed>>

-----------------------------------------------------------------------------
(* The desktop and the listener.                                            *)

Lock ==
  /\ ~locked /\ ~event
  /\ locked' = TRUE
  /\ UNCHANGED <<d, up, helper, offered, event, host, app, home, killed>>

Unlock ==
  /\ locked
  /\ locked' = FALSE /\ event' = TRUE
  /\ UNCHANGED <<d, up, helper, offered, host, app, home, killed>>

\* window_proc moves the waiting task to the worker.
HandleUnlock ==
  /\ event /\ event' = FALSE
  /\ d' = IF d.waiting = "none" THEN d
          ELSE [d EXCEPT !.queue = Append(@, d.waiting), !.waiting = "none"]
  /\ UNCHANGED <<up, helper, offered, locked, host, app, home, killed>>

\* The second half of add_unlock_task, by the lock as it was sampled.
AddUnlockTask ==
  /\ up /\ d.holder \in {"add_locked", "add_unlocked"}
  /\ d' = IF d.holder = "add_locked"
          THEN [d EXCEPT !.waiting = "current", !.holder = "free"]
          ELSE [d EXCEPT !.queue = Append(@, "current"), !.holder = "free"]
  /\ UNCHANGED <<up, helper, offered, locked, event, host, app, home, killed>>

\* worker_loop takes a task, and runs it outside its lock.
TakeTask ==
  /\ up /\ d.running = "none" /\ d.queue # <<>>
  /\ d' = [d EXCEPT !.running = Head(d.queue), !.queue = Tail(d.queue)]
  /\ UNCHANGED <<up, helper, offered, locked, event, host, app, home, killed>>

start_polling_restore(x) ==
  [x EXCEPT !.timer = [kind |-> "restore", gen |-> "current", tries |-> 0]]

\* The task of restore_state_impl begins: it is out of date, or leaves the
\* restore to the timer because of a stream, or goes on to restore.
RunTask ==
  /\ MutexFree /\ d.running # "none"
  /\ d' = LET x == [d EXCEPT !.running = "none"] IN
          IF ~d.pending \/ d.running = "stale" THEN x
          ELSE IF busy THEN start_polling_restore(x)
          ELSE [x EXCEPT !.holder = "task"]
  /\ UNCHANGED <<up, helper, offered, locked, event, host, app, home, killed>>

FinishTask ==
  /\ up /\ d.holder = "task"
  /\ \/ MayAccept /\ d' = [stop_timer_and_clear_vdd_state(Reverted(d)) EXCEPT !.holder = "free"]
     \/ \E x \in {d} \cup IF MayAccept THEN NotReverted(d) ELSE {} :
          d' = [start_polling_restore(x) EXCEPT !.holder = "free"]
  /\ UNCHANGED <<up, helper, offered, locked, event, host, app, home, killed>>

-----------------------------------------------------------------------------
(* The retry timer, whose thread holds the mutex when a deadline is reached.*)

\* The polled restore begins: it is out of date, or a try is counted.  A try
\* that finds a stream changes nothing.
FirePoll ==
  /\ MutexFree /\ d.timer.kind = "restore"
  /\ d' = IF ~d.pending \/ d.timer.gen = "stale" THEN [d EXCEPT !.timer = NoTimer]
          ELSE IF busy THEN d
          ELSE [d EXCEPT !.holder = "poll", !.timer.tries = @ + 1]
  /\ UNCHANGED <<up, helper, offered, locked, event, host, app, home, killed>>

\* Mutation of FinishPoll: one try too many.
MutFinishPollOften ==
  /\ up /\ d.holder = "poll"
  /\ \/ MayAccept /\ d' = [stop_timer_and_clear_vdd_state(Reverted(d)) EXCEPT !.holder = "free"]
     \/ \E x \in {d} \cup IF MayAccept THEN NotReverted(d) ELSE {} :
          d' = [x EXCEPT !.holder = "free",
                         !.timer = IF @.tries > MaxRetries THEN NoTimer ELSE @]
  /\ UNCHANGED <<up, helper, offered, locked, event, host, app, home, killed>>

\* Mutation of FinishPoll: the limit is compared with, but never reached.
MutFinishPoll ==
  /\ up /\ d.holder = "poll"
  /\ \/ MayAccept /\ d' = [stop_timer_and_clear_vdd_state(Reverted(d)) EXCEPT !.holder = "free"]
     \/ \E x \in {d} \cup IF MayAccept THEN NotReverted(d) ELSE {} :
          d' = [x EXCEPT !.holder = "free", !.timer.tries = 0]
  /\ UNCHANGED <<up, helper, offered, locked, event, host, app, home, killed>>

\* It restores, or fails and is tried again, or has been tried often enough.
FinishPoll ==
  /\ up /\ d.holder = "poll"
  /\ \/ MayAccept /\ d' = [stop_timer_and_clear_vdd_state(Reverted(d)) EXCEPT !.holder = "free"]
     \/ \E x \in {d} \cup IF MayAccept THEN NotReverted(d) ELSE {} :
          d' = [x EXCEPT !.holder = "free",
                         !.timer = IF @.tries >= MaxRetries THEN NoTimer ELSE @]
  /\ UNCHANGED <<up, helper, offered, locked, event, host, app, home, killed>>

\* The deferred apply begins, if Windows accepts changes: it is out of date or
\* gives way to a stream, for good, or goes on to apply.
FireApply ==
  /\ MutexFree /\ Room /\ d.timer.kind = "apply" /\ MayAccept
  /\ d' = IF d.timer.gen = "stale" \/ busy THEN [d EXCEPT !.timer = NoTimer]
          ELSE [d EXCEPT !.holder = "apply"]
  /\ UNCHANGED <<up, helper, offered, locked, event, host, app, home, killed>>

\* The display stage fails and is tried again later; or the settings are
\* refused and undone; or they are applied.
FinishApply ==
  /\ up /\ d.holder = "apply"
  /\ LET r == d.timer.request
         x == [d EXCEPT !.holder = "free"] IN
     \/ r \in VddRequests /\ \E l \in Partly(x, r) : d' = Show(x, l)
     \/ \E y \in ApplyFailed(x, r, d.timer.pre) : d' \in Restored(y)
     \/ d' \in ApplySucceeded(x, r, d.timer.pre)
  /\ UNCHANGED <<up, helper, offered, locked, event, host, app, home, killed>>

-----------------------------------------------------------------------------
(* The end of the process, its death, its start.                            *)

\* main restores the display on its way out.
ShutDown ==
  /\ Called /\ host = "rest"
  /\ d' \in Restored(d)
  /\ host' = "stopping"
  /\ UNCHANGED <<up, helper, offered, locked, event, app, home, killed>>

\* What a process leaves behind: the display and the file.
Forgotten(x) ==
  [stop_timer_and_clear_vdd_state(x) EXCEPT
     !.saved = NoSnap, !.queue = <<>>, !.running = "none", !.holder = "free"]

\* deinit_t's destructor: the listener finishes the tasks of its worker, the
\* timer is disarmed, the virtual display destroyed.
Deinit ==
  /\ MutexFree /\ host = "stopping" /\ d.queue = <<>> /\ d.running = "none"
  /\ d' = Forgotten(Destroyed(d))
  /\ up' = FALSE /\ app' = FALSE /\ host' = "rest"
  /\ killed' = (killed \/ d.base # home)
  /\ UNCHANGED <<helper, offered, locked, event, home>>

\* The process is killed.
Crash ==
  /\ up
  /\ d' = Forgotten(d)
  /\ up' = FALSE /\ app' = FALSE /\ host' = "rest"
  /\ killed' = (killed \/ d.base # home)
  /\ UNCHANGED <<helper, offered, locked, event, home>>

\* It is killed inside apply_config: the display is changed, the file not saved.
CrashInApply(r) ==
  /\ MutexFree /\ host \in {"preparing", "configured", "streaming"} /\ r \in offered /\ MayAccept
  /\ \E x \in Prepared(d, r) : d' = Forgotten(Show(x, r))
  /\ up' = FALSE /\ app' = FALSE /\ host' = "rest"
  /\ killed' = (killed \/ d'.base # home)
  /\ UNCHANGED <<helper, offered, locked, event, home>>

\* session_t::init: the listener starts, and restore_state is called.
Start ==
  /\ ~up /\ up' = TRUE
  /\ d' \in Restored(d)
  /\ UNCHANGED <<helper, offered, locked, event, host, app, home, killed>>

-----------------------------------------------------------------------------
Init ==
  /\ d = [shown |-> Orig, base |-> Orig, vdd |-> FALSE, file |-> NoSnap, saved |-> NoSnap,
          use_vdd |-> "none", pre |-> NoSnap, pending |-> FALSE, timer |-> NoTimer,
          waiting |-> "none", queue |-> <<>>, running |-> "none", holder |-> "free"]
  /\ up = TRUE /\ helper \in BOOLEAN /\ offered \in Offers
  /\ locked \in BOOLEAN /\ event = FALSE
  /\ host = "rest" /\ app = FALSE
  /\ home = Orig /\ killed = FALSE

Requesting ==
  \/ BeginRequest \/ RecoverDisplay \/ PublishTicket \/ RefuseRequest \/ RefusalRestores
  \/ \E r \in Requests, newcomer \in BOOLEAN : ConfigureDisplay(r, newcomer)
  \/ \E r \in Requests : ReconfigureDisplay(r)
  \/ SessionsEnd \/ AppExits \/ Cancel \/ ResetPersistence

Background ==
  \/ HandleUnlock \/ AddUnlockTask \/ TakeTask \/ RunTask \/ FinishTask
  \/ FirePoll \/ FinishPoll \/ FireApply \/ FinishApply

Process ==
  \/ ShutDown \/ Deinit \/ Crash \/ Start
  \/ \E r \in Requests : CrashInApply(r)

Next == Requesting \/ Background \/ Process \/ Lock \/ Unlock

Spec == Init /\ [][Next]_vars

\* The threads of the listener and of the timer run; a call that holds the
\* mutex returns, and the worker gets it between two deadlines of the timer.  Nothing is promised of the clients, the user and Windows.
FairSpec ==
  /\ Spec
  /\ WF_vars(HandleUnlock) /\ WF_vars(AddUnlockTask)
  /\ WF_vars(TakeTask) /\ SF_vars(RunTask) /\ WF_vars(FinishTask)
  /\ WF_vars(FirePoll) /\ WF_vars(FinishPoll) /\ WF_vars(FinishApply)

-----------------------------------------------------------------------------
(* Properties.                                                              *)

\* The state is of its type: no counter past its limit, no mutex held for
\* something that no thread is in.
TypeOK ==
  /\ d \in Display
  /\ up \in BOOLEAN /\ helper \in BOOLEAN /\ offered \in Offers
  /\ locked \in BOOLEAN /\ event \in BOOLEAN
  /\ host \in {"rest", "preparing", "configured", "streaming", "refused", "stopping"}
  /\ app \in BOOLEAN /\ home \in Snapshots /\ killed \in BOOLEAN

\* home is what the user still expects back in this life of the process.
Expected == home # NoSnap /\ ~killed

\* Whatever sequence of requests, retries and failures has changed the layout,
\* the snapshot in memory is the layout the user had before the first of them
\* (settings.cpp: "always sticking with the first initial topology").
OriginalKept == Expected /\ d.base # home => d.saved = home

\* When session_t has forgotten its session (current_use_vdd is empty, so that
\* restore_state would restore nothing) the user has his layout back.
ForgottenIsRestored == Expected /\ up /\ d.use_vdd = "none" => d.shown = home

\* Somebody is still to try a restore: a task that is not out of date, the timer,
\* or the thread that holds the mutex.
ToBeTried(x) ==
  \/ "current" \in {x.waiting, x.running} \cup {x.queue[i] : i \in DOMAIN x.queue}
  \/ x.timer.kind = "restore"
  \/ x.holder \in {"add_locked", "add_unlocked", "task", "poll"}

\* A restore that is pending and still to be tried has a snapshot in memory to go
\* back to.
PendingHasSnapshot == d.pending /\ ToBeTried(d) => d.saved # NoSnap

\* No background callback changes what is shown during a stream: its check of
\* session_starting_or_active is made before the change and is not repeated.
CaptureUndisturbed ==
  [][host = "streaming" /\ host' = "streaming" /\ Background => d'.shown = d.shown]_vars

\* When clients and the user leave the host alone, the retries of a restore
\* come to an end, successful or not.
RetriesEnd ==
  <>[][Background \/ Lock \/ Unlock]_vars /\ <>[](~busy /\ up)
    => <>[](d.timer.kind # "restore" /\ d.running = "none" /\ d.queue = <<>>)
=============================================================================
