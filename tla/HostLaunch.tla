------------------------------ MODULE HostLaunch ------------------------------
(****************************************************************************)
(* The life of the application and of a stream as the handlers of /launch,  *)
(* /resume and /cancel (nvhttp.cpp) drive it, step by step.                 *)
(*                                                                          *)
(* Four kinds of threads call proc_t (process.cpp), which has no lock: the  *)
(* HTTPS workers, the RTSP thread (handshakes, joins, the completion of     *)
(* /cancel), the control thread, which polls running() while a session      *)
(* lives, and running() itself, which cleans up after an application that   *)
(* has exited.  The display is abstracted to "home" or "stream" (see        *)
(* DisplaySession), a handshake and a session to their counts (see          *)
(* LaunchTickets and StreamSessions).                                       *)
(****************************************************************************)
EXTENDS Integers, FiniteSets

CONSTANTS
  Https,         \* the HTTPS workers that serve requests
  Rtsp, Control, \* the RTSP thread; the control thread
  N,             \* the number of the application's preparation commands
  MaxStreams,    \* bound on tickets and sessions together
  MaxCrossings   \* bound on the calls into proc_t that begin during another

Threads == Https \cup {Rtsp, Control}

ASSUME HostAssumption ==
  /\ Rtsp # Control /\ {Rtsp, Control} \cap Https = {}
  /\ N \in Nat /\ MaxStreams \in Nat \ {0}
  /\ MaxCrossings \in Nat

VARIABLES
  id,        \* proc_t::_app_id is that of the application
  placebo,   \* proc_t::placebo
  process,   \* proc_t::_process: "none", "runs", "exited"
  it,        \* _app_prep_it - _app_prep_begin
  prepared,  \* for each preparation command: 0, or 1 when execute has passed it
             \* and terminate not undone it; 2 once either came out of turn
  pc, ret,   \* where each thread is; where it goes on after terminate
  restores,  \* the workers whose need_to_restore_display_state is set
  tickets, sessions,
  display,   \* "home" or "stream"
  pending,   \* global_cancel_pending
  posted,    \* completions of /cancel waiting for the RTSP thread
  alone,     \* history: no request was served since the clean-up of /cancel began
  crossings, \* history: how many calls into proc_t came during another
  crossed,   \* history: the threads in proc_t whose call has overlapped another
  sound      \* history: the last call that left proc_t had it alone

vars == <<id, placebo, process, it, prepared, pc, ret, restores, tickets, sessions,
          display, pending, posted, alone, crossings, crossed, sound>>

app == <<placebo, process>>
proc == <<id, app, it, prepared>>
calls == <<crossings, crossed, sound>>
streams == <<tickets, sessions>>
cleanup == <<pending, posted, alone>>

-----------------------------------------------------------------------------
(* proc_t.                                                                  *)

InTerminate == {"kill", "killed", "undo", "undone", "reset"}
InExecute == {"exec_set", "exec_prep", "exec_next", "exec_start"}

Inside(t) == pc[t] \in InTerminate \cup InExecute

Others(t) == {u \in Threads \ {t} : Inside(u)}

\* The calls of S overlap: nothing in the code keeps one from coming during
\* another, and then neither finds what it left.
Crosses(S) ==
  IF S = {} THEN UNCHANGED calls
  ELSE /\ crossings < MaxCrossings /\ crossings' = crossings + 1
       /\ crossed' = crossed \cup S /\ UNCHANGED sound

Goto(t, l) == pc' = [pc EXCEPT ![t] = l] /\ UNCHANGED ret

Stays(t, l) == Goto(t, l) /\ UNCHANGED calls

\* t leaves proc_t.
ComesOut(t) == crossed' = crossed \ {t} /\ sound' = (t \notin crossed) /\ UNCHANGED crossings

Leaves(t, l) == Goto(t, l) /\ ComesOut(t)

\* t calls terminate and goes on at l.
CallTerminate(t, l) ==
  /\ Crosses(IF Inside(t) \/ Others(t) = {} THEN {} ELSE {t} \cup Others(t))
  /\ pc' = [pc EXCEPT ![t] = "kill"] /\ ret' = [ret EXCEPT ![t] = l]

\* placebo is reset; the process group is asked to end, and waited for.
Kill(t) ==
  /\ pc[t] = "kill"
  /\ placebo' = FALSE
  /\ Stays(t, "killed")
  /\ UNCHANGED <<id, process, it, prepared, restores, streams, display, cleanup>>

Killed(t) ==
  /\ pc[t] = "killed"
  /\ process' = "none"
  /\ Stays(t, "undo")
  /\ UNCHANGED <<id, placebo, it, prepared, restores, streams, display, cleanup>>

\* Mutation of Undo: nothing is undone.
MutUndo(t) ==
  /\ pc[t] = "undo"
  /\ Stays(t, "reset")
  /\ UNCHANGED <<proc, restores, streams, display, cleanup>>

\* The undo command before the iterator runs.
Undo(t) ==
  /\ pc[t] = "undo"
  /\ IF it = 0
     THEN Stays(t, "reset") /\ UNCHANGED prepared
     ELSE /\ it \in 1..N   \* outside, the behaviour is undefined
          /\ prepared' = [prepared EXCEPT ![it] = IF @ = 1 THEN 0 ELSE 2]
          /\ Stays(t, "undone")
  /\ UNCHANGED <<id, app, it, restores, streams, display, cleanup>>

\* Mutation of Undone: the iterator stays.
MutUndone(t) ==
  /\ pc[t] = "undone"
  /\ Stays(t, "undo")
  /\ UNCHANGED <<proc, restores, streams, display, cleanup>>

\* The iterator goes back.
Undone(t) ==
  /\ pc[t] = "undone"
  /\ it' = it - 1
  /\ Stays(t, "undo")
  /\ UNCHANGED <<id, app, prepared, restores, streams, display, cleanup>>

\* _app_id is reset, and terminate returns, to execute or out of proc_t.
Reset(t) ==
  /\ pc[t] = "reset"
  /\ id' = FALSE
  /\ pc' = [pc EXCEPT ![t] = ret[t]] /\ ret' = [ret EXCEPT ![t] = "idle"]
  /\ IF ret[t] = "exec_set" THEN UNCHANGED calls ELSE ComesOut(t)
  /\ UNCHANGED <<app, it, prepared, restores, streams, display, cleanup>>

\* execute, after the first terminate: the application becomes the current one,
\* or there is none of that id.
ExecuteSet(t) ==
  /\ pc[t] = "exec_set"
  /\ \/ id' = TRUE /\ it' = 0 /\ Stays(t, "exec_prep")
     \/ UNCHANGED <<id, it>> /\ Leaves(t, "restore")
  /\ UNCHANGED <<app, prepared, restores, streams, display, cleanup>>

\* Mutation of ExecutePrep: a command that fails is not rolled back.
MutExecutePrep(t) ==
  /\ pc[t] = "exec_prep"
  /\ \/ /\ it \in 0..(N - 1)
        /\ prepared' = [prepared EXCEPT ![it + 1] = IF @ = 0 THEN 1 ELSE 2]
        /\ Stays(t, "exec_next")
     \/ it \in 0..(N - 1) /\ Leaves(t, "restore") /\ UNCHANGED prepared
     \/ it = N /\ Stays(t, "exec_start") /\ UNCHANGED prepared
  /\ UNCHANGED <<id, app, it, restores, streams, display, cleanup>>

\* The next preparation command runs, or fails and execute's guard terminates.
ExecutePrep(t) ==
  /\ pc[t] = "exec_prep"
  /\ \/ /\ it \in 0..(N - 1)   \* beyond N, the behaviour is undefined
        /\ prepared' = [prepared EXCEPT ![it + 1] = IF @ = 0 THEN 1 ELSE 2]
        /\ Stays(t, "exec_next")
     \/ it \in 0..(N - 1) /\ CallTerminate(t, "restore") /\ UNCHANGED prepared
     \/ it = N /\ Stays(t, "exec_start") /\ UNCHANGED prepared
  /\ UNCHANGED <<id, app, it, restores, streams, display, cleanup>>

\* The iterator goes on.
ExecuteNext(t) ==
  /\ pc[t] = "exec_next"
  /\ it' = it + 1
  /\ Stays(t, "exec_prep")
  /\ UNCHANGED <<id, app, prepared, restores, streams, display, cleanup>>

\* Without a command the application is the desktop; else its process starts,
\* or fails to.
ExecuteStart(t) ==
  /\ pc[t] = "exec_start"
  /\ \/ placebo' = TRUE /\ Leaves(t, "launch_ticket") /\ UNCHANGED process
     \/ process' = "runs" /\ Leaves(t, "launch_ticket") /\ UNCHANGED placebo
     \/ CallTerminate(t, "restore") /\ UNCHANGED app
  /\ UNCHANGED <<id, it, prepared, restores, streams, display, cleanup>>

Runs == placebo \/ process # "none"

\* running(), called at "at": the answer is the id, or -1 of an application whose
\* id was reset, or 0; one that has exited counts as detached, or is cleaned up
\* first.
AskRunning(t, at, yes, minus, no) ==
  /\ pc[t] = at
  /\ \/ /\ placebo \/ process = "runs"
        /\ Stays(t, IF id THEN yes ELSE minus) /\ UNCHANGED placebo
     \/ /\ ~placebo /\ process = "exited"
        /\ placebo' = TRUE /\ Crosses(Others(t)) /\ Goto(t, IF id THEN yes ELSE minus)
     \/ ~placebo /\ process = "exited" /\ CallTerminate(t, no) /\ UNCHANGED placebo
     \/ ~Runs /\ Stays(t, no) /\ UNCHANGED placebo
  /\ UNCHANGED <<id, process, it, prepared, restores, streams, display, cleanup>>

\* The application exits by itself.
AppExits ==
  /\ process = "runs" /\ process' = "exited"
  /\ UNCHANGED <<id, placebo, it, prepared, pc, ret, restores, streams, display, cleanup, calls>>

Terminate(t) == Kill(t) \/ Killed(t) \/ Undo(t) \/ Undone(t) \/ Reset(t)
Execute(t) == ExecuteSet(t) \/ ExecutePrep(t) \/ ExecuteNext(t) \/ ExecuteStart(t)

-----------------------------------------------------------------------------
(* /launch and /resume, on an HTTPS worker.                                 *)

BeginRequest(t) ==
  /\ pc[t] = "idle"
  /\ \E l \in {"launch_running", "resume_running", "serverinfo_running"} : Stays(t, l)
  /\ alone' = FALSE
  /\ UNCHANGED <<proc, restores, streams, display, pending, posted>>

LaunchRunning(t) == AskRunning(t, "launch_running", "idle", "launch_prepare", "launch_prepare")

\* Counting the sessions clears those that have stopped and joins them here; the
\* join of the last one goes on.
RequestClears(t) ==
  /\ \E n \in 1..sessions :
       /\ sessions' = sessions - n
       /\ \/ pc[t] = "launch_prepare"
             /\ Stays(t, IF sessions = n THEN "launch_join_running" ELSE "launch_prepare")
          \/ pc[t] = "resume_prepare"
             /\ Stays(t, IF sessions = n THEN "resume_join_running" ELSE "resume_prepare")
  /\ UNCHANGED <<proc, restores, tickets, display, cleanup>>

RequestJoins(t) ==
  \/ AskRunning(t, "launch_join_running", "launch_prepare", "launch_prepare", "launch_join_restore")
  \/ AskRunning(t, "resume_join_running", "resume_prepare", "resume_prepare", "resume_join_restore")

RequestRestores(t) ==
  /\ \/ pc[t] = "launch_join_restore" /\ Stays(t, "launch_prepare")
     \/ pc[t] = "resume_join_restore" /\ Stays(t, "resume_prepare")
  /\ display' = "home"
  /\ UNCHANGED <<proc, restores, streams, cleanup>>

\* Without a session the display is prepared, or fails
\* to be, and its restoration is due; the client may be refused for encryption.
LaunchPrepare(t) ==
  /\ pc[t] = "launch_prepare"
  /\ IF sessions = 0
     THEN restores' = restores \cup {t} /\ display' \in {"home", "stream"}
     ELSE UNCHANGED <<restores, display>>
  /\ \E l \in {"launch_execute", "restore"} : Stays(t, l)
  /\ UNCHANGED <<proc, streams, cleanup>>

LaunchExecute(t) ==
  /\ pc[t] = "launch_execute"
  /\ CallTerminate(t, "exec_set")
  /\ UNCHANGED <<proc, restores, streams, display, cleanup>>

\* The ticket is registered and the restoration no longer due, or it is not
\* and the application just started is rolled back.
LaunchTicket(t) ==
  /\ pc[t] = "launch_ticket"
  /\ \/ /\ tickets + sessions < MaxStreams
        /\ tickets' = tickets + 1 /\ restores' = restores \ {t} /\ Stays(t, "restore")
     \/ Stays(t, "launch_rollback") /\ UNCHANGED <<tickets, restores>>
  /\ UNCHANGED <<proc, sessions, display, cleanup>>

LaunchRollback(t) == AskRunning(t, "launch_rollback", "launch_undo", "restore", "restore")

LaunchUndo(t) ==
  /\ pc[t] = "launch_undo"
  /\ CallTerminate(t, "restore")
  /\ UNCHANGED <<proc, restores, streams, display, cleanup>>

ResumeRunning(t) == AskRunning(t, "resume_running", "resume_prepare", "resume_prepare", "idle")

\* A display that cannot be prepared is
\* not restored.
ResumePrepare(t) ==
  /\ pc[t] = "resume_prepare"
  /\ IF sessions = 0
     THEN \/ /\ restores' = restores \cup {t} /\ display' \in {"home", "stream"}
             /\ \E l \in {"resume_ticket", "restore"} : Stays(t, l)
          \/ UNCHANGED restores /\ display' \in {"home", "stream"} /\ Stays(t, "restore")
     ELSE /\ UNCHANGED <<restores, display>>
          /\ \E l \in {"resume_ticket", "restore"} : Stays(t, l)
  /\ UNCHANGED <<proc, streams, cleanup>>

ResumeTicket(t) ==
  /\ pc[t] = "resume_ticket"
  /\ \/ /\ tickets + sessions < MaxStreams
        /\ tickets' = tickets + 1 /\ restores' = restores \ {t} /\ Stays(t, "resume_report")
     \/ Stays(t, "restore") /\ UNCHANGED <<tickets, restores>>
  /\ UNCHANGED <<proc, sessions, display, cleanup>>

\* The webhook is told which application runs.
ResumeReport(t) == AskRunning(t, "resume_report", "restore", "restore", "restore")

\* The handler returns, and its fail guard restores the display.
Return(t) ==
  /\ pc[t] = "restore" /\ t \in Https
  /\ restores' = restores \ {t}
  /\ display' = IF t \in restores THEN "home" ELSE display
  /\ Stays(t, "idle")
  /\ UNCHANGED <<proc, streams, cleanup>>

\* /serverinfo names the application that runs.
Serverinfo(t) == AskRunning(t, "serverinfo_running", "idle", "idle", "idle")

\* The web interface or the tray ends the application.
CloseApp(t) ==
  /\ pc[t] = "idle"
  /\ CallTerminate(t, "idle")
  /\ UNCHANGED <<proc, restores, streams, display, cleanup>>

Request(t) ==
  \/ BeginRequest(t) \/ Serverinfo(t) \/ CloseApp(t) \/ Execute(t) \/ Return(t)
  \/ LaunchRunning(t) \/ LaunchPrepare(t) \/ LaunchExecute(t) \/ LaunchTicket(t)
  \/ LaunchRollback(t) \/ LaunchUndo(t)
  \/ RequestClears(t) \/ RequestJoins(t) \/ RequestRestores(t)
  \/ ResumeRunning(t) \/ ResumePrepare(t) \/ ResumeTicket(t) \/ ResumeReport(t)

-----------------------------------------------------------------------------
(* /cancel, and the RTSP thread.                                            *)

\* Mutation of Cancel: the pending flag is set, not tested.
MutCancel ==
  /\ pending' = TRUE /\ posted' = IF posted < 2 THEN posted + 1 ELSE posted
  /\ UNCHANGED <<proc, pc, ret, restores, streams, display, alone, calls>>

\* A /cancel is accepted unless one is under way, and posts its clean-up.
Cancel ==
  /\ ~pending /\ pending' = TRUE /\ posted' = posted + 1
  /\ UNCHANGED <<proc, pc, ret, restores, streams, display, alone, calls>>

\* A client answers its ticket with a handshake; or the ticket expires.
Handshake ==
  /\ pc[Rtsp] = "idle" /\ tickets > 0
  /\ tickets' = tickets - 1 /\ sessions' \in {sessions, sessions + 1}
  /\ UNCHANGED <<proc, pc, ret, restores, display, cleanup, calls>>

\* The loop clears the sessions that have stopped and joins them.
ClearStopped ==
  /\ pc[Rtsp] = "idle" /\ sessions > 0
  /\ \E n \in 1..sessions :
       /\ sessions' = sessions - n
       /\ Stays(Rtsp, IF sessions = n THEN "join_running" ELSE "idle")
  /\ UNCHANGED <<proc, restores, tickets, display, cleanup>>

\* Mutation of ClearAll: the tickets of clients that have not connected stay.
MutClearAll ==
  /\ pc[Rtsp] = "idle" /\ posted > 0
  /\ posted' = posted - 1 /\ sessions' = 0
  /\ alone' = \A t \in Https : pc[t] = "idle"
  /\ Stays(Rtsp, IF sessions > 0 THEN "last_running" ELSE "cancel_running")
  /\ UNCHANGED <<proc, restores, tickets, display, pending>>

\* The clean-up of a /cancel begins: all tickets and sessions go.
ClearAll ==
  /\ pc[Rtsp] = "idle" /\ posted > 0
  /\ posted' = posted - 1 /\ tickets' = 0 /\ sessions' = 0
  /\ alone' = \A t \in Https : pc[t] = "idle"
  /\ Stays(Rtsp, IF sessions > 0 THEN "last_running" ELSE "cancel_running")
  /\ UNCHANGED <<proc, restores, display, pending>>

\* The join of the last session asks for the application, and restores the
\* display when there is none to resume.
JoinRunning ==
  \/ AskRunning(Rtsp, "join_running", "idle", "idle", "join_restore")
  \/ AskRunning(Rtsp, "last_running", "cancel_running", "cancel_running", "last_restore")

JoinRestore ==
  /\ pc[Rtsp] \in {"join_restore", "last_restore"}
  /\ display' = "home"
  /\ Stays(Rtsp, IF pc[Rtsp] = "join_restore" THEN "idle" ELSE "cancel_running")
  /\ UNCHANGED <<proc, restores, streams, cleanup>>

\* The completion: the application is terminated if it runs.
CancelRunning == AskRunning(Rtsp, "cancel_running", "cancel_terminate", "cancel_restore", "cancel_restore")

CancelTerminate ==
  /\ pc[Rtsp] = "cancel_terminate"
  /\ CallTerminate(Rtsp, "cancel_restore")
  /\ UNCHANGED <<proc, restores, streams, display, cleanup>>

\* Mutation of CancelRestore: the flag is left set.
MutCancelRestore ==
  /\ pc[Rtsp] = "cancel_restore"
  /\ display' = "home" /\ alone' = FALSE
  /\ Stays(Rtsp, "idle")
  /\ UNCHANGED <<proc, restores, streams, pending, posted>>

\* It restores the display and clears the flag.
CancelRestore ==
  /\ pc[Rtsp] = "cancel_restore"
  /\ display' = "home" /\ pending' = FALSE /\ alone' = FALSE
  /\ Stays(Rtsp, "idle")
  /\ UNCHANGED <<proc, restores, streams, posted>>

RtspStep ==
  \/ Handshake \/ ClearStopped \/ ClearAll \/ JoinRunning \/ JoinRestore
  \/ CancelRunning \/ CancelTerminate \/ CancelRestore

Joins ==
  {"join_running", "join_restore", "last_running", "last_restore",
   "launch_join_running", "launch_join_restore", "resume_join_running", "resume_join_restore"}

\* The control thread polls running() until the last session is joined.
ControlPoll ==
  /\ sessions > 0 \/ \E t \in Threads : {pc[t], ret[t]} \cap Joins # {}
  /\ AskRunning(Control, "idle", "idle", "idle", "idle")

-----------------------------------------------------------------------------
Init ==
  /\ id = FALSE /\ placebo = FALSE /\ process = "none" /\ it = 0 /\ prepared = [k \in 1..N |-> 0]
  /\ pc = [t \in Threads |-> "idle"] /\ ret = [t \in Threads |-> "idle"]
  /\ restores = {}
  /\ tickets = 0 /\ sessions = 0 /\ display = "home"
  /\ pending = FALSE /\ posted = 0 /\ alone = FALSE
  /\ crossings = 0 /\ crossed = {} /\ sound = TRUE

Next ==
  \/ \E t \in Https : Request(t)
  \/ \E t \in Threads : Terminate(t)
  \/ Cancel \/ RtspStep \/ ControlPoll \/ AppExits

Spec == Init /\ [][Next]_vars

RtspGoesOn ==
  JoinRunning \/ JoinRestore \/ CancelRunning \/ CancelTerminate \/ CancelRestore

\* The RTSP thread serves a posted clean-up among its connections and joins,
\* goes on with what it has begun; each thread in proc_t goes on there.
FairSpec ==
  /\ Spec
  /\ SF_vars(ClearAll)
  /\ SF_vars(RtspGoesOn)
  /\ \A t \in Threads : WF_vars(Terminate(t) \/ Execute(t))

-----------------------------------------------------------------------------
(* Properties.                                                              *)

Labels ==
  {"idle", "serverinfo_running", "launch_running", "launch_prepare", "launch_execute", "launch_ticket",
   "launch_rollback", "launch_undo", "resume_running", "resume_prepare", "resume_ticket",
   "resume_report", "restore", "cancel_running", "cancel_terminate", "cancel_restore"}
  \cup Joins \cup InTerminate \cup InExecute

\* The state is of its type.  As long as no call into proc_t has come during
\* another, no command is undone that was not passed, none passed twice, and the
\* iterator stays between its ends.
TypeOK ==
  /\ id \in BOOLEAN /\ placebo \in BOOLEAN /\ process \in {"none", "runs", "exited"}
  /\ it \in Int /\ prepared \in [1..N -> 0..2]
  /\ pc \in [Threads -> Labels] /\ ret \in [Threads -> Labels]
  /\ restores \subseteq Https
  /\ tickets \in 0..MaxStreams /\ sessions \in 0..MaxStreams
  /\ display \in {"home", "stream"}
  /\ pending \in BOOLEAN /\ posted \in 0..1 /\ alone \in BOOLEAN
  /\ crossings \in 0..MaxCrossings /\ sound \in BOOLEAN
  /\ crossed \subseteq {t \in Threads : Inside(t)}
  /\ crossings = 0 => it \in 0..N /\ prepared \in [1..N -> {0, 1}]

\* Between the calls into proc_t, an application is there and its commands are
\* passed, or there is none and nothing is left of it: whatever overlapping calls
\* made of it before, once a call has had proc_t alone.  Only the commands that
\* came out of turn are not made good.
PreparedWhileItRuns ==
  (\A t \in Threads : ~Inside(t)) /\ sound
    => \/ id /\ Runs /\ it = N /\ (crossings = 0 => \A k \in 1..N : prepared[k] = 1)
       \/ ~id /\ ~Runs /\ it = 0 /\ (crossings = 0 => \A k \in 1..N : prepared[k] = 0)

\* An application begins with nothing running and everything undone
\* (process.cpp: "Ensure starting from a clean slate").
CleanSlate ==
  \A t \in Threads : pc[t] = "exec_set"
    => ~Runs /\ it = 0 /\ \A k \in 1..N : prepared[k] = 0

\* Of that, what the code ensures: an execute that no other call overlaps begins
\* so, whatever state earlier calls that overlapped have left.
CleanWhenAlone ==
  \A t \in Threads : pc[t] = "exec_set" /\ t \notin crossed
    => /\ ~id /\ ~Runs /\ it = 0
       /\ crossings = 0 => \A k \in 1..N : prepared[k] = 0

\* However many /cancel arrive, one clean-up is posted or under way while the
\* flag is set, and none while it is not.
OneCleanup ==
  (IF pending THEN 1 ELSE 0)
    = posted + (IF \/ pc[Rtsp] \in {"last_running", "last_restore", "cancel_running",
                                    "cancel_terminate", "cancel_restore"}
                   \/ Inside(Rtsp) /\ ret[Rtsp] \in {"last_restore", "cancel_restore"}
                THEN 1 ELSE 0)

\* A /cancel that no request crosses leaves nothing: no ticket or session, the
\* display as it was, and no application, whatever calls into proc_t overlap
\* meanwhile, unless the last to leave was one of them.
CancelLeavesNothing ==
  [][pc[Rtsp] = "cancel_restore" /\ pc'[Rtsp] = "idle" /\ alone
       => /\ tickets' = 0 /\ sessions' = 0 /\ display' = "home"
          /\ sound' => ~placebo' /\ process' = "none"]_vars

\* An accepted /cancel completes, so that a later one is accepted again: unless
\* calls into proc_t that overlap never come apart.
CancelCompletes == []<>(crossed = {}) => (pending ~> ~pending)
=============================================================================
