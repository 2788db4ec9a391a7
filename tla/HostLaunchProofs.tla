---------------------------- MODULE HostLaunchProofs ----------------------------
(****************************************************************************)
(* Proofs about HostLaunch, for any number of HTTPS workers, preparation    *)
(* commands and streams.                                                    *)
(*                                                                          *)
(* Calls into proc_t may overlap in any way.  One clean-up belongs to one   *)
(* accepted /cancel whatever they do.  What proc_t is like is an invariant  *)
(* (Serial) only about the calls that no other overlaps: for each place of  *)
(* such a call, what it has established since it began (ProcAt); and, once  *)
(* it has left, what proc_t is like at rest (AtRest).                       *)
(****************************************************************************)
EXTENDS HostLaunch, TLAPS

Outside == Labels \ (InTerminate \cup InExecute)

RtspPlaces ==
  {"idle", "join_running", "join_restore", "last_running", "last_restore",
   "cancel_running", "cancel_terminate", "cancel_restore"}

\* Types that hold however the calls overlap, and where each thread may be.
Places ==
  /\ id \in BOOLEAN /\ placebo \in BOOLEAN /\ process \in {"none", "runs", "exited"}
  /\ pc \in [Threads -> Labels] /\ ret \in [Threads -> Outside \cup {"exec_set"}]
  /\ pc[Rtsp] \in RtspPlaces \cup InTerminate
  /\ ret[Rtsp] \in {"idle", "join_restore", "last_restore", "cancel_restore"}
  /\ restores \subseteq Https
  /\ tickets \in Nat /\ sessions \in Nat /\ tickets + sessions <= MaxStreams
  /\ display \in {"home", "stream"}
  /\ pending \in BOOLEAN /\ posted \in Nat /\ alone \in BOOLEAN

CleanupInv == Places /\ OneCleanup

\* The commands up to n are in effect, and no other, as long as no two calls have
\* overlapped.
Done(n) == crossings = 0 => \A k \in 1..N : prepared[k] = IF k <= n THEN 1 ELSE 0

\* What proc_t is like when t is inside and has been alone there.
ProcAt(t) ==
  /\ pc[t] \in {"kill", "killed"} => Done(it)
  /\ pc[t] = "killed" => ~placebo
  /\ pc[t] = "undo" => Done(it) /\ ~Runs
  /\ pc[t] = "undone" => Done(it - 1) /\ (crossings = 0 => it # 0) /\ ~Runs
  /\ pc[t] \in {"reset", "exec_set"} => it = 0 /\ Done(0) /\ ~Runs
  /\ pc[t] = "exec_set" => ~id
  /\ pc[t] = "exec_prep" => id /\ it \in 0..N /\ Done(it) /\ ~Runs
  /\ pc[t] = "exec_next" => id /\ it \in 0..(N - 1) /\ Done(it + 1) /\ ~Runs
  /\ pc[t] = "exec_start" => id /\ it = N /\ Done(N) /\ ~Runs

\* And when nobody is, and the last to leave was alone.
AtRest ==
  \/ id /\ Runs /\ it = N /\ Done(N)
  \/ ~id /\ ~Runs /\ it = 0 /\ Done(0)

\* While no call has overlapped another.
Uncounted ==
  crossings = 0 => crossed = {} /\ sound /\ it \in 0..N /\ prepared \in [1..N -> {0, 1}]

Serial ==
  /\ it \in Int /\ prepared \in [1..N -> 0..2]
  /\ crossings \in 0..MaxCrossings /\ sound \in BOOLEAN
  /\ crossed \subseteq {t \in Threads : Inside(t)}
  /\ Uncounted
  /\ \A t \in Threads \ crossed, u \in Threads : Inside(t) /\ Inside(u) => t = u
  /\ \A t \in Threads \ crossed : Inside(t) => ProcAt(t)
  /\ (\A t \in Threads : ~Inside(t)) /\ sound => AtRest

-----------------------------------------------------------------------------
(* The clean-up of /cancel.                                                 *)

\* A step of another thread than the RTSP thread that leaves the flag alone.
LEMMA OtherThread ==
  ASSUME CleanupInv, NEW t \in Threads, t # Rtsp, NEW l \in Labels,
         NEW r \in Outside \cup {"exec_set"},
         pc' = [pc EXCEPT ![t] = l], ret' = [ret EXCEPT ![t] = r] \/ ret' = ret,
         pending' = pending, posted' = posted
  PROVE  /\ OneCleanup'
         /\ pc' \in [Threads -> Labels] /\ ret' \in [Threads -> Outside \cup {"exec_set"}]
         /\ pc'[Rtsp] = pc[Rtsp] /\ ret'[Rtsp] = ret[Rtsp]
<1>1. Rtsp \in Threads  BY DEF Threads
<1>2. /\ pc' \in [Threads -> Labels] /\ ret' \in [Threads -> Outside \cup {"exec_set"}]
      /\ pc'[Rtsp] = pc[Rtsp] /\ ret'[Rtsp] = ret[Rtsp]
  BY <1>1 DEF CleanupInv, Places
<1> QED  BY <1>2 DEF CleanupInv, OneCleanup, Inside

\* So is any step that leaves the flag and the RTSP thread alone.
LEMMA CleanupFrame ==
  ASSUME CleanupInv, pending' = pending, posted' = posted,
         pc'[Rtsp] = pc[Rtsp], ret'[Rtsp] = ret[Rtsp]
  PROVE  OneCleanup'
BY DEF CleanupInv, OneCleanup, Inside

LEMMA InitCleanup == Init => CleanupInv
<1> SUFFICES ASSUME Init PROVE CleanupInv  OBVIOUS
<1>1. Rtsp \in Threads  BY DEF Threads
<1>2. Places
  <2>1. "idle" \in Labels /\ "idle" \in Outside /\ "idle" \in RtspPlaces
    BY DEF Labels, Outside, InTerminate, InExecute, RtspPlaces
  <2>2. /\ pc \in [Threads -> Labels] /\ ret \in [Threads -> Outside \cup {"exec_set"}]
        /\ pc[Rtsp] = "idle" /\ ret[Rtsp] = "idle"
    BY <1>1, <2>1 DEF Init
  <2>3. tickets \in Nat /\ sessions \in Nat /\ tickets + sessions <= MaxStreams /\ posted \in Nat
    BY HostAssumption DEF Init
  <2>4. id \in BOOLEAN /\ pending \in BOOLEAN /\ alone \in BOOLEAN
    BY DEF Init
  <2>5. /\ placebo \in BOOLEAN /\ process \in {"none", "runs", "exited"} /\ restores \subseteq Https
        /\ display \in {"home", "stream"}
    BY DEF Init
  <2>6. pc[Rtsp] \in RtspPlaces \cup InTerminate
    BY <2>1, <2>2
  <2> QED  BY <2>2, <2>3, <2>4, <2>5, <2>6 DEF Places
<1>3. OneCleanup
  BY <1>1 DEF Init, OneCleanup, Inside, InTerminate, InExecute
<1> QED  BY <1>2, <1>3 DEF CleanupInv

LEMMA TerminateCleanup ==
  ASSUME CleanupInv, NEW t \in Threads, Terminate(t)
  PROVE  CleanupInv'
<1>1. Rtsp \in Threads  BY DEF Threads
<1>2. Places'
  <2>1. InTerminate \subseteq Labels /\ Outside \cup {"exec_set"} \subseteq Labels /\ "idle" \in Outside
    BY DEF Outside, Labels, InTerminate, InExecute
  <2>2. \/ \E l \in InTerminate : Goto(t, l)
        \/ pc' = [pc EXCEPT ![t] = ret[t]] /\ ret' = [ret EXCEPT ![t] = "idle"]
    BY DEF Terminate, Kill, Killed, Undo, Undone, Reset, Stays, InTerminate
  <2>3. /\ pc' \in [Threads -> Labels] /\ ret' \in [Threads -> Outside \cup {"exec_set"}]
        /\ pc'[Rtsp] \in RtspPlaces \cup InTerminate
        /\ ret'[Rtsp] \in {"idle", "join_restore", "last_restore", "cancel_restore"}
    BY <1>1, <2>1, <2>2 DEF CleanupInv, Places, Goto, RtspPlaces
  <2>4. /\ id' \in BOOLEAN /\ placebo' \in BOOLEAN /\ process' \in {"none", "runs", "exited"}
        /\ UNCHANGED <<restores, tickets, sessions, display, pending, posted, alone>>
    BY DEF CleanupInv, Places, Terminate, Kill, Killed, Undo, Undone, Reset, streams, cleanup, proc, app
  <2> QED  BY <2>3, <2>4 DEF CleanupInv, Places
<1>3. OneCleanup'
  BY <1>1 DEF CleanupInv, Places, OneCleanup, Inside, Terminate, Kill, Killed, Undo, Undone, Reset,
     Stays, Goto, streams, cleanup, InTerminate, InExecute, RtspPlaces
<1> QED  BY <1>2, <1>3 DEF CleanupInv

\* What is asked of running(), by any thread.
LEMMA AskCleanup ==
  ASSUME CleanupInv, NEW t \in Threads, NEW at, NEW yes \in Outside, NEW minus \in Outside,
         NEW no \in Outside, AskRunning(t, at, yes, minus, no), t # Rtsp
  PROVE  CleanupInv'
<1>1. \/ \E l \in Outside : pc' = [pc EXCEPT ![t] = l] /\ ret' = ret
      \/ pc' = [pc EXCEPT ![t] = "kill"] /\ ret' = [ret EXCEPT ![t] = no]
  BY DEF AskRunning, Stays, Goto, CallTerminate
<1>2. /\ placebo' \in BOOLEAN /\ process' \in {"none", "runs", "exited"}
      /\ UNCHANGED <<id, restores, tickets, sessions, display, pending, posted, alone>>
  BY DEF AskRunning, CleanupInv, Places, streams, cleanup
<1>3. "kill" \in Labels /\ Outside \subseteq Labels  BY DEF Labels, Outside, InTerminate
<1>4. /\ OneCleanup'
      /\ pc' \in [Threads -> Labels] /\ ret' \in [Threads -> Outside \cup {"exec_set"}]
      /\ pc'[Rtsp] = pc[Rtsp] /\ ret'[Rtsp] = ret[Rtsp]
  BY <1>1, <1>2, <1>3, OtherThread
<1> QED  BY <1>2, <1>4 DEF CleanupInv, Places

LEMMA RequestCleanup ==
  ASSUME CleanupInv, NEW t \in Https, Request(t)
  PROVE  CleanupInv'
<1>1. t \in Threads /\ t # Rtsp  BY HostAssumption DEF Threads
<1> DEFINE Rest ==
      /\ id' \in BOOLEAN /\ placebo' \in BOOLEAN /\ process' \in {"none", "runs", "exited"}
      /\ restores' \subseteq Https
      /\ tickets' \in Nat /\ sessions' \in Nat /\ tickets' + sessions' <= MaxStreams
      /\ display' \in {"home", "stream"} /\ alone' \in BOOLEAN
      /\ UNCHANGED <<pending, posted>>
<1>2. Outside \cup InTerminate \cup InExecute \subseteq Labels
  BY DEF Labels, Outside
<1>3. ASSUME Rest, NEW l \in Labels, Goto(t, l) PROVE CleanupInv'
  <2>1. /\ OneCleanup'
        /\ pc' \in [Threads -> Labels] /\ ret' \in [Threads -> Outside \cup {"exec_set"}]
        /\ pc'[Rtsp] = pc[Rtsp] /\ ret'[Rtsp] = ret[Rtsp]
    <3>1. PICK r \in Outside \cup {"exec_set"} : TRUE  BY DEF Outside
    <3> QED  BY <1>1, <1>3, <3>1, OtherThread DEF Goto
  <2> QED  BY <1>3, <2>1 DEF CleanupInv, Places
<1>4. ASSUME Rest, NEW l \in Outside \cup {"exec_set"}, CallTerminate(t, l) PROVE CleanupInv'
  <2>1. "kill" \in Labels  BY <1>2 DEF InTerminate
  <2>2. /\ OneCleanup'
        /\ pc' \in [Threads -> Labels] /\ ret' \in [Threads -> Outside \cup {"exec_set"}]
        /\ pc'[Rtsp] = pc[Rtsp] /\ ret'[Rtsp] = ret[Rtsp]
    BY <1>1, <1>4, <2>1, OtherThread DEF CallTerminate
  <2> QED  BY <1>4, <2>2 DEF CleanupInv, Places
<1> USE DEF CleanupInv, Places, streams, cleanup, proc, app
<1>5. CASE Serverinfo(t) \/ LaunchRunning(t) \/ LaunchRollback(t) \/ ResumeRunning(t) \/ ResumeReport(t) \/ RequestJoins(t)
  <2> {"idle", "launch_prepare", "launch_undo", "restore", "resume_prepare", "launch_join_restore",
       "resume_join_restore"} \subseteq Outside
    BY DEF Outside, Labels, InTerminate, InExecute, Joins
  <2> QED  BY <1>1, <1>5, AskCleanup DEF Serverinfo, LaunchRunning, LaunchRollback, ResumeRunning,
             ResumeReport, RequestJoins
<1>6. CASE BeginRequest(t)
  <2>1. Rest  BY <1>6 DEF BeginRequest
  <2>2. \E l \in Labels : Goto(t, l)
    BY <1>6 DEF BeginRequest, Stays, Labels
  <2> QED  BY <1>3, <2>1, <2>2
<1>7. CASE CloseApp(t)
  <2>1. Rest  BY <1>7 DEF CloseApp
  <2> QED  BY <1>4, <1>7, <2>1 DEF CloseApp, Outside, Labels, InTerminate, InExecute
<1>8. CASE Execute(t)
  <2>1. Rest  BY <1>8 DEF Execute, ExecuteSet, ExecutePrep, ExecuteNext, ExecuteStart
  <2>2. (\E l \in Labels : Goto(t, l)) \/ CallTerminate(t, "restore") \/ UNCHANGED <<pc, ret>>
    BY <1>8, <1>2 DEF Execute, ExecuteSet, ExecutePrep, ExecuteNext, ExecuteStart, Stays, Leaves, Labels, InExecute
  <2>3. CASE UNCHANGED <<pc, ret>>
    BY <2>1, <2>3, CleanupFrame
  <2>4. "restore" \in Outside  BY DEF Outside, Labels, InTerminate, InExecute
  <2> QED  BY <1>3, <1>4, <2>1, <2>2, <2>3, <2>4
<1>9. CASE Return(t) \/ RequestClears(t) \/ RequestRestores(t) \/ LaunchPrepare(t) \/ LaunchTicket(t)
           \/ ResumePrepare(t) \/ ResumeTicket(t)
  <2>1. Rest
    BY <1>9, HostAssumption DEF Return, RequestClears, RequestRestores, LaunchPrepare, LaunchTicket,
       ResumePrepare, ResumeTicket
  <2>2. \E l \in Labels : Goto(t, l)
    BY <1>9 DEF Return, RequestClears, RequestRestores, LaunchPrepare, LaunchTicket, ResumePrepare,
       ResumeTicket, Stays, Labels, Joins
  <2> QED  BY <1>3, <2>1, <2>2
<1>10. CASE LaunchExecute(t) \/ LaunchUndo(t)
  <2>1. Rest  BY <1>10 DEF LaunchExecute, LaunchUndo
  <2> QED  BY <1>4, <1>10, <2>1 DEF LaunchExecute, LaunchUndo, Outside, Labels, InTerminate, InExecute
<1> QED  BY <1>5, <1>6, <1>7, <1>8, <1>9, <1>10 DEF Request

\* The steps of /cancel and of the RTSP thread, and those of no thread.
LEMMA RtspCleanup ==
  ASSUME CleanupInv, Cancel \/ RtspStep
  PROVE  CleanupInv'
<1> USE HostAssumption DEF CleanupInv, Places, streams, cleanup, proc, app, Stays, Goto, CallTerminate, RtspPlaces
<1>1. Rtsp \in Threads  BY DEF Threads
<1>2. RtspPlaces \cup {"kill"} \subseteq Labels /\ {"idle", "join_restore", "last_restore", "cancel_restore"} \subseteq Outside
  BY DEF Outside, Labels, Joins, InTerminate, InExecute
<1> USE DEF OneCleanup, Inside, InTerminate, InExecute
<1>3. CASE Cancel
  BY <1>1, <1>2, <1>3 DEF Cancel
<1>4. CASE Handshake
  <2>1. UNCHANGED <<id, placebo, process, pc, ret, restores, display, pending, posted, alone>>
    BY <1>4 DEF Handshake
  <2>2. tickets > 0 /\ tickets' = tickets - 1 /\ sessions' \in {sessions, sessions + 1}
    BY <1>4 DEF Handshake
  <2>3. tickets \in Nat /\ sessions \in Nat /\ tickets + sessions <= MaxStreams /\ MaxStreams \in Nat
    OBVIOUS
  <2> HIDE DEF CleanupInv, Places, OneCleanup, InTerminate, InExecute, RtspPlaces
  <2>4. tickets' \in Nat /\ sessions' \in Nat /\ tickets' + sessions' <= MaxStreams
    <3>1. CASE sessions' = sessions  BY <2>2, <2>3, <3>1, SMT
    <3>2. CASE sessions' = sessions + 1  BY <2>2, <2>3, <3>2, SMT
    <3> QED  BY <2>2, <3>1, <3>2
  <2>5. OneCleanup'  BY <2>1, CleanupFrame
  <2>6. Places  BY DEF CleanupInv
  <2>7. Places'  BY <2>1, <2>4, <2>6 DEF Places
  <2> QED  BY <2>5, <2>7 DEF CleanupInv
<1>5. CASE ClearStopped
  BY <1>1, <1>2, <1>5 DEF ClearStopped
<1>6. CASE ClearAll
  BY <1>1, <1>2, <1>6 DEF ClearAll
<1>7. CASE JoinRunning
  <2>1. CASE AskRunning(Rtsp, "join_running", "idle", "idle", "join_restore")
    BY <1>1, <1>2, <2>1 DEF AskRunning
  <2>2. CASE AskRunning(Rtsp, "last_running", "cancel_running", "cancel_running", "last_restore")
    BY <1>1, <1>2, <2>2 DEF AskRunning
  <2> QED  BY <1>7, <2>1, <2>2 DEF JoinRunning
<1>8. CASE JoinRestore
  BY <1>1, <1>2, <1>8 DEF JoinRestore
<1>9. CASE CancelRunning
  BY <1>1, <1>2, <1>9 DEF CancelRunning, AskRunning
<1>10. CASE CancelTerminate
  BY <1>1, <1>2, <1>10 DEF CancelTerminate
<1>11. CASE CancelRestore
  <2>1. pending /\ posted = 0  BY <1>11 DEF CancelRestore
  <2>2. /\ display' = "home" /\ pending' = FALSE /\ alone' = FALSE
        /\ pc' = [pc EXCEPT ![Rtsp] = "idle"]
        /\ UNCHANGED <<id, app, ret, restores, tickets, sessions, posted>>
    BY <1>11 DEF CancelRestore
  <2>3. pc' \in [Threads -> Labels] /\ pc'[Rtsp] = "idle"
    BY <1>1, <1>2, <2>2
  <2>4. OneCleanup'
    BY <2>1, <2>2, <2>3
  <2> HIDE DEF OneCleanup
  <2> QED  BY <2>2, <2>3, <2>4
<1> QED  BY <1>3, <1>4, <1>5, <1>6, <1>7, <1>8, <1>9, <1>10, <1>11 DEF RtspStep

LEMMA NextCleanup == ASSUME CleanupInv, [Next]_vars PROVE CleanupInv'
<1>1. CASE ControlPoll
  <2>1. Control \in Threads /\ Control # Rtsp  BY HostAssumption DEF Threads
  <2>2. "idle" \in Outside  BY DEF Outside, Labels, InTerminate, InExecute
  <2> QED  BY <1>1, <2>1, <2>2, AskCleanup DEF ControlPoll
<1>2. CASE AppExits
  BY <1>2, CleanupFrame DEF AppExits, CleanupInv, Places, streams, cleanup
<1>3. CASE UNCHANGED vars
  BY <1>3, CleanupFrame DEF vars, CleanupInv, Places
<1> QED  BY <1>1, <1>2, <1>3, TerminateCleanup, RequestCleanup, RtspCleanup DEF Next

\* However many /cancel arrive and however the calls into proc_t overlap, the
\* flag is set exactly while one clean-up is posted or under way.
THEOREM HostOneCleanup == Spec => []OneCleanup
<1>1. Spec => []CleanupInv  BY InitCleanup, NextCleanup, PTL DEF Spec
<1> QED  BY <1>1, PTL DEF CleanupInv

-----------------------------------------------------------------------------
(* The calls into proc_t.                                                   *)

\* The calls that begin during another, or the threads in which one does: what
\* is known of a call that had proc_t alone is known of no other.
LEMMA CrossedSerial ==
  ASSUME Serial, NEW S, S # {}, Crosses(S), S \subseteq Threads,
         \A u \in Threads : Inside(u)' => u \in crossed \cup S,
         \A u \in crossed \cup S : Inside(u)',
         it' = it, prepared' = prepared, \E u \in Threads : Inside(u)'
  PROVE  Serial'
<1>1. /\ crossings' = crossings + 1 /\ crossings' <= MaxCrossings /\ sound' = sound
      /\ crossed' = crossed \cup S
  <2>1. MaxCrossings \in Nat /\ crossings \in 0..MaxCrossings  BY HostAssumption DEF Serial
  <2> QED  BY <2>1 DEF Crosses
<1>2. crossings' \in 0..MaxCrossings /\ crossings' # 0
  BY <1>1, HostAssumption DEF Serial
<1>3. crossed' \subseteq {t \in Threads : Inside(t)'}  BY <1>1 DEF Serial
<1>4. \A u \in Threads \ crossed' : ~Inside(u)'  BY <1>1
<1> QED  BY <1>1, <1>2, <1>3, <1>4 DEF Serial, Uncounted

\* A step of a thread outside proc_t that stays outside and touches nothing of it.
LEMMA GotoSerial ==
  ASSUME Places, Serial, NEW t \in Threads, ~Inside(t), NEW l \in Outside, Stays(t, l),
         UNCHANGED proc
  PROVE  Serial'
<1>1. \A u \in Threads : (pc'[u] = pc[u] /\ u # t) \/ (u = t /\ pc'[u] = l)
  BY DEF Places, Stays, Goto
<1>2. \A u \in Threads : Inside(u)' <=> Inside(u)
  BY <1>1 DEF Inside, Outside
<1>3. UNCHANGED <<id, placebo, process, it, prepared, crossings, crossed, sound>>
  BY DEF Stays, calls, proc, app
<1>4. \A u \in Threads : Inside(u) /\ ProcAt(u) => ProcAt(u)'
  BY <1>1, <1>3 DEF ProcAt, Done, Runs
<1>5. AtRest => AtRest'  BY <1>3 DEF AtRest, Done, Runs
<1> QED  BY <1>2, <1>3, <1>4, <1>5 DEF Serial, Uncounted

\* So does whatever leaves the threads and proc_t alone; the application may exit.
LEMMA SerialFrame ==
  ASSUME Places, Serial, UNCHANGED <<id, placebo, it, prepared, pc, calls>>,
         process' = process \/ (process # "none" /\ process' # "none")
  PROVE  Serial'
<1>1. \A n : Done(n)' <=> Done(n)  BY DEF Done, calls
<1>2. Runs' <=> Runs  BY DEF Runs
<1>3. \A u \in Threads : (Inside(u)' <=> Inside(u)) /\ (ProcAt(u) => ProcAt(u)')
  BY <1>1, <1>2 DEF Inside, ProcAt, Done, calls
<1>4. AtRest => AtRest'  BY <1>1, <1>2 DEF AtRest, Done
<1> QED  BY <1>3, <1>4 DEF Serial, Uncounted, calls

\* The thread inside proc_t moves on within it.
LEMMA InsideSerial ==
  ASSUME Places, Serial, NEW t \in Threads, Inside(t), NEW l \in InTerminate \cup InExecute,
         pc' = [pc EXCEPT ![t] = l], UNCHANGED calls,
         it' \in Int, prepared' \in [1..N -> 0..2],
         crossings = 0 => it' \in 0..N /\ prepared' \in [1..N -> {0, 1}],
         t \notin crossed => ProcAt(t)'
  PROVE  Serial'
<1>1. \A u \in Threads : (pc'[u] = pc[u] /\ u # t) \/ (u = t /\ pc'[u] = l)
  BY DEF Places
<1>2. \A u \in Threads : Inside(u)' <=> Inside(u)
  BY <1>1 DEF Inside
<1>3. \A u \in Threads \ crossed : Inside(u) => u = t
  BY DEF Serial
<1> QED  BY <1>2, <1>3 DEF Serial, Uncounted, calls

\* It comes out.
LEMMA LeaveSerial ==
  ASSUME Places, Serial, NEW t \in Threads, Inside(t), NEW l \in Outside,
         pc' = [pc EXCEPT ![t] = l], ComesOut(t), UNCHANGED <<it, prepared>>,
         t \notin crossed => AtRest'
  PROVE  Serial'
<1>1. \A u \in Threads : (pc'[u] = pc[u] /\ u # t) \/ (u = t /\ pc'[u] = l)
  BY DEF Places
<1>2. \A u \in Threads : Inside(u)' <=> Inside(u) /\ u # t
  BY <1>1 DEF Inside, Outside
<1>3. crossed' = crossed \ {t} /\ sound' = (t \notin crossed) /\ crossings' = crossings
  BY DEF ComesOut
<1>4. \A u \in Threads \ crossed' : ~Inside(u)'
  BY <1>2, <1>3 DEF Serial
<1> QED  BY <1>2, <1>3, <1>4 DEF Serial, Uncounted

\* A thread calls terminate from outside, or out of execute.
LEMMA CallSerial ==
  ASSUME Places, Serial, NEW t \in Threads, NEW l, CallTerminate(t, l),
         Inside(t) => pc[t] \in {"exec_prep", "exec_start"}, UNCHANGED proc
  PROVE  Serial'
<1>1. \A u \in Threads : (pc'[u] = pc[u] /\ u # t) \/ (u = t /\ pc'[u] = "kill")
  BY DEF CallTerminate, Places
<1>2. \A u \in Threads : Inside(u)' <=> Inside(u) \/ u = t
  BY <1>1 DEF Inside, InTerminate, InExecute
<1>3. UNCHANGED <<id, placebo, process, it, prepared>>  BY DEF proc, app
<1>4. CASE Inside(t)
  <2>1. UNCHANGED calls  BY <1>4 DEF CallTerminate, Crosses
  <2>2. t \notin crossed => ProcAt(t)'
    <3> SUFFICES ASSUME t \notin crossed PROVE ProcAt(t)'  OBVIOUS
    <3>1. ProcAt(t)  BY <1>4 DEF Serial
    <3> QED  BY <1>1, <1>3, <1>4, <2>1, <3>1 DEF ProcAt, Done, calls
  <2>3. pc' = [pc EXCEPT ![t] = "kill"] /\ "kill" \in InTerminate
    BY DEF CallTerminate, InTerminate
  <2>4. crossings = 0 => it' \in 0..N /\ prepared' \in [1..N -> {0, 1}]
    BY <1>3 DEF Serial, Uncounted
  <2> QED  BY <1>3, <1>4, <2>1, <2>2, <2>3, <2>4, InsideSerial DEF Serial
<1>5. CASE ~Inside(t) /\ Others(t) = {}
  <2>1. UNCHANGED <<crossings, crossed, sound>>  BY <1>5 DEF CallTerminate, Crosses, calls
  <2>2. \A u \in Threads : ~Inside(u)  BY <1>5 DEF Others
  <2>3. crossings = 0 => Done(it)
    <3>1. crossings = 0 => AtRest  BY <2>2 DEF Serial, Uncounted
    <3> QED  BY <3>1 DEF AtRest
  <2>4. ProcAt(t)'  BY <1>1, <1>3, <2>1, <2>3 DEF ProcAt, Done
  <2>5. crossed = {}  BY <2>2 DEF Serial
  <2>6. \A u \in Threads : Inside(u)' <=> u = t  BY <1>2, <2>2
  <2> QED  BY <1>3, <2>1, <2>4, <2>5, <2>6 DEF Serial, Uncounted
<1>6. CASE ~Inside(t) /\ Others(t) # {}
  <2>1. Crosses({t} \cup Others(t))  BY <1>6 DEF CallTerminate
  <2>2. \A u \in Threads : Inside(u)' => u \in crossed \cup ({t} \cup Others(t))
    BY <1>2 DEF Others
  <2>3. \A u \in crossed \cup ({t} \cup Others(t)) : u \in Threads /\ Inside(u)'
    BY <1>2 DEF Others, Serial
  <2> QED  BY <1>3, <2>1, <2>2, <2>3, CrossedSerial
<1> QED  BY <1>4, <1>5, <1>6

LEMMA TerminateSerial ==
  ASSUME Places, Serial, NEW t \in Threads, Terminate(t)
  PROVE  Serial'
<1>1. N \in Nat /\ it \in Int /\ prepared \in [1..N -> 0..2]  BY HostAssumption DEF Serial
<1>2. Inside(t)
  BY DEF Terminate, Kill, Killed, Undo, Undone, Reset, Inside, InTerminate
<1>3. t \notin crossed => ProcAt(t)  BY <1>2 DEF Serial
<1>4. crossings = 0 => it \in 0..N /\ prepared \in [1..N -> {0, 1}] /\ ProcAt(t)
  BY <1>3 DEF Serial, Uncounted
<1>5. CASE Kill(t)
  <2>1. /\ pc[t] = "kill" /\ pc' = [pc EXCEPT ![t] = "killed"] /\ ~placebo'
        /\ UNCHANGED <<it, prepared, crossings, calls>>
    BY <1>5 DEF Kill, Stays, Goto, calls
  <2>2. pc'[t] = "killed"  BY <2>1 DEF Places
  <2>3. t \notin crossed => ProcAt(t)'  BY <1>3, <2>1, <2>2 DEF ProcAt, Done
  <2> QED  BY <1>1, <1>2, <1>4, <2>1, <2>3, InsideSerial DEF InTerminate
<1>6. CASE Killed(t)
  <2>1. /\ pc[t] = "killed" /\ pc' = [pc EXCEPT ![t] = "undo"]
        /\ process' = "none" /\ UNCHANGED <<it, placebo, prepared, crossings, calls>>
    BY <1>6 DEF Killed, Stays, Goto, calls
  <2>2. pc'[t] = "undo"  BY <2>1 DEF Places
  <2>3. t \notin crossed => ProcAt(t)'  BY <1>3, <2>1, <2>2 DEF ProcAt, Done, Runs
  <2> QED  BY <1>1, <1>2, <1>4, <2>1, <2>3, InsideSerial DEF InTerminate
<1>7. CASE Undo(t)
  <2>1. /\ UNCHANGED <<it, crossings, calls>> /\ pc[t] = "undo"
        /\ t \notin crossed => Done(it) /\ ~Runs'
    BY <1>3, <1>7 DEF Undo, Stays, calls, ProcAt, Runs, app
  <2>2. CASE it = 0
    <3>1. pc' = [pc EXCEPT ![t] = "reset"] /\ UNCHANGED prepared
      BY <1>7, <2>2 DEF Undo, Stays, Goto
    <3>2. pc'[t] = "reset"  BY <3>1 DEF Places
    <3>3. t \notin crossed => ProcAt(t)'  BY <2>1, <2>2, <3>1, <3>2 DEF ProcAt, Done
    <3> QED  BY <1>1, <1>2, <1>4, <2>1, <3>1, <3>3, InsideSerial DEF InTerminate
  <2>3. CASE it # 0
    <3>1. /\ pc' = [pc EXCEPT ![t] = "undone"]
          /\ it \in 1..N /\ prepared' = [prepared EXCEPT ![it] = IF @ = 1 THEN 0 ELSE 2]
      BY <1>7, <2>3 DEF Undo, Stays, Goto
    <3>2. pc'[t] = "undone"  BY <3>1 DEF Places
    <3>3. prepared' \in [1..N -> 0..2]  BY <1>1, <3>1
    <3>4. crossings = 0 => /\ prepared' \in [1..N -> {0, 1}]
                           /\ \A k \in 1..N : prepared'[k] = IF k <= it - 1 THEN 1 ELSE 0
      <4> SUFFICES ASSUME crossings = 0
                   PROVE  /\ prepared' \in [1..N -> {0, 1}]
                          /\ \A k \in 1..N : prepared'[k] = IF k <= it - 1 THEN 1 ELSE 0
        OBVIOUS
      <4>1. /\ prepared \in [1..N -> {0, 1}]
            /\ \A k \in 1..N : prepared[k] = IF k <= it THEN 1 ELSE 0
        BY <1>4, <1>7 DEF ProcAt, Done, Undo
      <4>2. prepared[it] = 1  BY <3>1, <4>1
      <4>3. prepared' = [prepared EXCEPT ![it] = 0]  BY <3>1, <4>1, <4>2
      <4> QED  BY <1>1, <3>1, <4>1, <4>3
    <3>5. t \notin crossed => ProcAt(t)'  BY <2>1, <2>3, <3>2, <3>4 DEF ProcAt, Done
    <3> QED  BY <1>1, <1>2, <1>4, <2>1, <3>1, <3>3, <3>4, <3>5, InsideSerial DEF InTerminate
  <2> QED  BY <2>2, <2>3
<1>8. CASE Undone(t)
  <2>1. /\ pc' = [pc EXCEPT ![t] = "undo"] /\ it' = it - 1
        /\ UNCHANGED <<prepared, crossings, calls>>
        /\ t \notin crossed => Done(it - 1) /\ ~Runs'
        /\ crossings = 0 => it # 0
    BY <1>3, <1>4, <1>8 DEF Undone, Stays, calls, ProcAt, Goto, Runs, app
  <2>2. pc'[t] = "undo" /\ it' \in Int /\ (crossings = 0 => it' \in 0..N)
    BY <1>1, <1>4, <2>1 DEF Places
  <2>3. t \notin crossed => ProcAt(t)'  BY <2>1, <2>2 DEF ProcAt, Done
  <2> QED  BY <1>1, <1>2, <1>4, <2>1, <2>2, <2>3, InsideSerial DEF InTerminate
<1>9. CASE Reset(t)
  <2>1. /\ pc' = [pc EXCEPT ![t] = ret[t]] /\ UNCHANGED <<it, prepared>>
        /\ t \notin crossed => it = 0 /\ Done(0) /\ ~Runs'
        /\ id' = FALSE
    BY <1>3, <1>9 DEF Reset, ProcAt, Runs, app
  <2>2. CASE ret[t] = "exec_set"
    <3>1. UNCHANGED <<crossings, calls>>  BY <1>9, <2>2 DEF Reset, calls
    <3>2. pc'[t] = "exec_set"  BY <2>1, <2>2 DEF Places
    <3>3. t \notin crossed => ProcAt(t)'  BY <2>1, <3>1, <3>2 DEF ProcAt, Done
    <3>4. pc' = [pc EXCEPT ![t] = "exec_set"]  BY <2>1, <2>2
    <3> QED  BY <1>1, <1>2, <1>4, <2>1, <3>1, <3>3, <3>4, InsideSerial DEF InExecute
  <2>3. CASE ret[t] \in Outside
    <3>1. ComesOut(t)  BY <1>9, <2>3 DEF Reset, Outside, InExecute
    <3>2. t \notin crossed => AtRest'  BY <2>1, <3>1 DEF AtRest, Done, ComesOut
    <3> QED  BY <1>2, <2>1, <2>3, <3>1, <3>2, LeaveSerial
  <2> QED  BY <2>2, <2>3 DEF Places
<1> QED  BY <1>5, <1>6, <1>7, <1>8, <1>9 DEF Terminate

LEMMA ExecuteSerial ==
  ASSUME Places, Serial, NEW t \in Threads, Execute(t)
  PROVE  Serial'
<1>1. N \in Nat /\ it \in Int /\ prepared \in [1..N -> 0..2]  BY HostAssumption DEF Serial
<1>2. Inside(t)
  BY DEF Execute, ExecuteSet, ExecutePrep, ExecuteNext, ExecuteStart, Inside, InExecute
<1>3. t \notin crossed => ProcAt(t)  BY <1>2 DEF Serial
<1>4. crossings = 0 => it \in 0..N /\ prepared \in [1..N -> {0, 1}] /\ ProcAt(t)
  BY <1>3 DEF Serial, Uncounted
<1>5. {"restore", "launch_ticket"} \subseteq Outside
  BY DEF Outside, Labels, InTerminate, InExecute
<1>6. CASE ExecuteSet(t)
  <2>1. /\ UNCHANGED <<prepared, placebo, process>>
        /\ t \notin crossed => it = 0 /\ Done(0) /\ ~Runs /\ ~id
    BY <1>3, <1>6 DEF ExecuteSet, ProcAt, app
  <2>2. CASE id' = TRUE /\ it' = 0 /\ Stays(t, "exec_prep")
    <3>1. pc' = [pc EXCEPT ![t] = "exec_prep"] /\ UNCHANGED <<crossings, calls>>
      BY <2>2 DEF Stays, Goto, calls
    <3>2. pc'[t] = "exec_prep" /\ it' \in 0..N /\ it' \in Int  BY <1>1, <2>2, <3>1 DEF Places
    <3>3. t \notin crossed => ProcAt(t)'  BY <2>1, <2>2, <3>1, <3>2 DEF ProcAt, Done, Runs
    <3> QED  BY <1>1, <1>2, <1>4, <2>1, <3>1, <3>2, <3>3, InsideSerial DEF InExecute
  <2>3. CASE UNCHANGED <<id, it>> /\ Leaves(t, "restore")
    <3>1. pc' = [pc EXCEPT ![t] = "restore"] /\ ComesOut(t)  BY <2>3 DEF Leaves, Goto
    <3>2. t \notin crossed => AtRest'  BY <2>1, <2>3, <3>1 DEF AtRest, Done, Runs, ComesOut
    <3> QED  BY <1>2, <1>5, <2>1, <2>3, <3>1, <3>2, LeaveSerial
  <2> QED  BY <1>6, <2>2, <2>3 DEF ExecuteSet
<1>7. CASE ExecutePrep(t)
  <2>1. /\ UNCHANGED <<id, placebo, process, it>> /\ pc[t] = "exec_prep"
        /\ t \notin crossed => id /\ it \in 0..N /\ Done(it) /\ ~Runs
    BY <1>3, <1>7 DEF ExecutePrep, ProcAt, app
  <2>2. CASE /\ it \in 0..(N - 1) /\ Stays(t, "exec_next")
             /\ prepared' = [prepared EXCEPT ![it + 1] = IF @ = 0 THEN 1 ELSE 2]
    <3>1. /\ pc' = [pc EXCEPT ![t] = "exec_next"] /\ UNCHANGED <<crossings, calls>>
          /\ it + 1 \in 1..N
      BY <1>1, <2>2 DEF Stays, Goto, calls
    <3>2. pc'[t] = "exec_next"  BY <3>1 DEF Places
    <3>3. prepared' \in [1..N -> 0..2]  BY <1>1, <2>2
    <3>4. crossings = 0 => /\ prepared' \in [1..N -> {0, 1}]
                           /\ \A k \in 1..N : prepared'[k] = IF k <= it + 1 THEN 1 ELSE 0
      <4> SUFFICES ASSUME crossings = 0
                   PROVE  /\ prepared' \in [1..N -> {0, 1}]
                          /\ \A k \in 1..N : prepared'[k] = IF k <= it + 1 THEN 1 ELSE 0
        OBVIOUS
      <4>1. /\ prepared \in [1..N -> {0, 1}]
            /\ \A k \in 1..N : prepared[k] = IF k <= it THEN 1 ELSE 0
        BY <1>4, <2>1 DEF ProcAt, Done
      <4>2. prepared[it + 1] = 0  BY <1>1, <3>1, <4>1
      <4>3. prepared' = [prepared EXCEPT ![it + 1] = 1]  BY <2>2, <3>1, <4>1, <4>2
      <4> QED  BY <1>1, <2>2, <3>1, <4>1, <4>3
    <3>5. t \notin crossed => ProcAt(t)'
      BY <2>1, <2>2, <3>1, <3>2, <3>4 DEF ProcAt, Done, Runs
    <3> QED  BY <1>1, <1>2, <1>4, <2>1, <3>1, <3>3, <3>4, <3>5, InsideSerial DEF InExecute
  <2>3. CASE CallTerminate(t, "restore") /\ UNCHANGED prepared
    BY <2>1, <2>3, CallSerial DEF proc, app
  <2>4. CASE it = N /\ Stays(t, "exec_start") /\ UNCHANGED prepared
    <3>1. pc' = [pc EXCEPT ![t] = "exec_start"] /\ UNCHANGED <<crossings, calls>>
      BY <2>4 DEF Stays, Goto, calls
    <3>2. pc'[t] = "exec_start"  BY <3>1 DEF Places
    <3>3. t \notin crossed => ProcAt(t)'  BY <2>1, <2>4, <3>1, <3>2 DEF ProcAt, Done, Runs
    <3> QED  BY <1>1, <1>2, <1>4, <2>1, <2>4, <3>1, <3>3, InsideSerial DEF InExecute
  <2> QED  BY <1>7, <2>2, <2>3, <2>4 DEF ExecutePrep
<1>8. CASE ExecuteNext(t)
  <2>1. /\ UNCHANGED <<id, placebo, process, prepared, crossings, calls>> /\ it' = it + 1
        /\ pc[t] = "exec_next" /\ pc' = [pc EXCEPT ![t] = "exec_prep"]
    BY <1>8 DEF ExecuteNext, Stays, Goto, calls, app
  <2>2. pc'[t] = "exec_prep" /\ it' \in Int /\ (crossings = 0 => it' \in 0..N)
    BY <1>1, <1>4, <2>1 DEF Places, ProcAt
  <2>3. t \notin crossed => ProcAt(t)'  BY <1>1, <1>3, <2>1, <2>2 DEF ProcAt, Done, Runs
  <2> QED  BY <1>1, <1>2, <1>4, <2>1, <2>2, <2>3, InsideSerial DEF InExecute
<1>9. CASE ExecuteStart(t)
  <2>1. /\ UNCHANGED <<id, it, prepared>> /\ pc[t] = "exec_start"
        /\ t \notin crossed => id /\ it = N /\ Done(N)
    BY <1>3, <1>9 DEF ExecuteStart, ProcAt
  <2>2. CASE (placebo' = TRUE \/ process' = "runs") /\ Leaves(t, "launch_ticket")
    <3>1. pc' = [pc EXCEPT ![t] = "launch_ticket"] /\ ComesOut(t)  BY <2>2 DEF Leaves, Goto
    <3>2. t \notin crossed => AtRest'  BY <2>1, <2>2, <3>1 DEF AtRest, Done, Runs, ComesOut
    <3> QED  BY <1>2, <1>5, <2>1, <3>1, <3>2, LeaveSerial
  <2>3. CASE CallTerminate(t, "restore") /\ UNCHANGED app
    BY <2>1, <2>3, CallSerial DEF proc
  <2> QED  BY <1>9, <2>2, <2>3 DEF ExecuteStart
<1> QED  BY <1>6, <1>7, <1>8, <1>9 DEF Execute

\* An application that has exited turns out to be detached.
LEMMA DetachSerial ==
  ASSUME Places, Serial, NEW t \in Threads, ~Inside(t), NEW l \in Outside, Goto(t, l),
         UNCHANGED <<id, process, it, prepared>>, Runs, placebo', Crosses(Others(t))
  PROVE  Serial'
<1>1. \A u \in Threads : (pc'[u] = pc[u] /\ u # t) \/ (u = t /\ pc'[u] = l)
  BY DEF Places, Goto
<1>2. \A u \in Threads : Inside(u)' <=> Inside(u)
  BY <1>1 DEF Inside, Outside
<1>3. CASE Others(t) = {}
  <2>1. UNCHANGED <<crossings, crossed, sound>>  BY <1>3 DEF Crosses, calls
  <2>2. \A u \in Threads : ~Inside(u)  BY <1>3 DEF Others
  <2>3. AtRest => AtRest'  BY <2>1 DEF AtRest, Done, Runs
  <2> QED  BY <1>2, <2>1, <2>2, <2>3 DEF Serial, Uncounted
<1>4. CASE Others(t) # {}
  <2>1. \A u \in Threads : Inside(u)' => u \in crossed \cup Others(t)
    BY <1>2 DEF Others
  <2>2. \A u \in crossed \cup Others(t) : u \in Threads /\ Inside(u)'
    BY <1>2 DEF Others, Serial
  <2> QED  BY <1>4, <2>1, <2>2, CrossedSerial
<1> QED  BY <1>3, <1>4

LEMMA AskSerial ==
  ASSUME Places, Serial, NEW t \in Threads, NEW at \in Outside,
         NEW yes \in Outside, NEW minus \in Outside, NEW no \in Outside,
         AskRunning(t, at, yes, minus, no)
  PROVE  Serial'
<1>1. ~Inside(t)  BY DEF AskRunning, Inside, Outside
<1>2. UNCHANGED <<id, process, it, prepared>>  BY DEF AskRunning
<1>3. CASE CallTerminate(t, no) /\ UNCHANGED placebo
  BY <1>1, <1>2, <1>3, CallSerial DEF proc, app
<1>4. CASE \E l \in Outside : Stays(t, l) /\ UNCHANGED placebo
  BY <1>1, <1>2, <1>4, GotoSerial DEF proc, app
<1>5. CASE \E l \in Outside : Goto(t, l) /\ Runs /\ placebo' /\ Crosses(Others(t))
  BY <1>1, <1>2, <1>5, DetachSerial
<1> QED  BY <1>3, <1>4, <1>5 DEF AskRunning, Runs

LEMMA InitSerial == Init => Serial
<1> SUFFICES ASSUME Init PROVE Serial  OBVIOUS
<1>1. N \in Nat /\ MaxCrossings \in Nat  BY HostAssumption
<1>2. /\ it \in 0..N /\ prepared \in [1..N -> {0, 1}] /\ prepared \in [1..N -> 0..2]
      /\ crossings = 0 /\ crossed = {} /\ sound = TRUE
  BY <1>1 DEF Init
<1>3. \A t \in Threads : ~Inside(t)  BY DEF Init, Inside, InTerminate, InExecute
<1>4. AtRest  BY DEF Init, AtRest, Done, Runs
<1> QED  BY <1>1, <1>2, <1>3, <1>4 DEF Serial, Uncounted

LEMMA RequestSerial ==
  ASSUME Places, Serial, NEW t \in Https, Request(t)
  PROVE  Serial'
<1>1. t \in Threads  BY DEF Threads
<1>2. {"idle", "serverinfo_running", "launch_running", "launch_prepare", "launch_execute",
       "launch_ticket", "launch_rollback", "launch_undo", "resume_running", "resume_prepare",
       "resume_ticket", "resume_report", "restore", "launch_join_running", "launch_join_restore",
       "resume_join_running", "resume_join_restore"} \subseteq Outside
  BY DEF Outside, Labels, InTerminate, InExecute, Joins
<1>3. CASE Serverinfo(t) \/ LaunchRunning(t) \/ LaunchRollback(t) \/ ResumeRunning(t) \/ ResumeReport(t) \/ RequestJoins(t)
  BY <1>1, <1>2, <1>3, AskSerial DEF Serverinfo, LaunchRunning, LaunchRollback, ResumeRunning,
     ResumeReport, RequestJoins
<1>4. CASE BeginRequest(t) \/ Return(t) \/ RequestClears(t) \/ RequestRestores(t) \/ LaunchPrepare(t)
           \/ LaunchTicket(t) \/ ResumePrepare(t) \/ ResumeTicket(t)
  <2>1. pc[t] \in Outside /\ UNCHANGED proc /\ \E l \in Outside : Stays(t, l)
    BY <1>2, <1>4 DEF BeginRequest, Return, RequestClears, RequestRestores, LaunchPrepare,
       LaunchTicket, ResumePrepare, ResumeTicket
  <2>2. ~Inside(t)  BY <2>1 DEF Inside, Outside
  <2> QED  BY <1>1, <2>1, <2>2, GotoSerial
<1>5. CASE CloseApp(t) \/ LaunchExecute(t) \/ LaunchUndo(t)
  <2>1. /\ pc[t] \in Outside /\ UNCHANGED proc
        /\ CallTerminate(t, "idle") \/ CallTerminate(t, "exec_set") \/ CallTerminate(t, "restore")
    BY <1>2, <1>5 DEF CloseApp, LaunchExecute, LaunchUndo
  <2>2. ~Inside(t)  BY <2>1 DEF Inside, Outside
  <2> QED  BY <1>1, <2>1, <2>2, CallSerial
<1> QED  BY <1>1, <1>3, <1>4, <1>5, ExecuteSerial DEF Request

LEMMA RtspSerial ==
  ASSUME Places, Serial, Cancel \/ RtspStep
  PROVE  Serial'
<1>1. Rtsp \in Threads  BY DEF Threads
<1>2. RtspPlaces \subseteq Outside
  BY DEF Outside, Labels, InTerminate, InExecute, Joins, RtspPlaces
<1>3. CASE Cancel \/ Handshake
  <2>1. UNCHANGED <<id, placebo, process, it, prepared, pc, calls>>
    BY <1>3 DEF Cancel, Handshake, proc, app
  <2> QED  BY <2>1, SerialFrame
<1>4. CASE ClearStopped \/ ClearAll \/ JoinRestore \/ CancelRestore
  <2>1. pc[Rtsp] \in RtspPlaces /\ UNCHANGED proc /\ \E l \in RtspPlaces : Stays(Rtsp, l)
    BY <1>4 DEF ClearStopped, ClearAll, JoinRestore, CancelRestore, RtspPlaces
  <2>2. ~Inside(Rtsp)  BY <1>2, <2>1 DEF Inside, Outside
  <2> QED  BY <1>1, <1>2, <2>1, <2>2, GotoSerial
<1>5. CASE JoinRunning \/ CancelRunning
  BY <1>1, <1>2, <1>5, AskSerial DEF JoinRunning, CancelRunning, RtspPlaces
<1>6. CASE CancelTerminate
  <2>1. pc[Rtsp] \in RtspPlaces /\ UNCHANGED proc /\ CallTerminate(Rtsp, "cancel_restore")
    BY <1>6 DEF CancelTerminate, RtspPlaces
  <2>2. ~Inside(Rtsp)  BY <1>2, <2>1 DEF Inside, Outside
  <2> QED  BY <1>1, <2>1, <2>2, CallSerial
<1> QED  BY <1>3, <1>4, <1>5, <1>6 DEF RtspStep

LEMMA NextSerial ==
  ASSUME Places, Serial, [Next]_vars
  PROVE  Serial'
<1>1. CASE ControlPoll
  <2>1. Control \in Threads  BY DEF Threads
  <2>2. "idle" \in Outside  BY DEF Outside, Labels, InTerminate, InExecute
  <2> QED  BY <1>1, <2>1, <2>2, AskSerial DEF ControlPoll
<1>2. CASE AppExits
  BY <1>2, SerialFrame DEF AppExits
<1>3. CASE UNCHANGED vars
  BY <1>3, SerialFrame DEF vars, calls
<1> QED  BY <1>1, <1>2, <1>3, TerminateSerial, RequestSerial, RtspSerial DEF Next

\* The invariant of the calls into proc_t.
LEMMA SpecSerial == Spec => [](CleanupInv /\ Serial)
<1>1. CleanupInv => Places  BY DEF CleanupInv
<1>2. Init => CleanupInv /\ Serial  BY InitCleanup, InitSerial
<1>3. (CleanupInv /\ Serial) /\ [Next]_vars => (CleanupInv /\ Serial)'
  BY <1>1, NextCleanup, NextSerial
<1> QED  BY <1>2, <1>3, PTL DEF Spec

\* One clean-up of /cancel waits at most, there are never more tickets or sessions
\* than the bound; and until a call into proc_t comes during another, no command
\* is undone that was not passed, none passed twice, and the iterator of the
\* commands in effect stays within them.
THEOREM HostTypeOK == Spec => []TypeOK
<1>1. CleanupInv /\ Serial => TypeOK
  <2> SUFFICES ASSUME CleanupInv, Serial PROVE TypeOK  OBVIOUS
  <2>1. Places /\ MaxStreams \in Nat  BY HostAssumption DEF CleanupInv
  <2>2. tickets \in 0..MaxStreams /\ sessions \in 0..MaxStreams  BY <2>1 DEF Places
  <2>3. posted \in 0..1
    <3>1. posted \in Nat  BY <2>1 DEF Places
    <3> QED  BY <3>1 DEF CleanupInv, OneCleanup
  <2>4. ret \in [Threads -> Labels]
    <3>1. Outside \cup {"exec_set"} \subseteq Labels  BY DEF Outside, Labels, InExecute
    <3> QED  BY <2>1, <3>1 DEF Places
  <2> QED  BY <2>1, <2>2, <2>3, <2>4 DEF TypeOK, Places, Serial, Uncounted
<1> QED  BY <1>1, SpecSerial, PTL

\* Whenever nobody is in proc_t and the last call to leave it had it alone, an
\* application is there and the iterator at its last command, or there is none
\* and the iterator at the first: whatever overlapping calls did before.  Until
\* calls overlap, the commands themselves are all passed, or all undone.
THEOREM HostPrepared == Spec => []PreparedWhileItRuns
<1>1. Serial => PreparedWhileItRuns
  <2> SUFFICES ASSUME Serial, \A t \in Threads : ~Inside(t), sound PROVE PreparedWhileItRuns
    BY DEF PreparedWhileItRuns
  <2>1. AtRest  BY DEF Serial
  <2>2. N \in Nat  BY HostAssumption
  <2> QED  BY <2>1, <2>2 DEF AtRest, Done, PreparedWhileItRuns
<1> QED  BY <1>1, SpecSerial, PTL

\* An execute that no other call into proc_t overlaps begins with nothing running
\* and the iterator at the first command, whatever calls that overlapped earlier
\* have left; and with every command undone if none has.
THEOREM HostCleanWhenAlone == Spec => []CleanWhenAlone
<1>1. Serial => CleanWhenAlone
  <2> SUFFICES ASSUME Serial, NEW t \in Threads, pc[t] = "exec_set", t \notin crossed
               PROVE  /\ ~id /\ ~Runs /\ it = 0
                      /\ crossings = 0 => \A k \in 1..N : prepared[k] = 0
    BY DEF CleanWhenAlone
  <2>1. ProcAt(t)  BY DEF Serial, Inside, InExecute
  <2> QED  BY <2>1 DEF ProcAt, Done
<1> QED  BY <1>1, SpecSerial, PTL

-----------------------------------------------------------------------------
(* A /cancel that no request crosses.                                       *)

\* The clean-up of /cancel is being served.
UnderWay ==
  \/ pc[Rtsp] \in {"last_running", "last_restore", "cancel_running", "cancel_terminate",
                   "cancel_restore"}
  \/ pc[Rtsp] \in InTerminate /\ ret[Rtsp] \in {"last_restore", "cancel_restore"}

\* A worker that serves no request; it may be ending the application.
Uninvolved(t) == pc[t] = "idle" \/ (pc[t] \in InTerminate /\ ret[t] = "idle")

\* The control thread polls, and cleans up after an application.
ControlPlaces == pc[Control] \in {"idle"} \cup InTerminate /\ ret[Control] = "idle"

\* What runs is the current application, unless the last call to leave proc_t was
\* overlapped, or an execute that another overlaps is about to change it.
LiveIsCurrent == sound /\ Runs /\ ~id => \E t \in crossed : pc[t] = "exec_set"

\* While no request crosses it, the clean-up keeps the tickets and sessions
\* cleared, and no worker begins anything.
Uncrossed ==
  alone => /\ UnderWay /\ tickets = 0 /\ sessions = 0
           /\ \A t \in Https : Uninvolved(t)

\* Then nothing runs once terminate has returned or had nothing to end.
NothingRuns == alone /\ sound /\ pc[Rtsp] = "cancel_restore" => ~Runs

LEMMA NextControl == ASSUME Places, ControlPlaces, [Next]_vars PROVE ControlPlaces'
<1>0. Control \in Threads /\ Rtsp \in Threads /\ Https \subseteq Threads /\ Control \notin Https \cup {Rtsp}
  BY HostAssumption DEF Threads
<1>1. ASSUME NEW t \in Threads, t # Control, NEW l, NEW r,
             pc' = [pc EXCEPT ![t] = l] \/ pc' = pc, ret' = [ret EXCEPT ![t] = r] \/ ret' = ret
      PROVE  ControlPlaces'
  BY <1>0, <1>1 DEF Places, ControlPlaces
<1>2. ASSUME NEW t \in Threads, Terminate(t) PROVE ControlPlaces'
  <2>1. \/ \E l \in InTerminate : pc' = [pc EXCEPT ![t] = l] /\ ret' = ret
        \/ pc' = [pc EXCEPT ![t] = ret[t]] /\ ret' = [ret EXCEPT ![t] = "idle"]
    BY <1>2 DEF Terminate, Kill, Killed, Undo, Undone, Reset, Stays, Goto, InTerminate
  <2>2. CASE t = Control
    BY <1>0, <2>1, <2>2 DEF Places, ControlPlaces
  <2> QED  BY <1>1, <2>1, <2>2
<1>3. ASSUME NEW t \in Https, Request(t) PROVE ControlPlaces'
  <2>1. \E l, r : (pc' = [pc EXCEPT ![t] = l] \/ pc' = pc) /\ (ret' = [ret EXCEPT ![t] = r] \/ ret' = ret)
    BY <1>3 DEF Request, BeginRequest, CloseApp, Serverinfo, Execute, ExecuteSet, ExecutePrep,
       ExecuteNext, ExecuteStart, Return, LaunchRunning, LaunchPrepare, LaunchExecute, LaunchTicket,
       LaunchRollback, LaunchUndo, RequestClears, RequestJoins, RequestRestores, ResumeRunning,
       ResumePrepare, ResumeTicket, ResumeReport, AskRunning, Stays, Leaves, Goto, CallTerminate
  <2> QED  BY <1>0, <1>1, <2>1
<1>4. CASE RtspStep
  <2>1. \E l, r : (pc' = [pc EXCEPT ![Rtsp] = l] \/ pc' = pc) /\ (ret' = [ret EXCEPT ![Rtsp] = r] \/ ret' = ret)
    BY <1>4 DEF RtspStep, Handshake, ClearStopped, ClearAll, JoinRunning, JoinRestore,
       CancelRunning, CancelTerminate, CancelRestore, AskRunning, Stays, Goto, CallTerminate
  <2> QED  BY <1>0, <1>1, <2>1
<1>5. CASE ControlPoll
  <2>1. \/ pc' = [pc EXCEPT ![Control] = "idle"] /\ ret' = ret
        \/ pc' = [pc EXCEPT ![Control] = "kill"] /\ ret' = [ret EXCEPT ![Control] = "idle"]
    BY <1>5 DEF ControlPoll, AskRunning, Stays, Goto, CallTerminate
  <2> QED  BY <1>0, <2>1 DEF Places, ControlPlaces, InTerminate
<1>6. CASE Cancel \/ AppExits \/ UNCHANGED vars
  BY <1>6 DEF Cancel, AppExits, vars, ControlPlaces
<1> QED  BY <1>2, <1>3, <1>4, <1>5, <1>6 DEF Next

\* A call that comes during another only adds to the calls that are overlapped.
LEMMA CrossesGrows ==
  ASSUME NEW S, Crosses(S)
  PROVE  crossed \subseteq crossed' /\ sound' = sound
BY DEF Crosses, calls

\* A step of a thread that is not about to become the current application's, and
\* that makes none run.
LEMMA CurrentFrame ==
  ASSUME Places, Serial, LiveIsCurrent, NEW t \in Threads, pc[t] # "exec_set",
         \A u \in Threads \ {t} : pc'[u] = pc[u],
         id' = id \/ id' = TRUE, Runs' => Runs, sound' = sound, crossed \subseteq crossed'
  PROVE  LiveIsCurrent'
<1> SUFFICES ASSUME sound, Runs, ~id PROVE \E u \in crossed' : pc'[u] = "exec_set"
  BY DEF LiveIsCurrent
<1>1. PICK u \in crossed : pc[u] = "exec_set"  BY DEF LiveIsCurrent
<1>2. u \in Threads \ {t}  BY <1>1 DEF Serial
<1> QED  BY <1>1, <1>2

\* A thread leaves proc_t: if it was alone there, what runs is current.
LEMMA CurrentLeaves ==
  ASSUME NEW t, ComesOut(t), t \notin crossed => id' \/ ~Runs'
  PROVE  LiveIsCurrent'
BY DEF ComesOut, LiveIsCurrent

LEMMA TerminateCurrent ==
  ASSUME Places, Serial, LiveIsCurrent, NEW t \in Threads, Terminate(t)
  PROVE  LiveIsCurrent'
<1>1. CASE Reset(t)
  <2>1. pc[t] = "reset" /\ Inside(t) /\ UNCHANGED app
    BY <1>1 DEF Reset, Inside, InTerminate
  <2>2. t \notin crossed => ~Runs'
    BY <2>1 DEF Serial, ProcAt, Runs, app
  <2>3. CASE ret[t] = "exec_set"
    <3>1. UNCHANGED calls /\ pc'[t] = "exec_set"  BY <1>1, <2>3 DEF Reset, Places
    <3> QED  BY <2>2, <3>1 DEF LiveIsCurrent, calls
  <2>4. CASE ret[t] # "exec_set"
    <3>1. ComesOut(t)  BY <1>1, <2>4 DEF Reset
    <3> QED  BY <2>2, <3>1, CurrentLeaves
  <2> QED  BY <2>3, <2>4
<1>2. CASE Kill(t) \/ Killed(t) \/ Undo(t) \/ Undone(t)
  <2>1. /\ pc[t] # "exec_set" /\ id' = id /\ (Runs' => Runs) /\ UNCHANGED calls
        /\ \E l : pc' = [pc EXCEPT ![t] = l]
    BY <1>2 DEF Kill, Killed, Undo, Undone, Stays, Goto, proc, app, Runs
  <2> QED  BY <2>1, CurrentFrame DEF Places, calls
<1> QED  BY <1>1, <1>2 DEF Terminate

LEMMA ExecuteCurrent ==
  ASSUME Places, Serial, LiveIsCurrent, NEW t \in Threads, Execute(t)
  PROVE  LiveIsCurrent'
<1>1. Inside(t)
  BY DEF Execute, ExecuteSet, ExecutePrep, ExecuteNext, ExecuteStart, Inside, InExecute
<1>2. t \notin crossed => ProcAt(t)  BY <1>1 DEF Serial
<1>3. CASE ExecuteSet(t)
  <2>1. UNCHANGED app /\ pc[t] = "exec_set"  BY <1>3 DEF ExecuteSet
  <2>2. CASE id' = TRUE
    BY <2>2 DEF LiveIsCurrent
  <2>3. CASE Leaves(t, "restore")
    BY <1>2, <2>1, <2>3, CurrentLeaves DEF Leaves, ProcAt, Runs, app
  <2> QED  BY <1>3, <2>2, <2>3 DEF ExecuteSet
<1>4. CASE \/ ExecutePrep(t) \/ ExecuteNext(t)
           \/ ExecuteStart(t) /\ CallTerminate(t, "restore") /\ UNCHANGED app
  <2>1. /\ pc[t] # "exec_set" /\ id' = id /\ UNCHANGED app
        /\ \E l : pc' = [pc EXCEPT ![t] = l]
        /\ UNCHANGED calls \/ CallTerminate(t, "restore")
    BY <1>4 DEF ExecutePrep, ExecuteNext, ExecuteStart, Stays, Goto, CallTerminate
  <2>2. crossed \subseteq crossed' /\ sound' = sound
    BY <2>1, CrossesGrows DEF CallTerminate, calls
  <2>3. Runs' => Runs  BY <2>1 DEF Runs, app
  <2> QED  BY <2>1, <2>2, <2>3, CurrentFrame DEF Places
<1>5. CASE ExecuteStart(t) /\ Leaves(t, "launch_ticket")
  BY <1>2, <1>5, CurrentLeaves DEF ExecuteStart, Leaves, ProcAt
<1>6. CASE ExecuteStart(t)
  <2>1. Leaves(t, "launch_ticket") \/ (CallTerminate(t, "restore") /\ UNCHANGED app)
    BY <1>6 DEF ExecuteStart
  <2> QED  BY <1>4, <1>5, <1>6, <2>1
<1> QED  BY <1>3, <1>4, <1>6 DEF Execute

LEMMA AskCurrent ==
  ASSUME Places, Serial, LiveIsCurrent, NEW t \in Threads, NEW at, at # "exec_set",
         NEW yes, NEW minus, NEW no, AskRunning(t, at, yes, minus, no)
  PROVE  LiveIsCurrent'
<1>1. pc[t] # "exec_set" /\ id' = id /\ (Runs' => Runs) /\ \E l : pc' = [pc EXCEPT ![t] = l]
  BY DEF AskRunning, Stays, Goto, CallTerminate, Runs
<1>2. UNCHANGED calls \/ \E S : Crosses(S)
  BY DEF AskRunning, Stays, CallTerminate
<1>3. crossed \subseteq crossed' /\ sound' = sound
  BY <1>2, CrossesGrows DEF calls
<1> QED  BY <1>1, <1>3, CurrentFrame DEF Places

LEMMA RequestCurrent ==
  ASSUME Places, Serial, LiveIsCurrent, NEW t \in Https, Request(t)
  PROVE  LiveIsCurrent'
<1>0. t \in Threads  BY DEF Threads
<1>1. CASE Serverinfo(t) \/ LaunchRunning(t) \/ LaunchRollback(t) \/ ResumeRunning(t)
           \/ ResumeReport(t) \/ RequestJoins(t)
  BY <1>0, <1>1, AskCurrent DEF Serverinfo, LaunchRunning, LaunchRollback, ResumeRunning,
     ResumeReport, RequestJoins
<1>2. CASE BeginRequest(t) \/ Return(t) \/ RequestClears(t) \/ RequestRestores(t)
           \/ LaunchPrepare(t) \/ LaunchTicket(t) \/ ResumePrepare(t) \/ ResumeTicket(t)
  <2>1. /\ pc[t] # "exec_set" /\ UNCHANGED proc /\ UNCHANGED calls
        /\ \E l : pc' = [pc EXCEPT ![t] = l]
    BY <1>2 DEF BeginRequest, Return, RequestClears, RequestRestores, LaunchPrepare, LaunchTicket,
       ResumePrepare, ResumeTicket, Stays, Goto
  <2> QED  BY <1>0, <2>1, CurrentFrame DEF Places, proc, app, calls, Runs
<1>3. CASE CloseApp(t) \/ LaunchExecute(t) \/ LaunchUndo(t)
  <2>1. /\ pc[t] # "exec_set" /\ UNCHANGED proc
        /\ (\E l : pc' = [pc EXCEPT ![t] = l]) /\ \E S : Crosses(S)
    BY <1>3 DEF CloseApp, LaunchExecute, LaunchUndo, CallTerminate
  <2>2. crossed \subseteq crossed' /\ sound' = sound  BY <2>1, CrossesGrows
  <2> QED  BY <1>0, <2>1, <2>2, CurrentFrame DEF Places, proc, app, Runs
<1> QED  BY <1>0, <1>1, <1>2, <1>3, ExecuteCurrent DEF Request

LEMMA RtspCurrent ==
  ASSUME Places, Serial, LiveIsCurrent, Cancel \/ RtspStep
  PROVE  LiveIsCurrent'
<1>0. Rtsp \in Threads  BY DEF Threads
<1>1. CASE JoinRunning \/ CancelRunning
  BY <1>0, <1>1, AskCurrent DEF JoinRunning, CancelRunning
<1>2. CASE Cancel \/ Handshake
  BY <1>2 DEF Cancel, Handshake, LiveIsCurrent, Runs, proc, app, calls
<1>3. CASE ClearStopped \/ ClearAll \/ JoinRestore \/ CancelRestore
  <2>1. /\ pc[Rtsp] # "exec_set" /\ UNCHANGED proc /\ UNCHANGED calls
        /\ \E l : pc' = [pc EXCEPT ![Rtsp] = l]
    BY <1>3 DEF ClearStopped, ClearAll, JoinRestore, CancelRestore, Stays, Goto
  <2> QED  BY <1>0, <2>1, CurrentFrame DEF Places, proc, app, calls, Runs
<1>4. CASE CancelTerminate
  <2>1. /\ pc[Rtsp] # "exec_set" /\ UNCHANGED proc
        /\ (\E l : pc' = [pc EXCEPT ![Rtsp] = l]) /\ \E S : Crosses(S)
    BY <1>4 DEF CancelTerminate, CallTerminate
  <2>2. crossed \subseteq crossed' /\ sound' = sound  BY <2>1, CrossesGrows
  <2> QED  BY <1>0, <2>1, <2>2, CurrentFrame DEF Places, proc, app, Runs
<1> QED  BY <1>1, <1>2, <1>3, <1>4 DEF RtspStep

LEMMA NextCurrent ==
  ASSUME Places, Serial, LiveIsCurrent, [Next]_vars
  PROVE  LiveIsCurrent'
<1>1. CASE ControlPoll
  <2>1. Control \in Threads  BY DEF Threads
  <2> QED  BY <1>1, <2>1, AskCurrent DEF ControlPoll
<1>2. CASE AppExits \/ UNCHANGED vars
  BY <1>2 DEF AppExits, vars, LiveIsCurrent, Runs, calls
<1> QED  BY <1>1, <1>2, TerminateCurrent, RequestCurrent, RtspCurrent DEF Next

\* A step that neither the workers nor the RTSP thread take.
LEMMA UncrossedFrame ==
  ASSUME Uncrossed, alone' = alone, tickets' = tickets, sessions' = sessions,
         \A t \in Https \cup {Rtsp} : pc'[t] = pc[t] /\ ret'[t] = ret[t]
  PROVE  Uncrossed'
BY DEF Uncrossed, UnderWay, Uninvolved

\* A step of terminate stays inside, or returns; no other thread moves.
LEMMA TerminateMoves ==
  ASSUME Places, NEW t \in Threads, Terminate(t)
  PROVE  /\ UNCHANGED <<tickets, sessions, alone>> /\ (Runs' => Runs)
         /\ pc[t] \in InTerminate
         /\ \A u \in Threads \ {t} : pc'[u] = pc[u] /\ ret'[u] = ret[u]
         /\ \/ pc'[t] \in InTerminate /\ ret'[t] = ret[t] /\ UNCHANGED calls
            \/ pc'[t] = ret[t] /\ pc[t] = "reset" /\ Reset(t)
<1>1. /\ UNCHANGED <<tickets, sessions, alone>> /\ (Runs' => Runs)
  BY DEF Terminate, Kill, Killed, Undo, Undone, Reset, streams, cleanup, proc, app, Runs
<1>2. pc[t] \in InTerminate
  BY DEF Terminate, Kill, Killed, Undo, Undone, Reset, InTerminate
<1>3. \/ (\E l \in InTerminate : pc' = [pc EXCEPT ![t] = l] /\ ret' = ret) /\ UNCHANGED calls
      \/ /\ pc' = [pc EXCEPT ![t] = ret[t]] /\ ret' = [ret EXCEPT ![t] = "idle"]
         /\ Reset(t) /\ pc[t] = "reset"
  BY DEF Terminate, Kill, Killed, Undo, Undone, Reset, Stays, Goto, InTerminate
<1> QED  BY <1>1, <1>2, <1>3 DEF Places

LEMMA TerminateUncrossed ==
  ASSUME Places, Uncrossed, NEW t \in Threads, Terminate(t)
  PROVE  Uncrossed'
<1>1. /\ UNCHANGED <<tickets, sessions, alone>> /\ pc[t] \in InTerminate
      /\ \A u \in Threads \ {t} : pc'[u] = pc[u] /\ ret'[u] = ret[u]
      /\ (pc'[t] \in InTerminate /\ ret'[t] = ret[t]) \/ pc'[t] = ret[t]
  BY TerminateMoves
<1>2. Rtsp \in Threads /\ Https \subseteq Threads /\ Rtsp \notin Https
  BY HostAssumption DEF Threads
<1>3. CASE t = Rtsp
  <2> SUFFICES ASSUME alone PROVE Uncrossed'  BY <1>1 DEF Uncrossed
  <2>1. ret[Rtsp] \in {"last_restore", "cancel_restore"}
    BY <1>1, <1>3 DEF Uncrossed, UnderWay, InTerminate
  <2>2. UnderWay'  BY <1>1, <1>3, <2>1 DEF UnderWay
  <2> QED  BY <1>1, <1>2, <1>3, <2>2 DEF Uncrossed, Uninvolved
<1>4. CASE t \in Https
  <2> SUFFICES ASSUME alone PROVE Uncrossed'  BY <1>1 DEF Uncrossed
  <2>1. ret[t] = "idle"
    BY <1>1, <1>4 DEF Uncrossed, Uninvolved, InTerminate
  <2>2. Uninvolved(t)'  BY <1>1, <2>1 DEF Uninvolved
  <2>3. pc'[Rtsp] = pc[Rtsp] /\ ret'[Rtsp] = ret[Rtsp]  BY <1>1, <1>2, <1>4
  <2> QED  BY <1>1, <1>2, <2>2, <2>3 DEF Uncrossed, UnderWay, Uninvolved
<1>5. CASE t \notin Https \cup {Rtsp}
  BY <1>1, <1>2, <1>5, UncrossedFrame
<1> QED  BY <1>3, <1>4, <1>5

\* While no request crosses the clean-up, a worker can only end the application.
LEMMA RequestMoves ==
  ASSUME Uncrossed, NEW t \in Https, Request(t), ~BeginRequest(t)
  PROVE  ~CloseApp(t) => ~alone /\ ~alone'
<1> SUFFICES ASSUME ~CloseApp(t) PROVE ~alone /\ ~alone'  OBVIOUS
<1>1. ~Uninvolved(t) /\ alone' = alone
  BY DEF Request, Serverinfo, Execute, ExecuteSet, ExecutePrep, ExecuteNext, ExecuteStart, Return,
     LaunchRunning, LaunchPrepare, LaunchExecute, LaunchTicket, LaunchRollback, LaunchUndo,
     RequestClears, RequestJoins, RequestRestores, ResumeRunning, ResumePrepare, ResumeTicket,
     ResumeReport, AskRunning, Uninvolved, InTerminate, cleanup
<1> QED  BY <1>1 DEF Uncrossed

LEMMA RequestUncrossed ==
  ASSUME Places, Uncrossed, NEW t \in Https, Request(t)
  PROVE  Uncrossed'
<1>1. t \in Threads /\ t # Rtsp /\ Rtsp \in Threads /\ Https \subseteq Threads
  BY HostAssumption DEF Threads
<1>2. CASE BeginRequest(t)
  BY <1>2 DEF BeginRequest, Uncrossed
<1>3. CASE CloseApp(t)
  <2>1. /\ pc' = [pc EXCEPT ![t] = "kill"] /\ ret' = [ret EXCEPT ![t] = "idle"]
        /\ UNCHANGED <<tickets, sessions, alone>>
    BY <1>3 DEF CloseApp, CallTerminate, streams, cleanup, proc
  <2>2. /\ pc'[t] = "kill" /\ ret'[t] = "idle"
        /\ \A u \in Threads \ {t} : pc'[u] = pc[u] /\ ret'[u] = ret[u]
    BY <1>1, <2>1 DEF Places
  <2>3. Uninvolved(t)'  BY <2>2 DEF Uninvolved, InTerminate
  <2> QED  BY <1>1, <2>1, <2>2, <2>3 DEF Uncrossed, UnderWay, Uninvolved
<1>4. CASE ~BeginRequest(t) /\ ~CloseApp(t)
  BY <1>4, RequestMoves DEF Uncrossed
<1> QED  BY <1>2, <1>3, <1>4

\* What the RTSP thread asks of running() during the clean-up.
LEMMA AskUncrossed ==
  ASSUME Places, Uncrossed, alone, NEW at, NEW yes, NEW minus, NEW no,
         AskRunning(Rtsp, at, yes, minus, no),
         {yes, minus} \subseteq {"cancel_running", "cancel_terminate", "cancel_restore"},
         no \in {"last_restore", "cancel_restore"}
  PROVE  Uncrossed'
<1>1. Rtsp \in Threads /\ Https \subseteq Threads /\ Rtsp \notin Https
  BY HostAssumption DEF Threads
<1>2. UNCHANGED <<tickets, sessions, alone>>
  BY DEF AskRunning, streams, cleanup
<1>3. \/ \E l \in {yes, minus, no} : pc' = [pc EXCEPT ![Rtsp] = l] /\ ret' = ret
      \/ pc' = [pc EXCEPT ![Rtsp] = "kill"] /\ ret' = [ret EXCEPT ![Rtsp] = no]
  BY DEF AskRunning, Stays, Goto, CallTerminate
<1>4. \A t \in Threads \ {Rtsp} : pc'[t] = pc[t] /\ ret'[t] = ret[t]
  BY <1>1, <1>3 DEF Places
<1>5. UnderWay'
  BY <1>1, <1>3 DEF Places, UnderWay, InTerminate
<1> QED  BY <1>1, <1>2, <1>4, <1>5 DEF Uncrossed, Uninvolved

LEMMA RtspUncrossed ==
  ASSUME Places, Uncrossed, Cancel \/ RtspStep
  PROVE  Uncrossed'
<1>1. Rtsp \in Threads /\ Https \subseteq Threads /\ Rtsp \notin Https
  BY HostAssumption DEF Threads
<1>2. CASE Cancel
  BY <1>2, UncrossedFrame DEF Cancel, streams, proc
<1>3. CASE ClearAll
  <2>1. /\ tickets' = 0 /\ sessions' = 0 /\ alone' = (\A t \in Https : pc[t] = "idle")
        /\ \E l \in {"last_running", "cancel_running"} : pc' = [pc EXCEPT ![Rtsp] = l]
        /\ ret' = ret
    BY <1>3 DEF ClearAll, Stays, Goto
  <2>2. /\ pc'[Rtsp] \in {"last_running", "cancel_running"}
        /\ \A t \in Https : pc'[t] = pc[t]
    BY <1>1, <2>1 DEF Places
  <2>3. UnderWay'  BY <2>2 DEF UnderWay
  <2>4. alone' => \A t \in Https : Uninvolved(t)'
    BY <2>1, <2>2 DEF Uninvolved
  <2> QED  BY <2>1, <2>3, <2>4 DEF Uncrossed
<1>4. CASE CancelRestore
  BY <1>4 DEF CancelRestore, Uncrossed
<1>5. CASE Handshake \/ ClearStopped
  <2>1. ~UnderWay /\ alone' = alone
    BY <1>5 DEF Handshake, ClearStopped, UnderWay, InTerminate, cleanup
  <2> QED  BY <2>1 DEF Uncrossed
<1>6. CASE JoinRunning \/ CancelRunning \/ JoinRestore \/ CancelTerminate
  <2>1. alone' = alone
    BY <1>6 DEF JoinRunning, CancelRunning, JoinRestore, CancelTerminate, AskRunning, cleanup
  <2> SUFFICES ASSUME alone PROVE Uncrossed'  BY <2>1 DEF Uncrossed
  <2>2. pc[Rtsp] \notin {"join_running", "join_restore"}
    BY DEF Uncrossed, UnderWay, InTerminate
  <2>3. CASE JoinRunning \/ CancelRunning
    BY <2>2, <2>3, AskUncrossed DEF JoinRunning, CancelRunning, AskRunning
  <2>4. CASE JoinRestore \/ CancelTerminate
    <3>1. /\ UNCHANGED <<tickets, sessions>>
          /\ \/ pc' = [pc EXCEPT ![Rtsp] = "cancel_running"] /\ ret' = ret
             \/ pc' = [pc EXCEPT ![Rtsp] = "kill"] /\ ret' = [ret EXCEPT ![Rtsp] = "cancel_restore"]
      BY <2>2, <2>4 DEF JoinRestore, CancelTerminate, Stays, Goto, CallTerminate, streams
    <3>2. \A t \in Threads \ {Rtsp} : pc'[t] = pc[t] /\ ret'[t] = ret[t]
      BY <1>1, <3>1 DEF Places
    <3>3. UnderWay'
      BY <1>1, <3>1 DEF Places, UnderWay, InTerminate
    <3> QED  BY <1>1, <2>1, <3>1, <3>2, <3>3 DEF Uncrossed, Uninvolved
  <2> QED  BY <1>6, <2>3, <2>4
<1> QED  BY <1>2, <1>3, <1>4, <1>5, <1>6 DEF RtspStep

\* A step of the control thread, or of none, moves no other thread.
LEMMA ElseMoves ==
  ASSUME Places, ControlPoll \/ AppExits \/ UNCHANGED vars
  PROVE  /\ UNCHANGED <<tickets, sessions, alone>> /\ (Runs' => Runs) /\ sound' = sound
         /\ \A t \in Https \cup {Rtsp} : pc'[t] = pc[t] /\ ret'[t] = ret[t]
<1>1. CASE ControlPoll
  <2>1. Control \notin Https \cup {Rtsp} /\ Https \cup {Rtsp} \subseteq Threads
    BY HostAssumption DEF Threads
  <2>2. UNCHANGED <<tickets, sessions, alone>> /\ (Runs' => Runs)
    BY <1>1 DEF ControlPoll, AskRunning, Runs, streams, cleanup
  <2>4. UNCHANGED calls \/ \E S : Crosses(S)
    BY <1>1 DEF ControlPoll, AskRunning, Stays, CallTerminate
  <2>5. sound' = sound  BY <2>4, CrossesGrows DEF calls
  <2>3. \E l : /\ pc' = [pc EXCEPT ![Control] = l]
               /\ ret' = ret \/ ret' = [ret EXCEPT ![Control] = "idle"]
    BY <1>1 DEF ControlPoll, AskRunning, Stays, Goto, CallTerminate
  <2> QED  BY <2>1, <2>2, <2>3, <2>5 DEF Places
<1>2. CASE AppExits \/ UNCHANGED vars
  BY <1>2 DEF AppExits, vars, streams, cleanup, calls, Runs
<1> QED  BY <1>1, <1>2

LEMMA NextUncrossed == ASSUME Places, Uncrossed, [Next]_vars PROVE Uncrossed'
<1>1. CASE ControlPoll \/ AppExits \/ UNCHANGED vars
  BY <1>1, ElseMoves, UncrossedFrame
<1> QED  BY <1>1, TerminateUncrossed, RequestUncrossed, RtspUncrossed DEF Next

\* The clean-up asks for the current application, and what runs is that one.
LEMMA NextNothingRuns ==
  ASSUME Places, Serial, ControlPlaces, LiveIsCurrent, Uncrossed, NothingRuns, [Next]_vars
  PROVE  NothingRuns'
<1>1. Rtsp \in Threads /\ Https \subseteq Threads /\ Rtsp \notin Https
  BY HostAssumption DEF Threads
<1>2. ASSUME NEW t \in Threads, Terminate(t) PROVE NothingRuns'
  <2>1. /\ alone' = alone /\ (Runs' => Runs) /\ pc[t] \in InTerminate
        /\ \A u \in Threads \ {t} : pc'[u] = pc[u]
        /\ \/ pc'[t] \in InTerminate /\ UNCHANGED calls
           \/ pc'[t] = ret[t] /\ pc[t] = "reset" /\ Reset(t)
    BY <1>2, TerminateMoves
  <2>2. CASE Reset(t) /\ ret[t] # "exec_set"
    <3>1. t \notin crossed => ~Runs
      BY <2>1, <2>2 DEF Reset, Serial, Inside, ProcAt
    <3>2. sound' = (t \notin crossed)  BY <2>2 DEF Reset, ComesOut
    <3> QED  BY <2>1, <3>1, <3>2 DEF NothingRuns
  <2>3. CASE UNCHANGED calls /\ pc'[t] # "cancel_restore"
    BY <1>1, <2>1, <2>3 DEF NothingRuns, calls
  <2>4. CASE Reset(t) /\ ret[t] = "exec_set"
    <3>1. UNCHANGED calls  BY <2>4 DEF Reset
    <3>2. pc'[t] = "exec_set"  BY <2>4 DEF Reset, Places
    <3> QED  BY <2>3, <3>1, <3>2
  <2> QED  BY <2>1, <2>2, <2>3, <2>4 DEF InTerminate
<1>3. ASSUME NEW t \in Https, Request(t) PROVE NothingRuns'
  <2>1. CASE BeginRequest(t)
    BY <2>1 DEF BeginRequest, NothingRuns
  <2>2. CASE CloseApp(t)
    <3>1. /\ UNCHANGED <<placebo, process, alone>> /\ pc' = [pc EXCEPT ![t] = "kill"]
          /\ \E S : Crosses(S)
      BY <2>2 DEF CloseApp, CallTerminate, cleanup, proc, app
    <3>2. pc'[Rtsp] = pc[Rtsp] /\ sound' = sound  BY <1>1, <3>1, CrossesGrows DEF Places
    <3> QED  BY <3>1, <3>2 DEF NothingRuns, Runs
  <2>3. CASE ~BeginRequest(t) /\ ~CloseApp(t)
    BY <1>3, <2>3, RequestMoves DEF NothingRuns
  <2> QED  BY <2>1, <2>2, <2>3
<1>4. CASE RtspStep
  <2>1. pc[Rtsp] \in {"join_running", "join_restore"} => ~alone
    BY DEF Uncrossed, UnderWay, InTerminate
  <2>2. CASE Handshake \/ ClearStopped
    <3>1. ~UnderWay /\ alone' = alone
      BY <2>2 DEF Handshake, ClearStopped, UnderWay, InTerminate, cleanup
    <3> QED  BY <3>1 DEF Uncrossed, NothingRuns
  <2>3. CASE ClearAll
    <3>1. \E l \in {"last_running", "cancel_running"} : pc' = [pc EXCEPT ![Rtsp] = l]
      BY <2>3 DEF ClearAll, Stays, Goto
    <3> QED  BY <1>1, <3>1 DEF NothingRuns, Places
  <2>4. CASE CancelRestore
    BY <2>4 DEF CancelRestore, NothingRuns
  <2>5. CASE JoinRestore \/ CancelTerminate
    <3>1. \E l \in {"idle", "cancel_running", "kill"} : pc' = [pc EXCEPT ![Rtsp] = l]
      BY <2>5 DEF JoinRestore, CancelTerminate, Stays, Goto, CallTerminate
    <3> QED  BY <1>1, <3>1 DEF NothingRuns, Places
  <2>6. CASE JoinRunning
    <3>1. \E l \in {"idle", "join_restore", "cancel_running", "last_restore", "kill"} :
            pc' = [pc EXCEPT ![Rtsp] = l]
      BY <2>6 DEF JoinRunning, AskRunning, Stays, Goto, CallTerminate
    <3> QED  BY <1>1, <3>1 DEF NothingRuns, Places
  <2>7. CASE CancelRunning
    <3>1. alone => (sound /\ Runs => id)
      <4> SUFFICES ASSUME alone, NEW t \in crossed, pc[t] = "exec_set" PROVE FALSE
        BY DEF LiveIsCurrent
      <4>1. t \in Https \cup {Rtsp, Control}  BY DEF Serial, Threads
      <4> QED  BY <4>1 DEF Uncrossed, Uninvolved, Places, ControlPlaces, RtspPlaces, InTerminate
    <3>2. /\ alone' = alone
          /\ \/ pc' = [pc EXCEPT ![Rtsp] = "cancel_terminate"]
             \/ pc' = [pc EXCEPT ![Rtsp] = "kill"]
             \/ /\ pc' = [pc EXCEPT ![Rtsp] = "cancel_restore"] /\ ~id /\ Runs
                /\ sound' = sound
             \/ pc' = [pc EXCEPT ![Rtsp] = "cancel_restore"] /\ ~Runs'
      <4>1. alone' = alone  BY <2>7 DEF CancelRunning, AskRunning, cleanup
      <4>2. CASE /\ placebo \/ process = "runs"
                 /\ Stays(Rtsp, IF id THEN "cancel_terminate" ELSE "cancel_restore") /\ UNCHANGED placebo
        BY <4>1, <4>2 DEF Stays, Goto, calls, Runs
      <4>3. CASE /\ ~placebo /\ process = "exited" /\ placebo' = TRUE /\ Crosses(Others(Rtsp))
                 /\ Goto(Rtsp, IF id THEN "cancel_terminate" ELSE "cancel_restore")
        BY <4>1, <4>3, CrossesGrows DEF Goto, Runs
      <4>4. CASE CallTerminate(Rtsp, "cancel_restore")
        BY <4>1, <4>4 DEF CallTerminate
      <4>5. CASE ~Runs /\ Stays(Rtsp, "cancel_restore") /\ UNCHANGED <<placebo, process>>
        BY <4>1, <4>5 DEF Stays, Goto, Runs
      <4> QED  BY <2>7, <4>2, <4>3, <4>4, <4>5 DEF CancelRunning, AskRunning
    <3> QED  BY <1>1, <3>1, <3>2 DEF NothingRuns, Places
  <2> QED  BY <1>4, <2>2, <2>3, <2>4, <2>5, <2>6, <2>7 DEF RtspStep
<1>5. CASE Cancel
  BY <1>5 DEF Cancel, NothingRuns, Runs, proc, app, calls
<1>6. CASE ControlPoll \/ AppExits \/ UNCHANGED vars
  BY <1>6, ElseMoves DEF NothingRuns
<1> QED  BY <1>2, <1>3, <1>4, <1>5, <1>6 DEF Next

\* Only the completion of /cancel goes on from there to the loop.
LEMMA OnlyRestores ==
  ASSUME Places, [Next]_vars, pc[Rtsp] = "cancel_restore", pc'[Rtsp] = "idle"
  PROVE  CancelRestore
<1> SUFFICES ASSUME ~CancelRestore PROVE FALSE  OBVIOUS
<1>0. Rtsp \in Threads /\ Rtsp \notin Https /\ Rtsp # Control
  BY HostAssumption DEF Threads
<1>1. ASSUME NEW t \in Threads, t # Rtsp, NEW l, pc' = [pc EXCEPT ![t] = l] PROVE FALSE
  BY <1>0, <1>1 DEF Places
<1>2. pc' # pc  OBVIOUS
<1>3. ASSUME NEW t \in Threads, Terminate(t) PROVE FALSE
  <2>1. t # Rtsp
    BY <1>3 DEF Terminate, Kill, Killed, Undo, Undone, Reset
  <2>2. \E l : pc' = [pc EXCEPT ![t] = l]
    BY <1>3 DEF Terminate, Kill, Killed, Undo, Undone, Reset, Stays, Goto
  <2> QED  BY <1>1, <2>1, <2>2
<1>4. ASSUME NEW t \in Https, Request(t) PROVE FALSE
  <2>1. t \in Threads /\ t # Rtsp  BY <1>0 DEF Threads
  <2>2. pc' = pc \/ \E l : pc' = [pc EXCEPT ![t] = l]
    BY <1>4 DEF Request, BeginRequest, CloseApp, Serverinfo, Execute, ExecuteSet, ExecutePrep,
       ExecuteNext, ExecuteStart, Return, LaunchRunning, LaunchPrepare, LaunchExecute, LaunchTicket,
       LaunchRollback, LaunchUndo, RequestClears, RequestJoins, RequestRestores, ResumeRunning,
       ResumePrepare, ResumeTicket, ResumeReport, AskRunning, Stays, Leaves, Goto, CallTerminate
  <2> QED  BY <1>1, <1>2, <2>1, <2>2
<1>5. CASE RtspStep
  BY <1>5 DEF RtspStep, Handshake, ClearStopped, ClearAll, JoinRunning, JoinRestore,
     CancelRunning, CancelTerminate, AskRunning
<1>6. CASE ControlPoll
  <2>1. Control \in Threads /\ Control # Rtsp  BY <1>0 DEF Threads
  <2>2. \E l : pc' = [pc EXCEPT ![Control] = l]
    BY <1>6 DEF ControlPoll, AskRunning, Stays, Goto, CallTerminate
  <2> QED  BY <1>1, <2>1, <2>2
<1>7. CASE Cancel \/ AppExits \/ UNCHANGED vars
  BY <1>2, <1>7 DEF Cancel, AppExits, vars
<1> QED  BY <1>3, <1>4, <1>5, <1>6, <1>7 DEF Next

\* A /cancel that no request crosses ends with no ticket and no session and gives
\* the display back, whatever the control thread polls, a client handshakes or
\* the web interface closes meanwhile; and with no application, if the last call
\* to have left proc_t had it alone.
THEOREM HostCancelLeavesNothing == Spec => CancelLeavesNothing
<1> DEFINE CInv == CleanupInv /\ Serial /\ ControlPlaces /\ LiveIsCurrent /\ Uncrossed /\ NothingRuns
<1>1. CleanupInv => Places  BY DEF CleanupInv
<1>2. Init => CInv
  <2>1. Control \in Threads  BY DEF Threads
  <2> QED  BY <2>1, InitCleanup, InitSerial DEF Init, ControlPlaces, LiveIsCurrent, Uncrossed,
             NothingRuns, Runs
<1>3. CInv /\ [Next]_vars => CInv'
  BY <1>1, NextCleanup, NextSerial, NextControl, NextCurrent, NextUncrossed, NextNothingRuns
<1>4. CInv /\ [Next]_vars =>
        (pc[Rtsp] = "cancel_restore" /\ pc'[Rtsp] = "idle" /\ alone
           => /\ tickets' = 0 /\ sessions' = 0 /\ display' = "home"
              /\ sound' => ~placebo' /\ process' = "none")
  BY <1>1, OnlyRestores DEF Uncrossed, NothingRuns, CancelRestore, Stays, streams, proc, app, calls, Runs
<1> QED  BY <1>2, <1>3, <1>4, PTL DEF Spec, CancelLeavesNothing
=============================================================================
