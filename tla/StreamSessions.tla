---------------------------- MODULE StreamSessions ----------------------------
(****************************************************************************)
(* The life of the streaming sessions: session::start, stop and join and    *)
(* the control thread (src/src/stream.cpp), the session slots that the RTSP *)
(* server clears (src/src/rtsp.cpp), and the broadcast context that the     *)
(* sessions share by reference counting (shared_t, src/src/thread_safe.h).  *)
(*                                                                          *)
(* The threads are: "rtsp", which runs the RTSP handlers and the server     *)
(* loop; HTTPS threads, which clear stopped sessions when they count them;  *)
(* "main", in rtsp_stream::start(), which waits for the host's shutdown and *)
(* stops the server; the control thread; two media threads of each video    *)
(* session; and the threads that answer requests for session information    *)
(* (probes).  A session object is alive while the slots, a clearing thread  *)
(* or the ANNOUNCE handler keep it.                                         *)
(*                                                                          *)
(* One step is a stretch of code under one lock or between two accesses to  *)
(* shared state.  VideoSessionGate refines the registration of the video    *)
(* sessions, LaunchTickets what leads to an ANNOUNCE.                       *)
(****************************************************************************)
EXTENDS Naturals, Sequences, FiniteSets

CONSTANTS
  AV, ControlOnly,   \* sessions with media streams, and with control alone
  HttpThreads, Probes,
  NoOne,             \* no session and no thread
  AppMayExit, HostMayShutDown, ClientMayCancel   \* what the environment may do

Sessions == AV \cup ControlOnly
Joiners == {"rtsp", "main"} \cup HttpThreads

ASSUME SessionsAssumption ==
  /\ IsFiniteSet(Sessions)
  /\ AV \cap ControlOnly = {} /\ NoOne \notin Sessions \cup Joiners \cup Probes
  /\ "rtsp" # "main" /\ {"rtsp", "main"} \cap HttpThreads = {}
  /\ Joiners \cap Probes = {}
  /\ {AppMayExit, HostMayShutDown, ClientMayCancel} \subseteq BOOLEAN

VARIABLES
  state,       \* lifecycle_t of each session; "new" before alloc
  slots,       \* rtsp_server_t::_session_slots
  announcing,  \* the session of the ANNOUNCE being handled
  step,        \* where the RTSP thread is in start()
  isFirst,     \* start()'s first_video_session
  list,        \* control_server_t::_sessions, pointers to sessions
  peer,        \* the sessions whose control stream has connected
  ended,       \* the sessions whose controlEnd is raised
  shut,        \* the sessions whose shutdown_event is raised
  spawned,     \* the sessions whose media threads were created
  media,       \* the number of media threads of each that still run
  registered,  \* the registered video sessions
  platform,    \* between streaming_will_start and streaming_will_stop
  batch,       \* sessions_to_join of each clearing thread
  todo,        \* those of it that are still to be joined, in order
  callback,    \* the threads that are about to call streaming_will_stop
  refs,        \* the sessions that hold a broadcast_ref
  probing,     \* what each probe does
  broadcast,   \* the broadcast context
  ender,       \* the thread that runs end_broadcast
  control,     \* the control thread
  bshut,       \* mail::broadcast_shutdown is raised
  app,         \* proc::proc.running() != 0
  hostShut,    \* mail::shutdown is raised
  serverStopped   \* rtsp_server_t::stop() has stopped the io_context

sessionVars == <<state, slots, announcing, step, isFirst>>
controlVars == <<list, peer, ended, control>>
mediaVars == <<shut, spawned, media>>
countVars == <<registered, platform>>
joinVars == <<batch, todo, callback>>
contextVars == <<refs, probing, broadcast, ender, bshut>>
hostVars == <<app, hostShut, serverStopped>>
vars == <<sessionVars, controlVars, mediaVars, countVars, joinVars, contextVars, hostVars>>

Alive(s) == s \in slots \/ s = announcing \/ \E j \in Joiners : s \in batch[j]

Init ==
  /\ state = [s \in Sessions |-> "new"]
  /\ slots = {} /\ announcing = NoOne /\ step = "loop" /\ isFirst = FALSE
  /\ list = {} /\ peer = {} /\ ended = {} /\ control = "none"
  /\ shut = {} /\ spawned = {} /\ media = [s \in AV |-> 0]
  /\ registered = {} /\ platform = FALSE
  /\ batch = [j \in Joiners |-> {}] /\ todo = [j \in Joiners |-> <<>>] /\ callback = {}
  /\ refs = {} /\ probing = [p \in Probes |-> "idle"]
  /\ broadcast = "down" /\ ender = NoOne /\ bshut = FALSE
  /\ app = TRUE /\ hostShut = FALSE /\ serverStopped = FALSE

-----------------------------------------------------------------------------
(* session::stop and lifecycle_t::request_stop *)

\* stop() spins while the session is starting, then only a running one stops.
MayStop(s) == state[s] # "STARTING"

Stopped(S) == [s \in Sessions |->
                 IF s \in S /\ state[s] = "RUNNING" THEN "STOPPING" ELSE state[s]]

Stop(S) ==
  /\ \A s \in S : MayStop(s)
  /\ state' = Stopped(S)
  /\ shut' = shut \cup {s \in S : state[s] = "RUNNING"}

(* The broadcast context: shared_t::ref and release hold one lock, through  *)
(* start_broadcast and end_broadcast as well.                               *)

Reading == {p \in Probes : probing[p] = "reading"}

Unlocked == broadcast # "ending"

\* A reference is taken, and the context is built when it is the first.
Acquired ==
  /\ Unlocked
  /\ broadcast' = "up"
  /\ IF broadcast = "down" THEN control' = "looping" /\ list' = {}
                           ELSE UNCHANGED <<control, list>>

\* References are dropped by thread j, down to the sessions R and the probes P.
Released(j, R, P) ==
  /\ Unlocked
  /\ refs' = R
  /\ IF broadcast = "up" /\ R = {} /\ P = {}
     THEN broadcast' = "ending" /\ ender' = j /\ bshut' = TRUE
     ELSE UNCHANGED <<broadcast, ender, bshut>>

\* end_broadcast has joined the threads of the context, which is destroyed.
EndBroadcast ==
  /\ broadcast = "ending" /\ control = "exited"
  /\ broadcast' = "down" /\ ender' = NoOne /\ bshut' = FALSE
  /\ control' = "none" /\ list' = {}
  /\ UNCHANGED <<sessionVars, peer, ended, mediaVars, countVars, joinVars, refs, probing, hostVars>>

-----------------------------------------------------------------------------
(* ANNOUNCE: cmd_announce and session::start, on the RTSP thread.           *)

RtspFree == batch["rtsp"] = {} /\ ender # "rtsp"

Announce(s) ==
  /\ step = "loop" /\ RtspFree /\ ~serverStopped
  /\ state[s] = "new"
  /\ state' = [state EXCEPT ![s] = "STOPPED"]
  /\ slots' = slots \cup {s}
  /\ announcing' = s /\ step' = "acquire"
  /\ UNCHANGED <<isFirst, controlVars, mediaVars, countVars, joinVars, contextVars, hostVars>>

\* Mutant: the reference is not kept in the session.
MutStartAcquires ==
  /\ step = "acquire" /\ step' = "register"
  /\ Acquired
  /\ UNCHANGED <<state, slots, announcing, isFirst, peer, ended, mediaVars, countVars, joinVars,
                 refs, probing, ender, bshut, hostVars>>

StartAcquires ==
  /\ step = "acquire" /\ step' = "register"
  /\ Acquired
  /\ refs' = refs \cup {announcing}
  /\ UNCHANGED <<state, slots, announcing, isFirst, peer, ended, mediaVars, countVars, joinVars,
                 probing, ender, bshut, hostVars>>

\* start_broadcast fails: the session leaves the slots again.
StartFails ==
  /\ step = "acquire" /\ step' = "loop"
  /\ broadcast = "down"
  /\ slots' = slots \ {announcing}
  /\ announcing' = NoOne
  /\ UNCHANGED <<state, isFirst, controlVars, mediaVars, countVars, joinVars, contextVars, hostVars>>

\* Mutant: STARTING is never published.
MutStartRegisters ==
  /\ step = "register" /\ step' = "publish"
  /\ isFirst' = (announcing \in AV /\ registered = {})
  /\ registered' = IF announcing \in AV THEN registered \cup {announcing} ELSE registered
  /\ state' = [state EXCEPT ![announcing] = "RUNNING"]
  /\ UNCHANGED <<slots, announcing, platform, controlVars, mediaVars, joinVars, contextVars, hostVars>>

StartRegisters ==
  /\ step = "register" /\ step' = "publish"
  /\ isFirst' = (announcing \in AV /\ registered = {})
  /\ registered' = IF announcing \in AV THEN registered \cup {announcing} ELSE registered
  /\ state' = [state EXCEPT ![announcing] = "STARTING"]
  /\ UNCHANGED <<slots, announcing, platform, controlVars, mediaVars, joinVars, contextVars, hostVars>>

StartPublishes ==
  /\ step = "publish" /\ step' = "spawn"
  /\ list' = list \cup {announcing}
  /\ UNCHANGED <<state, slots, announcing, isFirst, peer, ended, control, mediaVars, countVars,
                 joinVars, contextVars, hostVars>>

\* Mutant: a third thread that join() does not wait for.
MutStartSpawns ==
  /\ step = "spawn" /\ step' = "callbacks"
  /\ IF announcing \in AV
     THEN spawned' = spawned \cup {announcing} /\ media' = [media EXCEPT ![announcing] = 3]
     ELSE UNCHANGED <<spawned, media>>
  /\ UNCHANGED <<state, slots, announcing, isFirst, controlVars, shut, countVars, joinVars,
                 contextVars, hostVars>>

StartSpawns ==
  /\ step = "spawn" /\ step' = "callbacks"
  /\ IF announcing \in AV
     THEN spawned' = spawned \cup {announcing} /\ media' = [media EXCEPT ![announcing] = 2]
     ELSE UNCHANGED <<spawned, media>>
  /\ UNCHANGED <<state, slots, announcing, isFirst, controlVars, shut, countVars, joinVars,
                 contextVars, hostVars>>

StartCallbacks ==
  /\ step = "callbacks" /\ step' = "run"
  /\ platform' = (platform \/ isFirst)
  /\ isFirst' = FALSE
  /\ UNCHANGED <<state, slots, announcing, controlVars, mediaVars, registered, joinVars,
                 contextVars, hostVars>>

\* The handler lets go of the session: when a shutdown has already cleared and
\* joined it, that was its last owner.
StartRuns ==
  /\ step = "run" /\ step' = "loop"
  /\ state' = [state EXCEPT ![announcing] = "RUNNING"]
  /\ announcing' = NoOne
  /\ IF announcing \in slots \cup UNION {batch[j] : j \in Joiners}
     THEN UNCHANGED <<refs, broadcast, ender, bshut>>
     ELSE Released("rtsp", refs \ {announcing}, Reading)
  /\ UNCHANGED <<slots, isFirst, controlVars, mediaVars, countVars, joinVars, probing, hostVars>>

Start ==
  \/ StartAcquires \/ StartFails \/ StartRegisters \/ StartPublishes
  \/ StartSpawns \/ StartCallbacks \/ StartRuns

-----------------------------------------------------------------------------
(* The media threads: each stops its session when it ends, for whatever     *)
(* reason, and spins until the session has started before that.  The        *)
(* reference that each takes in between never matters: the session, which   *)
(* waits for its threads, holds one all the time.                           *)

MediaEnds(s) ==
  /\ media[s] > 0
  /\ Stop({s})
  /\ media' = [media EXCEPT ![s] = @ - 1]
  /\ UNCHANGED <<slots, announcing, step, isFirst, controlVars, spawned, countVars, joinVars,
                 contextVars, hostVars>>

-----------------------------------------------------------------------------
(* The control thread. *)

\* get_session: a client connects to the control stream of its session.
ControlConnects(s) ==
  /\ control = "looping" /\ s \in list \ peer
  /\ peer' = peer \cup {s}
  /\ UNCHANGED <<sessionVars, list, ended, control, mediaVars, countVars, joinVars, contextVars,
                 hostVars>>

\* A ping timeout, a disconnect or a protocol error.
ControlStops(s) ==
  /\ control = "looping" /\ s \in list
  /\ state[s] = "RUNNING"
  /\ Stop({s})
  /\ UNCHANGED <<slots, announcing, step, isFirst, controlVars, spawned, media, countVars, joinVars,
                 contextVars, hostVars>>

\* Mutants: the stopped session stays on the list; its join() is not told.
MutReapsKeeps(s) ==
  /\ control = "looping" /\ ~hostShut /\ ~bshut
  /\ s \in list /\ state[s] = "STOPPING"
  /\ ended' = ended \cup {s}
  /\ UNCHANGED <<sessionVars, list, peer, control, mediaVars, countVars, joinVars, contextVars, hostVars>>

MutReapsSilently(s) ==
  /\ control = "looping" /\ ~hostShut /\ ~bshut
  /\ s \in list /\ state[s] = "STOPPING"
  /\ list' = list \ {s}
  /\ UNCHANGED <<sessionVars, ended, peer, control, mediaVars, countVars, joinVars, contextVars, hostVars>>

ControlReaps(s) ==
  /\ control = "looping" /\ ~hostShut /\ ~bshut
  /\ s \in list /\ state[s] = "STOPPING"
  /\ list' = list \ {s}
  /\ ended' = ended \cup {s}
  /\ UNCHANGED <<sessionVars, peer, control, mediaVars, countVars, joinVars, contextVars, hostVars>>

\* Mutant: the joins are told before the thread is done with its list.
MutControlLeaves ==
  /\ control = "looping" /\ control' = "leaving"
  /\ hostShut \/ bshut \/ (~app /\ list \subseteq peer)
  /\ shut' = shut \cup list
  /\ ended' = ended \cup list
  /\ UNCHANGED <<sessionVars, list, peer, spawned, media, countVars, joinVars, contextVars, hostVars>>

\* The loop ends for a shutdown, or when the application has ended and the pass
\* over the list, whose lock it has released by now, met no session without peer.
ControlLeaves ==
  /\ control = "looping" /\ control' = "leaving"
  /\ hostShut \/ bshut \/ (~app /\ list \subseteq peer)
  /\ UNCHANGED <<sessionVars, list, peer, ended, mediaVars, countVars, joinVars, contextVars, hostVars>>

ControlExits ==
  /\ control = "leaving" /\ control' = "exited"
  /\ shut' = shut \cup list
  /\ ended' = ended \cup list
  /\ UNCHANGED <<sessionVars, list, peer, spawned, media, countVars, joinVars, contextVars, hostVars>>

-----------------------------------------------------------------------------
(* rtsp_server_t::clear: the thread j stops and takes sessions under the    *)
(* lock of the slots and joins them after that.                             *)

\* Mutant: the sessions taken are not erased from the slots.
MutClear(j, S) ==
  /\ batch[j] = {} /\ ender # j
  /\ j = "rtsp" => step = "loop"
  /\ Stop(S)
  /\ batch' = [batch EXCEPT ![j] = S]
  /\ \E q \in [1..Cardinality(S) -> S] :
       /\ \A s \in S : \E n \in DOMAIN q : q[n] = s
       /\ todo' = [todo EXCEPT ![j] = q]
  /\ UNCHANGED <<slots, announcing, step, isFirst, controlVars, spawned, media, countVars, callback,
                 contextVars, app, hostShut>>

Clear(j, S) ==
  /\ batch[j] = {} /\ ender # j
  /\ j = "rtsp" => step = "loop"
  /\ Stop(S)
  /\ slots' = slots \ S
  /\ batch' = [batch EXCEPT ![j] = S]
  /\ \E q \in [1..Cardinality(S) -> S] :
       /\ \A s \in S : \E n \in DOMAIN q : q[n] = s
       /\ todo' = [todo EXCEPT ![j] = q]
  /\ UNCHANGED <<announcing, step, isFirst, controlVars, spawned, media, countVars, callback,
                 contextVars, app, hostShut>>

\* Mutant: sessions that never started are taken for those that have ended.
MutClearEnded(j) ==
  /\ j # "main"
  /\ Clear(j, {s \in slots : state[s] = "STOPPED"})
  /\ UNCHANGED serverStopped

\* clear(false): the RTSP loop, and session_count() on an HTTPS thread.
ClearEnded(j) ==
  /\ j # "main"
  /\ Clear(j, {s \in slots : state[s] = "STOPPING"})
  /\ UNCHANGED serverStopped

\* clear(true): on the RTSP thread for a /cancel, for a broadcast shutdown and at
\* the end of its loop; on the main thread in rtsp_server_t::stop(), after which
\* no other handler is run.
ClearAll(j) ==
  /\ \/ /\ j = "rtsp" /\ (ClientMayCancel \/ bshut \/ hostShut)
        /\ UNCHANGED serverStopped
     \/ /\ j = "main" /\ hostShut /\ ~serverStopped
        /\ serverStopped' = TRUE
  /\ Clear(j, slots)

(* session::join.  A video session that a shutdown took before its threads  *)
(* exist is joined once they do; should join() get there first, it throws,  *)
(* which ends the process and no behaviour of ours continues from there.    *)

\* Mutant: join() waits for the control thread alone.
MutJoinable(s) == s \in ended

Joinable(s) == (s \in AV => s \in spawned /\ media[s] = 0) /\ s \in ended

Join(j) ==
  /\ todo[j] # <<>> /\ j \notin callback
  /\ LET s == Head(todo[j]) IN
     /\ Joinable(s)
     /\ registered' = registered \ {s}
     /\ callback' = IF registered = {s} THEN callback \cup {j} ELSE callback
  /\ todo' = [todo EXCEPT ![j] = Tail(@)]
  /\ UNCHANGED <<sessionVars, controlVars, mediaVars, platform, batch, contextVars, hostVars>>

\* streaming_will_stop, by the join of the last video session.
StopCallback(j) ==
  /\ j \in callback
  /\ platform' = FALSE
  /\ callback' = callback \ {j}
  /\ UNCHANGED <<sessionVars, controlVars, mediaVars, registered, batch, todo, contextVars, hostVars>>

\* The vector of joined sessions goes, and with them their broadcast_refs.
Release(j) ==
  /\ batch[j] # {} /\ todo[j] = <<>> /\ j \notin callback
  /\ Released(j, refs \ (batch[j] \ {announcing}), Reading)
  /\ batch' = [batch EXCEPT ![j] = {}]
  /\ UNCHANGED <<sessionVars, controlVars, mediaVars, countVars, todo, callback, probing, hostVars>>

-----------------------------------------------------------------------------
(* get_all_sessions_info and change_dynamic_param_for_client.               *)

ProbeChecks(p) ==
  /\ probing[p] = "idle" /\ ender # p
  /\ Unlocked /\ broadcast = "up"         \* has_ref()
  /\ probing' = [probing EXCEPT ![p] = "checked"]
  /\ UNCHANGED <<sessionVars, controlVars, mediaVars, countVars, joinVars, refs, broadcast, ender,
                 bshut, hostVars>>

ProbeAcquires(p) ==
  /\ probing[p] = "checked"
  /\ Acquired                             \* ref()
  /\ probing' = [probing EXCEPT ![p] = "reading"]
  /\ UNCHANGED <<sessionVars, peer, ended, mediaVars, countVars, joinVars, refs, ender, bshut, hostVars>>

ProbeFails(p) ==
  /\ probing[p] = "checked"
  /\ broadcast = "down"
  /\ probing' = [probing EXCEPT ![p] = "idle"]
  /\ UNCHANGED <<sessionVars, controlVars, mediaVars, countVars, joinVars, refs, broadcast, ender,
                 bshut, hostVars>>

\* The list has been read under its lock; the reference goes.
ProbeEnds(p) ==
  /\ probing[p] = "reading"
  /\ probing' = [probing EXCEPT ![p] = "idle"]
  /\ Released(p, refs, Reading \ {p})
  /\ UNCHANGED <<sessionVars, controlVars, mediaVars, countVars, joinVars, hostVars>>

-----------------------------------------------------------------------------
(* The environment. *)

AppExits ==
  /\ AppMayExit /\ app /\ app' = FALSE
  /\ UNCHANGED <<sessionVars, controlVars, mediaVars, countVars, joinVars, contextVars, hostShut,
                 serverStopped>>

AppLaunches ==
  /\ ~app /\ app' = TRUE
  /\ UNCHANGED <<sessionVars, controlVars, mediaVars, countVars, joinVars, contextVars, hostShut,
                 serverStopped>>

HostShutsDown ==
  /\ HostMayShutDown /\ ~hostShut /\ hostShut' = TRUE
  /\ UNCHANGED <<sessionVars, controlVars, mediaVars, countVars, joinVars, contextVars, app,
                 serverStopped>>

Next ==
  \/ \E s \in Sessions :
       Announce(s) \/ ControlConnects(s) \/ ControlStops(s) \/ ControlReaps(s)
  \/ \E s \in AV : MediaEnds(s)
  \/ Start
  \/ ControlLeaves \/ ControlExits
  \/ \E j \in Joiners :
       ClearEnded(j) \/ ClearAll(j) \/ Join(j) \/ StopCallback(j) \/ Release(j)
  \/ \E p \in Probes : ProbeChecks(p) \/ ProbeAcquires(p) \/ ProbeFails(p) \/ ProbeEnds(p)
  \/ EndBroadcast
  \/ AppExits \/ AppLaunches \/ HostShutsDown

Spec == Init /\ [][Next]_vars

\* The threads of the host go on while they can, the server loop clears ended
\* sessions every 500 ms, and a media thread ends once its session is shut down.
\* Clients, the application, HTTPS requests and the shutdown are not owed.
Fairness ==
  /\ WF_vars(Start)
  /\ \A s \in Sessions : WF_vars(ControlReaps(s))
  /\ \A s \in AV : WF_vars(MediaEnds(s) /\ (s \in shut \/ hostShut))
  /\ WF_vars(ControlLeaves) /\ WF_vars(ControlExits) /\ WF_vars(EndBroadcast)
  /\ WF_vars(ClearEnded("rtsp"))
  /\ WF_vars(ClearAll("rtsp") /\ (bshut \/ hostShut))
  /\ \A j \in Joiners :
       WF_vars(Join(j)) /\ WF_vars(StopCallback(j)) /\ WF_vars(Release(j))
  /\ \A p \in Probes : WF_vars(ProbeAcquires(p)) /\ WF_vars(ProbeEnds(p))

FairSpec == Spec /\ Fairness
-----------------------------------------------------------------------------
(* Properties. *)

TypeOK ==
  /\ state \in [Sessions -> {"new", "STOPPED", "STARTING", "RUNNING", "STOPPING"}]
  /\ slots \subseteq Sessions /\ announcing \in Sessions \cup {NoOne}
  /\ step \in {"loop", "acquire", "register", "publish", "spawn", "callbacks", "run"}
  /\ isFirst \in BOOLEAN
  /\ list \subseteq Sessions /\ peer \subseteq Sessions /\ ended \subseteq Sessions
  /\ shut \subseteq Sessions /\ spawned \subseteq AV /\ media \in [AV -> 0..2]
  /\ registered \subseteq AV /\ platform \in BOOLEAN
  /\ batch \in [Joiners -> SUBSET Sessions] /\ todo \in [Joiners -> Seq(Sessions)]
  /\ callback \subseteq Joiners
  /\ refs \subseteq Sessions /\ probing \in [Probes -> {"idle", "checked", "reading"}]
  /\ broadcast \in {"down", "up", "ending"} /\ ender \in Joiners \cup Probes \cup {NoOne}
  /\ control \in {"none", "looping", "leaving", "exited"}
  /\ bshut \in BOOLEAN /\ app \in BOOLEAN /\ hostShut \in BOOLEAN /\ serverStopped \in BOOLEAN

\* No session is joined by two threads, although the RTSP loop and every HTTPS
\* request that counts sessions clear the slots at the same time (clear).
JoinedByOne ==
  \A j \in Joiners :
    /\ batch[j] \cap slots = {}
    /\ \A k \in Joiners \ {j} : batch[j] \cap batch[k] = {}

\* A media thread, which works on a bare pointer to its session, never outlives
\* the object (audioThread, videoThread, join).
ThreadsHaveSession == \A s \in AV : media[s] > 0 => Alive(s)

\* As long as a started session exists, so does the broadcast context whose
\* control server and sockets it uses (broadcast_ref).
SessionsHaveBroadcast ==
  \A s \in Sessions :
    Alive(s) /\ state[s] \in {"STARTING", "RUNNING", "STOPPING"} => broadcast = "up"

\* With no video session registered and none on its way out, the platform is
\* not left in its streaming state (streaming_will_stop in join).
PlatformIsLeft == registered = {} /\ callback = {} => ~platform

\* A session that stops has everything that join() tears down, and never runs
\* again: "RUNNING is published only after all the state that join() relies on
\* is committed" (the end of start).
StoppingIsCommitted == \A s \in AV : state[s] = "STOPPING" => s \in spawned

StoppingIsFinal == [][\A s \in Sessions : state[s] = "STOPPING" => state'[s] = "STOPPING"]_vars

\* While anyone may read the control server's list, whose pointers are followed
\* under its lock, it holds no session that has been destroyed (_sessions,
\* get_all_sessions_info).
ListedAlive ==
  broadcast = "up" \/ control \in {"looping", "leaving"} => \A s \in list : Alive(s)

\* The control thread itself never meets one there, whatever has ended or been shut
\* down: it ends every session it still lists before any of them is let go.
ControlListAlive == control \in {"looping", "leaving"} => \A s \in list : Alive(s)

\* What is joined has stopped, and whatever stops can be joined: its media threads
\* exist and are told to end, and the control thread has ended it or still lists it
\* and is in its loop (join waits for video, audio and control to end).
JoinIsServed ==
  /\ \A j \in Joiners : \A s \in batch[j] : state[s] = "STOPPING"
  /\ \A s \in Sessions : Alive(s) /\ state[s] = "STOPPING" =>
       /\ s \in AV => s \in spawned /\ s \in shut
       /\ s \in ended \/ (s \in list /\ control = "looping" /\ ~hostShut /\ ~bshut)

\* Seen through its owners, a session lives the life of SessionLife: it starts once,
\* in a context that is up, stops for good and, once nobody keeps it, is gone; the
\* context outlives every started session.
Life(s) ==
  CASE state[s] = "new" -> "absent"
    [] state[s] # "new" /\ ~Alive(s) -> "gone"
    [] Alive(s) /\ state[s] = "STOPPED" -> "announced"
    [] Alive(s) /\ state[s] \in {"STARTING", "RUNNING"} -> "started"
    [] Alive(s) /\ state[s] = "STOPPING" -> "stopping"

Lives == INSTANCE SessionLife WITH life <- [s \in Sessions |-> Life(s)], context <- broadcast
LifeSpec == Lives!Spec

\* A thread that takes sessions off the slots gets them joined and lets them
\* go: join() never waits for a media or control thread that will not come.
JoinReturns == \A j \in Joiners : batch[j] # {} ~> batch[j] = {}

\* A session that stops, for whatever reason, is joined and destroyed.
StoppedSessionsGo == \A s \in Sessions : state[s] = "STOPPING" ~> ~Alive(s)
=============================================================================
