------------------------- MODULE StreamSessionsProofs -----------------------
(* The safety properties of StreamSessions, for any number of sessions,     *)
(* HTTPS threads and probes.                                                *)
EXTENDS StreamSessions, FiniteSetTheorems, SequenceTheorems, TLAPS

(* The inductive invariant. *)

Active == {"STARTING", "RUNNING", "STOPPING"}

Begun == {"publish", "spawn", "callbacks", "run"}

\* The sessions that the slots or a clearing thread keep.
Owned == slots \cup UNION {batch[j] : j \in Joiners}

\* Those that thread j has joined already.
Joined(j) == {s \in batch[j] : \A n \in DOMAIN todo[j] : todo[j][n] # s}

\* Where start() is, its session is in the state that start() has given it; a
\* video session cannot be joined, hence not be let go, before it runs.
StartInv ==
  /\ step = "loop" <=> announcing = NoOne
  /\ step \in {"acquire", "register"} => state[announcing] = "STOPPED"
  /\ step \in Begun => state[announcing] = "STARTING"
  /\ \A s \in Sessions : state[s] = "STARTING" => s = announcing /\ step \in Begun
  /\ announcing \in AV => announcing \in Owned
  /\ isFirst => announcing \in AV /\ step \in {"publish", "spawn", "callbacks"}
  /\ announcing \in AV /\ step \in Begun => announcing \in registered
  /\ \A s \in Sessions : state[s] = "new" => s \notin Owned

\* The media threads exist from their creation in start() on, and both are
\* there until the session runs.
MediaInv ==
  /\ \A s \in AV : s \in spawned <=>
       \/ state[s] \in {"RUNNING", "STOPPING"}
       \/ s = announcing /\ step \in {"callbacks", "run"}
  /\ \A s \in AV : s \notin spawned => media[s] = 0
  /\ announcing \in AV /\ step \in {"callbacks", "run"} => media[announcing] = 2

\* A clearing thread joins what it has taken and nothing else.
JoinInv ==
  /\ JoinedByOne
  /\ \A j \in Joiners : \A n \in DOMAIN todo[j] : todo[j][n] \in batch[j]
  /\ \A j \in Joiners : \A s \in Joined(j) \cap AV : s \in spawned /\ media[s] = 0

\* A started session holds a reference while it is alive.
ContextInv ==
  /\ \A s \in Sessions : Alive(s) /\ state[s] \in Active => s \in refs
  /\ step \in Begun \cup {"register"} => announcing \in refs
  /\ refs # {} => broadcast = "up"

SafeInv ==
  StartInv /\ MediaInv /\ JoinInv /\ ContextInv /\ ThreadsHaveSession /\ PlatformIsLeft

IInv == TypeOK /\ SafeInv

\* What the invariant reads.
observed == <<state, slots, announcing, step, isFirst, spawned, media, registered, platform,
              batch, todo, callback, refs>>

-----------------------------------------------------------------------------
\* Dropping references keeps the types of the context.
LEMMA ReleasedType ==
  ASSUME TypeOK, NEW j \in Joiners \cup Probes, NEW R \in SUBSET Sessions, NEW P,
         Released(j, R, P)
  PROVE  /\ refs' \subseteq Sessions
         /\ broadcast' \in {"down", "up", "ending"}
         /\ ender' \in Joiners \cup Probes \cup {NoOne}
         /\ bshut' \in BOOLEAN
<1>1. CASE broadcast = "up" /\ R = {} /\ P = {}  BY <1>1 DEF Released
<1>2. CASE ~(broadcast = "up" /\ R = {} /\ P = {})  BY <1>2 DEF Released, TypeOK
<1> QED  BY <1>1, <1>2

\* So does taking sessions off the slots: what is to be joined is a sequence of
\* sessions because there are finitely many.
LEMMA ClearType ==
  ASSUME TypeOK, NEW j \in Joiners, NEW S \in SUBSET slots, Clear(j, S),
         serverStopped' \in BOOLEAN
  PROVE  TypeOK'
<1> USE SessionsAssumption DEF TypeOK, Sessions, vars, sessionVars, controlVars, mediaVars,
         countVars, joinVars, contextVars, hostVars
<1>1. PICK q \in [1..Cardinality(S) -> S] : todo' = [todo EXCEPT ![j] = q]  BY DEF Clear
<1>2. q \in Seq(Sessions)
  <2>1. Cardinality(S) \in Nat  BY FS_Subset, FS_CardinalityType
  <2>2. q \in [1..Cardinality(S) -> Sessions]  OBVIOUS
  <2> QED  BY <2>1, <2>2, SeqDef
<1>3. todo' \in [Joiners -> Seq(Sessions)]  BY <1>1, <1>2
<1>4. state' \in [Sessions -> {"new", "STOPPED", "STARTING", "RUNNING", "STOPPING"}]
  BY DEF Clear, Stop, Stopped
<1>5. shut' \subseteq Sessions  BY DEF Clear, Stop
<1>6. batch' \in [Joiners -> SUBSET Sessions] /\ slots' \subseteq Sessions  BY DEF Clear
<1> QED  BY <1>3, <1>4, <1>5, <1>6 DEF Clear

\* Every step keeps the types.
LEMMA TypeStep == IInv /\ [Next]_vars => TypeOK'
<1> SUFFICES ASSUME IInv, [Next]_vars PROVE TypeOK'  OBVIOUS
<1> USE SessionsAssumption DEF IInv, SafeInv, StartInv, TypeOK, Sessions, vars, sessionVars,
         controlVars, mediaVars, countVars, joinVars, contextVars, hostVars
<1>1. ASSUME NEW s \in Sessions, Announce(s) PROVE TypeOK'  BY <1>1 DEF Announce
<1>2. CASE StartAcquires  BY <1>2 DEF StartAcquires, Acquired
<1>3. CASE StartFails  BY <1>3 DEF StartFails
<1>4. CASE StartRegisters  BY <1>4 DEF StartRegisters
<1>5. CASE StartPublishes  BY <1>5 DEF StartPublishes
<1>6. CASE StartSpawns  BY <1>6 DEF StartSpawns
<1>7. CASE StartCallbacks  BY <1>7 DEF StartCallbacks
<1>8. CASE StartRuns
  <2>1. CASE announcing \in slots \cup UNION {batch[j] : j \in Joiners}  BY <1>8, <2>1 DEF StartRuns
  <2>2. CASE announcing \notin slots \cup UNION {batch[j] : j \in Joiners}
    BY <1>8, <2>2, ReleasedType DEF StartRuns, Joiners
  <2> QED  BY <2>1, <2>2
<1>9. ASSUME NEW s \in AV, MediaEnds(s) PROVE TypeOK'  BY <1>9 DEF MediaEnds, Stop, Stopped
<1>10. ASSUME NEW s \in Sessions, ControlConnects(s) PROVE TypeOK'  BY <1>10 DEF ControlConnects
<1>11. ASSUME NEW s \in Sessions, ControlStops(s) PROVE TypeOK'
  BY <1>11 DEF ControlStops, Stop, Stopped
<1>12. ASSUME NEW s \in Sessions, ControlReaps(s) PROVE TypeOK'  BY <1>12 DEF ControlReaps
<1>13. CASE ControlLeaves  BY <1>13 DEF ControlLeaves
<1>14. CASE ControlExits  BY <1>14 DEF ControlExits
<1>15. ASSUME NEW j \in Joiners, Join(j) PROVE TypeOK'  BY <1>15 DEF Join
<1>16. ASSUME NEW j \in Joiners, StopCallback(j) PROVE TypeOK'
  <2>1. platform' \in BOOLEAN  BY <1>16, Zenon DEF StopCallback
  <2> QED  BY <1>16, <2>1 DEF StopCallback
<1>17. ASSUME NEW j \in Joiners, Release(j) PROVE TypeOK'
  <2>1. Released(j, refs \ (batch[j] \ {announcing}), Reading)  BY <1>17 DEF Release
  <2>2. batch' = [batch EXCEPT ![j] = {}]  BY <1>17 DEF Release
  <2>3. UNCHANGED <<sessionVars, controlVars, mediaVars, countVars, todo, callback, probing,
                    hostVars>>
    BY <1>17 DEF Release
  <2>4. refs \ (batch[j] \ {announcing}) \in SUBSET Sessions  OBVIOUS
  <2>5. j \in Joiners \cup Probes  OBVIOUS
  <2>6. /\ refs' \subseteq Sessions
        /\ broadcast' \in {"down", "up", "ending"}
        /\ ender' \in Joiners \cup Probes \cup {NoOne}
        /\ bshut' \in BOOLEAN
    BY <2>1, <2>4, <2>5, ReleasedType
  <2> QED  BY <2>2, <2>3, <2>6
<1>18. ASSUME NEW p \in Probes, ProbeChecks(p) PROVE TypeOK'  BY <1>18 DEF ProbeChecks
<1>19. ASSUME NEW p \in Probes, ProbeAcquires(p) PROVE TypeOK'  BY <1>19 DEF ProbeAcquires, Acquired
<1>20. ASSUME NEW p \in Probes, ProbeFails(p) PROVE TypeOK'  BY <1>20 DEF ProbeFails
<1>21. ASSUME NEW p \in Probes, ProbeEnds(p) PROVE TypeOK'
  <2>1. probing' = [probing EXCEPT ![p] = "idle"]  BY <1>21 DEF ProbeEnds
  <2>2. Released(p, refs, Reading \ {p})  BY <1>21 DEF ProbeEnds
  <2>3. UNCHANGED <<sessionVars, controlVars, mediaVars, countVars, joinVars, hostVars>>
    BY <1>21 DEF ProbeEnds
  <2>6. /\ refs' \subseteq Sessions
        /\ broadcast' \in {"down", "up", "ending"}
        /\ ender' \in Joiners \cup Probes \cup {NoOne}
        /\ bshut' \in BOOLEAN
    BY <2>2, ReleasedType
  <2> QED  BY <2>1, <2>3, <2>6
<1>22. CASE EndBroadcast  BY <1>22 DEF EndBroadcast
<1>23. CASE AppExits
  <2>1. app' \in BOOLEAN  BY <1>23, Zenon DEF AppExits
  <2> QED  BY <1>23, <2>1 DEF AppExits
<1>24. CASE AppLaunches  BY <1>24 DEF AppLaunches
<1>25. CASE HostShutsDown  BY <1>25 DEF HostShutsDown
<1>26. CASE UNCHANGED vars  BY <1>26 DEF vars
<1>27. ASSUME NEW j \in Joiners, ClearEnded(j) PROVE TypeOK'
  <2>1. serverStopped' \in BOOLEAN  BY <1>27 DEF ClearEnded
  <2>2. Clear(j, {s \in slots : state[s] = "STOPPING"})  BY <1>27 DEF ClearEnded
  <2> QED  BY <2>1, <2>2, ClearType
<1>28. ASSUME NEW j \in Joiners, ClearAll(j) PROVE TypeOK'
  <2>1. serverStopped' \in BOOLEAN  BY <1>28 DEF ClearAll
  <2>2. Clear(j, slots)  BY <1>28 DEF ClearAll
  <2> QED  BY <2>1, <2>2, ClearType
<1> QED
  BY <1>1, <1>2, <1>3, <1>4, <1>5, <1>6, <1>7, <1>8, <1>9, <1>10, <1>11, <1>12, <1>13, <1>14,
     <1>15, <1>16, <1>17, <1>18, <1>19, <1>20, <1>21, <1>22, <1>23, <1>24, <1>25, <1>26, <1>27,
     <1>28
  DEF Next, Start

(* What every step preserves, action by action. *)

LEMMA AnnounceStep ==
  ASSUME IInv, NEW s \in Sessions, Announce(s), TypeOK'
  PROVE  SafeInv'
<1> USE SessionsAssumption DEF IInv, SafeInv, TypeOK, Sessions, Joiners, vars, sessionVars,
         controlVars, mediaVars, countVars, joinVars, contextVars, hostVars
<1>1. StartInv'  BY DEF Announce, StartInv, Begun, Owned
<1>2. MediaInv'  BY DEF Announce, MediaInv
<1>3. JoinInv'  BY DEF Announce, JoinInv, JoinedByOne, Joined, StartInv, Owned
<1>4. ContextInv'  BY DEF Announce, ContextInv, Alive, Active, Begun
<1>5. ThreadsHaveSession'  BY DEF Announce, ThreadsHaveSession, Alive, StartInv
<1>6. PlatformIsLeft'  BY DEF Announce, PlatformIsLeft
<1> QED  BY <1>1, <1>2, <1>3, <1>4, <1>5, <1>6

LEMMA StartAcquiresStep ==
  ASSUME IInv, StartAcquires, TypeOK'
  PROVE  SafeInv'
<1> USE SessionsAssumption DEF IInv, SafeInv, TypeOK, Sessions, Joiners, vars, sessionVars,
         controlVars, mediaVars, countVars, joinVars, contextVars, hostVars
<1>1. StartInv'  BY DEF StartAcquires, Acquired, StartInv, Begun, Owned
<1>2. MediaInv'  BY DEF StartAcquires, Acquired, MediaInv
<1>3. JoinInv'  BY DEF StartAcquires, Acquired, JoinInv, JoinedByOne, Joined
<1>4. ContextInv'  BY DEF StartAcquires, Acquired, ContextInv, Alive
<1>5. ThreadsHaveSession'  BY DEF StartAcquires, Acquired, ThreadsHaveSession, Alive
<1>6. PlatformIsLeft'  BY DEF StartAcquires, Acquired, PlatformIsLeft
<1> QED  BY <1>1, <1>2, <1>3, <1>4, <1>5, <1>6

\* The session that fails to start has no threads yet that could outlive it.
LEMMA StartFailsStep ==
  ASSUME IInv, StartFails, TypeOK'
  PROVE  SafeInv'
<1> USE SessionsAssumption DEF IInv, SafeInv, TypeOK, Sessions, Joiners, vars, sessionVars,
         controlVars, mediaVars, countVars, joinVars, contextVars, hostVars
<1>1. announcing \in AV => media[announcing] = 0  BY DEF StartFails, StartInv, MediaInv
<1>2. StartInv'  BY DEF StartFails, StartInv, Owned, Begun
<1>3. MediaInv'  BY DEF StartFails, MediaInv, StartInv, Owned, Begun
<1>4. JoinInv'  BY DEF StartFails, JoinInv, JoinedByOne, Joined
<1>5. ContextInv'  BY DEF StartFails, ContextInv, Alive, Active, StartInv, Begun
<1>6. ThreadsHaveSession'  BY <1>1 DEF StartFails, ThreadsHaveSession, Alive
<1>7. PlatformIsLeft'  BY DEF StartFails, PlatformIsLeft
<1> QED  BY <1>2, <1>3, <1>4, <1>5, <1>6, <1>7

LEMMA StartRegistersStep ==
  ASSUME IInv, StartRegisters, TypeOK'
  PROVE  SafeInv'
<1> USE SessionsAssumption DEF IInv, SafeInv, TypeOK, Sessions, Joiners, vars, sessionVars,
         controlVars, mediaVars, countVars, joinVars, contextVars, hostVars
<1>1. StartInv'  BY DEF StartRegisters, StartInv, Begun, Owned
<1>2. MediaInv'  BY DEF StartRegisters, MediaInv, StartInv
<1>3. JoinInv'  BY DEF StartRegisters, JoinInv, JoinedByOne, Joined
<1>4. ContextInv'  BY DEF StartRegisters, ContextInv, Alive
<1>5. ThreadsHaveSession'  BY DEF StartRegisters, ThreadsHaveSession, Alive
<1>6. PlatformIsLeft'  BY DEF StartRegisters, PlatformIsLeft
<1> QED  BY <1>1, <1>2, <1>3, <1>4, <1>5, <1>6

LEMMA StartPublishesStep ==
  ASSUME IInv, StartPublishes, TypeOK'
  PROVE  SafeInv'
<1> USE SessionsAssumption DEF IInv, SafeInv, TypeOK, Sessions, Joiners, vars, sessionVars,
         controlVars, mediaVars, countVars, joinVars, contextVars, hostVars
<1>1. StartInv'  BY DEF StartPublishes, StartInv, Begun, Owned
<1>2. MediaInv'  BY DEF StartPublishes, MediaInv
<1>3. JoinInv'  BY DEF StartPublishes, JoinInv, JoinedByOne, Joined
<1>4. ContextInv'  BY DEF StartPublishes, ContextInv, Alive, Begun
<1>5. ThreadsHaveSession'  BY DEF StartPublishes, ThreadsHaveSession, Alive
<1>6. PlatformIsLeft'  BY DEF StartPublishes, PlatformIsLeft
<1> QED  BY <1>1, <1>2, <1>3, <1>4, <1>5, <1>6

\* The session whose threads are created is not among those already joined.
LEMMA StartSpawnsStep ==
  ASSUME IInv, StartSpawns, TypeOK'
  PROVE  SafeInv'
<1> USE SessionsAssumption DEF IInv, SafeInv, TypeOK, Sessions, Joiners, vars, sessionVars,
         controlVars, mediaVars, countVars, joinVars, contextVars, hostVars
<1>1. announcing \in AV => announcing \notin spawned
  BY DEF StartSpawns, StartInv, MediaInv, Begun
<1>2. StartInv'  BY DEF StartSpawns, StartInv, Owned, Begun
<1>3. MediaInv'  BY DEF StartSpawns, MediaInv, StartInv, Owned, Begun
<1>4. JoinInv'
  <2>1. \A j \in Joiners : Joined(j)' = Joined(j)  BY DEF StartSpawns, Joined
  <2>2. ASSUME NEW j \in Joiners, NEW s \in Joined(j) \cap AV
        PROVE  s \in spawned' /\ media'[s] = 0
    <3>1. s \in spawned /\ media[s] = 0  BY <2>2 DEF JoinInv
    <3>2. s # announcing  BY <1>1, <3>1
    <3> QED  BY <3>1, <3>2 DEF StartSpawns
  <2>3. batch' = batch /\ slots' = slots /\ todo' = todo  BY DEF StartSpawns
  <2>4. JoinedByOne'  BY <2>3 DEF JoinInv, JoinedByOne
  <2>5. \A j \in Joiners : \A n \in DOMAIN todo'[j] : todo'[j][n] \in batch'[j]
    BY <2>3 DEF JoinInv
  <2> QED  BY <2>1, <2>2, <2>4, <2>5 DEF JoinInv
<1>5. ContextInv'  BY DEF StartSpawns, ContextInv, Alive, Active, StartInv, Begun
<1>6. ThreadsHaveSession'  BY DEF StartSpawns, ThreadsHaveSession, Alive
<1>7. PlatformIsLeft'  BY DEF StartSpawns, PlatformIsLeft
<1> QED  BY <1>2, <1>3, <1>4, <1>5, <1>6, <1>7

LEMMA StartCallbacksStep ==
  ASSUME IInv, StartCallbacks, TypeOK'
  PROVE  SafeInv'
<1> USE SessionsAssumption DEF IInv, SafeInv, TypeOK, Sessions, Joiners, vars, sessionVars,
         controlVars, mediaVars, countVars, joinVars, contextVars, hostVars
<1>1. StartInv'  BY DEF StartCallbacks, StartInv, Begun, Owned
<1>2. MediaInv'  BY DEF StartCallbacks, MediaInv
<1>3. JoinInv'  BY DEF StartCallbacks, JoinInv, JoinedByOne, Joined
<1>4. ContextInv'  BY DEF StartCallbacks, ContextInv, Alive, Begun
<1>5. ThreadsHaveSession'  BY DEF StartCallbacks, ThreadsHaveSession, Alive
<1>6. PlatformIsLeft'  BY DEF StartCallbacks, PlatformIsLeft, StartInv, Begun
<1> QED  BY <1>1, <1>2, <1>3, <1>4, <1>5, <1>6

LEMMA StartRunsStep ==
  ASSUME IInv, StartRuns, TypeOK'
  PROVE  SafeInv'
<1> USE SessionsAssumption DEF IInv, SafeInv, TypeOK, Sessions, Joiners, vars, sessionVars,
         controlVars, mediaVars, countVars, joinVars, contextVars, hostVars
<1>1. StartInv'  BY DEF StartRuns, Released, StartInv, Begun, Owned
<1>2. MediaInv'  BY DEF StartRuns, Released, MediaInv
<1>3. JoinInv'  BY DEF StartRuns, Released, JoinInv, JoinedByOne, Joined
<1>4. ContextInv'  BY DEF StartRuns, Released, ContextInv, Alive, Begun
<1>5. ThreadsHaveSession'
  BY DEF StartRuns, Released, ThreadsHaveSession, Alive, StartInv, Owned
<1>6. PlatformIsLeft'  BY DEF StartRuns, Released, PlatformIsLeft
<1> QED  BY <1>1, <1>2, <1>3, <1>4, <1>5, <1>6

LEMMA MediaEndsStep ==
  ASSUME IInv, NEW s \in AV, MediaEnds(s), TypeOK'
  PROVE  SafeInv'
<1> USE SessionsAssumption DEF IInv, SafeInv, TypeOK, Sessions, Joiners, vars, sessionVars,
         controlVars, mediaVars, countVars, joinVars, contextVars, hostVars
<1>1. StartInv'  BY DEF MediaEnds, Stop, Stopped, MayStop, StartInv, Begun, Owned
<1>2. MediaInv'  BY DEF MediaEnds, Stop, Stopped, MayStop, MediaInv, StartInv, Begun
<1>3. JoinInv'  BY DEF MediaEnds, Stop, Stopped, MayStop, JoinInv, JoinedByOne, Joined
<1>4. ContextInv'  BY DEF MediaEnds, Stop, Stopped, MayStop, ContextInv, Alive, Active
<1>5. ThreadsHaveSession'  BY DEF MediaEnds, Stop, Stopped, MayStop, ThreadsHaveSession, Alive
<1>6. PlatformIsLeft'  BY DEF MediaEnds, Stop, Stopped, MayStop, PlatformIsLeft
<1> QED  BY <1>1, <1>2, <1>3, <1>4, <1>5, <1>6

LEMMA ControlStopsStep ==
  ASSUME IInv, NEW s \in Sessions, ControlStops(s), TypeOK'
  PROVE  SafeInv'
<1> USE SessionsAssumption DEF IInv, SafeInv, TypeOK, Sessions, Joiners, vars, sessionVars,
         controlVars, mediaVars, countVars, joinVars, contextVars, hostVars
<1>1. StartInv'  BY DEF ControlStops, Stop, Stopped, MayStop, StartInv, Begun, Owned
<1>2. MediaInv'  BY DEF ControlStops, Stop, Stopped, MayStop, MediaInv
<1>3. JoinInv'  BY DEF ControlStops, Stop, Stopped, MayStop, JoinInv, JoinedByOne, Joined
<1>4. ContextInv'  BY DEF ControlStops, Stop, Stopped, MayStop, ContextInv, Alive, Active
<1>5. ThreadsHaveSession'
  BY DEF ControlStops, Stop, Stopped, MayStop, ThreadsHaveSession, Alive
<1>6. PlatformIsLeft'  BY DEF ControlStops, Stop, Stopped, MayStop, PlatformIsLeft
<1> QED  BY <1>1, <1>2, <1>3, <1>4, <1>5, <1>6

\* Sessions move from the slots to a batch: they stay owned, and none is joined.
LEMMA ClearStep ==
  ASSUME IInv, NEW j \in Joiners, NEW S \in SUBSET slots, Clear(j, S), TypeOK'
  PROVE  SafeInv'
<1> USE SessionsAssumption DEF IInv, SafeInv, TypeOK, Sessions, Joiners, vars, sessionVars,
         controlVars, mediaVars, countVars, joinVars, contextVars, hostVars
<1>1. slots' = slots \ S /\ batch' = [batch EXCEPT ![j] = S] /\ batch[j] = {}  BY DEF Clear
<1>2. Owned' = Owned
  <2>1. \A k \in Joiners \ {j} : batch'[k] = batch[k]  BY <1>1
  <2>2. batch'[j] = S  BY <1>1
  <2>3. ASSUME NEW s PROVE s \in Owned' <=> s \in Owned
    <3>1. s \in Owned <=> s \in slots \/ \E k \in Joiners \ {j} : s \in batch[k]
      BY <1>1 DEF Owned
    <3>2. s \in Owned' <=> s \in slots' \/ s \in S \/ \E k \in Joiners \ {j} : s \in batch[k]
      BY <2>1, <2>2 DEF Owned
    <3> QED  BY <1>1, <3>1, <3>2
  <2> QED  BY <2>3
<1>3. StartInv'  BY <1>2 DEF Clear, Stop, Stopped, MayStop, StartInv, Begun
<1>4. MediaInv'  BY DEF Clear, Stop, Stopped, MayStop, MediaInv, StartInv, Begun
<1>5. JoinInv'
  <2>1. PICK q \in [1..Cardinality(S) -> S] :
          /\ \A s \in S : \E n \in DOMAIN q : q[n] = s
          /\ todo' = [todo EXCEPT ![j] = q]
    BY DEF Clear
  <2>2. \A k \in Joiners \ {j} :
          todo'[k] = todo[k] /\ batch'[k] = batch[k] /\ Joined(k)' = Joined(k)
    BY <1>1, <2>1 DEF Joined
  <2>3. todo'[j] = q /\ batch'[j] = S  BY <1>1, <2>1
  <2>4. Joined(j)' = {}  BY <2>1, <2>3 DEF Joined
  <2>5. JoinedByOne'  BY <1>1, <2>2, <2>3 DEF JoinInv, JoinedByOne
  <2>6. \A k \in Joiners : \A n \in DOMAIN todo'[k] : todo'[k][n] \in batch'[k]
    <3>1. \A k \in Joiners \ {j} : \A n \in DOMAIN todo'[k] : todo'[k][n] \in batch'[k]
      BY <2>2 DEF JoinInv
    <3>2. \A n \in DOMAIN todo'[j] : todo'[j][n] \in batch'[j]  BY <2>1, <2>3
    <3> QED  BY <3>1, <3>2
  <2>7. UNCHANGED <<spawned, media>>  BY DEF Clear
  <2>8. \A k \in Joiners : \A s \in Joined(k)' \cap AV : s \in spawned' /\ media'[s] = 0
    BY <2>2, <2>4, <2>7 DEF JoinInv
  <2> QED  BY <2>5, <2>6, <2>8 DEF JoinInv
<1>6. \A s \in Sessions : Alive(s)' <=> Alive(s)
  BY <1>2 DEF Clear, Alive, Owned
<1>7. ContextInv'  BY <1>6 DEF Clear, Stop, Stopped, MayStop, ContextInv, Active, Begun
<1>8. ThreadsHaveSession'  BY <1>6 DEF Clear, ThreadsHaveSession
<1>9. PlatformIsLeft'  BY DEF Clear, PlatformIsLeft
<1> QED  BY <1>3, <1>4, <1>5, <1>7, <1>8, <1>9

\* join() ends for the session at the head, whose threads are gone; that is never
\* the one that still starts.
LEMMA JoinStep ==
  ASSUME IInv, NEW j \in Joiners, Join(j), TypeOK'
  PROVE  SafeInv'
<1> USE SessionsAssumption DEF IInv, SafeInv, TypeOK, Sessions, Joiners, vars, sessionVars,
         controlVars, mediaVars, countVars, joinVars, contextVars, hostVars
<1> DEFINE h == Head(todo[j])
<1>1. /\ todo[j] \in Seq(Sessions) /\ todo[j] # <<>>
      /\ todo' = [todo EXCEPT ![j] = Tail(todo[j])]
      /\ h \in AV => h \in spawned /\ media[h] = 0
      /\ registered' = registered \ {h}
  BY DEF Join, Joinable
<1>2. \A n \in DOMAIN todo'[j] : n + 1 \in DOMAIN todo[j] /\ todo'[j][n] = todo[j][n + 1]
  BY <1>1
<1>3. \A n \in DOMAIN todo[j] : n = 1 \/ (n - 1 \in DOMAIN todo'[j] /\ todo'[j][n - 1] = todo[j][n])
  <2>1. todo'[j] = Tail(todo[j])  BY <1>1
  <2>2. /\ Tail(todo[j]) \in Seq(Sessions) /\ Len(Tail(todo[j])) = Len(todo[j]) - 1
        /\ \A i \in 1..Len(Tail(todo[j])) : Tail(todo[j])[i] = todo[j][i + 1]
    BY <1>1, HeadTailProperties
  <2>3. DOMAIN todo[j] = 1..Len(todo[j]) /\ DOMAIN todo'[j] = 1..(Len(todo[j]) - 1)
    BY <1>1, <2>1, <2>2, LenProperties
  <2> QED  BY <2>1, <2>2, <2>3
<1>4. h = todo[j][1]  BY <1>1
<1>5. Joined(j)' \subseteq Joined(j) \cup {h}
  <2>1. batch' = batch  BY DEF Join
  <2> QED  BY <1>3, <1>4, <2>1 DEF Joined
<1>6. \A k \in Joiners \ {j} : todo'[k] = todo[k] /\ Joined(k)' = Joined(k)
  BY <1>1 DEF Join, Joined
<1>7. announcing \in AV /\ step \in Begun => h # announcing
  <2> SUFFICES ASSUME announcing \in AV, step \in Begun, h = announcing PROVE FALSE
    OBVIOUS
  <2>1. announcing \in spawned /\ media[announcing] = 0  BY <1>1
  <2>2. state[announcing] = "STARTING"  BY DEF StartInv
  <2> QED  BY <2>1, <2>2 DEF MediaInv
<1>8. StartInv'
  <2>1. UNCHANGED <<sessionVars, batch>>  BY DEF Join
  <2>2. Owned' = Owned  BY <2>1 DEF Owned
  <2> QED  BY <1>1, <1>7, <2>1, <2>2 DEF StartInv, Begun
<1>9. MediaInv'  BY DEF Join, MediaInv
<1>10. JoinInv'
  <2>1. UNCHANGED <<slots, batch, spawned, media>>  BY DEF Join
  <2>2. JoinedByOne'  BY <2>1 DEF JoinInv, JoinedByOne
  <2>3. \A k \in Joiners : \A n \in DOMAIN todo'[k] : todo'[k][n] \in batch'[k]
    BY <1>2, <1>6, <2>1 DEF JoinInv
  <2>4. \A k \in Joiners : \A s \in Joined(k)' \cap AV : s \in spawned' /\ media'[s] = 0
    BY <1>1, <1>5, <1>6, <2>1 DEF JoinInv
  <2> QED  BY <2>2, <2>3, <2>4 DEF JoinInv
<1>11. ContextInv'  BY DEF Join, ContextInv, Alive, Active, Begun
<1>12. ThreadsHaveSession'  BY DEF Join, ThreadsHaveSession, Alive
<1>13. PlatformIsLeft'  BY DEF Join, PlatformIsLeft
<1> QED  BY <1>8, <1>9, <1>10, <1>11, <1>12, <1>13

LEMMA StopCallbackStep ==
  ASSUME IInv, NEW j \in Joiners, StopCallback(j), TypeOK'
  PROVE  SafeInv'
<1> USE SessionsAssumption DEF IInv, SafeInv, TypeOK, Sessions, Joiners, vars, sessionVars,
         controlVars, mediaVars, countVars, joinVars, contextVars, hostVars
<1>1. StartInv'  BY DEF StopCallback, StartInv, Owned
<1>2. MediaInv'  BY DEF StopCallback, MediaInv
<1>3. JoinInv'  BY DEF StopCallback, JoinInv, JoinedByOne, Joined
<1>4. ContextInv'  BY DEF StopCallback, ContextInv, Alive
<1>5. ThreadsHaveSession'  BY DEF StopCallback, ThreadsHaveSession, Alive
<1>6. PlatformIsLeft'  BY DEF StopCallback, PlatformIsLeft
<1> QED  BY <1>1, <1>2, <1>3, <1>4, <1>5, <1>6

\* The batch that goes has been joined to the last session, so no thread and no
\* start() needs any of them.
LEMMA ReleaseStep ==
  ASSUME IInv, NEW j \in Joiners, Release(j), TypeOK'
  PROVE  SafeInv'
<1> USE SessionsAssumption DEF IInv, SafeInv, TypeOK, Sessions, Joiners, vars, sessionVars,
         controlVars, mediaVars, countVars, joinVars, contextVars, hostVars
<1>1. Joined(j) = batch[j]  BY DEF Release, Joined
<1>2. \A s \in batch[j] \cap AV : s \in spawned /\ media[s] = 0  BY <1>1 DEF JoinInv
<1>3. announcing \in AV => announcing \notin batch[j]
  <2> SUFFICES ASSUME announcing \in AV, announcing \in batch[j] PROVE FALSE
    OBVIOUS
  <2>1. announcing \in spawned /\ media[announcing] = 0  BY <1>2
  <2>2. state[announcing] \in {"STOPPED", "STARTING"}  BY DEF StartInv, Begun
  <2> QED  BY <2>1, <2>2 DEF MediaInv
<1>4. /\ batch' = [batch EXCEPT ![j] = {}]
      /\ UNCHANGED <<sessionVars, mediaVars, countVars, todo, callback>>
      /\ refs' = refs \ (batch[j] \ {announcing})
      /\ ~(refs' = {} /\ Reading = {}) => broadcast' = broadcast
  BY DEF Release, Released
<1>5. \A s \in Sessions : s \notin batch[j] => (Alive(s)' <=> Alive(s))
  BY <1>4 DEF Alive
<1>6. StartInv'
  <2>1. Owned' \subseteq Owned  BY <1>4 DEF Owned
  <2>2. announcing \in AV => announcing \in Owned'
    <3> SUFFICES ASSUME announcing \in AV PROVE announcing \in Owned'
      OBVIOUS
    <3>1. announcing \in Owned  BY DEF StartInv
    <3>2. announcing \notin batch[j]  BY <1>3
    <3> QED  BY <1>4, <3>1, <3>2 DEF Owned
  <2> QED  BY <1>4, <2>1, <2>2 DEF StartInv, Begun
<1>7. MediaInv'  BY <1>4 DEF MediaInv
<1>8. JoinInv'
  <2>1. \A k \in Joiners \ {j} : batch'[k] = batch[k] /\ Joined(k)' = Joined(k)
    BY <1>4 DEF Joined
  <2>2. batch'[j] = {} /\ Joined(j)' = {}  BY <1>4 DEF Joined
  <2>3. todo'[j] = <<>>  BY <1>4 DEF Release
  <2>4. JoinedByOne'  BY <1>4, <2>1, <2>2 DEF JoinInv, JoinedByOne
  <2>5. \A k \in Joiners : \A n \in DOMAIN todo'[k] : todo'[k][n] \in batch'[k]
    BY <1>4, <2>1, <2>3 DEF JoinInv
  <2>6. \A k \in Joiners : \A s \in Joined(k)' \cap AV : s \in spawned' /\ media'[s] = 0
    BY <1>4, <2>1, <2>2 DEF JoinInv
  <2> QED  BY <2>4, <2>5, <2>6 DEF JoinInv
<1>9. ContextInv'
  <2>1. ASSUME NEW s \in Sessions, Alive(s)', state'[s] \in Active PROVE s \in refs'
    <3>1. s = announcing \/ s \notin batch[j]
      BY <1>4, <2>1 DEF Alive, JoinInv, JoinedByOne
    <3>2. Alive(s)  BY <1>4, <1>5, <2>1, <3>1 DEF Alive
    <3>3. s \in refs  BY <1>4, <2>1, <3>2 DEF ContextInv
    <3> QED  BY <1>4, <3>1, <3>3
  <2>2. step' \in Begun \cup {"register"} => announcing' \in refs'
    BY <1>4 DEF ContextInv
  <2>3. refs' # {} => broadcast' = "up"  BY <1>4 DEF ContextInv
  <2> QED  BY <2>1, <2>2, <2>3 DEF ContextInv
<1>10. ThreadsHaveSession'
  <2> SUFFICES ASSUME NEW s \in AV, media'[s] > 0 PROVE Alive(s)'
    BY DEF ThreadsHaveSession
  <2>1. media[s] > 0  BY <1>4
  <2>2. s \notin batch[j]  BY <1>2, <2>1
  <2>3. Alive(s)  BY <2>1 DEF ThreadsHaveSession
  <2> QED  BY <1>5, <2>2, <2>3
<1>11. PlatformIsLeft'  BY <1>4 DEF PlatformIsLeft
<1> QED  BY <1>6, <1>7, <1>8, <1>9, <1>10, <1>11

LEMMA ProbeEndsStep ==
  ASSUME IInv, NEW p \in Probes, ProbeEnds(p), TypeOK'
  PROVE  SafeInv'
<1> USE SessionsAssumption DEF IInv, SafeInv, TypeOK, Sessions, Joiners, vars, sessionVars,
         controlVars, mediaVars, countVars, joinVars, contextVars, hostVars
<1>1. StartInv'  BY DEF ProbeEnds, Released, StartInv, Owned
<1>2. MediaInv'  BY DEF ProbeEnds, Released, MediaInv
<1>3. JoinInv'  BY DEF ProbeEnds, Released, JoinInv, JoinedByOne, Joined
<1>4. ContextInv'  BY DEF ProbeEnds, Released, ContextInv, Alive
<1>5. ThreadsHaveSession'  BY DEF ProbeEnds, Released, ThreadsHaveSession, Alive
<1>6. PlatformIsLeft'  BY DEF ProbeEnds, Released, PlatformIsLeft
<1> QED  BY <1>1, <1>2, <1>3, <1>4, <1>5, <1>6

LEMMA EndBroadcastStep ==
  ASSUME IInv, EndBroadcast, TypeOK'
  PROVE  SafeInv'
<1> USE SessionsAssumption DEF IInv, SafeInv, TypeOK, Sessions, Joiners, vars, sessionVars,
         controlVars, mediaVars, countVars, joinVars, contextVars, hostVars
<1>1. StartInv'  BY DEF EndBroadcast, StartInv, Owned
<1>2. MediaInv'  BY DEF EndBroadcast, MediaInv
<1>3. JoinInv'  BY DEF EndBroadcast, JoinInv, JoinedByOne, Joined
<1>4. ContextInv'  BY DEF EndBroadcast, ContextInv, Alive
<1>5. ThreadsHaveSession'  BY DEF EndBroadcast, ThreadsHaveSession, Alive
<1>6. PlatformIsLeft'  BY DEF EndBroadcast, PlatformIsLeft
<1> QED  BY <1>1, <1>2, <1>3, <1>4, <1>5, <1>6

\* Steps that change nothing the invariant reads, but may build the context.
LEMMA FrameStep ==
  ASSUME IInv, UNCHANGED observed, broadcast' \in {broadcast, "up"}, TypeOK'
  PROVE  SafeInv'
<1> USE SessionsAssumption DEF IInv, SafeInv, TypeOK, Sessions, Joiners, vars, sessionVars,
         controlVars, mediaVars, countVars, joinVars, contextVars, hostVars
<1>1. StartInv'  BY DEF observed, StartInv, Owned
<1>2. MediaInv'  BY DEF observed, MediaInv
<1>3. JoinInv'  BY DEF observed, JoinInv, JoinedByOne, Joined
<1>4. ContextInv'  BY DEF observed, ContextInv, Alive
<1>5. ThreadsHaveSession'  BY DEF observed, ThreadsHaveSession, Alive
<1>6. PlatformIsLeft'  BY DEF observed, PlatformIsLeft
<1> QED  BY <1>1, <1>2, <1>3, <1>4, <1>5, <1>6

\* The invariant holds initially, every step preserves it, hence it always holds.
LEMMA InitIInv == Init => IInv
<1> SUFFICES ASSUME Init PROVE IInv  OBVIOUS
<1> USE SessionsAssumption DEF Init
<1>1. TypeOK
  <2>1. state \in [Sessions -> {"new", "STOPPED", "STARTING", "RUNNING", "STOPPING"}]  OBVIOUS
  <2>2. batch \in [Joiners -> SUBSET Sessions]  OBVIOUS
  <2>3. todo \in [Joiners -> Seq(Sessions)]  BY EmptySeq
  <2>4. media \in [AV -> 0..2]  OBVIOUS
  <2>5. probing \in [Probes -> {"idle", "checked", "reading"}]  OBVIOUS
  <2>6. /\ isFirst \in BOOLEAN /\ platform \in BOOLEAN /\ bshut \in BOOLEAN
        /\ app \in BOOLEAN /\ hostShut \in BOOLEAN /\ serverStopped \in BOOLEAN
    OBVIOUS
  <2> QED  BY <2>1, <2>2, <2>3, <2>4, <2>5, <2>6 DEF TypeOK
<1>2. StartInv  BY DEF StartInv, Owned, Begun, Sessions
<1>3. MediaInv  BY DEF MediaInv, Sessions
<1>4. JoinInv  BY DEF JoinInv, JoinedByOne, Joined
<1>5. ContextInv  BY DEF ContextInv, Alive, Active, Begun
<1>6. ThreadsHaveSession /\ PlatformIsLeft  BY DEF ThreadsHaveSession, PlatformIsLeft
<1> QED  BY <1>1, <1>2, <1>3, <1>4, <1>5, <1>6 DEF IInv, SafeInv

LEMMA StepIInv == IInv /\ [Next]_vars => IInv'
<1> SUFFICES ASSUME IInv, [Next]_vars PROVE IInv'  OBVIOUS
<1> USE DEF vars, sessionVars, controlVars, mediaVars, countVars, joinVars, contextVars, hostVars
<1>1. TypeOK'  BY TypeStep
<1>2. SafeInv'
  <2>1. ASSUME NEW s \in Sessions, Announce(s) PROVE SafeInv'  BY <1>1, <2>1, AnnounceStep
  <2>2. CASE StartAcquires  BY <1>1, <2>2, StartAcquiresStep
  <2>3. CASE StartFails  BY <1>1, <2>3, StartFailsStep
  <2>4. CASE StartRegisters  BY <1>1, <2>4, StartRegistersStep
  <2>5. CASE StartPublishes  BY <1>1, <2>5, StartPublishesStep
  <2>6. CASE StartSpawns  BY <1>1, <2>6, StartSpawnsStep
  <2>7. CASE StartCallbacks  BY <1>1, <2>7, StartCallbacksStep
  <2>8. CASE StartRuns  BY <1>1, <2>8, StartRunsStep
  <2>9. ASSUME NEW s \in AV, MediaEnds(s) PROVE SafeInv'  BY <1>1, <2>9, MediaEndsStep
  <2>10. ASSUME NEW s \in Sessions, ControlConnects(s) PROVE SafeInv'
    BY <1>1, <2>10, FrameStep DEF ControlConnects, observed
  <2>11. ASSUME NEW s \in Sessions, ControlStops(s) PROVE SafeInv'
    BY <1>1, <2>11, ControlStopsStep
  <2>12. ASSUME NEW s \in Sessions, ControlReaps(s) PROVE SafeInv'
    BY <1>1, <2>12, FrameStep DEF ControlReaps, observed
  <2>13. CASE ControlLeaves  BY <1>1, <2>13, FrameStep DEF ControlLeaves, observed
  <2>14. CASE ControlExits  BY <1>1, <2>14, FrameStep DEF ControlExits, observed
  <2>15. ASSUME NEW j \in Joiners, ClearEnded(j) PROVE SafeInv'
    <3>1. Clear(j, {s \in slots : state[s] = "STOPPING"})  BY <2>15 DEF ClearEnded
    <3> QED  BY <1>1, <3>1, ClearStep
  <2>16. ASSUME NEW j \in Joiners, ClearAll(j) PROVE SafeInv'
    <3>1. Clear(j, slots)  BY <2>16 DEF ClearAll
    <3> QED  BY <1>1, <3>1, ClearStep
  <2>17. ASSUME NEW j \in Joiners, Join(j) PROVE SafeInv'  BY <1>1, <2>17, JoinStep
  <2>18. ASSUME NEW j \in Joiners, StopCallback(j) PROVE SafeInv'
    BY <1>1, <2>18, StopCallbackStep
  <2>19. ASSUME NEW j \in Joiners, Release(j) PROVE SafeInv'  BY <1>1, <2>19, ReleaseStep
  <2>20. ASSUME NEW p \in Probes, ProbeChecks(p) PROVE SafeInv'
    BY <1>1, <2>20, FrameStep DEF ProbeChecks, observed
  <2>21. ASSUME NEW p \in Probes, ProbeAcquires(p) PROVE SafeInv'
    BY <1>1, <2>21, FrameStep DEF ProbeAcquires, Acquired, observed
  <2>22. ASSUME NEW p \in Probes, ProbeFails(p) PROVE SafeInv'
    BY <1>1, <2>22, FrameStep DEF ProbeFails, observed
  <2>23. ASSUME NEW p \in Probes, ProbeEnds(p) PROVE SafeInv'  BY <1>1, <2>23, ProbeEndsStep
  <2>24. CASE EndBroadcast  BY <1>1, <2>24, EndBroadcastStep
  <2>25. CASE AppExits  BY <1>1, <2>25, FrameStep DEF AppExits, observed
  <2>26. CASE AppLaunches  BY <1>1, <2>26, FrameStep DEF AppLaunches, observed
  <2>27. CASE HostShutsDown  BY <1>1, <2>27, FrameStep DEF HostShutsDown, observed
  <2>28. CASE UNCHANGED vars  BY <1>1, <2>28, FrameStep DEF observed
  <2> QED
    BY <2>1, <2>2, <2>3, <2>4, <2>5, <2>6, <2>7, <2>8, <2>9, <2>10, <2>11, <2>12, <2>13, <2>14,
       <2>15, <2>16, <2>17, <2>18, <2>19, <2>20, <2>21, <2>22, <2>23, <2>24, <2>25, <2>26, <2>27,
       <2>28
    DEF Next, Start
<1> QED  BY <1>1, <1>2 DEF IInv

LEMMA IInvHolds == Spec => []IInv
<1>1. IInv /\ [Next]_vars => IInv'  BY StepIInv
<1> QED  BY InitIInv, <1>1, PTL DEF Spec

-----------------------------------------------------------------------------

\* The variables have their types.
THEOREM StreamTypes == Spec => []TypeOK
<1>1. IInv => TypeOK  BY DEF IInv
<1> QED  BY IInvHolds, <1>1, PTL

\* However many HTTPS threads count the sessions while the server loop clears them
\* and the host shuts down, each session is joined by one thread.
THEOREM StreamJoinedByOne == Spec => []JoinedByOne
<1>1. IInv => JoinedByOne  BY DEF IInv, SafeInv, JoinInv
<1> QED  BY IInvHolds, <1>1, PTL

\* The object of a session outlives the media threads that work on a pointer to it.
THEOREM StreamThreadsHaveSession == Spec => []ThreadsHaveSession
<1>1. IInv => ThreadsHaveSession  BY DEF IInv, SafeInv
<1> QED  BY IInvHolds, <1>1, PTL

\* The broadcast context is up as long as a started session exists: its reference
\* is taken before the session starts and dropped after it has gone.
THEOREM StreamHasBroadcast == Spec => []SessionsHaveBroadcast
<1>1. IInv => SessionsHaveBroadcast
  BY DEF IInv, SafeInv, ContextInv, SessionsHaveBroadcast, Active
<1> QED  BY IInvHolds, <1>1, PTL

\* The platform never stays in its streaming state without a video session.
THEOREM StreamPlatformIsLeft == Spec => []PlatformIsLeft
<1>1. IInv => PlatformIsLeft  BY DEF IInv, SafeInv
<1> QED  BY IInvHolds, <1>1, PTL

\* A video session that stops has its threads: start() has committed what join()
\* takes apart.
THEOREM StreamStopsCommitted == Spec => []StoppingIsCommitted
<1>1. IInv => StoppingIsCommitted
  BY SessionsAssumption DEF IInv, SafeInv, MediaInv, StoppingIsCommitted
<1> QED  BY IInvHolds, <1>1, PTL

\* No thread, and not start() when it publishes RUNNING, brings back a session
\* that has begun to stop.
LEMMA StoppingStays ==
  ASSUME IInv, [Next]_vars, NEW s \in Sessions, state[s] = "STOPPING"
  PROVE  state'[s] = "STOPPING"
<1> USE SessionsAssumption DEF IInv, SafeInv, TypeOK, sessionVars
<1>1. announcing # s
  BY DEF StartInv, Begun
<1>2. ASSUME NEW r \in Sessions, Announce(r) PROVE state'[s] = "STOPPING"
  BY <1>2 DEF Announce
<1>3. ASSUME Start PROVE state'[s] = "STOPPING"
  BY <1>1, <1>3 DEF Start, StartAcquires, StartFails, StartRegisters, StartPublishes, StartSpawns,
     StartCallbacks, StartRuns
<1>4. ASSUME NEW r \in AV, MediaEnds(r) PROVE state'[s] = "STOPPING"
  BY <1>4 DEF MediaEnds, Stop, Stopped
<1>5. ASSUME NEW r \in Sessions, ControlStops(r) PROVE state'[s] = "STOPPING"
  BY <1>5 DEF ControlStops, Stop, Stopped
<1>6. ASSUME NEW j \in Joiners, ClearEnded(j) \/ ClearAll(j) PROVE state'[s] = "STOPPING"
  BY <1>6 DEF ClearEnded, ClearAll, Clear, Stop, Stopped
<1>7. ASSUME UNCHANGED state PROVE state'[s] = "STOPPING"  BY <1>7
<1>8. ASSUME NEW r \in Sessions, ControlConnects(r) \/ ControlReaps(r) PROVE UNCHANGED state
  BY <1>8 DEF ControlConnects, ControlReaps
<1>9. ASSUME NEW j \in Joiners, Join(j) \/ StopCallback(j) \/ Release(j) PROVE UNCHANGED state
  BY <1>9 DEF Join, StopCallback, Release
<1>10. ASSUME NEW p \in Probes,
              ProbeChecks(p) \/ ProbeAcquires(p) \/ ProbeFails(p) \/ ProbeEnds(p)
       PROVE  UNCHANGED state
  BY <1>10 DEF ProbeChecks, ProbeAcquires, ProbeFails, ProbeEnds
<1>11. ASSUME \/ ControlLeaves \/ ControlExits \/ EndBroadcast
              \/ AppExits \/ AppLaunches \/ HostShutsDown
       PROVE  UNCHANGED state
  BY <1>11 DEF ControlLeaves, ControlExits, EndBroadcast, AppExits, AppLaunches, HostShutsDown
<1> QED
  BY <1>2, <1>3, <1>4, <1>5, <1>6, <1>7, <1>8, <1>9, <1>10, <1>11 DEF Next, vars

\* A session that has begun to stop never runs again.
THEOREM StreamStopsForGood == Spec => StoppingIsFinal
<1>1. IInv /\ [Next]_vars =>
        [\A s \in Sessions : state[s] = "STOPPING" => state'[s] = "STOPPING"]_vars
  BY StoppingStays
<1> QED  BY IInvHolds, <1>1, PTL DEF Spec, StoppingIsFinal

-----------------------------------------------------------------------------
(* The control server's list.                                               *)

\* What is on the list is alive until it has been reaped or the control thread has
\* made its final pass; nothing is joined before, not even what a shutdown takes
\* while it starts; nobody is on the list before start() has put it there, started.
ListedInv ==
  /\ control \in {"looping", "leaving"} => list \cap ended = {}
  /\ \A s \in list : s \notin ended => Alive(s)
  /\ \A s \in list \cup ended : state[s] \in Active
  /\ step \in {"acquire", "register", "publish"} => announcing \notin list \cup ended
  /\ announcing # NoOne => announcing \in Owned \cup ended
  /\ \A j \in Joiners : Joined(j) \subseteq ended

\* While the application runs and the host is not shut down, the control thread
\* leaves its loop for the end of the context alone, which waits for every
\* reference to be gone.
ControlInv ==
  /\ app /\ ~hostShut
  /\ bshut => broadcast = "ending"
  /\ broadcast = "up" => control = "looping"
  /\ control \in {"leaving", "exited"} => broadcast = "ending"

listed == <<list, ended, state, slots, announcing, step, batch, todo>>

\* Steps that leave alone what the list is about.
LEMMA ListedFrame ==
  ASSUME ListedInv, UNCHANGED <<listed, control>>
  PROVE  ListedInv'
BY DEF listed, ListedInv, Alive, Owned, Joined

\* Taking a reference builds the context, with an empty list, or does nothing to
\* the list.
LEMMA AcquiredListed ==
  ASSUME ListedInv, Acquired, UNCHANGED <<ended, state, slots, announcing, batch, todo>>,
         step' = step \/ (step = "acquire" /\ step' = "register")
  PROVE  ListedInv'
<1>1. list' = {} \/ (list' = list /\ control' = control)  BY DEF Acquired
<1> QED  BY <1>1 DEF ListedInv, Alive, Owned, Joined

\* A started session that is stopped has still started.
LEMMA StopListed ==
  ASSUME TypeOK, ListedInv, NEW S, Stop(S),
         UNCHANGED <<list, ended, slots, announcing, step, batch, todo, control>>
  PROVE  ListedInv'
<1>1. \A s \in Sessions : state[s] \in Active => state'[s] \in Active
  BY DEF Stop, Stopped, Active
<1>2. list \subseteq Sessions /\ ended \subseteq Sessions  BY DEF TypeOK
<1> QED  BY <1>1, <1>2 DEF ListedInv, Alive, Owned, Joined

LEMMA StartListed ==
  ASSUME IInv, ListedInv, Start
  PROVE  ListedInv'
<1> USE DEF sessionVars, controlVars, mediaVars, countVars, joinVars, contextVars, hostVars
<1>1. TypeOK /\ StartInv  BY DEF IInv, SafeInv
<1>2. step # "loop" => announcing \in Sessions /\ announcing # NoOne
  BY <1>1 DEF StartInv, TypeOK
<1>3. CASE StartAcquires
  BY <1>3, AcquiredListed DEF StartAcquires
<1>4. CASE StartFails
  <2>1. announcing \notin list  BY <1>4 DEF StartFails, ListedInv
  <2>2. /\ slots' = slots \ {announcing} /\ announcing' = NoOne /\ step' = "loop"
        /\ UNCHANGED <<list, ended, state, batch, todo, control>>
    BY <1>4 DEF StartFails
  <2>3. \A s \in list : s \notin ended => Alive(s)'
    BY <2>1, <2>2 DEF ListedInv, Alive
  <2> QED  BY <2>2, <2>3 DEF ListedInv, Joined
<1>5. CASE StartRegisters
  <2>1. /\ state' = [state EXCEPT ![announcing] = "STARTING"] /\ step' = "publish"
        /\ step = "register"
        /\ UNCHANGED <<list, ended, slots, announcing, batch, todo, control>>
    BY <1>5 DEF StartRegisters
  <2>2. \A s \in list \cup ended : state'[s] = state[s] \/ state'[s] = "STARTING"
    BY <1>1, <2>1 DEF TypeOK, ListedInv
  <2> QED  BY <2>1, <2>2 DEF ListedInv, Alive, Owned, Joined, Active
<1>6. CASE StartPublishes
  <2>1. /\ list' = list \cup {announcing} /\ state[announcing] = "STARTING"
        /\ step = "publish" /\ step' = "spawn"
        /\ UNCHANGED <<ended, state, slots, announcing, batch, todo, control>>
    BY <1>1, <1>6 DEF StartPublishes, StartInv, Begun
  <2>2. announcing \notin ended /\ Alive(announcing)
    BY <2>1 DEF ListedInv, Alive
  <2> QED  BY <2>1, <2>2 DEF ListedInv, Alive, Owned, Joined, Active
<1>7. CASE StartSpawns \/ StartCallbacks
  <2>1. /\ step' \in {"callbacks", "run"}
        /\ UNCHANGED <<list, ended, state, slots, announcing, batch, todo, control>>
    BY <1>7 DEF StartSpawns, StartCallbacks
  <2> QED  BY <2>1 DEF ListedInv, Alive, Owned, Joined
<1>8. CASE StartRuns
  <2>1. /\ state' = [state EXCEPT ![announcing] = "RUNNING"] /\ step' = "loop"
        /\ announcing' = NoOne
        /\ UNCHANGED <<list, ended, slots, batch, todo, control>>
    BY <1>8 DEF StartRuns
  <2>2. announcing \in Owned \cup ended
    BY <1>2, <1>8 DEF StartRuns, ListedInv
  <2>3. \A s \in list : s \notin ended => Alive(s)'
    BY <2>1, <2>2 DEF ListedInv, Alive, Owned
  <2>4. \A s \in list \cup ended : state'[s] \in Active
    BY <1>1, <2>1 DEF TypeOK, ListedInv, Active
  <2> QED  BY <2>1, <2>3, <2>4 DEF ListedInv, Joined
<1> QED  BY <1>3, <1>4, <1>5, <1>6, <1>7, <1>8, Zenon DEF Start

LEMMA AnnounceListed ==
  ASSUME IInv, ListedInv, NEW s \in Sessions, Announce(s)
  PROVE  ListedInv'
<1> USE DEF controlVars, joinVars
<1>1. /\ state' = [state EXCEPT ![s] = "STOPPED"] /\ state[s] = "new"
      /\ slots' = slots \cup {s} /\ announcing' = s /\ announcing = NoOne
      /\ UNCHANGED <<list, ended, batch, todo, control>>
  BY DEF Announce, IInv, SafeInv, StartInv
<1>2. s \notin list /\ s \notin ended  BY <1>1 DEF ListedInv, Active
<1>3. \A r \in Sessions \ {s} : state'[r] = state[r]  BY <1>1 DEF IInv, TypeOK
<1>4. list \subseteq Sessions /\ ended \subseteq Sessions  BY DEF IInv, TypeOK
<1>5. \A r \in list : r # NoOne  BY <1>4, SessionsAssumption
<1>6. \A r \in list : r \notin ended => Alive(r)'
  BY <1>1, <1>5 DEF ListedInv, Alive
<1>7. s \in Owned'  BY <1>1 DEF Owned
<1> QED  BY <1>1, <1>2, <1>3, <1>4, <1>6, <1>7 DEF ListedInv, Joined

\* The control thread reaps what it takes off the list; its final pass reaps the
\* rest, which it leaves there.
LEMMA ControlListed ==
  ASSUME IInv, ListedInv,
         \/ \E s \in Sessions : ControlConnects(s) \/ ControlStops(s) \/ ControlReaps(s)
         \/ ControlLeaves \/ ControlExits \/ EndBroadcast
  PROVE  ListedInv'
<1> USE DEF sessionVars, controlVars, joinVars
<1>1. ASSUME NEW s \in Sessions, ControlConnects(s) PROVE ListedInv'
  BY <1>1, ListedFrame DEF ControlConnects, listed
<1>2. ASSUME NEW s \in Sessions, ControlStops(s) PROVE ListedInv'
  BY <1>2, StopListed DEF ControlStops, IInv
<1>3. ASSUME NEW s \in Sessions, ControlReaps(s) PROVE ListedInv'
  BY <1>3 DEF ControlReaps, ListedInv, Alive, Owned, Joined
<1>4. CASE ControlLeaves
  BY <1>4 DEF ControlLeaves, ListedInv, Alive, Owned, Joined
<1>5. CASE ControlExits
  <2>1. /\ control' = "exited" /\ ended' = ended \cup list
        /\ UNCHANGED <<list, state, slots, announcing, step, batch, todo>>
    BY <1>5 DEF ControlExits
  <2> QED  BY <2>1 DEF ListedInv, Alive, Owned, Joined
<1>6. CASE EndBroadcast
  BY <1>6 DEF EndBroadcast, ListedInv, Alive, Owned, Joined
<1> QED  BY <1>1, <1>2, <1>3, <1>4, <1>5, <1>6

\* Sessions move from the slots to a batch, of which none is joined yet.
LEMMA ClearListed ==
  ASSUME IInv, ListedInv, NEW j \in Joiners, NEW S \in SUBSET slots, Clear(j, S)
  PROVE  ListedInv'
<1> USE DEF sessionVars, controlVars, joinVars
<1>1. PICK q \in [1..Cardinality(S) -> S] :
        /\ \A s \in S : \E n \in DOMAIN q : q[n] = s
        /\ todo' = [todo EXCEPT ![j] = q]
  BY DEF Clear
<1>2. /\ slots' = slots \ S /\ batch' = [batch EXCEPT ![j] = S] /\ batch[j] = {}
      /\ UNCHANGED <<announcing, step, list, ended, control>>
  BY DEF Clear
<1>3. /\ batch \in [Joiners -> SUBSET Sessions] /\ todo \in [Joiners -> Seq(Sessions)]
      /\ list \subseteq Sessions /\ ended \subseteq Sessions
  BY DEF IInv, TypeOK
<1>4. /\ \A k \in Joiners \ {j} : batch'[k] = batch[k] /\ todo'[k] = todo[k]
      /\ batch'[j] = S /\ todo'[j] = q
  BY <1>1, <1>2, <1>3
<1>5. \A s : (s \in slots' \/ \E k \in Joiners : s \in batch'[k])
               <=> (s \in slots \/ \E k \in Joiners : s \in batch[k])
  BY <1>2, <1>4
<1>6. \A s \in list : s \notin ended => Alive(s)'
  BY <1>2, <1>5 DEF ListedInv, Alive
<1>7. announcing' # NoOne => announcing' \in Owned' \cup ended'
  BY <1>2, <1>5 DEF ListedInv, Owned
<1>8. \A k \in Joiners : Joined(k)' \subseteq ended'
  <2>1. \A k \in Joiners \ {j} : Joined(k)' = Joined(k)  BY <1>4 DEF Joined
  <2>2. Joined(j)' = {}  BY <1>1, <1>4 DEF Joined
  <2> QED  BY <1>2, <2>1, <2>2 DEF ListedInv
<1>9. \A s \in list \cup ended : state'[s] \in Active
  BY <1>3 DEF Clear, Stop, Stopped, ListedInv, Active
<1> QED  BY <1>2, <1>6, <1>7, <1>8, <1>9 DEF ListedInv

\* join() has waited for the session to be reaped.
LEMMA JoinListed ==
  ASSUME IInv, ListedInv, NEW j \in Joiners, Join(j)
  PROVE  ListedInv'
<1> USE DEF sessionVars, controlVars
<1> DEFINE h == Head(todo[j])
<1>1. /\ todo[j] \in Seq(Sessions) /\ todo[j] # <<>> /\ h \in ended
      /\ todo' = [todo EXCEPT ![j] = Tail(todo[j])]
      /\ todo \in [Joiners -> Seq(Sessions)]
      /\ UNCHANGED <<list, ended, state, slots, announcing, step, batch, control>>
  BY DEF Join, Joinable, IInv, TypeOK
<1>2. Joined(j)' \subseteq Joined(j) \cup {h}
  <2>1. todo'[j] = Tail(todo[j])  BY <1>1
  <2>2. /\ Tail(todo[j]) \in Seq(Sessions) /\ Len(Tail(todo[j])) = Len(todo[j]) - 1
        /\ \A i \in 1..Len(Tail(todo[j])) : Tail(todo[j])[i] = todo[j][i + 1]
    BY <1>1, HeadTailProperties
  <2>3. DOMAIN todo[j] = 1..Len(todo[j]) /\ DOMAIN todo'[j] = 1..(Len(todo[j]) - 1)
    BY <1>1, <2>1, <2>2, LenProperties
  <2>4. \A n \in DOMAIN todo[j] :
          n = 1 \/ (n - 1 \in DOMAIN todo'[j] /\ todo'[j][n - 1] = todo[j][n])
    BY <2>1, <2>2, <2>3
  <2>5. h = todo[j][1]  BY <1>1
  <2> QED  BY <1>1, <2>4, <2>5 DEF Joined
<1>3. \A k \in Joiners \ {j} : Joined(k)' = Joined(k)
  BY <1>1 DEF Joined
<1>4. \A k \in Joiners : Joined(k)' \subseteq ended'
  BY <1>1, <1>2, <1>3 DEF ListedInv
<1> QED  BY <1>1, <1>4 DEF ListedInv, Alive, Owned

\* The sessions that are let go have all been reaped.
LEMMA ReleaseListed ==
  ASSUME IInv, ListedInv, NEW j \in Joiners, Release(j)
  PROVE  ListedInv'
<1> USE DEF sessionVars, controlVars
<1>1. /\ batch' = [batch EXCEPT ![j] = {}] /\ batch \in [Joiners -> SUBSET Sessions]
      /\ todo[j] = <<>>
      /\ UNCHANGED <<list, ended, state, slots, announcing, step, todo, control>>
  BY DEF Release, IInv, TypeOK
<1>2. batch[j] \subseteq ended
  <2>1. Joined(j) = batch[j]  BY <1>1 DEF Joined
  <2> QED  BY <2>1 DEF ListedInv
<1>3. /\ \A k \in Joiners \ {j} : batch'[k] = batch[k]
      /\ batch'[j] = {}
  BY <1>1
<1>4. \A s \in list : s \notin ended => Alive(s)'
  BY <1>1, <1>2, <1>3 DEF ListedInv, Alive
<1>5. announcing' # NoOne => announcing' \in Owned' \cup ended'
  BY <1>1, <1>2, <1>3 DEF ListedInv, Owned
<1>6. \A k \in Joiners : Joined(k)' \subseteq ended'
  BY <1>1, <1>3 DEF ListedInv, Joined
<1> QED  BY <1>1, <1>4, <1>5, <1>6 DEF ListedInv

LEMMA ListedStep ==
  ASSUME IInv, ListedInv, [Next]_vars
  PROVE  ListedInv'
<1> USE DEF sessionVars, controlVars, joinVars
<1>1. ASSUME NEW s \in AV, MediaEnds(s) PROVE ListedInv'
  BY <1>1, StopListed DEF MediaEnds, IInv
<1>2. ASSUME NEW j \in Joiners, ClearEnded(j) \/ ClearAll(j) PROVE ListedInv'
  <2>1. \E S \in SUBSET slots : Clear(j, S)  BY <1>2 DEF ClearEnded, ClearAll
  <2> QED  BY <2>1, ClearListed
<1>3. ASSUME NEW j \in Joiners, StopCallback(j) PROVE ListedInv'
  BY <1>3, ListedFrame DEF StopCallback, listed
<1>4. ASSUME NEW p \in Probes,
             ProbeChecks(p) \/ ProbeAcquires(p) \/ ProbeFails(p) \/ ProbeEnds(p)
      PROVE  ListedInv'
  <2>1. CASE ProbeAcquires(p)
    BY <2>1, AcquiredListed DEF ProbeAcquires
  <2>2. CASE ProbeChecks(p) \/ ProbeFails(p) \/ ProbeEnds(p)
    BY <2>2, ListedFrame DEF ProbeChecks, ProbeFails, ProbeEnds, listed
  <2> QED  BY <1>4, <2>1, <2>2
<1>5. CASE AppExits \/ AppLaunches \/ HostShutsDown \/ UNCHANGED vars
  BY <1>5, ListedFrame DEF AppExits, AppLaunches, HostShutsDown, vars, listed
<1> QED
  BY <1>1, <1>2, <1>3, <1>4, <1>5, AnnounceListed, ControlListed, StartListed, JoinListed,
     ReleaseListed
  DEF Next

LEMMA ListedHolds == Spec => []ListedInv
<1>1. Init => ListedInv  BY DEF Init, ListedInv, Joined
<1>2. IInv /\ ListedInv /\ [Next]_vars => ListedInv'  BY ListedStep
<1> QED  BY <1>1, <1>2, IInvHolds, PTL DEF Spec

\* However the host shuts down and the application ends, the control thread meets
\* no session on its list that has been destroyed, its final pass included.
THEOREM StreamControlMeetsLiving == Spec => []ControlListAlive
<1>1. ListedInv => ControlListAlive  BY DEF ListedInv, ControlListAlive
<1> QED  BY <1>1, ListedHolds, PTL

\* References come and go and leave the control thread in its loop, as long as the
\* application and the host go on.
LEMMA ControlStep ==
  ASSUME AppMayExit = FALSE, HostMayShutDown = FALSE, TypeOK, ControlInv, [Next]_vars
  PROVE  ControlInv'
<1> USE DEF sessionVars, controlVars, contextVars, hostVars
<1>1. ASSUME UNCHANGED <<app, hostShut, bshut, broadcast, control>> PROVE ControlInv'
  BY <1>1 DEF ControlInv
<1>2. ASSUME Acquired, UNCHANGED <<app, hostShut, bshut>> PROVE ControlInv'
  BY <1>2 DEF Acquired, Unlocked, ControlInv, TypeOK
<1>3. ASSUME NEW j, NEW R, NEW P, Released(j, R, P), UNCHANGED <<app, hostShut, control>>
      PROVE  ControlInv'
  BY <1>3 DEF Released, Unlocked, ControlInv
<1>4. ASSUME NEW s \in Sessions,
             Announce(s) \/ ControlConnects(s) \/ ControlStops(s) \/ ControlReaps(s)
      PROVE  ControlInv'
  BY <1>1, <1>4 DEF Announce, ControlConnects, ControlStops, ControlReaps
<1>5. ASSUME NEW s \in AV, MediaEnds(s) PROVE ControlInv'
  BY <1>1, <1>5 DEF MediaEnds
<1>6. CASE Start
  <2>1. CASE StartAcquires  BY <1>2, <2>1 DEF StartAcquires
  <2>2. CASE StartRuns
    BY <1>1, <1>3, <2>2 DEF StartRuns
  <2>3. CASE StartFails \/ StartRegisters \/ StartPublishes \/ StartSpawns \/ StartCallbacks
    BY <1>1, <2>3 DEF StartFails, StartRegisters, StartPublishes, StartSpawns, StartCallbacks
  <2> QED  BY <1>6, <2>1, <2>2, <2>3, Zenon DEF Start
<1>7. CASE ControlLeaves \/ ControlExits \/ EndBroadcast
  <2>1. CASE ControlLeaves
    <3>1. /\ bshut /\ control' = "leaving"
          /\ UNCHANGED <<app, hostShut, bshut, broadcast>>
      BY <2>1 DEF ControlLeaves, ControlInv
    <3>2. broadcast = "ending"  BY <3>1 DEF ControlInv
    <3> QED  BY <3>1, <3>2 DEF ControlInv
  <2>2. CASE ControlExits
    <3>1. /\ control = "leaving" /\ control' = "exited"
          /\ UNCHANGED <<app, hostShut, bshut, broadcast>>
      BY <2>2 DEF ControlExits
    <3>2. broadcast = "ending"  BY <3>1 DEF ControlInv
    <3> QED  BY <3>1, <3>2 DEF ControlInv
  <2>3. CASE EndBroadcast
    <3>1. /\ broadcast' = "down" /\ ~bshut' /\ control' = "none"
          /\ UNCHANGED <<app, hostShut>>
      BY <2>3 DEF EndBroadcast
    <3> QED  BY <3>1 DEF ControlInv
  <2> QED  BY <1>7, <2>1, <2>2, <2>3
<1>8. ASSUME NEW j \in Joiners,
             ClearEnded(j) \/ ClearAll(j) \/ Join(j) \/ StopCallback(j) \/ Release(j)
      PROVE  ControlInv'
  <2>1. CASE Release(j)  BY <1>3, <2>1 DEF Release
  <2>2. CASE ClearEnded(j) \/ ClearAll(j) \/ Join(j) \/ StopCallback(j)
    BY <1>1, <2>2 DEF ClearEnded, ClearAll, Clear, Join, StopCallback
  <2> QED  BY <1>8, <2>1, <2>2
<1>9. ASSUME NEW p \in Probes,
             ProbeChecks(p) \/ ProbeAcquires(p) \/ ProbeFails(p) \/ ProbeEnds(p)
      PROVE  ControlInv'
  <2>1. CASE ProbeAcquires(p)  BY <1>2, <2>1 DEF ProbeAcquires
  <2>2. CASE ProbeEnds(p)  BY <1>3, <2>2 DEF ProbeEnds
  <2>3. CASE ProbeChecks(p) \/ ProbeFails(p)
    BY <1>1, <2>3 DEF ProbeChecks, ProbeFails
  <2> QED  BY <1>9, <2>1, <2>2, <2>3
<1>10. CASE AppExits \/ AppLaunches \/ HostShutsDown \/ UNCHANGED vars
  BY <1>1, <1>10 DEF AppExits, AppLaunches, HostShutsDown, ControlInv, vars
<1> QED  BY <1>4, <1>5, <1>6, <1>7, <1>8, <1>9, <1>10 DEF Next

\* While the application runs and the host is not shut down, whoever follows the
\* pointers of the control server's list finds sessions that still exist: the
\* control thread is in its loop as long as the context is up.
THEOREM StreamListedAlive ==
  ASSUME AppMayExit = FALSE, HostMayShutDown = FALSE
  PROVE  Spec => []ListedAlive
<1>1. Init => ControlInv  BY DEF Init, ControlInv
<1>2. TypeOK /\ ControlInv /\ [Next]_vars => ControlInv'  BY ControlStep
<1>3. ListedInv /\ ControlInv => ListedAlive  BY DEF ListedInv, ControlInv, ListedAlive
<1> QED  BY <1>1, <1>2, <1>3, StreamTypes, ListedHolds, PTL DEF Spec

-----------------------------------------------------------------------------
(* Whom a join waits for.                                                   *)

\* Once published, a session stays on the list until it is ended; only the one that
\* starts is in the slots without having run; who stops is told so.
PublishedInv ==
  /\ \A s \in Sessions : Alive(s) /\ state[s] \in {"RUNNING", "STOPPING"} => s \in list \cup ended
  /\ step \in {"spawn", "callbacks", "run"} => announcing \in list \cup ended
  /\ \A s \in slots \ {announcing} : state[s] \in {"RUNNING", "STOPPING"}
  /\ \A s \in Sessions : state[s] = "STOPPING" => s \in shut

\* Steps that take nothing off the list without ending it.
LEMMA PublishedFrame ==
  ASSUME PublishedInv, list \cup ended \subseteq list' \cup ended', shut \subseteq shut',
         UNCHANGED <<state, announcing, step>>, slots' \subseteq slots,
         \A s \in Sessions : Alive(s)' => Alive(s)
  PROVE  PublishedInv'
BY DEF PublishedInv

\* Running sessions are stopped and told so.
LEMMA StopPublished ==
  ASSUME TypeOK, PublishedInv, NEW S \in SUBSET Sessions, Stop(S),
         UNCHANGED <<list, ended, announcing, step>>, slots' \subseteq slots,
         \A s \in Sessions : Alive(s)' => Alive(s)
  PROVE  PublishedInv'
<1>1. \A s \in Sessions : state'[s] = state[s] \/ (state[s] = "RUNNING" /\ state'[s] = "STOPPING")
  BY DEF Stop, Stopped
<1>2. \A s \in Sessions : state'[s] = "STOPPING" => state[s] = "STOPPING" \/ s \in shut'
  BY DEF Stop, Stopped
<1>3. slots \subseteq Sessions /\ shut \subseteq shut'  BY DEF TypeOK, Stop
<1> QED  BY <1>1, <1>2, <1>3 DEF PublishedInv

\* The list is emptied only without a started session, which would hold a reference.
LEMMA EmptiedPublished ==
  ASSUME IInv, PublishedInv, broadcast # "up", UNCHANGED <<state, announcing, slots, shut>>,
         step' = step \/ (step = "acquire" /\ step' = "register"),
         \A s \in Sessions : Alive(s)' => Alive(s)
  PROVE  PublishedInv'
<1>1. \A s \in Sessions : Alive(s) => state[s] \notin {"RUNNING", "STOPPING"}
  BY DEF IInv, SafeInv, ContextInv, Active
<1>2. step \notin {"spawn", "callbacks", "run"}
  BY DEF IInv, SafeInv, ContextInv, Begun
<1> QED  BY <1>1, <1>2 DEF PublishedInv

LEMMA AcquiredPublished ==
  ASSUME IInv, PublishedInv, Acquired, UNCHANGED <<ended, state, slots, announcing, batch, shut>>,
         step' = step \/ (step = "acquire" /\ step' = "register")
  PROVE  PublishedInv'
<1>1. \A s \in Sessions : Alive(s)' => Alive(s)  BY DEF Alive
<1>2. CASE broadcast = "down"  BY <1>1, <1>2, EmptiedPublished
<1>3. CASE broadcast # "down"
  <2>1. list' = list  BY <1>3 DEF Acquired
  <2> QED  BY <1>1, <2>1 DEF PublishedInv
<1> QED  BY <1>2, <1>3

LEMMA StartPublished ==
  ASSUME IInv, PublishedInv, Start
  PROVE  PublishedInv'
<1> USE DEF sessionVars, controlVars, mediaVars, countVars, joinVars, contextVars, hostVars
<1>1. TypeOK /\ StartInv  BY DEF IInv, SafeInv
<1>2. PICK a \in Sessions : a = announcing /\ a # NoOne
  BY <1>1 DEF StartInv, TypeOK, Start, StartAcquires, StartFails, StartRegisters,
              StartPublishes, StartSpawns, StartCallbacks, StartRuns
<1>3. CASE StartAcquires
  BY <1>3, AcquiredPublished DEF StartAcquires
<1>4. CASE StartFails
  <2>1. /\ slots' = slots \ {a} /\ announcing' = NoOne /\ step' = "loop"
        /\ UNCHANGED <<list, ended, state, batch, shut>>
    BY <1>2, <1>4 DEF StartFails
  <2>2. \A s \in Sessions : Alive(s)' => Alive(s)
    BY <2>1, SessionsAssumption DEF Alive
  <2> QED  BY <1>2, <2>1, <2>2 DEF PublishedInv
<1>5. CASE StartRegisters
  <2>1. /\ state' = [state EXCEPT ![a] = "STARTING"] /\ step' = "publish"
        /\ UNCHANGED <<list, ended, slots, announcing, batch, shut>>
    BY <1>2, <1>5 DEF StartRegisters
  <2>2. \A s \in Sessions : Alive(s)' <=> Alive(s)  BY <2>1 DEF Alive
  <2>3. \A s \in Sessions : state'[s] = IF s = a THEN "STARTING" ELSE state[s]
    BY <1>1, <2>1 DEF TypeOK
  <2>4. slots \subseteq Sessions  BY <1>1 DEF TypeOK
  <2> QED  BY <1>2, <2>1, <2>2, <2>3, <2>4 DEF PublishedInv
<1>6. CASE StartPublishes
  <2>1. /\ list' = list \cup {a} /\ step' = "spawn"
        /\ UNCHANGED <<ended, state, slots, announcing, batch, shut>>
    BY <1>2, <1>6 DEF StartPublishes
  <2>2. \A s \in Sessions : Alive(s)' <=> Alive(s)  BY <2>1 DEF Alive
  <2> QED  BY <1>2, <2>1, <2>2 DEF PublishedInv
<1>7. CASE StartSpawns \/ StartCallbacks
  <2>1. /\ step \in {"spawn", "callbacks"} /\ step' \in {"callbacks", "run"}
        /\ UNCHANGED <<list, ended, state, slots, announcing, batch, shut>>
    BY <1>7 DEF StartSpawns, StartCallbacks
  <2>2. \A s \in Sessions : Alive(s)' <=> Alive(s)  BY <2>1 DEF Alive
  <2> QED  BY <2>1, <2>2 DEF PublishedInv
<1>8. CASE StartRuns
  <2>1. /\ state' = [state EXCEPT ![a] = "RUNNING"] /\ step = "run" /\ step' = "loop"
        /\ announcing' = NoOne
        /\ UNCHANGED <<list, ended, slots, batch, shut>>
    BY <1>2, <1>8 DEF StartRuns
  <2>2. \A s \in Sessions : Alive(s)' => Alive(s)
    BY <1>2, <2>1, SessionsAssumption DEF Alive
  <2>3. \A s \in Sessions : state'[s] = IF s = a THEN "RUNNING" ELSE state[s]
    BY <1>1, <2>1 DEF TypeOK
  <2>4. a \in list \cup ended  BY <1>2, <2>1 DEF PublishedInv
  <2>5. slots \subseteq Sessions  BY <1>1 DEF TypeOK
  <2> QED  BY <1>2, <2>1, <2>2, <2>3, <2>4, <2>5 DEF PublishedInv
<1> QED  BY <1>3, <1>4, <1>5, <1>6, <1>7, <1>8, Zenon DEF Start

LEMMA PublishedStep ==
  ASSUME IInv, PublishedInv, [Next]_vars
  PROVE  PublishedInv'
<1> USE DEF sessionVars, controlVars, mediaVars, joinVars
<1>1. TypeOK /\ slots \subseteq Sessions  BY DEF IInv, TypeOK
<1>2. ASSUME NEW s \in Sessions, Announce(s) PROVE PublishedInv'
  <2>1. /\ state' = [state EXCEPT ![s] = "STOPPED"] /\ announcing' = s /\ step' = "acquire"
        /\ slots' = slots \cup {s} /\ announcing = NoOne
        /\ UNCHANGED <<list, ended, batch, shut>>
    BY <1>2 DEF Announce, IInv, SafeInv, StartInv
  <2>2. \A r \in Sessions \ {s} : state'[r] = state[r] /\ (Alive(r)' <=> Alive(r))
    BY <1>1, <2>1, SessionsAssumption DEF TypeOK, Alive
  <2>3. state'[s] = "STOPPED"  BY <1>1, <2>1 DEF TypeOK
  <2>4. NoOne \notin slots  BY <1>1, SessionsAssumption
  <2> QED  BY <1>1, <2>1, <2>2, <2>3, <2>4 DEF PublishedInv
<1>3. ASSUME NEW s \in AV, MediaEnds(s) PROVE PublishedInv'
  <2>1. Stop({s}) /\ UNCHANGED <<list, ended, announcing, step, slots, batch>>
    BY <1>3 DEF MediaEnds
  <2>2. \A r \in Sessions : Alive(r)' => Alive(r)  BY <2>1 DEF Alive
  <2>3. {s} \in SUBSET Sessions  BY DEF Sessions
  <2> QED  BY <1>1, <2>1, <2>2, <2>3, StopPublished
<1>4. ASSUME NEW s \in Sessions, ControlStops(s) PROVE PublishedInv'
  <2>1. Stop({s}) /\ UNCHANGED <<list, ended, announcing, step, slots, batch>>
    BY <1>4 DEF ControlStops
  <2>2. \A r \in Sessions : Alive(r)' => Alive(r)  BY <2>1 DEF Alive
  <2> QED  BY <1>1, <2>1, <2>2, StopPublished
<1>5. ASSUME NEW j \in Joiners, ClearEnded(j) \/ ClearAll(j) PROVE PublishedInv'
  <2>1. PICK S \in SUBSET slots : Clear(j, S)  BY <1>5 DEF ClearEnded, ClearAll
  <2>2. /\ Stop(S) /\ slots' = slots \ S /\ batch' = [batch EXCEPT ![j] = S]
        /\ UNCHANGED <<list, ended, announcing, step>>
    BY <2>1 DEF Clear
  <2>3. \A r \in Sessions : Alive(r)' => Alive(r)
    BY <1>1, <2>2 DEF Alive, TypeOK
  <2> QED  BY <1>1, <2>2, <2>3, StopPublished
<1>6. CASE EndBroadcast
  <2>1. broadcast = "ending" /\ UNCHANGED <<state, announcing, slots, shut, step, batch>>
    BY <1>6 DEF EndBroadcast
  <2>2. \A r \in Sessions : Alive(r)' => Alive(r)  BY <2>1 DEF Alive
  <2> QED  BY <2>1, <2>2, EmptiedPublished
<1>7. ASSUME NEW p \in Probes, ProbeAcquires(p) PROVE PublishedInv'
  BY <1>7, AcquiredPublished DEF ProbeAcquires
<1>8. ASSUME NEW j \in Joiners, Release(j) PROVE PublishedInv'
  <2>1. /\ batch' = [batch EXCEPT ![j] = {}]
        /\ UNCHANGED <<state, announcing, slots, shut, step, list, ended>>
    BY <1>8 DEF Release
  <2>2. \A r \in Sessions : Alive(r)' => Alive(r)  BY <1>1, <2>1 DEF Alive, TypeOK
  <2> QED  BY <2>1, <2>2, PublishedFrame
<1>9. ASSUME UNCHANGED <<state, announcing, slots, step, batch>>, shut \subseteq shut',
             list \cup ended \subseteq list' \cup ended'
      PROVE  PublishedInv'
  <2>1. \A r \in Sessions : Alive(r)' => Alive(r)  BY <1>9 DEF Alive
  <2> QED  BY <1>9, <2>1, PublishedFrame
<1>10. ASSUME NEW s \in Sessions, ControlConnects(s) \/ ControlReaps(s) PROVE PublishedInv'
  BY <1>9, <1>10 DEF ControlConnects, ControlReaps
<1>11. CASE ControlLeaves \/ ControlExits
  BY <1>9, <1>11 DEF ControlLeaves, ControlExits
<1>12. ASSUME NEW j \in Joiners, Join(j) \/ StopCallback(j) PROVE PublishedInv'
  BY <1>9, <1>12 DEF Join, StopCallback
<1>13. ASSUME NEW p \in Probes, ProbeChecks(p) \/ ProbeFails(p) \/ ProbeEnds(p) PROVE PublishedInv'
  BY <1>9, <1>13 DEF ProbeChecks, ProbeFails, ProbeEnds
<1>14. CASE AppExits \/ AppLaunches \/ HostShutsDown \/ UNCHANGED vars
  BY <1>9, <1>14 DEF AppExits, AppLaunches, HostShutsDown, vars
<1> QED
  BY <1>2, <1>3, <1>4, <1>5, <1>6, <1>7, <1>8, <1>10, <1>11, <1>12, <1>13, <1>14, StartPublished
  DEF Next

\* While the host is not shut down, sessions are cleared once they have started and
\* stopped; the RTSP thread, which clears the others too, has none that starts.
BatchInv == \A j \in Joiners : \A s \in batch[j] : state[s] = "STOPPING"

LEMMA BatchStep ==
  ASSUME IInv, PublishedInv, ~hostShut, BatchInv, [Next]_vars
  PROVE  BatchInv'
<1> USE DEF sessionVars, joinVars
<1>1. TypeOK /\ batch \in [Joiners -> SUBSET Sessions]  BY DEF IInv, TypeOK
<1>2. ASSUME \A j \in Joiners : batch'[j] \subseteq batch[j] PROVE BatchInv'
  BY <1>1, <1>2, StoppingStays DEF BatchInv
<1>3. ASSUME NEW j \in Joiners, ClearEnded(j) \/ ClearAll(j) PROVE BatchInv'
  <2>1. PICK S \in SUBSET slots :
          Clear(j, S) /\ \A s \in S : state[s] \in {"RUNNING", "STOPPING"}
    <3>1. CASE ClearEnded(j)  BY <3>1 DEF ClearEnded
    <3>2. CASE ClearAll(j)
      <4>1. j = "rtsp" /\ Clear(j, slots)  BY <3>2 DEF ClearAll
      <4>2. announcing = NoOne  BY <4>1 DEF Clear, IInv, SafeInv, StartInv
      <4>3. NoOne \notin slots  BY <1>1, SessionsAssumption DEF TypeOK
      <4> QED  BY <4>1, <4>2, <4>3 DEF PublishedInv
    <3> QED  BY <1>3, <3>1, <3>2
  <2>2. /\ batch' = [batch EXCEPT ![j] = S]
        /\ \A s \in Sessions : state'[s] = IF s \in S /\ state[s] = "RUNNING" THEN "STOPPING" ELSE state[s]
    BY <2>1 DEF Clear, Stop, Stopped
  <2>3. S \subseteq Sessions  BY <1>1 DEF TypeOK
  <2>4. \A s \in S : state'[s] = "STOPPING"  BY <2>1, <2>2, <2>3
  <2>5. batch'[j] = S /\ \A k \in Joiners \ {j} : batch'[k] = batch[k]  BY <1>1, <2>2
  <2> QED  BY <1>1, <2>4, <2>5, StoppingStays DEF BatchInv
<1>4. ASSUME NEW j \in Joiners, Release(j) PROVE BatchInv'
  BY <1>1, <1>2, <1>4 DEF Release
<1>5. ASSUME UNCHANGED batch PROVE BatchInv'  BY <1>2, <1>5
<1>6. ASSUME NEW s \in Sessions,
             Announce(s) \/ ControlConnects(s) \/ ControlStops(s) \/ ControlReaps(s)
      PROVE  BatchInv'
  BY <1>5, <1>6 DEF Announce, ControlConnects, ControlStops, ControlReaps
<1>7. ASSUME NEW s \in AV, MediaEnds(s) PROVE BatchInv'  BY <1>5, <1>7 DEF MediaEnds
<1>8. CASE Start
  BY <1>5, <1>8 DEF Start, StartAcquires, StartFails, StartRegisters, StartPublishes, StartSpawns,
     StartCallbacks, StartRuns
<1>9. CASE ControlLeaves \/ ControlExits \/ EndBroadcast
  BY <1>5, <1>9 DEF ControlLeaves, ControlExits, EndBroadcast
<1>10. ASSUME NEW j \in Joiners, Join(j) \/ StopCallback(j) PROVE BatchInv'
  BY <1>5, <1>10 DEF Join, StopCallback
<1>11. ASSUME NEW p \in Probes,
              ProbeChecks(p) \/ ProbeAcquires(p) \/ ProbeFails(p) \/ ProbeEnds(p)
       PROVE  BatchInv'
  BY <1>5, <1>11 DEF ProbeChecks, ProbeAcquires, ProbeFails, ProbeEnds
<1>12. CASE AppExits \/ AppLaunches \/ HostShutsDown \/ UNCHANGED vars
  BY <1>5, <1>12 DEF AppExits, AppLaunches, HostShutsDown, vars
<1> QED
  BY <1>3, <1>4, <1>6, <1>7, <1>8, <1>9, <1>10, <1>11, <1>12 DEF Next

\* While the application runs and the host is not shut down, a join never waits for
\* a thread that will not come: what is needed of JoinReturns that is not fairness.
THEOREM StreamJoinIsServed ==
  ASSUME AppMayExit = FALSE, HostMayShutDown = FALSE
  PROVE  Spec => []JoinIsServed
<1> DEFINE J == PublishedInv /\ ControlInv /\ BatchInv
<1>1. Init => J
  BY SessionsAssumption DEF Init, PublishedInv, ControlInv, BatchInv, Alive
<1>2. IInv /\ J /\ [Next]_vars => J'
  <2>1. ControlInv => ~hostShut  BY DEF ControlInv
  <2>2. IInv => TypeOK  BY DEF IInv
  <2> QED  BY <2>1, <2>2, PublishedStep, ControlStep, BatchStep
<1>3. IInv /\ J => JoinIsServed
  <2> SUFFICES ASSUME IInv, J, NEW s \in Sessions, Alive(s), state[s] = "STOPPING"
               PROVE  /\ s \in AV => s \in spawned /\ s \in shut
                      /\ s \in ended \/ (s \in list /\ control = "looping" /\ ~hostShut /\ ~bshut)
    BY DEF JoinIsServed, BatchInv
  <2>1. broadcast = "up"  BY DEF IInv, SafeInv, ContextInv, Active
  <2>2. control = "looping" /\ ~hostShut /\ ~bshut  BY <2>1 DEF ControlInv
  <2>3. s \in list \cup ended /\ s \in shut  BY DEF PublishedInv
  <2>4. s \in AV => s \in spawned  BY DEF IInv, SafeInv, MediaInv
  <2> QED  BY <2>2, <2>3, <2>4
<1> HIDE DEF J
<1> QED  BY <1>1, <1>2, <1>3, IInvHolds, PTL DEF Spec

-----------------------------------------------------------------------------
(* The life of a session, seen through its owners.                          *)

LEMMA LifeValues ==
  ASSUME TypeOK, NEW s \in Sessions
  PROVE  /\ Life(s) = "absent" <=> state[s] = "new"
         /\ Life(s) = "announced" <=> Alive(s) /\ state[s] = "STOPPED"
         /\ Life(s) = "started" <=> Alive(s) /\ state[s] \in {"STARTING", "RUNNING"}
         /\ Life(s) = "stopping" <=> Alive(s) /\ state[s] = "STOPPING"
BY DEF Life, TypeOK

LEMMA SameLife ==
  ASSUME NEW s \in Sessions, state'[s] = state[s], Alive(s)' <=> Alive(s)
  PROVE  Life(s)' = Life(s)
BY DEF Life

\* Steps that leave the sessions alone.
LEMMA SameLives ==
  ASSUME UNCHANGED <<state, slots, announcing, batch>>
  PROVE  [s \in Sessions |-> Life(s)]' = [s \in Sessions |-> Life(s)]
<1>1. \A s \in Sessions : Life(s)' = Life(s)  BY SameLife DEF Alive
<1> QED  BY <1>1

\* Steps that move the sessions of S to phase p.
LEMMA MovedLives ==
  ASSUME NEW S \in SUBSET Sessions, NEW p,
         \A r \in Sessions : Life(r)' = IF r \in S THEN p ELSE Life(r)
  PROVE  [s \in Sessions |-> Life(s)]' = Lives!Moved(S, p)
BY DEF Lives!Moved

\* A reference is taken: the context is built, or was there.
LEMMA BuildLives ==
  ASSUME TypeOK, Acquired, UNCHANGED <<state, slots, announcing, batch>>
  PROVE  [Lives!Next]_<<[s \in Sessions |-> Life(s)], broadcast>>
<1>1. [s \in Sessions |-> Life(s)]' = [s \in Sessions |-> Life(s)]  BY SameLives
<1>2. CASE broadcast = "down"
  <2>1. Lives!Build  BY <1>1, <1>2 DEF Acquired, Lives!Build
  <2> QED  BY <2>1 DEF Lives!Next
<1>3. CASE broadcast # "down"
  <2>1. broadcast' = broadcast  BY <1>3 DEF Acquired, Unlocked, TypeOK
  <2> QED  BY <1>1, <2>1
<1> QED  BY <1>2, <1>3

\* Started sessions go; the context ends only when no reference, hence no started
\* session, is left.
LEMMA GoLives ==
  ASSUME TypeOK, IInv', NEW S \in SUBSET Sessions,
         \A r \in S : Life(r) \in {"started", "stopping"},
         \A r \in Sessions : Life(r)' = IF r \in S THEN "gone" ELSE Life(r),
         \/ broadcast' = broadcast
         \/ broadcast = "up" /\ broadcast' = "ending" /\ refs' = {}
  PROVE  Lives!Next
<1>1. [s \in Sessions |-> Life(s)]' = Lives!Moved(S, "gone")  BY MovedLives
<1>2. S \subseteq Lives!Started  BY DEF Lives!Started
<1>3. CASE broadcast' = broadcast
  <2>1. Lives!Go(S)  BY <1>1, <1>2, <1>3 DEF Lives!Go
  <2> QED  BY <2>1 DEF Lives!Next
<1>4. CASE broadcast = "up" /\ broadcast' = "ending" /\ refs' = {}
  <2>1. Lives!Started \subseteq S
    <3> SUFFICES ASSUME NEW r \in Sessions, Life(r) \in {"started", "stopping"}, r \notin S
                 PROVE  FALSE
      BY DEF Lives!Started
    <3>1. Life(r)' \in {"started", "stopping"}  OBVIOUS
    <3>2. Alive(r)' /\ state'[r] \in Active
      BY <3>1 DEF Life, Active, IInv, TypeOK
    <3>3. r \in refs'  BY <3>2 DEF IInv, SafeInv, ContextInv
    <3> QED  BY <1>4, <3>3
  <2>2. Lives!Go(S)  BY <1>1, <1>2, <1>4, <2>1 DEF Lives!Go
  <2> QED  BY <2>2 DEF Lives!Next
<1> QED  BY <1>3, <1>4

\* Running sessions are stopped, each of them alive.
LEMMA StopLives ==
  ASSUME TypeOK, NEW S \in SUBSET Sessions, Stop(S), broadcast' = broadcast,
         \A s \in Sessions : Alive(s)' <=> Alive(s),
         \A s \in S : Alive(s)
  PROVE  Lives!Next
<1> DEFINE T == {s \in S : state[s] = "RUNNING"}
<1>1. \A r \in Sessions : Life(r)' = IF r \in T THEN "stopping" ELSE Life(r)
  <2> SUFFICES ASSUME NEW r \in Sessions
               PROVE  Life(r)' = IF r \in T THEN "stopping" ELSE Life(r)
    OBVIOUS
  <2>1. CASE r \in T
    <3>1. state'[r] = "STOPPING" /\ Alive(r)'  BY <2>1 DEF Stop, Stopped
    <3> QED  BY <2>1, <3>1 DEF Life
  <2>2. CASE r \notin T
    <3>1. state'[r] = state[r]  BY <2>2 DEF Stop, Stopped
    <3> QED  BY <2>2, <3>1, SameLife
  <2> QED  BY <2>1, <2>2
<1>2. \A r \in T : Life(r) = "started"  BY LifeValues
<1>3. T \in SUBSET Sessions  OBVIOUS
<1> HIDE DEF T
<1>4. [s \in Sessions |-> Life(s)]' = Lives!Moved(T, "stopping")  BY <1>1, <1>3, MovedLives
<1>5. Lives!Stop(T)  BY <1>2, <1>3, <1>4 DEF Lives!Stop
<1> QED  BY <1>3, <1>5 DEF Lives!Next

LEMMA AnnounceLives ==
  ASSUME IInv, NEW s \in Sessions, Announce(s)
  PROVE  Lives!Next
<1> USE DEF joinVars, contextVars
<1>1. /\ state' = [state EXCEPT ![s] = "STOPPED"] /\ state[s] = "new"
      /\ slots' = slots \cup {s} /\ announcing' = s /\ announcing = NoOne
      /\ UNCHANGED <<batch, broadcast>>
  BY DEF Announce, IInv, SafeInv, StartInv
<1>2. \A r \in Sessions : Life(r)' = IF r \in {s} THEN "announced" ELSE Life(r)
  <2> SUFFICES ASSUME NEW r \in Sessions
               PROVE  Life(r)' = IF r \in {s} THEN "announced" ELSE Life(r)
    OBVIOUS
  <2>1. CASE r = s
    <3>1. state'[s] = "STOPPED" /\ Alive(s)'  BY <1>1 DEF IInv, TypeOK, Alive
    <3> QED  BY <2>1, <3>1 DEF Life
  <2>2. CASE r # s
    <3>1. state'[r] = state[r]  BY <1>1, <2>2 DEF IInv, TypeOK
    <3>2. Alive(r)' <=> Alive(r)  BY <1>1, <2>2, SessionsAssumption DEF Alive
    <3> QED  BY <2>2, <3>1, <3>2, SameLife
  <2> QED  BY <2>1, <2>2
<1>3. [r \in Sessions |-> Life(r)]' = Lives!Moved({s}, "announced")  BY <1>2, MovedLives
<1>4. Life(s) = "absent"  BY <1>1, LifeValues DEF IInv
<1>5. Lives!Announce(s)  BY <1>1, <1>3, <1>4 DEF Lives!Announce
<1> QED  BY <1>5 DEF Lives!Next

LEMMA StartLives ==
  ASSUME IInv, IInv', ListedInv, Start
  PROVE  [Lives!Next]_<<[s \in Sessions |-> Life(s)], broadcast>>
<1> USE DEF sessionVars, joinVars, contextVars
<1>1. TypeOK /\ StartInv /\ ContextInv  BY DEF IInv, SafeInv
<1>2. PICK a \in Sessions : a = announcing /\ a # NoOne /\ Alive(a)
  BY <1>1 DEF StartInv, TypeOK, Alive, Start, StartAcquires, StartFails, StartRegisters,
              StartPublishes, StartSpawns, StartCallbacks, StartRuns
<1>3. CASE StartAcquires
  BY <1>1, <1>3, BuildLives DEF StartAcquires
<1>4. CASE StartFails
  <2>1. /\ slots' = slots \ {a} /\ announcing' = NoOne
        /\ state[a] = "STOPPED" /\ a \in Sessions
        /\ UNCHANGED <<state, batch, broadcast>>
    BY <1>1, <1>2, <1>4 DEF StartFails, StartInv
  <2>2. \A r \in Sessions \ {a} : Life(r)' = Life(r)
    <3>1. \A r \in Sessions \ {a} : Alive(r)' <=> Alive(r)
      BY <1>2, <2>1, SessionsAssumption DEF Alive
    <3> QED  BY <2>1, <3>1, SameLife
  <2>3. CASE Alive(a)' \* a shutdown has taken it
    <3>1. Life(a)' = Life(a)
      BY <1>2, <1>4, <2>1, <2>3 DEF Life, StartFails
    <3>2. [s \in Sessions |-> Life(s)]' = [s \in Sessions |-> Life(s)]
      BY <2>1, <2>2, <3>1
    <3> QED  BY <2>1, <3>2
  <2>4. CASE ~Alive(a)'
    <3>1. Life(a)' = "gone"  BY <2>1, <2>4 DEF Life
    <3>2. \A r \in Sessions : Life(r)' = IF r \in {a} THEN "gone" ELSE Life(r)
      BY <2>2, <3>1
    <3>3. [s \in Sessions |-> Life(s)]' = Lives!Moved({a}, "gone")
      BY <2>1, <3>2, MovedLives
    <3>4. Life(a) = "announced"
      BY <1>1, <1>2, <1>4, <2>1, LifeValues DEF StartFails
    <3>5. Lives!Withdraw(a)  BY <2>1, <3>3, <3>4 DEF Lives!Withdraw
    <3> QED  BY <2>1, <3>5 DEF Lives!Next
  <2> QED  BY <2>3, <2>4
<1>5. CASE StartRegisters
  <2>1. /\ state' = [state EXCEPT ![a] = "STARTING"] /\ a \in Sessions
        /\ Alive(a) /\ state[a] = "STOPPED" /\ broadcast = "up"
        /\ UNCHANGED <<slots, announcing, batch, broadcast>>
    BY <1>1, <1>2, <1>5 DEF StartRegisters, StartInv, ContextInv
  <2>2. \A r \in Sessions : Alive(r)' <=> Alive(r)  BY <2>1 DEF Alive
  <2>3. state'[a] = "STARTING"  BY <1>1, <2>1 DEF TypeOK
  <2>4. Life(a)' = "started"  BY <2>1, <2>2, <2>3 DEF Life
  <2>5. \A r \in Sessions \ {a} : Life(r)' = Life(r)
    BY <1>1, <2>1, <2>2, SameLife DEF TypeOK
  <2>6. \A r \in Sessions : Life(r)' = IF r \in {a} THEN "started" ELSE Life(r)
    BY <2>4, <2>5
  <2>7. [s \in Sessions |-> Life(s)]' = Lives!Moved({a}, "started")
    BY <2>1, <2>6, MovedLives
  <2>8. Life(a) = "announced"  BY <1>1, <2>1, LifeValues
  <2>9. Lives!Start(a)  BY <2>1, <2>7, <2>8 DEF Lives!Start
  <2> QED  BY <2>1, <2>9 DEF Lives!Next
<1>6. CASE StartPublishes \/ StartSpawns \/ StartCallbacks
  <2>1. UNCHANGED <<state, slots, announcing, batch, broadcast>>
    BY <1>6 DEF StartPublishes, StartSpawns, StartCallbacks
  <2> QED  BY <2>1, SameLives
<1>7. CASE StartRuns
  <2>1. /\ state' = [state EXCEPT ![a] = "RUNNING"] /\ a \in Sessions
        /\ Alive(a) /\ state[a] = "STARTING" /\ announcing' = NoOne
        /\ UNCHANGED <<slots, batch>>
    BY <1>1, <1>2, <1>7 DEF StartRuns, StartInv, Begun
  <2>2. \A r \in Sessions \ {a} : Life(r)' = Life(r)
    <3>1. \A r \in Sessions \ {a} : Alive(r)' <=> Alive(r)
      BY <1>2, <2>1, SessionsAssumption DEF Alive
    <3>2. \A r \in Sessions \ {a} : state'[r] = state[r]
      BY <1>1, <2>1 DEF TypeOK
    <3> QED  BY <3>1, <3>2, SameLife
  <2>3. state'[a] = "RUNNING"  BY <1>1, <2>1 DEF TypeOK
  <2>4. Life(a) = "started"  BY <1>1, <2>1, LifeValues
  <2>5. CASE a \in Owned
    <3>1. Alive(a)'  BY <2>1, <2>5 DEF Alive, Owned
    <3>2. Life(a)' = "started"  BY <2>3, <3>1 DEF Life
    <3>3. broadcast' = broadcast  BY <1>2, <1>7, <2>5 DEF StartRuns, Owned
    <3>4. [s \in Sessions |-> Life(s)]' = [s \in Sessions |-> Life(s)]
      BY <2>2, <2>4, <3>2
    <3> QED  BY <3>3, <3>4
  <2>6. CASE a \notin Owned
    <3>1. ~Alive(a)'
      BY <1>2, <1>7, <2>1, <2>6, SessionsAssumption DEF Alive, Owned
    <3>2. Life(a)' = "gone"  BY <2>3, <3>1 DEF Life
    <3>3. \A r \in Sessions : Life(r)' = IF r \in {a} THEN "gone" ELSE Life(r)
      BY <2>2, <3>2
    <3>4. Released("rtsp", refs \ {a}, Reading)
      BY <1>2, <1>7, <2>6 DEF StartRuns, Owned
    <3>5. \/ broadcast' = broadcast
          \/ broadcast = "up" /\ broadcast' = "ending" /\ refs' = {}
      BY <3>4 DEF Released
    <3>6. Lives!Next
      BY <1>1, <2>1, <2>4, <3>3, <3>5, GoLives
    <3> QED  BY <3>6
  <2> QED  BY <2>5, <2>6
<1> QED  BY <1>3, <1>4, <1>5, <1>6, <1>7, Zenon DEF Start

LEMMA ClearLives ==
  ASSUME IInv, NEW j \in Joiners, NEW S \in SUBSET slots, Clear(j, S)
  PROVE  Lives!Next
<1> USE DEF contextVars
<1>1. /\ slots' = slots \ S /\ batch' = [batch EXCEPT ![j] = S] /\ batch[j] = {}
      /\ batch \in [Joiners -> SUBSET Sessions] /\ S \in SUBSET Sessions
      /\ UNCHANGED <<announcing, broadcast>>
  BY DEF Clear, IInv, TypeOK
<1>2. /\ \A k \in Joiners \ {j} : batch'[k] = batch[k]
      /\ batch'[j] = S
  BY <1>1
<1>3. \A s \in Sessions : Alive(s)' <=> Alive(s)  BY <1>1, <1>2 DEF Alive
<1>4. \A s \in S : Alive(s)  BY DEF Alive
<1>5. Stop(S)  BY DEF Clear
<1> QED  BY <1>1, <1>3, <1>4, <1>5, StopLives DEF IInv

\* The sessions that are let go have started, since they were reaped, and nobody
\* else keeps them.
LEMMA ReleaseLives ==
  ASSUME IInv, IInv', ListedInv, NEW j \in Joiners, Release(j)
  PROVE  Lives!Next
<1> USE DEF sessionVars
<1> DEFINE S == batch[j] \ {announcing}
<1>1. /\ batch' = [batch EXCEPT ![j] = {}] /\ batch \in [Joiners -> SUBSET Sessions]
      /\ todo[j] = <<>> /\ Released(j, refs \ S, Reading)
      /\ UNCHANGED <<state, slots, announcing>>
  BY DEF Release, IInv, TypeOK
<1>2. /\ \A k \in Joiners \ {j} : batch'[k] = batch[k]
      /\ batch'[j] = {}
  BY <1>1
<1>3. \A s \in S : state[s] \in Active
  <2>1. Joined(j) = batch[j]  BY <1>1 DEF Joined
  <2> QED  BY <2>1 DEF ListedInv
<1>4. S \in SUBSET Sessions /\ \A s \in S : Alive(s)  BY <1>1 DEF Alive
<1>5. \A s \in S : Life(s) \in {"started", "stopping"}
  BY <1>3, <1>4, LifeValues DEF IInv, Active
<1>6. \A r \in Sessions : Life(r)' = IF r \in S THEN "gone" ELSE Life(r)
  <2> SUFFICES ASSUME NEW r \in Sessions
               PROVE  Life(r)' = IF r \in S THEN "gone" ELSE Life(r)
    OBVIOUS
  <2>1. CASE r \in S
    <3>1. ~Alive(r)'
      BY <1>1, <1>2, <2>1 DEF Alive, IInv, SafeInv, JoinInv, JoinedByOne
    <3>2. state'[r] # "new"  BY <1>1, <1>3, <2>1 DEF Active
    <3> QED  BY <2>1, <3>1, <3>2 DEF Life
  <2>2. CASE r \notin S
    <3>1. Alive(r)' <=> Alive(r)  BY <1>1, <1>2, <2>2 DEF Alive
    <3> QED  BY <1>1, <2>2, <3>1, SameLife
  <2> QED  BY <2>1, <2>2
<1> HIDE DEF S
<1>7. \/ broadcast' = broadcast
      \/ broadcast = "up" /\ broadcast' = "ending" /\ refs' = {}
  BY <1>1 DEF Released
<1> QED  BY <1>4, <1>5, <1>6, <1>7, GoLives DEF IInv

LEMMA ProbeLives ==
  ASSUME IInv, IInv', NEW p \in Probes,
         ProbeChecks(p) \/ ProbeAcquires(p) \/ ProbeFails(p) \/ ProbeEnds(p)
  PROVE  [Lives!Next]_<<[s \in Sessions |-> Life(s)], broadcast>>
<1> USE DEF sessionVars, joinVars
<1>1. CASE ProbeAcquires(p)
  BY <1>1, BuildLives DEF ProbeAcquires, IInv
<1>2. CASE ProbeEnds(p)
  <2>1. UNCHANGED <<state, slots, announcing, batch>>  BY <1>2 DEF ProbeEnds
  <2>2. \A r \in Sessions : Life(r)' = IF r \in {} THEN "gone" ELSE Life(r)
    BY <2>1, SameLife DEF Alive
  <2>3. \/ broadcast' = broadcast
        \/ broadcast = "up" /\ broadcast' = "ending" /\ refs' = {}
    BY <1>2 DEF ProbeEnds, Released
  <2>4. {} \in SUBSET Sessions /\ \A r \in {} : Life(r) \in {"started", "stopping"}  OBVIOUS
  <2>5. Lives!Next  BY <2>2, <2>3, <2>4, GoLives DEF IInv
  <2> QED  BY <2>5
<1>3. CASE ProbeChecks(p) \/ ProbeFails(p)
  BY <1>3, SameLives DEF ProbeChecks, ProbeFails
<1> QED  BY <1>1, <1>2, <1>3

LEMMA LivesStep ==
  ASSUME IInv, IInv', ListedInv, [Next]_vars
  PROVE  [Lives!Next]_<<[s \in Sessions |-> Life(s)], broadcast>>
<1> USE DEF sessionVars, controlVars, joinVars, contextVars
<1>1. TypeOK  BY DEF IInv
<1>2. ASSUME NEW s \in AV, MediaEnds(s) PROVE Lives!Next
  <2>1. Alive(s) /\ s \in Sessions /\ {s} \in SUBSET Sessions
    BY <1>2 DEF MediaEnds, IInv, SafeInv, ThreadsHaveSession, Sessions
  <2>2. \A r \in Sessions : Alive(r)' <=> Alive(r)  BY <1>2 DEF MediaEnds, Alive
  <2>3. Stop({s}) /\ broadcast' = broadcast  BY <1>2 DEF MediaEnds
  <2> QED  BY <1>1, <2>1, <2>2, <2>3, StopLives
<1>3. ASSUME NEW s \in Sessions, ControlStops(s) PROVE Lives!Next
  <2>1. Alive(s) /\ {s} \in SUBSET Sessions
    BY <1>3 DEF ControlStops, ListedInv
  <2>2. \A r \in Sessions : Alive(r)' <=> Alive(r)  BY <1>3 DEF ControlStops, Alive
  <2>3. Stop({s}) /\ broadcast' = broadcast  BY <1>3 DEF ControlStops
  <2> QED  BY <1>1, <2>1, <2>2, <2>3, StopLives
<1>4. ASSUME NEW j \in Joiners, ClearEnded(j) \/ ClearAll(j) PROVE Lives!Next
  <2>1. \E S \in SUBSET slots : Clear(j, S)  BY <1>4 DEF ClearEnded, ClearAll
  <2> QED  BY <2>1, ClearLives
<1>5. CASE EndBroadcast
  <2>1. [s \in Sessions |-> Life(s)]' = [s \in Sessions |-> Life(s)]
    BY <1>5, SameLives DEF EndBroadcast
  <2>2. Lives!TearDown  BY <1>5, <2>1 DEF EndBroadcast, Lives!TearDown
  <2> QED  BY <2>2 DEF Lives!Next
<1>6. ASSUME UNCHANGED <<state, slots, announcing, batch, broadcast>>
      PROVE  [Lives!Next]_<<[s \in Sessions |-> Life(s)], broadcast>>
  BY <1>6, SameLives
<1>7. ASSUME NEW s \in Sessions, ControlConnects(s) \/ ControlReaps(s)
      PROVE  UNCHANGED <<state, slots, announcing, batch, broadcast>>
  BY <1>7 DEF ControlConnects, ControlReaps
<1>8. ASSUME NEW j \in Joiners, Join(j) \/ StopCallback(j)
      PROVE  UNCHANGED <<state, slots, announcing, batch, broadcast>>
  BY <1>8 DEF Join, StopCallback
<1>9. ASSUME ControlLeaves \/ ControlExits \/ AppExits \/ AppLaunches \/ HostShutsDown
             \/ UNCHANGED vars
      PROVE  UNCHANGED <<state, slots, announcing, batch, broadcast>>
  BY <1>9 DEF ControlLeaves, ControlExits, AppExits, AppLaunches, HostShutsDown, vars
<1> QED
  BY <1>2, <1>3, <1>4, <1>5, <1>6, <1>7, <1>8, <1>9, AnnounceLives, StartLives, ReleaseLives,
     ProbeLives
  DEF Next

\* The threads that start, stop, clear and join sessions and share the context by
\* counting implement the life of SessionLife.
THEOREM StreamRefinement == Spec => LifeSpec
<1>1. Init => Lives!Init
  <2> SUFFICES ASSUME Init PROVE Lives!Init  OBVIOUS
  <2>1. \A s \in Sessions : Life(s) = "absent"  BY DEF Init, Life
  <2> QED  BY <2>1 DEF Init, Lives!Init
<1>2. IInv /\ IInv' /\ ListedInv /\ [Next]_vars =>
        [Lives!Next]_<<[s \in Sessions |-> Life(s)], broadcast>>
  BY LivesStep
<1> QED  BY <1>1, <1>2, IInvHolds, ListedHolds, PTL DEF Spec, LifeSpec, Lives!Spec
=============================================================================
