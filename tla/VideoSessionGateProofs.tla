------------------------ MODULE VideoSessionGateProofs ------------------------
(****************************************************************************)
(* Proofs about VideoSessionGate for every finite set of sessions, every    *)
(* capacity of the counter and every number of reconfigurations.            *)
(****************************************************************************)
EXTENDS VideoSessionGate, FiniteSetTheorems, TLAPS

\* The copies of the word are as recent as the decisions taken from them need:
\* a leaver has been counted in each of them.
IInv == TypeOK /\ CountMatches /\ FlagMatches /\ NeverAtZero

LEMMA RegisteredFinite == TypeOK => IsFiniteSet(registered) /\ Cardinality(registered) \in Nat
  BY GateAssumption, FS_Subset, FS_CardinalityType DEF registered

\* What a step of one session does to the set of registered sessions.
LEMMA PcUpdate ==
  ASSUME TypeOK, NEW s \in Sessions, NEW to \in Steps, pc' = [pc EXCEPT ![s] = to]
  PROVE  /\ pc' \in [Sessions -> Steps]
         /\ registered' = IF to \in {"starting", "running", "leaving"}
                          THEN registered \cup {s} ELSE registered \ {s}
  BY DEF TypeOK, registered, Steps

LEMMA InitIInv == Init => IInv
<1> SUFFICES ASSUME Init PROVE IInv  OBVIOUS
<1>1. TypeOK  BY GateAssumption DEF Init, TypeOK, Word, Steps
<1>2. registered = {}  BY DEF Init, registered
<1>3. CountMatches  BY <1>2, FS_EmptySet DEF Init, CountMatches
<1> QED  BY <1>1, <1>3 DEF Init, IInv, FlagMatches, NeverAtZero

\* A step that leaves the word alone and moves no session across the border of
\* the registered ones keeps the counts.
LEMMA QuietStep ==
  ASSUME IInv, UNCHANGED word, registered' = registered, UNCHANGED ctl
  PROVE  CountMatches' /\ FlagMatches'
  BY DEF IInv, CountMatches, FlagMatches

LEMMA RegisterTypes ==
  ASSUME IInv, NEW s \in Sessions, Register(s)
  PROVE  TypeOK'
<1> USE DEF IInv, TypeOK, Go, Reload, Steps
<1>1. CASE RegisterLoad(s)  BY <1>1 DEF RegisterLoad
<1>2. CASE RegisterMustWait(s)  BY <1>2 DEF RegisterMustWait
<1>3. CASE RegisterExhausted(s)  BY <1>3 DEF RegisterExhausted
<1>4. CASE RegisterSwap(s)
  <2>1. word' \in Word
    BY <1>4, GateAssumption DEF RegisterSwap, Word
  <2> QED  BY <1>4, <2>1 DEF RegisterSwap
<1>5. CASE RegisterRetry(s)  BY <1>5 DEF RegisterRetry
<1>6. CASE WaitSleeps(s)  BY <1>6 DEF WaitSleeps
<1>7. CASE WaitReturns(s)  BY <1>7 DEF WaitReturns
<1> QED  BY <1>1, <1>2, <1>3, <1>4, <1>5, <1>6, <1>7 DEF Register

LEMMA UnregisterTypes ==
  ASSUME IInv, NEW s \in Sessions, Unregister(s)
  PROVE  TypeOK'
<1> USE DEF IInv, TypeOK, Go, Reload, Steps
<1>1. CASE UnregisterLoad(s)  BY <1>1 DEF UnregisterLoad
<1>2. CASE UnregisterSwap(s)
  <2>1. word' \in Word
    BY <1>2, GateAssumption DEF UnregisterSwap, Word
  <2> QED  BY <1>2, <2>1 DEF UnregisterSwap
<1>3. CASE UnregisterRetry(s)  BY <1>3 DEF UnregisterRetry
<1> QED  BY <1>1, <1>2, <1>3 DEF Unregister

LEMMA ReconfigureTypes ==
  ASSUME IInv, Reconfigure
  PROVE  TypeOK'
<1> USE DEF IInv, TypeOK, Steps
<1>1. CASE ReconfigureLoad  BY <1>1, GateAssumption DEF ReconfigureLoad
<1>2. CASE ReconfigureSkip  BY <1>2 DEF ReconfigureSkip
<1>3. CASE ReconfigureSwap  BY <1>3 DEF ReconfigureSwap, Word
<1>4. CASE ReconfigureRetry  BY <1>4 DEF ReconfigureRetry
<1>5. CASE ReconfigureEnd  BY <1>5 DEF ReconfigureEnd, Word
<1>6. CASE ReconfigureNotify  BY <1>6 DEF ReconfigureNotify
<1> QED  BY <1>1, <1>2, <1>3, <1>4, <1>5, <1>6 DEF Reconfigure

\* The step that registers a session: what it reads and what it leaves.
LEMMA SwapIn ==
  ASSUME IInv, NEW s \in Sessions, RegisterSwap(s)
  PROVE  /\ s \notin registered /\ registered' = registered \cup {s}
         /\ word.count = Cardinality(registered) /\ word.count < Limit /\ ~word.reconfiguring
         /\ word'.count = word.count + 1 /\ word'.reconfiguring = word.reconfiguring
         /\ Cardinality(registered') = Cardinality(registered) + 1
         /\ first' = IF registered = {} THEN first \cup {s} ELSE first
<1>1. pc[s] = "registering" /\ pc' = [pc EXCEPT ![s] = "starting"] /\ word = seen[s]
  BY DEF RegisterSwap, Go
<1>2. s \notin registered /\ registered' = registered \cup {s}
  BY <1>1, PcUpdate DEF registered, IInv, Steps
<1>3. IsFiniteSet(registered)  BY RegisteredFinite DEF IInv
<1>4. Cardinality(registered') = Cardinality(registered) + 1
  BY <1>2, <1>3, FS_AddElement
<1>5. word.count = 0 <=> registered = {}
  BY <1>3, FS_EmptySet DEF IInv, CountMatches
<1>6. word'.count = word.count + 1 /\ word'.reconfiguring = word.reconfiguring
  BY <1>1 DEF RegisterSwap, IInv, TypeOK, Word
<1> QED  BY <1>1, <1>2, <1>4, <1>5, <1>6 DEF RegisterSwap, IInv, CountMatches

LEMMA SwapOut ==
  ASSUME IInv, NEW s \in Sessions, UnregisterSwap(s)
  PROVE  /\ s \in registered /\ registered' = registered \ {s}
         /\ word'.count = word.count - 1 /\ word'.reconfiguring = word.reconfiguring
         /\ Cardinality(registered') = Cardinality(registered) - 1
<1>1. pc[s] = "leaving" /\ pc' = [pc EXCEPT ![s] = "gone"] /\ word = seen[s]
  BY DEF UnregisterSwap, Go
<1>2. s \in registered /\ registered' = registered \ {s}
  BY <1>1, PcUpdate DEF registered, IInv, Steps
<1>3. IsFiniteSet(registered)  BY RegisteredFinite DEF IInv
<1>4. Cardinality(registered') = Cardinality(registered) - 1
  BY <1>2, <1>3, FS_RemoveElement
<1>5. word'.count = word.count - 1 /\ word'.reconfiguring = word.reconfiguring
  BY <1>1 DEF UnregisterSwap, IInv, TypeOK, Word
<1> QED  BY <1>2, <1>4, <1>5

\* A registered session is counted.
LEMMA RegisteredCounted ==
  ASSUME IInv, NEW s \in registered
  PROVE  word.count > 0
<1>1. IsFiniteSet(registered) /\ registered # {}  BY RegisteredFinite DEF IInv
<1>2. Cardinality(registered) # 0  BY <1>1, FS_EmptySet
<1> QED  BY <1>2, RegisteredFinite DEF IInv, CountMatches

LEMMA NextIInv == IInv /\ [Next]_vars => IInv'
<1> SUFFICES ASSUME IInv, [Next]_vars PROVE IInv'  OBVIOUS
<1>1. ASSUME NEW s \in Sessions, Register(s) PROVE IInv'
  <2>1. TypeOK'  BY <1>1, RegisterTypes
  <2>2. CASE RegisterSwap(s)
    <3>1. CountMatches'  BY <2>2, SwapIn DEF CountMatches
    <3>2. FlagMatches'  BY <2>2, SwapIn DEF RegisterSwap, FlagMatches, IInv
    <3>3. NeverAtZero'
      BY <2>2 DEF RegisterSwap, Go, NeverAtZero, IInv, TypeOK
    <3> QED  BY <2>1, <3>1, <3>2, <3>3 DEF IInv
  <2>3. CASE ~RegisterSwap(s)
    <3>1. registered' = registered /\ UNCHANGED <<word, ctl>>
      BY <1>1, <2>3 DEF Register, RegisterLoad, RegisterMustWait, RegisterExhausted,
         RegisterRetry, WaitSleeps, WaitReturns, Go, registered, IInv, TypeOK
    <3>2. NeverAtZero'
      BY <1>1, <2>3 DEF Register, RegisterLoad, RegisterMustWait, RegisterExhausted,
         RegisterRetry, WaitSleeps, WaitReturns, Go, Reload, NeverAtZero, IInv, TypeOK
    <3> QED  BY <2>1, <3>1, <3>2, QuietStep DEF IInv
  <2> QED  BY <2>2, <2>3
<1>2. ASSUME NEW s \in Sessions, Started(s) PROVE IInv'
  <2>1. TypeOK' /\ registered' = registered /\ UNCHANGED <<word, ctl>> /\ NeverAtZero'
    BY <1>2 DEF Started, Go, registered, IInv, TypeOK, Steps, NeverAtZero
  <2> QED  BY <2>1, QuietStep DEF IInv
<1>3. ASSUME NEW s \in Sessions, Unregister(s) PROVE IInv'
  <2>1. TypeOK'  BY <1>3, UnregisterTypes
  <2>2. CASE UnregisterSwap(s)
    <3>1. CountMatches'  BY <2>2, SwapOut DEF CountMatches, IInv
    <3>2. FlagMatches'  BY <2>2, SwapOut DEF UnregisterSwap, FlagMatches, IInv
    <3>3. NeverAtZero'
      BY <2>2 DEF UnregisterSwap, Go, NeverAtZero, IInv, TypeOK
    <3> QED  BY <2>1, <3>1, <3>2, <3>3 DEF IInv
  <2>3. CASE ~UnregisterSwap(s)
    <3>1. registered' = registered /\ UNCHANGED <<word, ctl>> /\ s \in registered
      BY <1>3, <2>3 DEF Unregister, UnregisterLoad, UnregisterRetry, Go, registered, IInv, TypeOK
    <3>2. word.count > 0  BY <3>1, RegisteredCounted
    <3>3. NeverAtZero'
      BY <1>3, <2>3, <3>2 DEF Unregister, UnregisterLoad, UnregisterRetry, Go, Reload,
         NeverAtZero, IInv, TypeOK
    <3> QED  BY <2>1, <3>1, <3>3, QuietStep DEF IInv
  <2> QED  BY <2>2, <2>3
<1>4. CASE Reconfigure
  <2>1. TypeOK'  BY <1>4, ReconfigureTypes
  <2>2. registered' = registered /\ NeverAtZero'
    BY <1>4 DEF Reconfigure, ReconfigureLoad, ReconfigureSkip, ReconfigureSwap, ReconfigureRetry,
       ReconfigureEnd, ReconfigureNotify, registered, NeverAtZero, IInv, TypeOK
  <2>3. word'.count = word.count /\ FlagMatches'
    BY <1>4 DEF Reconfigure, ReconfigureLoad, ReconfigureSkip, ReconfigureSwap, ReconfigureRetry,
       ReconfigureEnd, ReconfigureNotify, FlagMatches, IInv, TypeOK, Word
  <2> QED  BY <2>1, <2>2, <2>3 DEF IInv, CountMatches
<1>5. CASE UNCHANGED vars
  <2>1. registered' = registered  BY <1>5 DEF vars, registered
  <2> QED  BY <1>5, <2>1 DEF vars, IInv, TypeOK, CountMatches, FlagMatches, NeverAtZero
<1> QED  BY <1>1, <1>2, <1>3, <1>4, <1>5 DEF Next

\* The counter is the number of registered sessions and the flag is the
\* control thread's, whatever the interleaving of the swaps.
THEOREM GateSafety == Spec => [](TypeOK /\ CountMatches /\ FlagMatches /\ NeverAtZero)
  BY InitIInv, NextIInv, PTL DEF Spec, IInv

\* The word, the threads and what they remember are of their types.
THEOREM GateTypes == Spec => []TypeOK
  BY GateSafety, PTL

-----------------------------------------------------------------------------
(* Sleeping and exhaustion. *)

\* Whoever waits has read the flag, and whoever sleeps will be notified: it fell
\* asleep on a word that had the flag, which the control thread then still held.
SleepInv ==
  /\ \A s \in Sessions : pc[s] \in {"waiting", "asleep"} => seen[s].reconfiguring
  /\ SleepersAreWoken

LEMMA NextSleep ==
  ASSUME IInv, SleepInv, [Next]_vars
  PROVE  SleepInv'
<1> USE DEF IInv, TypeOK, SleepInv, SleepersAreWoken
<1>1. ASSUME NEW s \in Sessions, Register(s) PROVE SleepInv'
  <2> USE DEF Go, Reload
  <2>1. CASE RegisterLoad(s)  BY <2>1 DEF RegisterLoad
  <2>2. CASE RegisterMustWait(s)  BY <2>2 DEF RegisterMustWait
  <2>3. CASE RegisterExhausted(s)  BY <2>3 DEF RegisterExhausted
  <2>4. CASE RegisterSwap(s)  BY <2>4 DEF RegisterSwap
  <2>5. CASE RegisterRetry(s)  BY <2>5 DEF RegisterRetry
  <2>6. CASE WaitSleeps(s)
    <3>1. word.reconfiguring /\ UNCHANGED <<seen, ctl>>  BY <2>6 DEF WaitSleeps
    <3>2. ctl = "working"  BY <3>1 DEF FlagMatches
    <3> QED  BY <2>6, <3>1, <3>2 DEF WaitSleeps
  <2>7. CASE WaitReturns(s)  BY <2>7 DEF WaitReturns
  <2> QED  BY <1>1, <2>1, <2>2, <2>3, <2>4, <2>5, <2>6, <2>7 DEF Register
<1>2. ASSUME NEW s \in Sessions, Started(s) \/ Unregister(s) PROVE SleepInv'
  BY <1>2 DEF Started, Unregister, UnregisterLoad, UnregisterSwap, UnregisterRetry, Go, Reload
<1>3. CASE Reconfigure
  BY <1>3 DEF Reconfigure, ReconfigureLoad, ReconfigureSkip, ReconfigureSwap, ReconfigureRetry,
     ReconfigureEnd, ReconfigureNotify
<1>4. CASE UNCHANGED vars  BY <1>4 DEF vars
<1> QED  BY <1>1, <1>2, <1>3, <1>4 DEF Next

\* No wakeup is lost: a session that sleeps is one that the control thread has
\* still to notify, whatever swaps come between its comparison and its sleep.
THEOREM GateSleepersAreWoken == Spec => []SleepersAreWoken
<1>1. Init => SleepInv  BY DEF Init, SleepInv, SleepersAreWoken
<1>2. IInv /\ SleepInv /\ [Next]_vars => SleepInv'  BY NextSleep
<1>3. SleepInv => SleepersAreWoken  BY DEF SleepInv
<1>4. Spec => []IInv  BY InitIInv, NextIInv, PTL DEF Spec
<1> QED  BY <1>1, <1>2, <1>3, <1>4, PTL DEF Spec

\* A session on its way in has counted all others at most.
RoomInv ==
  \A s \in Sessions :
    /\ pc[s] = "registering" => seen[s].count < Limit
    /\ pc[s] # "refused"

LEMMA RoomForOneMore ==
  ASSUME IInv, Cardinality(Sessions) <= Limit, NEW s \in Sessions \ registered
  PROVE  word.count < Limit
<1>1. registered \subseteq Sessions \ {s} /\ IsFiniteSet(Sessions)
  BY GateAssumption DEF registered
<1>2. IsFiniteSet(Sessions \ {s}) /\ Cardinality(Sessions \ {s}) = Cardinality(Sessions) - 1
  BY <1>1, FS_RemoveElement
<1>3. Cardinality(registered) <= Cardinality(Sessions \ {s})
  BY <1>1, <1>2, FS_Subset
<1>4. Cardinality(Sessions) \in Nat /\ Cardinality(registered) \in Nat
  BY <1>1, FS_CardinalityType, RegisteredFinite DEF IInv
<1> QED  BY <1>2, <1>3, <1>4, GateAssumption DEF IInv, CountMatches

LEMMA NextRoom ==
  ASSUME IInv, Cardinality(Sessions) <= Limit, RoomInv, [Next]_vars
  PROVE  RoomInv'
<1> USE DEF IInv, TypeOK, RoomInv, Go, Reload
<1>1. ASSUME NEW s \in Sessions, Register(s) PROVE RoomInv'
  <2>1. CASE RegisterLoad(s) \/ RegisterRetry(s) \/ WaitReturns(s)
    <3>1. word.count < Limit
      BY <2>1, RoomForOneMore DEF RegisterLoad, RegisterRetry, WaitReturns, registered
    <3> QED  BY <2>1, <3>1 DEF RegisterLoad, RegisterRetry, WaitReturns
  <2>2. CASE RegisterExhausted(s)
    BY <2>2, GateAssumption DEF RegisterExhausted, Word
  <2>3. CASE RegisterMustWait(s) \/ RegisterSwap(s) \/ WaitSleeps(s)
    BY <2>3 DEF RegisterMustWait, RegisterSwap, WaitSleeps
  <2> QED  BY <1>1, <2>1, <2>2, <2>3 DEF Register
<1>2. ASSUME NEW s \in Sessions, Started(s) \/ Unregister(s) PROVE RoomInv'
  BY <1>2 DEF Started, Unregister, UnregisterLoad, UnregisterSwap, UnregisterRetry
<1>3. CASE Reconfigure
  BY <1>3 DEF Reconfigure, ReconfigureLoad, ReconfigureSkip, ReconfigureSwap, ReconfigureRetry,
     ReconfigureEnd, ReconfigureNotify
<1>4. CASE UNCHANGED vars  BY <1>4 DEF vars
<1> QED  BY <1>1, <1>2, <1>3, <1>4 DEF Next

\* With a number for every session that is ever created, no registration is
\* refused: what lets StreamSessions leave the exhaustion out.
THEOREM GateNoneRefused ==
  ASSUME Cardinality(Sessions) <= Limit
  PROVE  Spec => []NoneRefused
<1>1. Init => RoomInv  BY DEF Init, RoomInv
<1>2. IInv /\ RoomInv /\ [Next]_vars => RoomInv'  BY NextRoom
<1>3. RoomInv => NoneRefused  BY DEF RoomInv, NoneRefused
<1>4. Spec => []IInv  BY InitIInv, NextIInv, PTL DEF Spec
<1> QED  BY <1>1, <1>2, <1>3, <1>4, PTL DEF Spec

-----------------------------------------------------------------------------
(* The refinement of VideoSessions. *)

LEMMA SameCardinality == ASSUME NEW S PROVE Gate!Cardinality(S) = Cardinality(S)
  BY DEF Gate!Cardinality, Cardinality

LEMMA GateStep ==
  ASSUME IInv, [Next]_vars
  PROVE  [Gate!Next]_<<registered, first, word.reconfiguring>>
<1>1. ASSUME NEW s \in Sessions, Register(s)
      PROVE  [Gate!Next]_<<registered, first, word.reconfiguring>>
  <2>1. CASE RegisterSwap(s)
    <3>1. Gate!Register(s)
      BY <2>1, SwapIn, SameCardinality DEF Gate!Register
    <3> QED  BY <3>1 DEF Gate!Next
  <2>2. CASE ~RegisterSwap(s)
    BY <1>1, <2>2 DEF Register, RegisterLoad, RegisterMustWait, RegisterExhausted,
       RegisterRetry, WaitSleeps, WaitReturns, Go, registered, IInv, TypeOK
  <2> QED  BY <2>1, <2>2
<1>2. ASSUME NEW s \in Sessions, Started(s)
      PROVE  UNCHANGED <<registered, first, word.reconfiguring>>
  BY <1>2 DEF Started, Go, registered, IInv, TypeOK
<1>3. ASSUME NEW s \in Sessions, Unregister(s)
      PROVE  [Gate!Next]_<<registered, first, word.reconfiguring>>
  <2>1. CASE UnregisterSwap(s)
    <3>1. Gate!Unregister(s)
      BY <2>1, SwapOut DEF Gate!Unregister, UnregisterSwap
    <3> QED  BY <3>1 DEF Gate!Next
  <2>2. CASE ~UnregisterSwap(s)
    BY <1>3, <2>2 DEF Unregister, UnregisterLoad, UnregisterRetry, Go, registered, IInv, TypeOK
  <2> QED  BY <2>1, <2>2
<1>4. CASE Reconfigure
  <2>1. UNCHANGED <<registered, first>>
    BY <1>4 DEF Reconfigure, ReconfigureLoad, ReconfigureSkip, ReconfigureSwap, ReconfigureRetry,
       ReconfigureEnd, ReconfigureNotify, registered, IInv, TypeOK
  <2>2. CASE ReconfigureSwap
    <3>1. Cardinality(registered) = 1  BY <2>2 DEF ReconfigureSwap, IInv, CountMatches
    <3>2. \E s \in Sessions : registered = {s}
      BY <3>1, RegisteredFinite, FS_Singleton DEF IInv, registered
    <3>3. ~word.reconfiguring /\ word'.reconfiguring = TRUE
      BY <2>2 DEF ReconfigureSwap, IInv, TypeOK, Word
    <3>4. Gate!BeginReconfiguration
      BY <2>1, <3>2, <3>3 DEF Gate!BeginReconfiguration
    <3> QED  BY <3>4 DEF Gate!Next
  <2>3. CASE ReconfigureEnd
    <3>1. word.reconfiguring /\ word'.reconfiguring = FALSE
      BY <2>3 DEF ReconfigureEnd, IInv, FlagMatches, TypeOK, Word
    <3>2. Gate!EndReconfiguration
      BY <2>1, <3>1 DEF Gate!EndReconfiguration
    <3> QED  BY <3>2 DEF Gate!Next
  <2>4. CASE ~ReconfigureSwap /\ ~ReconfigureEnd
    BY <1>4, <2>1, <2>4 DEF Reconfigure, ReconfigureLoad, ReconfigureSkip, ReconfigureRetry,
       ReconfigureNotify
  <2> QED  BY <2>2, <2>3, <2>4
<1>5. CASE UNCHANGED vars
  BY <1>5 DEF vars, registered
<1> QED  BY <1>1, <1>2, <1>3, <1>4, <1>5 DEF Next

\* The compare-and-swap loops implement the atomic registration.
THEOREM GateRefinement == Spec => GateSpec
<1>1. Init => Gate!Init
  BY DEF Init, Gate!Init, registered
<1>2. IInv /\ [Next]_vars => [Gate!Next]_<<registered, first, word.reconfiguring>>
  BY GateStep
<1>3. Spec => []IInv  BY InitIInv, NextIInv, PTL DEF Spec
<1> QED  BY <1>1, <1>2, <1>3, PTL DEF Spec, GateSpec, Gate!Spec
=============================================================================
