---------------------------- MODULE PairingProofs ----------------------------
(* Proofs about Pairing, for any clients, ids, web threads and bounds: the    *)
(* PIN goes to the request that waits, and without overlapping changes the    *)
(* list, its certificates and its file agree.                                 *)
EXTENDS Pairing, TLAPS

\* The state of the sessions, of the request that waits and of its timers.
SessionsOK ==
  /\ sess \in [Ids -> Session \cup {Nobody}]
  /\ pending \in {i \in Ids : sess[i] # Nobody} \cup {Nobody} /\ required \in BOOLEAN
  /\ timers \in [Ids -> Nat] /\ preset \in BOOLEAN /\ requests \in 0..MaxRequests
  /\ PinHasItsRequest

\* Whoever holds the mutex for the end of a pairing knows for which client.
PairerAt ==
  /\ \/ pc[Pairer] \in {"idle", "add", "finish"} /\ after[Pairer] = "idle"
     \/ pc[Pairer] \in {"read", "copy", "open", "write"} /\ after[Pairer] = "finish"
  /\ pc[Pairer] # "idle" => joining \in Clients
  /\ removes[Pairer] = {}

\* The list, the threads that change it, and the history.
ThreadsOK ==
  /\ devices \subseteq Device /\ chain \subseteq Clients /\ file \in Lists
  /\ pc \in [Threads -> Places] /\ after \in [Threads -> {"idle", "load", "finish"}]
  /\ buf \in [Threads -> Lists] /\ removes \in [Threads -> SUBSET Nat]
  /\ joining \in Clients \cup {Nobody} /\ uuids \in Nat
  /\ changes \in 0..MaxChanges /\ restarts \in 0..MaxRestarts
  /\ crossed \in BOOLEAN /\ gone \subseteq Nat
  /\ PairerAt

\* What the list is like for a thread that changes it alone.
ListAt(t) ==
  /\ removes[t] \subseteq 1..uuids /\ \A d \in devices : d.uuid \notin removes[t]
  /\ pc[t] = "idle" => removes[t] = {}
  /\ pc[t] = "add" => file = devices /\ chain = Certs(devices) \cup {joining}
  /\ pc[t] \in {"read", "copy", "open", "write"} => after[t] = "load" \/ chain = Certs(devices)
  /\ pc[t] \in {"read", "copy", "open"} => file # Torn
  /\ pc[t] \in {"open", "write"} => buf[t] = devices
  /\ pc[t] = "write" => file = Torn
  /\ pc[t] \in {"load", "install", "finish"} => file = devices
  /\ pc[t] = "install" => buf[t] = devices
  /\ pc[t] = "finish" => chain = Certs(devices)

\* Every entry has had its uuid from the counter, and none is of those removed.
Kept(D) == \A d \in D : d.uuid \in (1..uuids) \ gone

Registry ==
  /\ \A t, u \in Threads : pc[t] # "idle" /\ pc[u] # "idle" => t = u
  /\ \A t \in Threads : ListAt(t)
  /\ (\A t \in Threads : pc[t] = "idle") => file = devices /\ chain = Certs(devices)
  /\ gone \subseteq 1..uuids /\ Kept(devices) /\ (file # Torn => Kept(file))

ListInv == ThreadsOK /\ (~crossed => Registry)

IInv == SessionsOK /\ ListInv

-----------------------------------------------------------------------------
(* The phases.                                                              *)

LEMMA PairerIsThread == Pairer \in Threads /\ Web \subseteq Threads
BY DEF Threads

LEMMA FreshSession ==
  ASSUME NEW c \in Clients
  PROVE  /\ UniqueId[c] \in Ids /\ Fresh(c) \in Session /\ ~Fresh(c).waiting
         /\ \A p \in Phases, g \in BOOLEAN :
              [Fresh(c) EXCEPT !.phase = p, !.agreed = g] \in Session
         /\ \A p \in Phases, g \in BOOLEAN :
              ~[Fresh(c) EXCEPT !.phase = p, !.agreed = g].waiting
         /\ [Fresh(c) EXCEPT !.salt = FALSE] \in Session
         /\ ~[Fresh(c) EXCEPT !.salt = FALSE].waiting
         /\ \A g \in BOOLEAN :
              [Fresh(c) EXCEPT !.waiting = TRUE, !.salt = g] \in Session
BY PairingAssumption DEF Fresh, Session, Phases

\* Removing a session keeps them.
LEMMA RemovedOK ==
  ASSUME SessionsOK, NEW i \in Ids, RemoveSession(i),
         timers' \in [Ids -> Nat], preset' \in BOOLEAN, requests' \in 0..MaxRequests
  PROVE  SessionsOK'
<1>1. /\ sess' \in [Ids -> Session \cup {Nobody}] /\ sess'[i] = Nobody
      /\ \A j \in Ids \ {i} : sess'[j] = sess[j]
  BY DEF SessionsOK, RemoveSession
<1>2. CASE pending = i
  <2>1. pending' = Nobody /\ required' = FALSE
    BY <1>2 DEF RemoveSession
  <2>2. \A j \in Ids : ~(sess'[j] # Nobody /\ sess'[j].waiting)
    BY <1>1, <1>2 DEF SessionsOK, PinHasItsRequest
  <2> QED  BY <1>1, <2>1, <2>2 DEF SessionsOK, PinHasItsRequest
<1>3. CASE pending # i
  <2>1. UNCHANGED <<pending, required>>
    BY <1>3 DEF RemoveSession
  <2>2. \A j \in Ids : sess'[j] # Nobody /\ sess'[j].waiting => j = pending
    BY <1>1 DEF SessionsOK, PinHasItsRequest
  <2>3. pending \in {j \in Ids : sess'[j] # Nobody} \cup {Nobody}
    BY <1>1, <1>3 DEF SessionsOK
  <2> QED  BY <1>1, <2>1, <2>2, <2>3 DEF SessionsOK, PinHasItsRequest
<1> QED  BY <1>2, <1>3

\* So does putting in one that does not wait.
LEMMA ReplacedOK ==
  ASSUME SessionsOK, NEW i \in Ids, NEW s \in Session, ~s.waiting,
         sess' = [sess EXCEPT ![i] = s], UNCHANGED <<pending, required>>,
         timers' \in [Ids -> Nat], preset' \in BOOLEAN, requests' \in 0..MaxRequests
  PROVE  SessionsOK'
<1>1. s # Nobody
  BY PairingAssumption
<1>2. /\ sess' \in [Ids -> Session \cup {Nobody}] /\ sess'[i] = s
      /\ \A j \in Ids \ {i} : sess'[j] = sess[j]
  BY DEF SessionsOK
<1>3. pending \in {j \in Ids : sess'[j] # Nobody} \cup {Nobody}
  BY <1>1, <1>2 DEF SessionsOK
<1>4. \A j \in Ids : sess'[j] # Nobody /\ sess'[j].waiting => j = pending
  BY <1>2 DEF SessionsOK, PinHasItsRequest
<1> QED  BY <1>2, <1>3, <1>4 DEF SessionsOK, PinHasItsRequest

LEMMA AskOK ==
  ASSUME SessionsOK, NEW c \in Clients, Asks(c)
  PROVE  requests' \in 0..MaxRequests /\ UNCHANGED <<list, threads, history>>
BY PairingAssumption DEF Asks, SessionsOK

\* getservercert, whatever becomes of it.
LEMMA AskStep ==
  ASSUME SessionsOK, NEW c \in Clients,
         AskIncomplete(c) \/ AskPreset(c) \/ AskRefused(c) \/ AskWaits(c)
  PROVE  SessionsOK' /\ UNCHANGED <<list, threads, history>>
<1>0. timers \in [Ids -> Nat] /\ preset \in BOOLEAN
  BY DEF SessionsOK
<1>1. CASE AskIncomplete(c)
  <2>1. Asks(c)  BY <1>1 DEF AskIncomplete
  <2>2. SessionsOK'
    BY <1>0, <1>1, <2>1, FreshSession, AskOK, ReplacedOK DEF AskIncomplete
  <2> QED  BY <2>1, <2>2, AskOK
<1>2. CASE AskPreset(c)
  <2>1. Asks(c) /\ timers' = timers /\ preset' = FALSE  BY <1>2 DEF AskPreset
  <2>2. CASE RemoveSession(UniqueId[c])
    BY <1>0, <2>1, <2>2, FreshSession, AskOK, RemovedOK
  <2>3. ASSUME NEW same \in BOOLEAN, UNCHANGED <<pending, required>>,
               sess' = [sess EXCEPT ![UniqueId[c]] =
                          [Fresh(c) EXCEPT !.phase = "GETSERVERCERT", !.agreed = same]]
        PROVE  SessionsOK'
    <3>1. "GETSERVERCERT" \in Phases  BY DEF Phases
    <3> QED  BY <1>0, <2>1, <2>3, <3>1, FreshSession, AskOK, ReplacedOK
  <2> QED  BY <1>2, <2>1, <2>2, <2>3, AskOK DEF AskPreset
<1>3. CASE AskRefused(c)
  <2>1. Asks(c)  BY <1>3 DEF AskRefused
  <2>2. SessionsOK'
    BY <1>0, <1>3, <2>1, FreshSession, AskOK, RemovedOK DEF AskRefused
  <2> QED  BY <2>1, <2>2, AskOK
<1>4. CASE AskWaits(c)
  <2>1. Asks(c)  BY <1>4 DEF AskWaits
  <2> DEFINE i == UniqueId[c]
  <2>2. pending = Nobody \/ (pending # i /\ sess[pending] = Nobody)
    BY <1>4 DEF AskWaits, Occupied
  <2>3. pending = Nobody
    BY <2>2, PairingAssumption DEF SessionsOK
  <2>4. PICK ok \in BOOLEAN :
          sess' = [sess EXCEPT ![i] = [Fresh(c) EXCEPT !.waiting = TRUE, !.salt = ok]]
    BY <1>4 DEF AskWaits
  <2>5. /\ sess' \in [Ids -> Session \cup {Nobody}] /\ sess'[i] # Nobody
        /\ \A j \in Ids \ {i} : sess'[j] = sess[j]
    BY <2>4, FreshSession, PairingAssumption DEF SessionsOK
  <2>6. pending' = i /\ required' = TRUE /\ preset' = preset /\ timers' \in [Ids -> Nat]
    <3>1. /\ pending' = i /\ required' = TRUE /\ preset' = preset
          /\ timers' = [timers EXCEPT ![i] = timers[i] + 1]
      BY <1>4, Zenon DEF AskWaits
    <3>2. timers' \in [Ids -> Nat]
      BY <1>0, <3>1, PairingAssumption
    <3> QED  BY <3>1, <3>2, Zenon
  <2>7. i # Nobody
    BY PairingAssumption
  <2>8. \A j \in Ids : sess'[j] # Nobody /\ sess'[j].waiting => j = i
    BY <2>3, <2>5, PairingAssumption DEF SessionsOK, PinHasItsRequest
  <2>9. required' <=> pending' # Nobody
    BY <2>6, <2>7
  <2>10. PinHasItsRequest'
    BY <2>6, <2>8, <2>9 DEF PinHasItsRequest
  <2>11. i \in {j \in Ids : sess'[j] # Nobody}
    BY <2>5, FreshSession
  <2> QED  BY <1>0, <2>1, <2>5, <2>6, <2>10, <2>11, AskOK DEF SessionsOK
<1> QED  BY <1>1, <1>2, <1>3, <1>4

\* The requests that follow, the user and the timers.
LEMMA PinStep ==
  ASSUME SessionsOK, Pin
  PROVE  SessionsOK' /\ UNCHANGED <<list, threads, history>>
<1>1. pending \in Ids /\ sess[pending] \in Session /\ UNCHANGED <<list, threads, history>>
  BY PairingAssumption DEF Pin, SessionsOK
<1>2. UNCHANGED <<timers, preset, requests>>
  BY DEF Pin
<1>3. CASE sess[pending].phase # "NONE" \/ ~sess[pending].salt
  <2>1. RemoveSession(pending)
    BY <1>3 DEF Pin
  <2>2. timers' \in [Ids -> Nat] /\ preset' \in BOOLEAN /\ requests' \in 0..MaxRequests
    BY <1>2 DEF SessionsOK
  <2> QED  BY <1>1, <2>1, <2>2, RemovedOK
<1>4. CASE ~(sess[pending].phase # "NONE" \/ ~sess[pending].salt)
  <2>1. PICK same \in BOOLEAN :
          sess' = [sess EXCEPT ![pending] =
             [sess[pending] EXCEPT !.phase = "GETSERVERCERT", !.waiting = FALSE, !.agreed = same]]
    BY <1>4 DEF Pin
  <2>2. /\ sess'[pending] \in Session /\ ~sess'[pending].waiting
        /\ sess' \in [Ids -> Session \cup {Nobody}]
        /\ \A j \in Ids \ {pending} : sess'[j] = sess[j]
    BY <1>1, <2>1 DEF SessionsOK, Session, Phases
  <2>3. \A j \in Ids : ~(sess'[j] # Nobody /\ sess'[j].waiting)
    BY <1>1, <2>2 DEF SessionsOK, PinHasItsRequest
  <2>4. sess'[pending] # Nobody
    BY <2>2, PairingAssumption
  <2>5. CASE pending' = Nobody /\ required' = FALSE
    BY <1>1, <1>2, <2>2, <2>3, <2>5 DEF SessionsOK, PinHasItsRequest
  <2>6. CASE UNCHANGED <<pending, required>>
    BY <1>1, <1>2, <2>2, <2>3, <2>4, <2>6 DEF SessionsOK, PinHasItsRequest
  <2> QED  BY <1>4, <2>5, <2>6 DEF Pin
<1> QED  BY <1>1, <1>3, <1>4

LEMMA TimeoutStep ==
  ASSUME SessionsOK, NEW i \in Ids, Timeout(i)
  PROVE  SessionsOK' /\ UNCHANGED <<list, threads, history>>
<1>1. timers' \in [Ids -> Nat] /\ UNCHANGED <<preset, requests, list, threads, history>>
  BY DEF Timeout, SessionsOK
<1>2. CASE pending = i
  <2>1. RemoveSession(i)
    BY <1>2 DEF Timeout
  <2> QED  BY <1>1, <2>1, RemovedOK DEF SessionsOK
<1>3. CASE pending # i
  <2>1. UNCHANGED <<sess, pending, required>>
    BY <1>3 DEF Timeout
  <2> QED  BY <1>1, <2>1 DEF SessionsOK, PinHasItsRequest
<1> QED  BY <1>2, <1>3

LEMMA PhaseStep ==
  ASSUME SessionsOK, NEW c \in Clients,
         clientchallenge(c) \/ serverchallengeresp(c) \/ PairingFails(c)
  PROVE  SessionsOK' /\ UNCHANGED <<list, threads, history>>
<1> DEFINE i == UniqueId[c]
<1>1. /\ i \in Ids /\ sess[i] \in Session /\ UNCHANGED <<list, threads, history>>
      /\ UNCHANGED <<timers, preset, requests>>
  BY PairingAssumption DEF clientchallenge, serverchallengeresp, Phase, PairingFails, SessionsOK
<1>2. timers' \in [Ids -> Nat] /\ preset' \in BOOLEAN /\ requests' \in 0..MaxRequests
  BY <1>1 DEF SessionsOK
<1>3. CASE RemoveSession(i)
  BY <1>1, <1>2, <1>3, RemovedOK
<1>4. ASSUME NEW from, NEW to \in Phases, Phase(c, from, to), ~RemoveSession(i)
      PROVE  SessionsOK'
  <2>1. /\ sess' = [sess EXCEPT ![i] = [sess[i] EXCEPT
                       !.phase = to, !.agreed = sess[i].agreed /\ sess[i].client = c]]
        /\ UNCHANGED <<pending, required>>
    BY <1>4, Zenon DEF Phase
  <2>2. /\ sess'[i] \in Session /\ sess'[i].waiting = sess[i].waiting
        /\ sess' \in [Ids -> Session \cup {Nobody}]
        /\ \A j \in Ids \ {i} : sess'[j] = sess[j]
    BY <1>1, <2>1 DEF SessionsOK, Session
  <2>3. sess'[i] # Nobody /\ sess[i] # Nobody
    BY <1>1, <2>2, PairingAssumption
  <2>4. pending \in {j \in Ids : sess'[j] # Nobody} \cup {Nobody}
    BY <2>2, <2>3 DEF SessionsOK
  <2>5. \A j \in Ids : sess'[j] # Nobody /\ sess'[j].waiting => j = pending
    BY <2>2, <2>3 DEF SessionsOK, PinHasItsRequest
  <2> QED  BY <1>2, <2>1, <2>2, <2>4, <2>5 DEF SessionsOK, PinHasItsRequest
<1>5. {"CLIENTCHALLENGE", "SERVERCHALLENGERESP"} \subseteq Phases
  BY DEF Phases
<1>6. CASE clientchallenge(c)
  BY <1>1, <1>3, <1>4, <1>5, <1>6 DEF clientchallenge
<1>7. CASE serverchallengeresp(c)
  BY <1>1, <1>3, <1>4, <1>5, <1>7 DEF serverchallengeresp
<1>8. CASE PairingFails(c)
  BY <1>1, <1>3, <1>8 DEF PairingFails
<1> QED  BY <1>6, <1>7, <1>8

LEMMA PresetStep ==
  ASSUME SessionsOK, set_preset_pin \/ clear_preset_pin
  PROVE  SessionsOK' /\ UNCHANGED <<list, threads, history>>
<1>1. preset' \in BOOLEAN /\ UNCHANGED <<sess, pending, required, timers, requests, list, threads, history>>
  BY DEF set_preset_pin, clear_preset_pin
<1>2. PinHasItsRequest' <=> PinHasItsRequest
  BY <1>1 DEF PinHasItsRequest
<1> QED  BY <1>1, <1>2 DEF SessionsOK
-----------------------------------------------------------------------------
(* The changes of the list.                                                 *)

LEMMA ListNotTorn == \A D \in SUBSET Device : D # Torn
BY PairingAssumption DEF Torn

LEMMA CertsType == \A D \in SUBSET Device : Certs(D) \subseteq Clients
BY DEF Certs, Device

LEMMA CertsAdd ==
  ASSUME NEW D \in SUBSET Device, NEW d \in Device
  PROVE  Certs(D \cup {d}) = Certs(D) \cup {d.client}
BY DEF Certs

\* A step that leaves the list, its file and the threads alone.
LEMMA ListFrame ==
  ASSUME ListInv, UNCHANGED <<list, threads, history>>
  PROVE  ListInv'
<1>1. ThreadsOK'
  BY DEF ListInv, ThreadsOK, PairerAt, list, threads, history
<1>2. ASSUME Registry PROVE Registry'
  <2>1. \A t \in Threads : ListAt(t)'
    BY <1>2 DEF Registry, ListAt, list, threads, history
  <2> QED  BY <1>2, <2>1 DEF Registry, Kept, list, threads, history
<1> QED  BY <1>1, <1>2 DEF ListInv, history

\* The certificate is accepted while nobody changes the list, or the changes cross.
LEMMA VerifiedStep ==
  ASSUME SessionsOK, ListInv, NEW c \in Clients, PairingVerified(c)
  PROVE  SessionsOK' /\ ListInv'
<1> USE PairerIsThread
<1>1. /\ UNCHANGED <<session, devices, file, after, buf, removes, uuids, changes, restarts, gone>>
      /\ pc' = [pc EXCEPT ![Pairer] = "add"] /\ joining' = c /\ chain' = chain \cup {c}
      /\ crossed' = (crossed \/ \E w \in Web : pc[w] # "idle")
      /\ pc[Pairer] = "idle"
  BY DEF PairingVerified, MapFree
<1>2. SessionsOK'
  BY <1>1 DEF SessionsOK, PinHasItsRequest, session
<1>3. ThreadsOK'
  <2>1. pc' \in [Threads -> Places]
    BY <1>1 DEF ListInv, ThreadsOK, Places
  <2>2. crossed' \in BOOLEAN
    BY <1>1, Zenon DEF ListInv, ThreadsOK
  <2>3. PairerAt'
    BY <1>1 DEF ListInv, ThreadsOK, PairerAt
  <2> QED  BY <1>1, <2>1, <2>2, <2>3 DEF ListInv, ThreadsOK
<1>4. ASSUME ~crossed' PROVE Registry'
  <2>1. Registry /\ \A t \in Threads : pc[t] = "idle"
    BY <1>1, <1>4 DEF ListInv, Threads
  <2>2. pc' \in [Threads -> Places] /\ pc'[Pairer] = "add"
        /\ \A t \in Threads \ {Pairer} : pc'[t] = "idle"
    BY <1>1, <1>3, <2>1 DEF ListInv, ThreadsOK
  <2>3. file = devices /\ chain = Certs(devices)
    BY <2>1 DEF Registry
  <2>4. \A t \in Threads : ListAt(t)'
    BY <1>1, <2>1, <2>2, <2>3 DEF Registry, ListAt
  <2> QED  BY <1>1, <2>1, <2>2, <2>4 DEF Registry, Kept
<1> QED  BY <1>2, <1>3, <1>4 DEF ListInv
\* A thread that changes the list alone keeps the registry if it keeps its part.
LEMMA AloneStep ==
  ASSUME Registry, NEW t \in Threads, \A u \in Threads \ {t} : pc[u] = "idle",
         \A u \in Threads \ {t} : pc'[u] = pc[u] /\ removes'[u] = removes[u],
         ListAt(t)', pc'[t] = "idle" => file' = devices' /\ chain' = Certs(devices'),
         gone' \subseteq 1..uuids', Kept(devices)', file' # Torn => Kept(file)'
  PROVE  Registry'
<1>1. \A u \in Threads \ {t} : pc'[u] = "idle" /\ removes'[u] = {}
  BY DEF Registry, ListAt
<1>2. \A u \in Threads \ {t} : ListAt(u)'
  BY <1>1 DEF ListAt
<1>3. \A u, v \in Threads : pc'[u] # "idle" /\ pc'[v] # "idle" => u = v
  BY <1>1
<1>4. (\A u \in Threads : pc'[u] = "idle") => file' = devices' /\ chain' = Certs(devices')
  OBVIOUS
<1>5. \A u \in Threads : ListAt(u)'
  BY <1>2
<1> QED  BY <1>3, <1>4, <1>5 DEF Registry

\* Where Goto leaves the threads.
LEMMA GotoOK ==
  ASSUME ThreadsOK, NEW t \in Threads, NEW l \in Places, Goto(t, l)
  PROVE  /\ pc' \in [Threads -> Places] /\ removes' \in [Threads -> SUBSET Nat]
         /\ gone' \subseteq Nat /\ pc'[t] = l
         /\ \A u \in Threads \ {t} : pc'[u] = pc[u] /\ removes'[u] = removes[u]
         /\ l = "idle" => gone' = gone \cup removes[t] /\ removes'[t] = {}
         /\ l # "idle" => UNCHANGED <<gone, removes>>
         /\ UNCHANGED <<session, joining, uuids, changes, restarts, crossed>>
BY DEF Goto, ThreadsOK

\* When t is at work and the changes do not cross, it is alone.
LEMMA AloneAt ==
  ASSUME Registry, NEW t \in Threads, pc[t] # "idle"
  PROVE  ListAt(t) /\ \A u \in Threads \ {t} : pc[u] = "idle"
BY DEF Registry

\* A save returns to where its change goes on.
LEMMA ReturnsOK ==
  ASSUME ThreadsOK, NEW t \in Threads, pc[t] \in {"read", "write"}, SaveReturns(t)
  PROVE  /\ after[t] \in {"idle", "load", "finish"} /\ Goto(t, after[t])
         /\ after' \in [Threads -> {"idle", "load", "finish"}] /\ after'[t] = "idle"
         /\ PairerAt'
<1> USE PairerIsThread
<1>1. /\ after[t] \in {"idle", "load", "finish"} /\ Goto(t, after[t])
      /\ after' = [after EXCEPT ![t] = "idle"]
  BY DEF SaveReturns, ThreadsOK
<1>2. after' \in [Threads -> {"idle", "load", "finish"}] /\ after'[t] = "idle"
  BY <1>1 DEF ThreadsOK
<1>3. after[t] \in Places
  BY <1>1 DEF Places
<1>4. /\ pc'[t] = after[t] /\ joining' = joining
      /\ \A u \in Threads \ {t} : pc'[u] = pc[u] /\ removes'[u] = removes[u]
      /\ removes'[t] \in {removes[t], {}}
  BY <1>1, <1>3, GotoOK
<1>5. PairerAt'
  BY <1>1, <1>4 DEF ThreadsOK, PairerAt
<1> QED  BY <1>1, <1>2, <1>5

LEMMA SessionsFrame ==
  ASSUME SessionsOK, UNCHANGED session
  PROVE  SessionsOK'
BY DEF SessionsOK, PinHasItsRequest, session

LEMMA SaveReadsStep ==
  ASSUME ListInv, NEW t \in Threads, SaveReads(t)
  PROVE  ListInv' /\ UNCHANGED session
<1> USE PairerIsThread, ListNotTorn
<1>0. ThreadsOK  BY DEF ListInv
<1>1. pc[t] = "read" /\ UNCHANGED <<devices, chain, file, buf>>
  BY DEF SaveReads, list
<1>2. CASE file = Torn
  <2>1. SaveReturns(t)  BY <1>2 DEF SaveReads
  <2>2. /\ after[t] \in Places /\ Goto(t, after[t]) /\ PairerAt'
        /\ after' \in [Threads -> {"idle", "load", "finish"}]
    BY <1>0, <1>1, <2>1, ReturnsOK DEF Places
  <2>3. ThreadsOK' /\ crossed' = crossed /\ UNCHANGED session
    BY <1>0, <1>1, <2>2, GotoOK DEF ThreadsOK
  <2>4. ~Registry
    BY <1>1, <1>2, AloneAt DEF ListAt
  <2> QED  BY <2>3, <2>4 DEF ListInv
<1>3. CASE file # Torn
  <2>1. Goto(t, "copy") /\ after' = after
    BY <1>3 DEF SaveReads
  <2>2. "copy" \in Places  BY DEF Places
  <2>3. PairerAt'
    BY <1>0, <1>1, <2>1, <2>2, GotoOK DEF ThreadsOK, PairerAt
  <2>4. ThreadsOK' /\ crossed' = crossed /\ UNCHANGED session
    BY <1>0, <1>1, <2>1, <2>2, <2>3, GotoOK DEF ThreadsOK
  <2>5. ASSUME Registry PROVE Registry'
    <3>1. /\ pc'[t] = "copy" /\ UNCHANGED <<gone, removes, uuids>>
          /\ \A u \in Threads \ {t} : pc'[u] = pc[u] /\ removes'[u] = removes[u]
      BY <1>0, <2>1, <2>2, GotoOK
    <3>2. ListAt(t)'
      BY <1>1, <2>1, <2>5, <3>1, AloneAt DEF ListAt
    <3> QED  BY <1>1, <2>5, <3>1, <3>2, AloneAt, AloneStep DEF Registry, Kept
  <2> QED  BY <2>4, <2>5 DEF ListInv
<1> QED  BY <1>2, <1>3
LEMMA SaveCopiesStep ==
  ASSUME ListInv, NEW t \in Threads, SaveCopies(t)
  PROVE  ListInv' /\ UNCHANGED session
<1> USE PairerIsThread, ListNotTorn
<1>0. ThreadsOK  BY DEF ListInv
<1>1. pc[t] = "copy" /\ Goto(t, "open") /\ buf' = [buf EXCEPT ![t] = devices]
      /\ UNCHANGED <<devices, chain, file, after>>
  BY DEF SaveCopies, list
<1>2. "open" \in Places  BY DEF Places
<1>3. /\ pc'[t] = "open" /\ UNCHANGED <<gone, removes, uuids, session, crossed>>
      /\ \A u \in Threads \ {t} : pc'[u] = pc[u] /\ removes'[u] = removes[u]
  BY <1>0, <1>1, <1>2, GotoOK
<1>4. PairerAt'
  BY <1>0, <1>1, <1>2, GotoOK DEF ThreadsOK, PairerAt
<1>5. buf' \in [Threads -> Lists]
  BY <1>0, <1>1 DEF ThreadsOK, Lists
<1>6. ThreadsOK'
  BY <1>0, <1>1, <1>2, <1>4, <1>5, GotoOK DEF ThreadsOK
<1>7. ASSUME Registry PROVE Registry'
  <2>1. ListAt(t) /\ buf'[t] = IF pc[t] = "copy" THEN devices ELSE IF pc[t] = "load" THEN file ELSE buf[t]
    BY <1>0, <1>1, <1>7, AloneAt DEF ThreadsOK
  <2>2. ListAt(t)'
    BY <1>1, <1>3, <2>1 DEF ListAt
  <2>3. Kept(devices)' /\ (file' # Torn => Kept(file)')
    BY <1>1, <1>3, <1>7 DEF Registry, Kept
  <2> QED  BY <1>1, <1>3, <1>7, <2>2, <2>3, AloneAt, AloneStep DEF Registry
<1> QED  BY <1>3, <1>6, <1>7 DEF ListInv

LEMMA SaveOpensStep ==
  ASSUME ListInv, NEW t \in Threads, SaveOpens(t)
  PROVE  ListInv' /\ UNCHANGED session
<1> USE PairerIsThread, ListNotTorn
<1>0. ThreadsOK  BY DEF ListInv
<1>1. pc[t] = "open" /\ Goto(t, "write") /\ file' = Torn
      /\ UNCHANGED <<devices, chain, after, buf>>
  BY DEF SaveOpens, list
<1>2. "write" \in Places  BY DEF Places
<1>3. /\ pc'[t] = "write" /\ UNCHANGED <<gone, removes, uuids, session, crossed>>
      /\ \A u \in Threads \ {t} : pc'[u] = pc[u] /\ removes'[u] = removes[u]
  BY <1>0, <1>1, <1>2, GotoOK
<1>4. PairerAt'
  BY <1>0, <1>1, <1>2, GotoOK DEF ThreadsOK, PairerAt
<1>5. file' \in Lists
  BY <1>0, <1>1 DEF ThreadsOK, Lists
<1>6. ThreadsOK'
  BY <1>0, <1>1, <1>2, <1>4, <1>5, GotoOK DEF ThreadsOK
<1>7. ASSUME Registry PROVE Registry'
  <2>1. ListAt(t) /\ buf'[t] = IF pc[t] = "copy" THEN devices ELSE IF pc[t] = "load" THEN file ELSE buf[t]
    BY <1>0, <1>1, <1>7, AloneAt DEF ThreadsOK
  <2>2. ListAt(t)'
    BY <1>1, <1>3, <2>1 DEF ListAt
  <2>3. Kept(devices)' /\ (file' # Torn => Kept(file)')
    BY <1>1, <1>3, <1>7 DEF Registry, Kept
  <2> QED  BY <1>1, <1>3, <1>7, <2>2, <2>3, AloneAt, AloneStep DEF Registry
<1> QED  BY <1>3, <1>6, <1>7 DEF ListInv

LEMMA LoadReadsStep ==
  ASSUME ListInv, NEW t \in Threads, LoadReads(t)
  PROVE  ListInv' /\ UNCHANGED session
<1> USE PairerIsThread, ListNotTorn
<1>0. ThreadsOK  BY DEF ListInv
<1>1. pc[t] = "load" /\ Goto(t, "install") /\ buf' = [buf EXCEPT ![t] = file]
      /\ UNCHANGED <<devices, chain, file, after>>
  BY DEF LoadReads, list
<1>2. "install" \in Places  BY DEF Places
<1>3. /\ pc'[t] = "install" /\ UNCHANGED <<gone, removes, uuids, session, crossed>>
      /\ \A u \in Threads \ {t} : pc'[u] = pc[u] /\ removes'[u] = removes[u]
  BY <1>0, <1>1, <1>2, GotoOK
<1>4. PairerAt'
  BY <1>0, <1>1, <1>2, GotoOK DEF ThreadsOK, PairerAt
<1>5. buf' \in [Threads -> Lists]
  BY <1>0, <1>1 DEF ThreadsOK, Lists
<1>6. ThreadsOK'
  BY <1>0, <1>1, <1>2, <1>4, <1>5, GotoOK DEF ThreadsOK
<1>7. ASSUME Registry PROVE Registry'
  <2>1. ListAt(t) /\ buf'[t] = IF pc[t] = "copy" THEN devices ELSE IF pc[t] = "load" THEN file ELSE buf[t]
    BY <1>0, <1>1, <1>7, AloneAt DEF ThreadsOK
  <2>2. ListAt(t)'
    BY <1>1, <1>3, <2>1 DEF ListAt
  <2>3. Kept(devices)' /\ (file' # Torn => Kept(file)')
    BY <1>1, <1>3, <1>7 DEF Registry, Kept
  <2> QED  BY <1>1, <1>3, <1>7, <2>2, <2>3, AloneAt, AloneStep DEF Registry
<1> QED  BY <1>3, <1>6, <1>7 DEF ListInv

LEMMA SaveWritesStep ==
  ASSUME ListInv, NEW t \in Threads, SaveWrites(t)
  PROVE  ListInv' /\ UNCHANGED session
<1> USE PairerIsThread, ListNotTorn
<1>0. ThreadsOK  BY DEF ListInv
<1>1. /\ pc[t] = "write" /\ SaveReturns(t) /\ buf' = [buf EXCEPT ![t] = {}]
      /\ UNCHANGED <<devices, chain>>
      /\ file' \in IF file = Torn THEN {buf[t]} ELSE {buf[t], Torn}
  BY DEF SaveWrites
<1>2. /\ after[t] \in {"idle", "load", "finish"} /\ after[t] \in Places /\ Goto(t, after[t])
      /\ after' \in [Threads -> {"idle", "load", "finish"}] /\ after'[t] = "idle" /\ PairerAt'
  BY <1>0, <1>1, ReturnsOK DEF Places
<1>3. file' \in Lists /\ buf' \in [Threads -> Lists]
  BY <1>0, <1>1 DEF ThreadsOK, Lists
<1>4. ThreadsOK' /\ crossed' = crossed /\ uuids' = uuids /\ UNCHANGED session
  BY <1>0, <1>1, <1>2, <1>3, GotoOK DEF ThreadsOK
<1>5. ASSUME Registry PROVE Registry'
  <2>1. ListAt(t) /\ file' = devices /\ devices # Torn
    BY <1>0, <1>1, <1>5, AloneAt DEF ListAt, ThreadsOK
  <2>2. /\ pc'[t] = after[t]
        /\ after[t] = "idle" => gone' = gone \cup removes[t] /\ removes'[t] = {}
        /\ after[t] # "idle" => UNCHANGED <<gone, removes>>
        /\ \A u \in Threads \ {t} : pc'[u] = pc[u] /\ removes'[u] = removes[u]
    BY <1>0, <1>2, GotoOK
  <2>3. pc'[t] \in {"idle", "finish"} => chain' = Certs(devices')
    BY <1>1, <2>1, <2>2 DEF ListAt
  <2>4. ListAt(t)'
    BY <1>1, <1>2, <1>4, <2>1, <2>2, <2>3 DEF ListAt
  <2>5. gone' \subseteq 1..uuids' /\ Kept(devices)' /\ Kept(file)'
    BY <1>1, <1>4, <1>5, <2>1, <2>2 DEF Registry, Kept, ListAt
  <2> QED  BY <1>1, <1>5, <2>1, <2>2, <2>3, <2>4, <2>5, AloneAt, AloneStep
<1> QED  BY <1>4, <1>5 DEF ListInv

LEMMA LoadInstallsStep ==
  ASSUME ListInv, NEW t \in Threads, LoadInstalls(t)
  PROVE  ListInv' /\ UNCHANGED session
<1> USE PairerIsThread, ListNotTorn
<1>0. ThreadsOK  BY DEF ListInv
<1>1. pc[t] = "install" /\ buf' = [buf EXCEPT ![t] = {}] /\ UNCHANGED <<file, after>>
  BY DEF LoadInstalls
<1>2. t # Pairer /\ buf[t] \in Lists /\ buf' \in [Threads -> Lists]
  BY <1>0, <1>1 DEF ThreadsOK, PairerAt, Lists
<1>3. CASE buf[t] = Torn
  <2>1. devices' = {} /\ chain' = {} /\ Goto(t, "copy")
    BY <1>3 DEF LoadInstalls
  <2>2. "copy" \in Places  BY DEF Places
  <2>3. PairerAt'
    BY <1>0, <1>1, <1>2, <2>1, <2>2, GotoOK DEF ThreadsOK, PairerAt
  <2>4. ThreadsOK' /\ crossed' = crossed /\ UNCHANGED session
    BY <1>0, <1>1, <1>2, <2>1, <2>2, <2>3, GotoOK DEF ThreadsOK
  <2>5. ~Registry
    BY <1>0, <1>1, <1>3, AloneAt DEF ListAt, ThreadsOK
  <2> QED  BY <2>4, <2>5 DEF ListInv
<1>4. CASE buf[t] # Torn
  <2>1. devices' = buf[t] /\ chain' = Certs(buf[t]) /\ Goto(t, "idle")
    BY <1>4 DEF LoadInstalls
  <2>2. "idle" \in Places /\ buf[t] \in SUBSET Device  BY <1>2, <1>4 DEF Places, Lists
  <2>3. PairerAt'
    BY <1>0, <1>1, <1>2, <2>1, <2>2, GotoOK DEF ThreadsOK, PairerAt
  <2>4. ThreadsOK' /\ crossed' = crossed /\ uuids' = uuids /\ UNCHANGED session
    BY <1>0, <1>1, <1>2, <2>1, <2>2, <2>3, CertsType, GotoOK DEF ThreadsOK
  <2>5. ASSUME Registry PROVE Registry'
    <3>1. ListAt(t) /\ devices' = devices /\ file' = devices' /\ chain' = Certs(devices')
      BY <1>1, <2>1, <2>5, AloneAt DEF ListAt
    <3>2. /\ pc'[t] = "idle" /\ gone' = gone \cup removes[t] /\ removes'[t] = {}
          /\ \A u \in Threads \ {t} : pc'[u] = pc[u] /\ removes'[u] = removes[u]
      BY <1>0, <2>1, <2>2, GotoOK
    <3>3. ListAt(t)'
      BY <3>1, <3>2 DEF ListAt
    <3>4. gone' \subseteq 1..uuids' /\ Kept(devices)' /\ Kept(file)'
      BY <2>4, <2>5, <3>1, <3>2 DEF Registry, Kept, ListAt
    <3> QED  BY <1>1, <2>5, <3>1, <3>2, <3>3, <3>4, AloneAt, AloneStep
  <2> QED  BY <2>4, <2>5 DEF ListInv
<1> QED  BY <1>3, <1>4

LEMMA AddDeviceStep ==
  ASSUME ListInv, AddDevice
  PROVE  ListInv' /\ UNCHANGED session
<1> USE PairerIsThread, ListNotTorn
<1> DEFINE d == [client |-> joining, uuid |-> uuids + 1]
<1>0. ThreadsOK  BY DEF ListInv
<1>1. /\ pc[Pairer] = "add" /\ devices' = devices \cup {d} /\ uuids' = uuids + 1
      /\ pc' = [pc EXCEPT ![Pairer] = "read"] /\ after' = [after EXCEPT ![Pairer] = "finish"]
      /\ UNCHANGED <<session, chain, file, buf, removes, joining, history>>
  BY DEF AddDevice
<1>2. joining \in Clients /\ uuids \in Nat
  BY <1>0, <1>1 DEF ThreadsOK, PairerAt
<1>3. d \in Device /\ d.client = joining /\ d.uuid = uuids + 1
  BY <1>2 DEF Device
<1> HIDE DEF d
<1>4. ThreadsOK'
  <2>1. pc' \in [Threads -> Places] /\ after' \in [Threads -> {"idle", "load", "finish"}]
    BY <1>0, <1>1 DEF ThreadsOK, Places
  <2>2. PairerAt'
    BY <1>0, <1>1, <1>2 DEF ThreadsOK, PairerAt
  <2> QED  BY <1>0, <1>1, <1>2, <1>3, <2>1, <2>2 DEF ThreadsOK, history
<1>5. ASSUME Registry PROVE Registry'
  <2>1. ListAt(Pairer) /\ file = devices /\ chain = Certs(devices) \cup {joining}
    BY <1>1, <1>5, AloneAt DEF ListAt
  <2>2. chain' = Certs(devices')
    BY <1>0, <1>1, <1>3, <2>1, CertsAdd DEF ThreadsOK
  <2>3. /\ pc'[Pairer] = "read" /\ file' # Torn
        /\ \A u \in Threads \ {Pairer} : pc'[u] = pc[u] /\ removes'[u] = removes[u]
    BY <1>0, <1>1, <2>1 DEF ThreadsOK
  <2>4. ListAt(Pairer)'
    <3>1. removes'[Pairer] = {}
      BY <1>0, <1>1 DEF ThreadsOK, PairerAt
    <3> QED  BY <2>2, <2>3, <3>1 DEF ListAt
  <2>5. gone' \subseteq 1..uuids' /\ Kept(devices)' /\ Kept(file)'
    BY <1>1, <1>2, <1>3, <1>5, <2>1 DEF Registry, Kept, history
  <2> QED  BY <1>1, <1>5, <2>3, <2>4, <2>5, AloneAt, AloneStep
<1> QED  BY <1>1, <1>4, <1>5 DEF ListInv, history

LEMMA FinishesStep ==
  ASSUME SessionsOK, ListInv, PairingFinishes
  PROVE  SessionsOK' /\ ListInv'
<1> USE PairerIsThread, ListNotTorn
<1>0. ThreadsOK  BY DEF ListInv
<1>1. /\ pc[Pairer] = "finish" /\ RemoveSession(UniqueId[joining])
      /\ joining' = Nobody /\ pc' = [pc EXCEPT ![Pairer] = "idle"]
      /\ UNCHANGED <<timers, preset, requests, list, after, buf, removes, uuids, history>>
  BY DEF PairingFinishes
<1>2. joining \in Clients
  BY <1>0, <1>1 DEF ThreadsOK, PairerAt
<1>3. SessionsOK'
  BY <1>1, <1>2, FreshSession, RemovedOK DEF SessionsOK
<1>4. ThreadsOK'
  <2>1. pc' \in [Threads -> Places]
    BY <1>0, <1>1 DEF ThreadsOK, Places
  <2>2. PairerAt'
    BY <1>0, <1>1 DEF ThreadsOK, PairerAt
  <2> QED  BY <1>0, <1>1, <2>1, <2>2 DEF ThreadsOK, history, list
<1>5. ASSUME Registry PROVE Registry'
  <2>1. ListAt(Pairer) /\ file = devices /\ chain = Certs(devices)
    BY <1>1, <1>5, AloneAt DEF ListAt
  <2>2. /\ pc'[Pairer] = "idle"
        /\ \A u \in Threads \ {Pairer} : pc'[u] = pc[u] /\ removes'[u] = removes[u]
    BY <1>0, <1>1 DEF ThreadsOK
  <2>3. removes[Pairer] = {}
    BY <1>0 DEF ThreadsOK, PairerAt
  <2>4. ListAt(Pairer)'
    BY <1>1, <2>1, <2>2, <2>3 DEF ListAt, list
  <2> QED  BY <1>1, <1>5, <2>1, <2>2, <2>4, AloneAt, AloneStep DEF Registry, Kept, list, history
<1> QED  BY <1>1, <1>3, <1>4, <1>5 DEF ListInv, history

\* A change by the web interface, while nobody else changes the list or across.
LEMMA ChangeStep ==
  ASSUME ListInv, NEW w \in Web, NEW R \in SUBSET Nat, NEW l \in {"idle", "load"}, Change(w, R, l),
         chain' \subseteq Clients,
         Registry /\ (\A t \in Threads : pc[t] = "idle") =>
           R \subseteq 1..uuids /\ (l = "load" \/ chain' = Certs(devices'))
  PROVE  ListInv' /\ UNCHANGED session
<1> USE PairerIsThread, ListNotTorn
<1>0. ThreadsOK /\ w \in Threads /\ w # Pairer
  BY PairingAssumption DEF ListInv, Threads
<1>1. /\ pc[w] = "idle" /\ changes < MaxChanges /\ changes' = changes + 1
      /\ devices' = {d \in devices : d.uuid \notin R}
      /\ removes' = [removes EXCEPT ![w] = R]
      /\ pc' = [pc EXCEPT ![w] = "read"] /\ after' = [after EXCEPT ![w] = l]
      /\ crossed' = (crossed \/ \E t \in Threads : pc[t] # "idle")
      /\ UNCHANGED <<session, file, buf, joining, uuids, restarts, gone>>
  BY DEF Change
<1>2. ThreadsOK'
  <2>1. pc' \in [Threads -> Places] /\ after' \in [Threads -> {"idle", "load", "finish"}]
        /\ removes' \in [Threads -> SUBSET Nat]
    BY <1>0, <1>1 DEF ThreadsOK, Places
  <2>2. PairerAt'
    BY <1>0, <1>1 DEF ThreadsOK, PairerAt
  <2>3. crossed' \in BOOLEAN
    BY <1>0, <1>1, Zenon DEF ThreadsOK
  <2>4. devices' \subseteq Device /\ changes' \in 0..MaxChanges
    BY <1>0, <1>1, PairingAssumption DEF ThreadsOK
  <2> QED  BY <1>0, <1>1, <2>1, <2>2, <2>3, <2>4 DEF ThreadsOK
<1>3. ASSUME ~crossed' PROVE Registry'
  <2>1. Registry /\ \A t \in Threads : pc[t] = "idle"
    BY <1>1, <1>3 DEF ListInv
  <2>2. file = devices
    BY <2>1 DEF Registry
  <2>3. /\ pc'[w] = "read" /\ after'[w] = l /\ removes'[w] = R
        /\ \A u \in Threads \ {w} : pc'[u] = pc[u] /\ removes'[u] = removes[u]
    BY <1>0, <1>1 DEF ThreadsOK
  <2>4. ListAt(w)'
    BY <1>0, <1>1, <2>1, <2>2, <2>3 DEF ListAt, ThreadsOK
  <2>5. gone' \subseteq 1..uuids' /\ Kept(devices)' /\ Kept(file)'
    BY <1>1, <2>1, <2>2 DEF Registry, Kept
  <2> QED  BY <1>0, <2>1, <2>3, <2>4, <2>5, AloneStep
<1> QED  BY <1>1, <1>2, <1>3 DEF ListInv

LEMMA WebStep ==
  ASSUME ListInv, NEW w \in Web,
         (\E u \in 1..uuids : unpair_client(w, u)) \/ erase_all_clients(w) \/ rename_client(w)
  PROVE  ListInv' /\ UNCHANGED session
<1>0. ThreadsOK /\ devices \subseteq Device /\ chain \subseteq Clients
  BY DEF ListInv, ThreadsOK
<1>1. ASSUME NEW u \in 1..uuids, unpair_client(w, u) PROVE ListInv' /\ UNCHANGED session
  <2>1. Change(w, {u}, "load") /\ chain' = chain /\ {u} \in SUBSET Nat
    BY <1>1 DEF unpair_client
  <2> QED  BY <1>0, <2>1, ChangeStep
<1>2. CASE erase_all_clients(w)
  <2> DEFINE R == {d.uuid : d \in devices}
  <2>1. Change(w, R, "idle") /\ chain' = {} /\ R \in SUBSET Nat
    BY <1>0, <1>2 DEF erase_all_clients, Device
  <2>2. devices' = {}
    BY <2>1 DEF Change
  <2>3. chain' = Certs(devices')
    BY <2>1, <2>2 DEF Certs
  <2>4. Registry => R \subseteq 1..uuids
    BY DEF Registry, Kept
  <2> QED  BY <2>1, <2>3, <2>4, ChangeStep
<1>3. CASE rename_client(w)
  <2>1. Change(w, {}, "idle") /\ chain' = chain
    BY <1>3 DEF rename_client
  <2>2. devices' = devices
    BY <2>1 DEF Change
  <2>3. Registry /\ (\A t \in Threads : pc[t] = "idle") => chain = Certs(devices)
    BY DEF Registry
  <2> QED  BY <1>0, <2>1, <2>2, <2>3, ChangeStep
<1> QED  BY <1>1, <1>2, <1>3

LEMMA RestartStep ==
  ASSUME IInv, Restart
  PROVE  IInv'
<1> USE PairerIsThread, ListNotTorn
<1>0. SessionsOK /\ ThreadsOK  BY DEF IInv, ListInv
<1>1. /\ restarts < MaxRestarts /\ restarts' = restarts + 1
      /\ sess' = NoSessions /\ pending' = Nobody /\ required' = FALSE
      /\ timers' = NoTimers /\ preset' = FALSE
      /\ pc' = AllIdle /\ after' = AllIdle /\ buf' = NoLists /\ removes' = NoLists
      /\ joining' = Nobody
      /\ file' = IF file = Torn THEN {} ELSE file
      /\ devices' = file' /\ chain' = Certs(file')
      /\ UNCHANGED <<requests, uuids, changes, crossed, gone>>
  BY DEF Restart
<1>2. SessionsOK'
  <2>1. \A i \in Ids : sess'[i] = Nobody
    BY <1>1 DEF NoSessions
  <2>2. PinHasItsRequest'
    BY <1>1, <2>1 DEF PinHasItsRequest
  <2> QED  BY <1>0, <1>1, <2>2 DEF SessionsOK, NoSessions, NoTimers
<1>3. file' \in SUBSET Device /\ \A t \in Threads : pc'[t] = "idle" /\ removes'[t] = {}
  BY <1>0, <1>1 DEF ThreadsOK, Lists, AllIdle, NoLists
<1>4. ThreadsOK'
  <2>1. PairerAt'
    BY <1>1 DEF PairerAt, AllIdle, NoLists
  <2>2. /\ pc' \in [Threads -> Places] /\ after' \in [Threads -> {"idle", "load", "finish"}]
        /\ buf' \in [Threads -> Lists] /\ removes' \in [Threads -> SUBSET Nat]
    BY <1>1 DEF AllIdle, NoLists, Places, Lists
  <2>3. restarts' \in 0..MaxRestarts
    BY <1>0, <1>1, PairingAssumption DEF ThreadsOK
  <2> QED  BY <1>0, <1>1, <1>3, <2>1, <2>2, <2>3, CertsType DEF ThreadsOK, Lists
<1>5. ASSUME Registry PROVE Registry'
  <2>1. \A t \in Threads : ListAt(t)'
    BY <1>3 DEF ListAt
  <2>2. Kept(file)'
    BY <1>1, <1>5 DEF Registry, Kept
  <2> QED  BY <1>1, <1>3, <1>5, <2>1, <2>2 DEF Registry
<1> QED  BY <1>1, <1>2, <1>4, <1>5 DEF IInv, ListInv

-----------------------------------------------------------------------------
(* The theorems.                                                            *)

LEMMA Initially == Init => IInv
<1> USE PairerIsThread
<1> SUFFICES ASSUME Init PROVE IInv  OBVIOUS
<1>1. SessionsOK
  <2>1. PinHasItsRequest
    BY DEF Init, PinHasItsRequest, NoSessions
  <2>2. sess \in [Ids -> Session \cup {Nobody}] /\ timers \in [Ids -> Nat]
    BY DEF Init, NoSessions, NoTimers
  <2>3. requests \in 0..MaxRequests
    BY PairingAssumption DEF Init
  <2>4. pending = Nobody /\ required \in BOOLEAN /\ preset \in BOOLEAN
    BY DEF Init
  <2> QED  BY <2>1, <2>2, <2>3, <2>4 DEF SessionsOK
<1>2. \A t \in Threads : pc[t] = "idle" /\ removes[t] = {}
  BY DEF Init, AllIdle, NoLists
<1>3. ThreadsOK
  <2>1. /\ pc \in [Threads -> Places] /\ after \in [Threads -> {"idle", "load", "finish"}]
        /\ buf \in [Threads -> Lists] /\ removes \in [Threads -> SUBSET Nat]
    BY DEF Init, AllIdle, NoLists, Places, Lists
  <2>2. PairerAt
    BY DEF Init, PairerAt, AllIdle, NoLists
  <2>3. changes \in 0..MaxChanges /\ restarts \in 0..MaxRestarts /\ uuids \in Nat
    BY PairingAssumption DEF Init
  <2>4. /\ devices \subseteq Device /\ chain \subseteq Clients /\ file \in Lists
        /\ joining = Nobody /\ crossed \in BOOLEAN /\ gone \subseteq Nat
    BY DEF Init, Lists
  <2> QED  BY <2>1, <2>2, <2>3, <2>4 DEF ThreadsOK
<1>4. chain = Certs(devices)
  BY DEF Init, Certs
<1>5. \A t \in Threads : ListAt(t)
  BY <1>2 DEF ListAt
<1> QED  BY <1>1, <1>2, <1>3, <1>4, <1>5 DEF Init, IInv, ListInv, Registry, Kept

LEMMA Step == IInv /\ [Next]_vars => IInv'
<1> SUFFICES ASSUME IInv, [Next]_vars PROVE IInv'  OBVIOUS
<1>0. SessionsOK /\ ListInv  BY DEF IInv
<1>1. CASE UNCHANGED vars
  BY <1>0, <1>1, SessionsFrame, ListFrame DEF vars, IInv
<1>2. ASSUME NEW c \in Clients,
             \/ AskIncomplete(c) \/ AskPreset(c) \/ AskRefused(c) \/ AskWaits(c)
             \/ clientchallenge(c) \/ serverchallengeresp(c) \/ PairingFails(c)
             \/ PairingVerified(c)
      PROVE  IInv'
  <2>1. CASE PairingVerified(c)
    BY <1>0, <2>1, VerifiedStep DEF IInv
  <2>2. CASE AskIncomplete(c) \/ AskPreset(c) \/ AskRefused(c) \/ AskWaits(c)
    BY <1>0, <2>2, AskStep, ListFrame DEF IInv
  <2>3. CASE clientchallenge(c) \/ serverchallengeresp(c) \/ PairingFails(c)
    BY <1>0, <2>3, PhaseStep, ListFrame DEF IInv
  <2> QED  BY <1>2, <2>1, <2>2, <2>3
<1>3. CASE Pin
  BY <1>0, <1>3, PinStep, ListFrame DEF IInv
<1>4. CASE AddDevice
  BY <1>0, <1>4, AddDeviceStep, SessionsFrame DEF IInv
<1>5. CASE PairingFinishes
  BY <1>0, <1>5, FinishesStep DEF IInv
<1>6. ASSUME NEW i \in Ids, Timeout(i) PROVE IInv'
  BY <1>0, <1>6, TimeoutStep, ListFrame DEF IInv
<1>7. ASSUME NEW t \in Threads, Save(t) \/ Load(t) PROVE IInv'
  <2>1. ListInv' /\ UNCHANGED session
    BY <1>0, <1>7, SaveReadsStep, SaveCopiesStep, SaveOpensStep, SaveWritesStep,
       LoadReadsStep, LoadInstallsStep DEF Save, Load
  <2> QED  BY <1>0, <2>1, SessionsFrame DEF IInv
<1>8. ASSUME NEW w \in Web,
             (\E u \in 1..uuids : unpair_client(w, u)) \/ erase_all_clients(w) \/ rename_client(w)
      PROVE  IInv'
  BY <1>0, <1>8, WebStep, SessionsFrame DEF IInv
<1>9. CASE set_preset_pin \/ clear_preset_pin
  BY <1>0, <1>9, PresetStep, ListFrame DEF IInv
<1>10. CASE Restart
  BY <1>10, RestartStep
<1> QED  BY <1>1, <1>2, <1>3, <1>4, <1>5, <1>6, <1>7, <1>8, <1>9, <1>10 DEF Next

LEMMA Inductive == Spec => []IInv
<1> QED  BY Initially, Step, PTL DEF Spec

\* The sessions of pairing, the threads that change the list and the list are
\* of their types, and the request that waits has its session, for any clients,
\* ids, web threads and bounds.
THEOREM PairingTypes == Spec => []TypeOK
<1>1. IInv => TypeOK
  BY DEF IInv, ListInv, SessionsOK, ThreadsOK, TypeOK
<1> QED  BY <1>1, Inductive, PTL

\* The PIN that the user enters goes to the request he is asked for: it is the
\* only one that waits, and he is asked as long as it does.
THEOREM PairingPin == Spec => []PinHasItsRequest
<1>1. IInv => PinHasItsRequest
  BY DEF IInv, SessionsOK
<1> QED  BY <1>1, Inductive, PTL

\* As long as no two changes of the list overlap, whatever crashes come between,
\* memory, certificates and file agree after each change and no confirmed
\* removal is undone.
THEOREM PairingRegistry == Spec => []RegistryKept
<1>1. IInv => RegistryKept
  BY DEF IInv, ListInv, Registry, Kept, RegistryKept
<1> QED  BY <1>1, Inductive, PTL

\* The request that waits for the PIN has a timer, whichever requests of its id
\* came and went before, so that it ends when the user does nothing.
THEOREM PairingPendingIsTimed == Spec => []PendingIsTimed
<1>1. Init => PendingIsTimed
  BY PairingAssumption DEF Init, PendingIsTimed
<1>2. ASSUME IInv, PendingIsTimed, [Next]_vars PROVE PendingIsTimed'
  <2>0. /\ timers \in [Ids -> Nat] /\ Nobody \notin Ids
        /\ UniqueId \in [Clients -> Ids]
    BY <1>2, PairingAssumption DEF IInv, SessionsOK
  <2>1. ASSUME NEW i, RemoveSession(i) PROVE pending' \in {pending, Nobody}
    BY <2>1 DEF RemoveSession
  <2>2. ASSUME pending' \in {pending, Nobody}, timers' = timers PROVE PendingIsTimed'
    BY <1>2, <2>0, <2>2 DEF PendingIsTimed
  <2>3. ASSUME NEW c \in Clients, AskWaits(c) PROVE PendingIsTimed'
    <3>1. UniqueId[c] \in Ids /\ pending' = UniqueId[c]
          /\ timers' = [timers EXCEPT ![UniqueId[c]] = @ + 1]
      BY <2>0, <2>3 DEF AskWaits
    <3> QED  BY <2>0, <3>1 DEF PendingIsTimed
  <2>4. ASSUME NEW c \in Clients,
               \/ AskIncomplete(c) \/ AskPreset(c) \/ AskRefused(c)
               \/ clientchallenge(c) \/ serverchallengeresp(c) \/ PairingFails(c)
               \/ PairingVerified(c)
        PROVE  PendingIsTimed'
    BY <2>1, <2>2, <2>4 DEF AskIncomplete, AskPreset, AskRefused, clientchallenge,
       serverchallengeresp, Phase, PairingFails, PairingVerified, session
  <2>5. ASSUME NEW i \in Ids, Timeout(i) PROVE PendingIsTimed'
    <3>1. CASE pending = i
      <4>1. pending' = Nobody  BY <2>5, <3>1 DEF Timeout, RemoveSession
      <4> QED  BY <2>0, <4>1 DEF PendingIsTimed
    <3>2. CASE pending # i
      <4>1. pending' = pending /\ timers' = [timers EXCEPT ![i] = @ - 1]
        BY <2>5, <3>2 DEF Timeout
      <4> QED  BY <1>2, <2>0, <3>2, <4>1 DEF PendingIsTimed
    <3> QED  BY <3>1, <3>2
  <2>6. CASE Pin \/ PairingFinishes
    BY <2>1, <2>2, <2>6 DEF Pin, PairingFinishes
  <2>7. CASE AddDevice \/ set_preset_pin \/ clear_preset_pin \/ UNCHANGED vars
    BY <2>2, <2>7 DEF AddDevice, set_preset_pin, clear_preset_pin, vars, session
  <2>8. ASSUME NEW t \in Threads, Save(t) \/ Load(t) PROVE PendingIsTimed'
    BY <2>2, <2>8 DEF Save, Load, SaveReads, SaveCopies, SaveOpens, SaveWrites, SaveReturns,
       LoadReads, LoadInstalls, Goto, session
  <2>9. ASSUME NEW w \in Web,
               (\E u \in 1..uuids : unpair_client(w, u)) \/ erase_all_clients(w) \/ rename_client(w)
        PROVE  PendingIsTimed'
    BY <2>2, <2>9 DEF unpair_client, erase_all_clients, rename_client, Change, session
  <2>10. CASE Restart
    BY <2>0, <2>10 DEF Restart, PendingIsTimed
  <2> QED  BY <1>2, <2>3, <2>4, <2>5, <2>6, <2>7, <2>8, <2>9, <2>10 DEF Next
<1> QED  BY <1>1, <1>2, Inductive, PTL DEF Spec
=============================================================================
