------------------------------- MODULE Pairing -------------------------------
(****************************************************************************)
(* Pairing (nvhttp/pairing.cpp): the four phases of a client, the one       *)
(* request that waits for the user's PIN, and the list of paired clients,   *)
(* in memory (client_root, cert_chain) and in the state file.               *)
(*                                                                          *)
(* Every handler of /pair, the PIN and the timer hold map_id_sess_mutex to  *)
(* their end and are one step, but for the end of a pairing, which saves    *)
(* the list; "Pairer" is whoever holds the mutex then.  The threads of the  *)
(* web interface change and save the list at the same time: client_state_   *)
(* mutex guards its variables, and nothing guards the file.                 *)
(****************************************************************************)
EXTENDS Naturals, FiniteSets

CONSTANTS
  Clients, Ids,
  UniqueId,       \* the id each client sends; clients may send the same
  Web, Pairer,    \* the threads of the web interface; the holder of the mutex
  Nobody,         \* no id, session or client
  MaxRequests,    \* bound on requests to pair
  MaxChanges,     \* bound on changes by the web interface
  MaxRestarts     \* bound on restarts

VARIABLES
  sess,       \* map_id_sess
  pending,    \* pending_pin_unique_id
  required,   \* tray_state's pairing_pending
  timers,     \* for each id, the tasks that will time it out
  preset,     \* preset_pin_state has a PIN
  devices,    \* client_root.named_devices
  chain,      \* cert_chain: the clients whose certificate it accepts
  file,       \* the state file: its list, or Torn
  pc, after,  \* where each thread is in a change of the list; what its save returns to
  buf,        \* the list it has copied or read
  removes,    \* the entries it has taken out
  joining,    \* the client whose pairing ends
  requests, uuids, changes, restarts, \* counters: requests, entries, changes, restarts
  crossed,    \* history: two changes of the list have overlapped
  gone        \* history: the entries whose removal has been confirmed

session == <<sess, pending, required, timers, preset, requests>>
list == <<devices, chain, file>>
threads == <<pc, after, buf, removes, joining, uuids>>
history == <<changes, restarts, crossed, gone>>
vars == <<session, list, threads, history>>

Threads == Web \cup {Pairer}

\* An entry of the list: client_t::named_devices.
Device == [client : Clients, uuid : Nat]

\* The list of a file that does not parse, one that is being written for one.
Torn == {Nobody}

Phases == {"NONE", "GETSERVERCERT", "CLIENTCHALLENGE", "SERVERCHALLENGERESP"}

\* pair_session_t: whose certificate, the last phase, whether a response waits
\* for the PIN, whether the salt is there, whether both sides agree so far.
Session == [client : Clients, phase : Phases, waiting : BOOLEAN, salt : BOOLEAN, agreed : BOOLEAN]

ASSUME PairingAssumption ==
  /\ UniqueId \in [Clients -> Ids] /\ Pairer \notin Web
  /\ Nobody \notin Clients \cup Ids \cup Session \cup Device
  /\ MaxRequests \in Nat /\ MaxChanges \in Nat /\ MaxRestarts \in Nat

\* The session that getservercert puts in the place of any of the same id.
Fresh(c) == [client |-> c, phase |-> "NONE", waiting |-> FALSE, salt |-> TRUE, agreed |-> FALSE]

-----------------------------------------------------------------------------
(* The phases of pairing, under map_id_sess_mutex.                          *)

MapFree == pc[Pairer] = "idle"

\* Mutation of RemoveSession: the pending request is not forgotten.
MutRemoveSession(i) ==
  /\ sess' = [sess EXCEPT ![i] = Nobody]
  /\ UNCHANGED <<pending, required>>

RemoveSession(i) ==
  /\ sess' = [sess EXCEPT ![i] = Nobody]
  /\ IF pending = i THEN pending' = Nobody /\ required' = FALSE ELSE UNCHANGED <<pending, required>>

\* getservercert of a client that no rate limit refuses.
Asks(c) ==
  /\ MapFree /\ requests < MaxRequests /\ requests' = requests + 1
  /\ UNCHANGED <<list, threads, history>>

\* Its request has no salt: the handler throws, the session stays.
AskIncomplete(c) ==
  /\ Asks(c)
  /\ sess' = [sess EXCEPT ![UniqueId[c]] = [Fresh(c) EXCEPT !.salt = FALSE]]
  /\ UNCHANGED <<pending, required, timers, preset>>

\* The PIN was set beforehand, and the client's is the same or not; with a salt
\* that is too short the pairing fails.
AskPreset(c) ==
  /\ Asks(c) /\ preset /\ preset' = FALSE
  /\ \/ /\ \E same \in BOOLEAN :
             sess' = [sess EXCEPT ![UniqueId[c]] =
                        [Fresh(c) EXCEPT !.phase = "GETSERVERCERT", !.agreed = same]]
        /\ UNCHANGED <<pending, required>>
     \/ RemoveSession(UniqueId[c])
  /\ UNCHANGED timers

\* Another request waits for its PIN, or one of the same id did.
Occupied(i) == pending # Nobody /\ (pending = i \/ sess[pending] # Nobody)

AskRefused(c) ==
  /\ Asks(c) /\ Occupied(UniqueId[c])
  /\ RemoveSession(UniqueId[c])
  /\ UNCHANGED <<timers, preset>>

\* Mutation of AskWaits: nobody looks whether another request waits.
MutAskWaits(c) ==
  /\ Asks(c)
  /\ \E ok \in BOOLEAN :
       sess' = [sess EXCEPT ![UniqueId[c]] = [Fresh(c) EXCEPT !.waiting = TRUE, !.salt = ok]]
  /\ pending' = UniqueId[c] /\ required' = TRUE
  /\ timers' = [timers EXCEPT ![UniqueId[c]] = @ + 1]
  /\ UNCHANGED preset

\* Mutation of AskWaits: no timer is set.
MutAskTimer(c) ==
  /\ Asks(c) /\ ~Occupied(UniqueId[c])
  /\ \E ok \in BOOLEAN :
       sess' = [sess EXCEPT ![UniqueId[c]] = [Fresh(c) EXCEPT !.waiting = TRUE, !.salt = ok]]
  /\ pending' = UniqueId[c] /\ required' = TRUE
  /\ UNCHANGED <<timers, preset>>

\* The user is asked for the PIN, and a timer set that knows the id only.
AskWaits(c) ==
  /\ Asks(c) /\ ~Occupied(UniqueId[c])
  /\ \E ok \in BOOLEAN :
       sess' = [sess EXCEPT ![UniqueId[c]] = [Fresh(c) EXCEPT !.waiting = TRUE, !.salt = ok]]
  /\ pending' = UniqueId[c] /\ required' = TRUE
  /\ timers' = [timers EXCEPT ![UniqueId[c]] = @ + 1]
  /\ UNCHANGED preset

\* The user enters the PIN, that of the client or not.
Pin ==
  /\ MapFree /\ pending # Nobody /\ sess[pending] # Nobody
  /\ LET s == sess[pending] IN
     IF s.phase # "NONE" \/ ~s.salt
     THEN RemoveSession(pending)
     ELSE /\ \E same \in BOOLEAN :
               sess' = [sess EXCEPT ![pending] =
                 [@ EXCEPT !.phase = "GETSERVERCERT", !.waiting = FALSE, !.agreed = same]]
          /\ IF s.waiting THEN pending' = Nobody /\ required' = FALSE
             ELSE UNCHANGED <<pending, required>>
  /\ UNCHANGED <<timers, preset, requests, list, threads, history>>

\* Five minutes after a request of the id.
Timeout(i) ==
  /\ MapFree /\ timers[i] > 0
  /\ timers' = [timers EXCEPT ![i] = @ - 1]
  /\ IF pending = i THEN RemoveSession(i) ELSE UNCHANGED <<sess, pending, required>>
  /\ UNCHANGED <<preset, requests, list, threads, history>>

\* A request of phase "to" that must follow "from".
Phase(c, from, to) ==
  LET i == UniqueId[c] IN
  /\ MapFree /\ sess[i] # Nobody
  /\ IF sess[i].phase = from
     THEN /\ sess' = [sess EXCEPT ![i] =
               [@ EXCEPT !.phase = to, !.agreed = sess[i].agreed /\ sess[i].client = c]]
          /\ UNCHANGED <<pending, required>>
     ELSE RemoveSession(i)
  /\ UNCHANGED <<timers, preset, requests, list, threads, history>>

clientchallenge(c) == Phase(c, "GETSERVERCERT", "CLIENTCHALLENGE")
serverchallengeresp(c) == Phase(c, "CLIENTCHALLENGE", "SERVERCHALLENGERESP")

\* The last phase out of order, or with a secret that does not verify.
PairingFails(c) ==
  /\ MapFree /\ sess[UniqueId[c]] # Nobody
  /\ RemoveSession(UniqueId[c])
  /\ UNCHANGED <<timers, preset, requests, list, threads, history>>

\* Its hash and signature verify: the certificate is accepted.
PairingVerified(c) ==
  LET s == sess[UniqueId[c]] IN
  /\ MapFree /\ s # Nobody
  /\ s.phase = "SERVERCHALLENGERESP" /\ s.agreed /\ s.client = c
  /\ chain' = chain \cup {c}
  /\ joining' = c /\ pc' = [pc EXCEPT ![Pairer] = "add"]
  /\ crossed' = (crossed \/ \E w \in Web : pc[w] # "idle")
  /\ UNCHANGED <<session, devices, file, after, buf, removes, uuids, changes, restarts, gone>>

\* add_authorized_client; the list is then saved.
AddDevice ==
  /\ pc[Pairer] = "add"
  /\ devices' = devices \cup {[client |-> joining, uuid |-> uuids + 1]} /\ uuids' = uuids + 1
  /\ pc' = [pc EXCEPT ![Pairer] = "read"] /\ after' = [after EXCEPT ![Pairer] = "finish"]
  /\ UNCHANGED <<session, chain, file, buf, removes, joining, history>>

\* The session goes, and the mutex with it.
PairingFinishes ==
  /\ pc[Pairer] = "finish"
  /\ RemoveSession(UniqueId[joining])
  /\ joining' = Nobody /\ pc' = [pc EXCEPT ![Pairer] = "idle"]
  /\ UNCHANGED <<timers, preset, requests, list, after, buf, removes, uuids, history>>

-----------------------------------------------------------------------------
(* save_state and load_state, by any thread.                                *)

Certs(D) == {d.client : d \in D}

\* t goes on at l; at "idle" its caller has its answer.
Goto(t, l) ==
  /\ pc' = [pc EXCEPT ![t] = l]
  /\ IF l = "idle"
     THEN gone' = gone \cup removes[t] /\ removes' = [removes EXCEPT ![t] = {}]
     ELSE UNCHANGED <<gone, removes>>
  /\ UNCHANGED <<session, joining, uuids, changes, restarts, crossed>>

SaveReturns(t) == Goto(t, after[t]) /\ after' = [after EXCEPT ![t] = "idle"]

\* The file is read, to keep what is not the list; one that does not parse ends
\* the save.
SaveReads(t) ==
  /\ pc[t] = "read"
  /\ IF file = Torn THEN SaveReturns(t) ELSE Goto(t, "copy") /\ UNCHANGED after
  /\ UNCHANGED <<list, buf>>

SaveCopies(t) ==
  /\ pc[t] = "copy"
  /\ buf' = [buf EXCEPT ![t] = devices]
  /\ Goto(t, "open")
  /\ UNCHANGED <<list, after>>

\* Opening the file to write empties it.
SaveOpens(t) ==
  /\ pc[t] = "open"
  /\ file' = Torn
  /\ Goto(t, "write")
  /\ UNCHANGED <<devices, chain, after, buf>>

\* What another thread has written meanwhile may stick out behind.
SaveWrites(t) ==
  /\ pc[t] = "write"
  /\ file' \in IF file = Torn THEN {buf[t]} ELSE {buf[t], Torn}
  /\ buf' = [buf EXCEPT ![t] = {}]
  /\ SaveReturns(t)
  /\ UNCHANGED <<devices, chain>>

LoadReads(t) ==
  /\ pc[t] = "load"
  /\ buf' = [buf EXCEPT ![t] = file]
  /\ Goto(t, "install")
  /\ UNCHANGED <<list, after>>

\* A file that does not parse counts as an empty list, which is saved.
LoadInstalls(t) ==
  /\ pc[t] = "install"
  /\ IF buf[t] = Torn
     THEN devices' = {} /\ chain' = {} /\ Goto(t, "copy")
     ELSE devices' = buf[t] /\ chain' = Certs(buf[t]) /\ Goto(t, "idle")
  /\ buf' = [buf EXCEPT ![t] = {}]
  /\ UNCHANGED <<file, after>>

Save(t) == SaveReads(t) \/ SaveCopies(t) \/ SaveOpens(t) \/ SaveWrites(t)
Load(t) == LoadReads(t) \/ LoadInstalls(t)

-----------------------------------------------------------------------------
(* The web interface.                                                       *)

\* A change by w takes the entries R out, saves, and goes on at l.
Change(w, R, l) ==
  /\ pc[w] = "idle" /\ changes < MaxChanges /\ changes' = changes + 1
  /\ devices' = {d \in devices : d.uuid \notin R}
  /\ removes' = [removes EXCEPT ![w] = R]
  /\ pc' = [pc EXCEPT ![w] = "read"] /\ after' = [after EXCEPT ![w] = l]
  /\ crossed' = (crossed \/ \E t \in Threads : pc[t] # "idle")
  /\ UNCHANGED <<session, file, buf, joining, uuids, restarts, gone>>

\* Mutation of unpair_client: the certificates are not read again.
MutUnpair(w, u) ==
  Change(w, {u}, "idle") /\ UNCHANGED chain

\* One entry goes, and the list is read back for its certificates.
unpair_client(w, u) ==
  Change(w, {u}, "load") /\ UNCHANGED chain

erase_all_clients(w) ==
  Change(w, {d.uuid : d \in devices}, "idle") /\ chain' = {}

\* A new name: of the list only the file changes.
rename_client(w) ==
  devices # {} /\ Change(w, {}, "idle") /\ UNCHANGED chain

\* A PIN for the next client of the local network.
set_preset_pin ==
  /\ ~preset /\ preset' = TRUE
  /\ UNCHANGED <<sess, pending, required, timers, requests, list, threads, history>>

\* It is withdrawn, or expires.
clear_preset_pin ==
  /\ preset /\ preset' = FALSE
  /\ UNCHANGED <<sess, pending, required, timers, requests, list, threads, history>>

-----------------------------------------------------------------------------
NoSessions == [i \in Ids |-> Nobody]
NoTimers == [i \in Ids |-> 0]
AllIdle == [t \in Threads |-> "idle"]
NoLists == [t \in Threads |-> {}]

Init ==
  /\ sess = NoSessions /\ pending = Nobody /\ required = FALSE
  /\ timers = NoTimers /\ preset = FALSE
  /\ devices = {} /\ chain = {} /\ file = {}
  /\ pc = AllIdle /\ after = AllIdle /\ buf = NoLists /\ removes = NoLists /\ joining = Nobody
  /\ requests = 0 /\ uuids = 0 /\ changes = 0 /\ restarts = 0
  /\ crossed = FALSE /\ gone = {}

\* The host crashes or is restarted, and loads the list.
Restart ==
  /\ restarts < MaxRestarts /\ restarts' = restarts + 1
  /\ sess' = NoSessions /\ pending' = Nobody /\ required' = FALSE
  /\ timers' = NoTimers /\ preset' = FALSE
  /\ pc' = AllIdle /\ after' = AllIdle /\ buf' = NoLists /\ removes' = NoLists /\ joining' = Nobody
  /\ file' = IF file = Torn THEN {} ELSE file
  /\ devices' = file' /\ chain' = Certs(file')
  /\ UNCHANGED <<requests, uuids, changes, crossed, gone>>

Next ==
  \/ \E c \in Clients :
       \/ AskIncomplete(c) \/ AskPreset(c) \/ AskRefused(c) \/ AskWaits(c)
       \/ clientchallenge(c) \/ serverchallengeresp(c) \/ PairingFails(c) \/ PairingVerified(c)
  \/ Pin \/ AddDevice \/ PairingFinishes
  \/ \E i \in Ids : Timeout(i)
  \/ \E t \in Threads : Save(t) \/ Load(t)
  \/ \E w \in Web :
       \/ \E u \in 1..uuids : unpair_client(w, u)
       \/ erase_all_clients(w) \/ rename_client(w)
  \/ set_preset_pin \/ clear_preset_pin \/ Restart

Spec == Init /\ [][Next]_vars

\* The pool's worker runs a timer that is due and gets the mutex; whoever is
\* at a change of the list goes on.
FairSpec ==
  /\ Spec
  /\ \A i \in Ids : SF_vars(Timeout(i))
  /\ WF_vars(AddDevice \/ PairingFinishes \/ Save(Pairer))

-----------------------------------------------------------------------------
(* Properties.                                                              *)

Places == {"idle", "add", "read", "copy", "open", "write", "load", "install", "finish"}
Lists == (SUBSET Device) \cup {Torn}

\* The state is of its type, and the request that waits for the PIN has its
\* session.
TypeOK ==
  /\ sess \in [Ids -> Session \cup {Nobody}]
  /\ pending \in {i \in Ids : sess[i] # Nobody} \cup {Nobody} /\ required \in BOOLEAN
  /\ timers \in [Ids -> Nat] /\ preset \in BOOLEAN
  /\ devices \subseteq Device /\ chain \subseteq Clients /\ file \in Lists
  /\ pc \in [Threads -> Places] /\ after \in [Threads -> {"idle", "load", "finish"}]
  /\ buf \in [Threads -> Lists] /\ removes \in [Threads -> SUBSET Nat]
  /\ joining \in Clients \cup {Nobody}
  /\ requests \in 0..MaxRequests /\ uuids \in Nat
  /\ changes \in 0..MaxChanges /\ restarts \in 0..MaxRestarts
  /\ crossed \in BOOLEAN /\ gone \subseteq Nat

\* The PIN that the user enters goes to the request that he is asked for: only
\* that one waits, and he is asked while there is one, whoever else asks.
PinHasItsRequest ==
  /\ required <=> pending # Nobody
  /\ \A i \in Ids : sess[i] # Nobody /\ sess[i].waiting => i = pending

\* Unless two changes of the list overlap, what is in memory is what is in the
\* file and what the certificates say when no change is under way, and an entry
\* whose removal was confirmed never returns, restarts included.
RegistryKept ==
  ~crossed =>
    /\ (\A t \in Threads : pc[t] = "idle") => file = devices /\ chain = Certs(devices)
    /\ \A D \in {devices, file} \ {Torn} : \A d \in D : d.uuid \notin gone

\* The request that waits has a timer of its own or of an earlier request of the
\* same id: however requests, refusals and removals follow each other, it cannot
\* be left without one.
PendingIsTimed == \A i \in Ids : pending = i => timers[i] > 0

\* A request does not keep others from pairing for ever: it ends, by its PIN, a
\* refusal or its timer.
PendingEnds == \A i \in Ids : pending = i ~> pending # i
=============================================================================
