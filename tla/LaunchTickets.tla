---------------------------- MODULE LaunchTickets ----------------------------
(****************************************************************************)
(* The launch tickets of the host and the RTSP connections that claim them. *)
(*                                                                          *)
(* An NVHTTP /launch or /resume registers a ticket for its launch session   *)
(* (src/src/launch_session_manager.cpp).  The client then opens one TCP     *)
(* connection per RTSP request; each connection (socket_t, src/src/rtsp.cpp)*)
(* claims the ticket when its first message arrives and gives the claim     *)
(* back in its destructor.  The operations of the registry are atomic (they *)
(* hold its mutex); the handlers of the connections run one at a time on    *)
(* the io_context thread; launches, prunes, the control thread's erase and  *)
(* the passing of time interleave with them freely.                         *)
(*                                                                          *)
(* Time is kept as the number of ticks that remain: an expiry at now + d is *)
(* ttl = d, and now >= expires_at is ttl = 0.                               *)
(****************************************************************************)
EXTENDS Naturals, FiniteSets

CONSTANTS
  Conns,            \* slots for RTSP connections (socket_t objects)
  Peers, NoAddr,    \* remote addresses; NoAddr, if one of them, is the unresolved one
  Keys, NoKey,      \* RTSP keys; NoKey: the launch or connection is plaintext
  Certs, NoCert,    \* client certificate UUIDs; NoCert is the empty string
  Uids, NoUid,      \* legacy unique ids; NoUid is the empty or "unknown" one
  Requests,         \* the launch requests that clients may make
  GlobalLimit, PerClientLimit,
  PingTimeout,      \* config::stream.ping_timeout, in ticks
  MaxLaunches       \* bound on the launches that get a ticket

Request == [cert : Certs \cup {NoCert}, uid : Uids \cup {NoUid},
            peer : Peers, key : Keys \cup {NoKey}]

ASSUME ConstantsAssumption ==
  /\ IsFiniteSet(Conns)
  /\ NoKey \notin Keys
  /\ NoCert \notin Certs /\ NoUid \notin Uids
  /\ Requests \subseteq Request
  /\ GlobalLimit \in Nat \ {0} /\ PerClientLimit \in Nat \ {0}
  /\ PingTimeout \in Nat \ {0}
  /\ MaxLaunches \in Nat

Ids == 1..MaxLaunches
NoId == 0

VARIABLES
  lastId,   \* session_id_counter: ids 1..lastId have been given out
  session,  \* the request of each launch session
  started,  \* launch_session_t::stream_session_started
  streams,  \* media sessions created by ANNOUNCE for each launch
  tickets,  \* the registry: a function from the ids it holds
  conn      \* the connections

vars == <<lastId, session, started, streams, tickets, conn>>

-----------------------------------------------------------------------------
(* The registry. *)

Ticket == [state : {"pending", "claimed"}, claims : Nat, ttl : 0..PingTimeout]

\* Mutation of Fresh: a new ticket outlives the ping timeout.
MutFresh == [state |-> "pending", claims |-> 0, ttl |-> PingTimeout + 1]

Fresh == [state |-> "pending", claims |-> 0, ttl |-> PingTimeout]

Expired(t) == t.state = "pending" /\ t.ttl = 0

Without(T, S) == [i \in DOMAIN T \ S |-> T[i]]

\* What every operation that reads the clock does first.
prune_locked(T) == Without(T, {i \in DOMAIN T : Expired(T[i])})

same_authenticated_client(a, b) == b.cert # NoCert /\ a.cert = b.cert

same_legacy_client(a, b) ==
  /\ a.cert = NoCert /\ b.cert = NoCert
  /\ b.uid # NoUid /\ a.uid = b.uid
  /\ a.peer = b.peer

same_client(a, b) == same_authenticated_client(a, b) \/ same_legacy_client(a, b)

\* The tickets of unauthenticated launches from address p.
peer_tickets(T, p) == {i \in DOMAIN T : session[i].cert = NoCert /\ session[i].peer = p}

\* Mutation of at_limit: an address gets one ticket more than its limit.
MutAtLimit(T, r) ==
  \/ r.cert = NoCert /\ r.peer # NoAddr /\ Cardinality(peer_tickets(T, r.peer)) > PerClientLimit
  \/ Cardinality(DOMAIN T) >= GlobalLimit

at_limit(T, r) ==
  \/ r.cert = NoCert /\ r.peer # NoAddr /\ Cardinality(peer_tickets(T, r.peer)) >= PerClientLimit
  \/ Cardinality(DOMAIN T) >= GlobalLimit

\* The candidates of a claim; the claim succeeds when there is exactly one.
plaintext_matches(T, p) ==
  {i \in DOMAIN T : p # NoAddr /\ session[i].key = NoKey /\ session[i].peer = p}

encrypted_matches(T, k) == {i \in DOMAIN T : session[i].key = k}

Claimed(n, t) == [state |-> "claimed", claims |-> n, ttl |-> t.ttl]

claim(T, i) == [T EXCEPT ![i] = Claimed(T[i].claims + 1, T[i])]

\* Mutations of release: the first of several holders frees the ticket; and a
\* ticket that is gone is put back.
MutReleaseFirst(T, i) ==
  IF i \notin DOMAIN T \/ T[i].state # "claimed" THEN T ELSE [T EXCEPT ![i] = Fresh]
MutReleaseRevives(T, i) ==
  [j \in DOMAIN T \cup {i} |->
     IF j # i THEN T[j]
     ELSE IF i \notin DOMAIN T \/ T[i].claims <= 1 THEN Fresh
     ELSE Claimed(T[i].claims - 1, T[i])]

release(T, i) ==
  IF i \notin DOMAIN T \/ T[i].state # "claimed" THEN T
  ELSE IF T[i].claims = 1 THEN [T EXCEPT ![i] = Fresh]
  ELSE [T EXCEPT ![i] = Claimed(T[i].claims - 1, T[i])]

-----------------------------------------------------------------------------
(* A connection: the asynchronous read it waits for, its handshake timer    *)
(* and the claimed session.  A handler that is still queued keeps the       *)
(* object alive, so the destructor runs with the last of them.              *)

Connection ==
  [stage : {"initial", "encrypted", "plain"},
   peer : Peers,
   key : Keys \cup {NoKey},                         \* what the client encrypts with
   open : BOOLEAN,                                  \* the socket accepts a new read
   read : {"none", "pending", "ready", "failed"},   \* the outstanding read
   timer : {"armed", "cancelled", "none"},          \* the outstanding wait
   ttl : 0..PingTimeout,
   sess : Ids \cup {NoId}]

Idle == [stage |-> "idle"]

Alive(c) == conn[c] # Idle

Holders(i) == {c \in Conns : Alive(c) /\ conn[c].sess = i}

\* Queue the next read: on a closed socket it completes with an error.
Reread(k) == [k EXCEPT !.read = IF k.open THEN "pending" ELSE "failed"]

\* Close the socket and return without queueing another read.
Closed(k) == [k EXCEPT !.read = "none", !.open = FALSE]

\* handle_data: cancel the handshake timer, run the command, shut down.
Handled(k) ==
  [Closed(k) EXCEPT !.timer = IF k.timer = "armed" THEN "cancelled" ELSE k.timer]

Unreferenced(k) == k.read = "none" /\ k.timer = "none"

\* A handler leaves connection c as k and the registry as T; when it was the
\* last handler of c, ~socket_t runs as well.
Settle(c, k, T) ==
  /\ conn' = [conn EXCEPT ![c] = IF Unreferenced(k) THEN Idle ELSE k]
  /\ tickets' = IF Unreferenced(k) /\ k.sess # NoId THEN release(T, k.sess) ELSE T

-----------------------------------------------------------------------------
Init ==
  /\ lastId = 0
  /\ session = [i \in {} |-> 0]
  /\ started = [i \in Ids |-> FALSE]
  /\ streams = [i \in Ids |-> 0]
  /\ tickets = [i \in {} |-> 0]
  /\ conn = [c \in Conns |-> Idle]

(* register_session, called by the NVHTTP threads.                          *)

\* A session that gets its ticket takes the next id.
NewSession(r) ==
  /\ lastId < MaxLaunches
  /\ lastId' = lastId + 1
  /\ session' = [i \in 1..(lastId + 1) |-> IF i = lastId + 1 THEN r ELSE session[i]]
  /\ UNCHANGED <<started, streams, conn>>

\* client_busy, client_limit or global_limit: the session is dropped (its id,
\* which nothing else has seen, goes to the next one), expired tickets are gone.
RegisterRefused(r) ==
  LET T == prune_locked(tickets)
      mates == {i \in DOMAIN T : same_client(session[i], r)} IN
  /\ IF mates # {} THEN \E i \in mates : T[i].state = "claimed" ELSE at_limit(T, r)
  /\ tickets' = T
  /\ UNCHANGED <<lastId, session, started, streams, conn>>

\* Mutation of RegisterReplaces: a claimed ticket can be replaced.
MutRegisterReplaces(r) ==
  LET T == prune_locked(tickets) IN
  \E i \in DOMAIN T :
    /\ same_client(session[i], r)
    /\ NewSession(r)
    /\ tickets' = [j \in (DOMAIN T \ {i}) \cup {lastId + 1} |->
                     IF j = lastId + 1 THEN Fresh ELSE T[j]]

\* replaced: the client's pending ticket is overwritten in place.
RegisterReplaces(r) ==
  LET T == prune_locked(tickets) IN
  \E i \in DOMAIN T :
    /\ same_client(session[i], r)
    /\ T[i].state # "claimed"
    /\ NewSession(r)
    /\ tickets' = [j \in (DOMAIN T \ {i}) \cup {lastId + 1} |->
                     IF j = lastId + 1 THEN Fresh ELSE T[j]]

\* accepted.
RegisterAccepts(r) ==
  LET T == prune_locked(tickets) IN
  /\ \A i \in DOMAIN T : ~same_client(session[i], r)
  /\ ~at_limit(T, r)
  /\ NewSession(r)
  /\ tickets' = [j \in DOMAIN T \cup {lastId + 1} |->
                   IF j = lastId + 1 THEN Fresh ELSE T[j]]

(* The other users of the registry.                                         *)

\* prune, size and clear(false): the raised timer, the server loop and every
\* reader of the pending count, on any thread.
Prune ==
  /\ tickets' = prune_locked(tickets)
  /\ UNCHANGED <<lastId, session, started, streams, conn>>

\* session_clear: the control stream of launch i has connected.
ControlConnected(i) ==
  /\ streams[i] > 0
  /\ tickets' = Without(tickets, {i})
  /\ UNCHANGED <<lastId, session, started, streams, conn>>

\* clear(true): cancel, broadcast shutdown, or an accept error.
ClearAll ==
  /\ tickets' = Without(tickets, DOMAIN tickets)
  /\ UNCHANGED <<lastId, session, started, streams, conn>>

(* The connections.                                                         *)

\* Mutation of Accept: the handshake timer is never armed.
MutAccept(c) ==
  /\ ~Alive(c)
  /\ \E p \in Peers, key \in Keys \cup {NoKey} :
       conn' = [conn EXCEPT ![c] =
         [stage |-> "initial", peer |-> p, key |-> key, open |-> TRUE,
          read |-> "pending", timer |-> "none", ttl |-> PingTimeout, sess |-> NoId]]
  /\ UNCHANGED <<lastId, session, started, streams, tickets>>

Accept(c) ==
  /\ ~Alive(c)
  /\ \E p \in Peers, key \in Keys \cup {NoKey} :
       conn' = [conn EXCEPT ![c] =
         [stage |-> "initial", peer |-> p, key |-> key, open |-> TRUE,
          read |-> "pending", timer |-> "armed", ttl |-> PingTimeout, sess |-> NoId]]
  /\ UNCHANGED <<lastId, session, started, streams, tickets>>

\* The peer's bytes complete the outstanding read, or its disconnect fails it.
ReadCompletes(c) ==
  /\ Alive(c) /\ conn[c].read = "pending"
  /\ \E res \in {"ready", "failed"} : conn' = [conn EXCEPT ![c].read = res]
  /\ UNCHANGED <<lastId, session, started, streams, tickets>>

\* Every read handler closes the socket when its read failed.
HandleFailedRead(c) ==
  /\ Alive(c) /\ conn[c].read = "failed"
  /\ Settle(c, Closed(conn[c]), tickets)
  /\ UNCHANGED <<lastId, session, started, streams>>

\* handle_initial_read: the first four bytes tell encrypted from plaintext.
HandleInitialEncrypted(c) ==
  /\ Alive(c) /\ conn[c].stage = "initial" /\ conn[c].read = "ready"
  /\ conn[c].key # NoKey
  /\ Settle(c, Reread([conn[c] EXCEPT !.stage = "encrypted"]), tickets)
  /\ UNCHANGED <<lastId, session, started, streams>>

\* Mutation of HandleInitialPlaintext: any of several candidates will do.
MutHandleInitialPlaintext(c) ==
  LET k == conn[c]
      T == prune_locked(tickets)
      matches == plaintext_matches(T, k.peer) IN
  /\ Alive(c) /\ k.stage = "initial" /\ k.read = "ready"
  /\ k.key = NoKey
  /\ \/ matches = {} /\ Settle(c, Closed(k), T)
     \/ \E i \in matches :
          Settle(c, Reread([k EXCEPT !.stage = "plain", !.sess = i]), claim(T, i))
  /\ UNCHANGED <<lastId, session, started, streams>>

HandleInitialPlaintext(c) ==
  LET k == conn[c]
      T == prune_locked(tickets)
      matches == plaintext_matches(T, k.peer) IN
  /\ Alive(c) /\ k.stage = "initial" /\ k.read = "ready"
  /\ k.key = NoKey
  /\ \/ /\ \A i \in matches : matches # {i}
        /\ Settle(c, Closed(k), T)
     \/ \E i \in matches :
          /\ matches = {i}
          /\ Settle(c, Reread([k EXCEPT !.stage = "plain", !.sess = i]), claim(T, i))
  /\ UNCHANGED <<lastId, session, started, streams>>

\* The command of a complete request for launch i.  ANNOUNCE creates the media
\* session of a launch that has none; it may fail validation or start(), and a
\* repetition is only answered.  The other commands change nothing modelled here.
Command(i) ==
  \/ /\ ~started[i]
     /\ started' = [started EXCEPT ![i] = TRUE]
     /\ streams' = [streams EXCEPT ![i] = @ + 1]
  \/ UNCHANGED <<started, streams>>

\* handle_read_encrypted_header and handle_read_encrypted_message.
HandleEncrypted(c) ==
  LET k == conn[c]
      T == prune_locked(tickets)
      matches == encrypted_matches(T, k.key) IN
  /\ Alive(c) /\ k.stage = "encrypted" /\ k.read = "ready"
  /\ UNCHANGED <<lastId, session>>
  /\ \/ /\ Settle(c, Reread(k), tickets)       \* the header: now the payload
        /\ UNCHANGED <<started, streams>>
     \/ /\ Settle(c, Closed(k), tickets)       \* a bad header
        /\ UNCHANGED <<started, streams>>
     \/ /\ \A i \in matches : matches # {i}    \* no unambiguous ticket
        /\ Settle(c, Closed(k), T)
        /\ UNCHANGED <<started, streams>>
     \/ \E i \in matches :
          /\ matches = {i}
          /\ \/ /\ Settle(c, Closed([k EXCEPT !.sess = i]), claim(T, i))  \* malformed
                /\ UNCHANGED <<started, streams>>
             \/ /\ Settle(c, Handled([k EXCEPT !.sess = i]), claim(T, i))
                /\ Command(i)

\* handle_read_plaintext and handle_plaintext_payload.
HandlePlain(c) ==
  LET k == conn[c] IN
  /\ Alive(c) /\ k.stage = "plain" /\ k.read = "ready"
  /\ UNCHANGED <<lastId, session>>
  /\ \/ /\ Settle(c, Reread(k), tickets)       \* incomplete: read on
        /\ UNCHANGED <<started, streams>>
     \/ /\ Settle(c, Closed(k), tickets)       \* malformed or too long
        /\ UNCHANGED <<started, streams>>
     \/ /\ Settle(c, Handled(k), tickets)
        /\ Command(k.sess)

\* The wait of the handshake timer completes: at its expiry it closes the
\* socket, which fails a read that has not completed; after a cancel it does
\* nothing but drop its reference.
HandshakeTimer(c) ==
  LET k == conn[c] IN
  /\ Alive(c)
  /\ \/ /\ k.timer = "armed" /\ k.ttl = 0
        /\ Settle(c, [k EXCEPT !.timer = "none", !.open = FALSE,
                               !.read = IF @ = "pending" THEN "failed" ELSE @], tickets)
     \/ /\ k.timer = "cancelled"
        /\ Settle(c, [k EXCEPT !.timer = "none"], tickets)
  /\ UNCHANGED <<lastId, session, started, streams>>

\* One tick passes.
Less(t) == IF t.ttl > 0 THEN [t EXCEPT !.ttl = @ - 1] ELSE t

Tick ==
  /\ tickets' = [i \in DOMAIN tickets |->
                   IF tickets[i].state = "pending" THEN Less(tickets[i]) ELSE tickets[i]]
  /\ conn' = [c \in Conns |->
                IF Alive(c) /\ conn[c].timer = "armed" THEN Less(conn[c]) ELSE conn[c]]
  /\ UNCHANGED <<lastId, session, started, streams>>

ReadHandler(c) ==
  \/ HandleFailedRead(c)
  \/ HandleInitialEncrypted(c)
  \/ HandleInitialPlaintext(c)
  \/ HandleEncrypted(c)
  \/ HandlePlain(c)

Next ==
  \/ \E r \in Requests : RegisterRefused(r) \/ RegisterReplaces(r) \/ RegisterAccepts(r)
  \/ Prune
  \/ \E i \in 1..lastId : ControlConnected(i)
  \/ ClearAll
  \/ \E c \in Conns : Accept(c) \/ ReadCompletes(c) \/ ReadHandler(c) \/ HandshakeTimer(c)
  \/ Tick

Spec == Init /\ [][Next]_vars

\* The io_context runs every handler that stays queued, the reads' and the
\* timers', and the clock goes on; clients owe the host nothing.
Fairness ==
  /\ WF_vars(Tick)
  /\ \A c \in Conns : WF_vars(ReadHandler(c)) /\ WF_vars(HandshakeTimer(c))

FairSpec == Spec /\ Fairness
-----------------------------------------------------------------------------
(* Properties. *)

TypeOK ==
  /\ lastId \in 0..MaxLaunches
  /\ session \in [1..lastId -> Requests]
  /\ started \in [Ids -> BOOLEAN]
  /\ streams \in [Ids -> Nat]
  /\ DOMAIN tickets \subseteq 1..lastId
  /\ tickets \in [DOMAIN tickets -> Ticket]
  /\ conn \in [Conns -> Connection \cup {Idle}]

\* The claim count of a ticket is the number of socket_t objects that hold its
\* session, and the ticket is "claimed" exactly while there is one: no path
\* through the read handlers, the handshake timer and the destructor leaks a
\* claim or gives one back twice (~socket_t, claim_*, release).
ClaimsMatchHolders ==
  \A i \in DOMAIN tickets :
    /\ tickets[i].claims = Cardinality(Holders(i))
    /\ tickets[i].state = "claimed" <=> tickets[i].claims > 0

\* No client has two tickets, whatever mixture of replacements, expiries and
\* claims led here (register_session), so an identity never becomes ambiguous
\* because its own client retried.
OneTicketPerClient ==
  \A i, j \in DOMAIN tickets : same_client(session[i], session[j]) => i = j

\* The registry stays within its bounds, and so do the unauthenticated tickets
\* of one resolved address, although a replacement does not test them and expired
\* tickets leave only when somebody prunes (register_session).
WithinLimits ==
  /\ Cardinality(DOMAIN tickets) <= GlobalLimit
  /\ \A p \in Peers \ {NoAddr} : Cardinality(peer_tickets(tickets, p)) <= PerClientLimit

\* Session i may be connection c's own: it has the key the client encrypts with,
\* or both are plaintext and come from one resolved address.
Own(c, i) ==
  /\ session[i].key = conn[c].key
  /\ conn[c].key = NoKey => conn[c].peer # NoAddr /\ session[i].peer = conn[c].peer

\* A connection only ever holds a session of its own key or address; a plaintext
\* connection never gets an encrypted launch.
ClaimsAuthentic ==
  \A c \in Conns : Alive(c) /\ conn[c].sess # NoId => Own(c, conn[c].sess)

\* Connection c gets session i: it claims it, or it has started its stream and
\* ended in the same step.
Gets(c, i) ==
  /\ Alive(c) /\ conn[c].sess = NoId
  /\ \/ conn'[c] # Idle /\ conn'[c].sess = i
     \/ conn'[c] = Idle /\ started'[i] # started[i]

\* A connection gets a session only if it is the one launch waiting that may be
\* its own: behind one address, or with a key used twice, nobody is given the
\* session of another client (claim_plaintext; claim_encrypted: "Reused keys
\* would make the claim ambiguous. Fail closed.").
ClaimsUnambiguous ==
  [][\A c \in Conns, i \in Ids : Gets(c, i) =>
       /\ i \in DOMAIN tickets /\ Own(c, i)
       /\ \A j \in DOMAIN tickets : Own(c, j) /\ ~Expired(tickets[j]) => j = i]_vars

\* rtsp.h: one launch ticket creates at most one streaming session, although
\* every RTSP request may come on its own connection and be repeated.
OneStreamPerTicket == \A i \in Ids : streams[i] <= 1

\* While a connection holds a ticket the handshake cannot lose it to the clock
\* or to another launch: it leaves the registry only when its stream exists
\* and its control peer has connected, or when everything is cleared.
HeldTicketStays ==
  [][\A i \in DOMAIN tickets :
       Holders(i) # {} /\ i \notin DOMAIN tickets' =>
         streams[i] > 0 \/ DOMAIN tickets' = {}]_vars

\* A connection that waits for its peer has its handshake timer running, and one
\* that does not has a handler still queued: none is forgotten, whatever its peer
\* does, with what it holds.
NoneForgotten ==
  \A c \in Conns : Alive(c) =>
    /\ conn[c].read = "pending" => conn[c].timer = "armed"
    /\ ~Unreferenced(conn[c])

\* Every claim is returned: a connection cannot hold a session for ever, even
\* when its client goes silent at any point of the exchange, because the
\* handshake timer ends it.
ClaimsReturned ==
  \A c \in Conns : (Alive(c) /\ conn[c].sess # NoId) ~> ~Alive(c)

Lifecycle == INSTANCE LaunchLifecycle WITH
  Launches <- Ids, Limit <- GlobalLimit,
  phase <- [i \in Ids |-> IF i > lastId THEN "new"
                          ELSE IF i \in DOMAIN tickets THEN "offered" ELSE "withdrawn"],
  streams <- streams

\* The registry and the connections implement the promise of LaunchLifecycle:
\* a withdrawn launch never comes back, and a launch yields one stream at most.
LifecycleSpec == Lifecycle!Spec
=============================================================================
