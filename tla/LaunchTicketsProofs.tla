------------------------- MODULE LaunchTicketsProofs -------------------------
(****************************************************************************)
(* Proofs about LaunchTickets, for any number of connections, launches,     *)
(* clients, addresses and keys.                                             *)
(****************************************************************************)
EXTENDS LaunchTickets, FiniteSetTheorems, TLAPS

-----------------------------------------------------------------------------
(* Operators of the registry keep it well typed. *)

Registry(T) == /\ DOMAIN T \subseteq 1..lastId
               /\ T \in [DOMAIN T -> Ticket]

LEMMA FreshIsTicket == Fresh \in Ticket
BY ConstantsAssumption DEF Fresh, Ticket

\* Removing tickets (prune_locked, erase, clear) keeps a registry a registry.
LEMMA WithoutType ==
  ASSUME NEW T, NEW S, Registry(T)
  PROVE  /\ Registry(Without(T, S))
         /\ DOMAIN Without(T, S) = DOMAIN T \ S
         /\ \A i \in DOMAIN T \ S : Without(T, S)[i] = T[i]
BY DEF Registry, Without

LEMMA PruneType ==
  ASSUME NEW T, Registry(T)
  PROVE  /\ Registry(prune_locked(T))
         /\ DOMAIN prune_locked(T) \subseteq DOMAIN T
         /\ \A i \in DOMAIN prune_locked(T) : prune_locked(T)[i] = T[i]
<1> DEFINE S == {i \in DOMAIN T : Expired(T[i])}
<1>1. prune_locked(T) = Without(T, S)  BY DEF prune_locked
<1>2. /\ Registry(Without(T, S))
      /\ DOMAIN Without(T, S) = DOMAIN T \ S
      /\ \A i \in DOMAIN T \ S : Without(T, S)[i] = T[i]
  <2> HIDE DEF S
  <2> QED  BY WithoutType
<1> QED  BY <1>1, <1>2

LEMMA ClaimType ==
  ASSUME NEW T, Registry(T), NEW i \in DOMAIN T
  PROVE  /\ Registry(claim(T, i))
         /\ DOMAIN claim(T, i) = DOMAIN T
         /\ claim(T, i)[i].claims = T[i].claims + 1
         /\ claim(T, i)[i].state = "claimed"
         /\ \A j \in DOMAIN T : j # i => claim(T, i)[j] = T[j]
<1>1. T[i] \in Ticket  BY DEF Registry
<1>2. Claimed(T[i].claims + 1, T[i]) \in Ticket
  BY <1>1 DEF Ticket, Claimed
<1> QED  BY <1>1, <1>2 DEF Registry, claim, Claimed

\* release needs a claimed ticket to have a claim to take away.
LEMMA ReleaseType ==
  ASSUME NEW T, Registry(T), NEW i,
         i \in DOMAIN T => (T[i].state = "claimed" <=> T[i].claims > 0)
  PROVE  /\ Registry(release(T, i))
         /\ DOMAIN release(T, i) = DOMAIN T
         /\ i \in DOMAIN T /\ T[i].claims > 0 =>
              /\ release(T, i)[i].claims = T[i].claims - 1
              /\ release(T, i)[i].state = "claimed" <=> T[i].claims > 1
         /\ \A j \in DOMAIN T : j # i => release(T, i)[j] = T[j]
<1>1. CASE i \notin DOMAIN T \/ T[i].state # "claimed"
  BY <1>1 DEF release, Registry
<1>2. CASE i \in DOMAIN T /\ T[i].state = "claimed"
  <2>1. T[i] \in Ticket /\ T[i].claims \in Nat /\ T[i].claims > 0
    BY <1>2 DEF Registry, Ticket
  <2>2. CASE T[i].claims = 1
    <3>1. release(T, i) = [T EXCEPT ![i] = Fresh]
      BY <1>2, <2>2 DEF release
    <3> QED  BY <1>2, <2>1, <2>2, <3>1, FreshIsTicket DEF Registry, Fresh
  <2>3. CASE T[i].claims # 1
    <3> DEFINE t == Claimed(T[i].claims - 1, T[i])
    <3>1. release(T, i) = [T EXCEPT ![i] = t]
      BY <1>2, <2>3 DEF release
    <3>2. t \in Ticket /\ t.claims = T[i].claims - 1 /\ t.state = "claimed"
      BY <1>2, <2>1, <2>3 DEF Ticket, Claimed, Registry
    <3> HIDE DEF t
    <3> QED  BY <1>2, <2>1, <2>3, <3>1, <3>2 DEF Registry
  <2> QED  BY <2>2, <2>3
<1> QED  BY <1>1, <1>2
-----------------------------------------------------------------------------
(* Claims and holders. *)

Connections(f) == f \in [Conns -> Connection \cup {Idle}]

HoldersIn(f, i) == {c \in Conns : f[c] # Idle /\ f[c].sess = i}

\* Registry T counts the holders in f.
Balanced(T, f) ==
  \A i \in DOMAIN T :
    /\ T[i].claims = Cardinality(HoldersIn(f, i))
    /\ T[i].state = "claimed" <=> T[i].claims > 0

LEMMA BalancedIsClaimsMatchHolders ==
  Balanced(tickets, conn) <=> ClaimsMatchHolders
BY DEF Balanced, ClaimsMatchHolders, HoldersIn, Holders, Alive

LEMMA ConnectionIsNotIdle == \A k \in Connection : k # Idle
BY DEF Connection, Idle

LEMMA HoldersFinite ==
  ASSUME NEW f, NEW i
  PROVE  IsFiniteSet(HoldersIn(f, i)) /\ Cardinality(HoldersIn(f, i)) \in Nat
<1>1. HoldersIn(f, i) \subseteq Conns  BY DEF HoldersIn
<1>2. IsFiniteSet(HoldersIn(f, i))
  BY <1>1, ConstantsAssumption, FS_Subset
<1> QED  BY <1>2, FS_CardinalityType

\* A registry that loses tickets stays balanced.
LEMMA WithoutBalanced ==
  ASSUME NEW T, NEW S, NEW f, Registry(T), Balanced(T, f)
  PROVE  Balanced(Without(T, S), f)
<1>1. ASSUME NEW i \in DOMAIN Without(T, S)
      PROVE  i \in DOMAIN T /\ Without(T, S)[i] = T[i]
  BY DEF Without
<1> QED  BY <1>1 DEF Balanced

LEMMA PruneBalanced ==
  ASSUME NEW T, NEW f, Registry(T), Balanced(T, f)
  PROVE  Balanced(prune_locked(T), f)
BY PruneType DEF Balanced

\* Connection c takes its first session together with a claim on it.
LEMMA ClaimBalanced ==
  ASSUME NEW T, NEW f, NEW c \in Conns, NEW i \in DOMAIN T, NEW k \in Connection,
         Registry(T), Connections(f), Balanced(T, f),
         f[c] # Idle, f[c].sess = NoId, k.sess = i
  PROVE  Balanced(claim(T, i), [f EXCEPT ![c] = k])
<1> DEFINE g == [f EXCEPT ![c] = k]
<1>1. i # NoId  BY DEF Registry, NoId
<1>2. g[c] = k /\ \A d \in Conns \ {c} : g[d] = f[d]  BY DEF Connections
<1>3. k # Idle  BY ConnectionIsNotIdle
<1>4. HoldersIn(g, i) = HoldersIn(f, i) \cup {c} /\ c \notin HoldersIn(f, i)
  BY <1>1, <1>2, <1>3 DEF HoldersIn
<1>5. \A j \in DOMAIN T : j # i => HoldersIn(g, j) = HoldersIn(f, j)
  <2> TAKE j \in DOMAIN T
  <2>1. j # NoId  BY DEF Registry, NoId
  <2> QED  BY <1>2, <2>1 DEF HoldersIn
<1>6. Cardinality(HoldersIn(g, i)) = Cardinality(HoldersIn(f, i)) + 1
  BY <1>4, HoldersFinite, FS_AddElement
<1>7. T[i].claims \in Nat  BY DEF Registry, Ticket
<1> HIDE DEF g
<1>8. Balanced(claim(T, i), g)
  BY <1>5, <1>6, <1>7, ClaimType DEF Balanced
<1> QED  BY <1>8 DEF g

\* The destructor of connection c gives its claim back.
LEMMA ReleaseBalanced ==
  ASSUME NEW T, NEW f, NEW c \in Conns,
         Registry(T), Connections(f), Balanced(T, f),
         f[c] # Idle, f[c].sess # NoId
  PROVE  Balanced(release(T, f[c].sess), [f EXCEPT ![c] = Idle])
<1> DEFINE g == [f EXCEPT ![c] = Idle]
           i == f[c].sess
<1>1. g[c] = Idle /\ \A d \in Conns \ {c} : g[d] = f[d]  BY DEF Connections
<1>2. \A j : j # i => HoldersIn(g, j) = HoldersIn(f, j)
  BY <1>1 DEF HoldersIn
<1>3. HoldersIn(g, i) = HoldersIn(f, i) \ {c} /\ c \in HoldersIn(f, i)
  BY <1>1 DEF HoldersIn
<1>4. Cardinality(HoldersIn(g, i)) = Cardinality(HoldersIn(f, i)) - 1
  BY <1>3, HoldersFinite, FS_RemoveElement
<1>5. i \in DOMAIN T => T[i].claims \in Nat /\ T[i].claims > 0
  <2> SUFFICES ASSUME i \in DOMAIN T PROVE T[i].claims > 0
    BY DEF Registry, Ticket
  <2>1. HoldersIn(f, i) # {}  BY <1>3
  <2>2. Cardinality(HoldersIn(f, i)) # 0  BY <2>1, HoldersFinite, FS_EmptySet
  <2> QED  BY <2>2, HoldersFinite DEF Balanced
<1> HIDE DEF g, i
<1>6. i \in DOMAIN T => (T[i].state = "claimed" <=> T[i].claims > 0)
  BY DEF Balanced
<1>7. Balanced(release(T, i), g)
  BY <1>2, <1>4, <1>5, <1>6, ReleaseType DEF Balanced
<1> QED  BY <1>7 DEF g, i

\* A connection that keeps its session, or has none, changes no count.
LEMMA SameSessionBalanced ==
  ASSUME NEW T, NEW f, NEW c \in Conns, NEW k \in Connection \cup {Idle},
         Registry(T), Connections(f), Balanced(T, f),
         \/ f[c] # Idle /\ k # Idle /\ k.sess = f[c].sess
         \/ (f[c] = Idle \/ f[c].sess = NoId) /\ (k = Idle \/ k.sess = NoId)
  PROVE  Balanced(T, [f EXCEPT ![c] = k])
<1> DEFINE g == [f EXCEPT ![c] = k]
<1>1. g[c] = k /\ \A d \in Conns \ {c} : g[d] = f[d]  BY DEF Connections
<1>2. \A j \in DOMAIN T : HoldersIn(g, j) = HoldersIn(f, j)
  <2> TAKE j \in DOMAIN T
  <2>1. j # NoId  BY DEF Registry, NoId
  <2> QED  BY <1>1, <2>1 DEF HoldersIn
<1> HIDE DEF g
<1>3. Balanced(T, g)  BY <1>2 DEF Balanced
<1> QED  BY <1>3 DEF g
-----------------------------------------------------------------------------
(* The inductive invariant. *)

\* stream_session_started tells whether the launch has had its stream.
StartedMeansStreamed == \A i \in Ids : streams[i] = IF started[i] THEN 1 ELSE 0

\* The session a connection can hold at each stage of reading its request: a
\* handler that claims never runs on a connection that holds one already.
SessionOfStage(k) ==
  /\ k.sess \in 0..lastId
  /\ k.stage = "initial" => k.sess = NoId
  /\ k.stage = "encrypted" /\ k.read # "none" => k.sess = NoId
  /\ k.stage = "encrypted" => k.key # NoKey
  /\ k.stage = "plain" => k.sess # NoId

\* It is entitled to it (ClaimsAuthentic for one connection).
Entitled(k) ==
  k.sess # NoId =>
    /\ session[k.sess].key = k.key
    /\ k.key = NoKey => k.peer # NoAddr /\ session[k.sess].peer = k.peer

Sound(k) == SessionOfStage(k) /\ Entitled(k)

IInv ==
  /\ TypeOK
  /\ ClaimsMatchHolders
  /\ StartedMeansStreamed
  /\ \A c \in Conns : Alive(c) => Sound(conn[c])

LEMMA IInvImplies ==
  IInv => TypeOK /\ ClaimsMatchHolders /\ ClaimsAuthentic /\ OneStreamPerTicket
BY DEF IInv, StartedMeansStreamed, Sound, Entitled, ClaimsAuthentic, Own, OneStreamPerTicket

LEMMA ConnectionUpdates ==
  ASSUME NEW k \in Connection
  PROVE  /\ \A f \in {Reread(k), Closed(k), Handled(k)} :
              /\ f \in Connection
              /\ f.stage = k.stage /\ f.peer = k.peer /\ f.key = k.key /\ f.sess = k.sess
         /\ Closed(k).read = "none" /\ Handled(k).read = "none"
         /\ Reread(k).read \in {"pending", "failed"}
<1>1. /\ Reread(k) \in Connection
      /\ Reread(k).stage = k.stage /\ Reread(k).peer = k.peer
      /\ Reread(k).key = k.key /\ Reread(k).sess = k.sess
      /\ Reread(k).read \in {"pending", "failed"}
  BY DEF Connection, Reread
<1>2. /\ Closed(k) \in Connection
      /\ Closed(k).stage = k.stage /\ Closed(k).peer = k.peer
      /\ Closed(k).key = k.key /\ Closed(k).sess = k.sess
      /\ Closed(k).read = "none" /\ Closed(k).timer = k.timer
  BY DEF Connection, Closed
<1>3. /\ Handled(k) \in Connection
      /\ Handled(k).stage = k.stage /\ Handled(k).peer = k.peer
      /\ Handled(k).key = k.key /\ Handled(k).sess = k.sess
      /\ Handled(k).read = "none"
  <2> DEFINE q == Closed(k)
             t == IF k.timer = "armed" THEN "cancelled" ELSE k.timer
  <2>1. Handled(k) = [q EXCEPT !.timer = t]  BY DEF Handled
  <2>2. q \in Connection /\ t \in {"armed", "cancelled", "none"}
    BY <1>2 DEF Connection
  <2>3. /\ q.stage = k.stage /\ q.peer = k.peer /\ q.key = k.key /\ q.sess = k.sess
        /\ q.read = "none"
    BY <1>2
  <2> HIDE DEF q, t
  <2> QED  BY <2>1, <2>2, <2>3 DEF Connection
<1> QED  BY <1>1, <1>2, <1>3

\* The invariant of the next state from the invariants of its parts.
LEMMA Assemble ==
  ASSUME IInv, UNCHANGED <<lastId, session>>,
         started' \in [Ids -> BOOLEAN], streams' \in [Ids -> Nat],
         StartedMeansStreamed',
         Registry(tickets'), Connections(conn'), Balanced(tickets', conn'),
         \A d \in Conns : conn'[d] # Idle => Sound(conn'[d])
  PROVE  IInv'
<1>1. TypeOK'  BY DEF IInv, TypeOK, Registry, Connections
<1>2. ClaimsMatchHolders'
  BY DEF Balanced, HoldersIn, ClaimsMatchHolders, Holders, Alive
<1>3. \A d \in Conns : Alive(d)' => Sound(conn[d])'
  BY DEF Alive, Sound, SessionOfStage, Entitled
<1> QED  BY <1>1, <1>2, <1>3 DEF IInv

\* What a handler has to establish about the connection k and the registry T
\* it leaves behind; the destructor, if it runs, preserves the rest.
LEMMA SettleStep ==
  ASSUME IInv, NEW c \in Conns, NEW k \in Connection, NEW T,
         Alive(c), Registry(T), Sound(k), Balanced(T, [conn EXCEPT ![c] = k]),
         Settle(c, k, T), UNCHANGED <<lastId, session>>,
         started' \in [Ids -> BOOLEAN], streams' \in [Ids -> Nat],
         StartedMeansStreamed'
  PROVE  IInv'
<1> DEFINE f == [conn EXCEPT ![c] = k]
<1>0. Balanced(T, f)  OBVIOUS
<1>1. Connections(conn)  BY DEF IInv, TypeOK, Connections
<1>2. Connections(f) /\ f[c] = k /\ \A d \in Conns \ {c} : f[d] = conn[d]
  BY <1>1 DEF Connections
<1>3. k # Idle  BY ConnectionIsNotIdle
<1>4. CASE Unreferenced(k)
  <2>1. conn' = [conn EXCEPT ![c] = Idle]  BY <1>4 DEF Settle
  <2>2. conn' = [f EXCEPT ![c] = Idle]  BY <2>1, <1>1 DEF Connections
  <2>3. Connections(conn')  BY <2>1, <1>1 DEF Connections
  <2>4. Registry(tickets') /\ Balanced(tickets', conn')
    <3>1. CASE k.sess = NoId
      <4>1. tickets' = T  BY <3>1 DEF Settle
      <4> HIDE DEF f
      <4> QED  BY <4>1, <2>2, <1>0, <1>2, <1>3, <3>1, SameSessionBalanced
    <3>2. CASE k.sess # NoId
      <4>1. tickets' = release(T, k.sess)  BY <3>2, <1>4 DEF Settle
      <4>2. f[c] # Idle /\ f[c].sess = k.sess  BY <1>2, <1>3
      <4>3. Balanced(T, f)  OBVIOUS
      <4> HIDE DEF f
      <4>4. Balanced(tickets', conn')
        BY <4>1, <4>2, <4>3, <2>2, <1>2, <3>2, ReleaseBalanced
      <4>5. k.sess \in DOMAIN T => (T[k.sess].state = "claimed" <=> T[k.sess].claims > 0)
        BY <4>3 DEF Balanced
      <4> QED  BY <4>1, <4>4, <4>5, ReleaseType
    <3> QED  BY <3>1, <3>2
  <2>5. \A d \in Conns : conn'[d] # Idle => Sound(conn'[d])
    BY <2>1, <1>1 DEF Alive, Connections, IInv
  <2> QED  BY <2>3, <2>4, <2>5, Assemble
<1>5. CASE ~Unreferenced(k)
  <2>1. conn' = f /\ tickets' = T  BY <1>5 DEF Settle
  <2>2. Balanced(tickets', conn') /\ Registry(tickets') /\ Connections(conn')
    BY <2>1, <1>2
  <2>3. \A d \in Conns : conn'[d] # Idle => Sound(conn'[d])
    BY <2>1, <1>2 DEF Alive, IInv
  <2> HIDE DEF f
  <2> QED  BY <2>2, <2>3, Assemble
<1> QED  BY <1>4, <1>5

LEMMA InitIInv == Init => IInv
<1> SUFFICES ASSUME Init PROVE IInv  OBVIOUS
<1> USE DEF Init
<1>1. TypeOK  BY ConstantsAssumption DEF TypeOK, Ids, Ticket
<1>2. ClaimsMatchHolders  BY DEF ClaimsMatchHolders
<1> QED  BY <1>1, <1>2 DEF IInv, StartedMeansStreamed, Alive

\* Steps that leave the connections alone and whose new registry is balanced.
LEMMA RegistryStep ==
  ASSUME IInv, NEW T, tickets' = T, Registry(T), Balanced(T, conn),
         UNCHANGED <<lastId, session, started, streams, conn>>
  PROVE  IInv'
BY DEF IInv, TypeOK, Registry, Balanced, HoldersIn, ClaimsMatchHolders, Holders, Alive,
   StartedMeansStreamed, Sound, SessionOfStage, Entitled

LEMMA IInvFacts ==
  ASSUME IInv
  PROVE  /\ Registry(tickets) /\ Registry(prune_locked(tickets))
         /\ Balanced(tickets, conn) /\ Balanced(prune_locked(tickets), conn)
         /\ Connections(conn)
<1>1. Registry(tickets) /\ Connections(conn)
  BY DEF IInv, TypeOK, Registry, Connections
<1>2. Balanced(tickets, conn)  BY BalancedIsClaimsMatchHolders DEF IInv
<1> QED  BY <1>1, <1>2, PruneType, PruneBalanced

\* A new ticket for launch lastId + 1, which no connection can hold yet, beside
\* some of the pruned ones.
LEMMA NewTicketStep ==
  ASSUME IInv, NEW r \in Requests, NewSession(r),
         NEW D \in SUBSET DOMAIN prune_locked(tickets),
         tickets' = [j \in D \cup {lastId + 1} |->
                       IF j = lastId + 1 THEN Fresh ELSE prune_locked(tickets)[j]]
  PROVE  IInv'
<1> DEFINE T == prune_locked(tickets)
           n == lastId + 1
<1>1. Registry(T) /\ Balanced(T, conn) /\ Connections(conn)  BY IInvFacts
<1>2. /\ lastId \in Nat /\ n \in Ids /\ lastId' = n /\ n \notin 1..lastId
      /\ 1..n = (1..lastId) \cup {n}
  BY ConstantsAssumption DEF IInv, TypeOK, NewSession, Ids
<1>3. /\ session' \in [1..n -> Requests]
      /\ \A i \in 1..lastId : session'[i] = session[i]
  BY <1>2 DEF NewSession, IInv, TypeOK
<1>4. UNCHANGED <<started, streams, conn>>  BY DEF NewSession
<1>5. DOMAIN tickets' = D \cup {n}  OBVIOUS
<1>6. \A j \in D : j # n /\ j \in 1..lastId /\ tickets'[j] = T[j] /\ T[j] \in Ticket
  BY <1>1, <1>2 DEF Registry
<1>7. tickets'[n] = Fresh  OBVIOUS
<1>8. HoldersIn(conn, n) = {}
  BY <1>2 DEF HoldersIn, IInv, Alive, Sound, SessionOfStage
<1>9. Balanced(tickets', conn)
  <2>1. \A j \in D : /\ tickets'[j].claims = Cardinality(HoldersIn(conn, j))
                     /\ tickets'[j].state = "claimed" <=> tickets'[j].claims > 0
    BY <1>1, <1>6 DEF Balanced
  <2>2. Fresh.claims = Cardinality(HoldersIn(conn, n)) /\ Fresh.state # "claimed"
    BY <1>8, FS_EmptySet DEF Fresh
  <2>3. Fresh.claims = 0  BY DEF Fresh
  <2> HIDE DEF T
  <2> QED  BY <1>5, <1>7, <2>1, <2>2, <2>3 DEF Balanced
<1> HIDE DEF T
<1>10. TypeOK'
  <2>1. DOMAIN tickets' \subseteq 1..lastId'  BY <1>2, <1>5, <1>6
  <2>2. tickets' \in [DOMAIN tickets' -> Ticket]
    BY <1>5, <1>6, <1>7, FreshIsTicket DEF T
  <2>3. /\ lastId' \in 0..MaxLaunches /\ session' \in [1..lastId' -> Requests]
        /\ started' \in [Ids -> BOOLEAN] /\ streams' \in [Ids -> Nat]
        /\ conn' \in [Conns -> Connection \cup {Idle}]
    BY <1>2, <1>3, <1>4 DEF IInv, TypeOK, Ids
  <2> QED  BY <2>1, <2>2, <2>3 DEF TypeOK
<1>11. ClaimsMatchHolders'
  BY <1>4, <1>9 DEF Balanced, HoldersIn, ClaimsMatchHolders, Holders, Alive
<1>12. \A c \in Conns : Alive(c)' => Sound(conn[c])'
  <2> SUFFICES ASSUME NEW c \in Conns, Alive(c)' PROVE Sound(conn[c])'
    OBVIOUS
  <2>1. conn'[c] = conn[c] /\ Sound(conn[c])  BY <1>4 DEF Alive, IInv
  <2>2. conn[c].sess \in 0..lastId  BY <2>1 DEF Sound, SessionOfStage
  <2>3. conn[c].sess # NoId => session'[conn[c].sess] = session[conn[c].sess]
    BY <1>2, <1>3, <2>2 DEF NoId
  <2>4. conn[c].sess \in 0..lastId'  BY <1>2, <2>2
  <2> QED  BY <2>1, <2>3, <2>4 DEF Sound, SessionOfStage, Entitled
<1> QED
  BY <1>4, <1>10, <1>11, <1>12 DEF IInv, StartedMeansStreamed

LEMMA RegistryIds ==
  ASSUME IInv, NEW T, Registry(T), NEW i \in DOMAIN T
  PROVE  i \in 1..lastId /\ i \in Ids /\ i # NoId
<1>1. i \in 1..lastId  BY DEF Registry
<1>2. lastId \in Nat /\ lastId <= MaxLaunches  BY ConstantsAssumption DEF IInv, TypeOK
<1> QED  BY <1>1, <1>2, ConstantsAssumption DEF Ids, NoId

\* A connection whose replacement record keeps its session.
LEMMA KeepsSession ==
  ASSUME IInv, NEW c \in Conns, Alive(c), NEW k \in Connection, k.sess = conn[c].sess,
         NEW T, Registry(T), Balanced(T, conn)
  PROVE  Balanced(T, [conn EXCEPT ![c] = k])
BY IInvFacts, SameSessionBalanced, ConnectionIsNotIdle DEF Alive

LEMMA AliveFacts ==
  ASSUME IInv, NEW c \in Conns, Alive(c)
  PROVE  conn[c] \in Connection /\ Sound(conn[c])
BY DEF IInv, TypeOK, Alive

\* A command leaves the stream flags in order.
LEMMA CommandFlags ==
  ASSUME IInv, NEW i \in Ids, Command(i)
  PROVE  /\ started' \in [Ids -> BOOLEAN] /\ streams' \in [Ids -> Nat]
         /\ StartedMeansStreamed'
<1>1. CASE UNCHANGED <<started, streams>>
  BY <1>1 DEF IInv, TypeOK, StartedMeansStreamed
<1>2. CASE /\ ~started[i]
           /\ started' = [started EXCEPT ![i] = TRUE]
           /\ streams' = [streams EXCEPT ![i] = @ + 1]
  <2>1. started \in [Ids -> BOOLEAN] /\ streams \in [Ids -> Nat]
    BY DEF IInv, TypeOK
  <2>2. started' \in [Ids -> BOOLEAN]  BY <1>2, <2>1, Zenon
  <2>3. streams[i] = 0  BY <1>2 DEF IInv, StartedMeansStreamed
  <2>4. streams' = [streams EXCEPT ![i] = 1]  BY <1>2, <2>1, <2>3
  <2>5. streams' \in [Ids -> Nat]  BY <2>1, <2>4
  <2>6. ASSUME NEW j \in Ids
        PROVE  streams'[j] = IF started'[j] THEN 1 ELSE 0
    <3>1. CASE j = i
      <4>1. started'[j]  BY <1>2, <2>1, <3>1, Zenon
      <4>2. streams'[j] = 1  BY <2>1, <2>4, <3>1
      <4> QED  BY <4>1, <4>2
    <3>2. CASE j # i
      <4>1. started'[j] = started[j]  BY <1>2, <2>1, <3>2, Zenon
      <4>2. streams'[j] = streams[j]  BY <2>1, <2>4, <3>2
      <4>3. streams[j] = IF started[j] THEN 1 ELSE 0  BY DEF IInv, StartedMeansStreamed
      <4> QED  BY <4>1, <4>2, <4>3, Zenon
    <3> QED  BY <3>1, <3>2
  <2> QED  BY <2>2, <2>5, <2>6 DEF StartedMeansStreamed
<1> QED  BY <1>1, <1>2 DEF Command

LEMMA UnchangedFlags ==
  ASSUME IInv, UNCHANGED <<started, streams>>
  PROVE  /\ started' \in [Ids -> BOOLEAN] /\ streams' \in [Ids -> Nat]
         /\ StartedMeansStreamed'
BY DEF IInv, TypeOK, StartedMeansStreamed

LEMMA FailedReadStep ==
  ASSUME IInv, NEW c \in Conns, HandleFailedRead(c)
  PROVE  IInv'
<1> DEFINE k == Closed(conn[c])
<1>1. conn[c] \in Connection /\ Sound(conn[c]) /\ Alive(c)
  BY AliveFacts DEF HandleFailedRead
<1>2. /\ k \in Connection /\ k.sess = conn[c].sess /\ k.stage = conn[c].stage
      /\ k.peer = conn[c].peer /\ k.key = conn[c].key /\ k.read = "none"
  BY <1>1, ConnectionUpdates
<1> HIDE DEF k
<1>3. Sound(k)  BY <1>1, <1>2 DEF Sound, SessionOfStage, Entitled
<1>4. Registry(tickets) /\ Balanced(tickets, [conn EXCEPT ![c] = k])
  BY <1>1, <1>2, IInvFacts, KeepsSession
<1>5. Settle(c, k, tickets) /\ UNCHANGED <<lastId, session, started, streams>>
  BY DEF k, HandleFailedRead
<1> QED  BY <1>1, <1>2, <1>3, <1>4, <1>5, UnchangedFlags, SettleStep

LEMMA InitialEncryptedStep ==
  ASSUME IInv, NEW c \in Conns, HandleInitialEncrypted(c)
  PROVE  IInv'
<1> DEFINE q == [conn[c] EXCEPT !.stage = "encrypted"]
           k == Reread(q)
<1>1. /\ conn[c] \in Connection /\ Sound(conn[c]) /\ Alive(c)
      /\ conn[c].stage = "initial" /\ conn[c].key # NoKey
  BY AliveFacts DEF HandleInitialEncrypted
<1>2. /\ q \in Connection /\ q.sess = conn[c].sess /\ q.stage = "encrypted"
      /\ q.peer = conn[c].peer /\ q.key = conn[c].key
  BY <1>1 DEF Connection
<1> HIDE DEF q
<1>3. /\ k \in Connection /\ k.sess = q.sess /\ k.stage = q.stage
      /\ k.peer = q.peer /\ k.key = q.key
  BY <1>2, ConnectionUpdates
<1> HIDE DEF k
<1>4. Sound(k)  BY <1>1, <1>2, <1>3 DEF Sound, SessionOfStage, Entitled
<1>5. Registry(tickets) /\ Balanced(tickets, [conn EXCEPT ![c] = k])
  BY <1>1, <1>2, <1>3, IInvFacts, KeepsSession
<1>6. Settle(c, k, tickets) /\ UNCHANGED <<lastId, session, started, streams>>
  BY DEF k, q, HandleInitialEncrypted
<1> QED  BY <1>1, <1>3, <1>4, <1>5, <1>6, UnchangedFlags, SettleStep

LEMMA InitialPlaintextStep ==
  ASSUME IInv, NEW c \in Conns, HandleInitialPlaintext(c)
  PROVE  IInv'
<1> DEFINE T == prune_locked(tickets)
           M == plaintext_matches(T, conn[c].peer)
<1>1. /\ conn[c] \in Connection /\ Sound(conn[c]) /\ Alive(c)
      /\ conn[c].stage = "initial" /\ conn[c].key = NoKey
      /\ UNCHANGED <<lastId, session, started, streams>>
  BY AliveFacts DEF HandleInitialPlaintext
<1>2. Registry(T) /\ Balanced(T, conn) /\ Connections(conn)  BY IInvFacts
<1>3. CASE Settle(c, Closed(conn[c]), T)
  <2> DEFINE k == Closed(conn[c])
  <2>1. /\ k \in Connection /\ k.sess = conn[c].sess /\ k.stage = conn[c].stage
        /\ k.peer = conn[c].peer /\ k.key = conn[c].key /\ k.read = "none"
    BY <1>1, ConnectionUpdates
  <2>2. Settle(c, k, T)  BY <1>3
  <2> HIDE DEF k, T
  <2>3. Sound(k)  BY <1>1, <2>1 DEF Sound, SessionOfStage, Entitled
  <2>4. Balanced(T, [conn EXCEPT ![c] = k])  BY <1>1, <1>2, <2>1, KeepsSession
  <2> QED  BY <1>1, <1>2, <2>1, <2>2, <2>3, <2>4, UnchangedFlags, SettleStep
<1>4. CASE \E i \in M :
             Settle(c, Reread([conn[c] EXCEPT !.stage = "plain", !.sess = i]), claim(T, i))
  <2> PICK i \in M :
             Settle(c, Reread([conn[c] EXCEPT !.stage = "plain", !.sess = i]), claim(T, i))
    BY <1>4
  <2> DEFINE q == [conn[c] EXCEPT !.stage = "plain", !.sess = i]
             k == Reread(q)
  <2>1. /\ i \in DOMAIN T /\ session[i].key = NoKey /\ session[i].peer = conn[c].peer
        /\ conn[c].peer # NoAddr /\ i \in 1..lastId /\ i \in Ids
    <3>1. /\ i \in DOMAIN T /\ session[i].key = NoKey /\ session[i].peer = conn[c].peer
          /\ conn[c].peer # NoAddr
      <4> HIDE DEF T
      <4> QED  BY DEF plaintext_matches
    <3> HIDE DEF T
    <3> QED  BY <3>1, <1>2, RegistryIds
  <2>2. /\ q \in Connection /\ q.sess = i /\ q.stage = "plain"
        /\ q.peer = conn[c].peer /\ q.key = conn[c].key
    BY <1>1, <2>1 DEF Connection
  <2>3. Settle(c, k, claim(T, i))  OBVIOUS
  <2> HIDE DEF q
  <2>4. /\ k \in Connection /\ k.sess = q.sess /\ k.stage = q.stage
        /\ k.peer = q.peer /\ k.key = q.key
    BY <2>2, ConnectionUpdates
  <2> HIDE DEF k, T
  <2>5. Sound(k)
    BY <1>1, <2>1, <2>2, <2>4 DEF Sound, SessionOfStage, Entitled, NoId
  <2>6. conn[c] # Idle /\ conn[c].sess = NoId  BY <1>1 DEF Sound, SessionOfStage, Alive
  <2>7. Registry(claim(T, i)) /\ Balanced(claim(T, i), [conn EXCEPT ![c] = k])
    BY <1>2, <2>1, <2>2, <2>4, <2>6, ClaimType, ClaimBalanced
  <2> QED  BY <1>1, <2>3, <2>4, <2>5, <2>7, UnchangedFlags, SettleStep
<1> QED  BY <1>3, <1>4 DEF HandleInitialPlaintext

LEMMA EncryptedStep ==
  ASSUME IInv, NEW c \in Conns, HandleEncrypted(c)
  PROVE  IInv'
<1> DEFINE T == prune_locked(tickets)
           M == encrypted_matches(T, conn[c].key)
<1>1. /\ conn[c] \in Connection /\ Sound(conn[c]) /\ Alive(c)
      /\ conn[c].stage = "encrypted" /\ conn[c].read = "ready"
      /\ UNCHANGED <<lastId, session>>
  BY AliveFacts DEF HandleEncrypted
<1>2. /\ Registry(T) /\ Balanced(T, conn) /\ Connections(conn)
      /\ Registry(tickets) /\ Balanced(tickets, conn)
  BY IInvFacts
<1>3. conn[c] # Idle /\ conn[c].sess = NoId
  BY <1>1 DEF Sound, SessionOfStage, Alive
\* Reading on, or giving up without a claim.
<1>4. ASSUME NEW k \in {Reread(conn[c]), Closed(conn[c])}, NEW R \in {tickets, T},
             Settle(c, k, R), UNCHANGED <<started, streams>>
      PROVE  IInv'
  <2>1. /\ k \in Connection /\ k.sess = conn[c].sess /\ k.stage = conn[c].stage
        /\ k.peer = conn[c].peer /\ k.key = conn[c].key
    BY <1>1, ConnectionUpdates
  <2>2. Registry(R) /\ Balanced(R, conn)  BY <1>2
  <2> HIDE DEF T
  <2>3. Sound(k)  BY <1>1, <1>3, <2>1 DEF Sound, SessionOfStage, Entitled
  <2>4. Balanced(R, [conn EXCEPT ![c] = k])  BY <1>1, <2>1, <2>2, KeepsSession
  <2> QED  BY <1>1, <1>4, <2>1, <2>2, <2>3, <2>4, UnchangedFlags, SettleStep
\* The message authenticates exactly one ticket.
<1>5. ASSUME NEW i \in M, NEW k,
             k \in {Closed([conn[c] EXCEPT !.sess = i]), Handled([conn[c] EXCEPT !.sess = i])},
             Settle(c, k, claim(T, i)), UNCHANGED <<started, streams>> \/ Command(i)
      PROVE  IInv'
  <2> DEFINE q == [conn[c] EXCEPT !.sess = i]
  <2>1. i \in DOMAIN T /\ session[i].key = conn[c].key
    <3> HIDE DEF T
    <3> QED  BY DEF encrypted_matches
  <2>2. i \in 1..lastId /\ i \in Ids /\ i # NoId  BY <2>1, <1>2, RegistryIds
  <2>3. /\ q \in Connection /\ q.sess = i /\ q.stage = "encrypted"
        /\ q.peer = conn[c].peer /\ q.key = conn[c].key
    BY <1>1, <2>2 DEF Connection
  <2>4. k \in {Closed(q), Handled(q)}  BY <1>5
  <2> HIDE DEF q, T
  <2>5. /\ k \in Connection /\ k.sess = q.sess /\ k.stage = q.stage
        /\ k.peer = q.peer /\ k.key = q.key /\ k.read = "none"
    BY <2>3, <2>4, ConnectionUpdates
  <2>6. Sound(k)
    BY <1>1, <2>1, <2>2, <2>3, <2>5 DEF Sound, SessionOfStage, Entitled
  <2>7. Registry(claim(T, i)) /\ Balanced(claim(T, i), [conn EXCEPT ![c] = k])
    BY <1>2, <1>3, <2>1, <2>3, <2>5, ClaimType, ClaimBalanced
  <2>8. /\ started' \in [Ids -> BOOLEAN] /\ streams' \in [Ids -> Nat]
        /\ StartedMeansStreamed'
    BY <1>5, <2>2, UnchangedFlags, CommandFlags
  <2> QED  BY <1>1, <1>5, <2>5, <2>6, <2>7, <2>8, SettleStep
<1> QED  BY <1>4, <1>5 DEF HandleEncrypted

LEMMA PlainStep ==
  ASSUME IInv, NEW c \in Conns, HandlePlain(c)
  PROVE  IInv'
<1>1. /\ conn[c] \in Connection /\ Sound(conn[c]) /\ Alive(c)
      /\ conn[c].stage = "plain" /\ UNCHANGED <<lastId, session>>
  BY AliveFacts DEF HandlePlain
<1>2. Registry(tickets) /\ Balanced(tickets, conn) /\ Connections(conn)  BY IInvFacts
<1>3. conn[c].sess \in Ids
  BY <1>1, ConstantsAssumption DEF Sound, SessionOfStage, Ids, NoId, IInv, TypeOK
<1>4. PICK k \in {Reread(conn[c]), Closed(conn[c]), Handled(conn[c])} :
        Settle(c, k, tickets) /\ (UNCHANGED <<started, streams>> \/ Command(conn[c].sess))
  BY DEF HandlePlain
<1>5. /\ k \in Connection /\ k.sess = conn[c].sess /\ k.stage = conn[c].stage
      /\ k.peer = conn[c].peer /\ k.key = conn[c].key
  BY <1>1, ConnectionUpdates
<1>6. Sound(k)  BY <1>1, <1>5 DEF Sound, SessionOfStage, Entitled
<1>7. Balanced(tickets, [conn EXCEPT ![c] = k])  BY <1>1, <1>2, <1>5, KeepsSession
<1>8. /\ started' \in [Ids -> BOOLEAN] /\ streams' \in [Ids -> Nat]
      /\ StartedMeansStreamed'
  BY <1>3, <1>4, UnchangedFlags, CommandFlags
<1> QED  BY <1>1, <1>2, <1>4, <1>5, <1>6, <1>7, <1>8, SettleStep

LEMMA TimerStep ==
  ASSUME IInv, NEW c \in Conns, HandshakeTimer(c)
  PROVE  IInv'
<1> DEFINE r == IF conn[c].read = "pending" THEN "failed" ELSE conn[c].read
           expired == [conn[c] EXCEPT !.timer = "none", !.open = FALSE, !.read = r]
           cancelled == [conn[c] EXCEPT !.timer = "none"]
<1>1. /\ conn[c] \in Connection /\ Sound(conn[c]) /\ Alive(c)
      /\ UNCHANGED <<lastId, session, started, streams>>
  BY AliveFacts DEF HandshakeTimer
<1>2. Registry(tickets) /\ Balanced(tickets, conn)  BY IInvFacts
<1>3. PICK k \in {expired, cancelled} : Settle(c, k, tickets)
  BY DEF HandshakeTimer
<1>4. /\ k \in Connection /\ k.sess = conn[c].sess /\ k.stage = conn[c].stage
      /\ k.peer = conn[c].peer /\ k.key = conn[c].key
      /\ k.read # "none" => conn[c].read # "none"
  <2>1. r \in {"none", "pending", "ready", "failed"}  BY <1>1 DEF Connection
  <2>2. r # "none" => conn[c].read # "none"  OBVIOUS
  <2> HIDE DEF r
  <2>3. CASE k = expired  BY <1>1, <2>1, <2>2, <2>3 DEF Connection
  <2>4. CASE k = cancelled  BY <1>1, <2>4 DEF Connection
  <2> QED  BY <2>3, <2>4
<1>5. Sound(k)  BY <1>1, <1>4 DEF Sound, SessionOfStage, Entitled
<1>6. Balanced(tickets, [conn EXCEPT ![c] = k])  BY <1>1, <1>2, <1>4, KeepsSession
<1> QED  BY <1>1, <1>2, <1>3, <1>4, <1>5, <1>6, UnchangedFlags, SettleStep

LEMMA AcceptStep ==
  ASSUME IInv, NEW c \in Conns, Accept(c)
  PROVE  IInv'
<1>1. PICK p \in Peers, key \in Keys \cup {NoKey} :
        conn' = [conn EXCEPT ![c] =
          [stage |-> "initial", peer |-> p, key |-> key, open |-> TRUE,
           read |-> "pending", timer |-> "armed", ttl |-> PingTimeout, sess |-> NoId]]
  BY DEF Accept
<1> DEFINE k == [stage |-> "initial", peer |-> p, key |-> key, open |-> TRUE,
                 read |-> "pending", timer |-> "armed", ttl |-> PingTimeout, sess |-> NoId]
<1>2. k \in Connection /\ k.sess = NoId /\ k.stage = "initial"
  BY ConstantsAssumption DEF Connection
<1>3. Sound(k)
  BY <1>2, ConstantsAssumption DEF Sound, SessionOfStage, Entitled, NoId, IInv, TypeOK
<1>4. conn' = [conn EXCEPT ![c] = k]  BY <1>1
<1> HIDE DEF k
<1>5. /\ conn[c] = Idle /\ UNCHANGED <<lastId, session, started, streams, tickets>>
  BY DEF Accept, Alive
<1>6. Registry(tickets) /\ Balanced(tickets, conn) /\ Connections(conn)  BY IInvFacts
<1>7. Connections(conn') /\ \A d \in Conns \ {c} : conn'[d] = conn[d]
  BY <1>2, <1>4, <1>6 DEF Connections
<1>8. Balanced(tickets', conn')
  BY <1>2, <1>4, <1>5, <1>6, SameSessionBalanced
<1>9. \A d \in Conns : conn'[d] # Idle => Sound(conn'[d])
  BY <1>3, <1>4, <1>6, <1>7 DEF IInv, Alive, Connections
<1> QED  BY <1>5, <1>6, <1>7, <1>8, <1>9, UnchangedFlags, Assemble

LEMMA ReadCompletesStep ==
  ASSUME IInv, NEW c \in Conns, ReadCompletes(c)
  PROVE  IInv'
<1>1. PICK res \in {"ready", "failed"} : conn' = [conn EXCEPT ![c].read = res]
  BY DEF ReadCompletes
<1> DEFINE k == [conn[c] EXCEPT !.read = res]
<1>2. /\ conn[c] \in Connection /\ Sound(conn[c]) /\ Alive(c) /\ conn[c].read = "pending"
      /\ UNCHANGED <<lastId, session, started, streams, tickets>>
  BY AliveFacts DEF ReadCompletes
<1>3. Registry(tickets) /\ Balanced(tickets, conn) /\ Connections(conn)  BY IInvFacts
<1>4. conn' = [conn EXCEPT ![c] = k]  BY <1>1, <1>3 DEF Connections
<1>5. /\ k \in Connection /\ k.sess = conn[c].sess /\ k.stage = conn[c].stage
      /\ k.peer = conn[c].peer /\ k.key = conn[c].key
  BY <1>2 DEF Connection
<1> HIDE DEF k
<1>6. Sound(k)  BY <1>2, <1>5 DEF Sound, SessionOfStage, Entitled
<1>7. Connections(conn') /\ \A d \in Conns \ {c} : conn'[d] = conn[d]
  BY <1>3, <1>4, <1>5 DEF Connections
<1>8. Balanced(tickets', conn')
  BY <1>2, <1>3, <1>4, <1>5, KeepsSession
<1>9. \A d \in Conns : conn'[d] # Idle => Sound(conn'[d])
  BY <1>3, <1>4, <1>6, <1>7 DEF IInv, Alive, Connections
<1> QED  BY <1>2, <1>3, <1>7, <1>8, <1>9, UnchangedFlags, Assemble

LEMMA TickStep ==
  ASSUME IInv, Tick
  PROVE  IInv'
<1>1. UNCHANGED <<lastId, session, started, streams>>  BY DEF Tick
<1>2. Registry(tickets) /\ Balanced(tickets, conn) /\ Connections(conn)  BY IInvFacts
<1>3. ASSUME NEW i \in DOMAIN tickets
      PROVE  /\ tickets'[i] \in Ticket
             /\ tickets'[i].claims = tickets[i].claims
             /\ tickets'[i].state = tickets[i].state
  <2>1. tickets[i] \in Ticket  BY <1>2 DEF Registry
  <2>2. tickets'[i] = tickets[i] \/ tickets'[i] = Less(tickets[i])  BY DEF Tick
  <2>3. /\ Less(tickets[i]) \in Ticket
        /\ Less(tickets[i]).claims = tickets[i].claims
        /\ Less(tickets[i]).state = tickets[i].state
    BY <2>1, ConstantsAssumption DEF Less, Ticket
  <2> QED  BY <2>1, <2>2, <2>3
<1>4. DOMAIN tickets' = DOMAIN tickets  BY DEF Tick
<1>5. Registry(tickets')
  <2>1. tickets' \in [DOMAIN tickets -> Ticket]  BY <1>3, <1>4 DEF Tick
  <2> QED  BY <1>2, <1>4, <2>1 DEF Registry
<1>6. ASSUME NEW d \in Conns
      PROVE  /\ conn'[d] \in Connection \cup {Idle}
             /\ conn'[d] = Idle <=> conn[d] = Idle
             /\ Alive(d) => conn'[d].sess = conn[d].sess /\ Sound(conn'[d])
  <2>1. CASE ~Alive(d)
    BY <2>1 DEF Tick, Alive
  <2>2. CASE Alive(d)
    <3>1. conn[d] \in Connection /\ Sound(conn[d])  BY <2>2, AliveFacts
    <3>2. conn'[d] = conn[d] \/ conn'[d] = Less(conn[d])  BY DEF Tick
    <3>3. /\ Less(conn[d]) \in Connection
          /\ Less(conn[d]).sess = conn[d].sess /\ Less(conn[d]).stage = conn[d].stage
          /\ Less(conn[d]).peer = conn[d].peer /\ Less(conn[d]).key = conn[d].key
          /\ Less(conn[d]).read = conn[d].read
      BY <3>1, ConstantsAssumption DEF Less, Connection
    <3>4. Sound(Less(conn[d]))  BY <3>1, <3>3 DEF Sound, SessionOfStage, Entitled
    <3> QED  BY <2>2, <3>1, <3>2, <3>3, <3>4, ConnectionIsNotIdle DEF Alive
  <2> QED  BY <2>1, <2>2
<1>7. Connections(conn')  BY <1>6 DEF Tick, Connections
<1>8. \A i \in DOMAIN tickets : HoldersIn(conn', i) = HoldersIn(conn, i)
  BY <1>6 DEF HoldersIn, Alive
<1>9. Balanced(tickets', conn')  BY <1>2, <1>3, <1>4, <1>8 DEF Balanced
<1>10. \A d \in Conns : conn'[d] # Idle => Sound(conn'[d])
  BY <1>6 DEF Alive
<1> QED  BY <1>1, <1>5, <1>7, <1>9, <1>10, UnchangedFlags, Assemble

\* register_session, prune, erase and clear.
LEMMA RegistrySteps ==
  ASSUME IInv,
         \/ \E r \in Requests : RegisterRefused(r) \/ RegisterReplaces(r) \/ RegisterAccepts(r)
         \/ Prune \/ ClearAll \/ \E i \in 1..lastId : ControlConnected(i)
  PROVE  IInv'
<1>1. ASSUME NEW S, tickets' = Without(tickets, S),
             UNCHANGED <<lastId, session, started, streams, conn>>
      PROVE  IInv'
  <2>1. Registry(tickets) /\ Balanced(tickets, conn)  BY IInvFacts
  <2>2. Registry(tickets') /\ Balanced(tickets', conn)
    BY <1>1, <2>1, WithoutBalanced, WithoutType
  <2> QED  BY <1>1, <2>2, RegistryStep
<1>2. ASSUME tickets' = prune_locked(tickets),
             UNCHANGED <<lastId, session, started, streams, conn>>
      PROVE  IInv'
  BY <1>2, IInvFacts, RegistryStep
<1>3. ASSUME NEW r \in Requests, RegisterRefused(r) PROVE IInv'
  BY <1>2, <1>3 DEF RegisterRefused
<1>4. ASSUME NEW r \in Requests, RegisterReplaces(r) PROVE IInv'
  <2>1. PICK i \in DOMAIN prune_locked(tickets) :
          /\ NewSession(r)
          /\ tickets' = [j \in (DOMAIN prune_locked(tickets) \ {i}) \cup {lastId + 1} |->
                           IF j = lastId + 1 THEN Fresh ELSE prune_locked(tickets)[j]]
    BY <1>4 DEF RegisterReplaces
  <2>2. DOMAIN prune_locked(tickets) \ {i} \in SUBSET DOMAIN prune_locked(tickets)
    OBVIOUS
  <2> QED  BY <2>1, <2>2, NewTicketStep
<1>5. ASSUME NEW r \in Requests, RegisterAccepts(r) PROVE IInv'
  <2>1. /\ NewSession(r)
        /\ tickets' = [j \in DOMAIN prune_locked(tickets) \cup {lastId + 1} |->
                         IF j = lastId + 1 THEN Fresh ELSE prune_locked(tickets)[j]]
    BY <1>5 DEF RegisterAccepts
  <2> QED  BY <2>1, NewTicketStep
<1> QED  BY <1>1, <1>2, <1>3, <1>4, <1>5 DEF Prune, ClearAll, ControlConnected

LEMMA NextIInv == IInv /\ [Next]_vars => IInv'
<1> SUFFICES ASSUME IInv, [Next]_vars PROVE IInv'  OBVIOUS
<1>1. ASSUME UNCHANGED vars PROVE IInv'
  BY <1>1, IInvFacts, RegistryStep DEF vars
<1>2. ASSUME NEW c \in Conns, ReadHandler(c) PROVE IInv'
  BY <1>2, FailedReadStep, InitialEncryptedStep, InitialPlaintextStep, EncryptedStep,
     PlainStep DEF ReadHandler
<1> QED
  BY <1>1, <1>2, RegistrySteps, AcceptStep, ReadCompletesStep, TimerStep, TickStep DEF Next

\* Every reachable state is well typed and its claims match the connections
\* that hold them; no connection holds a session it is not entitled to, and no
\* launch gets a second stream.
THEOREM LaunchSafety ==
  Spec => [](TypeOK /\ ClaimsMatchHolders /\ ClaimsAuthentic /\ OneStreamPerTicket)
<1>1. Spec => []IInv  BY InitIInv, NextIInv, PTL DEF Spec
<1> QED  BY <1>1, IInvImplies, PTL

\* The registry, the connections and the sessions are of their types.
THEOREM LaunchTypes == Spec => []TypeOK
BY LaunchSafety, PTL

\* A connection acts only for a session of its own key, and without a key only
\* for one of its own address.
THEOREM LaunchAuthentic == Spec => []ClaimsAuthentic
BY LaunchSafety, PTL

\* One launch creates at most one stream, however often its requests are repeated.
THEOREM LaunchOneStream == Spec => []OneStreamPerTicket
BY LaunchSafety, PTL

-----------------------------------------------------------------------------
(* How a step changes the registry: what it can drop, and what it can add.  *)

\* A step of the clock, of a reader or of a handler only drops expired tickets.
LEMMA SettleDomain ==
  ASSUME NEW T, NEW c, NEW k, Settle(c, k, T),
         T \in [DOMAIN T -> Ticket]
  PROVE  DOMAIN tickets' = DOMAIN T
<1>1. \A i : DOMAIN release(T, i) = DOMAIN T  BY DEF release
<1> QED  BY <1>1 DEF Settle

LEMMA ClaimDomain ==
  ASSUME NEW T, NEW i \in DOMAIN T, T \in [DOMAIN T -> Ticket]
  PROVE  claim(T, i) \in [DOMAIN T -> Ticket] /\ DOMAIN claim(T, i) = DOMAIN T
<1>1. T[i] \in Ticket  OBVIOUS
<1>2. Claimed(T[i].claims + 1, T[i]) \in Ticket  BY <1>1 DEF Claimed, Ticket
<1> QED  BY <1>2 DEF claim

LEMMA HandlerDomain ==
  ASSUME TypeOK, NEW c \in Conns,
         ReadHandler(c) \/ HandshakeTimer(c)
  PROVE  /\ DOMAIN tickets' = DOMAIN tickets \/ DOMAIN tickets' = DOMAIN prune_locked(tickets)
         /\ UNCHANGED <<lastId, session>>
<1> DEFINE T == prune_locked(tickets)
<1>1. tickets \in [DOMAIN tickets -> Ticket] /\ T \in [DOMAIN T -> Ticket]
  BY PruneType DEF TypeOK, Registry
<1>2. ASSUME NEW k, NEW R \in {tickets, T}, Settle(c, k, R)
      PROVE  DOMAIN tickets' = DOMAIN R
  <2>1. R \in [DOMAIN R -> Ticket]  BY <1>1
  <2> HIDE DEF T
  <2> QED  BY <1>2, <2>1, SettleDomain
<1>3. ASSUME NEW k, NEW i \in DOMAIN T, Settle(c, k, claim(T, i))
      PROVE  DOMAIN tickets' = DOMAIN T
  <2> HIDE DEF T
  <2>1. claim(T, i) \in [DOMAIN claim(T, i) -> Ticket] /\ DOMAIN claim(T, i) = DOMAIN T
    BY <1>1, ClaimDomain
  <2> QED  BY <1>3, <2>1, SettleDomain
<1>4. CASE HandleFailedRead(c)  BY <1>2, <1>4 DEF HandleFailedRead
<1>5. CASE HandleInitialEncrypted(c)  BY <1>2, <1>5 DEF HandleInitialEncrypted
<1>6. CASE HandleInitialPlaintext(c)
  <2> HIDE DEF T
  <2>1. plaintext_matches(T, conn[c].peer) \subseteq DOMAIN T  BY DEF plaintext_matches
  <2> QED  BY <1>2, <1>3, <1>6, <2>1 DEF HandleInitialPlaintext, T
<1>7. CASE HandleEncrypted(c)
  <2> HIDE DEF T
  <2>1. encrypted_matches(T, conn[c].key) \subseteq DOMAIN T  BY DEF encrypted_matches
  <2> QED  BY <1>2, <1>3, <1>7, <2>1 DEF HandleEncrypted, T
<1>8. CASE HandlePlain(c)  BY <1>2, <1>8 DEF HandlePlain
<1>9. CASE HandshakeTimer(c)  BY <1>2, <1>9 DEF HandshakeTimer
<1> QED  BY <1>4, <1>5, <1>6, <1>7, <1>8, <1>9 DEF ReadHandler

\* Every step other than a successful registration only loses tickets.
LEMMA OtherStepsShrink ==
  ASSUME TypeOK, [Next]_vars,
         ~ \E r \in Requests : RegisterReplaces(r) \/ RegisterAccepts(r)
  PROVE  DOMAIN tickets' \subseteq DOMAIN tickets /\ UNCHANGED <<lastId, session>>
<1>1. DOMAIN prune_locked(tickets) \subseteq DOMAIN tickets
  BY DEF prune_locked, Without
<1>2. CASE UNCHANGED vars  BY <1>2 DEF vars
<1>3. CASE \E r \in Requests : RegisterRefused(r)
  BY <1>1, <1>3 DEF RegisterRefused
<1>4. CASE Prune  BY <1>1, <1>4 DEF Prune
<1>5. CASE ClearAll \/ \E i \in 1..lastId : ControlConnected(i)
  BY <1>5 DEF ClearAll, ControlConnected, Without
<1>6. CASE \E c \in Conns : Accept(c) \/ ReadCompletes(c)
  BY <1>6 DEF Accept, ReadCompletes
<1>7. CASE \E c \in Conns : ReadHandler(c) \/ HandshakeTimer(c)
  BY <1>1, <1>7, HandlerDomain
<1>8. CASE Tick  BY <1>8 DEF Tick
<1> QED  BY <1>2, <1>3, <1>4, <1>5, <1>6, <1>7, <1>8 DEF Next

\* What a registration leaves: some of the old tickets and one new one.
LEMMA NewTicketShape ==
  ASSUME TypeOK, NEW r, NewSession(r)
  PROVE  /\ lastId \in Nat /\ lastId + 1 \notin DOMAIN tickets
         /\ session'[lastId + 1] = r
         /\ \A i \in DOMAIN tickets : session'[i] = session[i]
<1>1. lastId \in Nat /\ DOMAIN tickets \subseteq 1..lastId  BY ConstantsAssumption DEF TypeOK
<1>2. session' = [i \in 1..(lastId + 1) |-> IF i = lastId + 1 THEN r ELSE session[i]]
  BY DEF NewSession
<1> QED  BY <1>1, <1>2

LEMMA SameClientEquivalence ==
  ASSUME NEW a, NEW b, NEW d
  PROVE  /\ same_client(a, b) => same_client(b, a)
         /\ same_client(a, b) /\ same_client(d, b) => same_client(a, d)
BY DEF same_client, same_authenticated_client, same_legacy_client

LEMMA OneTicketStep ==
  ASSUME TypeOK, OneTicketPerClient, [Next]_vars
  PROVE  OneTicketPerClient'
<1> DEFINE T == prune_locked(tickets)
           n == lastId + 1
<1>1. DOMAIN T \subseteq DOMAIN tickets  BY DEF prune_locked, Without
<1>2. ASSUME NEW r \in Requests, NewSession(r), NEW D \in SUBSET DOMAIN T,
             DOMAIN tickets' = D \cup {n},
             \A i \in D : ~same_client(session[i], r)
      PROVE  OneTicketPerClient'
  <2>1. /\ session'[n] = r /\ n \notin D
        /\ \A i \in D : session'[i] = session[i] /\ i \in DOMAIN tickets
    BY <1>1, <1>2, NewTicketShape
  <2>2. SUFFICES ASSUME NEW i \in D \cup {n}, NEW j \in D \cup {n},
                        same_client(session'[i], session'[j])
                 PROVE  i = j
    BY <1>2 DEF OneTicketPerClient, same_client, same_authenticated_client, same_legacy_client
  <2> HIDE DEF n, T
  <2>3. CASE i \in D /\ j \in D
    BY <2>1, <2>2, <2>3 DEF OneTicketPerClient
  <2>4. CASE i \in D /\ j = n
    BY <1>2, <2>1, <2>2, <2>4
  <2>5. CASE i = n /\ j \in D
    BY <1>2, <2>1, <2>2, <2>5, SameClientEquivalence
  <2> QED  BY <2>2, <2>3, <2>4, <2>5
<1>3. ASSUME NEW r \in Requests, RegisterReplaces(r) PROVE OneTicketPerClient'
  <2>1. PICK i \in DOMAIN T : /\ same_client(session[i], r) /\ NewSession(r)
                              /\ DOMAIN tickets' = (DOMAIN T \ {i}) \cup {n}
    BY <1>3 DEF RegisterReplaces
  <2>2. ASSUME NEW j \in DOMAIN T \ {i} PROVE ~same_client(session[j], r)
    <3> SUFFICES ASSUME same_client(session[j], r) PROVE FALSE  OBVIOUS
    <3>1. same_client(session[i], session[j])  BY <2>1, SameClientEquivalence
    <3> QED  BY <1>1, <3>1 DEF OneTicketPerClient
  <2> QED  BY <1>2, <2>1, <2>2
<1>4. ASSUME NEW r \in Requests, RegisterAccepts(r) PROVE OneTicketPerClient'
  BY <1>2, <1>4 DEF RegisterAccepts
<1>5. ASSUME ~ \E r \in Requests : RegisterReplaces(r) \/ RegisterAccepts(r)
      PROVE  OneTicketPerClient'
  BY <1>5, OtherStepsShrink DEF OneTicketPerClient, same_client, same_authenticated_client,
     same_legacy_client
<1> QED  BY <1>3, <1>4, <1>5

\* A client never has two tickets at once.
THEOREM LaunchUniqueness == Spec => []OneTicketPerClient
<1>1. Init => OneTicketPerClient  BY DEF Init, OneTicketPerClient
<1>2. Spec => []TypeOK  BY LaunchSafety, PTL
<1> QED  BY <1>1, <1>2, OneTicketStep, PTL DEF Spec

LEMMA TicketsFinite ==
  ASSUME TypeOK
  PROVE  IsFiniteSet(DOMAIN tickets)
<1>1. DOMAIN tickets \subseteq 1..lastId /\ lastId \in Nat
  BY ConstantsAssumption DEF TypeOK
<1>2. IsFiniteSet(1..lastId)  BY <1>1, FS_Interval
<1> QED  BY <1>1, <1>2, FS_Subset

LEMMA SmallerSet ==
  ASSUME NEW S, NEW D \in SUBSET S, IsFiniteSet(S), NEW L \in Nat, Cardinality(S) <= L
  PROVE  Cardinality(D) <= L /\ IsFiniteSet(D)
<1>1. IsFiniteSet(D) /\ Cardinality(D) <= Cardinality(S)  BY FS_Subset
<1>2. Cardinality(D) \in Nat /\ Cardinality(S) \in Nat  BY <1>1, FS_CardinalityType
<1> QED  BY <1>1, <1>2

\* Putting one element in the place of another of a bounded set.
LEMMA Replaced ==
  ASSUME NEW S, NEW x \in S, NEW y, IsFiniteSet(S), NEW L \in Nat, Cardinality(S) <= L
  PROVE  Cardinality((S \ {x}) \cup {y}) <= L
<1>1. Cardinality(S) \in Nat  BY FS_CardinalityType
<1>2. IsFiniteSet(S \ {x}) /\ Cardinality(S \ {x}) = Cardinality(S) - 1
  BY FS_RemoveElement
<1>3. \/ Cardinality((S \ {x}) \cup {y}) = Cardinality(S \ {x}) + 1
      \/ Cardinality((S \ {x}) \cup {y}) = Cardinality(S \ {x})
  BY <1>2, FS_AddElement
<1> QED  BY <1>1, <1>2, <1>3

LEMMA Grown ==
  ASSUME NEW S, NEW y, IsFiniteSet(S), NEW L \in Nat, ~(Cardinality(S) >= L)
  PROVE  Cardinality(S \cup {y}) <= L
<1>1. Cardinality(S) \in Nat  BY FS_CardinalityType
<1>2. \/ Cardinality(S \cup {y}) = Cardinality(S) + 1
      \/ Cardinality(S \cup {y}) = Cardinality(S)
  BY FS_AddElement
<1> QED  BY <1>1, <1>2

LEMMA LimitsStep ==
  ASSUME TypeOK, WithinLimits, [Next]_vars
  PROVE  WithinLimits'
<1> DEFINE T == prune_locked(tickets)
           n == lastId + 1
<1>1. DOMAIN T \subseteq DOMAIN tickets  BY DEF prune_locked, Without
<1>2. \A p : peer_tickets(T, p) \subseteq peer_tickets(tickets, p)
  BY <1>1 DEF peer_tickets
<1>3. IsFiniteSet(DOMAIN tickets) /\ \A p : IsFiniteSet(peer_tickets(tickets, p))
  <2>1. \A p : peer_tickets(tickets, p) \subseteq DOMAIN tickets  BY DEF peer_tickets
  <2> QED  BY <2>1, TicketsFinite, FS_Subset
<1>4. /\ IsFiniteSet(DOMAIN T) /\ Cardinality(DOMAIN T) <= GlobalLimit
      /\ \A p \in Peers \ {NoAddr} : /\ IsFiniteSet(peer_tickets(T, p))
                                     /\ Cardinality(peer_tickets(T, p)) <= PerClientLimit
  <2> HIDE DEF T
  <2> QED  BY <1>1, <1>2, <1>3, SmallerSet, ConstantsAssumption DEF WithinLimits
<1> HIDE DEF T
<1>5. ASSUME NEW r \in Requests, NewSession(r), NEW D \in SUBSET DOMAIN T,
             DOMAIN tickets' = D \cup {n}, NEW p \in Peers \ {NoAddr}
      PROVE  peer_tickets(tickets, p)' =
               {j \in D : session[j].cert = NoCert /\ session[j].peer = p}
                 \cup (IF r.cert = NoCert /\ r.peer = p THEN {n} ELSE {})
  <2>1. /\ session'[n] = r /\ n \notin D
        /\ \A i \in D : session'[i] = session[i]
    BY <1>1, <1>5, NewTicketShape
  <2> HIDE DEF n
  <2> QED  BY <1>5, <2>1 DEF peer_tickets
<1>6. ASSUME NEW r \in Requests, RegisterReplaces(r) PROVE WithinLimits'
  <2>1. PICK i \in DOMAIN T : /\ same_client(session[i], r) /\ NewSession(r)
                              /\ DOMAIN tickets' = (DOMAIN T \ {i}) \cup {n}
    BY <1>6 DEF RegisterReplaces, T
  <2>2. Cardinality(DOMAIN tickets') <= GlobalLimit
    BY <1>4, <2>1, Replaced, ConstantsAssumption
  <2>3. ASSUME NEW p \in Peers \ {NoAddr} PROVE Cardinality(peer_tickets(tickets, p)') <= PerClientLimit
    <3> DEFINE D == DOMAIN T \ {i}
    <3>1. peer_tickets(tickets, p)' =
            {j \in D : session[j].cert = NoCert /\ session[j].peer = p}
              \cup (IF r.cert = NoCert /\ r.peer = p THEN {n} ELSE {})
      <4>1. D \in SUBSET DOMAIN T /\ DOMAIN tickets' = D \cup {n}  BY <2>1
      <4> HIDE DEF D
      <4> QED  BY <1>5, <2>1, <4>1
    <3>2. CASE r.cert = NoCert /\ r.peer = p
      <4>1. i \in peer_tickets(T, p)
        BY <2>1, <3>2 DEF peer_tickets, same_client, same_authenticated_client,
           same_legacy_client
      <4>2. peer_tickets(tickets, p)' = (peer_tickets(T, p) \ {i}) \cup {n}
        BY <3>1, <3>2 DEF peer_tickets
      <4> QED  BY <1>4, <4>1, <4>2, Replaced, ConstantsAssumption
    <3>3. CASE ~(r.cert = NoCert /\ r.peer = p)
      <4>1. peer_tickets(tickets, p)' \subseteq peer_tickets(T, p)
        BY <3>1, <3>3 DEF peer_tickets
      <4> QED  BY <1>4, <4>1, SmallerSet, ConstantsAssumption
    <3> QED  BY <3>2, <3>3
  <2> QED  BY <2>2, <2>3 DEF WithinLimits, peer_tickets
<1>7. ASSUME NEW r \in Requests, RegisterAccepts(r) PROVE WithinLimits'
  <2>1. NewSession(r) /\ ~at_limit(T, r) /\ DOMAIN tickets' = DOMAIN T \cup {n}
    BY <1>7 DEF RegisterAccepts, T
  <2>2. Cardinality(DOMAIN tickets') <= GlobalLimit
    BY <1>4, <2>1, Grown, ConstantsAssumption DEF at_limit
  <2>3. ASSUME NEW p \in Peers \ {NoAddr} PROVE Cardinality(peer_tickets(tickets, p)') <= PerClientLimit
    <3>1. peer_tickets(tickets, p)' =
            peer_tickets(T, p) \cup (IF r.cert = NoCert /\ r.peer = p THEN {n} ELSE {})
      BY <1>5, <2>1 DEF peer_tickets
    <3>2. CASE r.cert = NoCert /\ r.peer = p
      BY <1>4, <2>1, <3>1, <3>2, Grown, ConstantsAssumption DEF at_limit
    <3>3. CASE ~(r.cert = NoCert /\ r.peer = p)
      <4>1. peer_tickets(tickets, p)' = peer_tickets(T, p)  BY <3>1, <3>3
      <4> QED  BY <1>4, <4>1
    <3> QED  BY <3>2, <3>3
  <2> QED  BY <2>2, <2>3 DEF WithinLimits, peer_tickets
<1>8. ASSUME ~ \E r \in Requests : RegisterReplaces(r) \/ RegisterAccepts(r)
      PROVE  WithinLimits'
  <2>1. DOMAIN tickets' \subseteq DOMAIN tickets /\ session' = session
    BY <1>8, OtherStepsShrink
  <2>2. \A p : peer_tickets(tickets, p)' \subseteq peer_tickets(tickets, p)
    BY <2>1 DEF peer_tickets
  <2>3. Cardinality(DOMAIN tickets') <= GlobalLimit
    BY <1>3, <2>1, SmallerSet, ConstantsAssumption DEF WithinLimits
  <2>4. \A p \in Peers \ {NoAddr} : Cardinality(peer_tickets(tickets, p)') <= PerClientLimit
    BY <1>3, <2>2, SmallerSet, ConstantsAssumption DEF WithinLimits
  <2> QED  BY <2>3, <2>4 DEF WithinLimits, peer_tickets
<1> QED  BY <1>6, <1>7, <1>8

\* The registry never grows past its two limits.
THEOREM LaunchLimits == Spec => []WithinLimits
<1>1. Init => WithinLimits
  <2> SUFFICES ASSUME Init PROVE WithinLimits  OBVIOUS
  <2>1. DOMAIN tickets = {} /\ \A p : peer_tickets(tickets, p) = {}
    BY DEF Init, peer_tickets
  <2>2. Cardinality(DOMAIN tickets) = 0 /\ \A p : Cardinality(peer_tickets(tickets, p)) = 0
    BY <2>1, FS_EmptySet
  <2> QED  BY <2>2, ConstantsAssumption DEF WithinLimits
<1>2. Spec => []TypeOK  BY LaunchSafety, PTL
<1> QED  BY <1>1, <1>2, LimitsStep, PTL DEF Spec

-----------------------------------------------------------------------------
(* Who gets a session. *)

\* A connection gets none in a step that leaves it alone, or in which it settles
\* without a session and starts no stream.
LEMMA GetsNothing ==
  ASSUME NEW c \in Conns, NEW i \in Ids, Gets(c, i),
         \/ conn'[c] = conn[c]
         \/ /\ started' = started
            /\ conn'[c] = Idle \/ conn'[c].sess = NoId
  PROVE  FALSE
BY ConstantsAssumption DEF Gets, Ids, NoId, Alive

LEMMA SettledConn ==
  ASSUME TypeOK, NEW d \in Conns, NEW k, NEW T, Settle(d, k, T)
  PROVE  /\ \A c \in Conns \ {d} : conn'[c] = conn[c]
         /\ conn'[d] = k \/ conn'[d] = Idle
BY DEF Settle, TypeOK

\* The only handler steps that give connection c a session are the two claims.
LEMMA GetsByClaim ==
  ASSUME IInv, NEW c \in Conns, NEW i \in Ids, Gets(c, i), [Next]_vars
  PROVE  \/ /\ HandleInitialPlaintext(c)
            /\ plaintext_matches(prune_locked(tickets), conn[c].peer) = {i}
         \/ /\ HandleEncrypted(c)
            /\ encrypted_matches(prune_locked(tickets), conn[c].key) = {i}
<1> DEFINE T == prune_locked(tickets)
<1>0. TypeOK /\ Alive(c) /\ conn[c].sess = NoId /\ conn[c] \in Connection /\ Sound(conn[c])
  BY AliveFacts DEF IInv, Gets
<1>1. CASE UNCHANGED conn  BY <1>1, GetsNothing
<1>2. ASSUME NEW d \in Conns \ {c}, NEW k, NEW R, Settle(d, k, R) PROVE FALSE
  BY <1>0, <1>2, SettledConn, GetsNothing
<1>3. ASSUME NEW k, NEW R, Settle(c, k, R), k.sess = NoId, started' = started PROVE FALSE
  BY <1>0, <1>3, SettledConn, GetsNothing
<1>4. ASSUME NEW k, NEW R, NEW j \in Ids, Settle(c, k, R), k.sess = j,
             started' = started \/ Command(j)
      PROVE  i = j
  <2>1. conn'[c] = k \/ conn'[c] = Idle  BY <1>0, <1>4, SettledConn
  <2>2. started'[i] # started[i] => i = j  BY <1>0, <1>4 DEF Command, TypeOK
  <2> QED  BY <1>4, <2>1, <2>2 DEF Gets
<1>5. ASSUME NEW k, k \in {Reread(conn[c]), Closed(conn[c]), Handled(conn[c])}
      PROVE  k.sess = NoId
  BY <1>0, <1>5, ConnectionUpdates
<1>6. CASE \E r \in Requests : RegisterRefused(r) \/ RegisterReplaces(r) \/ RegisterAccepts(r)
  BY <1>1, <1>6 DEF RegisterRefused, RegisterReplaces, RegisterAccepts, NewSession
<1>7. CASE Prune \/ ClearAll \/ \E j \in 1..lastId : ControlConnected(j)
  BY <1>1, <1>7 DEF Prune, ClearAll, ControlConnected
<1>8. CASE \E d \in Conns : Accept(d) \/ ReadCompletes(d)
  <2>1. PICK d \in Conns : Accept(d) \/ ReadCompletes(d)  BY <1>8
  <2>2. started' = started  BY <2>1 DEF Accept, ReadCompletes
  <2>3. CASE d # c
    BY <1>0, <2>1, <2>3, GetsNothing DEF Accept, ReadCompletes, TypeOK
  <2>4. CASE d = c
    <3>1. ReadCompletes(c)  BY <1>0, <2>1, <2>4 DEF Accept
    <3>2. conn'[c].sess = NoId  BY <1>0, <3>1 DEF ReadCompletes, TypeOK, Connection
    <3> QED  BY <2>2, <3>2, GetsNothing
  <2> QED  BY <2>3, <2>4
<1>9. CASE \E d \in Conns \ {c} : ReadHandler(d) \/ HandshakeTimer(d)
  BY <1>2, <1>9 DEF ReadHandler, HandleFailedRead, HandleInitialEncrypted,
     HandleInitialPlaintext, HandleEncrypted, HandlePlain, HandshakeTimer
<1>10. CASE HandleFailedRead(c)  BY <1>3, <1>5, <1>10 DEF HandleFailedRead
<1>11. CASE HandleInitialEncrypted(c)
  <2> DEFINE q == [conn[c] EXCEPT !.stage = "encrypted"]
  <2>1. q \in Connection /\ q.sess = NoId  BY <1>0 DEF Connection
  <2>2. Settle(c, Reread(q), tickets) /\ started' = started
    BY <1>11 DEF HandleInitialEncrypted
  <2> HIDE DEF q
  <2>3. Reread(q).sess = NoId  BY <2>1, ConnectionUpdates
  <2> QED  BY <1>3, <2>2, <2>3
<1>12. CASE HandleInitialPlaintext(c)
  <2> DEFINE M == plaintext_matches(T, conn[c].peer)
  <2>1. started' = started  BY <1>12 DEF HandleInitialPlaintext
  <2>2. ~Settle(c, Closed(conn[c]), T)  BY <1>3, <1>5, <2>1
  <2>3. PICK j \in M :
          /\ M = {j}
          /\ Settle(c, Reread([conn[c] EXCEPT !.stage = "plain", !.sess = j]), claim(T, j))
    BY <1>12, <2>2 DEF HandleInitialPlaintext
  <2>4. j \in Ids
    <3>1. j \in DOMAIN T  BY DEF plaintext_matches
    <3> QED  BY <3>1, IInvFacts, RegistryIds
  <2> DEFINE q == [conn[c] EXCEPT !.stage = "plain", !.sess = j]
  <2>5. q \in Connection /\ q.sess = j  BY <1>0, <2>4 DEF Connection
  <2>6. Settle(c, Reread(q), claim(T, j))  BY <2>3
  <2> HIDE DEF q
  <2>7. Reread(q).sess = j  BY <2>5, ConnectionUpdates
  <2>8. i = j  BY <1>4, <2>1, <2>4, <2>6, <2>7
  <2> QED  BY <1>12, <2>3, <2>8
<1>13. CASE HandleEncrypted(c)
  <2> DEFINE M == encrypted_matches(T, conn[c].key)
  <2>1. ~((\/ Settle(c, Reread(conn[c]), tickets) \/ Settle(c, Closed(conn[c]), tickets)
           \/ Settle(c, Closed(conn[c]), T)) /\ started' = started)
    BY <1>3, <1>5
  <2>2. PICK j \in M :
          /\ M = {j}
          /\ \/ /\ Settle(c, Closed([conn[c] EXCEPT !.sess = j]), claim(T, j))
                /\ started' = started
             \/ /\ Settle(c, Handled([conn[c] EXCEPT !.sess = j]), claim(T, j))
                /\ Command(j)
    BY <1>13, <2>1 DEF HandleEncrypted
  <2>3. j \in Ids
    <3>1. j \in DOMAIN T  BY DEF encrypted_matches
    <3> QED  BY <3>1, IInvFacts, RegistryIds
  <2> DEFINE q == [conn[c] EXCEPT !.sess = j]
  <2>4. q \in Connection /\ q.sess = j  BY <1>0, <2>3 DEF Connection
  <2>5. /\ Settle(c, Closed(q), claim(T, j)) \/ Settle(c, Handled(q), claim(T, j))
        /\ started' = started \/ Command(j)
    BY <2>2
  <2> HIDE DEF q
  <2>6. Closed(q).sess = j /\ Handled(q).sess = j  BY <2>4, ConnectionUpdates
  <2>7. i = j  BY <1>4, <2>3, <2>5, <2>6
  <2> QED  BY <1>13, <2>2, <2>7
<1>14. CASE HandlePlain(c)
  BY <1>0, <1>14 DEF HandlePlain, Sound, SessionOfStage
<1>15. CASE HandshakeTimer(c)
  <2>1. started' = started  BY <1>15 DEF HandshakeTimer
  <2> DEFINE q1 == [conn[c] EXCEPT !.timer = "none", !.open = FALSE,
                                   !.read = IF @ = "pending" THEN "failed" ELSE @]
             q2 == [conn[c] EXCEPT !.timer = "none"]
  <2>2. q1.sess = NoId /\ q2.sess = NoId  BY <1>0 DEF Connection
  <2>3. Settle(c, q1, tickets) \/ Settle(c, q2, tickets)  BY <1>15 DEF HandshakeTimer
  <2> HIDE DEF q1, q2
  <2> QED  BY <1>3, <2>1, <2>2, <2>3
<1>16. CASE Tick
  <2>1. started' = started  BY <1>16 DEF Tick
  <2>2. conn'[c].sess = NoId  BY <1>0, <1>16 DEF Tick, Less, Connection
  <2> QED  BY <2>1, <2>2, GetsNothing
<1> QED
  BY <1>1, <1>6, <1>7, <1>8, <1>9, <1>10, <1>11, <1>12, <1>13, <1>14, <1>15, <1>16
     DEF Next, ReadHandler, vars

LEMMA GetsStep ==
  ASSUME IInv, [Next]_vars, NEW c \in Conns, NEW i \in Ids, Gets(c, i)
  PROVE  /\ i \in DOMAIN tickets /\ Own(c, i)
         /\ \A j \in DOMAIN tickets : Own(c, j) /\ ~Expired(tickets[j]) => j = i
<1> DEFINE T == prune_locked(tickets)
<1>1. /\ DOMAIN T \subseteq DOMAIN tickets
      /\ \A j \in DOMAIN tickets : ~Expired(tickets[j]) => j \in DOMAIN T
  BY DEF prune_locked, Without
<1> HIDE DEF T
<1>2. CASE HandleInitialPlaintext(c) /\ plaintext_matches(T, conn[c].peer) = {i}
  <2>1. conn[c].key = NoKey  BY <1>2 DEF HandleInitialPlaintext
  <2> QED  BY <1>1, <1>2, <2>1 DEF plaintext_matches, Own
<1>3. CASE HandleEncrypted(c) /\ encrypted_matches(T, conn[c].key) = {i}
  <2>1. conn[c].key # NoKey
    BY <1>3, AliveFacts DEF HandleEncrypted, Sound, SessionOfStage
  <2> QED  BY <1>1, <1>3, <2>1 DEF encrypted_matches, Own
<1> QED  BY <1>2, <1>3, GetsByClaim DEF T

\* Whenever a connection gets a session, it is the only one waiting that may be
\* its own: launches behind one address, or with one key, are never mixed up.
THEOREM LaunchUnambiguous == Spec => ClaimsUnambiguous
<1>1. IInv /\ [Next]_vars =>
        [\A c \in Conns, i \in Ids : Gets(c, i) =>
           /\ i \in DOMAIN tickets /\ Own(c, i)
           /\ \A j \in DOMAIN tickets : Own(c, j) /\ ~Expired(tickets[j]) => j = i]_vars
  BY GetsStep
<1>2. Spec => []IInv  BY InitIInv, NextIInv, PTL DEF Spec
<1> QED  BY <1>1, <1>2, PTL DEF Spec, ClaimsUnambiguous

-----------------------------------------------------------------------------
(* Held tickets. *)

LEMMA HeldIsClaimed ==
  ASSUME IInv, NEW i \in DOMAIN tickets, Holders(i) # {}
  PROVE  /\ i \in DOMAIN prune_locked(tickets)
         /\ prune_locked(tickets)[i].state = "claimed"
<1>1. Holders(i) = HoldersIn(conn, i)  BY DEF Holders, HoldersIn, Alive
<1>2. Cardinality(Holders(i)) \in Nat /\ Cardinality(Holders(i)) # 0
  BY <1>1, HoldersFinite, FS_EmptySet
<1>3. tickets[i].state = "claimed"  BY <1>2 DEF IInv, ClaimsMatchHolders
<1> QED  BY <1>3 DEF prune_locked, Without, Expired

LEMMA HeldStep ==
  ASSUME IInv, [Next]_vars, NEW i \in DOMAIN tickets, Holders(i) # {},
         i \notin DOMAIN tickets'
  PROVE  streams[i] > 0 \/ DOMAIN tickets' = {}
<1>1. /\ i \in DOMAIN prune_locked(tickets)
      /\ prune_locked(tickets)[i].state = "claimed"
  BY HeldIsClaimed
<1>2. TypeOK  BY DEF IInv
<1>3. CASE UNCHANGED vars \/ Prune \/ Tick
  BY <1>1, <1>3 DEF vars, Prune, Tick
<1>4. CASE ClearAll  BY <1>4 DEF ClearAll, Without
<1>5. CASE \E j \in 1..lastId : ControlConnected(j)
  BY <1>5 DEF ControlConnected, Without
<1>6. CASE \E c \in Conns : Accept(c) \/ ReadCompletes(c)
  BY <1>6 DEF Accept, ReadCompletes
<1>7. CASE \E c \in Conns : ReadHandler(c) \/ HandshakeTimer(c)
  BY <1>1, <1>2, <1>7, HandlerDomain
<1>8. CASE \E r \in Requests : RegisterRefused(r)
  BY <1>1, <1>8 DEF RegisterRefused
<1>9. CASE \E r \in Requests : RegisterReplaces(r)
  BY <1>1, <1>9 DEF RegisterReplaces
<1>10. CASE \E r \in Requests : RegisterAccepts(r)
  BY <1>1, <1>10 DEF RegisterAccepts
<1> QED  BY <1>3, <1>4, <1>5, <1>6, <1>7, <1>8, <1>9, <1>10 DEF Next

\* A ticket that a connection holds leaves the registry only when its stream
\* exists or everything is cleared: neither the clock nor another launch of the
\* same client can take it.
THEOREM LaunchHeld == Spec => HeldTicketStays
<1>1. IInv /\ [Next]_vars =>
        [\A i \in DOMAIN tickets :
           Holders(i) # {} /\ i \notin DOMAIN tickets' =>
             streams[i] > 0 \/ DOMAIN tickets' = {}]_vars
  BY HeldStep
<1>2. Spec => []IInv  BY InitIInv, NextIInv, PTL DEF Spec
<1> QED  BY <1>1, <1>2, PTL DEF Spec, HeldTicketStays

-----------------------------------------------------------------------------
(* Refinement of LaunchLifecycle. *)

Phase == [i \in Ids |-> IF i > lastId THEN "new"
                        ELSE IF i \in DOMAIN tickets THEN "offered" ELSE "withdrawn"]

LEMMA OfferedIsRegistered ==
  TypeOK => /\ Lifecycle!Offered = DOMAIN tickets
            /\ lastId \in Nat /\ lastId <= MaxLaunches /\ DOMAIN tickets \subseteq Ids
<1> SUFFICES ASSUME TypeOK
             PROVE  /\ Lifecycle!Offered = DOMAIN tickets
                    /\ lastId \in Nat /\ lastId <= MaxLaunches /\ DOMAIN tickets \subseteq Ids
  OBVIOUS
<1>1. /\ lastId \in Nat /\ lastId <= MaxLaunches /\ DOMAIN tickets \subseteq 1..lastId
      /\ DOMAIN tickets \subseteq Ids
  BY ConstantsAssumption DEF TypeOK, Ids
<1>2. \A i \in Ids : i \in DOMAIN tickets => ~(i > lastId)
  BY <1>1
<1>3. \A i \in Ids : Phase[i] = "offered" <=> i \in DOMAIN tickets
  BY <1>1, <1>2 DEF Phase
<1> QED  BY <1>1, <1>3 DEF Lifecycle!Offered, Phase

LEMMA OfferedIsRegisteredNext == TypeOK' => Lifecycle!Offered' = DOMAIN tickets'
<1> SUFFICES ASSUME TypeOK' PROVE Lifecycle!Offered' = DOMAIN tickets'
  OBVIOUS
<1>1. lastId' \in Nat /\ lastId' <= MaxLaunches /\ DOMAIN tickets' \subseteq 1..lastId'
  BY ConstantsAssumption DEF TypeOK
<1>2. \A i \in Ids : i \in DOMAIN tickets' => ~(i > lastId')
  BY <1>1
<1>3. DOMAIN tickets' \subseteq Ids
  BY <1>1, ConstantsAssumption DEF Ids
<1> QED  BY <1>2, <1>3 DEF Lifecycle!Offered

LEMMA SameCardinality == ASSUME NEW S PROVE Lifecycle!Cardinality(S) = Cardinality(S)
  BY DEF Lifecycle!Cardinality, Cardinality

\* Only a command makes a stream, for a launch that has none yet.
LEMMA StreamStep ==
  ASSUME IInv, [Next]_vars
  PROVE  \/ UNCHANGED streams
         \/ /\ \E i \in 1..lastId : streams[i] = 0 /\ streams' = [streams EXCEPT ![i] = 1]
            /\ ~ \E r \in Requests : RegisterReplaces(r) \/ RegisterAccepts(r)
<1>1. ASSUME NEW i \in 1..lastId, Command(i)
      PROVE  \/ UNCHANGED streams
             \/ streams[i] = 0 /\ streams' = [streams EXCEPT ![i] = 1]
  <2>1. i \in Ids  BY ConstantsAssumption DEF IInv, TypeOK, Ids
  <2>2. CASE UNCHANGED streams  BY <2>2
  <2>3. CASE ~started[i] /\ streams' = [streams EXCEPT ![i] = @ + 1]
    <3>1. streams[i] = 0  BY <2>1, <2>3 DEF IInv, StartedMeansStreamed
    <3> QED  BY <2>3, <3>1
  <2> QED  BY <1>1, <2>2, <2>3 DEF Command
<1>2. ASSUME NEW c \in Conns, HandleEncrypted(c)
      PROVE  UNCHANGED streams \/ \E i \in 1..lastId : Command(i)
  <2>1. \A i \in encrypted_matches(prune_locked(tickets), conn[c].key) : i \in 1..lastId
    BY IInvFacts DEF encrypted_matches, Registry
  <2> QED  BY <1>2, <2>1 DEF HandleEncrypted
<1>3. ASSUME NEW c \in Conns, HandlePlain(c)
      PROVE  UNCHANGED streams \/ \E i \in 1..lastId : Command(i)
  <2>1. Sound(conn[c]) /\ conn[c].stage = "plain"
    BY <1>3, AliveFacts DEF HandlePlain
  <2>2. conn[c].sess \in 1..lastId
    BY <2>1, ConstantsAssumption DEF Sound, SessionOfStage, NoId, IInv, TypeOK
  <2> QED  BY <1>3, <2>2 DEF HandlePlain
<1>4. ASSUME NEW c \in Conns, HandleEncrypted(c) \/ HandlePlain(c)
      PROVE  session' = session /\ lastId' = lastId
  BY <1>4 DEF HandleEncrypted, HandlePlain
<1>5. ASSUME \E r \in Requests : RegisterReplaces(r) \/ RegisterAccepts(r)
      PROVE  UNCHANGED streams /\ lastId' # lastId
  <2>1. PICK r \in Requests : NewSession(r)
    BY <1>5 DEF RegisterReplaces, RegisterAccepts
  <2>2. lastId \in Nat  BY ConstantsAssumption DEF IInv, TypeOK
  <2> QED  BY <2>1, <2>2 DEF NewSession
<1>6. CASE \E c \in Conns : HandleEncrypted(c) \/ HandlePlain(c)
  BY <1>1, <1>2, <1>3, <1>4, <1>5, <1>6
<1>7. CASE ~ \E c \in Conns : HandleEncrypted(c) \/ HandlePlain(c)
  BY <1>7 DEF Next, vars, RegisterRefused, RegisterReplaces, RegisterAccepts, NewSession,
     Prune, ControlConnected, ClearAll, Accept, ReadCompletes, ReadHandler, HandleFailedRead,
     HandleInitialEncrypted, HandleInitialPlaintext, HandshakeTimer, Tick
<1> QED  BY <1>6, <1>7

LEMMA RefinementStep ==
  ASSUME IInv, WithinLimits, WithinLimits', [Next]_vars
  PROVE  [Lifecycle!Next]_<<Phase, streams>>
<1> DEFINE W == DOMAIN tickets \ DOMAIN tickets'
<1>1. TypeOK /\ TypeOK'  BY NextIInv DEF IInv
<1>2. /\ Lifecycle!Offered = DOMAIN tickets /\ DOMAIN tickets \subseteq Ids
      /\ lastId \in Nat /\ DOMAIN tickets \subseteq 1..lastId
  BY <1>1, OfferedIsRegistered DEF TypeOK
<1>3. Lifecycle!Offered' = DOMAIN tickets'  BY <1>1, OfferedIsRegisteredNext
<1>4. W \in SUBSET Lifecycle!Offered  BY <1>2
<1>5. CASE \E r \in Requests : RegisterReplaces(r) \/ RegisterAccepts(r)
  <2>0. PICK n \in Ids : n = lastId + 1
    <3>1. \E r \in Requests : NewSession(r)
      BY <1>5 DEF RegisterReplaces, RegisterAccepts
    <3> QED  BY <1>2, <3>1, ConstantsAssumption DEF NewSession, Ids
  <2>1. /\ \E r \in Requests : NewSession(r)
        /\ \E D \in SUBSET DOMAIN prune_locked(tickets) : DOMAIN tickets' = D \cup {n}
    BY <1>5, <2>0 DEF RegisterReplaces, RegisterAccepts
  <2>2. DOMAIN prune_locked(tickets) \subseteq DOMAIN tickets  BY DEF prune_locked, Without
  <2>3. lastId' = n /\ streams' = streams
    BY <2>0, <2>1 DEF NewSession
  <2>4. Phase[n] = "new"  BY <1>2, <2>0 DEF Phase
  <2>5. Phase' = [j \in Ids |-> IF j = n THEN "offered"
                                ELSE IF j \in W THEN "withdrawn" ELSE Phase[j]]
    <3> SUFFICES ASSUME NEW j \in Ids
                 PROVE  Phase'[j] = IF j = n THEN "offered"
                                    ELSE IF j \in W THEN "withdrawn" ELSE Phase[j]
      BY DEF Phase
    <3>1. j \in Nat  BY ConstantsAssumption DEF Ids
    <3>2. n \in DOMAIN tickets' /\ DOMAIN tickets' \subseteq DOMAIN tickets \cup {n}
      BY <2>1, <2>2
    <3>3. Phase'[j] = IF j > lastId' THEN "new"
                      ELSE IF j \in DOMAIN tickets' THEN "offered" ELSE "withdrawn"
      BY DEF Phase
    <3>4. Phase[j] = IF j > lastId THEN "new"
                     ELSE IF j \in DOMAIN tickets THEN "offered" ELSE "withdrawn"
      BY DEF Phase
    <3> QED  BY <1>2, <2>0, <2>3, <3>1, <3>2, <3>3, <3>4
  <2>6. Lifecycle!Cardinality(Lifecycle!Offered') <= GlobalLimit
    BY <1>3, SameCardinality DEF WithinLimits
  <2> HIDE DEF W
  <2>7. Lifecycle!Offer(n)
    BY <1>4, <2>3, <2>4, <2>5, <2>6 DEF Lifecycle!Offer, Phase
  <2>8. Lifecycle!Next
    BY <2>7 DEF Lifecycle!Next
  <2> QED  BY <2>8
<1>6. CASE ~ \E r \in Requests : RegisterReplaces(r) \/ RegisterAccepts(r)
  <2>1. DOMAIN tickets' \subseteq DOMAIN tickets /\ lastId' = lastId
    BY <1>1, <1>6, OtherStepsShrink
  <2>2. Phase' = [j \in Ids |-> IF j \in W THEN "withdrawn" ELSE Phase[j]]
    <3> SUFFICES ASSUME NEW j \in Ids
                 PROVE  Phase'[j] = IF j \in W THEN "withdrawn" ELSE Phase[j]
      BY DEF Phase
    <3>1. j \in DOMAIN tickets => ~(j > lastId)  BY <1>2
    <3> QED  BY <2>1, <3>1 DEF Phase
  <2> HIDE DEF W
  <2>3. CASE UNCHANGED streams
    BY <1>4, <2>2, <2>3 DEF Lifecycle!Next, Lifecycle!Withdraw, Phase
  <2>4. CASE \E i \in 1..lastId : streams[i] = 0 /\ streams' = [streams EXCEPT ![i] = 1]
    <3>1. PICK i \in 1..lastId : streams[i] = 0 /\ streams' = [streams EXCEPT ![i] = 1]
      BY <2>4
    <3>2. i \in Ids /\ ~(i > lastId)
      BY <1>1, <1>2, ConstantsAssumption DEF Ids, TypeOK
    <3>3. Phase[i] # "new"  BY <3>2 DEF Phase
    <3>4. Lifecycle!Stream(i)
      BY <1>4, <2>2, <3>1, <3>3 DEF Lifecycle!Stream, Phase
    <3> QED  BY <3>2, <3>4 DEF Lifecycle!Next
  <2> QED  BY <2>3, <2>4, StreamStep
<1> QED  BY <1>5, <1>6

\* LaunchTickets implements LaunchLifecycle.
THEOREM LaunchRefinement == Spec => LifecycleSpec
<1>1. Init => Lifecycle!Init
  <2> SUFFICES ASSUME Init PROVE Lifecycle!Init  OBVIOUS
  <2>1. \A i \in Ids : i > lastId  BY ConstantsAssumption DEF Init, Ids
  <2> QED  BY <2>1 DEF Init, Lifecycle!Init
<1>2. Spec => []IInv  BY InitIInv, NextIInv, PTL DEF Spec
<1>3. IInv /\ WithinLimits /\ WithinLimits' /\ [Next]_vars =>
        [Lifecycle!Next]_<<Phase, streams>>
  BY RefinementStep
<1>4. IInv /\ WithinLimits /\ WithinLimits' /\ [Next]_vars =>
        [Lifecycle!Next]_<<[i \in Ids |-> IF i > lastId THEN "new"
                             ELSE IF i \in DOMAIN tickets THEN "offered" ELSE "withdrawn"],
                          streams>>
  BY <1>3 DEF Phase
<1> QED
  BY <1>1, <1>2, <1>4, LaunchLimits, PTL DEF Spec, LifecycleSpec, Lifecycle!Spec
-----------------------------------------------------------------------------
(* No connection is forgotten.                                              *)

\* The socket accepts a read only until its timer has fired or is cancelled.
Timed(k) ==
  /\ k.open => k.timer = "armed"
  /\ k.read = "pending" => k.open
  /\ ~Unreferenced(k)

TimedInv == \A c \in Conns : Alive(c) => Timed(conn[c])

\* A handler that leaves a read pending leaves it on an open, timed socket; if
\* it leaves nothing queued the connection is gone.
LEMMA SettleTimed ==
  ASSUME IInv, TimedInv, NEW c \in Conns, NEW k, NEW T, Settle(c, k, T),
         k.open => k.timer = "armed", k.read = "pending" => k.open
  PROVE  TimedInv'
<1>1. conn' = [conn EXCEPT ![c] = IF Unreferenced(k) THEN Idle ELSE k]
  BY DEF Settle
<1>2. /\ conn'[c] = IF Unreferenced(k) THEN Idle ELSE k
      /\ \A d \in Conns \ {c} : conn'[d] = conn[d]
  BY <1>1 DEF IInv, TypeOK
<1> QED  BY <1>2 DEF TimedInv, Timed, Alive

LEMMA UpdatesTimed ==
  ASSUME NEW k \in Connection, k.open => k.timer = "armed"
  PROVE  \A f \in {Reread(k), Closed(k), Handled(k)} :
           /\ f.open => f.timer = "armed"
           /\ f.read = "pending" => f.open
<1>1. /\ Reread(k).open = k.open /\ Reread(k).timer = k.timer
      /\ Reread(k).read = IF k.open THEN "pending" ELSE "failed"
  BY DEF Connection, Reread
<1>2. Closed(k) \in Connection /\ ~Closed(k).open /\ Closed(k).read = "none"
  BY DEF Connection, Closed
<1>3. ~Handled(k).open /\ Handled(k).read = "none"
  <2> DEFINE q == Closed(k)
             t == IF k.timer = "armed" THEN "cancelled" ELSE k.timer
  <2>1. Handled(k) = [q EXCEPT !.timer = t]  BY DEF Handled
  <2>2. q \in Connection /\ ~q.open /\ q.read = "none"  BY <1>2
  <2> HIDE DEF q, t
  <2> QED  BY <2>1, <2>2 DEF Connection
<1> QED  BY <1>1, <1>2, <1>3

LEMMA ReadTimed ==
  ASSUME IInv, TimedInv, NEW c \in Conns, ReadHandler(c)
  PROVE  TimedInv'
<1>0. Alive(c)
  BY DEF ReadHandler, HandleFailedRead, HandleInitialEncrypted, HandleInitialPlaintext,
     HandleEncrypted, HandlePlain
<1>1. conn[c] \in Connection /\ (conn[c].open => conn[c].timer = "armed")
  BY <1>0, AliveFacts DEF TimedInv, Timed
<1>2. ASSUME NEW q \in Connection, q.open = conn[c].open, q.timer = conn[c].timer,
             NEW T, \E k \in {Reread(q), Closed(q), Handled(q)} : Settle(c, k, T)
      PROVE  TimedInv'
  <2>1. PICK k \in {Reread(q), Closed(q), Handled(q)} : Settle(c, k, T)
    BY <1>2
  <2>2. /\ k.open => k.timer = "armed"
        /\ k.read = "pending" => k.open
    BY <1>1, <1>2, UpdatesTimed
  <2> QED  BY <2>1, <2>2, SettleTimed
<1>3. CASE HandleFailedRead(c)
  BY <1>1, <1>2, <1>3 DEF HandleFailedRead
<1>4. CASE HandleInitialEncrypted(c)
  <2> DEFINE q == [conn[c] EXCEPT !.stage = "encrypted"]
  <2>1. q \in Connection /\ q.open = conn[c].open /\ q.timer = conn[c].timer
    BY <1>1 DEF Connection
  <2>2. Settle(c, Reread(q), tickets)  BY <1>4 DEF HandleInitialEncrypted
  <2> HIDE DEF q
  <2> QED  BY <1>2, <2>1, <2>2
<1>5. CASE HandleInitialPlaintext(c)
  <2> DEFINE T == prune_locked(tickets)
  <2>1. CASE Settle(c, Closed(conn[c]), T)
    BY <1>1, <1>2, <2>1
  <2>2. ASSUME NEW i \in plaintext_matches(T, conn[c].peer),
               Settle(c, Reread([conn[c] EXCEPT !.stage = "plain", !.sess = i]), claim(T, i))
        PROVE  TimedInv'
    <3> DEFINE q == [conn[c] EXCEPT !.stage = "plain", !.sess = i]
    <3>1. i \in Ids
      <4>1. Registry(T)  BY IInvFacts
      <4>2. i \in DOMAIN T
        <5> HIDE DEF T
        <5> QED  BY DEF plaintext_matches
      <4> HIDE DEF T
      <4> QED  BY <4>1, <4>2, RegistryIds
    <3>2. q \in Connection /\ q.open = conn[c].open /\ q.timer = conn[c].timer
      BY <1>1, <3>1 DEF Connection
    <3>3. Settle(c, Reread(q), claim(T, i))  BY <2>2
    <3> HIDE DEF q, T
    <3> QED  BY <1>2, <3>2, <3>3
  <2> QED  BY <1>5, <2>1, <2>2 DEF HandleInitialPlaintext
<1>6. CASE HandleEncrypted(c)
  <2> DEFINE T == prune_locked(tickets)
  <2>1. CASE \E k \in {Reread(conn[c]), Closed(conn[c])}, R \in {tickets, T} : Settle(c, k, R)
    BY <1>1, <1>2, <2>1
  <2>2. ASSUME NEW i \in encrypted_matches(T, conn[c].key),
               \E k \in {Closed([conn[c] EXCEPT !.sess = i]), Handled([conn[c] EXCEPT !.sess = i])} :
                 Settle(c, k, claim(T, i))
        PROVE  TimedInv'
    <3> DEFINE q == [conn[c] EXCEPT !.sess = i]
    <3>1. i \in Ids
      <4>1. Registry(T)  BY IInvFacts
      <4>2. i \in DOMAIN T
        <5> HIDE DEF T
        <5> QED  BY DEF encrypted_matches
      <4> HIDE DEF T
      <4> QED  BY <4>1, <4>2, RegistryIds
    <3>2. q \in Connection /\ q.open = conn[c].open /\ q.timer = conn[c].timer
      BY <1>1, <3>1 DEF Connection
    <3>3. \E k \in {Closed(q), Handled(q)} : Settle(c, k, claim(T, i))  BY <2>2
    <3> HIDE DEF q, T
    <3> QED  BY <1>2, <3>2, <3>3
  <2> QED  BY <1>6, <2>1, <2>2 DEF HandleEncrypted
<1>7. CASE HandlePlain(c)
  BY <1>1, <1>2, <1>7 DEF HandlePlain
<1> QED  BY <1>3, <1>4, <1>5, <1>6, <1>7 DEF ReadHandler

LEMMA TimerTimed ==
  ASSUME IInv, TimedInv, NEW c \in Conns, HandshakeTimer(c)
  PROVE  TimedInv'
<1> DEFINE r == IF conn[c].read = "pending" THEN "failed" ELSE conn[c].read
           expired == [conn[c] EXCEPT !.timer = "none", !.open = FALSE, !.read = r]
           cancelled == [conn[c] EXCEPT !.timer = "none"]
<1>1. conn[c] \in Connection /\ Timed(conn[c])
  BY AliveFacts DEF HandshakeTimer, TimedInv
<1>2. CASE Settle(c, expired, tickets)
  <2>1. ~expired.open /\ expired.read = r  BY <1>1 DEF Connection
  <2>2. r # "pending"  OBVIOUS
  <2> HIDE DEF expired, r
  <2> QED  BY <1>2, <2>1, <2>2, SettleTimed
<1>3. CASE conn[c].timer = "cancelled" /\ Settle(c, cancelled, tickets)
  <2>1. ~conn[c].open /\ conn[c].read # "pending"  BY <1>1, <1>3 DEF Timed
  <2>2. cancelled.open = conn[c].open /\ cancelled.read = conn[c].read
    BY <1>1 DEF Connection
  <2> HIDE DEF cancelled
  <2> QED  BY <1>3, <2>1, <2>2, SettleTimed
<1> QED  BY <1>2, <1>3 DEF HandshakeTimer

LEMMA OtherTimed ==
  ASSUME IInv, TimedInv,
         Tick \/ \E c \in Conns : Accept(c) \/ ReadCompletes(c)
  PROVE  TimedInv'
<1>1. ASSUME NEW c \in Conns, Accept(c) PROVE TimedInv'
  <2>1. PICK p \in Peers, key \in Keys \cup {NoKey} :
          conn' = [conn EXCEPT ![c] =
            [stage |-> "initial", peer |-> p, key |-> key, open |-> TRUE,
             read |-> "pending", timer |-> "armed", ttl |-> PingTimeout, sess |-> NoId]]
    BY <1>1 DEF Accept
  <2>2. /\ conn'[c].timer = "armed" /\ conn'[c].open
        /\ \A d \in Conns \ {c} : conn'[d] = conn[d]
    BY <2>1 DEF IInv, TypeOK
  <2> QED  BY <2>2 DEF TimedInv, Timed, Alive, Unreferenced
<1>2. ASSUME NEW c \in Conns, ReadCompletes(c) PROVE TimedInv'
  <2>1. PICK res \in {"ready", "failed"} : conn' = [conn EXCEPT ![c].read = res]
    BY <1>2 DEF ReadCompletes
  <2>2. conn[c] \in Connection /\ Timed(conn[c])
    BY <1>2, AliveFacts DEF ReadCompletes, TimedInv
  <2>3. /\ conn'[c].timer = conn[c].timer /\ conn'[c].open = conn[c].open
        /\ conn'[c].read = res
        /\ \A d \in Conns \ {c} : conn'[d] = conn[d]
    BY <2>1, <2>2 DEF IInv, TypeOK, Connection
  <2> QED  BY <2>2, <2>3 DEF TimedInv, Timed, Alive, Unreferenced
<1>3. CASE Tick
  <2> SUFFICES ASSUME NEW d \in Conns, conn'[d] # Idle PROVE Timed(conn'[d])
    BY DEF TimedInv, Alive, Timed, Unreferenced
  <2>1. conn'[d] = conn[d] \/ (Alive(d) /\ conn'[d] = Less(conn[d]))
    BY <1>3 DEF Tick
  <2>2. Alive(d)  BY <2>1 DEF Alive
  <2>3. conn[d] \in Connection /\ Timed(conn[d])  BY <2>2, AliveFacts DEF TimedInv
  <2>4. /\ conn'[d].timer = conn[d].timer /\ conn'[d].open = conn[d].open
        /\ conn'[d].read = conn[d].read
    BY <2>1, <2>3 DEF Less, Connection
  <2> QED  BY <2>3, <2>4 DEF Timed, Unreferenced
<1> QED  BY <1>1, <1>2, <1>3

LEMMA NextTimed == ASSUME IInv, TimedInv, [Next]_vars PROVE TimedInv'
<1>1. ASSUME conn' = conn PROVE TimedInv'
  BY <1>1 DEF TimedInv, Timed, Alive, Unreferenced
<1>2. CASE \E r \in Requests : RegisterRefused(r) \/ RegisterReplaces(r) \/ RegisterAccepts(r)
  BY <1>1, <1>2 DEF RegisterRefused, RegisterReplaces, RegisterAccepts, NewSession
<1>3. CASE Prune \/ ClearAll \/ (\E i \in 1..lastId : ControlConnected(i)) \/ UNCHANGED vars
  BY <1>1, <1>3 DEF Prune, ClearAll, ControlConnected, vars
<1> QED  BY <1>2, <1>3, ReadTimed, TimerTimed, OtherTimed DEF Next

\* A connection that waits for its peer is timed, and one that does not still
\* has a handler: with the io_context's and the clock's fairness this is why
\* every claim is returned.
THEOREM LaunchNoneForgotten == Spec => []NoneForgotten
<1>1. Init => IInv /\ TimedInv
  BY InitIInv DEF Init, TimedInv, Alive
<1>2. IInv /\ TimedInv /\ [Next]_vars => IInv' /\ TimedInv'
  BY NextIInv, NextTimed
<1>3. TimedInv => NoneForgotten
  BY DEF TimedInv, Timed, NoneForgotten
<1> QED  BY <1>1, <1>2, <1>3, PTL DEF Spec
=============================================================================
