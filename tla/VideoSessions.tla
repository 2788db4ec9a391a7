---------------------------- MODULE VideoSessions ----------------------------
(****************************************************************************)
(* What video_session_state promises: registering and leaving are atomic,   *)
(* the session that finds no other is told it is the first, and while the   *)
(* display is reconfigured there is at most the one session it is           *)
(* reconfigured for, and nobody joins.                                      *)
(****************************************************************************)
EXTENDS Naturals, FiniteSets

CONSTANTS Sessions, Limit

VARIABLES
  registered,      \* the registered video sessions
  first,           \* those of them that were told they are the first
  reconfiguring

Init == registered = {} /\ first = {} /\ reconfiguring = FALSE

Register(s) ==
  /\ ~reconfiguring
  /\ s \notin registered
  /\ Cardinality(registered) < Limit
  /\ registered' = registered \cup {s}
  /\ first' = IF registered = {} THEN first \cup {s} ELSE first
  /\ UNCHANGED reconfiguring

Unregister(s) ==
  /\ s \in registered
  /\ registered' = registered \ {s}
  /\ first' = first \ {s}
  /\ UNCHANGED reconfiguring

BeginReconfiguration ==
  /\ ~reconfiguring
  /\ \E s \in Sessions : registered = {s}
  /\ reconfiguring' = TRUE
  /\ UNCHANGED <<registered, first>>

EndReconfiguration ==
  /\ reconfiguring
  /\ reconfiguring' = FALSE
  /\ UNCHANGED <<registered, first>>

Next ==
  \/ \E s \in Sessions : Register(s) \/ Unregister(s)
  \/ BeginReconfiguration
  \/ EndReconfiguration

Spec == Init /\ [][Next]_<<registered, first, reconfiguring>>
=============================================================================
