------------------------------ MODULE SessionLife ------------------------------
(****************************************************************************)
(* What session::start, stop and join promise of a streaming session and of *)
(* the broadcast context that all share: a session starts once, in a        *)
(* context that is up, stops for good, and is gone for good; the context is *)
(* not taken down before the last started session has gone, and not built   *)
(* again before it is down.                                                 *)
(****************************************************************************)
EXTENDS Naturals

CONSTANT Sessions

VARIABLES
  life,      \* "absent", "announced", "started", "stopping" or "gone"
  context    \* "down", "up" or "ending"

Started == {s \in Sessions : life[s] \in {"started", "stopping"}}

\* The sessions of S are in phase p.
Moved(S, p) == [s \in Sessions |-> IF s \in S THEN p ELSE life[s]]

Init ==
  /\ life = [s \in Sessions |-> "absent"]
  /\ context = "down"

Announce(s) ==
  /\ life[s] = "absent"
  /\ life' = Moved({s}, "announced")
  /\ UNCHANGED context

\* A session that cannot start leaves no trace.
Withdraw(s) ==
  /\ life[s] = "announced"
  /\ life' = Moved({s}, "gone")
  /\ UNCHANGED context

Build ==
  /\ context = "down" /\ context' = "up"
  /\ UNCHANGED life

Start(s) ==
  /\ life[s] = "announced" /\ context = "up"
  /\ life' = Moved({s}, "started")
  /\ UNCHANGED context

Stop(S) ==
  /\ \A s \in S : life[s] = "started"
  /\ life' = Moved(S, "stopping")
  /\ UNCHANGED context

\* Started sessions go, stopped or, at the end of the application or of the host,
\* still running; with the last user the context ends.
Go(S) ==
  /\ S \subseteq Started
  /\ life' = Moved(S, "gone")
  /\ \/ UNCHANGED context
     \/ context = "up" /\ Started \subseteq S /\ context' = "ending"

TearDown ==
  /\ context = "ending" /\ context' = "down"
  /\ UNCHANGED life

Next ==
  \/ \E s \in Sessions : Announce(s) \/ Withdraw(s) \/ Start(s)
  \/ \E S \in SUBSET Sessions : Stop(S) \/ Go(S)
  \/ Build \/ TearDown

Spec == Init /\ [][Next]_<<life, context>>
=============================================================================
