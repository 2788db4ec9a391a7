--------------------------- MODULE VideoSessionGate ---------------------------
(****************************************************************************)
(* video_session_state of src/src/stream.cpp: one atomic word that counts   *)
(* the registered video sessions in its low bits and holds the display's    *)
(* reconfiguration flag in its high bit.  A session registers before its    *)
(* media threads start, on the RTSP thread or whichever thread runs its     *)
(* start(), and unregisters in its join(); the control thread sets the flag *)
(* around a reconfiguration.  All three are compare-and-swap loops, so      *)
(* their loads, swaps, sleeps and wakeups interleave.                       *)
(*                                                                          *)
(* A session object starts once and is joined once, so pc[s] runs from      *)
(* "new" to "gone".                                                         *)
(****************************************************************************)
EXTENDS Naturals, FiniteSets

CONSTANTS
  Sessions,       \* video sessions
  Limit,          \* VIDEO_SESSION_COUNT_MASK
  MaxRequests     \* bound on the reconfigurations that clients ask for

ASSUME GateAssumption ==
  /\ IsFiniteSet(Sessions)
  /\ Limit \in Nat \ {0}
  /\ MaxRequests \in Nat

VARIABLES
  word,        \* video_session_state
  pc,          \* what each session does
  seen,        \* the local copy of the word, in each loop
  first,       \* the sessions whose registration returned "first"
  ctl,         \* what the control thread does
  ctlSeen,     \* its local copy of the word
  requests     \* reconfigurations asked for so far

vars == <<word, pc, seen, first, ctl, ctlSeen, requests>>

Word == [reconfiguring : BOOLEAN, count : 0..Limit]

Steps == {"new", "registering", "waiting", "asleep", "refused",
          "starting", "running", "leaving", "gone"}

Init ==
  /\ word = [reconfiguring |-> FALSE, count |-> 0]
  /\ pc = [s \in Sessions |-> "new"]
  /\ seen = [s \in Sessions |-> [reconfiguring |-> FALSE, count |-> 0]]
  /\ first = {}
  /\ ctl = "idle"
  /\ ctlSeen = [reconfiguring |-> FALSE, count |-> 0]
  /\ requests = 0

\* One step of session s: from one point of its code to another.
Go(s, from, to) == pc[s] = from /\ pc' = [pc EXCEPT ![s] = to]

Reload(s) == seen' = [seen EXCEPT ![s] = word]

-----------------------------------------------------------------------------
(* register_video_session *)

RegisterLoad(s) ==
  /\ Go(s, "new", "registering")
  /\ Reload(s)
  /\ UNCHANGED <<word, first, ctl, ctlSeen, requests>>

RegisterMustWait(s) ==
  /\ Go(s, "registering", "waiting")
  /\ seen[s].reconfiguring
  /\ UNCHANGED <<word, seen, first, ctl, ctlSeen, requests>>

RegisterExhausted(s) ==
  /\ Go(s, "registering", "refused")
  /\ ~seen[s].reconfiguring /\ seen[s].count = Limit
  /\ UNCHANGED <<word, seen, first, ctl, ctlSeen, requests>>

\* Mutations of RegisterSwap: room for one session too many; no look at the flag.
MutRegisterOverflows(s) ==
  /\ Go(s, "registering", "starting")
  /\ ~seen[s].reconfiguring /\ seen[s].count <= Limit
  /\ word = seen[s]
  /\ word' = [word EXCEPT !.count = seen[s].count + 1]
  /\ first' = IF seen[s].count = 0 THEN first \cup {s} ELSE first
  /\ UNCHANGED <<seen, ctl, ctlSeen, requests>>
MutRegisterIntrudes(s) ==
  /\ Go(s, "registering", "starting")
  /\ seen[s].count < Limit
  /\ word = seen[s]
  /\ word' = [word EXCEPT !.count = seen[s].count + 1]
  /\ first' = IF seen[s].count = 0 THEN first \cup {s} ELSE first
  /\ UNCHANGED <<seen, ctl, ctlSeen, requests>>

RegisterSwap(s) ==
  /\ Go(s, "registering", "starting")
  /\ ~seen[s].reconfiguring /\ seen[s].count < Limit
  /\ word = seen[s]
  /\ word' = [word EXCEPT !.count = seen[s].count + 1]
  /\ first' = IF seen[s].count = 0 THEN first \cup {s} ELSE first
  /\ UNCHANGED <<seen, ctl, ctlSeen, requests>>

\* The swap fails: somebody changed the word.  (A spurious failure of the weak
\* swap reloads the same word and is a stutter.)
RegisterRetry(s) ==
  /\ pc[s] = "registering"
  /\ ~seen[s].reconfiguring /\ seen[s].count < Limit
  /\ word # seen[s]
  /\ Reload(s)
  /\ UNCHANGED <<word, pc, first, ctl, ctlSeen, requests>>

(* boost::atomic::wait: it returns the value once it differs from the one   *)
(* given, and sleeps, after comparing again, while it does not.             *)

WaitSleeps(s) ==
  /\ Go(s, "waiting", "asleep")
  /\ word = seen[s]
  /\ UNCHANGED <<word, seen, first, ctl, ctlSeen, requests>>

WaitReturns(s) ==
  /\ Go(s, "waiting", "registering")
  /\ word # seen[s]
  /\ Reload(s)
  /\ UNCHANGED <<word, first, ctl, ctlSeen, requests>>

-----------------------------------------------------------------------------
(* The rest of start(), and join() with unregister_video_session.           *)

Started(s) ==
  /\ Go(s, "starting", "running")
  /\ UNCHANGED <<word, seen, first, ctl, ctlSeen, requests>>

UnregisterLoad(s) ==
  /\ Go(s, "running", "leaving")
  /\ Reload(s)
  /\ UNCHANGED <<word, first, ctl, ctlSeen, requests>>

UnregisterSwap(s) ==
  /\ Go(s, "leaving", "gone")
  /\ seen[s].count > 0
  /\ word = seen[s]
  /\ word' = [word EXCEPT !.count = seen[s].count - 1]
  /\ first' = first \ {s}
  /\ UNCHANGED <<seen, ctl, ctlSeen, requests>>

UnregisterRetry(s) ==
  /\ pc[s] = "leaving"
  /\ seen[s].count > 0
  /\ word # seen[s]
  /\ Reload(s)
  /\ UNCHANGED <<word, pc, first, ctl, ctlSeen, requests>>

-----------------------------------------------------------------------------
(* run_display_reconfiguration_if_single_video_session, on the control      *)
(* thread, for a resolution change that any connected client asks for, one  *)
(* without video included.                                                  *)

ReconfigureLoad ==
  /\ ctl = "idle" /\ ctl' = "testing"
  /\ requests < MaxRequests
  /\ requests' = requests + 1
  /\ ctlSeen' = word
  /\ UNCHANGED <<word, pc, seen, first>>

ReconfigureSkip ==
  /\ ctl = "testing" /\ ctl' = "idle"
  /\ ctlSeen.reconfiguring \/ ctlSeen.count # 1
  /\ UNCHANGED <<word, pc, seen, first, ctlSeen, requests>>

ReconfigureSwap ==
  /\ ctl = "testing" /\ ctl' = "working"
  /\ ~ctlSeen.reconfiguring /\ ctlSeen.count = 1
  /\ word = ctlSeen
  /\ word' = [word EXCEPT !.reconfiguring = TRUE]
  /\ UNCHANGED <<pc, seen, first, ctlSeen, requests>>

ReconfigureRetry ==
  /\ ctl = "testing"
  /\ ~ctlSeen.reconfiguring /\ ctlSeen.count = 1
  /\ word # ctlSeen
  /\ ctlSeen' = word
  /\ UNCHANGED <<word, pc, seen, first, ctl, requests>>

\* The guard at the end of the operation: fetch_and, then notify_all.
ReconfigureEnd ==
  /\ ctl = "working" /\ ctl' = "notifying"
  /\ word' = [word EXCEPT !.reconfiguring = FALSE]
  /\ UNCHANGED <<pc, seen, first, ctlSeen, requests>>

\* Mutation of ReconfigureNotify: nobody is notified.
MutReconfigureNotify ==
  /\ ctl = "notifying" /\ ctl' = "idle"
  /\ UNCHANGED <<word, pc, seen, first, ctlSeen, requests>>

ReconfigureNotify ==
  /\ ctl = "notifying" /\ ctl' = "idle"
  /\ pc' = [s \in Sessions |-> IF pc[s] = "asleep" THEN "waiting" ELSE pc[s]]
  /\ UNCHANGED <<word, seen, first, ctlSeen, requests>>

-----------------------------------------------------------------------------
Register(s) ==
  \/ RegisterLoad(s) \/ RegisterMustWait(s) \/ RegisterExhausted(s)
  \/ RegisterSwap(s) \/ RegisterRetry(s)
  \/ WaitSleeps(s) \/ WaitReturns(s)

Unregister(s) ==
  UnregisterLoad(s) \/ UnregisterSwap(s) \/ UnregisterRetry(s)

Reconfigure ==
  \/ ReconfigureLoad \/ ReconfigureSkip \/ ReconfigureSwap
  \/ ReconfigureRetry \/ ReconfigureEnd \/ ReconfigureNotify

Next ==
  \/ \E s \in Sessions : Register(s) \/ Started(s) \/ Unregister(s)
  \/ Reconfigure

Spec == Init /\ [][Next]_vars

\* Every thread goes on while it can; a session need not start or end, and a
\* client need not ask for a reconfiguration.
Fairness ==
  /\ \A s \in Sessions : WF_vars(Register(s) /\ pc[s] # "new")
  /\ WF_vars(Reconfigure /\ ctl # "idle")

FairSpec == Spec /\ Fairness
-----------------------------------------------------------------------------
(* Properties. *)

TypeOK ==
  /\ word \in Word
  /\ pc \in [Sessions -> Steps]
  /\ seen \in [Sessions -> Word]
  /\ first \subseteq Sessions
  /\ ctl \in {"idle", "testing", "working", "notifying"}
  /\ ctlSeen \in Word
  /\ requests \in 0..MaxRequests

registered == {s \in Sessions : pc[s] \in {"starting", "running", "leaving"}}

\* The low bits count the registered sessions, whatever swaps fail and retry:
\* the session that sees zero on leaving really is the last one.
CountMatches == word.count = Cardinality(registered)

\* The branch for a count that is already zero is never taken: a session that
\* leaves is still counted in every word it reads.
NeverAtZero == \A s \in Sessions : pc[s] = "leaving" => seen[s].count > 0

\* The flag belongs to the control thread alone.
FlagMatches == word.reconfiguring <=> ctl = "working"

\* A session sleeps only while the control thread has still to notify it: none
\* falls asleep after the notification of the reconfiguration that it waits for.
SleepersAreWoken == \A s \in Sessions : pc[s] = "asleep" => ctl \in {"working", "notifying"}

\* No session is refused for want of a number (the exhaustion branch).
NoneRefused == \A s \in Sessions : pc[s] # "refused"

\* The word implements VideoSessions: registration, leaving and the decision
\* to reconfigure take effect atomically, the first session and only the first
\* is told so, and nobody registers during a reconfiguration.
Gate == INSTANCE VideoSessions WITH reconfiguring <- word.reconfiguring
GateSpec == Gate!Spec

\* A session that waits for a reconfiguration to end is woken and gets its
\* registration or its refusal (no wakeup is lost between the wait's
\* comparison and the notification).
Answered == \A s \in Sessions : pc[s] = "asleep" ~> pc[s] \in {"starting", "refused"}
=============================================================================
