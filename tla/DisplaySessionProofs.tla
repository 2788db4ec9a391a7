------------------------- MODULE DisplaySessionProofs -------------------------
(****************************************************************************)
(* Proofs about DisplaySession, for any layouts, any number of retries and  *)
(* of tasks.                                                                *)
(*                                                                          *)
(* Whatever the clients ask for, what waits in the hands of the workers can *)
(* still be done (Sane, HeldFor), and none of them acts against a stream.   *)
(* When the clients of a host ask for the same kind of display, the user's  *)
(* layout is either shown, or to be shown again once the virtual display is *)
(* gone, or in the snapshot (Kept).                                         *)
(****************************************************************************)
EXTENDS DisplaySession, TLAPS

\* The clients of one host all ask for the virtual display or none of them does;
\* with other clients OriginalKept does not hold.
Alike == \A o \in Offers : o \subseteq VddRequests \/ o \cap VddRequests = {}

\* What holds of session_t's state x, asked for the requests in o: a restore
\* that is pending has its session, and an apply that was put off still has
\* the virtual display and the session it was put off for.
Sane(x, o) ==
  /\ x \in Display
  /\ x.pending \/ x.timer.kind = "apply" => x.use_vdd # "none"
  /\ x.timer.kind = "apply" => x.timer.request \in o
  /\ x.timer.kind = "apply" /\ x.timer.request \in VddRequests => x.vdd
  /\ x.shown \in VddLayouts => x.vdd
  /\ x.shown \notin VddLayouts => x.shown = x.base
  /\ o \cap VddRequests = {} => ~x.vdd /\ x.pre = NoSnap
  /\ o \cap VddRequests = {} /\ x.timer.kind = "apply" => x.timer.pre = NoSnap

\* Nobody is to try a restore without a snapshot, nor beside a deferred apply,
\* which may let the snapshot go.
Tried(x) ==
  /\ x.pending /\ ToBeTried(x) => x.saved # NoSnap
  /\ x.timer.kind = "apply" => ~ToBeTried(x)

\* What the mutex is held for is still there.
HeldFor(x) ==
  /\ x.holder \in {"add_locked", "add_unlocked", "task", "poll"} => x.pending
  /\ x.holder = "poll" => x.timer.kind = "restore"
  /\ x.holder = "apply" => x.timer.kind = "apply"
  /\ x.timer.kind = "restore" /\ x.holder # "poll" => x.timer.tries < MaxRetries

\* Where the layout h of the user is: with no snapshot, or no session, it is
\* there beneath the virtual display, and a first snapshot will take it down.
Kept(x, h) ==
  /\ h \in Physical
  /\ x.saved \in {NoSnap, h}
  /\ x.saved = NoSnap \/ x.use_vdd = "none" => x.base = h
  /\ x.saved = NoSnap => x.pre \in {NoSnap, h}
  /\ x.saved = NoSnap /\ x.timer.kind = "apply" => x.timer.pre \in {NoSnap, h}

\* A session that was forgotten leaves no virtual display on the screen.
Cleared(x) == x.use_vdd = "none" => x.shown \notin VddLayouts

GoodInv ==
  /\ TypeOK
  /\ Sane(d, offered)
  /\ HeldFor(d)
  /\ Tried(d)
  /\ d.holder \in {"task", "poll", "apply"} => host \notin {"configured", "streaming"}
  /\ ~up => d.use_vdd = "none" /\ d.holder = "free"

LayoutInv ==
  /\ GoodInv
  /\ Expected => Kept(d, home)
  /\ Expected /\ up => Cleared(d)

-----------------------------------------------------------------------------
(* The operators on the state keep it sane.                                 *)

LEMMA LayoutTypes ==
  /\ Requests \subseteq Layouts /\ {Orig, Other, Extended} \subseteq Layouts
  /\ Orig \in Physical /\ Other \in Physical /\ Extended \in VddLayouts
  /\ VddLayouts \subseteq Layouts /\ Requests \ VddRequests \subseteq Physical
  /\ Physical \subseteq Layouts /\ NoSnap \notin Layouts /\ Void \notin Layouts
  /\ \A l \in Layouts : l \in Physical <=> l \notin VddLayouts
BY DisplayAssumption DEF Layouts, VddLayouts, Physical

LEMMA ShowType ==
  ASSUME NEW x \in Display, NEW l \in Layouts
  PROVE  /\ Show(x, l) \in Display
         /\ Show(x, l).shown = l
         /\ Show(x, l).base = IF l \in VddLayouts THEN x.base ELSE l
BY DEF Show, Display, Physical

LEMMA StaleQueue ==
  ASSUME NEW q \in Seq(Task)
  PROVE  [i \in DOMAIN q |-> "stale"] \in Seq(Task)
<1>1. DOMAIN q = 1..Len(q) /\ Len(q) \in Nat
  OBVIOUS
<1>2. [i \in 1..Len(q) |-> "stale"] \in [1..Len(q) -> Task]
  BY DEF Task
<1> QED  BY <1>1, <1>2

\* A state whose tasks and timer are out of date, otherwise as x.
Idle(x) == x.holder = "free" /\ x.timer = NoTimer

LEMMA IdleHeld ==
  ASSUME NEW x, Idle(x)
  PROVE  HeldFor(x) /\ x.timer.kind = "none"
BY DEF Idle, HeldFor, NoTimer

\* x and y agree on all but the display and the snapshots.
SameButLayout(x, y) ==
  /\ y.vdd = x.vdd /\ y.use_vdd = x.use_vdd /\ y.pre = x.pre /\ y.pending = x.pending
  /\ y.timer = x.timer /\ y.holder = x.holder
  /\ y.waiting = x.waiting /\ y.queue = x.queue /\ y.running = x.running

SameLayout(x, y) ==
  y.shown = x.shown /\ y.base = x.base /\ y.vdd = x.vdd /\ y.saved = x.saved

LEMMA InvalidatedSane ==
  ASSUME NEW x, NEW o, Sane(x, o)
  PROVE  /\ Sane(Invalidated(x), o)
         /\ SameLayout(x, Invalidated(x)) /\ Invalidated(x).timer = NoTimer
         /\ Invalidated(x).use_vdd = x.use_vdd /\ Invalidated(x).pre = x.pre
         /\ Invalidated(x).pending = x.pending /\ Invalidated(x).holder = x.holder
         /\ x.holder = "free" => ~ToBeTried(Invalidated(x))
<1>1. [i \in DOMAIN x.queue |-> "stale"] \in Seq(Task)
  BY StaleQueue DEF Display, Sane
<1>2. NoTimer \in Timer  BY DEF NoTimer, Timer
<1>3. Outdated(x.running) \in Task \cup {"none"}  BY DEF Outdated, Task
<1> DEFINE q == [i \in DOMAIN x.queue |-> "stale"]
<1> HIDE DEF q
<1>4. /\ Invalidated(x) \in Display
      /\ SameLayout(x, Invalidated(x)) /\ Invalidated(x).timer = NoTimer
      /\ Invalidated(x).use_vdd = x.use_vdd /\ Invalidated(x).pre = x.pre
      /\ Invalidated(x).pending = x.pending /\ Invalidated(x).holder = x.holder
      /\ Invalidated(x).waiting = "none" /\ Invalidated(x).running = Outdated(x.running)
      /\ Invalidated(x).queue = q
  BY <1>1, <1>2, <1>3 DEF Invalidated, Display, q, Sane, SameLayout
<1>5. NoTimer.kind = "none"  BY DEF NoTimer
<1>6. Outdated(x.running) # "current" /\ \A i \in DOMAIN q : q[i] # "current"
  BY DEF Outdated, q
<1> HIDE DEF q
<1>7. x.holder = "free" => ~ToBeTried(Invalidated(x))
  BY <1>4, <1>5, <1>6 DEF ToBeTried
<1> QED  BY <1>4, <1>5, <1>7 DEF Sane, SameLayout

LEMMA CancelSane ==
  ASSUME NEW x, NEW o, Sane(x, o)
  PROVE  LET y == cancel_pending_display_retry(x) IN
         /\ Sane(y, o) /\ SameLayout(x, y)
         /\ ~y.pending /\ y.timer = NoTimer
         /\ y.use_vdd = x.use_vdd /\ y.pre = x.pre /\ y.holder = x.holder
         /\ x.holder = "free" => ~ToBeTried(y)
<1> DEFINE v == Invalidated(x)
           y == cancel_pending_display_retry(x)
<1>1. y = [v EXCEPT !.pending = FALSE]
  BY DEF cancel_pending_display_retry
<1>2. /\ Sane(v, o) /\ SameLayout(x, v) /\ v.timer = NoTimer
      /\ v.use_vdd = x.use_vdd /\ v.pre = x.pre /\ v.holder = x.holder
      /\ x.holder = "free" => ~ToBeTried(v)
  BY InvalidatedSane
<1> HIDE DEF v, y
<1>3. /\ y \in Display /\ SameLayout(v, y) /\ ~y.pending /\ y.timer = v.timer
      /\ y.use_vdd = v.use_vdd /\ y.pre = v.pre /\ y.holder = v.holder
      /\ y.waiting = v.waiting /\ y.queue = v.queue /\ y.running = v.running
  BY <1>1, <1>2 DEF Display, Sane, SameLayout
<1>6. ToBeTried(y) = ToBeTried(v)  BY <1>3 DEF ToBeTried
<1>4. NoTimer.kind = "none"  BY DEF NoTimer
<1>5. Sane(y, o)
  BY <1>2, <1>3, <1>4 DEF Sane, SameLayout
<1> QED  BY <1>2, <1>3, <1>5, <1>6 DEF y, SameLayout

LEMMA StopSane ==
  ASSUME NEW x, NEW o, Sane(x, o)
  PROVE  LET y == stop_timer_and_clear_vdd_state(x) IN
         /\ Sane(y, o) /\ SameLayout(x, y)
         /\ ~y.pending /\ y.timer = NoTimer
         /\ y.use_vdd = "none" /\ y.pre = NoSnap /\ y.holder = x.holder
<1> DEFINE v == cancel_pending_display_retry(x)
           y == stop_timer_and_clear_vdd_state(x)
<1>1. y = [v EXCEPT !.use_vdd = "none", !.pre = NoSnap]
  BY DEF stop_timer_and_clear_vdd_state
<1>2. Sane(v, o) /\ SameLayout(x, v) /\ ~v.pending /\ v.timer = NoTimer /\ v.holder = x.holder
  BY CancelSane
<1> HIDE DEF v, y
<1>3. /\ y \in Display /\ SameLayout(v, y) /\ ~y.pending /\ y.timer = v.timer
      /\ y.use_vdd = "none" /\ y.pre = NoSnap /\ y.holder = v.holder
  BY <1>1, <1>2 DEF Display, Sane, SameLayout, Snapshots
<1>4. NoTimer.kind = "none"  BY DEF NoTimer
<1>5. Sane(y, o)
  BY <1>2, <1>3, <1>4 DEF Sane, SameLayout
<1> QED  BY <1>2, <1>3, <1>5 DEF y, SameLayout

\* The virtual display leaves what was there beneath it.
LEMMA DestroyedSane ==
  ASSUME NEW x, NEW o, Sane(x, o), x.timer = NoTimer
  PROVE  LET y == Destroyed(x) IN
         /\ Sane(y, o) /\ y.base = x.base /\ y.shown = x.base /\ y.shown \notin VddLayouts
         /\ y.saved = x.saved /\ y.use_vdd = x.use_vdd /\ y.pre = x.pre /\ y.pending = x.pending
         /\ y.timer = x.timer /\ y.holder = x.holder
<1> DEFINE y == Destroyed(x)
<1>1. x.base \in Layouts /\ x.base \notin VddLayouts
  BY DEF Sane, Display, Physical
<1>2. (IF x.shown \in VddLayouts THEN x.base ELSE x.shown) = x.base
  BY DEF Sane
<1>3. y = [x EXCEPT !.vdd = FALSE, !.shown = x.base, !.base = x.base]
  BY <1>1, <1>2 DEF Destroyed, Show, Sane, Display
<1> HIDE DEF y
<1>4. /\ y \in Display /\ ~y.vdd /\ y.base = x.base /\ y.shown = x.base
      /\ y.saved = x.saved /\ y.use_vdd = x.use_vdd /\ y.pre = x.pre /\ y.pending = x.pending
      /\ y.timer = x.timer /\ y.holder = x.holder
  BY <1>1, <1>3 DEF Sane, Display
<1>5. NoTimer.kind = "none"  BY DEF NoTimer
<1>6. Sane(y, o)
  BY <1>1, <1>4, <1>5 DEF Sane
<1> QED  BY <1>1, <1>4, <1>6 DEF y

\* A snapshot of a layout is shown again; one of the virtual display alone is not.
LEMMA RevertedFields ==
  ASSUME NEW x \in Display, x.saved # NoSnap
  PROVE  /\ Reverted(x) \in Display /\ SameButLayout(x, Reverted(x))
         /\ Reverted(x).saved = NoSnap
         /\ x.saved \in Physical \/ x.saved = Void
         /\ x.saved \in Physical => /\ Reverted(x).shown = x.saved /\ Reverted(x).base = x.saved
                                   /\ x.saved \in Layouts /\ x.saved \notin VddLayouts
         /\ x.saved = Void => /\ Reverted(x).shown = x.shown
                              /\ Reverted(x).base = IF x.shown \in VddLayouts THEN x.base ELSE x.shown
<1>1. x.saved \in Physical \/ x.saved = Void  BY DEF Display, Snapshots
<1>2. Snapshot(x) = x.saved  BY DEF Snapshot
<1> DEFINE l == IF x.saved \in Physical THEN x.saved ELSE x.shown
<1>3. Reverted(x) = [Show(x, l) EXCEPT !.saved = NoSnap, !.file = NoSnap]
  BY <1>2 DEF Reverted
<1>4. x.saved \in Physical => x.saved \in Layouts /\ x.saved \notin VddLayouts
  BY LayoutTypes
<1>5. Void \notin Physical /\ NoSnap \in Snapshots  BY LayoutTypes DEF Snapshots
<1>6. l \in Layouts  BY <1>4 DEF Display
<1> HIDE DEF l
<1>8. /\ Show(x, l) \in Display /\ SameButLayout(x, Show(x, l))
      /\ Show(x, l).shown = l /\ Show(x, l).base = IF l \in VddLayouts THEN x.base ELSE l
  BY <1>6, ShowType DEF Show, Display, SameButLayout
<1> DEFINE w == Show(x, l)
           v == Reverted(x)
<1> HIDE DEF w, v
<1>9. v = [w EXCEPT !.saved = NoSnap, !.file = NoSnap] /\ w \in Display
  BY <1>3, <1>8 DEF w, v
<1>10. /\ v \in Display /\ SameButLayout(w, v) /\ v.saved = NoSnap
       /\ v.shown = w.shown /\ v.base = w.base
  BY <1>5, <1>9 DEF Display, SameButLayout
<1>7. /\ Reverted(x) \in Display /\ SameButLayout(x, Reverted(x)) /\ Reverted(x).saved = NoSnap
      /\ Reverted(x).shown = l /\ Reverted(x).base = IF l \in VddLayouts THEN x.base ELSE l
  BY <1>8, <1>10 DEF w, v, SameButLayout
<1> QED  BY <1>1, <1>4, <1>5, <1>7 DEF l

\* The display is as Sane has it, whatever waits.
Placed(x, o) ==
  /\ x \in Display
  /\ x.shown \in VddLayouts => x.vdd
  /\ x.shown \notin VddLayouts => x.shown = x.base
  /\ o \cap VddRequests = {} => ~x.vdd

LEMMA SanePlaced ==
  ASSUME NEW x, NEW o, Sane(x, o)
  PROVE  Placed(x, o)
BY DEF Sane, Placed

\* What a session leaves that is forgotten, whatever waited.
LEMMA StopPlaced ==
  ASSUME NEW x, NEW o, Placed(x, o)
  PROVE  LET y == stop_timer_and_clear_vdd_state(x) IN
         /\ Sane(y, o) /\ SameLayout(x, y)
         /\ ~y.pending /\ y.timer = NoTimer
         /\ y.use_vdd = "none" /\ y.pre = NoSnap /\ y.holder = x.holder
<1> DEFINE c == [x EXCEPT !.pending = FALSE, !.timer = NoTimer, !.pre = NoSnap]
           y == stop_timer_and_clear_vdd_state(x)
<1>1. NoTimer.kind = "none" /\ NoTimer \in Timer /\ NoSnap \in Snapshots
  BY DEF NoTimer, Timer, Snapshots
<1>2. /\ c \in Display /\ SameLayout(x, c) /\ ~c.pending /\ c.timer = NoTimer
      /\ c.pre = NoSnap /\ c.holder = x.holder
  BY <1>1 DEF Placed, Display, SameLayout
<1>3. Sane(c, o)
  BY <1>1, <1>2 DEF Placed, Sane, SameLayout
<1>4. y = stop_timer_and_clear_vdd_state(c)
  BY <1>1 DEF stop_timer_and_clear_vdd_state, cancel_pending_display_retry, Invalidated, Placed,
     Display
<1> HIDE DEF c, y
<1>5. /\ Sane(y, o) /\ SameLayout(c, y) /\ ~y.pending /\ y.timer = NoTimer
      /\ y.use_vdd = "none" /\ y.pre = NoSnap /\ y.holder = c.holder
  BY <1>3, <1>4, StopSane
<1> QED  BY <1>2, <1>5 DEF y, SameLayout

\* A revert after which the session is forgotten.
LEMMA RevertStops ==
  ASSUME NEW x, NEW o, Placed(x, o), x.saved # NoSnap
  PROVE  LET y == stop_timer_and_clear_vdd_state(Reverted(x)) IN
         /\ Sane(y, o) /\ y.saved = NoSnap
         /\ x.saved \in Physical => y.shown = x.saved /\ y.base = x.saved
         /\ x.saved = Void => y.shown = x.shown
         /\ x.shown \notin VddLayouts \/ x.saved # Void => y.shown \notin VddLayouts
         /\ ~y.pending /\ y.timer = NoTimer
         /\ y.use_vdd = "none" /\ y.pre = NoSnap /\ y.holder = x.holder
<1>1. /\ Reverted(x) \in Display /\ SameButLayout(x, Reverted(x))
      /\ Reverted(x).saved = NoSnap
      /\ x.saved \in Physical \/ x.saved = Void
      /\ x.saved \in Physical => /\ Reverted(x).shown = x.saved /\ Reverted(x).base = x.saved
                                /\ x.saved \notin VddLayouts
      /\ x.saved = Void => /\ Reverted(x).shown = x.shown
                           /\ Reverted(x).base = IF x.shown \in VddLayouts THEN x.base ELSE x.shown
  BY RevertedFields DEF Placed
<1>2. Placed(Reverted(x), o)
  BY <1>1 DEF Placed, SameButLayout
<1> QED  BY <1>1, <1>2, StopPlaced DEF SameLayout, SameButLayout

LEMMA NotRevertedSane ==
  ASSUME NEW x, NEW o, Sane(x, o), x.saved # NoSnap, NEW y \in NotReverted(x)
  PROVE  Sane(y, o) /\ SameButLayout(x, y) /\ y.saved = x.saved
<1>1. PICK l \in {x.shown, IF x.vdd THEN Extended ELSE Other} :
        y = [Show(x, l) EXCEPT !.saved = x.saved]
  BY DEF NotReverted, Snapshot
<1>2. l \in Layouts /\ (l \in VddLayouts => x.vdd)
  BY <1>1, LayoutTypes, DisplayAssumption DEF Sane, Display, VddLayouts
<1>3. y \in Display /\ SameButLayout(x, y) /\ y.saved = x.saved
      /\ y.shown = l /\ y.base = IF l \in VddLayouts THEN x.base ELSE l
  BY <1>1, <1>2 DEF Sane, Display, Show, SameButLayout, Physical
<1> QED  BY <1>2, <1>3 DEF Sane, SameButLayout

\* What restore_state_impl leaves is one of three: nothing to restore, the
\* layout restored, or a restore that is pending.
LEMMA RestoredCases ==
  ASSUME NEW x, NEW o, Sane(x, o), NEW z \in Restored(x)
  PROVE  /\ Sane(z, o)
         /\ \/ /\ z.use_vdd = "none" /\ z.pre = NoSnap /\ z.timer = NoTimer /\ z.holder = x.holder
               /\ ~z.pending /\ z.shown \notin VddLayouts
               /\ \/ /\ x.use_vdd = "none" \/ x.saved = NoSnap
                     /\ z.base = x.base /\ z.saved = x.saved
                  \/ /\ x.use_vdd # "none" /\ x.saved # NoSnap
                     /\ x.saved \in Physical => z.base = x.saved
                     /\ z.saved = NoSnap
            \/ /\ x.use_vdd # "none" /\ x.saved # NoSnap
               /\ z.use_vdd = x.use_vdd /\ z.saved = x.saved /\ z.timer = NoTimer
               /\ z.pending /\ z.holder \in {"add_locked", "add_unlocked"}
<1> DEFINE v == Invalidated(x)
           y == Destroyed(v)
<1>1. /\ Sane(v, o) /\ SameLayout(x, v) /\ v.timer = NoTimer
      /\ v.use_vdd = x.use_vdd /\ v.holder = x.holder
  BY InvalidatedSane
<1> HIDE DEF v
<1>2. /\ Sane(y, o) /\ y.base = v.base /\ y.shown = v.base /\ y.shown \notin VddLayouts
      /\ y.saved = v.saved /\ y.use_vdd = v.use_vdd
      /\ y.timer = v.timer /\ y.holder = v.holder
  BY <1>1, DestroyedSane
<1>3. z \in (IF y.use_vdd = "none" \/ y.saved = NoSnap
             THEN {stop_timer_and_clear_vdd_state(y)}
             ELSE (IF MayAccept THEN {stop_timer_and_clear_vdd_state(Reverted(y))} ELSE {})
                  \cup {[w EXCEPT !.pending = TRUE,
                                  !.holder = IF locked THEN "add_locked" ELSE "add_unlocked"] :
                          w \in {y} \cup IF MayAccept THEN NotReverted(y) ELSE {}})
  BY DEF Restored, v
<1> HIDE DEF y
<1>4. CASE y.use_vdd = "none" \/ y.saved = NoSnap
  <2>1. z = stop_timer_and_clear_vdd_state(y)
    BY <1>3, <1>4
  <2>2. /\ Sane(z, o) /\ SameLayout(y, z) /\ z.timer = NoTimer /\ ~z.pending
        /\ z.use_vdd = "none" /\ z.pre = NoSnap /\ z.holder = y.holder
    BY <1>2, <2>1, StopSane
  <2> QED  BY <1>1, <1>2, <1>4, <2>2 DEF SameLayout
<1>5. CASE y.use_vdd # "none" /\ y.saved # NoSnap
  <2>1. CASE z = stop_timer_and_clear_vdd_state(Reverted(y))
    <3>1. /\ Sane(z, o) /\ (y.saved \in Physical => z.base = y.saved) /\ z.saved = NoSnap
          /\ z.shown \notin VddLayouts /\ z.timer = NoTimer /\ ~z.pending
          /\ z.use_vdd = "none" /\ z.pre = NoSnap /\ z.holder = y.holder
      BY <1>2, <1>5, <2>1, RevertStops, SanePlaced
    <3> QED  BY <1>1, <1>2, <1>5, <3>1 DEF SameLayout
  <2>2. CASE \E w \in {y} \cup NotReverted(y) :
               z = [w EXCEPT !.pending = TRUE,
                             !.holder = IF locked THEN "add_locked" ELSE "add_unlocked"]
    <3>1. PICK w \in {y} \cup NotReverted(y) :
               z = [w EXCEPT !.pending = TRUE,
                             !.holder = IF locked THEN "add_locked" ELSE "add_unlocked"]
      BY <2>2
    <3>2. Sane(w, o) /\ w.use_vdd = y.use_vdd /\ w.saved = y.saved /\ w.timer = y.timer
      <4>1. CASE w = y  BY <1>2, <4>1
      <4>2. CASE w \in NotReverted(y)  BY <1>2, <1>5, <4>2, NotRevertedSane DEF SameButLayout
      <4> QED  BY <3>1, <4>1, <4>2
    <3>3. /\ z \in Display /\ SameLayout(w, z) /\ z.use_vdd = w.use_vdd /\ z.pre = w.pre
          /\ z.timer = w.timer /\ z.pending /\ z.holder \in {"add_locked", "add_unlocked"}
      BY <3>1, <3>2 DEF Sane, Display, SameLayout
    <3>4. Sane(z, o)
      BY <1>5, <3>2, <3>3 DEF Sane, SameLayout
    <3> QED  BY <1>1, <1>2, <1>5, <3>2, <3>3, <3>4 DEF SameLayout
  <2> QED  BY <1>3, <1>5, <2>1, <2>2
<1> QED  BY <1>4, <1>5

LEMMA RestoredSane ==
  ASSUME NEW x, NEW o, Sane(x, o), x.holder = "free", NEW z \in Restored(x)
  PROVE  Sane(z, o) /\ HeldFor(z) /\ Tried(z) /\ Cleared(z)
         /\ z.holder \in {"free", "add_locked", "add_unlocked"}
<1>1. NoTimer.kind = "none"  BY DEF NoTimer
<1> QED  BY <1>1, RestoredCases DEF HeldFor, Tried, Cleared

LEMMA RestoredKept ==
  ASSUME NEW x, NEW o, NEW h, Sane(x, o), Kept(x, h), NEW z \in Restored(x)
  PROVE  Kept(z, h)
<1>1. NoTimer.kind = "none"  BY DEF NoTimer
<1>2. NoSnap \notin Physical  BY LayoutTypes
<1> QED  BY <1>1, <1>2, RestoredCases DEF Kept

LEMMA PreparedSane ==
  ASSUME NEW x, NEW o, Sane(x, o), NEW r \in o, r \in Requests,
         NEW z \in Prepared(x, r)
  PROVE  /\ Sane(z, o) /\ z.timer \in {NoTimer, x.timer} /\ z.holder = x.holder
         /\ r \in VddRequests => z.vdd
         /\ x.holder = "free" /\ ~ToBeTried(x) => ~ToBeTried(z)
         /\ \A h : Kept(x, h) => Kept(z, h)
<1>0. NoTimer.kind = "none"  BY DEF NoTimer
<1>1. CASE r \notin VddRequests
  BY <1>1 DEF Prepared
<1>2. CASE r \in VddRequests
  <2> DEFINE y == IF x.pending /\ x.saved # NoSnap THEN cancel_pending_display_retry(x)
                  ELSE IF x.vdd THEN x ELSE [x EXCEPT !.pre = x.shown]
  <2>1. PICK l \in {x.shown, Extended} : z = [Show(y, l) EXCEPT !.vdd = TRUE]
    BY <1>2 DEF Prepared
  <2>2. /\ Sane(y, o) /\ SameLayout(x, y) /\ y.timer \in {NoTimer, x.timer} /\ y.holder = x.holder
        /\ y.use_vdd = x.use_vdd
        /\ y.pre = x.pre \/ (~x.vdd /\ y.pre = x.shown)
        /\ x.holder = "free" /\ ~ToBeTried(x) => ~ToBeTried(y)
    <3>1. CASE x.pending /\ x.saved # NoSnap
      BY <3>1, CancelSane
    <3>2. CASE ~(x.pending /\ x.saved # NoSnap) /\ ~x.vdd
      <4>1. y = [x EXCEPT !.pre = x.shown]  BY <3>2
      <4>2. x.shown \in Snapshots
        BY <3>2, LayoutTypes DEF Sane, Display, Snapshots, Physical
      <4>3. /\ y \in Display /\ SameLayout(x, y) /\ y.timer = x.timer /\ y.holder = x.holder
            /\ y.use_vdd = x.use_vdd /\ y.pre = x.shown /\ y.pending = x.pending
            /\ y.waiting = x.waiting /\ y.queue = x.queue /\ y.running = x.running
        BY <4>1, <4>2 DEF Sane, Display, SameLayout
      <4>4. ToBeTried(y) = ToBeTried(x)  BY <4>3 DEF ToBeTried
      <4> QED  BY <1>0, <1>2, <3>2, <4>3, <4>4 DEF Sane, SameLayout
    <3>3. CASE ~(x.pending /\ x.saved # NoSnap) /\ x.vdd
      BY <3>3 DEF SameLayout
    <3> QED  BY <3>1, <3>2, <3>3
  <2> HIDE DEF y
  <2>3. l \in Layouts /\ (l \in VddLayouts \/ l = y.shown)
    BY <2>1, <2>2, LayoutTypes DEF Sane, Display, SameLayout
  <2>4. /\ z \in Display /\ z.shown = l /\ z.base = (IF l \in VddLayouts THEN y.base ELSE l)
        /\ z.vdd /\ z.saved = y.saved /\ z.use_vdd = y.use_vdd /\ z.pre = y.pre
        /\ z.pending = y.pending /\ z.timer = y.timer /\ z.holder = y.holder
        /\ z.waiting = y.waiting /\ z.queue = y.queue /\ z.running = y.running
    BY <2>1, <2>2, <2>3 DEF Sane, Display, Show, Physical
  <2>5. z.base = y.base
    BY <2>2, <2>3, <2>4 DEF Sane
  <2>6. Sane(z, o)
    BY <1>0, <1>2, <2>2, <2>4, <2>5 DEF Sane
  <2>7. ASSUME NEW h, Kept(x, h)
        PROVE  Kept(z, h)
    <3>1. ~x.vdd => x.shown = x.base  BY DEF Sane
    <3> QED  BY <1>0, <2>2, <2>4, <2>5, <2>7, <3>1 DEF Kept, SameLayout
  <2>8. ToBeTried(z) = ToBeTried(y)  BY <2>4 DEF ToBeTried
  <2> QED  BY <2>2, <2>4, <2>6, <2>7, <2>8
<1> QED  BY <1>1, <1>2

\* What apply_config was started with: the request of a session whose virtual
\* display is there, and the layout that was saved before that was created.
MayApply(x, o, r, pre) ==
  /\ Sane(x, o) /\ r \in o /\ r \in Requests /\ pre \in Snapshots
  /\ r \in VddRequests => x.vdd
  /\ x.use_vdd # "none"
  /\ o \cap VddRequests = {} => pre = NoSnap

\* With clients that are alike a layout of another kind is not to be expected.
LikeOthers(x, o, pre, h) ==
  /\ o \subseteq VddRequests \/ o \cap VddRequests = {}
  /\ Kept(x, h)
  /\ x.saved = NoSnap => pre \in {NoSnap, h}

LEMMA SwitchedCases ==
  ASSUME NEW x, NEW o, NEW r, NEW pre, MayApply(x, o, r, pre), NEW y \in Switched(x, r)
  PROVE  \/ y = x
         \/ /\ r \notin VddRequests /\ x.saved # NoSnap
            /\ y \in Display /\ SameButLayout(x, y) /\ Placed(y, o)
            /\ y.saved = NoSnap
            /\ x.saved \in Physical => y.shown = x.saved /\ y.base = x.saved
            /\ y.shown \in {x.shown, x.saved}
            /\ y.shown \notin VddLayouts \/ x.saved = Void
<1>1. CASE y = x  BY <1>1
<1>2. CASE y # x
  <2>1. r \notin VddRequests /\ x.saved # NoSnap /\ y = Reverted(x) /\ x \in Display
    BY <1>2 DEF Switched, MayApply, Sane
  <2>2. /\ y \in Display /\ SameButLayout(x, y) /\ y.saved = NoSnap
        /\ x.saved \in Physical \/ x.saved = Void
        /\ x.saved \in Physical => y.shown = x.saved /\ y.base = x.saved /\ x.saved \notin VddLayouts
        /\ x.saved = Void => /\ y.shown = x.shown
                             /\ y.base = IF x.shown \in VddLayouts THEN x.base ELSE x.shown
    BY <2>1, RevertedFields
  <2>3. Placed(y, o)
    BY <2>2 DEF Placed, MayApply, Sane, SameButLayout
  <2> QED  BY <2>1, <2>2, <2>3
<1> QED  BY <1>1, <1>2

\* What is saved of x when layout l is put on the display for r.
Saved(x, r, l, pre) ==
  IF x.saved = r /\ l = r THEN NoSnap
  ELSE IF x.saved # NoSnap THEN x.saved
  ELSE IF Initial(x, r, pre) = l THEN NoSnap ELSE Initial(x, r, pre)

LEMMA AppliedFields ==
  ASSUME NEW x \in Display, NEW r \in Requests, NEW l \in Layouts, NEW pre \in Snapshots, NEW z,
         z = Applied(x, r, l, pre) \/ z = [Applied(x, r, l, pre) EXCEPT !.file = x.file]
  PROVE  /\ z \in Display /\ SameButLayout(x, z)
         /\ z.shown = l /\ z.base = (IF l \in VddLayouts THEN x.base ELSE l)
         /\ z.saved = Saved(x, r, l, pre)
<1> DEFINE first == IF Initial(x, r, pre) = l THEN NoSnap ELSE Initial(x, r, pre)
           snap == IF x.saved = NoSnap THEN first ELSE x.saved
           a == Applied(x, r, l, pre)
<1>1. Initial(x, r, pre) \in Snapshots /\ x.file \in Snapshots /\ snap \in Snapshots
  BY DEF Initial, Display, Snapshots
<1>2. r # NoSnap /\ r \in Layouts  BY LayoutTypes
<1>3. /\ a \in Display /\ SameButLayout(x, a) /\ a.shown = l
      /\ a.base = (IF l \in VddLayouts THEN x.base ELSE l)
      /\ a.saved = Saved(x, r, l, pre)
  <2>1. CASE x.saved = r /\ l = r
    <3>1. a = Reverted(x)  BY <2>1 DEF Applied
    <3>2. x.saved \in Physical \/ x.saved = Void  BY <1>2, <2>1 DEF Display, Snapshots
    <3>3. x.saved \in Physical  BY <1>2, <2>1, <3>2, LayoutTypes
    <3>4. /\ a \in Display /\ SameButLayout(x, a) /\ a.saved = NoSnap
          /\ a.shown = l /\ a.base = l /\ l \notin VddLayouts
      BY <1>2, <2>1, <3>1, <3>3, RevertedFields
    <3> QED  BY <2>1, <3>4 DEF Saved
  <2>2. CASE ~(x.saved = r /\ l = r)
    <3> DEFINE w == Show(x, l)
               f == IF snap = NoSnap THEN w.file ELSE snap
    <3>1. /\ w \in Display /\ w.shown = l /\ SameButLayout(x, w)
          /\ w.base = (IF l \in VddLayouts THEN x.base ELSE l)
      BY DEF Show, Display, Physical, SameButLayout
    <3>2. f \in Snapshots  BY <1>1, <3>1 DEF Display
    <3>3. a = [w EXCEPT !.saved = snap, !.file = f]
      BY <2>2, <3>1 DEF Applied, Display
    <3>4. snap = Saved(x, r, l, pre)  BY <2>2 DEF Saved
    <3> HIDE DEF w, f, snap, a
    <3> QED  BY <1>1, <3>1, <3>2, <3>3, <3>4 DEF Display, SameButLayout
  <2> QED  BY <2>1, <2>2
<1> HIDE DEF a
<1>4. CASE z = a  BY <1>3, <1>4
<1>5. CASE z = [a EXCEPT !.file = x.file]
  BY <1>1, <1>3, <1>5 DEF Display, SameButLayout
<1> QED  BY <1>4, <1>5 DEF a

LEMMA AppliedSane ==
  ASSUME NEW x, NEW o, NEW r, NEW pre, MayApply(x, o, r, pre), NEW y \in Switched(x, r),
         NEW l \in Layouts, l \in VddLayouts => x.vdd, NEW z,
         z = Applied(y, r, l, pre) \/ z = [Applied(y, r, l, pre) EXCEPT !.file = y.file]
  PROVE  /\ Sane(z, o) /\ SameButLayout(x, z)
         /\ \A h : /\ LikeOthers(x, o, pre, h)
                   /\ o \subseteq VddRequests => l \in VddLayouts \/ l = x.shown
                   => Kept(z, h)
<1>1. y \in Display /\ SameButLayout(x, y) /\ Placed(y, o)
  BY SwitchedCases, SanePlaced DEF MayApply, Sane, SameButLayout
<1>2. /\ z \in Display /\ SameButLayout(y, z)
      /\ z.shown = l /\ z.base = (IF l \in VddLayouts THEN y.base ELSE l)
      /\ z.saved = Saved(y, r, l, pre)
  BY <1>1, AppliedFields DEF MayApply
<1>3. Sane(z, o) /\ SameButLayout(x, z)
  BY <1>1, <1>2 DEF MayApply, Sane, SameButLayout
<1>4. ASSUME NEW h, LikeOthers(x, o, pre, h),
             o \subseteq VddRequests => l \in VddLayouts \/ l = x.shown
      PROVE  Kept(z, h)
  <2>1. /\ h \in Physical /\ h # NoSnap /\ h # Void /\ h \notin VddLayouts
        /\ x.saved \in {NoSnap, h}
    BY <1>4, LayoutTypes DEF LikeOthers, Kept
  <2>2. o \cap VddRequests = {} => /\ ~x.vdd /\ x.pre = NoSnap /\ pre = NoSnap
                                   /\ x.timer.kind = "apply" => x.timer.pre = NoSnap
    BY DEF MayApply, Sane
  <2>3. r \notin VddRequests => o \cap VddRequests = {}
    BY <1>4 DEF LikeOthers, MayApply
  <2>4. z.saved \in {NoSnap, h} /\ (z.saved = NoSnap => z.base = h)
    <3>1. CASE x.saved = h /\ y = x
      <4>1. Saved(y, r, l, pre) = IF h = r /\ l = r THEN NoSnap ELSE h
        BY <2>1, <3>1 DEF Saved
      <4> QED  BY <1>2, <2>1, <4>1
    <3>2. CASE x.saved = NoSnap \/ y # x
      <4>1. y.saved = NoSnap /\ y.base = h /\ (pre = NoSnap \/ pre = h)
        <5>1. CASE y = x
          BY <1>4, <3>2, <5>1 DEF LikeOthers, Kept
        <5>2. CASE y # x
          BY <2>1, <2>2, <2>3, <5>2, SwitchedCases
        <5> QED  BY <5>1, <5>2
      <4>2. r \notin VddRequests => y.shown \notin VddRequests
        <5>1. r \notin VddRequests => ~y.vdd
          BY <1>1, <2>2, <2>3 DEF SameButLayout
        <5> QED  BY <1>1, <5>1 DEF Placed, VddLayouts
      <4>3. Initial(y, r, pre) = h \/ (Initial(y, r, pre) = NoSnap)
        BY <2>1, <4>1, <4>2 DEF Initial
      <4>4. r # NoSnap  BY LayoutTypes DEF MayApply
      <4>5. Saved(y, r, l, pre) = IF Initial(y, r, pre) = l THEN NoSnap ELSE Initial(y, r, pre)
        BY <4>1, <4>4 DEF Saved
      <4>6. CASE Initial(y, r, pre) = h
        BY <1>2, <2>1, <4>1, <4>5, <4>6
      <4>7. CASE Initial(y, r, pre) = NoSnap
        <5>1. r \in VddRequests /\ y.shown \in VddLayouts
          <6>1. y.base # NoSnap /\ pre = NoSnap
            BY <2>1, <4>1, <4>7 DEF Initial
          <6> QED  BY <4>7, <6>1, DisplayAssumption DEF Initial, VddLayouts
        <5>2. o \subseteq VddRequests /\ y = x
          BY <1>4, <5>1, SwitchedCases DEF LikeOthers, MayApply
        <5>3. l \in VddLayouts  BY <1>4, <5>1, <5>2
        <5>4. l # NoSnap  BY LayoutTypes
        <5> QED  BY <1>2, <4>1, <4>5, <4>7, <5>3, <5>4
      <4> QED  BY <4>3, <4>6, <4>7
    <3> QED  BY <2>1, <3>1, <3>2
  <2>5. z.saved = NoSnap => x.saved = NoSnap \/ r \notin VddRequests
    <3>1. CASE y = x
      <4>1. z.saved = NoSnap /\ x.saved # NoSnap => x.saved = r
        BY <1>2, <3>1 DEF Saved
      <4> QED  BY <2>1, <4>1 DEF VddLayouts
    <3>2. CASE y # x  BY <3>2, SwitchedCases
    <3> QED  BY <3>1, <3>2
  <2> QED  BY <1>3, <1>4, <2>1, <2>2, <2>3, <2>4, <2>5 DEF Kept, LikeOthers, SameButLayout, MayApply
<1> QED  BY <1>3, <1>4

LEMMA PartlyLayouts ==
  ASSUME NEW x, NEW o, NEW r, NEW pre, MayApply(x, o, r, pre), NEW y \in Switched(x, r),
         NEW l \in Partly(y, r)
  PROVE  /\ l \in Layouts /\ (l \in VddLayouts => x.vdd)
         /\ o \subseteq VddRequests => l \in VddLayouts \/ l = x.shown
<1>1. y.shown \in Layouts /\ (y.shown \in VddLayouts => x.vdd)
  BY SwitchedCases DEF MayApply, Sane, Placed, SameButLayout, Display
<1>2. r \in VddRequests => y = x
  BY SwitchedCases
<1>3. o \subseteq VddRequests => r \in VddRequests
  BY DEF MayApply
<1>4. /\ r \in Layouts /\ Extended \in VddLayouts /\ Extended \in Layouts
      /\ Other \in Layouts /\ Other \notin VddLayouts
      /\ r \in VddRequests => r \in VddLayouts
      /\ r \notin VddRequests => r \notin VddLayouts
  BY LayoutTypes, DisplayAssumption DEF MayApply, VddLayouts
<1>5. l \in {y.shown, r, IF r \in VddRequests THEN Extended ELSE Other}
  BY DEF Partly
<1>6. r \in VddRequests => x.vdd  BY DEF MayApply
<1>7. CASE r \in VddRequests  BY <1>1, <1>2, <1>4, <1>5, <1>6, <1>7
<1>8. CASE r \notin VddRequests  BY <1>1, <1>3, <1>4, <1>5, <1>8
<1> QED  BY <1>7, <1>8

LEMMA ApplyFailedSane ==
  ASSUME NEW x, NEW o, NEW r, NEW pre, MayApply(x, o, r, pre), NEW z \in ApplyFailed(x, r, pre)
  PROVE  /\ Sane(z, o) /\ SameButLayout(x, z)
         /\ \A h : LikeOthers(x, o, pre, h) => Kept(z, h)
<1>1. CASE x.saved # NoSnap /\ z \in NotReverted(x)
  <2>1. Sane(z, o) /\ SameButLayout(x, z) /\ z.saved = x.saved
    BY <1>1, NotRevertedSane DEF MayApply
  <2> QED  BY <1>1, <2>1 DEF LikeOthers, Kept, MayApply, SameButLayout
<1>2. ASSUME NEW y \in Switched(x, r), NEW l \in Partly(y, r), z = Applied(y, r, l, pre)
      PROVE  /\ Sane(z, o) /\ SameButLayout(x, z)
             /\ \A h : LikeOthers(x, o, pre, h) => Kept(z, h)
  BY <1>2, PartlyLayouts, AppliedSane
<1>3. ASSUME NEW y \in Switched(x, r), z = [Applied(y, r, r, pre) EXCEPT !.file = y.file]
      PROVE  /\ Sane(z, o) /\ SameButLayout(x, z)
             /\ \A h : LikeOthers(x, o, pre, h) => Kept(z, h)
  <2>1. r \in Partly(y, r)  BY DEF Partly
  <2> QED  BY <1>3, <2>1, PartlyLayouts, AppliedSane
<1> DEFINE kept == IF r \in VddRequests \/ x.saved = NoSnap THEN {} ELSE NotReverted(x)
           part == UNION {{Applied(y, r, l, pre) : l \in Partly(y, r)} : y \in Switched(x, r)}
           unsaved == {[Applied(y, r, r, pre) EXCEPT !.file = y.file] :
                         y \in {w \in Switched(x, r) : Applied(w, r, r, pre).saved # NoSnap}}
<1>4. z \in kept \cup part \cup unsaved
  BY DEF ApplyFailed
<1>5. CASE z \in kept
  BY <1>1, <1>5
<1>6. CASE z \in part
  BY <1>2, <1>6
<1>7. CASE z \in unsaved
  BY <1>3, <1>7
<1> HIDE DEF kept, part, unsaved
<1> QED  BY <1>4, <1>5, <1>6, <1>7

LEMMA ApplySucceededSane ==
  ASSUME NEW x, NEW o, NEW r, NEW pre, MayApply(x, o, r, pre),
         NEW z \in ApplySucceeded(x, r, pre)
  PROVE  /\ Sane(z, o) /\ z.timer = NoTimer /\ z.holder = x.holder /\ z.use_vdd = x.use_vdd
         /\ z.pending = x.pending /\ (ToBeTried(z) => ToBeTried(x))
         /\ \A h : LikeOthers(x, o, pre, h) => Kept(z, h)
<1>1. PICK y \in Switched(x, r) :
        z = [Applied(y, r, r, pre) EXCEPT !.pre = NoSnap, !.timer = NoTimer]
  BY DEF ApplySucceeded
<1> DEFINE a == Applied(y, r, r, pre)
<1>2. r \in Partly(y, r)  BY DEF Partly
<1>3. /\ Sane(a, o) /\ SameButLayout(x, a)
      /\ \A h : LikeOthers(x, o, pre, h) => Kept(a, h)
  BY <1>2, PartlyLayouts, AppliedSane
<1> HIDE DEF a
<1>4. NoTimer \in Timer /\ NoTimer.kind = "none" /\ NoSnap \in Snapshots
  BY DEF NoTimer, Timer, Snapshots
<1>5. z = [a EXCEPT !.pre = NoSnap, !.timer = NoTimer]
  BY <1>1 DEF a
<1>6. /\ z \in Display /\ SameLayout(a, z) /\ z.timer = NoTimer /\ z.pre = NoSnap
      /\ z.holder = a.holder /\ z.use_vdd = a.use_vdd /\ z.pending = a.pending
      /\ z.waiting = a.waiting /\ z.queue = a.queue /\ z.running = a.running
  BY <1>3, <1>4, <1>5 DEF Sane, Display, SameLayout
<1>7. Sane(z, o)
  BY <1>3, <1>4, <1>6 DEF Sane, SameLayout
<1>8. \A h : Kept(a, h) => Kept(z, h)
  BY <1>4, <1>6 DEF Kept, SameLayout
<1>9. ToBeTried(z) => ToBeTried(x)
  BY <1>3, <1>4, <1>6 DEF ToBeTried, SameButLayout
<1> QED  BY <1>3, <1>6, <1>7, <1>8, <1>9 DEF SameButLayout

\* What a call of session_t leaves: what waits is possible, and the user's
\* layout is kept if it was.
Left(z, o) ==
  Sane(z, o) /\ HeldFor(z) /\ Tried(z) /\ z.holder \in {"free", "add_locked", "add_unlocked"}

LEMMA ChangedSane ==
  ASSUME NEW x, NEW o, NEW r, MayApply(x, o, r, x.pre), Idle(x), ~x.pending, NEW z \in Changed(x, r)
  PROVE  /\ Left(z, o) /\ Cleared(z)
         /\ \A h : LikeOthers(x, o, x.pre, h) => Kept(z, h)
<1>0. Sane(x, o) /\ x.holder = "free" /\ x.timer = NoTimer /\ x.use_vdd # "none" /\ NoTimer.kind = "none"
  BY DEF MayApply, Idle, NoTimer
<1>1. CASE z \in Restored(x)
  BY <1>0, <1>1, RestoredSane, RestoredKept DEF Left, LikeOthers
<1>2. ASSUME NEW y \in ApplyFailed(x, r, x.pre), z \in Restored(y)
      PROVE  /\ Left(z, o) /\ Cleared(z)
             /\ \A h : LikeOthers(x, o, x.pre, h) => Kept(z, h)
  <2>1. /\ Sane(y, o) /\ SameButLayout(x, y)
        /\ \A h : LikeOthers(x, o, x.pre, h) => Kept(y, h)
    BY ApplyFailedSane
  <2>2. y.holder = "free"  BY <1>0, <2>1 DEF SameButLayout
  <2> QED  BY <1>2, <2>1, <2>2, RestoredSane, RestoredKept DEF Left
<1>3. CASE z \in ApplyFailed(x, r, x.pre)
  <2>1. /\ Sane(z, o) /\ SameButLayout(x, z)
        /\ \A h : LikeOthers(x, o, x.pre, h) => Kept(z, h)
    BY <1>3, ApplyFailedSane
  <2> QED  BY <1>0, <2>1 DEF Left, HeldFor, Tried, Cleared, SameButLayout
<1>4. CASE z \in ApplySucceeded(x, r, x.pre)
  <2>1. /\ Sane(z, o) /\ z.timer = NoTimer /\ z.holder = x.holder /\ z.use_vdd = x.use_vdd
        /\ z.pending = x.pending
        /\ \A h : LikeOthers(x, o, x.pre, h) => Kept(z, h)
    BY <1>4, ApplySucceededSane
  <2> QED  BY <1>0, <2>1 DEF Left, HeldFor, Tried, Cleared
<1> DEFINE undone == UNION {Restored(y) : y \in ApplyFailed(x, r, x.pre)}
<1>5. CASE z \in undone
  BY <1>2, <1>5
<1>6. z \in Restored(x) \cup undone \cup ApplyFailed(x, r, x.pre) \cup ApplySucceeded(x, r, x.pre)
  BY DEF Changed
<1> HIDE DEF undone
<1> QED  BY <1>1, <1>3, <1>4, <1>5, <1>6

LEMMA SettledSane ==
  ASSUME NEW x, NEW o, Sane(x, o), Idle(x), ~ToBeTried(x), NEW r \in o, r \in Requests,
         r \in VddRequests => x.vdd, NEW z \in Settled(x, r)
  PROVE  /\ Left(z, o) /\ Cleared(z)
         /\ o \subseteq VddRequests \/ o \cap VddRequests = {}
              => \A h : Kept(x, h) => Kept(z, h)
<1> DEFINE y == [x EXCEPT !.use_vdd = IF r \in VddRequests THEN "vdd" ELSE "physical"]
           c == cancel_pending_display_retry(y)
           t == [kind |-> "apply", gen |-> "current", request |-> r, pre |-> y.pre]
<1>0. x.holder = "free" /\ x.timer = NoTimer /\ NoTimer.kind = "none"
  BY DEF Idle, NoTimer
<1>1. /\ y \in Display /\ SameLayout(x, y) /\ y.use_vdd # "none" /\ y.pre = x.pre
      /\ y.pending = x.pending /\ y.timer = x.timer /\ y.holder = x.holder
      /\ y.waiting = x.waiting /\ y.queue = x.queue /\ y.running = x.running
  BY DEF Sane, Display, SameLayout
<1>2. Sane(y, o) /\ \A h : Kept(x, h) => Kept(y, h)
  BY <1>1 DEF Sane, SameLayout, Kept
<1>3. z \in (IF MayAccept THEN Changed(c, r) ELSE {})
            \cup (IF helper THEN Restored(y) ELSE {[y EXCEPT !.timer = t]})
  BY DEF Settled
<1> HIDE DEF y, c
<1>4. CASE z \in Changed(c, r)
  <2>1. /\ Sane(c, o) /\ SameLayout(y, c) /\ c.timer = NoTimer
        /\ c.use_vdd = y.use_vdd /\ c.pre = y.pre /\ c.holder = y.holder /\ ~c.pending
    BY <1>2, CancelSane DEF c
  <2>2. \A h : Kept(y, h) => Kept(c, h)
    BY <1>0, <2>1 DEF Kept, SameLayout
  <2>3. MayApply(c, o, r, c.pre) /\ Idle(c)
    BY <1>0, <1>1, <2>1 DEF MayApply, Idle, SameLayout, Sane, Display
  <2>4. /\ Left(z, o) /\ Cleared(z)
        /\ \A h : LikeOthers(c, o, c.pre, h) => Kept(z, h)
    BY <1>4, <2>1, <2>3, ChangedSane
  <2>5. ASSUME o \subseteq VddRequests \/ o \cap VddRequests = {}, NEW h, Kept(c, h)
        PROVE  LikeOthers(c, o, c.pre, h)
    BY <2>5 DEF LikeOthers, Kept
  <2> QED  BY <1>2, <2>2, <2>4, <2>5
<1>5. CASE z \in Restored(y)
  BY <1>0, <1>1, <1>2, <1>5, RestoredSane, RestoredKept DEF Left
<1>6. CASE z = [y EXCEPT !.timer = t]
  <2>1. y.pre \in Snapshots  BY <1>1 DEF Display
  <2>2. t \in Timer /\ t.kind = "apply" /\ t.request = r /\ t.pre = y.pre
    BY <2>1 DEF Timer, Task
  <2> HIDE DEF t
  <2>3. /\ z \in Display /\ SameLayout(y, z) /\ z.use_vdd = y.use_vdd /\ z.pre = y.pre
        /\ z.pending = y.pending /\ z.timer = t /\ z.holder = y.holder
        /\ z.waiting = y.waiting /\ z.queue = y.queue /\ z.running = y.running
    BY <1>1, <1>6, <2>2 DEF Display, SameLayout
  <2>4. Sane(z, o)
    BY <1>1, <1>2, <2>2, <2>3 DEF Sane, SameLayout
  <2>5. \A h : Kept(y, h) => Kept(z, h)
    BY <2>2, <2>3 DEF Kept, SameLayout
  <2>6. ~ToBeTried(z)
    BY <1>0, <1>1, <2>2, <2>3 DEF ToBeTried
  <2> QED  BY <1>0, <1>1, <1>2, <2>2, <2>3, <2>4, <2>5, <2>6 DEF Left, HeldFor, Tried, Cleared
<1> QED  BY <1>3, <1>4, <1>5, <1>6

LEMMA ConfiguredSane ==
  ASSUME NEW x, NEW o, Sane(x, o), x.holder = "free", NEW r \in o, r \in Requests,
         NEW newcomer, NEW z \in Configured(x, r, newcomer)
  PROVE  /\ Left(z, o)
         /\ Cleared(x) => Cleared(z)
         /\ o \subseteq VddRequests \/ o \cap VddRequests = {}
              => \A h : Kept(x, h) => Kept(z, h)
<1> DEFINE y == IF newcomer /\ x.vdd THEN cancel_pending_display_retry(x) ELSE Invalidated(x)
<1>0. NoTimer.kind = "none"  BY DEF NoTimer
<1>1. /\ Sane(y, o) /\ SameLayout(x, y) /\ y.timer = NoTimer
      /\ y.use_vdd = x.use_vdd /\ y.pre = x.pre /\ y.holder = x.holder /\ ~ToBeTried(y)
  BY InvalidatedSane, CancelSane
<1>2. /\ Idle(y) /\ HeldFor(y) /\ Tried(y) /\ (Cleared(x) => Cleared(y))
      /\ \A h : Kept(x, h) => Kept(y, h)
  BY <1>0, <1>1 DEF Idle, HeldFor, Tried, Cleared, Kept, SameLayout
<1>3. \/ z \in Restored(y) \/ z = y
      \/ \E w \in Prepared(y, r) : z \in Restored(w) \/ z \in Settled(w, r)
  BY DEF Configured
<1> HIDE DEF y
<1>4. CASE z \in Restored(y)
  BY <1>1, <1>2, <1>4, RestoredSane, RestoredKept DEF Left, Idle
<1>5. CASE z = y
  BY <1>1, <1>2, <1>5 DEF Left
<1>6. ASSUME NEW w \in Prepared(y, r), z \in Restored(w) \/ z \in Settled(w, r)
      PROVE  /\ Left(z, o) /\ Cleared(z)
             /\ o \subseteq VddRequests \/ o \cap VddRequests = {}
                  => \A h : Kept(x, h) => Kept(z, h)
  <2>1. /\ Sane(w, o) /\ Idle(w) /\ ~ToBeTried(w) /\ (r \in VddRequests => w.vdd)
        /\ \A h : Kept(y, h) => Kept(w, h)
    BY <1>1, <1>2, PreparedSane DEF Idle
  <2>2. CASE z \in Restored(w)
    BY <1>2, <2>1, <2>2, RestoredSane, RestoredKept DEF Left, Idle
  <2>3. CASE z \in Settled(w, r)
    BY <1>2, <2>1, <2>3, SettledSane
  <2> QED  BY <1>6, <2>2, <2>3
<1> QED  BY <1>3, <1>4, <1>5, <1>6

-----------------------------------------------------------------------------
(* Steps.  An action is shown to leave a state that is sane, and one that   *)
(* keeps the user's layout if the one before did.                           *)

\* What a step from x to z does for the layout.
Keeps(x, z, o) ==
  /\ Cleared(x) /\ x.saved # Void => Cleared(z)
  /\ o \subseteq VddRequests \/ o \cap VddRequests = {} => \A h : Kept(x, h) => Kept(z, h)

Good(z, o) == Sane(z, o) /\ HeldFor(z) /\ Tried(z)

\* x and y differ in the tasks and in what the mutex is held for.
SameSession(x, y) ==
  /\ SameLayout(x, y)
  /\ y.use_vdd = x.use_vdd /\ y.pre = x.pre /\ y.pending = x.pending /\ y.timer = x.timer

LEMMA SameSessionKeeps ==
  ASSUME NEW x, NEW o, Sane(x, o), NEW y \in Display, SameSession(x, y)
  PROVE  Sane(y, o) /\ Keeps(x, y, o)
BY DEF Sane, SameSession, SameLayout, Keeps, Cleared, Kept

LEMMA TaskTypes ==
  /\ \A x \in Display : /\ x.queue \in Seq(Task) /\ x.waiting \in Task \cup {"none"}
                        /\ x.running \in Task \cup {"none"}
  /\ {"current", "stale"} \subseteq Task
  /\ \A q \in Seq(Task), t \in Task : Append(q, t) \in Seq(Task)
  /\ \A q \in Seq(Task) : q # <<>> => Head(q) \in Task /\ Tail(q) \in Seq(Task)
BY DEF Display, Task

LEMMA TimerTypes ==
  ASSUME NEW t \in Timer
  PROVE  /\ t.kind \in {"none", "apply", "restore"}
         /\ t.kind = "apply" => t.request \in Requests /\ t.pre \in Snapshots
         /\ t.kind = "restore" =>
              /\ t.tries \in 0..MaxRetries
              /\ \A n \in 0..MaxRetries :
                   [t EXCEPT !.tries = n] \in Timer /\ [t EXCEPT !.tries = n].kind = "restore"
                   /\ [t EXCEPT !.tries = n].tries = n
BY DEF Timer

LEMMA HandleUnlockGood ==
  ASSUME GoodInv, HandleUnlock
  PROVE  Good(d', offered) /\ Keeps(d, d', offered) /\ d'.holder = d.holder
         /\ d'.shown = d.shown /\ d'.use_vdd = d.use_vdd
<1>1. d \in Display  BY DEF GoodInv, Sane
<1>2. d' \in Display /\ SameSession(d, d') /\ d'.holder = d.holder
  <2>1. CASE d.waiting = "none"  BY <1>1, <2>1 DEF HandleUnlock, SameSession, SameLayout
  <2>2. CASE d.waiting # "none"
    <3> DEFINE q == Append(d.queue, d.waiting)
    <3>1. q \in Seq(Task)  BY <1>1, <2>2, TaskTypes
    <3>2. d' = [d EXCEPT !.queue = q, !.waiting = "none"]
      BY <1>1, <2>2 DEF HandleUnlock, Display
    <3> HIDE DEF q
    <3> QED  BY <1>1, <3>1, <3>2 DEF Display, SameSession, SameLayout
  <2> QED  BY <2>1, <2>2
<1>3. ToBeTried(d') => ToBeTried(d)
  <2>1. CASE d.waiting = "none"  BY <1>1, <2>1 DEF HandleUnlock
  <2>2. CASE d.waiting # "none"
    <3> DEFINE q == Append(d.queue, d.waiting)
    <3>1. d' = [d EXCEPT !.queue = q, !.waiting = "none"]
      BY <1>1, <2>2 DEF HandleUnlock, Display
    <3>2. d.queue \in Seq(Task) /\ d.waiting \in Task  BY <1>1, <2>2, TaskTypes
    <3>3. \A i \in DOMAIN q : q[i] = d.waiting \/ (i \in DOMAIN d.queue /\ q[i] = d.queue[i])
      BY <3>2
    <3> HIDE DEF q
    <3>4. /\ d'.waiting = "none" /\ d'.queue = q /\ d'.running = d.running
          /\ d'.timer = d.timer /\ d'.holder = d.holder
      BY <1>1, <3>1 DEF Display
    <3> QED  BY <3>3, <3>4 DEF ToBeTried
  <2> QED  BY <2>1, <2>2
<1> QED  BY <1>2, <1>3, SameSessionKeeps DEF GoodInv, Good, HeldFor, Tried, SameSession, SameLayout

LEMMA AddUnlockTaskGood ==
  ASSUME GoodInv, AddUnlockTask
  PROVE  Good(d', offered) /\ Keeps(d, d', offered) /\ d'.holder = "free"
         /\ d'.shown = d.shown
<1>1. d \in Display /\ d.holder \in {"add_locked", "add_unlocked"}
  BY DEF GoodInv, Sane, AddUnlockTask
<1> DEFINE q == Append(d.queue, "current")
<1>2. q \in Seq(Task)  BY <1>1, TaskTypes
<1>3. d' = IF d.holder = "add_locked" THEN [d EXCEPT !.waiting = "current", !.holder = "free"]
                                      ELSE [d EXCEPT !.queue = q, !.holder = "free"]
  BY <1>1 DEF AddUnlockTask, Display
<1> HIDE DEF q
<1>4. d' \in Display /\ SameSession(d, d') /\ d'.holder = "free"
  BY <1>1, <1>2, <1>3 DEF Display, SameSession, SameLayout, Task
<1>5. ToBeTried(d) /\ d.pending  BY <1>1 DEF ToBeTried, GoodInv, HeldFor
<1> QED  BY <1>1, <1>4, <1>5, SameSessionKeeps DEF GoodInv, Good, HeldFor, Tried, SameSession, SameLayout

LEMMA TakeTaskGood ==
  ASSUME GoodInv, TakeTask
  PROVE  Good(d', offered) /\ Keeps(d, d', offered) /\ d'.holder = d.holder
         /\ d'.shown = d.shown
<1>1. d \in Display  BY DEF GoodInv, Sane
<1>2. Head(d.queue) \in Task /\ Tail(d.queue) \in Seq(Task)
  BY <1>1, TaskTypes DEF TakeTask
<1> DEFINE hd == Head(d.queue)
           tl == Tail(d.queue)
<1>3. d' = [d EXCEPT !.running = hd, !.queue = tl]  BY DEF TakeTask
<1> HIDE DEF hd, tl
<1>4. hd \in Task /\ tl \in Seq(Task)  BY <1>2 DEF hd, tl
<1>5. d' \in Display /\ SameSession(d, d') /\ d'.holder = d.holder
  BY <1>1, <1>3, <1>4 DEF Display, SameSession, SameLayout
<1>6. ToBeTried(d') => ToBeTried(d)
  <2>1. d.queue \in Seq(Task) /\ d.queue # <<>>  BY <1>1, TaskTypes DEF TakeTask
  <2>2. /\ 1 \in DOMAIN d.queue /\ hd = d.queue[1]
        /\ \A i \in DOMAIN tl : i + 1 \in DOMAIN d.queue /\ tl[i] = d.queue[i + 1]
    BY <2>1 DEF hd, tl
  <2>3. /\ d'.waiting = d.waiting /\ d'.queue = tl /\ d'.running = hd
        /\ d'.timer = d.timer /\ d'.holder = d.holder
    BY <1>1, <1>3 DEF Display
  <2> QED  BY <2>2, <2>3 DEF ToBeTried
<1> QED  BY <1>5, <1>6, SameSessionKeeps DEF GoodInv, Good, HeldFor, Tried, SameSession, SameLayout

\* A restore that is pending is left to the timer, from whatever state x.
LEMMA PollingSane ==
  ASSUME NEW x, NEW o, Sane(x, o)
  PROVE  LET y == start_polling_restore(x) IN
         /\ Sane(y, o) /\ SameLayout(x, y) /\ y.use_vdd = x.use_vdd /\ y.pending = x.pending
         /\ y.holder = x.holder /\ y.timer.kind = "restore" /\ y.timer.tries = 0
         /\ \A h : Kept(x, h) => Kept(y, h)
<1> DEFINE t == [kind |-> "restore", gen |-> "current", tries |-> 0]
           y == start_polling_restore(x)
<1>1. t \in Timer /\ t.kind = "restore" /\ t.tries = 0
  BY DisplayAssumption DEF Timer, Task
<1>2. y = [x EXCEPT !.timer = t]  BY DEF start_polling_restore
<1> HIDE DEF t
<1>3. /\ y \in Display /\ SameLayout(x, y) /\ y.use_vdd = x.use_vdd /\ y.pending = x.pending
      /\ y.holder = x.holder /\ y.timer = t /\ y.pre = x.pre
  BY <1>1, <1>2 DEF Sane, Display, SameLayout
<1> HIDE DEF y
<1> QED  BY <1>1, <1>3 DEF Sane, SameLayout, Kept, y

LEMMA RunTaskGood ==
  ASSUME GoodInv, RunTask
  PROVE  /\ Good(d', offered) /\ Keeps(d, d', offered) /\ d'.shown = d.shown
         /\ d'.holder = "free" \/ (d'.holder = "task" /\ ~busy)
<1>1. Sane(d, offered) /\ HeldFor(d) /\ d.holder = "free"
  BY DEF GoodInv, RunTask, MutexFree
<1> DEFINE x == [d EXCEPT !.running = "none"]
<1>2. x \in Display /\ SameSession(d, x) /\ x.holder = "free"
  BY <1>1 DEF Sane, Display, SameSession, SameLayout
<1>3. Sane(x, offered) /\ Keeps(d, x, offered)
  BY <1>1, <1>2, SameSessionKeeps
<1>8. /\ x.waiting = d.waiting /\ x.queue = d.queue /\ x.running = "none" /\ x.timer = d.timer
  BY <1>1 DEF Sane, Display
<1>9. Tried(d) /\ (ToBeTried(x) => ToBeTried(d))
  BY <1>1, <1>2, <1>8 DEF GoodInv, ToBeTried
<1>10. d.running # "stale" => ToBeTried(d)
  <2>1. d.running \in {"current", "stale", "none"} /\ d.running # "none"
    BY <1>1 DEF RunTask, Sane, Display, Task
  <2> QED  BY <2>1 DEF ToBeTried
<1>4. d' = IF ~d.pending \/ d.running = "stale" THEN x
           ELSE IF busy THEN start_polling_restore(x) ELSE [x EXCEPT !.holder = "task"]
  BY DEF RunTask
<1> HIDE DEF x
<1>5. CASE ~d.pending \/ d.running = "stale"
  BY <1>1, <1>2, <1>3, <1>4, <1>5, <1>9 DEF Good, HeldFor, Tried, SameSession, SameLayout
<1>6. CASE d.pending /\ d.running # "stale" /\ busy
  <2>1. d' = start_polling_restore(x)  BY <1>4, <1>6
  <2>2. /\ Sane(d', offered) /\ SameLayout(x, d') /\ d'.use_vdd = x.use_vdd
        /\ d'.holder = x.holder /\ d'.timer.kind = "restore" /\ d'.timer.tries = 0
        /\ \A h : Kept(x, h) => Kept(d', h)
    BY <1>3, <2>1, PollingSane
  <2>3. 0 < MaxRetries  BY DisplayAssumption
  <2>4. d.saved # NoSnap  BY <1>6, <1>9, <1>10 DEF Tried
  <2> QED  BY <1>2, <1>3, <2>2, <2>3, <2>4
           DEF Good, HeldFor, Tried, Keeps, Cleared, SameSession, SameLayout
<1>7. CASE d.pending /\ d.running # "stale" /\ ~busy
  <2>1. d' = [x EXCEPT !.holder = "task"]  BY <1>4, <1>7
  <2>2. d' \in Display /\ SameSession(x, d') /\ d'.holder = "task"
    BY <1>2, <2>1 DEF Display, SameSession, SameLayout
  <2>3. Sane(d', offered) /\ Keeps(x, d', offered)
    BY <1>3, <2>2, SameSessionKeeps
  <2>4. d.saved # NoSnap /\ d.timer.kind # "apply"  BY <1>7, <1>9, <1>10 DEF Tried
  <2> QED  BY <1>1, <1>2, <1>3, <1>7, <2>2, <2>3, <2>4
           DEF Good, HeldFor, Tried, Keeps, SameSession, SameLayout
<1> QED  BY <1>5, <1>6, <1>7

\* Both background restores end this way: the layout is restored and the
\* session forgotten.
LEMMA RestoreEnds ==
  ASSUME GoodInv, d.pending, ToBeTried(d),
         d' = [stop_timer_and_clear_vdd_state(Reverted(d)) EXCEPT !.holder = "free"]
  PROVE  Good(d', offered) /\ Keeps(d, d', offered) /\ d'.holder = "free"
<1> DEFINE y == stop_timer_and_clear_vdd_state(Reverted(d))
<1>0. NoTimer.kind = "none"  BY DEF NoTimer
<1>1. /\ Sane(d, offered) /\ Placed(d, offered) /\ d.saved # NoSnap
  BY SanePlaced DEF GoodInv, Tried
<1>2. /\ Sane(y, offered) /\ y.saved = NoSnap
      /\ d.saved \in Physical => y.shown = d.saved /\ y.base = d.saved
      /\ d.saved # Void => y.shown \notin VddLayouts
      /\ ~y.pending /\ y.timer = NoTimer
      /\ y.use_vdd = "none" /\ y.pre = NoSnap
  BY <1>1, RevertStops
<1>3. d' = [y EXCEPT !.holder = "free"]  OBVIOUS
<1> HIDE DEF y
<1>4. d' \in Display /\ SameSession(y, d') /\ d'.holder = "free"
  BY <1>2, <1>3 DEF Sane, Display, SameSession, SameLayout
<1>5. Sane(d', offered)
  BY <1>2, <1>4, SameSessionKeeps
<1>6. \A h : Kept(d, h) => Kept(d', h)
  BY <1>0, <1>1, <1>2, <1>4, LayoutTypes DEF Kept, SameSession, SameLayout
<1> QED  BY <1>0, <1>2, <1>4, <1>5, <1>6 DEF Good, HeldFor, Tried, Keeps, Cleared, SameSession, SameLayout

\* And when they fail the snapshot, the session and the request to restore stay.
LEMMA RestoreFails ==
  ASSUME GoodInv, d.pending, ToBeTried(d), NEW x \in {d} \cup IF MayAccept THEN NotReverted(d) ELSE {}
  PROVE  /\ Sane(x, offered) /\ x.timer = d.timer /\ x.holder = d.holder /\ x.pending
         /\ x.saved # NoSnap
         /\ x.use_vdd = d.use_vdd /\ x.use_vdd # "none"
         /\ \A h : Kept(d, h) => Kept(x, h)
<1>1. Sane(d, offered) /\ d.saved # NoSnap /\ d.use_vdd # "none"  BY DEF GoodInv, Sane, Tried
<1>2. CASE x = d  BY <1>1, <1>2
<1>3. CASE x \in NotReverted(d)
  <2>1. Sane(x, offered) /\ SameButLayout(d, x) /\ x.saved = d.saved
    BY <1>1, <1>3, NotRevertedSane
  <2> QED  BY <1>1, <2>1 DEF SameButLayout, Kept
<1> QED  BY <1>2, <1>3

LEMMA FinishTaskGood ==
  ASSUME GoodInv, FinishTask
  PROVE  Good(d', offered) /\ Keeps(d, d', offered) /\ d'.holder = "free"
<1>1. d.pending /\ ToBeTried(d)  BY DEF GoodInv, HeldFor, FinishTask, ToBeTried
<1>2. CASE d' = [stop_timer_and_clear_vdd_state(Reverted(d)) EXCEPT !.holder = "free"]
  BY <1>1, <1>2, RestoreEnds
<1>3. ASSUME NEW x \in {d} \cup IF MayAccept THEN NotReverted(d) ELSE {},
             d' = [start_polling_restore(x) EXCEPT !.holder = "free"]
      PROVE  Good(d', offered) /\ Keeps(d, d', offered) /\ d'.holder = "free"
  <2> DEFINE y == start_polling_restore(x)
  <2>1. /\ Sane(x, offered) /\ x.use_vdd # "none" /\ x.saved # NoSnap
        /\ \A h : Kept(d, h) => Kept(x, h)
    BY <1>1, RestoreFails
  <2>2. /\ Sane(y, offered) /\ y.use_vdd = x.use_vdd /\ y.saved # NoSnap
        /\ y.timer.kind = "restore" /\ y.timer.tries = 0
        /\ \A h : Kept(x, h) => Kept(y, h)
    BY <2>1, PollingSane DEF SameLayout
  <2>3. d' = [y EXCEPT !.holder = "free"]  BY <1>3
  <2> HIDE DEF y
  <2>4. d' \in Display /\ SameSession(y, d') /\ d'.holder = "free"
    BY <2>2, <2>3 DEF Sane, Display, SameSession, SameLayout
  <2>5. Sane(d', offered) /\ \A h : Kept(y, h) => Kept(d', h)
    BY <2>2, <2>4, SameSessionKeeps DEF Kept, SameSession, SameLayout
  <2>6. 0 < MaxRetries  BY DisplayAssumption
  <2> QED  BY <2>1, <2>2, <2>4, <2>5, <2>6 DEF Good, HeldFor, Tried, Keeps, Cleared, SameSession,
             SameLayout
<1> QED  BY <1>2, <1>3 DEF FinishTask

LEMMA FirePollGood ==
  ASSUME GoodInv, FirePoll
  PROVE  /\ Good(d', offered) /\ Keeps(d, d', offered) /\ d'.shown = d.shown
         /\ d'.holder = "free" \/ (d'.holder = "poll" /\ ~busy)
<1>0. NoTimer.kind = "none" /\ NoTimer \in Timer  BY DEF NoTimer, Timer
<1>1. Sane(d, offered) /\ HeldFor(d) /\ d.holder = "free" /\ d.timer.kind = "restore"
  BY DEF GoodInv, FirePoll, MutexFree
<1>2. d.timer \in Timer /\ d \in Display  BY <1>1 DEF Sane, Display
<1>6. Tried(d) /\ ToBeTried(d)
  BY <1>1 DEF GoodInv, ToBeTried
<1>3. CASE ~d.pending \/ d.timer.gen = "stale"
  <2>1. d' = [d EXCEPT !.timer = NoTimer]  BY <1>3 DEF FirePoll
  <2>2. /\ d' \in Display /\ SameLayout(d, d') /\ d'.use_vdd = d.use_vdd /\ d'.pre = d.pre
        /\ d'.pending = d.pending /\ d'.timer = NoTimer /\ d'.holder = "free"
    BY <1>0, <1>1, <1>2, <2>1 DEF Display, SameLayout
  <2> QED  BY <1>0, <1>1, <1>6, <2>2 DEF Good, Sane, HeldFor, Tried, Keeps, Cleared, Kept, SameLayout
<1>4. CASE d.pending /\ d.timer.gen # "stale" /\ busy
  <2>1. d' = d  BY <1>4 DEF FirePoll
  <2> QED  BY <1>1, <1>6, <2>1 DEF Good, Keeps
<1>5. CASE d.pending /\ d.timer.gen # "stale" /\ ~busy
  <2>1. d.timer.tries \in 0..MaxRetries /\ d.timer.tries < MaxRetries /\ MaxRetries \in Nat
    BY <1>1, <1>2, TimerTypes, DisplayAssumption DEF HeldFor
  <2>2. d.timer.tries + 1 \in 0..MaxRetries  BY <2>1
  <2> DEFINE t == [d.timer EXCEPT !.tries = d.timer.tries + 1]
  <2>3. t \in Timer /\ t.kind = "restore"  BY <1>1, <1>2, <2>2, TimerTypes
  <2>4. d' = [d EXCEPT !.holder = "poll", !.timer = t]
    BY <1>2, <1>5 DEF FirePoll, Display
  <2> HIDE DEF t
  <2>5. /\ d' \in Display /\ SameLayout(d, d') /\ d'.use_vdd = d.use_vdd /\ d'.pre = d.pre
        /\ d'.pending = d.pending /\ d'.timer = t /\ d'.holder = "poll"
    BY <1>2, <2>3, <2>4 DEF Display, SameLayout
  <2> QED  BY <1>1, <1>5, <1>6, <2>3, <2>5 DEF Good, Sane, HeldFor, Tried, Keeps, Cleared, Kept, SameLayout
<1> QED  BY <1>3, <1>4, <1>5

LEMMA FinishPollGood ==
  ASSUME GoodInv, FinishPoll
  PROVE  Good(d', offered) /\ Keeps(d, d', offered) /\ d'.holder = "free"
<1>0. NoTimer.kind = "none" /\ NoTimer \in Timer  BY DEF NoTimer, Timer
<1>1. d.pending /\ ToBeTried(d) /\ d.timer.kind = "restore" /\ d.timer \in Timer
  BY DEF GoodInv, HeldFor, FinishPoll, ToBeTried, Sane, Display
<1>2. CASE d' = [stop_timer_and_clear_vdd_state(Reverted(d)) EXCEPT !.holder = "free"]
  BY <1>1, <1>2, RestoreEnds
<1>3. ASSUME NEW x \in {d} \cup IF MayAccept THEN NotReverted(d) ELSE {},
             d' = [x EXCEPT !.holder = "free",
                            !.timer = IF @.tries >= MaxRetries THEN NoTimer ELSE @]
      PROVE  Good(d', offered) /\ Keeps(d, d', offered) /\ d'.holder = "free"
  <2>1. /\ Sane(x, offered) /\ x.timer = d.timer /\ x.use_vdd # "none" /\ x.saved # NoSnap
        /\ \A h : Kept(d, h) => Kept(x, h)
    BY <1>1, RestoreFails
  <2> DEFINE t == IF x.timer.tries >= MaxRetries THEN NoTimer ELSE x.timer
  <2>2. d' = [x EXCEPT !.holder = "free", !.timer = t]
    BY <1>3, <2>1 DEF Sane, Display
  <2>3. x.timer.tries \in 0..MaxRetries /\ MaxRetries \in Nat
    BY <1>1, <2>1, TimerTypes, DisplayAssumption
  <2>4. t \in Timer /\ (t.kind = "none" \/ (t.kind = "restore" /\ t.tries < MaxRetries))
    BY <1>0, <1>1, <2>1, <2>3
  <2> HIDE DEF t
  <2>5. /\ d' \in Display /\ SameLayout(x, d') /\ d'.use_vdd = x.use_vdd /\ d'.pre = x.pre
        /\ d'.pending = x.pending /\ d'.timer = t /\ d'.holder = "free"
    BY <2>1, <2>2, <2>4 DEF Sane, Display, SameLayout
  <2>6. Sane(d', offered) /\ \A h : Kept(x, h) => Kept(d', h)
    BY <2>1, <2>4, <2>5 DEF Sane, Kept, SameLayout
  <2> QED  BY <2>1, <2>4, <2>5, <2>6 DEF Good, HeldFor, Tried, Keeps, Cleared, SameLayout
<1> QED  BY <1>2, <1>3 DEF FinishPoll

LEMMA FireApplyGood ==
  ASSUME GoodInv, FireApply
  PROVE  /\ Good(d', offered) /\ Keeps(d, d', offered) /\ d'.shown = d.shown
         /\ d'.holder = "free" \/ (d'.holder = "apply" /\ ~busy)
<1>0. NoTimer.kind = "none" /\ NoTimer \in Timer  BY DEF NoTimer, Timer
<1>1. Sane(d, offered) /\ HeldFor(d) /\ d.holder = "free" /\ d.timer.kind = "apply" /\ d \in Display
  BY DEF GoodInv, FireApply, MutexFree, Sane
<1>4. ~ToBeTried(d)  BY <1>1 DEF GoodInv, Tried
<1>2. CASE d.timer.gen = "stale" \/ busy
  <2>1. d' = [d EXCEPT !.timer = NoTimer]  BY <1>2 DEF FireApply
  <2>2. /\ d' \in Display /\ SameLayout(d, d') /\ d'.use_vdd = d.use_vdd /\ d'.pre = d.pre
        /\ d'.pending = d.pending /\ d'.timer = NoTimer /\ d'.holder = "free"
        /\ d'.waiting = d.waiting /\ d'.queue = d.queue /\ d'.running = d.running
    BY <1>0, <1>1, <2>1 DEF Display, SameLayout
  <2>3. ~ToBeTried(d')  BY <1>0, <1>4, <2>2 DEF ToBeTried
  <2> QED  BY <1>0, <1>1, <2>2, <2>3 DEF Good, Sane, HeldFor, Tried, Keeps, Cleared, Kept, SameLayout
<1>3. CASE ~(d.timer.gen = "stale" \/ busy)
  <2>1. d' = [d EXCEPT !.holder = "apply"]  BY <1>3 DEF FireApply
  <2>2. d' \in Display /\ SameSession(d, d') /\ d'.holder = "apply"
    BY <1>1, <2>1 DEF Display, SameSession, SameLayout
  <2>4. /\ d'.waiting = d.waiting /\ d'.queue = d.queue /\ d'.running = d.running
    BY <1>1, <2>1 DEF Display
  <2>5. ~ToBeTried(d')  BY <1>4, <2>2, <2>4 DEF ToBeTried, SameSession
  <2>3. Sane(d', offered) /\ Keeps(d, d', offered)
    BY <1>1, <2>2, SameSessionKeeps
  <2> QED  BY <1>1, <1>3, <2>2, <2>3, <2>5 DEF Good, HeldFor, Tried, SameSession, SameLayout
<1> QED  BY <1>2, <1>3

LEMMA FinishApplyGood ==
  ASSUME GoodInv, FinishApply
  PROVE  Left(d', offered) /\ Keeps(d, d', offered)
<1> DEFINE r == d.timer.request
           pre == d.timer.pre
           x == [d EXCEPT !.holder = "free"]
<1>0. NoTimer.kind = "none"  BY DEF NoTimer
<1>1. Sane(d, offered) /\ d.timer.kind = "apply" /\ d \in Display /\ d.timer \in Timer
  BY DEF GoodInv, FinishApply, HeldFor, Sane, Display
<1>2. x \in Display /\ SameSession(d, x) /\ x.holder = "free"
  BY <1>1 DEF Display, SameSession, SameLayout
<1>3. Sane(x, offered) /\ Keeps(d, x, offered)
  BY <1>1, <1>2, SameSessionKeeps
<1>4. r \in Requests /\ pre \in Snapshots
  BY <1>1, TimerTypes
<1>5. MayApply(x, offered, r, pre)
  BY <1>1, <1>2, <1>3, <1>4 DEF MayApply, Sane, SameSession, SameLayout
<1>6. ASSUME NEW h, offered \subseteq VddRequests \/ offered \cap VddRequests = {}, Kept(d, h)
      PROVE  LikeOthers(x, offered, pre, h)
  BY <1>1, <1>2, <1>3, <1>6 DEF LikeOthers, Keeps, Kept, SameSession, SameLayout
<1>7. \/ r \in VddRequests /\ \E l \in Partly(x, r) : d' = Show(x, l)
      \/ \E y \in ApplyFailed(x, r, pre) : d' \in Restored(y)
      \/ d' \in ApplySucceeded(x, r, pre)
  BY DEF FinishApply
<1>8. x.timer = d.timer  BY <1>2 DEF SameSession
<1>12. ~ToBeTried(x)
  <2>1. x.waiting = d.waiting /\ x.queue = d.queue /\ x.running = d.running
    BY <1>1 DEF Display
  <2>2. ~ToBeTried(d)  BY <1>1 DEF GoodInv, Tried
  <2> QED  BY <1>2, <1>8, <2>1, <2>2 DEF ToBeTried
<1> HIDE DEF x, r, pre
<1>9. ASSUME r \in VddRequests, NEW l \in Partly(x, r), d' = Show(x, l)
      PROVE  Left(d', offered) /\ Keeps(d, d', offered)
  <2>1. l \in Layouts /\ (l \in VddLayouts => x.vdd) /\ (l \in VddLayouts \/ l = x.shown)
    <3>1. x \in Switched(x, r)  BY DEF Switched
    <3>2. l \in {x.shown, r, Extended}  BY <1>9 DEF Partly
    <3> QED  BY <1>5, <1>9, <3>1, <3>2, PartlyLayouts, LayoutTypes DEF VddLayouts
  <2>2. /\ d' \in Display /\ SameButLayout(x, d') /\ d'.saved = x.saved
        /\ d'.shown = l /\ d'.base = (IF l \in VddLayouts THEN x.base ELSE l)
    BY <1>2, <1>9, <2>1 DEF Show, Display, Physical, SameButLayout
  <2>3. d'.base = x.base  BY <1>3, <2>1, <2>2 DEF Sane
  <2>4. Sane(d', offered) /\ \A h : Kept(x, h) => Kept(d', h)
    BY <1>3, <2>1, <2>2, <2>3 DEF Sane, Kept, SameButLayout
  <2>5. d'.use_vdd # "none"
    BY <1>1, <1>2, <2>2 DEF Sane, SameButLayout, SameSession
  <2>6. ~ToBeTried(d')  BY <1>12, <2>2 DEF ToBeTried, SameButLayout
  <2> QED  BY <1>1, <1>2, <1>3, <1>8, <2>2, <2>4, <2>5, <2>6
           DEF Left, HeldFor, Tried, Keeps, Cleared, SameButLayout
<1>10. ASSUME NEW y \in ApplyFailed(x, r, pre), d' \in Restored(y)
       PROVE  Left(d', offered) /\ Keeps(d, d', offered)
  <2>1. /\ Sane(y, offered) /\ SameButLayout(x, y)
        /\ \A h : LikeOthers(x, offered, pre, h) => Kept(y, h)
    BY <1>5, ApplyFailedSane
  <2>2. y.holder = "free"  BY <1>2, <2>1 DEF SameButLayout
  <2>3. Left(d', offered) /\ Cleared(d') /\ \A h : Kept(y, h) => Kept(d', h)
    BY <1>10, <2>1, <2>2, RestoredSane, RestoredKept DEF Left
  <2> QED  BY <1>6, <2>1, <2>3 DEF Keeps
<1>11. CASE d' \in ApplySucceeded(x, r, pre)
  <2>1. /\ Sane(d', offered) /\ d'.timer = NoTimer /\ d'.holder = x.holder
        /\ d'.use_vdd = x.use_vdd /\ (ToBeTried(d') => ToBeTried(x))
        /\ \A h : LikeOthers(x, offered, pre, h) => Kept(d', h)
    BY <1>5, <1>11, ApplySucceededSane
  <2>2. d'.use_vdd # "none"
    BY <1>1, <1>2, <2>1 DEF Sane, SameSession
  <2> QED  BY <1>0, <1>2, <1>6, <1>12, <2>1, <2>2 DEF Left, HeldFor, Tried, Keeps, Cleared
<1> QED  BY <1>7, <1>9, <1>10, <1>11

LEMMA ResetPersistenceGood ==
  ASSUME GoodInv, ResetPersistence
  PROVE  Good(d', offered) /\ d'.holder = "free"
<1>0. NoTimer.kind = "none"  BY DEF NoTimer
<1>1. Sane(d, offered) /\ Placed(d, offered) /\ d.holder = "free" /\ d \in Display
  BY SanePlaced DEF GoodInv, ResetPersistence, MutexFree, Sane
<1>2. PICK x \in {d} \cup (IF d.saved = NoSnap THEN {}
                           ELSE {Reverted(d), Reverted(Destroyed(d))} \cup NotReverted(d)) :
        d' = stop_timer_and_clear_vdd_state([x EXCEPT !.saved = NoSnap, !.file = NoSnap])
  BY DEF ResetPersistence
<1>3. Placed(x, offered) /\ x.holder = "free"
  <2>1. CASE x = d  BY <1>1, <2>1
  <2>2. CASE d.saved # NoSnap /\ x = Reverted(d)
    <3>1. /\ x \in Display /\ SameButLayout(d, x)
          /\ \/ x.shown = d.saved /\ x.base = d.saved /\ d.saved \notin VddLayouts
             \/ x.shown = d.shown /\ x.base = IF d.shown \in VddLayouts THEN d.base ELSE d.shown
      BY <1>1, <2>2, RevertedFields
    <3> QED  BY <1>1, <3>1 DEF Placed, SameButLayout
  <2>3. CASE d.saved # NoSnap /\ x = Reverted(Destroyed(d))
    <3> DEFINE y == Destroyed(d)
    <3>1. /\ y \in Display /\ ~y.vdd /\ y.saved = d.saved /\ y.holder = d.holder
          /\ y.shown = y.base /\ y.shown \notin VddLayouts
      <4>1. d.base \in Layouts /\ d.base \in Physical /\ d.base \notin VddLayouts
        BY <1>1 DEF Display, Physical
      <4>2. (IF d.shown \in VddLayouts THEN d.base ELSE d.shown) = d.base
        BY <1>1 DEF Sane
      <4>3. y = [d EXCEPT !.vdd = FALSE, !.shown = d.base, !.base = d.base]
        BY <1>1, <4>1, <4>2 DEF Destroyed, Show, Display
      <4> HIDE DEF y
      <4> QED  BY <1>1, <4>1, <4>3 DEF Display
    <3> HIDE DEF y
    <3>2. /\ x \in Display /\ SameButLayout(y, x)
          /\ x.shown = x.base /\ x.shown \notin VddLayouts
      BY <2>3, <3>1, RevertedFields DEF y
    <3> QED  BY <1>1, <3>1, <3>2 DEF Placed, SameButLayout
  <2>4. CASE d.saved # NoSnap /\ x \in NotReverted(d)
    BY <1>1, <2>4, NotRevertedSane, SanePlaced DEF SameButLayout
  <2> QED  BY <2>1, <2>2, <2>3, <2>4
<1> DEFINE w == [x EXCEPT !.saved = NoSnap, !.file = NoSnap]
<1>4. Placed(w, offered) /\ w.holder = "free"
  BY <1>3 DEF Placed, Display, Snapshots
<1> HIDE DEF w
<1>5. d' = stop_timer_and_clear_vdd_state(w)  BY <1>2 DEF w
<1>6. Sane(d', offered) /\ d'.timer = NoTimer /\ d'.holder = "free"
  BY <1>4, <1>5, StopPlaced
<1>7. ~d'.pending  BY <1>4, <1>5, StopPlaced
<1> QED  BY <1>0, <1>6, <1>7 DEF Good, HeldFor, Tried

\* What a process leaves keeps the layout if nothing covers it but the virtual display.
LEMMA ForgottenSane ==
  ASSUME NEW x, NEW o, Placed(x, o)
  PROVE  LET y == Forgotten(x) IN
         /\ Good(y, o) /\ y.use_vdd = "none" /\ y.holder = "free" /\ y.base = x.base
         /\ Kept(y, x.base)
<1> DEFINE s == stop_timer_and_clear_vdd_state(x)
           y == Forgotten(x)
<1>0. NoTimer.kind = "none" /\ NoSnap \in Snapshots /\ <<>> \in Seq(Task)
  BY DEF NoTimer, Snapshots
<1>1. /\ Sane(s, o) /\ SameLayout(x, s) /\ ~s.pending /\ s.timer = NoTimer
      /\ s.use_vdd = "none" /\ s.pre = NoSnap
  BY StopPlaced
<1>2. y = [s EXCEPT !.saved = NoSnap, !.queue = <<>>, !.running = "none", !.holder = "free"]
  BY DEF Forgotten
<1> HIDE DEF s, y
<1>3. /\ y \in Display /\ y.shown = s.shown /\ y.base = s.base /\ y.vdd = s.vdd
      /\ y.saved = NoSnap /\ y.holder = "free"
      /\ y.pending = s.pending /\ y.timer = s.timer /\ y.use_vdd = s.use_vdd /\ y.pre = s.pre
  BY <1>0, <1>1, <1>2 DEF Sane, Display
<1> QED  BY <1>0, <1>1, <1>3 DEF Sane, Good, HeldFor, Tried, Kept, SameLayout, Display, y

\* The three ways in which a process ends; home is remembered if it is there.
LEMMA EndGood ==
  ASSUME GoodInv, Deinit \/ Crash \/ \E r \in Requests : CrashInApply(r)
  PROVE  /\ Good(d', offered) /\ d'.use_vdd = "none" /\ d'.holder = "free"
         /\ Expected' => Kept(d', home)
<1>0. Sane(d, offered) /\ d \in Display  BY DEF GoodInv, Sane
<1>1. CASE Deinit
  <2> DEFINE y == Destroyed(d)
  <2>1. Placed(y, offered) /\ y.base = d.base
    <3>1. d.base \in Layouts /\ d.base \in Physical /\ d.base \notin VddLayouts
      BY <1>0 DEF Display, Physical
    <3>2. (IF d.shown \in VddLayouts THEN d.base ELSE d.shown) = d.base
      BY <1>0 DEF Sane
    <3>3. y = [d EXCEPT !.vdd = FALSE, !.shown = d.base, !.base = d.base]
      BY <1>0, <3>1, <3>2 DEF Destroyed, Show, Display
    <3> HIDE DEF y
    <3>4. y \in Display /\ ~y.vdd /\ y.shown = d.base /\ y.base = d.base
      BY <1>0, <3>1, <3>3 DEF Display
    <3> QED  BY <3>1, <3>4 DEF Placed
  <2>2. d' = Forgotten(y) /\ killed' = (killed \/ d.base # home) /\ home' = home
    BY <1>1 DEF Deinit
  <2> HIDE DEF y
  <2>3. /\ Good(d', offered) /\ d'.use_vdd = "none" /\ d'.holder = "free" /\ Kept(d', y.base)
    BY <2>1, <2>2, ForgottenSane
  <2> QED  BY <2>1, <2>2, <2>3 DEF Expected
<1>2. CASE Crash
  <2>1. d' = Forgotten(d) /\ killed' = (killed \/ d.base # home) /\ home' = home
    BY <1>2 DEF Crash
  <2>2. /\ Good(d', offered) /\ d'.use_vdd = "none" /\ d'.holder = "free" /\ Kept(d', d.base)
    BY <1>0, <2>1, ForgottenSane, SanePlaced
  <2> QED  BY <2>1, <2>2 DEF Expected
<1>3. ASSUME NEW r \in Requests, CrashInApply(r)
      PROVE  /\ Good(d', offered) /\ d'.use_vdd = "none" /\ d'.holder = "free"
             /\ Expected' => Kept(d', home)
  <2>1. PICK x \in Prepared(d, r) : d' = Forgotten(Show(x, r))
    BY <1>3 DEF CrashInApply
  <2>2. r \in offered /\ killed' = (killed \/ d'.base # home) /\ home' = home
    BY <1>3 DEF CrashInApply
  <2>3. Sane(x, offered) /\ (r \in VddRequests => x.vdd)
    BY <1>0, <2>2, PreparedSane
  <2> DEFINE y == Show(x, r)
  <2>4. r \in Layouts /\ (r \in VddLayouts => r \in VddRequests)
    BY LayoutTypes, DisplayAssumption DEF VddLayouts
  <2>5. Placed(y, offered)
    BY <2>3, <2>4 DEF Placed, Sane, Show, Display, Physical
  <2> HIDE DEF y
  <2>6. d' = Forgotten(y)  BY <2>1 DEF y
  <2>7. /\ Good(d', offered) /\ d'.use_vdd = "none" /\ d'.holder = "free"
        /\ d'.base = y.base /\ Kept(d', y.base)
    BY <2>5, <2>6, ForgottenSane
  <2> QED  BY <2>2, <2>7 DEF Expected
<1> QED  BY <1>1, <1>2, <1>3

-----------------------------------------------------------------------------
(* The invariants.                                                          *)

LEMMA InitGood == Init => LayoutInv
<1> SUFFICES ASSUME Init PROVE LayoutInv  OBVIOUS
<1>1. NoTimer \in Timer /\ NoTimer.kind = "none" /\ <<>> \in Seq(Task)
  BY DEF NoTimer, Timer
<1>2. d \in Display
  BY <1>1, LayoutTypes DEF Init, Display, Snapshots
<1>3. /\ d.shown = Orig /\ d.base = Orig /\ ~d.vdd /\ d.saved = NoSnap /\ d.use_vdd = "none"
      /\ d.pre = NoSnap /\ ~d.pending /\ d.timer = NoTimer /\ d.holder = "free"
  BY DEF Init
<1>4. Orig \notin VddLayouts /\ Orig \in Snapshots
  BY LayoutTypes DEF Snapshots, Physical
<1>5. Sane(d, offered) /\ HeldFor(d) /\ Tried(d) /\ Kept(d, Orig) /\ Cleared(d)
  BY <1>1, <1>2, <1>3, <1>4, LayoutTypes DEF Sane, HeldFor, Tried, Kept, Cleared
<1>6. TypeOK
  BY <1>2, <1>4 DEF Init, TypeOK
<1> QED  BY <1>3, <1>5, <1>6 DEF LayoutInv, GoodInv, Init

\* The steps that call session_t for a client, the user or the process.
Calls ==
  \/ \E r \in Requests, newcomer \in BOOLEAN : ConfigureDisplay(r, newcomer)
  \/ \E r \in Requests : ReconfigureDisplay(r)
  \/ RecoverDisplay \/ RefusalRestores \/ Cancel \/ ShutDown \/ Start

LEMMA CallsGood ==
  ASSUME GoodInv, Calls
  PROVE  Left(d', offered) /\ Keeps(d, d', offered) /\ (Start => Cleared(d'))
<1>0. Sane(d, offered) /\ d.holder = "free"
  BY DEF GoodInv, Calls, Called, MutexFree, ConfigureDisplay, ReconfigureDisplay, RecoverDisplay,
         RefusalRestores, Cancel, ShutDown, Start
<1>1. ASSUME NEW r \in Requests, NEW newcomer \in BOOLEAN,
             r \in offered /\ d' \in Configured(d, r, newcomer)
      PROVE  Left(d', offered) /\ Keeps(d, d', offered)
  BY <1>0, <1>1, ConfiguredSane DEF Keeps
<1>2. CASE d' \in Restored(d)
  BY <1>0, <1>2, RestoredSane, RestoredKept DEF Left, Keeps
<1>3. \/ d' \in Restored(d)
      \/ \E r \in Requests, newcomer \in BOOLEAN : r \in offered /\ d' \in Configured(d, r, newcomer)
  BY DEF Calls, ConfigureDisplay, ReconfigureDisplay, RecoverDisplay, RefusalRestores, Cancel,
         ShutDown, Start
<1>4. CASE Start
  <2>1. d' \in Restored(d)  BY <1>4 DEF Start
  <2> QED  BY <1>0, <1>2, <2>1, RestoredSane
<1> QED  BY <1>1, <1>2, <1>3, <1>4

\* The steps that leave the display alone.
Asides == BeginRequest \/ PublishTicket \/ RefuseRequest \/ SessionsEnd \/ AppExits \/ Lock \/ Unlock

Ends == Deinit \/ Crash \/ \E r \in Requests : CrashInApply(r)

LEMMA NextCases == Next => Calls \/ Asides \/ Background \/ Ends \/ ResetPersistence
BY DEF Next, Requesting, Process, Calls, Asides, Ends

\* What a background step leaves, and of whom it has taken notice.
LEMMA BackgroundGood ==
  ASSUME GoodInv, Background
  PROVE  /\ Good(d', offered) /\ Keeps(d, d', offered)
         /\ d'.holder \in {"task", "poll", "apply"} => ~busy \/ d'.holder = d.holder
         /\ d'.shown # d.shown => d.holder \in {"task", "poll", "apply"}
         /\ up \/ (d'.use_vdd = d.use_vdd /\ d'.holder = d.holder)
         /\ UNCHANGED <<up, helper, offered, locked, host, app, home, killed>>
         /\ event' \in BOOLEAN
<1>0. /\ UNCHANGED <<up, helper, offered, locked, host, app, home, killed>> /\ event' \in BOOLEAN
      /\ HandleUnlock \/ up
  BY DEF GoodInv, TypeOK, Background, HandleUnlock, AddUnlockTask, TakeTask, RunTask, FinishTask,
         FirePoll, FinishPoll, FireApply, FinishApply, MutexFree
<1>1. CASE HandleUnlock  BY <1>0, <1>1, HandleUnlockGood
<1>2. CASE AddUnlockTask  BY <1>0, <1>2, AddUnlockTaskGood DEF AddUnlockTask
<1>3. CASE TakeTask  BY <1>0, <1>3, TakeTaskGood DEF TakeTask
<1>4. CASE RunTask  BY <1>0, <1>4, RunTaskGood DEF RunTask, MutexFree
<1>5. CASE FinishTask  BY <1>0, <1>5, FinishTaskGood DEF FinishTask
<1>6. CASE FirePoll  BY <1>0, <1>6, FirePollGood DEF FirePoll, MutexFree
<1>7. CASE FinishPoll  BY <1>0, <1>7, FinishPollGood DEF FinishPoll
<1>8. CASE FireApply  BY <1>0, <1>8, FireApplyGood DEF FireApply, MutexFree
<1>9. CASE FinishApply  BY <1>0, <1>9, FinishApplyGood DEF FinishApply, Left, Good
<1> QED  BY <1>1, <1>2, <1>3, <1>4, <1>5, <1>6, <1>7, <1>8, <1>9 DEF Background

LEMMA NextGood == GoodInv /\ [Next]_vars => GoodInv'
<1> SUFFICES ASSUME GoodInv, [Next]_vars PROVE GoodInv'  OBVIOUS
<1>0. TypeOK /\ Sane(d, offered)  BY DEF GoodInv
<1>1. CASE Calls
  <2>1. Left(d', offered)  BY <1>1, CallsGood
  <2>2. UNCHANGED <<helper, offered, locked, event, home, killed>>
    BY <1>1 DEF Calls, ConfigureDisplay, ReconfigureDisplay, RecoverDisplay, RefusalRestores,
                Cancel, ShutDown, Start
  <2>3. up' = TRUE /\ host' \in {host, "rest", "configured", "stopping"} /\ app' \in BOOLEAN
    BY <1>0, <1>1 DEF TypeOK, Calls, ConfigureDisplay, ReconfigureDisplay, RecoverDisplay,
                RefusalRestores, Cancel, ShutDown, Start, Called, MutexFree
  <2>4. TypeOK'
    BY <1>0, <2>1, <2>2, <2>3 DEF TypeOK, Left, Sane
  <2> QED  BY <2>1, <2>2, <2>3, <2>4 DEF GoodInv, Left
<1>2. CASE Asides
  <2>1. /\ d' = d /\ UNCHANGED <<up, helper, offered, home, killed>>
        /\ locked' \in BOOLEAN /\ event' \in BOOLEAN /\ app' \in BOOLEAN
        /\ \/ host' = host
           \/ host' \in {"preparing", "rest", "refused"}
           \/ host = "configured" /\ host' = "streaming"
    BY <1>0, <1>2 DEF TypeOK, Asides, BeginRequest, PublishTicket, RefuseRequest, SessionsEnd,
                      AppExits, Lock, Unlock
  <2> QED  BY <2>1 DEF GoodInv, TypeOK
<1>3. CASE Background
  <2>1. TypeOK'
    BY <1>0, <1>3, BackgroundGood DEF TypeOK, Good, Sane
  <2> QED  BY <1>3, <2>1, BackgroundGood DEF GoodInv, Good, busy
<1>4. CASE Ends
  <2>1. Good(d', offered) /\ d'.use_vdd = "none" /\ d'.holder = "free"
    BY <1>4, EndGood DEF Ends
  <2>2. /\ UNCHANGED <<helper, offered, locked, event, home>>
        /\ up' = FALSE /\ app' = FALSE /\ host' = "rest" /\ killed' \in BOOLEAN
    BY <1>0, <1>4 DEF Ends, Deinit, Crash, CrashInApply, TypeOK
  <2>3. TypeOK'
    BY <1>0, <2>1, <2>2 DEF TypeOK, Good, Sane
  <2> QED  BY <2>1, <2>2, <2>3 DEF GoodInv, Good
<1>5. CASE ResetPersistence
  <2>1. Good(d', offered) /\ d'.holder = "free"
    BY <1>5, ResetPersistenceGood
  <2>2. UNCHANGED <<up, helper, offered, locked, event, host, app, killed>> /\ home' = NoSnap /\ up
    BY <1>5 DEF ResetPersistence, MutexFree
  <2>3. TypeOK'
    BY <1>0, <2>1, <2>2 DEF TypeOK, Good, Sane, Snapshots
  <2> QED  BY <2>1, <2>2, <2>3 DEF GoodInv, Good
<1>6. CASE UNCHANGED vars
  BY <1>6 DEF GoodInv, TypeOK, vars, Expected
<1> QED  BY <1>1, <1>2, <1>3, <1>4, <1>5, <1>6, NextCases

LEMMA GoodAlways == Spec => []GoodInv
<1>1. Init => GoodInv  BY InitGood DEF LayoutInv
<1> QED  BY <1>1, NextGood, PTL DEF Spec

LEMMA NextLayout ==
  ASSUME Alike
  PROVE  LayoutInv /\ [Next]_vars => LayoutInv'
<1> SUFFICES ASSUME LayoutInv, [Next]_vars PROVE LayoutInv'  OBVIOUS
<1>0. GoodInv /\ GoodInv'  BY NextGood DEF LayoutInv
<1>1. offered \subseteq VddRequests \/ offered \cap VddRequests = {}
  BY <1>0 DEF Alike, GoodInv, TypeOK
<1>2. ASSUME Keeps(d, d', offered), UNCHANGED <<home, killed>>, up' => up \/ Cleared(d')
      PROVE  LayoutInv'
  <2>1. Expected => Kept(d, home) /\ d.saved # Void
    BY LayoutTypes, DisplayAssumption DEF LayoutInv, Kept
  <2> QED  BY <1>0, <1>1, <1>2, <2>1 DEF LayoutInv, Keeps, Expected
<1>3. CASE Calls
  <2>1. Keeps(d, d', offered) /\ (Start => Cleared(d'))  BY <1>0, <1>3, CallsGood
  <2>2. UNCHANGED <<home, killed>> /\ (up' = up \/ Start)
    BY <1>3 DEF Calls, ConfigureDisplay, ReconfigureDisplay, RecoverDisplay, RefusalRestores,
                Cancel, ShutDown, Start
  <2> QED  BY <1>2, <2>1, <2>2
<1>4. CASE Asides
  <2>1. d' = d /\ UNCHANGED <<up, home, killed>>
    BY <1>4 DEF Asides, BeginRequest, PublishTicket, RefuseRequest, SessionsEnd, AppExits, Lock,
                Unlock
  <2> QED  BY <1>2, <2>1 DEF Keeps
<1>5. CASE Background
  BY <1>0, <1>2, <1>5, BackgroundGood
<1>6. CASE Ends
  <2>1. Expected' => Kept(d', home)  BY <1>0, <1>6, EndGood DEF Ends
  <2>2. up' = FALSE /\ home' = home  BY <1>6 DEF Ends, Deinit, Crash, CrashInApply
  <2> QED  BY <1>0, <2>1, <2>2 DEF LayoutInv
<1>7. CASE ResetPersistence
  BY <1>0, <1>7 DEF ResetPersistence, LayoutInv, Expected
<1>8. CASE UNCHANGED vars
  BY <1>0, <1>8 DEF LayoutInv, Expected, vars
<1> QED  BY <1>3, <1>4, <1>5, <1>6, <1>7, <1>8, NextCases

-----------------------------------------------------------------------------
(* Theorems.                                                                *)

\* The state of the display session and its workers is always of its type: no
\* retry is counted past the limit, however timer, worker and callers alternate.
THEOREM DisplayTypes == Spec => []TypeOK
<1>1. GoodInv => TypeOK  BY DEF GoodInv
<1> QED  BY <1>1, GoodAlways, PTL

\* A restore that is pending and still to be tried always has a snapshot in
\* memory to go back to, whatever its clients ask for (restore_state_impl, apply_config).
THEOREM PendingSnapshot == Spec => []PendingHasSnapshot
<1>1. GoodInv => PendingHasSnapshot  BY DEF GoodInv, Tried, PendingHasSnapshot
<1> QED  BY <1>1, GoodAlways, PTL

\* No background callback changes what is shown during a stream: between its
\* look at session_starting_or_active and its change it holds the mutex, which
\* a launch needs before it can publish anything.
THEOREM StreamUndisturbed == Spec => CaptureUndisturbed
<1>1. GoodInv /\ [Next]_vars =>
        [host = "streaming" /\ host' = "streaming" /\ Background => d'.shown = d.shown]_vars
  <2> SUFFICES ASSUME GoodInv, host = "streaming", Background
               PROVE  d'.shown = d.shown
    OBVIOUS
  <2>1. d.holder \notin {"task", "poll", "apply"}  BY DEF GoodInv
  <2> QED  BY <2>1, BackgroundGood
<1> QED  BY <1>1, GoodAlways, PTL DEF Spec, CaptureUndisturbed

LEMMA LayoutAlways ==
  ASSUME Alike
  PROVE  Spec => []LayoutInv
<1>1. Init => LayoutInv  BY InitGood
<1>2. LayoutInv /\ [Next]_vars => LayoutInv'  BY NextLayout
<1> QED  BY <1>1, <1>2, PTL DEF Spec

\* When the clients of a host are alike, the snapshot is the layout the user had
\* before the first of them, whatever requests, retries, failures and crashes
\* have changed it since (settings.cpp: the "first initial topology").
THEOREM OriginalIsKept ==
  ASSUME Alike
  PROVE  Spec => []OriginalKept
<1>1. LayoutInv => OriginalKept
  <2> SUFFICES ASSUME LayoutInv, Expected, d.base # home PROVE d.saved = home
    BY DEF OriginalKept
  <2> QED  BY DEF LayoutInv, Kept
<1> QED  BY <1>1, LayoutAlways, PTL

\* And a session that is forgotten has given the user his layout back.
THEOREM ForgottenHasRestored ==
  ASSUME Alike
  PROVE  Spec => []ForgottenIsRestored
<1>1. LayoutInv => ForgottenIsRestored
  <2> SUFFICES ASSUME LayoutInv, Expected, up, d.use_vdd = "none" PROVE d.shown = home
    BY DEF ForgottenIsRestored
  <2>1. d.shown \notin VddLayouts /\ d.base = home
    BY DEF LayoutInv, Kept, Cleared
  <2>2. d.shown = d.base  BY <2>1 DEF LayoutInv, GoodInv, Sane
  <2> QED  BY <2>1, <2>2
<1> QED  BY <1>1, LayoutAlways, PTL
=============================================================================
